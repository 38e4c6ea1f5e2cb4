---------------------- MODULE ResponseEvaluationProofs -----------------------
(***************************************************************************)
(* Proofs about ResponseEvaluation: any number of concurrent requests, any *)
(* entities and inventory, any sequence of telemetry, incident updates,    *)
(* kernel and store failures and restarts.  First what the policy, the     *)
(* kernel around it and the choice of a target guarantee of any input.     *)
(***************************************************************************)
EXTENDS ResponseEvaluation, WellFoundedInduction, FiniteSetTheorems, TLAPS

-----------------------------------------------------------------------------
(* The policy *)

(* Every input has one of the three effects response.rego defines.          *)
LEMMA EffectIsEffect == \A in : Effect(in) \in Effects
BY DEF Effect, Effects

(* response.rego allows only what no rule denies and no rule holds back.    *)
LEMMA AllowMeansNoRule ==
  ASSUME NEW in, Effect(in) = "allow"
  PROVE  /\ ~in.destructive /\ in.known /\ in.mode \in Modes
         /\ in.reversible /\ ~in.critical /\ in.mode # "execute"
         /\ in.automated => /\ ~(in.categories < MinEvidenceCategories)
                            /\ ~(in.risk < MinAutomatedRiskScore)
<1>1. ~Denied(in) /\ ~NeedsApproval(in)
  BY DEF Effect
<1>2. ~in.destructive /\ in.known /\ in.mode \in Modes
  BY <1>1 DEF Denied, DenyRules
<1>3. /\ in.reversible /\ ~in.critical /\ in.mode # "execute"
      /\ in.automated => /\ ~(in.categories < MinEvidenceCategories)
                         /\ ~(in.risk < MinAutomatedRiskScore)
  BY <1>1 DEF NeedsApproval, ApprovalRules
<1>4. QED
  BY <1>2, <1>3

(* docs/SAFETY_MODEL.md, rules 1 to 6, for every input EvaluateAction can   *)
(* build: what the policy allows is reversible and not destructive, asked as *)
(* a simulation, on a target not resolved as critical, and corroborated and *)
(* risky enough if nobody but automation asked.                             *)
THEOREM AllowedIsSafe ==
  ASSUME NEW type \in ActionTypes, NEW mode \in Modes,
         NEW critical \in BOOLEAN, NEW automated \in BOOLEAN,
         NEW evidence \in Nat, NEW risk \in Nat,
         Effect(PolicyInput(type, mode, critical, evidence, risk, automated))
           = "allow"
  PROVE  /\ type \in DOMAIN RollbackAction \ Destructive
         /\ mode = "simulate"
         /\ ~critical
         /\ automated => evidence >= 2 /\ risk >= 40
<1> DEFINE in == PolicyInput(type, mode, critical, evidence, risk, automated)
<1>1. /\ in.destructive <=> type \in Destructive
      /\ in.reversible <=> type \in Reversible
      /\ in.critical <=> critical
      /\ in.automated <=> automated
      /\ in.mode = mode /\ in.categories = evidence /\ in.risk = risk
  BY DEF PolicyInput
<1>2. /\ ~in.destructive /\ in.reversible /\ ~in.critical
      /\ in.mode \in Modes /\ in.mode # "execute"
      /\ in.automated => /\ ~(in.categories < MinEvidenceCategories)
                         /\ ~(in.risk < MinAutomatedRiskScore)
  BY AllowMeansNoRule
<1>3. type \in DOMAIN RollbackAction \ Destructive
  BY <1>1, <1>2 DEF Reversible
<1>4. mode = "simulate" /\ ~critical
  BY <1>1, <1>2 DEF Modes
<1>5. automated => evidence >= 2 /\ risk >= 40
  <2> SUFFICES ASSUME automated
               PROVE  evidence >= 2 /\ risk >= 40
    OBVIOUS
  <2>1. ~(evidence < MinEvidenceCategories) /\ ~(risk < MinAutomatedRiskScore)
    BY <1>1, <1>2
  <2>2. QED
    BY <2>1 DEF MinEvidenceCategories, MinAutomatedRiskScore
<1>6. QED
  BY <1>3, <1>4, <1>5

-----------------------------------------------------------------------------
(* The kernel *)

(* internal/policy: whatever the engine publishes, a decision that is not a *)
(* considered verdict is a denial marked as such; with GRIEFER's bundle a   *)
(* considered verdict is the policy's own; with no engine there is none.    *)
THEOREM KernelFailsClosed ==
  ASSUME NEW published \in Bundles, NEW in, NEW d \in KernelAnswers(published, in)
  PROVE  /\ d \in Decisions
         /\ d.failClosed <=> d.error # "none"
         /\ d.failClosed => d.effect = "deny"
         /\ published = "none" => d.failClosed
         /\ published = "griefer" /\ ~d.failClosed => d.effect = Effect(in)
<1>1. CASE \E error \in {"timeout", "unavailable"} : d = FailClosed(error)
  BY <1>1 DEF FailClosed, Decisions, Effects
<1>2. CASE \E doc \in Documents(published, in) : d = Decided(doc)
  <2>1. PICK doc \in Documents(published, in) : d = Decided(doc)
    BY <1>2
  <2>2. published # "none"
    BY <2>1 DEF Documents
  <2>3. published = "griefer" => doc = GrieferDocument(in)
    BY <2>1 DEF Documents
  <2>4. published = "griefer" => doc.effect = Effect(in)
    BY <2>3 DEF GrieferDocument
  <2>5. CASE WellFormed(doc)
    BY <2>1, <2>2, <2>4, <2>5 DEF Decided, WellFormed, Decisions
  <2>6. CASE ~WellFormed(doc)
    BY <2>1, <2>2, <2>6 DEF Decided, FailClosed, Decisions, Effects
  <2>7. QED
    BY <2>5, <2>6
<1>3. QED
  BY <1>1, <1>2 DEF KernelAnswers

-----------------------------------------------------------------------------
(* Statuses and what the trail says of them *)

(* applyDecision: only an allow in mode simulate is simulated, a denial is  *)
(* denied.                                                                  *)
LEMMA StatusFacts ==
  ASSUME NEW mode, NEW effect \in Effects
  PROVE  /\ StatusFor(mode, effect) \in Statuses \ {"rejected"}
         /\ StatusFor(mode, effect) = "simulated"
              <=> mode = "simulate" /\ effect = "allow"
         /\ effect = "deny" => StatusFor(mode, effect) = "denied"
BY DEF StatusFor, Statuses, Effects

(* evaluationResult: a kernel error is told as such, and nothing else is.   *)
LEMMA ResultFacts ==
  ASSUME NEW d \in Decisions, NEW status \in Statuses
  PROVE  /\ ResultFor(status, d) \in Results
         /\ d.error # "none" <=>
              ResultFor(status, d) \in {"policy_timeout", "policy_unavailable"}
         /\ d.error = "none" /\ status = "simulated"
              => ResultFor(status, d) = "allowed"
BY DEF Decisions, Statuses, ResultFor, Results

-----------------------------------------------------------------------------
(* Recommendations *)

(* Criticality.Rank has four values.                                        *)
LEMMA RankIsBounded == \A level : Rank(level) \in 0..3
BY DEF Rank

(* Nothing ranks as high as critical but critical itself.                   *)
LEMMA CriticalIsHighest == \A level : ~(Rank(level) > Rank("critical"))
BY DEF Rank

(* A set of entities has a smallest id.                                     *)
LEMMA LeastEntity ==
  ASSUME NEW S \in SUBSET Entities, S # {}
  PROVE  \E e \in S : \A f \in S : e <= f
<1>1. S \subseteq Nat
  BY EntitiesAreNumbered
<1>2. PICK e \in S : \A f \in S : <<f, e>> \notin OpToRel(<, Nat)
  BY <1>1, NatLessThanWellFounded, WFMin
<1>3. \A f \in S : f < e => <<f, e>> \in OpToRel(<, Nat)
  BY <1>1 DEF OpToRel
<1>4. \A f \in S : ~(f < e)
  BY <1>2, <1>3
<1>5. \A f \in S : f \in Nat /\ e \in Nat
  BY <1>1
<1>6. QED
  BY <1>4, <1>5

(* Both selection loops end on one of the candidates, and on none that      *)
(* another outranks.                                                        *)
LEMMA MostCriticalIsCandidate ==
  ASSUME NEW candidates \in SUBSET Entities, candidates # {}, NEW crit
  PROVE  /\ MostCritical(candidates, crit) \in candidates
         /\ \A f \in candidates :
              Rank(crit[f]) <= Rank(crit[MostCritical(candidates, crit)])
<1> DEFINE OfRank(k) == {e \in candidates : Rank(crit[e]) = k}
<1>1. PICK k \in 0..3 : OfRank(k) # {} /\ \A j \in 0..3 : j > k => OfRank(j) = {}
  <2>1. \A e \in candidates : e \in OfRank(Rank(crit[e]))
    OBVIOUS
  <2>2. OfRank(0) # {} \/ OfRank(1) # {} \/ OfRank(2) # {} \/ OfRank(3) # {}
    <3>1. PICK e \in candidates : TRUE
      OBVIOUS
    <3>2. Rank(crit[e]) \in 0..3
      BY RankIsBounded
    <3>3. e \in OfRank(Rank(crit[e]))
      BY <2>1
    <3>4. Rank(crit[e]) = 0 \/ Rank(crit[e]) = 1 \/ Rank(crit[e]) = 2 \/ Rank(crit[e]) = 3
      BY <3>2
    <3>5. QED
      BY <3>3, <3>4
  <2> HIDE DEF OfRank
  <2>3. QED
    BY <2>2
<1>2. PICK e \in OfRank(k) : \A f \in OfRank(k) : e <= f
  BY <1>1, LeastEntity, OfRank(k) \in SUBSET Entities
<1>3. ASSUME NEW f \in candidates
      PROVE  \/ Rank(crit[f]) < Rank(crit[e])
             \/ Rank(crit[f]) = Rank(crit[e]) /\ e <= f
  <2>1. Rank(crit[f]) \in 0..3 /\ f \in OfRank(Rank(crit[f]))
    BY RankIsBounded
  <2>2. Rank(crit[f]) <= k
    BY <1>1, <2>1
  <2>3. CASE Rank(crit[f]) = k
    BY <1>2, <2>3
  <2>4. CASE Rank(crit[f]) < k
    BY <1>2, <2>4
  <2>5. QED
    BY <2>1, <2>2, <2>3, <2>4
<1> DEFINE most == MostCritical(candidates, crit)
<1>4. /\ most \in candidates
      /\ \A f \in candidates : \/ Rank(crit[f]) < Rank(crit[most])
                               \/ Rank(crit[f]) = Rank(crit[most]) /\ most <= f
  BY <1>2, <1>3 DEF MostCritical
<1>5. QED
  BY <1>4, RankIsBounded

(* resolveTarget: a recommendation's target is an entity of the incident, of *)
(* a type its action acts upon, or there is none.                           *)
LEMMA RecommendedTargetIsPresent ==
  ASSUME NEW type, NEW inc,
         RecommendedTarget(type, inc) # NoEntity
  PROVE  RecommendedTarget(type, inc) \in Present(inc.crit)
<1> DEFINE Candidates(i) == EntitiesOfType(inc.crit, TargetTypes(type)[i])
           Matching == {i \in DOMAIN TargetTypes(type) : Candidates(i) # {}}
<1>1. Matching # {}
  BY DEF RecommendedTarget
<1>2. PICK first \in Matching : \A j \in Matching : first <= j
  <2>1. \/ DOMAIN TargetTypes(type) = {1, 2}
        \/ DOMAIN TargetTypes(type) = {1}
        \/ DOMAIN TargetTypes(type) = {}
    BY DEF TargetTypes
  <2> HIDE DEF Candidates
  <2>2. QED
    BY <1>1, <2>1
<1> DEFINE chosen == CHOOSE i \in Matching : \A j \in Matching : i <= j
<1>3. chosen \in Matching
  BY <1>2
<1>4. Candidates(chosen) # {} /\ Candidates(chosen) \in SUBSET Entities
  BY <1>3 DEF EntitiesOfType, Present
<1>5. RecommendedTarget(type, inc) = MostCritical(Candidates(chosen), inc.crit)
  BY <1>1 DEF RecommendedTarget
<1>6. MostCritical(Candidates(chosen), inc.crit) \in Candidates(chosen)
  BY <1>4, MostCriticalIsCandidate
<1>7. QED
  BY <1>5, <1>6 DEF EntitiesOfType

-----------------------------------------------------------------------------
(* The inductive invariant *)

(* An action refused, or a request refused before there is an action. *)
Refusals(a) ==
  {NoAction(a, "denied", "validation_failed"), NoAction(a, "failure", "internal_error")}
    \union {RejectedAction(a, result) : result \in {"invalid_action", "validation_failed"}}

(* The draft is the verdict of the kernel on what the request resolved. *)
Considered(r) ==
  /\ snapshot[r] \in Incidents
  /\ ask[r].type \in ActionTypes /\ ModeOf(ask[r]) \in Modes
  /\ \E d \in KernelAnswers(bundle, InputOf(r)) :
       draft[r] = JudgedAction(ask[r], target[r], d)

DraftIsVerdict(r) ==
  draft[r] # Nothing => draft[r] \in Refusals(ask[r]) \/ Considered(r)

(* How far a request has come says what it has. *)
StageTells(r) ==
  /\ stage[r] \in {"idle", "loading", "resolving", "deciding"} =>
       draft[r] = Nothing /\ Unrecorded(r)
  /\ stage[r] = "persisting" => draft[r] # Nothing /\ Unrecorded(r)
  /\ stage[r] \in {"loading", "resolving", "deciding"} =>
       ask[r].type \in ActionTypes /\ ModeOf(ask[r]) \in Modes
  /\ stage[r] \in {"resolving", "deciding"} => snapshot[r] \in Incidents
  /\ stage[r] \in {"idle", "loading", "resolving"} => target[r].id = NoEntity

RecordedAsDrafted(r) ==
  ~Unrecorded(r) =>
    draft[r] # Nothing /\ rows[r] = draft[r].row /\ trail[r] = draft[r].entries

(* Until the target is resolved, the graph forgets no alarm: only a restart *)
(* lowers a criticality, and that ends the request.                         *)
AlarmStands(r) ==
  stage[r] \in {"loading", "resolving"} =>
    \A e \in alarm[r] : graph[e] = "critical"

RecommendedAim(r) ==
  target[r].id \in alarm[r] =>
    \/ ask[r].type \notin Recommended(snapshot[r])
    \/ RecommendedTarget(ask[r].type, snapshot[r]) = NoEntity
    \/ target[r].critical

RequestInv(r) ==
  /\ DraftIsVerdict(r) /\ StageTells(r) /\ RecordedAsDrafted(r)
  /\ AlarmStands(r) /\ RecommendedAim(r)

IInv == TypeOK /\ \A r \in Requests : RequestInv(r)

-----------------------------------------------------------------------------
(* What a draft may look like *)

(* The audit shape that base builds is an entry.                            *)
LEMMA EntryIsEntry ==
  ASSUME NEW a \in AskRecords,
         NEW action \in { "policy.evaluated", "response.simulated",
                          "response.denied", "response.rejected",
                          "response.requires_approval" },
         NEW outcome \in {"success", "denied", "pending", "failure"},
         NEW result \in Results
  PROVE  /\ Entry(a, action, outcome, result) \in Entries
         /\ Entry(a, action, outcome, result).action = action
         /\ Entry(a, action, outcome, result).outcome = outcome
         /\ Entry(a, action, outcome, result).result = result
         /\ Entry(a, action, outcome, result).actor = ActorOf(a)
         /\ ActorOf(a) \in Actors
BY DEF AskRecords, Entry, Entries, ActorOf, Actors, NoOperator

(* A mode is known after the default is applied, or it is the unlisted one. *)
LEMMA ModeIsMode == \A a \in AskRecords : ModeOf(a) \in Modes \union {"unlisted"}
BY DEF AskRecords, ModeOf, Modes

(* A unit refused before any policy was asked tells one story: rejected.    *)
LEMMA RefusalIsUnit ==
  ASSUME NEW a \in AskRecords, NEW unit \in Refusals(a)
  PROVE  /\ unit \in Units
         /\ Coherent(unit.row, unit.entries)
         /\ unit.row # Nothing => unit.row.status = "rejected" /\ ~unit.row.failClosed
         /\ \A i \in DOMAIN unit.entries :
              unit.entries[i].result \notin {"policy_timeout", "policy_unavailable"}
         /\ unit.entries # <<>>
<1>1. CASE \E outcome \in {"denied", "failure"},
              result \in {"validation_failed", "internal_error"} :
             unit = NoAction(a, outcome, result)
  <2>1. PICK outcome \in {"denied", "failure"},
             result \in {"validation_failed", "internal_error"} :
               unit = NoAction(a, outcome, result)
    BY <1>1
  <2> DEFINE e == Entry(a, "response.rejected", outcome, result)
  <2>2. e \in Entries /\ e.action = "response.rejected" /\ e.result = result
    BY EntryIsEntry DEF Results
  <2>3. unit.row = Nothing /\ unit.entries = <<e>>
    BY <2>1 DEF NoAction
  <2>4. unit \in Units
    BY <2>1, <2>2 DEF NoAction, Units
  <2> HIDE DEF e
  <2>5. QED
    BY <2>2, <2>3, <2>4 DEF Coherent
<1>2. CASE \E result \in {"invalid_action", "validation_failed"} :
             unit = RejectedAction(a, result)
  <2>1. PICK result \in {"invalid_action", "validation_failed"} :
          unit = RejectedAction(a, result)
    BY <1>2
  <2> DEFINE e == Entry(a, "response.rejected", "denied", result)
  <2>2. /\ e \in Entries /\ e.action = "response.rejected" /\ e.result = result
        /\ e.actor = ActorOf(a) /\ ActorOf(a) \in Actors
    BY EntryIsEntry DEF Results
  <2>3. unit.row = [ type |-> a.type, mode |-> ModeOf(a), by |-> ActorOf(a),
                     target |-> NoEntity, status |-> "rejected",
                     effect |-> "none", failClosed |-> FALSE ]
        /\ unit.entries = <<e>>
    BY <2>1 DEF RejectedAction
  <2>4. unit.row \in Rows
    <3>1. a.type \in ActionTypes \union {"unlisted"}
      BY DEF AskRecords
    <3>2. ModeOf(a) \in Modes \union {"unlisted"}
      BY ModeIsMode
    <3>3. QED
      BY <2>2, <2>3, <3>1, <3>2 DEF Rows, Statuses
  <2>5. unit.row # Nothing
    BY <2>4, NothingIsNothing
  <2>6. unit \in Units
    BY <2>1, <2>2, <2>4 DEF RejectedAction, Units
  <2>7. /\ unit.row.by = e.actor /\ unit.row.status = "rejected"
        /\ ~unit.row.failClosed
    BY <2>2, <2>3
  <2> HIDE DEF e
  <2>8. QED
    BY <2>2, <2>3, <2>5, <2>6, <2>7 DEF Coherent, AuditActionFor
<1>3. QED
  BY <1>1, <1>2 DEF Refusals

(* A judged action's unit tells one story: its row is the status of the     *)
(* verdict, and its two entries give the verdict's outcome and result.      *)
LEMMA JudgedIsUnit ==
  ASSUME NEW a \in AskRecords, NEW t \in Targets, NEW d \in Decisions,
         a.type \in ActionTypes, ModeOf(a) \in Modes,
         d.failClosed <=> d.error # "none",
         d.failClosed => d.effect = "deny"
  PROVE  LET unit == JudgedAction(a, t, d) IN
         /\ unit \in Units
         /\ Coherent(unit.row, unit.entries)
         /\ unit.row # Nothing
         /\ unit.row.status = StatusFor(ModeOf(a), d.effect)
         /\ unit.row.failClosed = d.failClosed
         /\ \A i \in DOMAIN unit.entries :
              unit.entries[i].result \in {"policy_timeout", "policy_unavailable"}
                <=> d.failClosed
         /\ unit.entries # <<>>
<1> DEFINE unit == JudgedAction(a, t, d)
           status == StatusFor(ModeOf(a), d.effect)
           result == ResultFor(status, d)
           outcome == AuditOutcomeFor(d.effect)
           first == Entry(a, "policy.evaluated", outcome, result)
           last == Entry(a, AuditActionFor(status), outcome, result)
<1>1. d.effect \in Effects /\ d.failClosed \in BOOLEAN
  BY DEF Decisions
<1>2. /\ status \in Statuses \ {"rejected"}
      /\ status = "simulated" => d.effect = "allow"
  BY <1>1, StatusFacts
<1>3. /\ result \in Results
      /\ d.error # "none" <=> result \in {"policy_timeout", "policy_unavailable"}
      /\ d.error = "none" /\ status = "simulated" => result = "allowed"
  BY <1>2, ResultFacts
<1>4. /\ outcome \in {"success", "denied", "pending", "failure"}
      /\ d.effect = "allow" => outcome = "success"
  BY <1>1 DEF AuditOutcomeFor, Effects
<1>5. AuditActionFor(status) \in { "response.simulated", "response.denied",
                                   "response.rejected", "response.requires_approval" }
  BY <1>2 DEF AuditActionFor, Statuses
<1>6. /\ first \in Entries /\ first.action = "policy.evaluated"
      /\ first.result = result /\ first.actor = ActorOf(a)
      /\ ActorOf(a) \in Actors
  BY <1>3, <1>4, EntryIsEntry
<1>7. /\ last \in Entries /\ last.action = AuditActionFor(status)
      /\ last.result = result /\ last.outcome = outcome /\ last.actor = ActorOf(a)
  BY <1>3, <1>4, <1>5, EntryIsEntry
<1>8. /\ unit.row = [ type |-> a.type, mode |-> ModeOf(a), by |-> ActorOf(a),
                      target |-> t.id, status |-> status,
                      effect |-> d.effect, failClosed |-> d.failClosed ]
      /\ unit.entries = <<first, last>>
      /\ unit = [row |-> unit.row, entries |-> unit.entries]
  BY DEF JudgedAction
<1>9. unit.row \in Rows
  <2>1. t.id \in Entities \union {NoEntity}
    BY DEF Targets
  <2>2. QED
    BY <1>1, <1>2, <1>6, <1>8, <2>1 DEF Rows
<1> HIDE DEF unit, status, result, outcome, first, last
<1>10. unit \in Units
  <2>1. <<first, last>> \in Seq(Entries)
    BY <1>6, <1>7
  <2>2. unit.row \in Rows \union {Nothing} /\ unit.entries \in Seq(Entries)
    BY <1>8, <1>9, <2>1
  <2>3. [row |-> unit.row, entries |-> unit.entries] \in Units
    BY <2>2 DEF Units
  <2>4. QED
    BY <1>8, <2>3
<1>11. unit.row # Nothing
  BY <1>9, NothingIsNothing
<1>12. /\ unit.row.by = ActorOf(a) /\ unit.row.status = status
       /\ unit.row.failClosed = d.failClosed
  BY <1>8
<1>13. status = "simulated" => outcome = "success" /\ result = "allowed"
  BY <1>2, <1>3, <1>4
<1>14. Coherent(unit.row, unit.entries)
  BY <1>2, <1>6, <1>7, <1>8, <1>11, <1>12, <1>13 DEF Coherent
<1>15. \A i \in DOMAIN unit.entries :
         unit.entries[i].result \in {"policy_timeout", "policy_unavailable"}
           <=> d.failClosed
  BY <1>3, <1>6, <1>7, <1>8
<1>16. QED
  BY <1>8, <1>10, <1>11, <1>12, <1>14, <1>15 DEF unit, status

(* So every draft is a coherent unit.                                       *)
LEMMA VerdictIsUnit ==
  ASSUME IInv, NEW r \in Requests, draft[r] # Nothing
  PROVE  /\ draft[r] \in Units
         /\ Coherent(draft[r].row, draft[r].entries)
         /\ draft[r].entries # <<>>
<1>1. ask[r] \in AskRecords /\ target[r] \in Targets /\ bundle \in Bundles
  BY DEF IInv, TypeOK
<1>2. draft[r] \in Refusals(ask[r]) \/ Considered(r)
  BY DEF IInv, RequestInv, DraftIsVerdict
<1>3. CASE draft[r] \in Refusals(ask[r])
  BY <1>1, <1>3, RefusalIsUnit
<1>4. CASE Considered(r)
  <2>1. PICK d \in KernelAnswers(bundle, InputOf(r)) :
          draft[r] = JudgedAction(ask[r], target[r], d)
    BY <1>4 DEF Considered
  <2>2. /\ d \in Decisions
        /\ d.failClosed <=> d.error # "none"
        /\ d.failClosed => d.effect = "deny"
    BY <1>1, KernelFailsClosed
  <2>3. QED
    BY <1>1, <1>4, <2>1, <2>2, JudgedIsUnit DEF Considered
<1>5. QED
  BY <1>2, <1>3, <1>4

-----------------------------------------------------------------------------
(* Steps that do not concern a request *)

SameRequest(r) ==
  /\ stage'[r] = stage[r] /\ ask'[r] = ask[r] /\ alarm'[r] = alarm[r]
  /\ snapshot'[r] = snapshot[r] /\ target'[r] = target[r]
  /\ draft'[r] = draft[r] /\ rows'[r] = rows[r] /\ trail'[r] = trail[r]

(* A step that leaves a request alone, and no criticality lowered, keeps its*)
(* invariant.                                                               *)
LEMMA OthersKeepRequest ==
  ASSUME IInv, NEW r \in Requests, SameRequest(r), bundle' = bundle,
         \A e \in Entities : graph[e] = "critical" => graph'[e] = "critical"
  PROVE  RequestInv(r)'
<1> USE DEF SameRequest
<1>1. RequestInv(r) /\ alarm[r] \in SUBSET Entities
  BY DEF IInv, TypeOK
<1>2. Unrecorded(r)' = Unrecorded(r)
  BY DEF Unrecorded
<1>3. InputOf(r)' = InputOf(r)
  BY DEF InputOf
<1>4. Considered(r)' = Considered(r)
  BY <1>3 DEF Considered
<1>5. DraftIsVerdict(r)'
  BY <1>1, <1>4 DEF RequestInv, DraftIsVerdict
<1>6. StageTells(r)'
  BY <1>1, <1>2 DEF RequestInv, StageTells
<1>7. RecordedAsDrafted(r)'
  BY <1>1, <1>2 DEF RequestInv, RecordedAsDrafted
<1>8. AlarmStands(r)'
  BY <1>1 DEF RequestInv, AlarmStands
<1>9. RecommendedAim(r)'
  BY <1>1 DEF RequestInv, RecommendedAim
<1>10. QED
  BY <1>5, <1>6, <1>7, <1>8, <1>9 DEF RequestInv

(* Telemetry may only raise a criticality. *)
LEMMA ObserveKeepsInvariant ==
  ASSUME IInv, NEW e \in Entities, NEW level \in Levels, Observe(e, level)
  PROVE  IInv'
<1> USE DEF Observe, durable
<1>1. graph' \in Criticalities
  BY DEF IInv, TypeOK, Criticalities
<1>2. TypeOK'
  BY <1>1 DEF IInv, TypeOK
<1>3. \A f \in Entities : graph[f] = "critical" => graph'[f] = "critical"
  BY CriticalIsHighest DEF IInv, TypeOK, Criticalities
<1>4. ASSUME NEW r \in Requests
      PROVE  RequestInv(r)'
  BY <1>3, OthersKeepRequest DEF SameRequest
<1>5. QED
  BY <1>2, <1>4 DEF IInv

(* A new version of the incident does not touch what a request has read.    *)
LEMMA CorrelateKeepsInvariant ==
  ASSUME IInv, NEW report \in Reports, Correlate(report)
  PROVE  IInv'
<1> USE DEF Correlate, durable
<1>1. CopyFromGraph(report.touched) \in Criticalities
  BY DEF IInv, TypeOK, CopyFromGraph, Criticalities, Levels
<1>2. incident' \in Incidents
  <2>1. report.categories \in SUBSET Categories /\ report.risk \in 0..100
    BY ReportsAreEvidence
  <2>2. QED
    BY <1>1, <2>1 DEF Incidents
<1>3. reports' \in 0..MaxReports
  BY BoundsAreNaturals DEF IInv, TypeOK
<1>4. TypeOK'
  BY <1>2, <1>3 DEF IInv, TypeOK
<1>5. ASSUME NEW r \in Requests
      PROVE  RequestInv(r)'
  BY OthersKeepRequest DEF SameRequest
<1>6. QED
  BY <1>4, <1>5 DEF IInv

(* A restart forgets what raised the graph above the inventory, and ends    *)
(* every request that still has its target to resolve.                      *)
LEMMA RestartKeepsInvariant ==
  ASSUME IInv, Restart
  PROVE  IInv'
<1> USE DEF Restart, durable
<1>1. TypeOK'
  <2>1. restarts' \in 0..MaxRestarts
    BY BoundsAreNaturals DEF IInv, TypeOK
  <2>2. stage' \in [Requests -> Stages]
    BY DEF IInv, TypeOK, Stages
  <2>3. QED
    BY <2>1, <2>2, InventoryIsCriticality DEF IInv, TypeOK
<1>2. ASSUME NEW r \in Requests
      PROVE  RequestInv(r)'
  <2>1. /\ stage'[r] = stage[r] /\ stage[r] \in {"idle", "answered", "lost"}
        \/ stage'[r] = "lost"
    BY DEF InFlight, IInv, TypeOK, Stages
  <2>2. RequestInv(r)
    BY DEF IInv
  <2>3. Unrecorded(r)' = Unrecorded(r) /\ Considered(r)' = Considered(r)
    BY DEF Unrecorded, Considered, InputOf
  <2>4. DraftIsVerdict(r)' /\ RecordedAsDrafted(r)' /\ RecommendedAim(r)'
    BY <2>2, <2>3 DEF RequestInv, DraftIsVerdict, RecordedAsDrafted, RecommendedAim
  <2>5. StageTells(r)' /\ AlarmStands(r)'
    BY <2>1, <2>2, <2>3 DEF RequestInv, StageTells, AlarmStands
  <2>6. QED
    BY <2>4, <2>5 DEF RequestInv
<1>3. QED
  BY <1>1, <1>2 DEF IInv

-----------------------------------------------------------------------------
(* Steps of a request *)

(* A step of one request keeps the invariant if it keeps the types and what *)
(* holds of that request.                                                   *)
LEMMA OneRequestMoves ==
  ASSUME IInv, NEW q \in Requests, TypeOK', RequestInv(q)', UNCHANGED environment,
         \A r \in Requests : r # q => SameRequest(r)
  PROVE  IInv'
<1>1. ASSUME NEW r \in Requests, r # q
      PROVE  RequestInv(r)'
  BY <1>1, OthersKeepRequest DEF environment
<1>2. QED
  BY <1>1 DEF IInv

(* A request that arrives goes on to load its incident, or drafts its       *)
(* rejection.                                                               *)
LEMMA ReceiveKeepsInvariant ==
  ASSUME IInv, NEW q \in Requests, NEW a \in Asks, Receive(q, a)
  PROVE  IInv'
<1> USE DEF Receive, Goto, durable, environment
<1>1. a \in AskRecords
  BY AsksAreRequests
<1>2. RequestInv(q) /\ stage[q] = "idle"
  BY DEF IInv
<1>3. draft[q] = Nothing /\ Unrecorded(q) /\ target[q].id = NoEntity
  BY <1>2 DEF RequestInv, StageTells
<1>4. /\ ask' = [ask EXCEPT ![q] = a]
      /\ alarm' = [alarm EXCEPT ![q] = {e \in Entities : graph[e] = "critical"}]
      /\ ask'[q] = a /\ alarm'[q] = {e \in Entities : graph[e] = "critical"}
      /\ UNCHANGED <<bundle, graph, incident, reports, restarts, snapshot, target,
                     rows, trail>>
  BY DEF IInv, TypeOK
<1>5. \/ /\ \E result \in {"invalid_action", "validation_failed"} :
              draft' = [draft EXCEPT ![q] = RejectedAction(a, result)]
         /\ stage' = [stage EXCEPT ![q] = "persisting"]
      \/ /\ a.type \in ActionTypes /\ ModeOf(a) \in Modes /\ draft' = draft
         /\ stage' = [stage EXCEPT ![q] = "loading"]
  OBVIOUS
<1> HIDE DEF Receive
<1>6. \A r \in Requests : r # q => SameRequest(r)
  BY <1>4, <1>5 DEF SameRequest, IInv, TypeOK
<1>7. Unrecorded(q)' /\ target'[q].id = NoEntity /\ NoEntity \notin Entities
  BY <1>3, <1>4, EntitiesAreNumbered DEF Unrecorded
<1>8. RecommendedAim(q)'
  BY <1>4, <1>7 DEF RecommendedAim
<1>9. CASE \E result \in {"invalid_action", "validation_failed"} :
             /\ draft' = [draft EXCEPT ![q] = RejectedAction(a, result)]
             /\ stage' = [stage EXCEPT ![q] = "persisting"]
  <2>1. PICK result \in {"invalid_action", "validation_failed"} :
             /\ draft' = [draft EXCEPT ![q] = RejectedAction(a, result)]
             /\ stage' = [stage EXCEPT ![q] = "persisting"]
    BY <1>9
  <2>2. RejectedAction(a, result) \in Refusals(a)
    BY DEF Refusals
  <2>3. RejectedAction(a, result) \in Units
    BY <1>1, <2>2, RefusalIsUnit
  <2>4. TypeOK'
    BY <1>1, <1>4, <2>1, <2>3 DEF IInv, TypeOK, Stages
  <2>5. draft'[q] = RejectedAction(a, result) /\ stage'[q] = "persisting"
    BY <2>1 DEF IInv, TypeOK
  <2>6. draft'[q] # Nothing
    BY <2>3, <2>5, NothingIsNothing
  <2>7. RequestInv(q)'
    BY <1>4, <1>7, <1>8, <2>2, <2>5, <2>6
       DEF RequestInv, DraftIsVerdict, StageTells, RecordedAsDrafted, AlarmStands
  <2>8. QED
    BY <1>4, <1>6, <2>4, <2>7, OneRequestMoves
<1>10. CASE /\ a.type \in ActionTypes /\ ModeOf(a) \in Modes /\ draft' = draft
            /\ stage' = [stage EXCEPT ![q] = "loading"]
  <2>1. TypeOK'
    BY <1>1, <1>4, <1>10 DEF IInv, TypeOK, Stages
  <2>2. draft'[q] = Nothing /\ stage'[q] = "loading"
    BY <1>3, <1>10 DEF IInv, TypeOK
  <2>3. RequestInv(q)'
    BY <1>4, <1>7, <1>8, <1>10, <2>2
       DEF RequestInv, DraftIsVerdict, StageTells, RecordedAsDrafted, AlarmStands
  <2>4. QED
    BY <1>4, <1>6, <2>1, <2>3, OneRequestMoves
<1>11. QED
  BY <1>5, <1>9, <1>10

(* The snapshot is an incident, and stays the request's own.                *)
LEMMA LoadKeepsInvariant ==
  ASSUME IInv, NEW q \in Requests, Load(q)
  PROVE  IInv'
<1>1. /\ stage[q] = "loading" /\ stage' = [stage EXCEPT ![q] = "resolving"]
      /\ incident # Nothing /\ snapshot' = [snapshot EXCEPT ![q] = incident]
      /\ UNCHANGED <<bundle, graph, incident, reports, restarts, ask, alarm, target,
                     draft, rows, trail>>
  BY DEF Load, Goto, environment, durable
<1>2. RequestInv(q)
  BY DEF IInv
<1>3. TypeOK'
  BY <1>1 DEF IInv, TypeOK, Stages
<1>4. \A r \in Requests : r # q => SameRequest(r)
  BY <1>1 DEF SameRequest, IInv, TypeOK
<1>5. /\ stage'[q] = "resolving" /\ snapshot'[q] \in Incidents
      /\ draft'[q] = Nothing /\ Unrecorded(q)'
      /\ target'[q].id = NoEntity /\ NoEntity \notin alarm'[q]
  BY <1>1, <1>2, EntitiesAreNumbered
     DEF IInv, TypeOK, RequestInv, StageTells, Unrecorded
<1>6. RequestInv(q)'
  BY <1>1, <1>2, <1>5
     DEF RequestInv, DraftIsVerdict, StageTells, RecordedAsDrafted, AlarmStands,
         RecommendedAim
<1>7. QED
  BY <1>1, <1>3, <1>4, <1>6, OneRequestMoves DEF environment

(* IncidentMissing and LoadFails: a refusal with no action. *)
LEMMA RefusingKeepsInvariant ==
  ASSUME IInv, NEW q \in Requests, IncidentMissing(q) \/ LoadFails(q)
  PROVE  IInv'
<1>1. PICK unit \in {NoAction(ask[q], "denied", "validation_failed"),
                     NoAction(ask[q], "failure", "internal_error")} :
        /\ stage[q] = "loading" /\ stage' = [stage EXCEPT ![q] = "persisting"]
        /\ draft' = [draft EXCEPT ![q] = unit]
        /\ UNCHANGED <<bundle, graph, incident, reports, restarts, ask, alarm,
                       snapshot, target, rows, trail>>
  BY DEF IncidentMissing, LoadFails, Goto, environment, durable
<1>2. RequestInv(q) /\ ask[q] \in AskRecords
  BY DEF IInv, TypeOK
<1>3. unit \in Refusals(ask[q]) /\ unit \in Units /\ unit # Nothing
  BY <1>1, <1>2, RefusalIsUnit, NothingIsNothing DEF Refusals
<1>4. TypeOK'
  BY <1>1, <1>3 DEF IInv, TypeOK, Stages
<1>5. \A r \in Requests : r # q => SameRequest(r)
  BY <1>1 DEF SameRequest, IInv, TypeOK
<1>6. stage'[q] = "persisting" /\ draft'[q] = unit /\ Unrecorded(q)'
  BY <1>1, <1>2 DEF IInv, TypeOK, RequestInv, StageTells, Unrecorded
<1>7. RequestInv(q)'
  BY <1>1, <1>2, <1>3, <1>6
     DEF RequestInv, DraftIsVerdict, StageTells, RecordedAsDrafted, AlarmStands,
         RecommendedAim
<1>8. QED
  BY <1>1, <1>4, <1>5, <1>7, OneRequestMoves DEF environment

(* resolveActionTarget: a recommended target the graph holds critical is    *)
(* resolved as critical.                                                    *)
LEMMA TargetOfIsTarget ==
  ASSUME IInv, NEW type, NEW inc \in Incidents
  PROVE  /\ TargetOf(type, inc) \in Targets
         /\ type \in Recommended(inc) /\ RecommendedTarget(type, inc) # NoEntity =>
              /\ TargetOf(type, inc).id \in Entities
              /\ graph[TargetOf(type, inc).id] = "critical"
                   => TargetOf(type, inc).critical
<1> DEFINE aimed == RecommendedTarget(type, inc)
           worst == MostCritical(Present(inc.crit), inc.crit)
<1>1. CASE type \in Recommended(inc) /\ aimed # NoEntity
  <2>1. aimed \in Entities
    BY <1>1, RecommendedTargetIsPresent DEF Present
  <2>2. PICK c \in BOOLEAN :
          /\ TargetOf(type, inc) = [id |-> aimed, critical |-> c]
          /\ graph[aimed] = "critical" => c
    BY <1>1 DEF TargetOf
  <2>3. QED
    BY <2>1, <2>2 DEF Targets
<1>2. CASE ~(type \in Recommended(inc) /\ aimed # NoEntity)
  <2>1. CASE Present(inc.crit) = {}
    BY <1>2, <2>1 DEF TargetOf, Targets
  <2>2. CASE Present(inc.crit) # {}
    <3>1. Present(inc.crit) \in SUBSET Entities
      BY DEF Present
    <3>2. worst \in Entities
      BY <2>2, <3>1, MostCriticalIsCandidate
    <3>3. TargetOf(type, inc)
            = [id |-> worst, critical |-> inc.crit[worst] = "critical"]
      BY <1>2, <2>2 DEF TargetOf
    <3> HIDE DEF worst
    <3>4. QED
      BY <1>2, <3>2, <3>3 DEF Targets
  <2>3. QED
    BY <2>1, <2>2
<1>3. QED
  BY <1>1, <1>2

(* The target is aimed at while the request's alarm still stands in the     *)
(* graph.                                                                   *)
LEMMA ResolveKeepsInvariant ==
  ASSUME IInv, NEW q \in Requests, Resolve(q)
  PROVE  IInv'
<1> DEFINE t == TargetOf(ask[q].type, snapshot[q])
<1>1. /\ stage[q] = "resolving" /\ stage' = [stage EXCEPT ![q] = "deciding"]
      /\ target' = [target EXCEPT ![q] = t]
      /\ UNCHANGED <<bundle, graph, incident, reports, restarts, ask, alarm,
                     snapshot, draft, rows, trail>>
  BY DEF Resolve, Goto, environment, durable
<1>2. RequestInv(q)
  BY DEF IInv
<1>3. snapshot[q] \in Incidents
  BY <1>1, <1>2 DEF RequestInv, StageTells
<1>4. /\ t \in Targets
      /\ ask[q].type \in Recommended(snapshot[q])
           /\ RecommendedTarget(ask[q].type, snapshot[q]) # NoEntity
         => (graph[t.id] = "critical" => t.critical)
  BY <1>3, TargetOfIsTarget
<1> HIDE DEF t
<1>5. TypeOK'
  BY <1>1, <1>4 DEF IInv, TypeOK, Stages
<1>6. \A r \in Requests : r # q => SameRequest(r)
  BY <1>1 DEF SameRequest, IInv, TypeOK
<1>7. /\ stage'[q] = "deciding" /\ target'[q] = t
      /\ draft'[q] = Nothing /\ Unrecorded(q)'
  BY <1>1, <1>2 DEF IInv, TypeOK, RequestInv, StageTells, Unrecorded
<1>8. t.id \in alarm[q] => graph[t.id] = "critical"
  BY <1>1, <1>2 DEF RequestInv, AlarmStands
<1>9. RecommendedAim(q)'
  BY <1>1, <1>4, <1>7, <1>8 DEF RecommendedAim
<1>10. DraftIsVerdict(q)' /\ StageTells(q)' /\ RecordedAsDrafted(q)' /\ AlarmStands(q)'
  BY <1>1, <1>2, <1>3, <1>7
     DEF RequestInv, DraftIsVerdict, StageTells, RecordedAsDrafted, AlarmStands
<1>11. QED
  BY <1>1, <1>5, <1>6, <1>9, <1>10, OneRequestMoves DEF environment, RequestInv

(* The draft is the verdict of an answer the kernel gave.                   *)
LEMMA DecideKeepsInvariant ==
  ASSUME IInv, NEW q \in Requests, Decide(q)
  PROVE  IInv'
<1>1. PICK d \in KernelAnswers(bundle, InputOf(q)) :
        draft' = [draft EXCEPT ![q] = JudgedAction(ask[q], target[q], d)]
  BY DEF Decide
<1>2. /\ stage[q] = "deciding" /\ stage' = [stage EXCEPT ![q] = "persisting"]
      /\ UNCHANGED <<bundle, graph, incident, reports, restarts, ask, alarm,
                     snapshot, target, rows, trail>>
  BY DEF Decide, Goto, environment, durable
<1>3. /\ RequestInv(q) /\ bundle \in Bundles
      /\ ask[q] \in AskRecords /\ target[q] \in Targets
  BY DEF IInv, TypeOK
<1>4. /\ ask[q].type \in ActionTypes /\ ModeOf(ask[q]) \in Modes
      /\ snapshot[q] \in Incidents /\ Unrecorded(q)
  BY <1>2, <1>3 DEF RequestInv, StageTells
<1>5. /\ d \in Decisions /\ (d.failClosed <=> d.error # "none")
      /\ d.failClosed => d.effect = "deny"
  BY <1>3, KernelFailsClosed
<1>6. /\ JudgedAction(ask[q], target[q], d) \in Units
      /\ JudgedAction(ask[q], target[q], d) # Nothing
  BY <1>3, <1>4, <1>5, JudgedIsUnit, NothingIsNothing
<1>7. TypeOK'
  BY <1>1, <1>2, <1>6 DEF IInv, TypeOK, Stages
<1>8. \A r \in Requests : r # q => SameRequest(r)
  BY <1>1, <1>2 DEF SameRequest, IInv, TypeOK
<1>9. /\ stage'[q] = "persisting" /\ Unrecorded(q)'
      /\ draft'[q] = JudgedAction(ask[q], target[q], d)
  BY <1>1, <1>2, <1>4 DEF IInv, TypeOK, Unrecorded
<1>10. Considered(q)'
  <2>1. InputOf(q)' = InputOf(q)
    BY <1>2 DEF InputOf
  <2>2. QED
    BY <1>2, <1>4, <1>9, <2>1 DEF Considered
<1>11. RequestInv(q)'
  BY <1>2, <1>3, <1>6, <1>9, <1>10
     DEF RequestInv, DraftIsVerdict, StageTells, RecordedAsDrafted, AlarmStands,
         RecommendedAim
<1>12. QED
  BY <1>2, <1>7, <1>8, <1>11, OneRequestMoves DEF environment

(* What is written is the draft.                                            *)
LEMMA PersistKeepsInvariant ==
  ASSUME IInv, NEW q \in Requests, Persist(q)
  PROVE  IInv'
<1>1. /\ stage[q] = "persisting" /\ stage' = [stage EXCEPT ![q] = "answering"]
      /\ rows' = [rows EXCEPT ![q] = draft[q].row]
      /\ trail' = [trail EXCEPT ![q] = draft[q].entries]
      /\ UNCHANGED <<bundle, graph, incident, reports, restarts, ask, alarm,
                     snapshot, target, draft>>
  BY DEF Persist, Goto, environment
<1>2. RequestInv(q)
  BY DEF IInv
<1>3. draft[q] # Nothing
  BY <1>1, <1>2 DEF RequestInv, StageTells
<1>4. draft[q].row \in Rows \union {Nothing} /\ draft[q].entries \in Seq(Entries)
  BY <1>3, VerdictIsUnit DEF Units
<1>5. TypeOK'
  BY <1>1, <1>4 DEF IInv, TypeOK, Stages
<1>6. \A r \in Requests : r # q => SameRequest(r)
  BY <1>1 DEF SameRequest, IInv, TypeOK
<1>7. /\ stage'[q] = "answering"
      /\ rows'[q] = draft[q].row /\ trail'[q] = draft[q].entries
  BY <1>1 DEF IInv, TypeOK
<1>8. Considered(q)' = Considered(q)
  BY <1>1 DEF Considered, InputOf
<1>9. RequestInv(q)'
  BY <1>1, <1>2, <1>3, <1>7, <1>8
     DEF RequestInv, DraftIsVerdict, StageTells, RecordedAsDrafted, AlarmStands,
         RecommendedAim
<1>10. QED
  BY <1>1, <1>5, <1>6, <1>9, OneRequestMoves DEF environment

(* A failed write leaves nothing, and the answer changes nothing.           *)
LEMMA EndingKeepsInvariant ==
  ASSUME IInv, NEW q \in Requests, StoreFails(q) \/ Answer(q)
  PROVE  IInv'
<1>1. PICK next \in {"answering", "answered"} :
        /\ stage[q] \in {"persisting", "answering"}
        /\ stage' = [stage EXCEPT ![q] = next]
        /\ UNCHANGED <<bundle, graph, incident, reports, restarts, ask, alarm,
                       snapshot, target, draft, rows, trail>>
  BY DEF StoreFails, Answer, Goto, environment, durable
<1>2. RequestInv(q)
  BY DEF IInv
<1>3. TypeOK'
  BY <1>1 DEF IInv, TypeOK, Stages
<1>4. \A r \in Requests : r # q => SameRequest(r)
  BY <1>1 DEF SameRequest, IInv, TypeOK
<1>5. stage'[q] = next
  BY <1>1 DEF IInv, TypeOK
<1>6. Considered(q)' = Considered(q) /\ Unrecorded(q)' = Unrecorded(q)
  BY <1>1 DEF Considered, InputOf, Unrecorded
<1>7. RequestInv(q)'
  BY <1>1, <1>2, <1>5, <1>6
     DEF RequestInv, DraftIsVerdict, StageTells, RecordedAsDrafted, AlarmStands,
         RecommendedAim
<1>8. QED
  BY <1>1, <1>3, <1>4, <1>7, OneRequestMoves DEF environment

-----------------------------------------------------------------------------
(* The invariant holds *)

(* Before any request has arrived the invariant holds.                      *)
LEMMA InitInvariant == Init => IInv
<1> SUFFICES ASSUME Init
             PROVE  IInv
  OBVIOUS
<1>1. TypeOK
  <2>1. NoAsk \in AskRecords
    BY DEF NoAsk, AskRecords
  <2>2. [id |-> NoEntity, critical |-> FALSE] \in Targets
    BY DEF Targets
  <2>3. QED
    BY <2>1, <2>2, InventoryIsCriticality, BoundsAreNaturals DEF Init, TypeOK, Stages
<1>2. ASSUME NEW r \in Requests
      PROVE  RequestInv(r)
  BY EntitiesAreNumbered
     DEF Init, RequestInv, DraftIsVerdict, StageTells, RecordedAsDrafted,
         AlarmStands, RecommendedAim, Unrecorded
<1>3. QED
  BY <1>1, <1>2 DEF IInv

(* A stuttering step keeps the invariant.                                   *)
LEMMA StutterKeepsInvariant ==
  ASSUME IInv, UNCHANGED vars
  PROVE  IInv'
<1>1. TypeOK'
  BY DEF vars, environment, durable, IInv, TypeOK
<1>2. ASSUME NEW r \in Requests
      PROVE  RequestInv(r)'
  BY OthersKeepRequest DEF vars, environment, durable, SameRequest
<1>3. QED
  BY <1>1, <1>2 DEF IInv

(* The invariant is inductive: one case per action.                         *)
LEMMA NextKeepsInvariant == IInv /\ [Next]_vars => IInv'
<1> SUFFICES ASSUME IInv, [Next]_vars
             PROVE  IInv'
  OBVIOUS
<1>1. CASE \E r \in Requests : \E a \in Asks : Receive(r, a)
  BY <1>1, ReceiveKeepsInvariant
<1>2. ASSUME NEW r \in Requests, Handle(r)
      PROVE  IInv'
  BY <1>2, LoadKeepsInvariant, RefusingKeepsInvariant, ResolveKeepsInvariant,
     DecideKeepsInvariant, PersistKeepsInvariant, EndingKeepsInvariant DEF Handle
<1>3. CASE \E sighting \in Sightings : Observe(sighting[1], sighting[2])
  <2>1. PICK sighting \in Sightings : Observe(sighting[1], sighting[2])
    BY <1>3
  <2>2. sighting[1] \in Entities /\ sighting[2] \in Levels
    BY SightingsAreLevels
  <2>3. QED
    BY <2>1, <2>2, ObserveKeepsInvariant
<1>4. CASE \E report \in Reports : Correlate(report)
  BY <1>4, CorrelateKeepsInvariant
<1>5. QED
  BY <1>1, <1>2, <1>3, <1>4, RestartKeepsInvariant, StutterKeepsInvariant DEF Next

(* The invariant holds in every reachable state.                            *)
LEMMA Invariant == Spec => []IInv
BY InitInvariant, NextKeepsInvariant, PTL DEF Spec

-----------------------------------------------------------------------------
(* What the drafts say *)

(* A draft with an action that was not rejected is a verdict of the kernel. *)
LEMMA JudgedByKernel ==
  ASSUME IInv, NEW r \in Requests, Judged(r)
  PROVE  \/ draft[r] \in Refusals(ask[r])
         \/ /\ Considered(r)
            /\ \E d \in KernelAnswers(bundle, InputOf(r)) :
                 /\ d \in Decisions
                 /\ d.failClosed <=> d.error # "none"
                 /\ d.failClosed => d.effect = "deny"
                 /\ bundle = "none" => d.failClosed
                 /\ bundle = "griefer" /\ ~d.failClosed => d.effect = Effect(InputOf(r))
                 /\ draft[r] = JudgedAction(ask[r], target[r], d)
                 /\ draft[r].row.status = StatusFor(ModeOf(ask[r]), d.effect)
                 /\ draft[r].row.failClosed = d.failClosed
                 /\ draft[r].entries # <<>>
                 /\ \A i \in DOMAIN draft[r].entries :
                      draft[r].entries[i].result
                          \in {"policy_timeout", "policy_unavailable"}
                        <=> d.failClosed
<1>1. ask[r] \in AskRecords /\ target[r] \in Targets /\ bundle \in Bundles
  BY DEF IInv, TypeOK
<1>2. draft[r] \in Refusals(ask[r]) \/ Considered(r)
  BY DEF IInv, RequestInv, DraftIsVerdict, Judged
<1>3. CASE Considered(r)
  <2>1. PICK d \in KernelAnswers(bundle, InputOf(r)) :
          draft[r] = JudgedAction(ask[r], target[r], d)
    BY <1>3 DEF Considered
  <2>2. /\ d \in Decisions
        /\ d.failClosed <=> d.error # "none"
        /\ d.failClosed => d.effect = "deny"
        /\ bundle = "none" => d.failClosed
        /\ bundle = "griefer" /\ ~d.failClosed => d.effect = Effect(InputOf(r))
    BY <1>1, KernelFailsClosed
  <2>3. /\ draft[r].row.status = StatusFor(ModeOf(ask[r]), d.effect)
        /\ draft[r].row.failClosed = d.failClosed
        /\ draft[r].entries # <<>>
        /\ \A i \in DOMAIN draft[r].entries :
             draft[r].entries[i].result \in {"policy_timeout", "policy_unavailable"}
               <=> d.failClosed
    BY <1>1, <1>3, <2>1, <2>2, JudgedIsUnit DEF Considered
  <2>4. QED
    BY <1>3, <2>1, <2>2, <2>3
<1>4. QED
  BY <1>2, <1>3

(* A simulated action was allowed by a considered verdict, and asked as a   *)
(* simulation.                                                              *)
LEMMA SimulatedWasAllowed ==
  ASSUME IInv, NEW r \in Requests, Simulated(r)
  PROVE  /\ Considered(r) /\ ModeOf(ask[r]) = "simulate"
         /\ bundle = "griefer" => Effect(InputOf(r)) = "allow"
<1>1. Judged(r) /\ draft[r].row.status = "simulated" /\ draft[r].row # Nothing
  BY DEF Simulated, Judged
<1>2. draft[r] \notin Refusals(ask[r])
  <2>1. ask[r] \in AskRecords
    BY DEF IInv, TypeOK
  <2>2. QED
    BY <1>1, <2>1, RefusalIsUnit
<1>3. PICK d \in KernelAnswers(bundle, InputOf(r)) :
        /\ d \in Decisions
        /\ d.failClosed => d.effect = "deny"
        /\ bundle = "griefer" /\ ~d.failClosed => d.effect = Effect(InputOf(r))
        /\ draft[r].row.status = StatusFor(ModeOf(ask[r]), d.effect)
  BY <1>1, <1>2, JudgedByKernel
<1>4. d.effect \in Effects
  BY <1>3 DEF Decisions
<1>5. ModeOf(ask[r]) = "simulate" /\ d.effect = "allow"
  BY <1>1, <1>3, <1>4, StatusFacts
<1>6. QED
  BY <1>1, <1>2, <1>3, <1>5, JudgedByKernel

(* There are finitely many evidence categories.                             *)
LEMMA CategoriesAreFinite == IsFiniteSet(Categories)
<1> DEFINE f == << "authentication", "session_anomaly", "privilege_escalation",
                   "credential_access", "cloud_access", "data_access",
                   "process_execution", "network_activity",
                   "configuration_change" >>
<1>1. DOMAIN f = 1..9 /\ \A i \in 1..9 : f[i] \in Categories
  BY DEF Categories
<1>2. f = [i \in 1..9 |-> f[i]]
  OBVIOUS
<1>3. /\ f[1] = "authentication" /\ f[2] = "session_anomaly"
      /\ f[3] = "privilege_escalation" /\ f[4] = "credential_access"
      /\ f[5] = "cloud_access" /\ f[6] = "data_access"
      /\ f[7] = "process_execution" /\ f[8] = "network_activity"
      /\ f[9] = "configuration_change"
  OBVIOUS
<1> HIDE DEF f
<1>4. \A c \in Categories : \E i \in 1..9 : f[i] = c
  BY <1>3 DEF Categories
<1>5. f \in Surjection(1..9, Categories)
  BY <1>1, <1>2, <1>4 DEF Surjection
<1>6. IsFiniteSet(1..9)
  BY 1 \in Int, 9 \in Int, FS_Interval
<1>7. QED
  BY <1>5, <1>6, FS_Surjection

(* What the draft of a simulation says about the request that made it.      *)
LEMMA SimulatedIsSafe ==
  ASSUME IInv, NEW r \in Requests, Simulated(r), bundle = "griefer"
  PROVE  /\ ask[r].type \in DOMAIN RollbackAction \ Destructive
         /\ ~target[r].critical
         /\ IsAutomated(ask[r]) => /\ Cardinality(snapshot[r].categories) >= 2
                                   /\ snapshot[r].risk >= 40
<1>1. /\ Considered(r) /\ ModeOf(ask[r]) = "simulate"
      /\ Effect(InputOf(r)) = "allow"
  BY SimulatedWasAllowed
<1>2. /\ ask[r].type \in ActionTypes /\ ModeOf(ask[r]) \in Modes
      /\ snapshot[r].risk \in Nat /\ snapshot[r].categories \in SUBSET Categories
  BY <1>1 DEF Considered, Incidents
<1>3. target[r].critical \in BOOLEAN /\ IsAutomated(ask[r]) \in BOOLEAN
  BY DEF IInv, TypeOK, Targets, IsAutomated
<1>4. Cardinality(snapshot[r].categories) \in Nat
  BY <1>2, CategoriesAreFinite, FS_Subset, FS_CardinalityType
<1>5. QED
  BY <1>1, <1>2, <1>3, <1>4, AllowedIsSafe DEF InputOf

-----------------------------------------------------------------------------
(* Theorems *)

(* Every request, draft, row and audit entry stays inside its type: the rows *)
(* and entries EvaluateAction writes are made of the statuses, results and  *)
(* actors the code names.                                                   *)
THEOREM TypeCorrect == Spec => []TypeOK
BY Invariant, PTL DEF IInv

(* docs/SAFETY_MODEL.md, rules 1 to 6, for whatever applyDecision simulates. *)
THEOREM SimulatedSafely == Spec => []SimulationIsSafe
<1>1. IInv => SimulationIsSafe
  <2> SUFFICES ASSUME IInv, bundle = "griefer", NEW r \in Requests, Simulated(r)
               PROVE  /\ ask[r].type \in DOMAIN RollbackAction \ Destructive
                      /\ ask[r].mode \in {"", "simulate"}
                      /\ ~target[r].critical
                      /\ ask[r].operator = NoOperator /\ ask[r].automated =>
                           /\ Cardinality(snapshot[r].categories) >= 2
                           /\ snapshot[r].risk >= 40
    BY DEF SimulationIsSafe
  <2>1. ask[r].mode \in {"", "simulate"}
    BY SimulatedWasAllowed DEF ModeOf
  <2>2. QED
    BY <2>1, SimulatedIsSafe DEF IsAutomated
<1>2. QED
  BY <1>1, Invariant, PTL

(* applyDecision's hard stop, for every policy bundle.                      *)
THEOREM HardStop == Spec => []NothingIsExecuted
<1>1. IInv => NothingIsExecuted
  BY SimulatedWasAllowed DEF NothingIsExecuted
<1>2. QED
  BY <1>1, Invariant, PTL

(* failClosed: no verdict is a denial, and the trail says which it was.     *)
THEOREM FailsClosed == Spec => []NoVerdictIsDenial
<1>1. IInv => NoVerdictIsDenial
  <2> SUFFICES ASSUME IInv, NEW r \in Requests, Judged(r)
               PROVE  LET row == draft[r].row
                          told == {draft[r].entries[i].result :
                                     i \in DOMAIN draft[r].entries}
                      IN  /\ row.failClosed => row.status = "denied"
                          /\ row.failClosed
                               <=> told \subseteq {"policy_timeout", "policy_unavailable"}
                          /\ bundle = "none" /\ row.status # "rejected"
                               => row.failClosed
    BY DEF NoVerdictIsDenial
  <2> DEFINE told == {draft[r].entries[i].result : i \in DOMAIN draft[r].entries}
  <2>1. draft[r] \in Units /\ draft[r].entries # <<>>
    BY VerdictIsUnit DEF Judged
  <2>2. 1 \in DOMAIN draft[r].entries
    <3>1. draft[r].entries \in Seq(Entries)
      BY <2>1 DEF Units
    <3>2. QED
      BY <2>1, <3>1
  <2>3. CASE draft[r] \in Refusals(ask[r])
    <3>1. ask[r] \in AskRecords /\ draft[r].row # Nothing
      BY DEF IInv, TypeOK, Judged
    <3>2. /\ draft[r].row.status = "rejected" /\ ~draft[r].row.failClosed
          /\ \A i \in DOMAIN draft[r].entries : draft[r].entries[i].result
                \notin {"policy_timeout", "policy_unavailable"}
      BY <2>3, <3>1, RefusalIsUnit
    <3>3. QED
      BY <2>2, <3>2
  <2>4. CASE draft[r] \notin Refusals(ask[r])
    <3>1. PICK d \in Decisions :
            /\ d.failClosed => d.effect = "deny"
            /\ bundle = "none" => d.failClosed
            /\ draft[r].row.status = StatusFor(ModeOf(ask[r]), d.effect)
            /\ draft[r].row.failClosed = d.failClosed
            /\ \A i \in DOMAIN draft[r].entries :
                 draft[r].entries[i].result \in {"policy_timeout", "policy_unavailable"}
                   <=> d.failClosed
      BY <2>4, JudgedByKernel
    <3>2. d.failClosed => draft[r].row.status = "denied"
      BY <3>1, StatusFacts DEF Effects
    <3>3. d.failClosed <=> told \subseteq {"policy_timeout", "policy_unavailable"}
      BY <2>2, <3>1
    <3>4. QED
      BY <3>1, <3>2, <3>3
  <2>5. QED
    BY <2>3, <2>4
<1>2. QED
  BY <1>1, Invariant, PTL

(* resolveActionTarget: a recommended action on an entity the graph held    *)
(* critical when the request arrived waits for approval, whatever           *)
(* correlation and telemetry did meanwhile.                                 *)
THEOREM CriticalTargetsWait == Spec => []CriticalTargetNeedsApproval
<1>1. IInv => CriticalTargetNeedsApproval
  <2> SUFFICES ASSUME IInv, bundle = "griefer", NEW r \in Requests, Simulated(r),
                      ask[r].type \in Recommended(snapshot[r]),
                      target[r].id \in alarm[r]
               PROVE  RecommendedTarget(ask[r].type, snapshot[r]) = NoEntity
    BY DEF CriticalTargetNeedsApproval
  <2>1. ~target[r].critical
    BY SimulatedIsSafe
  <2>2. RecommendedAim(r)
    BY DEF IInv, RequestInv
  <2>3. QED
    BY <2>1, <2>2 DEF RecommendedAim
<1>2. QED
  BY <1>1, Invariant, PTL

(* persistEvaluation: what is durable of an action and of its entries agrees. *)
THEOREM TrailAgrees == Spec => []TrailTellsTheRow
<1>1. IInv => TrailTellsTheRow
  <2> SUFFICES ASSUME IInv, NEW r \in Requests, ~Unrecorded(r)
               PROVE  Coherent(rows[r], trail[r])
    BY DEF TrailTellsTheRow
  <2>1. /\ draft[r] # Nothing
        /\ rows[r] = draft[r].row /\ trail[r] = draft[r].entries
    BY DEF IInv, RequestInv, RecordedAsDrafted
  <2>2. QED
    BY <2>1, VerdictIsUnit
<1>2. QED
  BY <1>1, Invariant, PTL

-----------------------------------------------------------------------------
(* The evaluations are a ledger *)

Recorded(r) ==
  IF Unrecorded(r) THEN Nothing ELSE [row |-> rows[r], entries |-> trail[r]]

(* A write records one coherent unit where there was none.                  *)
LEMMA PersistRecords ==
  ASSUME IInv, NEW q \in Requests, Persist(q)
  PROVE  Ledger!Next
<1>1. /\ stage[q] = "persisting"
      /\ rows' = [rows EXCEPT ![q] = draft[q].row]
      /\ trail' = [trail EXCEPT ![q] = draft[q].entries]
  BY DEF Persist, Goto
<1>2. draft[q] # Nothing /\ Unrecorded(q)
  BY <1>1 DEF IInv, RequestInv, StageTells
<1>3. /\ draft[q] \in Units /\ Coherent(draft[q].row, draft[q].entries)
      /\ draft[q].entries # <<>>
  BY <1>2, VerdictIsUnit
<1>4. /\ Recorded(q) = Nothing
      /\ Recorded(q)' = [row |-> draft[q].row, entries |-> draft[q].entries]
  BY <1>1, <1>2, <1>3 DEF IInv, TypeOK, Recorded, Unrecorded
<1>5. draft[q] = [row |-> draft[q].row, entries |-> draft[q].entries]
  BY <1>3 DEF Units
<1>6. Recorded(q)' \in {u \in Units : Coherent(u.row, u.entries)}
  BY <1>3, <1>4, <1>5
<1>7. ASSUME NEW r \in Requests, r # q
      PROVE  Recorded(r)' = Recorded(r)
  BY <1>1, <1>7 DEF IInv, TypeOK, Recorded, Unrecorded
<1>8. [r \in Requests |-> Recorded(r)]'
        = [[r \in Requests |-> Recorded(r)] EXCEPT ![q] = Recorded(q)']
  BY <1>7
<1>9. Ledger!Record(q)
  BY <1>4, <1>6, <1>8 DEF Ledger!Record, Recorded
<1>10. QED
  BY <1>9 DEF Ledger!Next

(* No step but a write changes what is recorded.                            *)
LEMMA OthersRecordNothing ==
  ASSUME [Next]_vars, \A r \in Requests : ~Persist(r)
  PROVE  UNCHANGED <<rows, trail>>
<1>1. ASSUME NEW r \in Requests, Handle(r)
      PROVE  UNCHANGED <<rows, trail>>
  BY <1>1 DEF Handle, Load, IncidentMissing, LoadFails, Resolve, Decide,
     StoreFails, Answer, durable
<1>2. QED
  BY <1>1 DEF Next, Receive, Observe, Correlate, Restart, vars, durable

(* persistEvaluation implements the ledger: what one evaluation leaves is   *)
(* coherent, written once, in one step, and kept, across store failures and *)
(* restarts.                                                                *)
THEOREM EvaluationsAreLedger == Spec => LedgerSpec
<1>1. Init => Ledger!Init
  BY DEF Init, Ledger!Init, Unrecorded
<1>2. IInv /\ [Next]_vars =>
        Ledger!Next \/ UNCHANGED [r \in Requests |-> Recorded(r)]
  <2> SUFFICES ASSUME IInv, [Next]_vars
               PROVE  Ledger!Next \/ UNCHANGED [r \in Requests |-> Recorded(r)]
    OBVIOUS
  <2>1. CASE \E r \in Requests : Persist(r)
    BY <2>1, PersistRecords
  <2>2. CASE \A r \in Requests : ~Persist(r)
    BY <2>2, OthersRecordNothing DEF Recorded, Unrecorded
  <2>3. QED
    BY <2>1, <2>2
<1>3. IInv /\ [Next]_vars => [Ledger!Next]_[r \in Requests |->
        IF Unrecorded(r) THEN Nothing ELSE [row |-> rows[r], entries |-> trail[r]]]
  BY <1>2 DEF Recorded
<1>4. QED
  BY <1>1, <1>3, Invariant, PTL DEF LedgerSpec, Ledger!Spec, Spec
=============================================================================

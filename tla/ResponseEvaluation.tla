------------------------- MODULE ResponseEvaluation -------------------------
(***************************************************************************)
(* Service.EvaluateAction (internal/api/service.go): any number of         *)
(* concurrent requests to have an action judged, from the request to the   *)
(* durable response action and its audit trail.                            *)
(*                                                                         *)
(* A request reads the incident, then reads the Security Graph, then asks  *)
(* the Policy Kernel with no transaction open, then writes the action and  *)
(* its audit entries as one unit.  In between, correlation may store a new *)
(* version of the incident, telemetry may raise an entity's criticality,   *)
(* the kernel or the store may fail, and the process may die: the graph    *)
(* and the requests in flight live in its memory, the incident and the     *)
(* ledger in the store.                                                    *)
(***************************************************************************)
EXTENDS Recommendations, FiniteSets

CONSTANTS
  Requests,     \* response action ids; each request draws a fresh one
  Operators,    \* principals the gateway may vouch for
  Asks,         \* the requests that may arrive
  Reports,      \* the evidence correlation may attach to the incident
  Sightings,    \* the entities, and their criticality, telemetry may report
  Inventory,    \* the criticality the operator declared, "absent" if none
  MaxReports,   \* bound: versions of the incident stored in a behaviour
  MaxRestarts,  \* bound: crashes of the process in a behaviour
  Nothing       \* no incident, no draft, no row

NoOperator == ""  \* Principal.Subject of a request that carries no operator

Actors == Operators \union {"system:griefer"}

AskRecords ==
  [ type      : ActionTypes \union {"unlisted"},
    mode      : Modes \union {"", "unlisted"},
    incident  : {"stored", "other"},
    operator  : Operators \union {NoOperator},
    automated : BOOLEAN ]

ASSUME AsksAreRequests == Asks \subseteq AskRecords

ASSUME ReportsAreEvidence ==
  Reports \subseteq [ categories : SUBSET Categories, risk : 0..100,
                      touched : SUBSET Entities ]

ASSUME SightingsAreLevels == Sightings \subseteq Entities \X Levels

ASSUME InventoryIsCriticality == Inventory \in Criticalities

ASSUME BoundsAreNaturals == MaxReports \in Nat /\ MaxRestarts \in Nat

-----------------------------------------------------------------------------
(* What an evaluation leaves behind *)

Targets == [id : Entities \union {NoEntity}, critical : BOOLEAN]

(* The response_actions row; a row rejected before any policy was asked has *)
(* no effect.                                                               *)
Rows == [ type : ActionTypes \union {"unlisted"},
          mode : Modes \union {"unlisted"},
          by : Actors, target : Entities \union {NoEntity}, status : Statuses,
          effect : Effects \union {"none"}, failClosed : BOOLEAN ]

Entries ==
  [ action  : { "policy.evaluated", "response.simulated", "response.denied",
                "response.rejected", "response.requires_approval" },
    outcome : {"success", "denied", "pending", "failure"},
    result  : Results,
    actor   : Actors ]

Units == [row : Rows \union {Nothing}, entries : Seq(Entries)]

ASSUME NothingIsNothing ==
  /\ Nothing \notin Incidents
  /\ Nothing \notin Rows
  /\ Nothing \notin Units

VARIABLES
  bundle,     \* what the kernel's engine publishes
  graph,      \* the live Security Graph: criticality per entity
  incident,   \* the stored incident
  reports,    \* how many versions of it were stored
  restarts,   \* how often the process died
  stage,      \* where each request is
  ask,        \* what it asked
  alarm,      \* history: entities the graph held critical when it arrived
  snapshot,   \* the incident it read
  target,     \* the entity it resolved, and whether that is critical
  draft,      \* the unit it is about to write
  rows,       \* durable: the response_actions table
  trail       \* durable: the audit entries whose subject is the action

environment == <<bundle, graph, incident, reports, restarts>>
durable     == <<rows, trail>>
vars == <<environment, stage, ask, alarm, snapshot, target, draft, durable>>

Stages == { "idle", "loading", "resolving", "deciding", "persisting",
            "answering", "answered", "lost" }

TypeOK ==
  /\ bundle \in Bundles
  /\ graph \in Criticalities
  /\ incident \in Incidents \union {Nothing}
  /\ reports \in 0..MaxReports
  /\ restarts \in 0..MaxRestarts
  /\ stage \in [Requests -> Stages]
  /\ ask \in [Requests -> AskRecords]
  /\ alarm \in [Requests -> SUBSET Entities]
  /\ snapshot \in [Requests -> Incidents \union {Nothing}]
  /\ target \in [Requests -> Targets]
  /\ draft \in [Requests -> Units \union {Nothing}]
  /\ rows \in [Requests -> Rows \union {Nothing}]
  /\ trail \in [Requests -> Seq(Entries)]

NoAsk == [ type |-> "unlisted", mode |-> "", incident |-> "other",
           operator |-> NoOperator, automated |-> FALSE ]

Init ==
  /\ bundle \in Bundles
  /\ graph = Inventory
  /\ incident = Nothing
  /\ reports = 0
  /\ restarts = 0
  /\ stage = [r \in Requests |-> "idle"]
  /\ ask = [r \in Requests |-> NoAsk]
  /\ alarm = [r \in Requests |-> {}]
  /\ snapshot = [r \in Requests |-> Nothing]
  /\ target = [r \in Requests |-> [id |-> NoEntity, critical |-> FALSE]]
  /\ draft = [r \in Requests |-> Nothing]
  /\ rows = [r \in Requests |-> Nothing]
  /\ trail = [r \in Requests |-> <<>>]

-----------------------------------------------------------------------------
(* Around the request: telemetry, correlation, the process *)

(* Graph.UpsertEntity: an observation may add an entity or raise it, never  *)
(* lower it.                                                                *)
Observe(e, level) ==
  /\ graph[e] = "absent" \/ Rank(level) > Rank(graph[e])
  /\ graph' = [graph EXCEPT ![e] = level]
  /\ UNCHANGED <<bundle, incident, reports, restarts, stage, ask, alarm,
                 snapshot, target, draft, durable>>

(* The entity references recompute stores with an incident: a copy of what  *)
(* the graph says now, medium for an entity the graph does not know.        *)
CopyFromGraph(touched) ==
  [e \in Entities |-> IF e \notin touched THEN "absent"
                      ELSE IF graph[e] = "absent" THEN "medium" ELSE graph[e]]

(* Correlation stores the next version of the incident.  The events behind  *)
(* it were projected into the graph first; findings merged before a restart *)
(* may name entities the new graph does not hold.                           *)
Correlate(report) ==
  /\ reports < MaxReports
  /\ \A e \in report.touched :
       graph[e] # "absent" \/ (incident # Nothing /\ incident.crit[e] # "absent")
  /\ reports' = reports + 1
  /\ incident' = [ categories |-> report.categories, risk |-> report.risk,
                   crit |-> CopyFromGraph(report.touched) ]
  /\ UNCHANGED <<bundle, graph, restarts, stage, ask, alarm, snapshot, target,
                 draft, durable>>

InFlight == {r \in Requests : stage[r] \notin {"idle", "answered", "lost"}}

(* The process dies and starts again with the inventory as its graph; the   *)
(* requests it was serving end with their connections.                      *)
Restart ==
  /\ restarts < MaxRestarts
  /\ restarts' = restarts + 1
  /\ graph' = Inventory
  /\ stage' = [r \in Requests |-> IF r \in InFlight THEN "lost" ELSE stage[r]]
  /\ UNCHANGED <<bundle, incident, reports, ask, alarm, snapshot, target,
                 draft, durable>>

-----------------------------------------------------------------------------
(* The request *)

ActorOf(a) == IF a.operator = NoOperator THEN "system:griefer" ELSE a.operator

(* Mutant: an omitted mode is not defaulted. *)
ModeAsSent(a) == a.mode

ModeOf(a) == IF a.mode = "" THEN "simulate" ELSE a.mode

(* Automation is derived: a request that carries an operator is a person.   *)
IsAutomated(a) == a.operator = NoOperator /\ a.automated

Entry(a, action, outcome, result) ==
  [action |-> action, outcome |-> outcome, result |-> result, actor |-> ActorOf(a)]

(* A request refused before there is an action: entries only. *)
NoAction(a, outcome, result) ==
  [ row     |-> Nothing,
    entries |-> << Entry(a, "response.rejected", outcome, result) >> ]

(* An action refused before any policy is asked. *)
RejectedAction(a, result) ==
  [ row     |-> [ type |-> a.type, mode |-> ModeOf(a), by |-> ActorOf(a),
                  target |-> NoEntity, status |-> "rejected",
                  effect |-> "none", failClosed |-> FALSE ],
    entries |-> << Entry(a, "response.rejected", "denied", result) >> ]

(* An action the kernel has judged. *)
JudgedAction(a, t, decision) ==
  LET status  == StatusFor(ModeOf(a), decision.effect)
      result  == ResultFor(status, decision)
      outcome == AuditOutcomeFor(decision.effect)
  IN  [ row     |-> [ type |-> a.type, mode |-> ModeOf(a), by |-> ActorOf(a),
                      target |-> t.id, status |-> status,
                      effect |-> decision.effect,
                      failClosed |-> decision.failClosed ],
        entries |-> << Entry(a, "policy.evaluated", outcome, result),
                       Entry(a, AuditActionFor(status), outcome, result) >> ]

Goto(r, from, to) == stage[r] = from /\ stage' = [stage EXCEPT ![r] = to]

(* The request arrives; the catalog and the mode are checked first. *)
Receive(r, a) ==
  /\ stage[r] = "idle"
  /\ ask' = [ask EXCEPT ![r] = a]
  /\ alarm' = [alarm EXCEPT ![r] = {e \in Entities : graph[e] = "critical"}]
  /\ \/ /\ a.type \notin ActionTypes
        /\ draft' = [draft EXCEPT ![r] = RejectedAction(a, "invalid_action")]
        /\ Goto(r, "idle", "persisting")
     \/ /\ a.type \in ActionTypes /\ ModeOf(a) \notin Modes
        /\ draft' = [draft EXCEPT ![r] = RejectedAction(a, "validation_failed")]
        /\ Goto(r, "idle", "persisting")
     \/ /\ a.type \in ActionTypes /\ ModeOf(a) \in Modes
        /\ Goto(r, "idle", "loading")
        /\ UNCHANGED draft
  /\ UNCHANGED <<environment, snapshot, target, durable>>

(* GetIncident returns a copy; what happens to the incident after this is   *)
(* not seen by the request.                                                 *)
Load(r) ==
  /\ Goto(r, "loading", "resolving")
  /\ ask[r].incident = "stored" /\ incident # Nothing
  /\ snapshot' = [snapshot EXCEPT ![r] = incident]
  /\ UNCHANGED <<environment, ask, alarm, target, draft, durable>>

IncidentMissing(r) ==
  /\ Goto(r, "loading", "persisting")
  /\ ask[r].incident = "other" \/ incident = Nothing
  /\ draft' = [draft EXCEPT ![r] = NoAction(ask[r], "denied", "validation_failed")]
  /\ UNCHANGED <<environment, ask, alarm, snapshot, target, durable>>

(* The store is unreachable, or the caller has gone and its context with it. *)
LoadFails(r) ==
  /\ Goto(r, "loading", "persisting")
  /\ draft' = [draft EXCEPT ![r] = NoAction(ask[r], "failure", "internal_error")]
  /\ UNCHANGED <<environment, ask, alarm, snapshot, target, durable>>
(* A recommended action keeps its target and takes its criticality from the *)
(* graph, unless the graph has forgotten it; any other action falls back to *)
(* the most critical entity the incident recorded.                          *)
TargetOf(type, inc) ==
  LET aimed == RecommendedTarget(type, inc)
      worst == MostCritical(Present(inc.crit), inc.crit)
  IN  IF type \in Recommended(inc) /\ aimed # NoEntity
      THEN [ id |-> aimed,
             critical |-> IF graph[aimed] # "absent"
                          THEN graph[aimed] = "critical"
                          ELSE inc.crit[aimed] = "critical" ]
      ELSE IF Present(inc.crit) = {} THEN [id |-> NoEntity, critical |-> FALSE]
      ELSE [id |-> worst, critical |-> inc.crit[worst] = "critical"]

(* Mutant: the recommendation's own flag is believed. *)
ResolveFromIncident(r) ==
  /\ Goto(r, "resolving", "deciding")
  /\ LET aimed == TargetOf(ask[r].type, snapshot[r]).id
     IN  target' = [target EXCEPT ![r] =
           [ id |-> aimed,
             critical |-> aimed # NoEntity /\ snapshot[r].crit[aimed] = "critical" ]]
  /\ UNCHANGED <<environment, ask, alarm, snapshot, draft, durable>>

Resolve(r) ==
  /\ Goto(r, "resolving", "deciding")
  /\ target' = [target EXCEPT ![r] = TargetOf(ask[r].type, snapshot[r])]
  /\ UNCHANGED <<environment, ask, alarm, snapshot, draft, durable>>

InputOf(r) ==
  PolicyInput(ask[r].type, ModeOf(ask[r]), target[r].critical,
              Cardinality(snapshot[r].categories), snapshot[r].risk,
              IsAutomated(ask[r]))

(* The kernel is called outside any transaction; applyDecision follows. *)
Decide(r) ==
  /\ Goto(r, "deciding", "persisting")
  /\ \E decision \in KernelAnswers(bundle, InputOf(r)) :
       draft' = [draft EXCEPT ![r] = JudgedAction(ask[r], target[r], decision)]
  /\ UNCHANGED <<environment, ask, alarm, snapshot, target, durable>>

(* Mutant: a retry writes again what an earlier attempt already wrote. *)
PersistWithRetry(r) ==
  /\ stage[r] = "persisting"
  /\ stage' \in {stage, [stage EXCEPT ![r] = "answering"]}
  /\ rows' = [rows EXCEPT ![r] = draft[r].row]
  /\ trail' = [trail EXCEPT ![r] = @ \o draft[r].entries]
  /\ UNCHANGED <<environment, ask, alarm, snapshot, target, draft>>

(* SaveActionWithAudit: the action and its entries, in one unit. *)
Persist(r) ==
  /\ Goto(r, "persisting", "answering")
  /\ rows' = [rows EXCEPT ![r] = draft[r].row]
  /\ trail' = [trail EXCEPT ![r] = draft[r].entries]
  /\ UNCHANGED <<environment, ask, alarm, snapshot, target, draft>>

(* Mutant: the action is written before the entries fail. *)
StoreFailsHalfway(r) ==
  /\ Goto(r, "persisting", "answering")
  /\ rows' = [rows EXCEPT ![r] = draft[r].row]
  /\ UNCHANGED <<environment, ask, alarm, snapshot, target, draft, trail>>

(* The write fails: that is logged, and the client is answered all the same. *)
StoreFails(r) ==
  /\ Goto(r, "persisting", "answering")
  /\ UNCHANGED <<environment, ask, alarm, snapshot, target, draft, durable>>

Answer(r) ==
  /\ Goto(r, "answering", "answered")
  /\ UNCHANGED <<environment, ask, alarm, snapshot, target, draft, durable>>

Handle(r) ==
  \/ Load(r) \/ IncidentMissing(r) \/ LoadFails(r)
  \/ Resolve(r)
  \/ Decide(r)
  \/ Persist(r) \/ StoreFails(r)
  \/ Answer(r)

Next ==
  \/ \E r \in Requests : \E a \in Asks : Receive(r, a)
  \/ \E r \in Requests : Handle(r)
  \/ \E sighting \in Sightings : Observe(sighting[1], sighting[2])
  \/ \E report \in Reports : Correlate(report)
  \/ Restart

(* A handler goroutine that can take a step does: the scheduler is fair, the *)
(* kernel call has a timeout, a store call returns or fails.                 *)
Fairness == \A r \in Requests : WF_vars(Handle(r))

Spec == Init /\ [][Next]_vars /\ Fairness

-----------------------------------------------------------------------------
(* Properties *)

Judged(r) == draft[r] # Nothing /\ draft[r].row # Nothing

Simulated(r) == Judged(r) /\ draft[r].row.status = "simulated"

(* docs/SAFETY_MODEL.md, rules 1 to 6: with GRIEFER's policy, an action that *)
(* was simulated without a human is one the catalog knows, does not destroy, *)
(* and can undo; it was asked as a simulation, on a target not resolved as   *)
(* critical; and if no operator asked, two independent kinds of evidence and *)
(* a risk of at least 40 stood behind it.                                    *)
SimulationIsSafe ==
  bundle = "griefer" =>
    \A r \in Requests : Simulated(r) =>
      /\ ask[r].type \in DOMAIN RollbackAction \ Destructive
      /\ ask[r].mode \in {"", "simulate"}
      /\ ~target[r].critical
      /\ ask[r].operator = NoOperator /\ ask[r].automated =>
           /\ Cardinality(snapshot[r].categories) >= 2
           /\ snapshot[r].risk >= 40

(* applyDecision's hard stop: no policy bundle, GRIEFER's own or any other,  *)
(* turns a request to execute into an effect.                                *)
NothingIsExecuted ==
  \A r \in Requests : Simulated(r) => ModeOf(ask[r]) = "simulate"

(* Fail closed: an engine that hangs, is gone or answers something malformed *)
(* denies the action, and the trail tells that refusal from a considered one.*)
NoVerdictIsDenial ==
  \A r \in Requests : Judged(r) =>
    LET row == draft[r].row
        told == {draft[r].entries[i].result : i \in DOMAIN draft[r].entries}
    IN  /\ row.failClosed => row.status = "denied"
        /\ row.failClosed <=> told \subseteq {"policy_timeout", "policy_unavailable"}
        /\ bundle = "none" /\ row.status # "rejected" => row.failClosed

(* resolveActionTarget reads criticality from the graph: an action the       *)
(* engine recommends on an entity that was critical when the request arrived *)
(* is not simulated without approval, however old the incident it read.      *)
CriticalTargetNeedsApproval ==
  bundle = "griefer" =>
    \A r \in Requests :
      Simulated(r) /\ ask[r].type \in Recommended(snapshot[r])
        => target[r].id \notin alarm[r]
         \/ RecommendedTarget(ask[r].type, snapshot[r]) = NoEntity
Unrecorded(r) == rows[r] = Nothing /\ trail[r] = <<>>

(* What an action row and the entries written with it must say together.    *)
Coherent(row, entries) ==
  /\ entries # <<>>
  /\ \A i \in DOMAIN entries :
       /\ entries[i].actor = entries[1].actor
       /\ entries[i].result = entries[1].result
  /\ LET last == entries[Len(entries)]
     IN  IF row = Nothing
         THEN Len(entries) = 1 /\ last.action = "response.rejected"
         ELSE /\ last.actor = row.by
              /\ last.action = AuditActionFor(row.status)
              /\ row.status = "simulated"
                   => last.outcome = "success" /\ last.result = "allowed"
              /\ row.status = "rejected" => Len(entries) = 1
              /\ row.status # "rejected" =>
                   Len(entries) = 2 /\ entries[1].action = "policy.evaluated"

(* persistEvaluation writes one unit: there is never an action without the  *)
(* entries that tell how it was judged and by whom it was asked, nor entries *)
(* that tell of another verdict than the row's.                              *)
TrailTellsTheRow ==
  \A r \in Requests : ~Unrecorded(r) => Coherent(rows[r], trail[r])

(* The store's promise: all or nothing, once, and unchanged for ever, also   *)
(* across a crash between the write and the answer.                          *)
Ledger ==
  INSTANCE EvaluationLedger WITH
    Evaluations <- Requests,
    Units       <- {u \in Units : Coherent(u.row, u.entries)},
    recorded    <- [r \in Requests |->
                      IF Unrecorded(r) THEN Nothing
                      ELSE [row |-> rows[r], entries |-> trail[r]]]

LedgerSpec == Ledger!Spec

(* A request that was received is answered, unless the process dies under    *)
(* it: neither a silent kernel nor a failing store keeps it for ever.        *)
EveryRequestEnds ==
  \A r \in Requests :
    stage[r] # "idle" ~> stage[r] \in {"answered", "lost"}

(* docs/SAFETY_MODEL.md, rule 5, for every action: "an action that is not    *)
(* among the engine's recommendations still resolves against the incident's  *)
(* most critical entity, so the rule cannot be dodged by asking for an       *)
(* unrecommended action" - so the entity a simulated action touches is never *)
(* one the graph held critical when the request arrived.                     *)
RuleFiveCannotBeDodged ==
  bundle = "griefer" =>
    \A r \in Requests : Simulated(r) => target[r].id \notin alarm[r]

(* internal/graph/graph.go: the graph is rebuilt "from stored events on      *)
(* start" - so an entity the incident on file calls critical is still known  *)
(* to be critical when an action on it is judged.                            *)
RecordedCriticalityHolds ==
  bundle = "griefer" =>
    \A r \in Requests :
      Simulated(r) /\ target[r].id # NoEntity
        => snapshot[r].crit[target[r].id] # "critical"
=============================================================================

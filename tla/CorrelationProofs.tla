------------------------- MODULE CorrelationProofs --------------------------
(***************************************************************************)
(* Proofs about Correlation.  Whatever requests run at a time, fail, are   *)
(* sent again or are cut off by a restart, an incident holds the events of *)
(* one subject (CInv).  When the events of a subject are sent one after    *)
(* the other, what an event added to an incident stays there (SInv), the   *)
(* incidents of a subject are a window apart (OInv), every hit retained of *)
(* a threshold stands for an event of its own (HInv), and each step is one *)
(* of the engine's promise to its callers (IncidentLedger).                *)
(***************************************************************************)
EXTENDS Correlation, FiniteSetTheorems, SequenceTheorems,
        WellFoundedInduction, TLAPS

Early == {"rules", "lookup", "load"}   \* a worker there may yet start an incident

Typed ==
  /\ stored \subseteq Events
  /\ incidents \in [IncidentIds -> Incidents \union {Nothing}]
  /\ fresh \in Nat \ {0}
  /\ open \in [Subjects -> Openings \union {Nothing}]
  /\ stage \in [Workers -> {"idle", "rules", "lookup", "load", "save", "record"}]
  /\ event \in [Workers -> Events \union {Nothing}]
  /\ found \in [Workers -> SUBSET Rules]
  /\ id \in [Workers -> IncidentIds \union {Nothing}]
  /\ copy \in [Workers -> Incidents \union {Nothing}]
  /\ acked \in [Events -> IncidentIds \union {Nothing}]
  /\ sent \subseteq Events
  /\ replays \in 0..MaxReplays

MayStart == {w \in Workers : stage[w] \in Early}

(* Every event sent draws at most one incident id.                         *)
IdsSuffice == fresh + Cardinality(MayStart) <= 1 + Cardinality(sent) + replays

Own(inc) == \A r \in Rules : \A e \in inc.findings[r] : SubjectKey(e) = inc.subject

FileIsSorted ==
  \A i \in IncidentIds : incidents[i] # Nothing => i < fresh /\ Own(incidents[i])

OpenIsOwned ==
  \A s \in Subjects : open[s] # Nothing =>
    /\ incidents[open[s].id] # Nothing
    /\ incidents[open[s].id].subject = s

Holds(w) == stage[w] \in {"load", "save", "record"} /\ id[w] # Nothing

WorkIsOwned ==
  \A w \in Workers :
    /\ stage[w] # "idle" => event[w] \in stored
    /\ Holds(w) =>
         /\ id[w] < fresh
         /\ incidents[id[w]] # Nothing => incidents[id[w]].subject = SubjectKey(event[w])
         /\ stage[w] # "save" => incidents[id[w]] # Nothing
    /\ stage[w] = "save" =>
         copy[w] # Nothing /\ copy[w].subject = SubjectKey(event[w]) /\ Own(copy[w])
    /\ stage[w] \in {"save", "record"} => id[w] # Nothing

NobodyShares ==
  \A v, w \in Workers :
    Holds(v) /\ Holds(w) /\ id[v] = id[w] => SubjectKey(event[v]) = SubjectKey(event[w])

CInv ==
  Typed /\ IdsSuffice /\ FileIsSorted /\ OpenIsOwned /\ WorkIsOwned /\ NobodyShares

-----------------------------------------------------------------------------
(* A subject is among the subjects.                                        *)
LEMMA KeyIsSubject == ASSUME NEW e \in Events PROVE SubjectKey(e) \in Subjects
BY DEF Subjects

(* The id to be drawn next is an id while a worker may yet draw one.       *)
LEMMA FreshIsId ==
  ASSUME CInv, NEW w \in Workers, stage[w] \in Early
  PROVE  fresh \in IncidentIds
<1>1. IsFiniteSet(MayStart) /\ w \in MayStart
  BY FinitelyMany, FS_Subset DEF MayStart
<1>2. Cardinality(MayStart) \in Nat /\ Cardinality(MayStart) # 0
  BY <1>1, FS_CardinalityType, FS_EmptySet
<1>3. IsFiniteSet(sent) /\ Cardinality(sent) <= Cardinality(Events)
  BY FinitelyMany, FS_Subset DEF CInv, Typed
<1>4. Cardinality(sent) \in Nat /\ Cardinality(Events) \in Nat
  BY <1>3, FinitelyMany, FS_CardinalityType
<1> QED BY <1>2, <1>3, <1>4, BoundsAreNaturals DEF CInv, Typed, IdsSuffice, IncidentIds

(* A worker that moves on, and draws an id if it leaves the early stages.  *)
LEMMA IdsStillSuffice ==
  ASSUME CInv, Typed', NEW w \in Workers,
         \A v \in Workers \ {w} : stage'[v] = stage[v],
         sent' = sent, replays' = replays,
         \/ fresh' = fresh /\ (stage'[w] \in Early => stage[w] \in Early)
         \/ fresh' = fresh + 1 /\ stage[w] \in Early /\ stage'[w] \notin Early
  PROVE  IdsSuffice'
<1>1. IsFiniteSet(MayStart)
  BY FinitelyMany, FS_Subset DEF MayStart
<1>2. Cardinality(MayStart) \in Nat
  BY <1>1, FS_CardinalityType
<1>3. IsFiniteSet(sent) /\ Cardinality(sent) \in Nat
  BY FinitelyMany, FS_Subset, FS_CardinalityType DEF CInv, Typed
<1>4. CASE fresh' = fresh /\ (stage'[w] \in Early => stage[w] \in Early)
  <2>1. MayStart' \subseteq MayStart
    BY <1>4 DEF MayStart
  <2>2. Cardinality(MayStart') <= Cardinality(MayStart) /\ Cardinality(MayStart') \in Nat
    BY <1>1, <2>1, FS_Subset, FS_CardinalityType
  <2> QED BY <1>2, <1>3, <1>4, <2>2 DEF CInv, Typed, IdsSuffice
<1>5. CASE fresh' = fresh + 1 /\ stage[w] \in Early /\ stage'[w] \notin Early
  <2>1. MayStart' \subseteq MayStart \ {w} /\ w \in MayStart
    BY <1>5 DEF MayStart
  <2>2. /\ IsFiniteSet(MayStart \ {w})
        /\ Cardinality(MayStart \ {w}) = Cardinality(MayStart) - 1
    BY <1>1, <2>1, FS_RemoveElement
  <2>3. /\ Cardinality(MayStart') <= Cardinality(MayStart \ {w})
        /\ Cardinality(MayStart') \in Nat
    BY <2>1, <2>2, FS_Subset, FS_CardinalityType
  <2> QED BY <1>2, <1>3, <1>5, <2>2, <2>3 DEF CInv, Typed, IdsSuffice
<1> QED BY <1>4, <1>5

-----------------------------------------------------------------------------
(* CInv is inductive: one lemma per action.                                *)

LEMMA CInvInit == Init => CInv
<1> SUFFICES ASSUME Init PROVE CInv
  OBVIOUS
<1>1. Typed
  BY BoundsAreNaturals DEF Init, Typed
<1>2. MayStart = {} /\ sent = {} /\ fresh = 1 /\ replays = 0
  BY DEF Init, MayStart, Early
<1>3. IdsSuffice
  BY <1>2, FS_EmptySet DEF IdsSuffice
<1> QED BY <1>1, <1>3
        DEF Init, CInv, FileIsSorted, OpenIsOwned, WorkIsOwned, NobodyShares, Holds

(* An event sent: one more event or one more repeat, one more worker at work. *)
LEMMA IngestKeepsCInv ==
  ASSUME CInv, NEW w \in Workers, NEW e \in Events, Ingest(w, e)
  PROVE  CInv'
<1>1. Typed'
  BY BoundsAreNaturals DEF CInv, Typed, Ingest, memory
<1>2. IdsSuffice'
  <2>1. IsFiniteSet(MayStart) /\ IsFiniteSet(sent)
    BY FinitelyMany, FS_Subset DEF MayStart, CInv, Typed
  <2>2. MayStart' = MayStart \union {w} /\ w \notin MayStart
    BY DEF Ingest, CInv, Typed, MayStart, Early
  <2>3. Cardinality(MayStart') = Cardinality(MayStart) + 1
    BY <2>1, <2>2, FS_AddElement
  <2>4. Cardinality(sent') + replays' = Cardinality(sent) + replays + 1
    <3>1. Cardinality(sent) \in Nat /\ replays \in Nat
      BY <2>1, FS_CardinalityType, BoundsAreNaturals DEF CInv, Typed
    <3>2. CASE e \in sent
      <4>1. sent' = sent /\ replays' = replays + 1
        BY <3>2 DEF Ingest
      <4> QED BY <3>1, <4>1
    <3>3. CASE e \notin sent
      <4>1. Cardinality(sent \union {e}) = Cardinality(sent) + 1
        BY <2>1, <3>3, FS_AddElement
      <4> QED BY <3>1, <3>3, <4>1 DEF Ingest
    <3> QED BY <3>2, <3>3
  <2>5. Cardinality(MayStart) \in Nat /\ Cardinality(sent) \in Nat
    BY <2>1, FS_CardinalityType
  <2>6. Cardinality(sent') \in Nat
    BY <1>1, FinitelyMany, FS_Subset, FS_CardinalityType DEF Typed
  <2> QED BY <1>1, <2>3, <2>4, <2>5, <2>6 DEF CInv, Typed, IdsSuffice, Ingest
<1>3. FileIsSorted' /\ OpenIsOwned'
  BY DEF CInv, FileIsSorted, OpenIsOwned, Ingest, memory, Own
<1>4. WorkIsOwned'
  BY DEF CInv, Typed, WorkIsOwned, Ingest, Holds, Own
<1>5. NobodyShares'
  BY DEF CInv, Typed, NobodyShares, Ingest, Holds
<1> QED BY <1>1, <1>2, <1>3, <1>4, <1>5 DEF CInv

(* A worker that lets its event go.                                        *)
LEMMA FinishKeepsCInv ==
  ASSUME CInv, NEW w \in Workers, Finish(w), Typed',
         UNCHANGED <<stored, fresh, sent, replays>>, FileIsSorted', OpenIsOwned',
         \A v \in Workers : Holds(v) =>
           /\ incidents'[id[v]] # Nothing => incidents'[id[v]].subject = SubjectKey(event[v])
           /\ incidents[id[v]] # Nothing => incidents'[id[v]] # Nothing
  PROVE  CInv'
<1>1. IdsSuffice'
  BY IdsStillSuffice DEF Finish, CInv, Typed, Early
<1>2. /\ stage'[w] = "idle"
      /\ \A v \in Workers \ {w} : /\ stage'[v] = stage[v] /\ event'[v] = event[v]
                                 /\ id'[v] = id[v] /\ copy'[v] = copy[v]
  BY DEF Finish, CInv, Typed
<1>3. WorkIsOwned'
  <2> SUFFICES ASSUME NEW v \in Workers, v # w
               PROVE  /\ stage[v] # "idle" => event[v] \in stored
                      /\ Holds(v) =>
                           /\ id[v] < fresh
                           /\ incidents'[id[v]] # Nothing =>
                                incidents'[id[v]].subject = SubjectKey(event[v])
                           /\ stage[v] # "save" => incidents'[id[v]] # Nothing
                      /\ stage[v] = "save" =>
                           /\ copy[v] # Nothing /\ copy[v].subject = SubjectKey(event[v])
                           /\ Own(copy[v])
                      /\ stage[v] \in {"save", "record"} => id[v] # Nothing
    BY <1>2 DEF WorkIsOwned, Holds, Own
  <2> QED BY DEF CInv, WorkIsOwned
<1>4. NobodyShares'
  BY <1>2 DEF CInv, NobodyShares, Holds
<1> QED BY <1>1, <1>3, <1>4 DEF CInv

LEMMA EvaluateKeepsCInv ==
  ASSUME CInv, NEW w \in Workers, Evaluate(w)
  PROVE  CInv'
<1>0. stage[w] = "rules" /\ UNCHANGED <<disk, open, history, counts>>
  BY DEF Evaluate
<1>1. OpenIsOwned'
  BY <1>0 DEF CInv, OpenIsOwned, disk
<1>2. CASE Finish(w)
  <2>1. Typed'
    BY <1>0, <1>2 DEF CInv, Typed, Finish, disk, history, counts
  <2>2. FileIsSorted'
    BY <1>0 DEF CInv, FileIsSorted, Own, disk
  <2>3. \A v \in Workers : Holds(v) =>
          (incidents[id[v]] # Nothing => incidents[id[v]].subject = SubjectKey(event[v]))
    BY DEF CInv, WorkIsOwned
  <2> QED BY <1>0, <1>1, <1>2, <2>1, <2>2, <2>3, FinishKeepsCInv DEF disk, history, counts
<1>3. CASE /\ \E made \in SUBSET RulesOf[event[w]] : found' = [found EXCEPT ![w] = made]
           /\ stage' = [stage EXCEPT ![w] = "lookup"]
           /\ UNCHANGED <<event, id, copy>>
  <2>1. event[w] \in Events
    BY <1>0 DEF CInv, Typed, WorkIsOwned
  <2>2. RulesOf[event[w]] \subseteq Rules
    BY <2>1 DEF RulesOf
  <2>3. Typed'
    BY <1>0, <1>3, <2>2 DEF CInv, Typed, disk, history, counts
  <2>4. IdsSuffice'
    BY <1>0, <1>3, <2>3, IdsStillSuffice DEF CInv, Typed, Early, disk, history, counts
  <2>5. FileIsSorted'
    BY <1>0 DEF CInv, FileIsSorted, disk, Own
  <2>6. WorkIsOwned' /\ NobodyShares'
    BY <1>0, <1>3 DEF CInv, Typed, WorkIsOwned, NobodyShares, Holds, Own, disk
  <2> QED BY <1>1, <2>3, <2>4, <2>5, <2>6 DEF CInv
<1> QED BY <1>2, <1>3 DEF Evaluate

LEMMA LookupKeepsCInv ==
  ASSUME CInv, NEW w \in Workers, Lookup(w)
  PROVE  CInv'
<1> DEFINE s == SubjectKey(event[w])
<1>0. /\ stage[w] = "lookup" /\ stage' = [stage EXCEPT ![w] = "load"]
      /\ UNCHANGED <<disk, memory, event, found, copy, history, counts>>
      /\ event[w] \in Events
  BY DEF Lookup, CInv, Typed, WorkIsOwned
<1>1. \/ id' = [id EXCEPT ![w] = Nothing]
      \/ open[s] # Nothing /\ id' = [id EXCEPT ![w] = open[s].id]
  BY DEF Lookup
<1>2. open[s] # Nothing =>
        /\ open[s].id \in IncidentIds /\ open[s].id < fresh
        /\ incidents[open[s].id] # Nothing
        /\ incidents[open[s].id].subject = s
  BY <1>0, KeyIsSubject DEF CInv, Typed, OpenIsOwned, FileIsSorted, Openings
<1>3. Typed'
  BY <1>0, <1>1, <1>2 DEF CInv, Typed, disk, memory, history, counts
<1>4. IdsSuffice'
  BY <1>0, <1>3, IdsStillSuffice DEF CInv, Typed, Early, disk, history, counts
<1>5. FileIsSorted' /\ OpenIsOwned'
  BY <1>0 DEF CInv, FileIsSorted, OpenIsOwned, disk, memory, Own
<1>6. WorkIsOwned'
  BY <1>0, <1>1, <1>2 DEF CInv, Typed, WorkIsOwned, Holds, Own, disk
<1>7. NobodyShares'
  <2> SUFFICES ASSUME NEW u \in Workers, NEW v \in Workers,
                      Holds(u)', Holds(v)', id'[u] = id'[v]
               PROVE  SubjectKey(event[u]) = SubjectKey(event[v])
    BY <1>0 DEF NobodyShares
  <2>1. \A x \in Workers \ {w} : Holds(x)' => Holds(x) /\ id'[x] = id[x]
    BY <1>0, <1>1 DEF CInv, Typed, Holds
  <2>2. Holds(w)' => open[s] # Nothing /\ id'[w] = open[s].id
    BY <1>0, <1>1 DEF CInv, Typed, Holds
  <2>3. \A x \in Workers \ {w} : Holds(x)' /\ Holds(w)' /\ id'[x] = id'[w] =>
          SubjectKey(event[x]) = s
    BY <1>2, <2>1, <2>2 DEF CInv, WorkIsOwned
  <2> QED BY <2>1, <2>3 DEF CInv, NobodyShares
<1> QED BY <1>3, <1>4, <1>5, <1>6, <1>7 DEF CInv

(* A new incident: its id was never drawn, so nobody else holds it.        *)
LEMMA StartKeepsCInv ==
  ASSUME CInv, NEW w \in Workers, stage[w] = "load", StartIncident(w),
         stage' = [stage EXCEPT ![w] = "save"],
         UNCHANGED <<stored, incidents, memory, event, found, history, replays>>
  PROVE  CInv'
<1> DEFINE new == [subject |-> SubjectKey(event[w]), findings |-> [r \in Rules |-> {}]]
<1>0. /\ id' = [id EXCEPT ![w] = fresh] /\ fresh' = fresh + 1
      /\ copy' = [copy EXCEPT ![w] = new]
  BY DEF StartIncident
<1>1. /\ event[w] \in Events /\ SubjectKey(event[w]) \in Subjects
      /\ fresh \in IncidentIds /\ fresh \in Nat
  BY FreshIsId, KeyIsSubject DEF CInv, Typed, WorkIsOwned, Early
<1>2. new \in Incidents /\ new # Nothing /\ Own(new) /\ new.subject = SubjectKey(event[w])
  BY <1>1, NothingIsNone DEF Incidents, Findings, Own
<1>3. incidents[fresh] = Nothing
  BY <1>1 DEF CInv, FileIsSorted
<1> HIDE DEF new
<1>4. Typed'
  BY <1>0, <1>1, <1>2 DEF CInv, Typed, memory, history
<1>5. IdsSuffice'
  BY <1>0, <1>4, IdsStillSuffice DEF CInv, Typed, Early, history
<1>6. FileIsSorted'
  BY <1>0, <1>1 DEF CInv, FileIsSorted, IncidentIds, Own
<1>7. OpenIsOwned'
  BY DEF CInv, OpenIsOwned, memory
<1>8. /\ id'[w] = fresh /\ fresh # Nothing /\ stage'[w] = "save" /\ copy'[w] = new
      /\ \A v \in Workers \ {w} :
           /\ stage'[v] = stage[v] /\ id'[v] = id[v] /\ copy'[v] = copy[v]
           /\ Holds(v)' <=> Holds(v)
           /\ Holds(v) => id[v] < fresh /\ id[v] \in IncidentIds
  BY <1>0, <1>1, NothingIsNone DEF CInv, Typed, WorkIsOwned, Holds
<1>9. WorkIsOwned'
  <2>1. \A v \in Workers \ {w} : Holds(v) => id[v] < fresh'
    BY <1>0, <1>1, <1>8 DEF IncidentIds
  <2>2. id'[w] < fresh'
    BY <1>0, <1>1, <1>8
  <2>3. ASSUME NEW v \in Workers \ {w}
        PROVE  /\ stage'[v] # "idle" => event'[v] \in stored'
               /\ Holds(v)' =>
                    /\ id'[v] < fresh'
                    /\ incidents'[id'[v]] # Nothing =>
                         incidents'[id'[v]].subject = SubjectKey(event'[v])
                    /\ stage'[v] # "save" => incidents'[id'[v]] # Nothing
               /\ stage'[v] = "save" =>
                    copy'[v] # Nothing /\ copy'[v].subject = SubjectKey(event'[v]) /\ Own(copy'[v])
               /\ stage'[v] \in {"save", "record"} => id'[v] # Nothing
    BY <1>8, <2>1 DEF CInv, WorkIsOwned, Own
  <2>4. /\ stage'[w] # "idle" => event'[w] \in stored'
        /\ Holds(w)' =>
             /\ id'[w] < fresh'
             /\ incidents'[id'[w]] # Nothing =>
                  incidents'[id'[w]].subject = SubjectKey(event'[w])
             /\ stage'[w] # "save" => incidents'[id'[w]] # Nothing
        /\ stage'[w] = "save" =>
             copy'[w] # Nothing /\ copy'[w].subject = SubjectKey(event'[w]) /\ Own(copy'[w])
        /\ stage'[w] \in {"save", "record"} => id'[w] # Nothing
    BY <1>2, <1>3, <1>8, <2>2 DEF CInv, WorkIsOwned, Own
  <2> QED BY <2>3, <2>4 DEF WorkIsOwned, Own
<1>10. NobodyShares'
  <2> SUFFICES ASSUME NEW u \in Workers, NEW v \in Workers,
                      Holds(u)', Holds(v)', id'[u] = id'[v]
               PROVE  SubjectKey(event[u]) = SubjectKey(event[v])
    BY DEF NobodyShares
  <2>1. \A x \in Workers \ {w} : Holds(x) => id[x] # fresh
    BY <1>1, <1>8 DEF IncidentIds
  <2> QED BY <1>8, <2>1 DEF CInv, NobodyShares
<1> QED BY <1>4, <1>5, <1>6, <1>7, <1>9, <1>10 DEF CInv

LEMMA LoadKeepsCInv ==
  ASSUME CInv, NEW w \in Workers, Load(w) \/ LoadFails(w)
  PROVE  CInv'
<1>0. /\ stage[w] = "load" /\ stage' = [stage EXCEPT ![w] = "save"]
      /\ UNCHANGED <<stored, incidents, memory, event, found, history, replays>>
  BY DEF Load, LoadFails, counts
<1>1. CASE StartIncident(w)
  BY <1>0, <1>1, StartKeepsCInv
<1>2. CASE id[w] # Nothing /\ copy' = [copy EXCEPT ![w] = incidents[id[w]]]
           /\ UNCHANGED <<id, fresh>>
  <2>1. /\ id[w] \in IncidentIds /\ incidents[id[w]] # Nothing
        /\ incidents[id[w]] \in Incidents /\ Own(incidents[id[w]])
        /\ incidents[id[w]].subject = SubjectKey(event[w])
    BY <1>0, <1>2 DEF CInv, Typed, WorkIsOwned, FileIsSorted, Holds
  <2>2. Typed'
    BY <1>0, <1>2, <2>1 DEF CInv, Typed, memory, history
  <2>3. IdsSuffice'
    BY <1>0, <1>2, <2>2, IdsStillSuffice DEF CInv, Typed, Early, history
  <2>4. FileIsSorted' /\ OpenIsOwned'
    BY <1>0, <1>2 DEF CInv, FileIsSorted, OpenIsOwned, memory, Own
  <2>5. WorkIsOwned'
    BY <1>0, <1>2, <2>1 DEF CInv, Typed, WorkIsOwned, Holds, Own
  <2>6. NobodyShares'
    BY <1>0, <1>2 DEF CInv, Typed, NobodyShares, Holds
  <2> QED BY <2>2, <2>3, <2>4, <2>5, <2>6 DEF CInv
<1> QED BY <1>1, <1>2 DEF Load, LoadFails

(* What mergeFinding leaves: nothing is dropped, and only the event added. *)
LEMMA MergedIsIncident ==
  ASSUME NEW inc \in Incidents, NEW e \in Events, NEW rules \in SUBSET Rules
  PROVE  LET new == Merged(inc, e, rules)
         IN  /\ new \in Incidents
             /\ new.subject = inc.subject
             /\ \A r \in Rules :
                  /\ inc.findings[r] \subseteq new.findings[r]
                  /\ new.findings[r] \subseteq inc.findings[r] \union {e}
                  /\ new.findings[r] = IF r \in rules
                                            /\ Cardinality(inc.findings[r]) < MaxFindingEvents
                                       THEN inc.findings[r] \union {e} ELSE inc.findings[r]
<1> DEFINE f == [r \in Rules |->
                   IF r \in rules /\ Cardinality(inc.findings[r]) < MaxFindingEvents
                   THEN inc.findings[r] \union {e} ELSE inc.findings[r]]
<1>1. inc.findings \in [Rules -> SUBSET Events] /\ inc.subject \in Subjects
  BY DEF Incidents, Findings
<1>2. f \in [Rules -> SUBSET Events]
  BY <1>1
<1>3. Merged(inc, e, rules) = [inc EXCEPT !.findings = f]
  BY DEF Merged
<1>4. /\ \A r \in Rules :
           /\ inc.findings[r] \subseteq f[r]
           /\ f[r] \subseteq inc.findings[r] \union {e}
           /\ f[r] = IF r \in rules /\ Cardinality(inc.findings[r]) < MaxFindingEvents
                     THEN inc.findings[r] \union {e} ELSE inc.findings[r]
  OBVIOUS
<1> HIDE DEF f
<1>5. /\ Merged(inc, e, rules) \in Incidents
      /\ Merged(inc, e, rules).subject = inc.subject
      /\ Merged(inc, e, rules).findings = f
  BY <1>1, <1>2, <1>3 DEF Incidents, Findings
<1> QED BY <1>4, <1>5

(* The same, of one rule.                                                  *)
MergedFinding(inc, e, rules, r) ==
  Merged(inc, e, rules).findings[r] =
    IF r \in rules /\ Cardinality(inc.findings[r]) < MaxFindingEvents
    THEN inc.findings[r] \union {e} ELSE inc.findings[r]

LEMMA MergedFindings ==
  ASSUME NEW inc \in Incidents, NEW e \in Events, NEW rules \in SUBSET Rules
  PROVE  \A r \in Rules : MergedFinding(inc, e, rules, r)
<1>1. PICK new : new = Merged(inc, e, rules)
  OBVIOUS
<1>2. \A r \in Rules :
        new.findings[r] = IF r \in rules /\ Cardinality(inc.findings[r]) < MaxFindingEvents
                          THEN inc.findings[r] \union {e} ELSE inc.findings[r]
  <2>1. inc.findings \in [Rules -> SUBSET Events]
    BY DEF Incidents, Findings
  <2> QED BY <1>1, <2>1 DEF Merged, Incidents
<1> QED BY <1>1, <1>2 DEF MergedFinding

(* A worker writes its copy: as Save, or as a SaveFails whose answer is lost. *)
Writes(w) == stage[w] = "save" /\ Write(w)

LEMMA WrittenIsOwned ==
  ASSUME CInv, NEW w \in Workers, Writes(w), UNCHANGED <<fresh, open>>
  PROVE  /\ incidents' \in [IncidentIds -> Incidents \union {Nothing}]
         /\ FileIsSorted' /\ OpenIsOwned'
         /\ incidents'[id[w]] # Nothing
         /\ \A v \in Workers : Holds(v) =>
              /\ incidents'[id[v]] # Nothing => incidents'[id[v]].subject = SubjectKey(event[v])
              /\ incidents[id[v]] # Nothing => incidents'[id[v]] # Nothing
<1> DEFINE new == Merged(copy[w], event[w], found[w])
<1>0. stage[w] = "save" /\ incidents' = [incidents EXCEPT ![id[w]] = new]
  BY DEF Writes, Write
<1>1. /\ event[w] \in Events /\ found[w] \subseteq Rules /\ id[w] \in IncidentIds
      /\ copy[w] \in Incidents /\ copy[w].subject = SubjectKey(event[w]) /\ Own(copy[w])
      /\ Holds(w) /\ id[w] < fresh
  BY <1>0 DEF CInv, Typed, WorkIsOwned, Holds
<1>2. new \in Incidents /\ new # Nothing /\ new.subject = SubjectKey(event[w]) /\ Own(new)
  <2>0. copy[w] \in Incidents /\ event[w] \in Events /\ found[w] \in SUBSET Rules
    BY <1>1
  <2>1. /\ new \in Incidents /\ new.subject = copy[w].subject
        /\ \A r \in Rules : new.findings[r] \subseteq copy[w].findings[r] \union {event[w]}
    BY <2>0, MergedIsIncident, Zenon
  <2> HIDE DEF new
  <2>2. Own(new)
    BY <1>1, <2>1 DEF Own
  <2> QED BY <1>1, <2>1, <2>2, NothingIsNone
<1> HIDE DEF new
<1>3. incidents' \in [IncidentIds -> Incidents \union {Nothing}]
  BY <1>0, <1>1, <1>2 DEF CInv, Typed
<1>5. /\ incidents'[id[w]] = new
      /\ \A i \in IncidentIds \ {id[w]} : incidents'[i] = incidents[i]
  BY <1>0, <1>1 DEF CInv, Typed
<1>6. FileIsSorted'
  BY <1>1, <1>2, <1>5 DEF CInv, FileIsSorted, Own
<1>7. OpenIsOwned'
  <2> SUFFICES ASSUME NEW s \in Subjects, open[s] # Nothing
               PROVE  /\ incidents'[open[s].id] # Nothing
                      /\ incidents'[open[s].id].subject = s
    BY DEF OpenIsOwned
  <2>1. /\ open[s].id \in IncidentIds /\ incidents[open[s].id] # Nothing
        /\ incidents[open[s].id].subject = s
    BY DEF CInv, Typed, OpenIsOwned, Openings
  <2>2. CASE open[s].id = id[w]
    BY <1>1, <1>2, <1>5, <2>1, <2>2 DEF CInv, WorkIsOwned
  <2>3. CASE open[s].id # id[w]
    BY <1>5, <2>1, <2>3
  <2> QED BY <2>2, <2>3
<1>8. ASSUME NEW v \in Workers, Holds(v)
      PROVE  /\ incidents'[id[v]] # Nothing => incidents'[id[v]].subject = SubjectKey(event[v])
             /\ incidents[id[v]] # Nothing => incidents'[id[v]] # Nothing
  <2>1. CASE id[v] = id[w]
    BY <1>1, <1>2, <1>5, <1>8, <2>1 DEF CInv, NobodyShares
  <2>2. CASE id[v] # id[w]
    <3>1. id[v] \in IncidentIds
      BY <1>8 DEF Holds, CInv, Typed
    <3> QED BY <1>5, <1>8, <2>2, <3>1 DEF CInv, WorkIsOwned
  <2> QED BY <2>1, <2>2
<1> QED BY <1>2, <1>3, <1>5, <1>6, <1>7, <1>8

LEMMA SaveKeepsCInv ==
  ASSUME CInv, NEW w \in Workers, Save(w)
  PROVE  CInv'
<1>0. /\ Writes(w) /\ stage[w] = "save" /\ stage' = [stage EXCEPT ![w] = "record"]
      /\ UNCHANGED <<stored, fresh, memory, event, found, id, copy, history, counts>>
  BY DEF Save, Writes
<1>1. /\ incidents' \in [IncidentIds -> Incidents \union {Nothing}]
      /\ FileIsSorted' /\ OpenIsOwned'
      /\ incidents'[id[w]] # Nothing
      /\ \A v \in Workers : Holds(v) =>
           /\ incidents'[id[v]] # Nothing => incidents'[id[v]].subject = SubjectKey(event[v])
           /\ incidents[id[v]] # Nothing => incidents'[id[v]] # Nothing
  BY <1>0, WrittenIsOwned DEF memory
<1>2. Typed'
  BY <1>0, <1>1 DEF CInv, Typed, memory, history, counts
<1>3. IdsSuffice'
  BY <1>0, <1>2, IdsStillSuffice DEF CInv, Typed, Early, history, counts
<1>4. \A v \in Workers : Holds(v)' <=> Holds(v)
  BY <1>0 DEF CInv, Typed, Holds
<1>5. WorkIsOwned'
  <2> SUFFICES ASSUME NEW v \in Workers
               PROVE  /\ stage'[v] # "idle" => event[v] \in stored
                      /\ Holds(v) =>
                           /\ id[v] < fresh
                           /\ incidents'[id[v]] # Nothing =>
                                incidents'[id[v]].subject = SubjectKey(event[v])
                           /\ stage'[v] # "save" => incidents'[id[v]] # Nothing
                      /\ stage'[v] = "save" =>
                           /\ copy[v] # Nothing /\ copy[v].subject = SubjectKey(event[v])
                           /\ Own(copy[v])
                      /\ stage'[v] \in {"save", "record"} => id[v] # Nothing
    BY <1>0, <1>4 DEF WorkIsOwned, Own
  <2>1. CASE v = w
    BY <1>0, <1>1, <2>1 DEF CInv, Typed, WorkIsOwned
  <2>2. CASE v # w
    <3>1. stage'[v] = stage[v]
      BY <1>0, <2>2 DEF CInv, Typed
    <3> QED BY <1>1, <3>1 DEF CInv, WorkIsOwned
  <2> QED BY <2>1, <2>2
<1>6. NobodyShares'
  BY <1>0, <1>4 DEF CInv, NobodyShares
<1> QED BY <1>1, <1>2, <1>3, <1>5, <1>6 DEF CInv

LEMMA SaveFailsKeepsCInv ==
  ASSUME CInv, NEW w \in Workers, SaveFails(w)
  PROVE  CInv'
<1>0. /\ Finish(w) /\ UNCHANGED <<stored, fresh, memory, history, replays>>
      /\ Writes(w) \/ incidents' = incidents
  BY DEF SaveFails, Writes
<1>1. /\ incidents' \in [IncidentIds -> Incidents \union {Nothing}]
      /\ FileIsSorted' /\ OpenIsOwned'
      /\ \A v \in Workers : Holds(v) =>
           /\ incidents'[id[v]] # Nothing => incidents'[id[v]].subject = SubjectKey(event[v])
           /\ incidents[id[v]] # Nothing => incidents'[id[v]] # Nothing
  <2>1. CASE Writes(w)
    BY <1>0, <2>1, WrittenIsOwned DEF memory
  <2>2. CASE incidents' = incidents
    BY <1>0, <2>2 DEF CInv, Typed, FileIsSorted, OpenIsOwned, WorkIsOwned, Own, memory
  <2> QED BY <1>0, <2>1, <2>2
<1>2. Typed'
  BY <1>0, <1>1 DEF CInv, Typed, Finish, memory, history
<1> QED BY <1>0, <1>1, <1>2, FinishKeepsCInv DEF history

LEMMA RecordKeepsCInv ==
  ASSUME CInv, NEW w \in Workers, Record(w)
  PROVE  CInv'
<1> DEFINE s == SubjectKey(event[w])
           o == [id |-> id[w], lastSeen |-> TimeOf[event[w]]]
<1>0. /\ stage[w] = "record" /\ Finish(w)
      /\ open' = [open EXCEPT ![s] = o]
      /\ acked' = [acked EXCEPT ![event[w]] = id[w]]
      /\ UNCHANGED <<disk, hits, sent, orderly, counts>>
  BY DEF Record
<1>1. /\ event[w] \in Events /\ s \in Subjects /\ id[w] \in IncidentIds
      /\ incidents[id[w]] # Nothing /\ incidents[id[w]].subject = s
  BY <1>0, KeyIsSubject DEF CInv, Typed, WorkIsOwned, Holds
<1>2. o \in Openings /\ o # Nothing
  BY <1>1, EventsAreTelemetry, NothingIsNone DEF Openings
<1>3. OpenIsOwned'
  <2> SUFFICES ASSUME NEW u \in Subjects, open'[u] # Nothing
               PROVE  /\ incidents[open'[u].id] # Nothing
                      /\ incidents[open'[u].id].subject = u
    BY <1>0 DEF OpenIsOwned, disk
  <2>1. CASE u = s
    BY <1>0, <1>1, <2>1 DEF CInv, Typed
  <2>2. CASE u # s
    <3>1. open'[u] = open[u]
      BY <1>0, <1>1, <2>2 DEF CInv, Typed
    <3> QED BY <3>1 DEF CInv, OpenIsOwned
  <2> QED BY <2>1, <2>2
<1> HIDE DEF o
<1>4. Typed'
  BY <1>0, <1>1, <1>2 DEF CInv, Typed, Finish, disk, counts
<1>5. FileIsSorted'
  BY <1>0 DEF CInv, FileIsSorted, Own, disk
<1>6. \A v \in Workers : Holds(v) =>
        (incidents[id[v]] # Nothing => incidents[id[v]].subject = SubjectKey(event[v]))
  BY DEF CInv, WorkIsOwned
<1> QED BY <1>0, <1>3, <1>4, <1>5, <1>6, FinishKeepsCInv DEF disk, counts

LEMMA RestartKeepsCInv ==
  ASSUME CInv, Restart
  PROVE  CInv'
<1>1. Typed'
  BY DEF CInv, Typed, Restart, disk, history
<1>2. MayStart' = {}
  BY DEF Restart, MayStart, Early
<1>3. IdsSuffice'
  <2>1. Cardinality(MayStart) \in Nat /\ Cardinality(sent) \in Nat
    BY FinitelyMany, FS_Subset, FS_CardinalityType DEF MayStart, CInv, Typed
  <2>2. fresh' = fresh /\ sent' = sent /\ replays' = replays
    BY DEF Restart, disk, history
  <2> QED BY <1>1, <1>2, <2>1, <2>2, FS_EmptySet DEF CInv, Typed, IdsSuffice
<1>4. FileIsSorted' /\ OpenIsOwned' /\ WorkIsOwned' /\ NobodyShares'
  BY DEF CInv, FileIsSorted, OpenIsOwned, WorkIsOwned, NobodyShares, Restart, Holds, Own, disk
<1> QED BY <1>1, <1>3, <1>4 DEF CInv

LEMMA CInvStep == CInv /\ [Next]_vars => CInv'
<1> SUFFICES ASSUME CInv, [Next]_vars PROVE CInv'
  OBVIOUS
<1>1. ASSUME NEW w \in Workers, Process(w) PROVE CInv'
  BY <1>1, EvaluateKeepsCInv, LookupKeepsCInv, LoadKeepsCInv, SaveKeepsCInv,
     SaveFailsKeepsCInv, RecordKeepsCInv DEF Process
<1>2. ASSUME NEW w \in Workers, NEW e \in Events, Ingest(w, e) PROVE CInv'
  BY <1>2, IngestKeepsCInv
<1>3. CASE Restart
  BY <1>3, RestartKeepsCInv
<1>4. CASE UNCHANGED vars
  BY <1>4 DEF CInv, Typed, IdsSuffice, MayStart, FileIsSorted, OpenIsOwned, WorkIsOwned,
              NobodyShares, Holds, Own, vars, disk, memory, work, history, counts
<1> QED BY <1>1, <1>2, <1>3, <1>4 DEF Next

(* The invariant holds throughout.                                         *)
THEOREM CorrelationInvariant == Spec => []CInv
BY CInvInit, CInvStep, PTL DEF Spec

(* No event is merged into an incident of somebody else, however many       *)
(* requests run at a time (Engine.mergeIntoIncident, subjectKey).           *)
THEOREM IncidentsAreSomebodys == Spec => []NobodyElsesIncident
<1>1. CInv => NobodyElsesIncident
  <2> SUFFICES ASSUME CInv, NEW i \in OnFile,
                      NEW d \in EventsIn(incidents[i]), NEW e \in EventsIn(incidents[i])
               PROVE  /\ ActorOf[d] = ActorOf[e]
                      /\ ActorOf[d] = NoActor => SourceOf[d] = SourceOf[e]
    BY DEF NobodyElsesIncident
  <2>1. Own(incidents[i])
    BY DEF CInv, FileIsSorted, OnFile
  <2>2. SubjectKey(d) = SubjectKey(e)
    BY <2>1 DEF Own, EventsIn
  <2> QED BY <2>2 DEF SubjectKey
<1> QED BY <1>1, CorrelationInvariant, PTL

-----------------------------------------------------------------------------
(* A subject's events one after the other.                                 *)

Held(inc, e, r) == e \in inc.findings[r] \/ Cardinality(inc.findings[r]) = MaxFindingEvents

OneByOne ==
  \A v, w \in Workers :
    stage[v] # "idle" /\ stage[w] # "idle" /\ SubjectKey(event[v]) = SubjectKey(event[w])
      => v = w

CopiesAreCurrent ==
  \A w \in Workers :
    stage[w] = "save" /\ incidents[id[w]] # Nothing => copy[w] = incidents[id[w]]

WithinBound(inc) == \A r \in Rules : Cardinality(inc.findings[r]) <= MaxFindingEvents

FindingsAreBounded ==
  /\ \A i \in IncidentIds : incidents[i] # Nothing => WithinBound(incidents[i])
  /\ \A w \in Workers : stage[w] = "save" => WithinBound(copy[w])

Always(e) == {r \in RulesOf[e] : CountOf(r) = 0}   \* its rules without a threshold

FoundIsMatched ==
  \A w \in Workers : stage[w] \in {"lookup", "load", "save", "record"} =>
    found[w] # {} /\ found[w] \subseteq RulesOf[event[w]] /\ Always(event[w]) \subseteq found[w]

OnlyThresholdsCount ==
  \A s \in Subjects : \A r \in Rules : CountOf(r) = 0 => hits[<<s, r>>] = <<>>

SavedIsHeld ==
  \A w \in Workers : stage[w] = "record" =>
    \A r \in found[w] : Held(incidents[id[w]], event[w], r)

Underway ==
  /\ OneByOne /\ CopiesAreCurrent /\ FindingsAreBounded
  /\ FoundIsMatched /\ OnlyThresholdsCount /\ SavedIsHeld

SInv == CInv /\ Underway /\ AckedEvidenceIsKept /\ OpenIncidentIsOnFile

(* What is on file only grows, and a full finding stays as it is.          *)
Grown ==
  \A i \in IncidentIds : incidents[i] # Nothing =>
    /\ incidents'[i] # Nothing
    /\ incidents'[i].subject = incidents[i].subject
    /\ \A r \in Rules :
         /\ incidents[i].findings[r] \subseteq incidents'[i].findings[r]
         /\ Cardinality(incidents[i].findings[r]) = MaxFindingEvents =>
              incidents'[i].findings[r] = incidents[i].findings[r]

LEMMA SInvInit == Init => SInv
<1> SUFFICES ASSUME Init PROVE SInv
  OBVIOUS
<1>1. CInv
  BY CInvInit
<1>2. Underway
  <2>1. OnlyThresholdsCount
    <3> SUFFICES ASSUME NEW s \in Subjects, NEW r \in Rules PROVE hits[<<s, r>>] = <<>>
      BY DEF OnlyThresholdsCount
    <3>1. <<s, r>> \in Subjects \X Rules
      OBVIOUS
    <3>2. hits = [sr \in Subjects \X Rules |-> <<>>]
      BY DEF Init
    <3> QED BY <3>1, <3>2, Zenon
  <2>0. /\ incidents = [i \in IncidentIds |-> Nothing]
        /\ \A w \in Workers : stage[w] = "idle"
    BY DEF Init
  <2>2. OneByOne /\ CopiesAreCurrent /\ FindingsAreBounded
    BY <2>0 DEF OneByOne, CopiesAreCurrent, FindingsAreBounded
  <2>3. FoundIsMatched /\ SavedIsHeld
    BY DEF Init, FoundIsMatched, SavedIsHeld
  <2> QED BY <2>1, <2>2, <2>3 DEF Underway
<1>3. AckedEvidenceIsKept /\ OpenIncidentIsOnFile
  BY DEF Init, AckedEvidenceIsKept, OpenIncidentIsOnFile
<1> QED BY <1>1, <1>2, <1>3 DEF SInv

(* A finding is a finite set.                                              *)
LEMMA FindingIsFinite ==
  ASSUME NEW inc \in Incidents, NEW r \in Rules
  PROVE  /\ inc.findings[r] \subseteq Events
         /\ IsFiniteSet(inc.findings[r]) /\ Cardinality(inc.findings[r]) \in Nat
<1>1. inc.findings[r] \subseteq Events
  BY DEF Incidents, Findings
<1> QED BY <1>1, FinitelyMany, FS_Subset, FS_CardinalityType

(* Merging keeps the bound, and the event added is held under its rules.   *)
LEMMA MergedIsHeld ==
  ASSUME NEW inc \in Incidents, NEW e \in Events, NEW rules \in SUBSET Rules,
         WithinBound(inc)
  PROVE  /\ WithinBound(Merged(inc, e, rules))
         /\ \A r \in rules : Held(Merged(inc, e, rules), e, r)
         /\ \A r \in Rules : Cardinality(inc.findings[r]) = MaxFindingEvents =>
              Merged(inc, e, rules).findings[r] = inc.findings[r]
<1> DEFINE new == Merged(inc, e, rules)
<1>1. \A r \in Rules :
        new.findings[r] = IF r \in rules /\ Cardinality(inc.findings[r]) < MaxFindingEvents
                          THEN inc.findings[r] \union {e} ELSE inc.findings[r]
  <2> HIDE DEF new
  <2>1. \A r \in Rules : MergedFinding(inc, e, rules, r)
    BY MergedFindings, Zenon
  <2> QED BY <2>1 DEF MergedFinding, new
<1> HIDE DEF new
<1> SUFFICES ASSUME NEW r \in Rules
             PROVE  /\ Cardinality(new.findings[r]) <= MaxFindingEvents
                    /\ r \in rules => Held(new, e, r)
                    /\ Cardinality(inc.findings[r]) = MaxFindingEvents =>
                         new.findings[r] = inc.findings[r]
  BY DEF WithinBound, new
<1>2. /\ Cardinality(inc.findings[r]) \in Nat /\ IsFiniteSet(inc.findings[r])
      /\ Cardinality(inc.findings[r]) <= MaxFindingEvents
      /\ MaxFindingEvents \in Nat
  BY FindingIsFinite, BoundsAreNaturals DEF WithinBound
<1>3. CASE r \in rules /\ Cardinality(inc.findings[r]) < MaxFindingEvents
  <2>1. new.findings[r] = inc.findings[r] \union {e}
    BY <1>1, <1>3
  <2>2. \/ Cardinality(inc.findings[r] \union {e}) = Cardinality(inc.findings[r])
        \/ Cardinality(inc.findings[r] \union {e}) = Cardinality(inc.findings[r]) + 1
    BY <1>2, FS_AddElement, Zenon
  <2> QED BY <1>2, <1>3, <2>1, <2>2 DEF Held
<1>4. CASE ~(r \in rules /\ Cardinality(inc.findings[r]) < MaxFindingEvents)
  <2>1. new.findings[r] = inc.findings[r]
    BY <1>1, <1>4
  <2> QED BY <1>2, <1>4, <2>1 DEF Held
<1> QED BY <1>3, <1>4

(* Only a worker that saves changes what is on file.                       *)
LEMMA OnlySaveWrites ==
  ASSUME [Next]_vars
  PROVE  \/ incidents' = incidents
         \/ \E w \in Workers : Writes(w) /\ (Save(w) \/ SaveFails(w))
BY DEF Next, vars, disk, Process, Ingest, Evaluate, Lookup, Load, LoadFails, Save, SaveFails,
       Record, Restart, Writes

(* The copy saved is what is on file, so saving only adds to it.           *)
LEMMA FileGrows ==
  ASSUME SInv, [Next]_vars
  PROVE  Grown
<1>1. CASE incidents' = incidents
  BY <1>1 DEF Grown
<1>2. ASSUME NEW w \in Workers, Writes(w) PROVE Grown
  <2> DEFINE new == Merged(copy[w], event[w], found[w])
  <2>1. /\ copy[w] \in Incidents /\ event[w] \in Events /\ found[w] \in SUBSET Rules
        /\ id[w] \in IncidentIds /\ WithinBound(copy[w])
        /\ incidents[id[w]] # Nothing => copy[w] = incidents[id[w]]
    BY <1>2 DEF Writes, SInv, Underway, CInv, Typed, WorkIsOwned, CopiesAreCurrent,
                FindingsAreBounded
  <2>2. /\ new \in Incidents /\ new.subject = copy[w].subject
        /\ \A r \in Rules : copy[w].findings[r] \subseteq new.findings[r]
    BY <2>1, MergedIsIncident, Zenon
  <2>3. \A r \in Rules : Cardinality(copy[w].findings[r]) = MaxFindingEvents =>
          new.findings[r] = copy[w].findings[r]
    BY <2>1, MergedIsHeld, Zenon
  <2>4. /\ incidents'[id[w]] = new
        /\ \A i \in IncidentIds \ {id[w]} : incidents'[i] = incidents[i]
    BY <1>2, <2>1 DEF Writes, Write, SInv, CInv, Typed
  <2> HIDE DEF new
  <2>5. new # Nothing
    BY <2>2, NothingIsNone
  <2> SUFFICES ASSUME NEW i \in IncidentIds, incidents[i] # Nothing
               PROVE  /\ incidents'[i] # Nothing
                      /\ incidents'[i].subject = incidents[i].subject
                      /\ \A r \in Rules :
                           /\ incidents[i].findings[r] \subseteq incidents'[i].findings[r]
                           /\ Cardinality(incidents[i].findings[r]) = MaxFindingEvents =>
                                incidents'[i].findings[r] = incidents[i].findings[r]
    BY DEF Grown
  <2>6. CASE i = id[w]
    BY <2>1, <2>2, <2>3, <2>4, <2>5, <2>6
  <2>7. CASE i # id[w]
    BY <2>4, <2>7
  <2> QED BY <2>6, <2>7
<1> QED BY <1>1, <1>2, OnlySaveWrites

-----------------------------------------------------------------------------
(* Underway is inductive: one lemma per part.                              *)

(* A worker at work is at work on the same event, but for one just begun.  *)
LEMMA WorkGoesOn ==
  ASSUME CInv, [Next]_vars, NEW v \in Workers, stage'[v] # "idle"
  PROVE  \/ stage[v] # "idle" /\ event'[v] = event[v]
         \/ \E e \in Events : Ingest(v, e)
<1> USE DEF CInv, Typed
<1>1. CASE UNCHANGED vars
  BY <1>1 DEF vars, work
<1>2. CASE Restart
  BY <1>2 DEF Restart
<1>3. ASSUME NEW w \in Workers, NEW e \in Events, Ingest(w, e), ~Ingest(v, e)
      PROVE  stage[v] # "idle" /\ event'[v] = event[v]
  BY <1>3 DEF Ingest
<1>4. ASSUME NEW w \in Workers, Finish(w)
      PROVE  stage[v] # "idle" /\ event'[v] = event[v]
  BY <1>4 DEF Finish
<1>5. ASSUME NEW w \in Workers, stage[w] # "idle", event' = event,
             \E x \in {"lookup", "load", "save", "record"} : stage' = [stage EXCEPT ![w] = x]
      PROVE  stage[v] # "idle" /\ event'[v] = event[v]
  BY <1>5
<1>6. ASSUME NEW w \in Workers, Process(w)
      PROVE  \/ Finish(w)
             \/ /\ stage[w] # "idle" /\ event' = event
                /\ \E x \in {"lookup", "load", "save", "record"} : stage' = [stage EXCEPT ![w] = x]
  BY <1>6 DEF Process, Evaluate, Lookup, Load, LoadFails, Save, SaveFails, Record
<1> QED BY <1>1, <1>2, <1>3, <1>4, <1>5, <1>6 DEF Next

LEMMA OneByOneStep ==
  ASSUME OneAtATime, CInv, OneByOne, [Next]_vars
  PROVE  OneByOne'
<1> SUFFICES ASSUME NEW u \in Workers, NEW v \in Workers,
                    stage'[u] # "idle", stage'[v] # "idle",
                    SubjectKey(event'[u]) = SubjectKey(event'[v]), u # v
             PROVE  FALSE
  BY DEF OneByOne
<1>1. ASSUME NEW x \in Workers, NEW y \in Workers, NEW e \in Events, Ingest(x, e),
             x # y, stage'[y] # "idle", SubjectKey(event'[x]) = SubjectKey(event'[y])
      PROVE  FALSE
  <2>1. event'[x] = e /\ stage[y] # "idle" /\ event'[y] = event[y]
    BY <1>1 DEF Ingest, CInv, Typed
  <2>2. y \in InHand(SubjectKey(e))
    BY <1>1, <2>1 DEF InHand
  <2> QED BY <1>1, <2>2 DEF Ingest
<1>2. /\ stage[u] # "idle" /\ event'[u] = event[u]
      /\ stage[v] # "idle" /\ event'[v] = event[v]
  BY <1>1, WorkGoesOn
<1> QED BY <1>2 DEF OneByOne

(* Two workers at work do not hold the same incident.                      *)
LEMMA HoldersAreAlone ==
  ASSUME CInv, OneByOne, NEW v \in Workers, NEW w \in Workers,
         Holds(v), Holds(w), id[v] = id[w]
  PROVE  v = w
<1>1. SubjectKey(event[v]) = SubjectKey(event[w])
  BY DEF CInv, NobodyShares
<1> QED BY <1>1 DEF OneByOne, Holds

(* A step leaves a worker's own state alone, ends its work, or is its own. *)
Same(v) ==
  /\ stage'[v] = stage[v] /\ event'[v] = event[v] /\ found'[v] = found[v]
  /\ id'[v] = id[v] /\ copy'[v] = copy[v]

LEMMA OwnStepOrNone ==
  ASSUME CInv, [Next]_vars, NEW v \in Workers
  PROVE  Same(v) \/ stage'[v] = "idle" \/ (\E e \in Events : Ingest(v, e)) \/ Process(v)
<1> USE DEF CInv, Typed, Same
<1>1. CASE UNCHANGED vars
  BY <1>1 DEF vars, work
<1>2. CASE Restart
  BY <1>2 DEF Restart
<1>3. ASSUME NEW w \in Workers, NEW e \in Events, Ingest(w, e), w # v
      PROVE  Same(v)
  BY <1>3 DEF Ingest
<1>4. ASSUME NEW w \in Workers, Process(w), w # v
      PROVE  Same(v)
  BY <1>4 DEF Process, Evaluate, Lookup, Load, LoadFails, StartIncident, Save, SaveFails,
              Record, Finish
<1> QED BY <1>1, <1>2, <1>3, <1>4 DEF Next

LEMMA NextStageIs ==
  ASSUME CInv, [Next]_vars, NEW v \in Workers
  PROVE  /\ stage'[v] = "save" => Same(v) \/ Load(v) \/ LoadFails(v)
         /\ stage'[v] = "record" => Same(v) \/ Save(v)
<1>1. (\E e \in Events : Ingest(v, e)) => stage'[v] = "rules"
  BY DEF Ingest, CInv, Typed
<1>2. Process(v) =>
        \/ stage'[v] \in {"idle", "lookup"} \/ Lookup(v) \/ Load(v) \/ LoadFails(v) \/ Save(v)
  BY DEF Process, Evaluate, SaveFails, Record, Finish, CInv, Typed
<1>3. /\ Lookup(v) => stage'[v] = "load"
      /\ Load(v) \/ LoadFails(v) => stage'[v] = "save"
      /\ Save(v) => stage'[v] = "record"
  BY DEF Lookup, Load, LoadFails, Save, CInv, Typed
<1> QED BY <1>1, <1>2, <1>3, OwnStepOrNone

(* What Load leaves: the incident on file, or a new one.                   *)
LEMMA LoadedIs ==
  ASSUME CInv, NEW v \in Workers, Load(v) \/ LoadFails(v)
  PROVE  /\ incidents' = incidents /\ stage[v] = "load"
         /\ \/ /\ id[v] # Nothing /\ id'[v] = id[v] /\ id[v] \in IncidentIds
               /\ incidents[id[v]] # Nothing /\ copy'[v] = incidents[id[v]]
            \/ /\ incidents[id'[v]] = Nothing
               /\ copy'[v].findings = [r \in Rules |-> {}]
<1>0. incidents' = incidents /\ stage[v] = "load"
  BY DEF Load, LoadFails
<1>1. CASE StartIncident(v)
  <2>1. fresh \in IncidentIds /\ fresh \in Nat
    BY <1>0, FreshIsId DEF CInv, Typed, Early
  <2>2. id'[v] = fresh /\ copy'[v].findings = [r \in Rules |-> {}]
    BY <1>1 DEF StartIncident, CInv, Typed
  <2>3. incidents[fresh] = Nothing
    BY <2>1 DEF CInv, FileIsSorted
  <2> QED BY <1>0, <2>2, <2>3
<1>2. CASE id[v] # Nothing /\ copy' = [copy EXCEPT ![v] = incidents[id[v]]] /\ UNCHANGED id
  BY <1>0, <1>2 DEF CInv, Typed, WorkIsOwned, Holds
<1> QED BY <1>1, <1>2 DEF Load, LoadFails

LEMMA CopiesAreCurrentStep ==
  ASSUME SInv, [Next]_vars
  PROVE  CopiesAreCurrent'
<1> SUFFICES ASSUME NEW v \in Workers, stage'[v] = "save", incidents'[id'[v]] # Nothing
             PROVE  copy'[v] = incidents'[id'[v]]
  BY DEF CopiesAreCurrent
<1>1. CASE Load(v) \/ LoadFails(v)
  BY <1>1, LoadedIs DEF SInv
<1>2. CASE Same(v)
  <2>1. stage[v] = "save" /\ id'[v] = id[v] /\ copy'[v] = copy[v]
    BY <1>2 DEF Same
  <2>2. id[v] \in IncidentIds /\ Holds(v)
    BY <2>1 DEF SInv, CInv, Typed, WorkIsOwned, Holds
  <2>3. ASSUME NEW w \in Workers, Writes(w), Save(w) \/ SaveFails(w)
        PROVE  incidents'[id[v]] = incidents[id[v]]
    <3>1. /\ Holds(w)
          /\ incidents' = [incidents EXCEPT ![id[w]] = Merged(copy[w], event[w], found[w])]
      BY <2>3 DEF Writes, Write, SInv, CInv, WorkIsOwned, Holds
    <3>2. stage'[w] # "save"
      BY <2>3 DEF Save, SaveFails, Finish, SInv, CInv, Typed
    <3>3. id[w] # id[v]
      BY <1>2, <2>1, <2>2, <3>1, <3>2, HoldersAreAlone DEF Same, SInv, Underway
    <3> QED BY <2>2, <3>1, <3>3 DEF SInv, CInv, Typed
  <2>4. incidents'[id[v]] = incidents[id[v]]
    BY <2>3, OnlySaveWrites
  <2> QED BY <2>1, <2>4 DEF SInv, Underway, CopiesAreCurrent
<1> QED BY <1>1, <1>2, NextStageIs DEF SInv

LEMMA FindingsAreBoundedStep ==
  ASSUME SInv, [Next]_vars
  PROVE  FindingsAreBounded'
<1>1. ASSUME NEW i \in IncidentIds, incidents'[i] # Nothing PROVE WithinBound(incidents'[i])
  <2>1. CASE incidents' = incidents
    BY <1>1, <2>1 DEF SInv, Underway, FindingsAreBounded
  <2>2. ASSUME NEW w \in Workers, Writes(w) PROVE WithinBound(incidents'[i])
    <3> DEFINE new == Merged(copy[w], event[w], found[w])
    <3>1. /\ copy[w] \in Incidents /\ event[w] \in Events /\ found[w] \in SUBSET Rules
          /\ WithinBound(copy[w])
      BY <2>2 DEF Writes, SInv, Underway, CInv, Typed, WorkIsOwned, FindingsAreBounded
    <3>2. WithinBound(new)
      BY <3>1, MergedIsHeld, Zenon
    <3>3. incidents' = [incidents EXCEPT ![id[w]] = new]
      BY <2>2 DEF Writes, Write
    <3> HIDE DEF new
    <3> QED BY <1>1, <3>2, <3>3 DEF SInv, Underway, FindingsAreBounded, CInv, Typed
  <2> QED BY <2>1, <2>2, OnlySaveWrites
<1>2. ASSUME NEW v \in Workers, stage'[v] = "save" PROVE WithinBound(copy'[v])
  <2>1. CASE Same(v)
    BY <1>2, <2>1 DEF Same, SInv, Underway, FindingsAreBounded
  <2>2. CASE Load(v) \/ LoadFails(v)
    <3>1. CASE copy'[v].findings = [r \in Rules |-> {}]
      BY <3>1, FS_EmptySet, BoundsAreNaturals DEF WithinBound
    <3>2. CASE id[v] \in IncidentIds /\ incidents[id[v]] # Nothing /\ copy'[v] = incidents[id[v]]
      BY <3>2 DEF SInv, Underway, FindingsAreBounded
    <3> QED BY <2>2, <3>1, <3>2, LoadedIs DEF SInv
  <2> QED BY <1>2, <2>1, <2>2, NextStageIs DEF SInv
<1> QED BY <1>1, <1>2 DEF FindingsAreBounded, WithinBound

LEMMA EvaluationMatches ==
  ASSUME CInv, OnlyThresholdsCount, NEW v \in Workers, Evaluate(v), stage'[v] # "idle"
  PROVE  /\ found'[v] # {} /\ found'[v] \subseteq RulesOf[event[v]]
         /\ Always(event[v]) \subseteq found'[v] /\ event'[v] = event[v]
<1> DEFINE s == SubjectKey(event[v])
           counted == {s} \X {r \in RulesOf[event[v]] : CountOf(r) > 0}
           made == {r \in RulesOf[event[v]] : Len(hits'[<<s, r>>]) >= CountOf(r)}
<1>0. event[v] \in Events /\ s \in Subjects
  BY KeyIsSubject DEF CInv, Typed, WorkIsOwned, Evaluate
<1>1. /\ made # {} /\ found' = [found EXCEPT ![v] = made] /\ event' = event
      /\ \A sr \in Subjects \X Rules : sr \notin counted => hits'[sr] = hits[sr]
  <2>1. ~Finish(v)
    BY DEF Finish, CInv, Typed
  <2> QED BY <2>1, Zenon DEF Evaluate
<1>2. ASSUME NEW r \in Always(event[v]) PROVE r \in made
  <2>1. r \in RulesOf[event[v]] /\ r \in Rules /\ CountOf(r) = 0
    BY <1>0, <1>2 DEF Always, RulesOf
  <2>2. <<s, r>> \in Subjects \X Rules /\ <<s, r>> \notin counted
    BY <1>0, <2>1
  <2>3. hits'[<<s, r>>] = <<>>
    BY <1>0, <1>1, <2>1, <2>2 DEF OnlyThresholdsCount
  <2> QED BY <2>1, <2>3
<1>3. found'[v] = made
  BY <1>1 DEF CInv, Typed
<1> QED BY <1>1, <1>2, <1>3

LEMMA FoundIsMatchedStep ==
  ASSUME SInv, [Next]_vars
  PROVE  FoundIsMatched'
<1> SUFFICES ASSUME NEW v \in Workers, stage'[v] \in {"lookup", "load", "save", "record"}
             PROVE  /\ found'[v] # {} /\ found'[v] \subseteq RulesOf[event'[v]]
                    /\ Always(event'[v]) \subseteq found'[v]
  BY DEF FoundIsMatched, Always
<1>1. CASE Same(v)
  BY <1>1 DEF Same, SInv, Underway, FoundIsMatched
<1>2. CASE Evaluate(v)
  BY <1>2, EvaluationMatches DEF SInv, Underway
<1>3. CASE Lookup(v) \/ Load(v) \/ LoadFails(v) \/ Save(v)
  <2>1. /\ stage[v] \in {"lookup", "load", "save"}
        /\ found' = found /\ event' = event
    BY <1>3 DEF Lookup, Load, LoadFails, Save
  <2> QED BY <2>1 DEF SInv, Underway, FoundIsMatched
<1>4. CASE SaveFails(v) \/ Record(v)
  <2>1. stage'[v] = "idle"
    BY <1>4 DEF SaveFails, Record, Finish, SInv, CInv, Typed
  <2> QED BY <2>1
<1>5. ASSUME NEW e \in Events, Ingest(v, e) PROVE FALSE
  BY <1>5 DEF Ingest, SInv, CInv, Typed
<1> QED BY <1>1, <1>2, <1>3, <1>4, <1>5, OwnStepOrNone DEF Process, SInv

LEMMA OnlyThresholdsCountStep ==
  ASSUME SInv, [Next]_vars
  PROVE  OnlyThresholdsCount'
<1> SUFFICES ASSUME NEW s \in Subjects, NEW r \in Rules, CountOf(r) = 0
             PROVE  hits'[<<s, r>>] = <<>>
  BY DEF OnlyThresholdsCount, CountOf
<1>0. hits[<<s, r>>] = <<>> /\ <<s, r>> \in Subjects \X Rules
  BY DEF SInv, Underway, OnlyThresholdsCount
<1>1. CASE hits' = hits
  BY <1>0, <1>1
<1>2. CASE Restart
  <2>1. hits' = [sr \in Subjects \X Rules |-> <<>>]
    BY <1>2 DEF Restart
  <2> QED BY <1>0, <2>1, Zenon
<1>3. ASSUME NEW w \in Workers, Evaluate(w) PROVE hits'[<<s, r>>] = <<>>
  <2> DEFINE counted == {SubjectKey(event[w])} \X {q \in RulesOf[event[w]] : CountOf(q) > 0}
  <2>1. \A sr \in Subjects \X Rules : sr \notin counted => hits'[sr] = hits[sr]
    BY <1>3, Zenon DEF Evaluate
  <2>2. <<s, r>> \notin counted
    OBVIOUS
  <2> QED BY <1>0, <2>1, <2>2, Zenon
<1>4. hits' = hits \/ Restart \/ \E w \in Workers : Evaluate(w)
  BY DEF Next, vars, memory, Process, Ingest, Lookup, Load, LoadFails, Save, SaveFails, Record
<1> QED BY <1>1, <1>2, <1>3, <1>4

(* A finding that grew still holds what it held.                           *)
LEMMA HeldStays ==
  ASSUME Grown, NEW i \in IncidentIds, incidents[i] # Nothing,
         NEW e \in Events, NEW r \in Rules, Held(incidents[i], e, r)
  PROVE  Held(incidents'[i], e, r)
BY DEF Grown, Held

LEMMA SavedIsHeldStep ==
  ASSUME SInv, [Next]_vars
  PROVE  SavedIsHeld'
<1> SUFFICES ASSUME NEW v \in Workers, stage'[v] = "record", NEW r \in found'[v]
             PROVE  Held(incidents'[id'[v]], event'[v], r)
  BY DEF SavedIsHeld, Held
<1>1. CASE Same(v)
  <2>1. /\ stage[v] = "record" /\ event'[v] = event[v] /\ id'[v] = id[v] /\ r \in found[v]
    BY <1>1 DEF Same
  <2>2. /\ event[v] \in Events /\ r \in Rules
        /\ id[v] \in IncidentIds /\ incidents[id[v]] # Nothing
    BY <2>1 DEF SInv, CInv, Typed, WorkIsOwned, Holds
  <2>3. Held(incidents[id[v]], event[v], r)
    BY <2>1 DEF SInv, Underway, SavedIsHeld
  <2> QED BY <2>1, <2>2, <2>3, HeldStays, FileGrows
<1>2. CASE Save(v)
  <2> DEFINE new == Merged(copy[v], event[v], found[v])
  <2>1. /\ copy[v] \in Incidents /\ event[v] \in Events /\ found[v] \in SUBSET Rules
        /\ WithinBound(copy[v]) /\ id[v] \in IncidentIds
    BY <1>2 DEF Save, SInv, Underway, CInv, Typed, WorkIsOwned, FindingsAreBounded
  <2>2. \A q \in found[v] : Held(new, event[v], q)
    BY <2>1, MergedIsHeld, Zenon
  <2> HIDE DEF new
  <2>3. incidents'[id[v]] = new /\ id' = id /\ event' = event /\ found' = found
    BY <1>2, <2>1 DEF Save, Write, SInv, CInv, Typed, new
  <2> QED BY <2>2, <2>3
<1> QED BY <1>1, <1>2, NextStageIs DEF SInv

LEMMA UnderwayStep ==
  ASSUME OneAtATime, SInv, [Next]_vars
  PROVE  Underway'
<1>1. OneByOne'
  BY OneByOneStep DEF SInv, Underway
<1> QED BY <1>1, CopiesAreCurrentStep, FindingsAreBoundedStep, FoundIsMatchedStep,
           OnlyThresholdsCountStep, SavedIsHeldStep DEF Underway

-----------------------------------------------------------------------------
(* What an event added stays, and the open incident is on file.            *)

(* An event saved is held under each of the rules that found it.           *)
LEMMA RecordedIsKept ==
  ASSUME SInv, NEW w \in Workers, stage[w] = "record"
  PROVE  /\ event[w] \in stored /\ event[w] \in Events /\ id[w] \in IncidentIds
         /\ SubjectKey(event[w]) \in Subjects
         /\ incidents[id[w]] # Nothing
         /\ incidents[id[w]].subject = SubjectKey(event[w])
         /\ Always(event[w]) \subseteq RulesFound(incidents[id[w]])
         /\ \E r \in RulesOf[event[w]] : Held(incidents[id[w]], event[w], r)
<1>1. /\ event[w] \in stored /\ event[w] \in Events /\ id[w] \in IncidentIds
      /\ incidents[id[w]] # Nothing /\ found[w] \subseteq Rules
      /\ incidents[id[w]].subject = SubjectKey(event[w])
  BY DEF SInv, CInv, Typed, WorkIsOwned, Holds
<1>2. /\ found[w] # {} /\ found[w] \subseteq RulesOf[event[w]]
      /\ Always(event[w]) \subseteq found[w]
      /\ \A r \in found[w] : Held(incidents[id[w]], event[w], r)
  BY DEF SInv, Underway, FoundIsMatched, SavedIsHeld
<1>3. \A r \in found[w] : incidents[id[w]].findings[r] # {}
  BY <1>2, FS_EmptySet, BoundsAreNaturals DEF Held
<1>4. found[w] \subseteq RulesFound(incidents[id[w]])
  BY <1>1, <1>3 DEF RulesFound
<1> QED BY <1>1, <1>2, <1>4, KeyIsSubject

LEMMA AckedStep ==
  ASSUME SInv, [Next]_vars
  PROVE  AckedEvidenceIsKept'
<1> SUFFICES ASSUME NEW e \in Events, acked'[e] # Nothing
             PROVE  /\ incidents'[acked'[e]] # Nothing
                    /\ Always(e) \subseteq RulesFound(incidents'[acked'[e]])
                    /\ incidents'[acked'[e]].subject = SubjectKey(e)
  BY DEF AckedEvidenceIsKept, Always, CountOf, RulesOf, RulesFound
<1>1. ASSUME acked'[e] \in IncidentIds, incidents[acked'[e]] # Nothing,
             Always(e) \subseteq RulesFound(incidents[acked'[e]]),
             incidents[acked'[e]].subject = SubjectKey(e)
      PROVE  /\ incidents'[acked'[e]] # Nothing
             /\ Always(e) \subseteq RulesFound(incidents'[acked'[e]])
             /\ incidents'[acked'[e]].subject = SubjectKey(e)
  BY <1>1, FileGrows DEF Grown, RulesFound
<1>2. CASE acked'[e] = acked[e]
  <2>1. /\ acked[e] \in IncidentIds /\ incidents[acked[e]] # Nothing
        /\ Always(e) \subseteq RulesFound(incidents[acked[e]])
        /\ incidents[acked[e]].subject = SubjectKey(e)
    BY <1>2 DEF SInv, CInv, Typed, AckedEvidenceIsKept, Always
  <2> QED BY <1>1, <1>2, <2>1
<1>3. ASSUME NEW w \in Workers, Record(w), event[w] = e
      PROVE  /\ incidents'[acked'[e]] # Nothing
             /\ Always(e) \subseteq RulesFound(incidents'[acked'[e]])
             /\ incidents'[acked'[e]].subject = SubjectKey(e)
  <2>1. stage[w] = "record" /\ acked'[e] = id[w]
    BY <1>3 DEF Record, SInv, CInv, Typed
  <2> QED BY <1>1, <1>3, <2>1, RecordedIsKept
<1>4. acked'[e] = acked[e] \/ \E w \in Workers : Record(w) /\ event[w] = e
  <2>1. ASSUME NEW w \in Workers, Record(w), event[w] # e PROVE acked'[e] = acked[e]
    BY <2>1 DEF Record, SInv, CInv, Typed
  <2>2. acked' = acked \/ \E w \in Workers : Record(w)
    BY DEF Next, vars, history, Process, Ingest, Evaluate, Lookup, Load, LoadFails, Save,
           SaveFails, Restart
  <2> QED BY <2>1, <2>2
<1> QED BY <1>2, <1>3, <1>4

(* An incident of the subject, with an event of that time on file in it.   *)
TellsOf(inc, s, t, onFile) ==
  /\ inc # Nothing /\ inc.subject = s
  /\ \E e \in onFile : \E r \in RulesOf[e] :
       SubjectKey(e) = s /\ TimeOf[e] = t /\ Held(inc, e, r)

LEMMA OpenStep ==
  ASSUME SInv, [Next]_vars
  PROVE  OpenIncidentIsOnFile'
<1>0. stored \subseteq stored'
  BY DEF Next, vars, disk, Process, Ingest, Evaluate, Lookup, Load, LoadFails, Save, SaveFails,
         Record, Restart
<1> SUFFICES ASSUME NEW s \in Subjects, open'[s] # Nothing
             PROVE  TellsOf(incidents'[open'[s].id], s, open'[s].lastSeen, stored')
  BY DEF OpenIncidentIsOnFile, TellsOf, Held, RulesOf
<1>1. \A i \in IncidentIds : \A t :
        TellsOf(incidents[i], s, t, stored) => TellsOf(incidents'[i], s, t, stored')
  <2> SUFFICES ASSUME NEW i \in IncidentIds, NEW t, TellsOf(incidents[i], s, t, stored)
               PROVE  TellsOf(incidents'[i], s, t, stored')
    OBVIOUS
  <2>1. incidents[i] # Nothing /\ incidents[i].subject = s
    BY DEF TellsOf
  <2>2. PICK e \in stored : \E r \in RulesOf[e] :
          SubjectKey(e) = s /\ TimeOf[e] = t /\ Held(incidents[i], e, r)
    BY DEF TellsOf
  <2>3. PICK r \in RulesOf[e] :
          SubjectKey(e) = s /\ TimeOf[e] = t /\ Held(incidents[i], e, r)
    BY <2>2
  <2>4. e \in Events /\ r \in Rules
    BY <2>3 DEF SInv, CInv, Typed, RulesOf
  <2>5. Held(incidents'[i], e, r) /\ incidents'[i] # Nothing /\ incidents'[i].subject = s
    BY <2>1, <2>3, <2>4, HeldStays, FileGrows DEF Grown
  <2> QED BY <1>0, <2>3, <2>5 DEF TellsOf
<1>2. CASE open'[s] = open[s]
  <2>1. open[s].id \in IncidentIds
    BY <1>2 DEF SInv, CInv, Typed, Openings
  <2>2. TellsOf(incidents[open[s].id], s, open[s].lastSeen, stored)
    BY <1>2 DEF SInv, OpenIncidentIsOnFile, TellsOf, Held
  <2> QED BY <1>1, <1>2, <2>1, <2>2
<1>3. ASSUME NEW w \in Workers, Record(w), SubjectKey(event[w]) = s
      PROVE  TellsOf(incidents'[open'[s].id], s, open'[s].lastSeen, stored')
  <2>1. stage[w] = "record" /\ open'[s] = [id |-> id[w], lastSeen |-> TimeOf[event[w]]]
    BY <1>3 DEF Record, SInv, CInv, Typed
  <2>2. id[w] \in IncidentIds /\ TellsOf(incidents[id[w]], s, TimeOf[event[w]], stored)
    BY <1>3, <2>1, RecordedIsKept DEF TellsOf
  <2>3. TellsOf(incidents'[id[w]], s, TimeOf[event[w]], stored')
    BY <1>1, <2>2
  <2> QED BY <2>1, <2>3
<1>4. open'[s] = open[s] \/ \E w \in Workers : Record(w) /\ SubjectKey(event[w]) = s
  <2>1. ASSUME NEW w \in Workers, Record(w), SubjectKey(event[w]) # s PROVE open'[s] = open[s]
    BY <2>1 DEF Record, SInv, CInv, Typed
  <2>2. CASE Restart
    BY <2>2 DEF Restart
  <2>3. open' = open \/ Restart \/ \E w \in Workers : Record(w)
    BY DEF Next, vars, memory, Process, Ingest, Evaluate, Lookup, Load, LoadFails, Save, SaveFails
  <2> QED BY <2>1, <2>2, <2>3
<1> QED BY <1>2, <1>3, <1>4

(* The invariant holds throughout when a subject's events come one by one. *)
THEOREM OneByOneInvariant == ASSUME OneAtATime PROVE Spec => []SInv
<1>1. SInv /\ [Next]_vars => SInv'
  <2> SUFFICES ASSUME SInv, [Next]_vars PROVE SInv'
    OBVIOUS
  <2> QED BY CInvStep, UnderwayStep, AckedStep, OpenStep DEF SInv
<1> QED BY <1>1, SInvInit, PTL DEF Spec


(* What Ingest answered an event went to holds it from then on, through    *)
(* every later merge, failed call and restart (Engine.mergeIntoIncident).  *)
THEOREM EvidenceIsKept == ASSUME OneAtATime PROVE Spec => []AckedEvidenceIsKept
BY OneByOneInvariant, PTL DEF SInv

(* openSubjects never runs ahead of the store (Engine.mergeIntoIncident).  *)
THEOREM OpenIsOnFile == ASSUME OneAtATime PROVE Spec => []OpenIncidentIsOnFile
BY OneByOneInvariant, PTL DEF SInv

(* No step takes a finding away from an incident on file (mergeFinding).   *)
THEOREM EvidenceGrows == ASSUME OneAtATime PROVE Spec => EvidenceOnlyGrows
<1>1. SInv /\ [Next]_vars =>
        [\A i \in OnFile : RulesFound(incidents[i]) \subseteq RulesFound(incidents'[i])]_vars
  BY FileGrows DEF Grown, OnFile, RulesFound
<1> QED BY <1>1, OneByOneInvariant, PTL DEF Spec, EvidenceOnlyGrows

-----------------------------------------------------------------------------
(* What a pass over the hits leaves.                                       *)

(* A set of naturals has a least member.                                   *)
LEMMA LeastOf ==
  ASSUME NEW S \in SUBSET Nat, S # {}
  PROVE  \E n \in S : \A m \in S : n <= m
<1>1. PICK n \in S : \A m \in Nat : <<m, n>> \in OpToRel(<, Nat) => m \notin S
  BY NatLessThanWellFounded, WFMin
<1>2. ASSUME NEW m \in S PROVE n <= m
  <2>1. m \in Nat /\ n \in Nat
    OBVIOUS
  <2>2. <<m, n>> \notin OpToRel(<, Nat)
    BY <1>1, <2>1
  <2>3. ~(m < n)
    BY <2>1, <2>2 DEF OpToRel
  <2> QED BY <2>1, <2>3
<1> QED BY <1>2

(* The first n hits: what the loop of thresholdMet makes of them, from what *)
(* it made of those before.                                                 *)
KeptOf(seq, cutoff, kept, n) ==
  IF n = 0 THEN <<>>
  ELSE IF seq[n] >= cutoff THEN Append(kept[n - 1], seq[n])
  ELSE kept[n - 1]

(* The recursion of Kept has a solution, so Kept obeys it.                 *)
LEMMA KeptIs ==
  ASSUME NEW seq \in Seq(Nat), NEW cutoff
  PROVE  \A n \in 0..Len(seq) :
           Kept(seq, cutoff)[n] = KeptOf(seq, cutoff, Kept(seq, cutoff), n)
<1> DEFINE Is(g, n) == g = [i \in 0..n |-> KeptOf(seq, cutoff, g, i)]
           Without == {n \in 0..Len(seq) : ~ \E g : Is(g, n)}
<1>0. Len(seq) \in Nat
  OBVIOUS
<1>1. Without = {}
  <2> SUFFICES ASSUME Without # {} PROVE FALSE
    OBVIOUS
  <2>1. Without \in SUBSET Nat
    BY <1>0
  <2>2. PICK n \in Without : \A m \in Without : n <= m
    BY <2>1, LeastOf
  <2>3. n \in 0..Len(seq) /\ n \in Nat /\ ~ \E g : Is(g, n)
    BY <1>0
  <2>4. CASE n = 0
    <3>1. Is([i \in 0..0 |-> <<>>], 0)
      BY DEF KeptOf
    <3> QED BY <2>3, <2>4, <3>1
  <2>5. CASE n # 0
    <3>1. n - 1 \in 0..Len(seq) /\ ~(n <= n - 1)
      BY <1>0, <2>3, <2>5
    <3>2. n - 1 \notin Without
      BY <2>2, <3>1, Zenon
    <3>3. PICK g : Is(g, n - 1)
      BY <3>1, <3>2
    <3> DEFINE h == [i \in 0..n |-> IF i = n THEN KeptOf(seq, cutoff, g, n) ELSE g[i]]
    <3>4. ASSUME NEW i \in 0..n PROVE h[i] = KeptOf(seq, cutoff, h, i)
      <4>1. CASE i = n
        <5>1. h[n - 1] = g[n - 1] /\ h[n] = KeptOf(seq, cutoff, g, n)
          BY <2>3, <2>5
        <5> QED BY <4>1, <5>1 DEF KeptOf
      <4>2. CASE i # n
        <5>1. h[i] = g[i] /\ i \in 0..n-1
          BY <2>3, <4>2
        <5>2. g[i] = KeptOf(seq, cutoff, g, i)
          BY <3>3, <5>1
        <5>3. i # 0 => h[i - 1] = g[i - 1]
          BY <2>3, <4>2
        <5> QED BY <5>1, <5>2, <5>3 DEF KeptOf
      <4> QED BY <4>1, <4>2
    <3>5. Is(h, n)
      BY <3>4
    <3> QED BY <2>3, <3>5
  <2> QED BY <2>4, <2>5
<1>2. \E g : Is(g, Len(seq))
  BY <1>0, <1>1
<1>3. Kept(seq, cutoff) = CHOOSE g : Is(g, Len(seq))
  BY DEF Kept, KeptOf
<1>4. Is(Kept(seq, cutoff), Len(seq))
  BY <1>2, <1>3
<1> HIDE DEF Is
<1> QED BY <1>4 DEF Is

(* One hit kept for each of some hits of the sequence, none before cutoff. *)
Drawn(from, at, seq, n, cutoff) ==
  /\ at \in [1..Len(from) -> 1..n]
  /\ \A i, j \in 1..Len(from) : at[i] = at[j] => i = j
  /\ \A i \in 1..Len(from) : from[i] = seq[at[i]] /\ from[i] >= cutoff

(* What is kept of one more place.                                         *)
LEMMA OneMoreDrawn ==
  ASSUME NEW seq, NEW cutoff, NEW n \in 1..Len(seq), NEW old \in Seq(Nat), NEW at,
         Drawn(old, at, seq, n - 1, cutoff), n \in Nat, seq[n] \in Nat, seq[n] >= cutoff
  PROVE  \E to : Drawn(Append(old, seq[n]), to, seq, n, cutoff)
<1>1. PICK x \in Nat, m \in Nat, l \in Nat : x = seq[n] /\ m = n /\ l = Len(old)
  BY LenProperties
<1> DEFINE new == Append(old, x)
           to == [i \in 1..l + 1 |-> IF i = l + 1 THEN m ELSE at[i]]
<1>2. Len(new) = l + 1 /\ (\A i \in 1..l : new[i] = old[i]) /\ new[l + 1] = x
  BY <1>1, AppendProperties
<1>3. /\ at \in [1..l -> 1..m-1]
      /\ \A i, j \in 1..l : at[i] = at[j] => i = j
      /\ \A i \in 1..l : old[i] = seq[at[i]] /\ old[i] >= cutoff
  BY <1>1 DEF Drawn
<1>4. /\ \A i \in 1..l : i \in 1..l+1 /\ i # l + 1
      /\ l + 1 \in 1..l+1
      /\ \A i \in 1..l+1 : i \in 1..l \/ i = l + 1
      /\ m \notin 1..m-1 /\ m \in 1..m /\ \A i \in 1..m-1 : i \in 1..m
  <2>1. m > 0
    BY <1>1
  <2> QED BY <2>1
<1>5. (\A i \in 1..l : to[i] = at[i] /\ at[i] \in 1..m-1) /\ to[l + 1] = m
  BY <1>3, <1>4
<1>6. to = [i \in 1..l+1 |-> to[i]]
  OBVIOUS
<1> HIDE DEF new, to
<1>7. \A i \in 1..l+1 : to[i] \in 1..m
  BY <1>4, <1>5
<1>8. to \in [1..l+1 -> 1..m]
  BY <1>6, <1>7
<1>9. ASSUME NEW i \in 1..l+1, NEW j \in 1..l+1, to[i] = to[j] PROVE i = j
  <2>1. CASE i \in 1..l /\ j \in 1..l
    BY <1>3, <1>5, <1>9, <2>1
  <2>2. CASE i = l + 1 \/ j = l + 1
    <3>1. to[i] = m /\ to[j] = m
      BY <1>5, <1>9, <2>2
    <3> QED BY <1>4, <1>5, <3>1
  <2> QED BY <1>4, <2>1, <2>2
<1>10. \A i \in 1..l+1 : new[i] = seq[to[i]] /\ new[i] >= cutoff
  BY <1>1, <1>2, <1>3, <1>4, <1>5
<1>11. Drawn(new, to, seq, m, cutoff)
  BY <1>2, <1>8, <1>9, <1>10 DEF Drawn
<1> QED BY <1>1, <1>11 DEF new

LEMMA KeptDraws ==
  ASSUME NEW seq \in Seq(Nat), NEW cutoff \in Int
  PROVE  \A n \in 0..Len(seq) :
           /\ Kept(seq, cutoff)[n] \in Seq(Nat)
           /\ \E at : Drawn(Kept(seq, cutoff)[n], at, seq, n, cutoff)
<1> DEFINE k == Kept(seq, cutoff)
           Good(n) == k[n] \in Seq(Nat) /\ \E at : Drawn(k[n], at, seq, n, cutoff)
           Bad == {n \in 0..Len(seq) : ~ Good(n)}
<1>0. Len(seq) \in Nat
  OBVIOUS
<1>1. \A n \in 0..Len(seq) : k[n] = KeptOf(seq, cutoff, k, n)
  BY KeptIs
<1> HIDE DEF k
<1>2. Bad = {}
  <2> SUFFICES ASSUME Bad # {} PROVE FALSE
    OBVIOUS
  <2>1. Bad \in SUBSET Nat
    BY <1>0
  <2>2. PICK n \in Bad : \A m \in Bad : n <= m
    BY <2>1, LeastOf
  <2>3. n \in 0..Len(seq) /\ n \in Nat /\ ~Good(n)
    BY <1>0
  <2>4. CASE n = 0
    <3>1. k[0] = <<>>
      BY <1>1, <2>3, <2>4 DEF KeptOf
    <3>2. Drawn(<<>>, [i \in 1..0 |-> 1], seq, 0, cutoff)
      BY DEF Drawn
    <3> QED BY <2>3, <2>4, <3>1, <3>2
  <2>5. CASE n # 0
    <3>0. n - 1 \in 0..Len(seq) /\ ~(n <= n - 1) /\ n \in 1..Len(seq) /\ seq[n] \in Nat
      BY <1>0, <2>3, <2>5
    <3>1. Good(n - 1)
      BY <2>2, <3>0, Zenon
    <3>2. PICK at : Drawn(k[n - 1], at, seq, n - 1, cutoff)
      BY <3>1
    <3>3. CASE seq[n] >= cutoff
      <4>1. k[n] = Append(k[n - 1], seq[n])
        BY <1>1, <2>3, <2>5, <3>3 DEF KeptOf
      <4>2. k[n - 1] \in Seq(Nat) /\ Append(k[n - 1], seq[n]) \in Seq(Nat)
        BY <3>0, <3>1
      <4>3. PICK old \in Seq(Nat) : old = k[n - 1]
        BY <4>2, Zenon
      <4>4. \E to : Drawn(Append(old, seq[n]), to, seq, n, cutoff)
        <5>1. n \in Nat
          BY <2>3
        <5>2. Drawn(old, at, seq, n - 1, cutoff)
          BY <3>2, <4>3, Zenon
        <5> QED BY <3>0, <3>3, <5>1, <5>2, OneMoreDrawn, Zenon
      <4>5. k[n] \in Seq(Nat)
        BY <4>1, <4>2
      <4>6. \E to : Drawn(k[n], to, seq, n, cutoff)
        BY <4>1, <4>3, <4>4, Zenon
      <4> QED BY <2>3, <4>5, <4>6, Zenon
    <3>4. CASE ~(seq[n] >= cutoff)
      <4>1. k[n] = k[n - 1]
        BY <1>1, <2>3, <2>5, <3>4 DEF KeptOf
      <4>2. Drawn(k[n], at, seq, n, cutoff)
        BY <3>0, <3>2, <4>1 DEF Drawn
      <4> QED BY <2>3, <3>1, <4>1, <4>2
    <3> QED BY <3>3, <3>4
  <2> QED BY <2>4, <2>5
<1> QED BY <1>2 DEF k

LEMMA EndOfSequence ==
  ASSUME NEW seq \in Seq(Nat), NEW m \in Nat \ {0}, NEW c \in Nat, Len(seq) - m + 1 = c
  PROVE  /\ SubSeq(seq, m, Len(seq)) \in Seq(Nat) /\ Len(SubSeq(seq, m, Len(seq))) = c
         /\ \A i \in 1..c : SubSeq(seq, m, Len(seq))[i] = seq[m - 1 + i]
<1>0. PICK n \in Int : n = Len(seq)
  OBVIOUS
<1>1. m \in Int /\ \A i \in m..n : seq[i] \in Nat
  BY <1>0
<1>2. SubSeq(seq, m, n) \in Seq(Nat)
  BY <1>1, SubSeqProperties
<1>3. Len(SubSeq(seq, m, n)) = IF m <= n THEN n - m + 1 ELSE 0
  BY <1>1, SubSeqProperties
<1>4. \A i \in 1..(n - m + 1) : SubSeq(seq, m, n)[i] = seq[m + i - 1]
  BY <1>1, SubSeqProperties
<1>5. n - m + 1 = c /\ (~(m <= n) => c = 0) /\ \A i \in 1..c : m + i - 1 = m - 1 + i
  BY <1>0
<1> QED BY <1>0, <1>2, <1>3, <1>4, <1>5

(* The hits a new one leaves: no more than the count, and each stands for a *)
(* hit of its own inside the window (thresholdMet).                         *)
LEMMA HitsAfterDraws ==
  ASSUME NEW seq \in Seq(Nat), NEW t \in Nat, NEW rule,
         rule.count \in Nat, rule.window \in Nat
  PROVE  /\ HitsAfter(seq, t, rule) \in Seq(Nat)
         /\ Len(HitsAfter(seq, t, rule)) <= rule.count
         /\ \E at : Drawn(HitsAfter(seq, t, rule), at, Append(seq, t), Len(seq) + 1,
                          t - rule.window)
<1> DEFINE all == Append(seq, t)
           cutoff == t - rule.window
           l == Len(seq) + 1
           kept == Kept(all, cutoff)[l]
           c == rule.count
           after == LastOf(kept, c)
<1>1. all \in Seq(Nat) /\ cutoff \in Int /\ l \in 0..Len(all)
  OBVIOUS
<1>2. kept \in Seq(Nat) /\ \E at : Drawn(kept, at, all, l, cutoff)
  BY <1>1, KeptDraws
<1>3. PICK at : Drawn(kept, at, all, l, cutoff)
  BY <1>2
<1> HIDE DEF all, cutoff, l, kept
<1>4. CASE Len(kept) <= c
  BY <1>2, <1>3, <1>4 DEF HitsAfter, InWindow, LastOf, all, cutoff, l, kept
<1>5. CASE ~(Len(kept) <= c)
  <2> DEFINE d == Len(kept) - c
             to == [i \in 1..c |-> at[d + i]]
  <2>1. Len(kept) \in Nat /\ d \in Nat
    BY <1>2, <1>5
  <2>2. after = SubSeq(kept, d + 1, Len(kept))
    BY <1>5 DEF LastOf
  <2>3. after \in Seq(Nat) /\ Len(after) = c /\ \A i \in 1..c : after[i] = kept[d + i]
    <3>1. PICK m \in Int : m = d + 1
      BY <2>1
    <3>2. Len(kept) - m + 1 = c /\ m \in Nat \ {0} /\ m - 1 = d
      BY <2>1, <3>1
    <3>3. after = SubSeq(kept, m, Len(kept))
      BY <2>2, <3>1
    <3> HIDE DEF after, d
    <3>4. /\ after \in Seq(Nat) /\ Len(after) = c
          /\ \A i \in 1..c : after[i] = kept[m - 1 + i]
      BY <1>2, <3>2, <3>3, EndOfSequence
    <3> QED BY <3>2, <3>4
  <2>4. \A i \in 1..c : d + i \in 1..Len(kept)
    BY <1>5, <2>1
  <2>5. /\ at \in [1..Len(kept) -> 1..l]
        /\ \A i, j \in 1..Len(kept) : at[i] = at[j] => i = j
        /\ \A i \in 1..Len(kept) : kept[i] = all[at[i]] /\ kept[i] >= cutoff
    BY <1>3 DEF Drawn
  <2> HIDE DEF after
  <2>6. to \in [1..c -> 1..l]
    BY <2>4, <2>5
  <2>7. ASSUME NEW i \in 1..c, NEW j \in 1..c, to[i] = to[j] PROVE i = j
    <3>1. d + i = d + j
      BY <2>4, <2>5, <2>7
    <3> QED BY <2>1, <3>1
  <2>8. \A i \in 1..c : after[i] = all[to[i]] /\ after[i] >= cutoff
    BY <2>3, <2>4, <2>5
  <2>9. Drawn(after, to, all, l, cutoff)
    BY <2>3, <2>6, <2>7, <2>8 DEF Drawn
  <2>10. after = HitsAfter(seq, t, rule)
    BY DEF HitsAfter, InWindow, after, all, cutoff, l, kept
  <2> QED BY <2>3, <2>9, <2>10 DEF all, cutoff, l
<1> QED BY <1>4, <1>5

-----------------------------------------------------------------------------
(* Types                                                                   *)

HitsTyped ==
  /\ hits \in [Subjects \X Rules -> Seq(Nat)]
  /\ \A sr \in Subjects \X Rules : Len(hits[sr]) <= CountOf(sr[2])

CountsTyped ==
  /\ orderly \in [Subjects -> BOOLEAN]
  /\ failures \in 0..MaxFailures /\ restarts \in 0..MaxRestarts

LEMMA EvaluationHits ==
  ASSUME NEW w \in Workers, Evaluate(w), event[w] \in Events
  PROVE  /\ hits' = [sr \in Subjects \X Rules |-> hits'[sr]]
         /\ \A sr \in Subjects \X Rules :
              \/ hits'[sr] = hits[sr]
              \/ /\ sr[1] = SubjectKey(event[w]) /\ sr[2] \in RulesOf[event[w]]
                 /\ hits'[sr] = HitsAfter(hits[sr], TimeOf[event[w]], RuleOf[sr[2]])
<1> DEFINE counted == {SubjectKey(event[w])} \X {r \in RulesOf[event[w]] : CountOf(r) > 0}
<1>1. hits' = [sr \in Subjects \X Rules |->
                 IF sr \in counted
                 THEN HitsAfter(hits[sr], TimeOf[event[w]], RuleOf[sr[2]])
                 ELSE hits[sr]]
  BY Zenon DEF Evaluate
<1>2. \A sr \in counted : sr[1] = SubjectKey(event[w]) /\ sr[2] \in RulesOf[event[w]]
  OBVIOUS
<1> HIDE DEF counted
<1> QED BY <1>1, <1>2

LEMMA HitsTypedStep ==
  ASSUME CInv, HitsTyped, [Next]_vars
  PROVE  HitsTyped'
<1>1. CASE hits' = hits
  BY <1>1 DEF HitsTyped, CountOf
<1>2. CASE Restart
  <2>1. hits' = [sr \in Subjects \X Rules |-> <<>>]
    BY <1>2 DEF Restart
  <2>2. \A sr \in Subjects \X Rules : Len(<<>>) <= CountOf(sr[2])
    <3>1. \A sr \in Subjects \X Rules : sr[2] \in Rules
      OBVIOUS
    <3> QED BY <3>1, PackLoads DEF CountOf
  <2> QED BY <2>1, <2>2 DEF HitsTyped, CountOf
<1>3. ASSUME NEW w \in Workers, Evaluate(w) PROVE HitsTyped'
  <2>1. event[w] \in Events
    BY <1>3 DEF Evaluate, CInv, Typed, WorkIsOwned
  <2>2. hits' = [sr \in Subjects \X Rules |-> hits'[sr]]
    BY <1>3, <2>1, EvaluationHits, Zenon
  <2>3. ASSUME NEW sr \in Subjects \X Rules
        PROVE  hits'[sr] \in Seq(Nat) /\ Len(hits'[sr]) <= CountOf(sr[2])
    <3>1. CASE hits'[sr] = hits[sr]
      BY <3>1 DEF HitsTyped
    <3>2. CASE hits'[sr] = HitsAfter(hits[sr], TimeOf[event[w]], RuleOf[sr[2]])
      <4>1. hits[sr] \in Seq(Nat) /\ TimeOf[event[w]] \in Nat /\ sr[2] \in Rules
        BY <2>1, EventsAreTelemetry DEF HitsTyped
      <4> QED BY <3>2, <4>1, PackLoads, HitsAfterDraws DEF CountOf
    <3> QED BY <1>3, <2>1, <3>1, <3>2, EvaluationHits, Zenon
  <2> QED BY <2>2, <2>3 DEF HitsTyped, CountOf
<1>4. hits' = hits \/ Restart \/ \E w \in Workers : Evaluate(w)
  BY DEF Next, vars, memory, Process, Ingest, Lookup, Load, LoadFails, Save, SaveFails, Record
<1> QED BY <1>1, <1>2, <1>3, <1>4

LEMMA CountsTypedStep ==
  ASSUME CInv, CountsTyped, [Next]_vars
  PROVE  CountsTyped'
<1> USE BoundsAreNaturals DEF CountsTyped
<1>1. orderly' \in [Subjects -> BOOLEAN]
  <2>1. ASSUME NEW w \in Workers, NEW e \in Events, Ingest(w, e)
        PROVE  orderly' \in [Subjects -> BOOLEAN]
    <3>1. \E b \in BOOLEAN : orderly' = [orderly EXCEPT ![SubjectKey(e)] = b]
      BY <2>1 DEF Ingest
    <3> QED BY <3>1, KeyIsSubject
  <2>2. orderly' = orderly \/ \E w \in Workers, e \in Events : Ingest(w, e)
    BY DEF Next, vars, history, Process, Evaluate, Lookup, Load, LoadFails, Save, SaveFails,
           Record, Restart
  <2> QED BY <2>1, <2>2
<1>2. failures' \in 0..MaxFailures /\ restarts' \in 0..MaxRestarts
  <2>1. failures' = failures \/ (failures < MaxFailures /\ failures' = failures + 1)
    BY DEF Next, vars, counts, Process, Ingest, Evaluate, Lookup, Load, LoadFails, Save,
           SaveFails, Record, Restart
  <2>2. restarts' = restarts \/ (restarts < MaxRestarts /\ restarts' = restarts + 1)
    BY DEF Next, vars, counts, Process, Ingest, Evaluate, Lookup, Load, LoadFails, Save,
           SaveFails, Record, Restart
  <2> QED BY <2>1, <2>2
<1> QED BY <1>1, <1>2

LEMMA HitsTypedInit == Init => HitsTyped /\ CountsTyped
<1> SUFFICES ASSUME Init PROVE HitsTyped /\ CountsTyped
  OBVIOUS
<1>1. hits = [sr \in Subjects \X Rules |-> <<>>]
  BY DEF Init
<1>2. \A sr \in Subjects \X Rules : Len(<<>>) <= CountOf(sr[2])
  <2>1. \A sr \in Subjects \X Rules : sr[2] \in Rules
    OBVIOUS
  <2> QED BY <2>1, PackLoads DEF CountOf
<1> QED BY <1>1, <1>2, BoundsAreNaturals DEF Init, HitsTyped, CountsTyped

LEMMA TypesAndHits == Spec => [](CInv /\ HitsTyped /\ CountsTyped)
<1>1. (HitsTyped /\ CountsTyped /\ CInv) /\ [Next]_vars => (HitsTyped /\ CountsTyped)'
  BY HitsTypedStep, CountsTypedStep
<1> QED BY <1>1, HitsTypedInit, CorrelationInvariant, PTL DEF Spec

(* Whatever runs at a time, fails or is sent again, the engine's state has  *)
(* its shape, and a threshold keeps no more hits than its count.            *)
THEOREM CorrelationTypeCorrect == Spec => []TypeOK
<1>1. HitsTyped => \A s \in Subjects, r \in Rules : Len(hits[s, r]) <= CountOf(r)
  <2> SUFFICES ASSUME HitsTyped, NEW s \in Subjects, NEW r \in Rules
               PROVE  Len(hits[<<s, r>>]) <= CountOf(r)
    OBVIOUS
  <2>1. <<s, r>> \in Subjects \X Rules /\ <<s, r>>[2] = r
    OBVIOUS
  <2> QED BY <2>1 DEF HitsTyped
<1>2. CInv /\ HitsTyped /\ CountsTyped => TypeOK
  BY <1>1, Zenon DEF CInv, Typed, HitsTyped, CountsTyped, TypeOK
<1> QED BY <1>2, TypesAndHits, PTL

-----------------------------------------------------------------------------
(* Incidents of a subject, and how far they are apart                      *)

Quiet == restarts = 0 /\ failures = 0

WorksOn(w, s) == stage[w] # "idle" /\ SubjectKey(event[w]) = s

(* Every event is on file when the engine sees it, and an orderly subject's *)
(* event at work is its latest.                                            *)
EventsAreLatest ==
  /\ stored = sent
  /\ \A w \in Workers : stage[w] # "idle" /\ orderly[SubjectKey(event[w])] =>
       \A d \in sent : SubjectKey(d) = SubjectKey(event[w]) => TimeOf[d] <= TimeOf[event[w]]

(* A new incident is empty until it is saved; none on file is.             *)
FilesAreFilled ==
  /\ \A i \in OnFile : EventsIn(incidents[i]) # {} /\ EventsIn(incidents[i]) \subseteq sent
  /\ \A w \in Workers : stage[w] = "save" /\ incidents[id[w]] = Nothing =>
       EventsIn(copy[w]) = {}

(* An event in an incident is being recorded, or openSubjects knows of it. *)
Known(s) ==
  \A i \in OnFile : incidents[i].subject = s => \A d \in EventsIn(incidents[i]) :
    \/ \E v \in Workers : stage[v] = "record" /\ id[v] = i /\ event[v] = d
    \/ open[s] # Nothing /\ i <= open[s].id /\ TimeOf[d] <= open[s].lastSeen

(* The event comes more than a window after all that is on file.           *)
IsFarFrom(e, i) == \A d \in EventsIn(incidents[i]) : TimeOf[e] - TimeOf[d] > Window

Placed(w) ==
  LET s == SubjectKey(event[w])
      mine == {i \in OnFile : incidents[i].subject = s}
  IN  /\ stage[w] = "load" /\ id[w] # Nothing => open[s] # Nothing /\ id[w] = open[s].id
      /\ stage[w] = "load" /\ id[w] = Nothing => \A i \in mine : IsFarFrom(event[w], i)
      /\ stage[w] = "save" /\ incidents[id[w]] = Nothing =>
           \A i \in mine : IsFarFrom(event[w], i)
      /\ stage[w] \in {"save", "record"} => \A i \in mine : i <= id[w]

Apart(s) ==
  \A i, j \in OnFile : i < j /\ incidents[i].subject = s /\ incidents[j].subject = s =>
    \A e \in EventsIn(incidents[j]) : IsFarFrom(e, i)

WindowsKept ==
  Quiet => \A s \in Subjects : orderly[s] =>
    /\ Known(s) /\ Apart(s)
    /\ \A w \in Workers : WorksOn(w, s) => Placed(w)

OInv ==
  SInv /\ HitsTyped /\ CountsTyped /\ EventsAreLatest /\ FilesAreFilled /\ WindowsKept

-----------------------------------------------------------------------------
(* Thresholds                                                              *)

(* The events of a subject that a rule has counted, or may have.           *)
Countable(s, r) ==
  {e \in stored : /\ SubjectKey(e) = s /\ r \in RulesOf[e]
                  /\ \A w \in Workers : stage[w] = "rules" => event[w] # e}

(* Hits of a subject and rule, each standing for one of the events.        *)
Stand(of, seq, among) ==
  /\ of \in [1..Len(seq) -> among]
  /\ \A i, j \in 1..Len(seq) : of[i] = of[j] => i = j
  /\ \A i \in 1..Len(seq) : TimeOf[of[i]] = seq[i]

HitsStandFor(s, r) ==
  \E of \in [1..Len(hits[<<s, r>>]) -> Countable(s, r)] :
    Stand(of, hits[<<s, r>>], Countable(s, r))

HitsAreEvents == \A s \in Subjects : orderly[s] => \A r \in Rules : HitsStandFor(s, r)

FoundIsBacked ==
  \A w \in Workers :
    stage[w] \in {"lookup", "load", "save"} /\ orderly[SubjectKey(event[w])] =>
      \A r \in found[w] : Backed(SubjectKey(event[w]), r)

HInv == HitsAreEvents /\ FoundIsBacked /\ ThresholdIsEarned

-----------------------------------------------------------------------------
(* What a step does, seen from one subject                                 *)

LEMMA SendingIs ==
  ASSUME [Next]_vars
  PROVE  \/ stored' = stored /\ sent' = sent /\ orderly' = orderly
         \/ \E w \in Workers, e \in Events : Ingest(w, e)
BY DEF Next, vars, disk, history, Process, Evaluate, Lookup, Load, LoadFails, Save, SaveFails,
       Record, Restart

LEMMA OnlyRecordOpens ==
  ASSUME [Next]_vars
  PROVE  open' = open \/ Restart \/ \E w \in Workers : Record(w)
BY DEF Next, vars, memory, Process, Ingest, Evaluate, Lookup, Load, LoadFails, Save, SaveFails

LEMMA OrderlyBefore ==
  ASSUME CInv, CountsTyped, [Next]_vars, NEW s \in Subjects, orderly'[s]
  PROVE  orderly[s]
<1>1. ASSUME NEW w \in Workers, NEW e \in Events, Ingest(w, e) PROVE orderly[s]
  <2>1. orderly' = [orderly EXCEPT ![SubjectKey(e)] = @ /\ e \notin sent /\ Later(e) = {}]
    BY <1>1 DEF Ingest
  <2> QED BY <2>1 DEF CountsTyped
<1> QED BY <1>1, SendingIs

LEMMA QuietBefore ==
  ASSUME CountsTyped, [Next]_vars, Quiet'
  PROVE  /\ Quiet /\ ~Restart
         /\ \A w \in Workers : ~LoadFails(w) /\ ~SaveFails(w)
<1>1. failures \in Nat /\ restarts \in Nat /\ failures' = 0 /\ restarts' = 0
  BY BoundsAreNaturals DEF CountsTyped, Quiet
<1>2. (failures' = failures \/ failures' = failures + 1)
      /\ (restarts' = restarts \/ restarts' = restarts + 1)
  BY DEF Next, vars, counts, Process, Ingest, Evaluate, Lookup, Load, LoadFails, Save, SaveFails,
         Record, Restart
<1>3. failures = 0 /\ restarts = 0
  BY <1>1, <1>2
<1> QED BY <1>1, <1>3 DEF Quiet, LoadFails, SaveFails, Restart

(* The incidents of a subject are those they were.                         *)
FilesStay(s) ==
  \A i \in IncidentIds :
    \/ incidents[i] # Nothing /\ incidents[i].subject = s
    \/ incidents'[i] # Nothing /\ incidents'[i].subject = s
    => incidents'[i] = incidents[i]

LEMMA KnownStays ==
  ASSUME CInv, NEW s \in Subjects, Known(s), Apart(s), FilesStay(s), open'[s] = open[s],
         \A v \in Workers : stage[v] = "record" /\ SubjectKey(event[v]) = s => Same(v)
  PROVE  Known(s)' /\ Apart(s)'
<1>1. \A i \in OnFile' : incidents'[i].subject = s =>
        i \in OnFile /\ incidents[i].subject = s /\ incidents'[i] = incidents[i]
  BY DEF FilesStay, OnFile
<1>2. Apart(s)'
  BY <1>1 DEF Apart, IsFarFrom, EventsIn
<1>3. Known(s)'
  <2> SUFFICES ASSUME NEW i \in OnFile', incidents'[i].subject = s,
                      NEW d \in EventsIn(incidents'[i])
               PROVE  \/ \E v \in Workers : stage'[v] = "record" /\ id'[v] = i /\ event'[v] = d
                      \/ open'[s] # Nothing /\ i <= open'[s].id /\ TimeOf[d] <= open'[s].lastSeen
    BY DEF Known, EventsIn
  <2>1. i \in OnFile /\ incidents[i].subject = s /\ d \in EventsIn(incidents[i])
    BY <1>1
  <2>2. CASE open[s] # Nothing /\ i <= open[s].id /\ TimeOf[d] <= open[s].lastSeen
    BY <2>2
  <2>3. ASSUME NEW v \in Workers, stage[v] = "record", id[v] = i, event[v] = d
        PROVE  stage'[v] = "record" /\ id'[v] = i /\ event'[v] = d
    <3>1. Holds(v) /\ incidents[id[v]] # Nothing
      BY <2>1, <2>3 DEF Holds, OnFile, CInv, WorkIsOwned
    <3>2. SubjectKey(event[v]) = s
      BY <2>1, <2>3, <3>1 DEF CInv, WorkIsOwned
    <3> QED BY <2>3, <3>2 DEF Same
  <2> QED BY <2>1, <2>2, <2>3 DEF Known
<1> QED BY <1>2, <1>3

LEMMA MergedOnlyAdds ==
  ASSUME NEW inc \in Incidents, NEW e \in Events, NEW rules \in SUBSET Rules
  PROVE  \A r \in Rules :
           /\ Merged(inc, e, rules).findings[r] \subseteq inc.findings[r] \union {e}
           /\ r \notin rules => Merged(inc, e, rules).findings[r] = inc.findings[r]
<1> DEFINE new == Merged(inc, e, rules)
<1>1. \A r \in Rules :
        /\ new.findings[r] \subseteq inc.findings[r] \union {e}
        /\ new.findings[r] = IF r \in rules /\ Cardinality(inc.findings[r]) < MaxFindingEvents
                             THEN inc.findings[r] \union {e} ELSE inc.findings[r]
  BY MergedIsIncident
<1> HIDE DEF new
<1>2. \A r \in Rules :
        /\ new.findings[r] \subseteq inc.findings[r] \union {e}
        /\ r \notin rules => new.findings[r] = inc.findings[r]
  BY <1>1
<1> QED BY <1>2 DEF new

(* Saving: the incident on file gains the event, or is one of its own.     *)
LEMMA WriteIs ==
  ASSUME SInv, FilesAreFilled, NEW w \in Workers, Writes(w)
  PROVE  /\ id[w] \in IncidentIds /\ event[w] \in Events /\ Holds(w)
         /\ \A i \in IncidentIds \ {id[w]} : incidents'[i] = incidents[i]
         /\ incidents'[id[w]] # Nothing
         /\ incidents'[id[w]].subject = SubjectKey(event[w])
         /\ incidents[id[w]] # Nothing =>
              /\ incidents[id[w]].subject = SubjectKey(event[w])
              /\ EventsIn(incidents'[id[w]]) \subseteq EventsIn(incidents[id[w]]) \union {event[w]}
              /\ RulesFound(incidents'[id[w]]) \subseteq RulesFound(incidents[id[w]]) \union found[w]
         /\ incidents[id[w]] = Nothing =>
              /\ EventsIn(incidents'[id[w]]) \subseteq {event[w]}
              /\ RulesFound(incidents'[id[w]]) \subseteq found[w]
         /\ EventsIn(incidents'[id[w]]) # {}
<1> DEFINE new == Merged(copy[w], event[w], found[w])
<1>1. /\ copy[w] \in Incidents /\ event[w] \in Events /\ found[w] \in SUBSET Rules
      /\ id[w] \in IncidentIds /\ WithinBound(copy[w]) /\ Holds(w) /\ found[w] # {}
      /\ copy[w].subject = SubjectKey(event[w])
      /\ incidents[id[w]] # Nothing => copy[w] = incidents[id[w]]
      /\ incidents[id[w]] = Nothing => EventsIn(copy[w]) = {}
  BY DEF Writes, SInv, Underway, CInv, Typed, WorkIsOwned, CopiesAreCurrent, FindingsAreBounded,
         FoundIsMatched, FilesAreFilled, Holds
<1>0. copy[w] \in Incidents /\ event[w] \in Events /\ found[w] \in SUBSET Rules
  BY <1>1
<1>2. new \in Incidents /\ new.subject = copy[w].subject
  BY <1>0, MergedIsIncident, Zenon
<1>3. \A r \in Rules :
        /\ new.findings[r] \subseteq copy[w].findings[r] \union {event[w]}
        /\ r \notin found[w] => new.findings[r] = copy[w].findings[r]
  BY <1>0, MergedOnlyAdds
<1>4. \A r \in found[w] : Held(new, event[w], r)
  BY <1>1, MergedIsHeld, Zenon
<1>5. incidents' = [incidents EXCEPT ![id[w]] = new]
  BY DEF Writes, Write
<1> HIDE DEF new
<1>6. /\ EventsIn(new) \subseteq EventsIn(copy[w]) \union {event[w]}
      /\ RulesFound(new) \subseteq RulesFound(copy[w]) \union found[w]
  BY <1>3 DEF EventsIn, RulesFound
<1>7. \A r \in Rules : EventsIn(copy[w]) = {} => copy[w].findings[r] = {}
  BY DEF EventsIn
<1>8. EventsIn(copy[w]) = {} => RulesFound(copy[w]) = {}
  BY <1>7 DEF RulesFound
<1>9. EventsIn(new) # {}
  <2>1. PICK r \in found[w] : Held(new, event[w], r)
    BY <1>1, <1>4
  <2>2. new.findings[r] # {}
    BY <2>1, FS_EmptySet, BoundsAreNaturals DEF Held
  <2> QED BY <1>1, <2>2 DEF EventsIn
<1>12. new # Nothing
  BY <1>2, NothingIsNone
<1>10. incidents'[id[w]] = new /\ \A i \in IncidentIds \ {id[w]} : incidents'[i] = incidents[i]
  BY <1>1, <1>5 DEF SInv, CInv, Typed
<1> QED BY <1>1, <1>2, <1>5, <1>6, <1>8, <1>9, <1>10, <1>12

LEMMA EventsAreLatestStep ==
  ASSUME OneAtATime, CInv, OneByOne, CountsTyped, EventsAreLatest, [Next]_vars
  PROVE  EventsAreLatest'
<1>1. stored' = sent'
  <2>1. ASSUME NEW w \in Workers, NEW e \in Events, Ingest(w, e) PROVE stored' = sent'
    BY <2>1 DEF Ingest, EventsAreLatest
  <2> QED BY <2>1, SendingIs DEF EventsAreLatest
<1>2. ASSUME NEW v \in Workers, stage'[v] # "idle", orderly'[SubjectKey(event'[v])],
             NEW d \in sent', SubjectKey(d) = SubjectKey(event'[v])
      PROVE  TimeOf[d] <= TimeOf[event'[v]]
  <2>1. ASSUME NEW e \in Events, Ingest(v, e) PROVE TimeOf[d] <= TimeOf[event'[v]]
    <3>1. event'[v] = e /\ sent' = sent \union {e}
      BY <2>1 DEF Ingest, CInv, Typed
    <3>2. orderly'[SubjectKey(e)] => Later(e) = {}
      BY <2>1, KeyIsSubject DEF Ingest, CountsTyped
    <3>3. d = e \/ (d \in sent /\ ~(TimeOf[d] > TimeOf[e]))
      BY <1>2, <3>1, <3>2 DEF Later
    <3>4. TimeOf[d] \in Nat /\ TimeOf[e] \in Nat
      BY <3>3, EventsAreTelemetry DEF CInv, Typed
    <3> QED BY <3>1, <3>3, <3>4
  <2>2. CASE stage[v] # "idle" /\ event'[v] = event[v]
    <3> DEFINE s == SubjectKey(event[v])
    <3>1. event[v] \in Events /\ s \in Subjects
      BY <2>2, KeyIsSubject DEF CInv, Typed, WorkIsOwned
    <3>2. orderly[s]
      BY <1>2, <2>2, <3>1, OrderlyBefore
    <3>3. d \in sent
      <4>1. ASSUME NEW w \in Workers, NEW e \in Events, Ingest(w, e), d = e PROVE FALSE
        <5>1. v \in InHand(SubjectKey(e))
          BY <1>2, <2>2, <4>1 DEF InHand
        <5> QED BY <4>1, <5>1 DEF Ingest
      <4>2. ASSUME NEW w \in Workers, NEW e \in Events, Ingest(w, e) PROVE d \in sent \/ d = e
        BY <1>2, <4>2 DEF Ingest
      <4> QED BY <1>2, <4>1, <4>2, SendingIs
    <3> QED BY <1>2, <2>2, <3>2, <3>3 DEF EventsAreLatest
  <2> QED BY <1>2, <2>1, <2>2, WorkGoesOn
<1> QED BY <1>1, <1>2 DEF EventsAreLatest

LEMMA FilesAreFilledStep ==
  ASSUME SInv, FilesAreFilled, EventsAreLatest, [Next]_vars
  PROVE  FilesAreFilled'
<1>0. sent \subseteq sent'
  BY SendingIs DEF Ingest
<1>1. ASSUME NEW i \in OnFile'
      PROVE  EventsIn(incidents'[i]) # {} /\ EventsIn(incidents'[i]) \subseteq sent'
  <2>1. CASE incidents' = incidents
    BY <1>0, <1>1, <2>1 DEF OnFile, FilesAreFilled
  <2>2. ASSUME NEW w \in Workers, Writes(w)
        PROVE  EventsIn(incidents'[i]) # {} /\ EventsIn(incidents'[i]) \subseteq sent'
    <3>1. CASE i = id[w]
      <4>1. event[w] \in sent
        BY <2>2 DEF Writes, SInv, CInv, WorkIsOwned, EventsAreLatest
      <4>2. /\ EventsIn(incidents'[i]) # {}
            /\ incidents[i] # Nothing =>
                 EventsIn(incidents'[i]) \subseteq EventsIn(incidents[i]) \union {event[w]}
            /\ incidents[i] = Nothing => EventsIn(incidents'[i]) \subseteq {event[w]}
        BY <2>2, <3>1, WriteIs
      <4> QED BY <1>0, <1>1, <4>1, <4>2 DEF OnFile, FilesAreFilled
    <3>2. CASE i # id[w]
      <4>1. incidents'[i] = incidents[i]
        BY <1>1, <2>2, <3>2, WriteIs DEF OnFile
      <4> QED BY <1>0, <1>1, <4>1 DEF OnFile, FilesAreFilled
    <3> QED BY <3>1, <3>2
  <2> QED BY <2>1, <2>2, OnlySaveWrites
<1>2. ASSUME NEW v \in Workers, stage'[v] = "save", incidents'[id'[v]] = Nothing
      PROVE  EventsIn(copy'[v]) = {}
  <2>1. CASE Same(v)
    <3>1. stage[v] = "save" /\ id'[v] = id[v] /\ copy'[v] = copy[v] /\ id[v] \in IncidentIds
      BY <1>2, <2>1 DEF Same, SInv, CInv, Typed, WorkIsOwned
    <3>2. incidents[id[v]] = Nothing
      BY <1>2, <3>1, FileGrows DEF Grown
    <3> QED BY <3>1, <3>2 DEF FilesAreFilled
  <2>2. CASE Load(v) \/ LoadFails(v)
    <3>1. copy'[v].findings = [r \in Rules |-> {}]
      BY <1>2, <2>2, LoadedIs DEF SInv
    <3> QED BY <3>1 DEF EventsIn
  <2> QED BY <1>2, <2>1, <2>2, NextStageIs DEF SInv
<1> QED BY <1>1, <1>2 DEF FilesAreFilled, OnFile, EventsIn

-----------------------------------------------------------------------------
(* WindowsKept is inductive                                                *)

LEMMA OwnStepUnlessRestart ==
  ASSUME CInv, [Next]_vars, ~Restart, NEW v \in Workers
  PROVE  Same(v) \/ (\E e \in Events : Ingest(v, e)) \/ Process(v)
<1> USE DEF CInv, Typed, Same
<1>1. CASE UNCHANGED vars
  BY <1>1 DEF vars, work
<1>2. ASSUME NEW w \in Workers, NEW e \in Events, Ingest(w, e), w # v
      PROVE  Same(v)
  BY <1>2 DEF Ingest
<1>3. ASSUME NEW w \in Workers, Process(w), w # v
      PROVE  Same(v)
  BY <1>3 DEF Process, Evaluate, Lookup, Load, LoadFails, StartIncident, Save, SaveFails,
              Record, Finish
<1> QED BY <1>1, <1>2, <1>3 DEF Next

(* No step touches what the subject's incidents and its worker rest on.    *)
Untouched(s) ==
  /\ FilesStay(s) /\ open'[s] = open[s]
  /\ \A v \in Workers : WorksOn(v, s)' =>
       (WorksOn(v, s) /\ Same(v)) \/ stage'[v] \in {"rules", "lookup"}
  /\ \A v \in Workers : stage[v] = "record" /\ SubjectKey(event[v]) = s => Same(v)

LEMMA TouchedByItsWorker ==
  ASSUME OInv, [Next]_vars, Quiet', NEW s \in Subjects
  PROVE  \/ Untouched(s)
         \/ \E w \in Workers :
              WorksOn(w, s) /\ (Lookup(w) \/ Load(w) \/ Save(w) \/ Record(w))
<1> SUFFICES ASSUME \A w \in Workers : WorksOn(w, s) =>
                      ~Lookup(w) /\ ~Load(w) /\ ~Save(w) /\ ~Record(w)
             PROVE  Untouched(s)
  OBVIOUS
<1>0. CInv /\ SInv /\ CountsTyped /\ FilesAreFilled
  BY DEF OInv, SInv
<1>1. ~Restart /\ \A w \in Workers : ~LoadFails(w) /\ ~SaveFails(w)
  BY <1>0, QuietBefore
<1>2. FilesStay(s)
  <2>1. ASSUME NEW w \in Workers, Save(w), Writes(w) PROVE FilesStay(s)
    <3>1. SubjectKey(event[w]) # s
      BY <2>1 DEF Save, WorksOn
    <3>2. /\ \A i \in IncidentIds \ {id[w]} : incidents'[i] = incidents[i]
          /\ incidents'[id[w]].subject # s
          /\ incidents[id[w]] # Nothing => incidents[id[w]].subject # s
      BY <1>0, <2>1, <3>1, WriteIs
    <3> QED BY <3>2 DEF FilesStay
  <2>2. CASE incidents' = incidents
    BY <2>2 DEF FilesStay
  <2> QED BY <1>1, <2>1, <2>2, OnlySaveWrites
<1>3. open'[s] = open[s]
  <2>1. ASSUME NEW w \in Workers, Record(w) PROVE open'[s] = open[s]
    <3>1. SubjectKey(event[w]) # s
      BY <2>1 DEF Record, WorksOn
    <3> QED BY <2>1, <3>1 DEF Record, CInv, Typed, OInv, SInv
  <2> QED BY <1>1, <2>1, OnlyRecordOpens
<1>4. ASSUME NEW v \in Workers, Process(v), WorksOn(v, s)
      PROVE  Evaluate(v)
  BY <1>1, <1>4 DEF Process
<1>5. ASSUME NEW v \in Workers, WorksOn(v, s)'
      PROVE  (WorksOn(v, s) /\ Same(v)) \/ stage'[v] \in {"rules", "lookup"}
  <2>1. CASE Same(v)
    BY <1>5, <2>1 DEF Same, WorksOn
  <2>2. ASSUME NEW e \in Events, Ingest(v, e) PROVE stage'[v] = "rules"
    BY <1>0, <2>2 DEF Ingest, CInv, Typed
  <2>3. CASE Process(v)
    <3>1. stage[v] # "idle" /\ event'[v] = event[v]
      <4>1. \A e \in Events : ~Ingest(v, e)
        BY <2>3 DEF Process, Ingest, Evaluate, Lookup, Load, LoadFails, Save, SaveFails, Record
      <4> QED BY <1>0, <1>5, <4>1, WorkGoesOn DEF WorksOn
    <3>2. Evaluate(v)
      BY <1>4, <1>5, <2>3, <3>1 DEF WorksOn
    <3>3. stage'[v] \in {"lookup", "idle"}
      BY <1>0, <3>2 DEF Evaluate, Finish, CInv, Typed
    <3> QED BY <1>5, <3>3 DEF WorksOn
  <2> QED BY <1>0, <1>1, <2>1, <2>2, <2>3, OwnStepUnlessRestart
<1>6. ASSUME NEW v \in Workers, stage[v] = "record", SubjectKey(event[v]) = s
      PROVE  Same(v)
  <2>1. ~Process(v)
    BY <1>4, <1>6 DEF WorksOn, Evaluate
  <2>2. \A e \in Events : ~Ingest(v, e)
    BY <1>6 DEF Ingest
  <2> QED BY <1>0, <1>1, <2>1, <2>2, OwnStepUnlessRestart
<1> QED BY <1>2, <1>3, <1>5, <1>6 DEF Untouched

(* The parts of WindowsKept about one subject.                             *)
KeptFor(s) == Known(s) /\ Apart(s) /\ \A w \in Workers : WorksOn(w, s) => Placed(w)

LEMMA UntouchedKeeps ==
  ASSUME OInv, [Next]_vars, NEW s \in Subjects, KeptFor(s), Untouched(s)
  PROVE  KeptFor(s)'
<1>0. CInv /\ SInv
  BY DEF OInv, SInv
<1>1. Known(s)' /\ Apart(s)'
  BY <1>0, KnownStays DEF KeptFor, Untouched
<1>2. ASSUME NEW w \in Workers, WorksOn(w, s)' PROVE Placed(w)'
  <2>1. CASE stage'[w] \in {"rules", "lookup"}
    BY <2>1 DEF Placed
  <2>2. CASE WorksOn(w, s) /\ Same(w)
    <3>1. /\ stage'[w] = stage[w] /\ event'[w] = event[w] /\ id'[w] = id[w]
          /\ SubjectKey(event[w]) = s /\ open'[s] = open[s]
      BY <2>2 DEF Same, WorksOn, Untouched
    <3>2. \A i \in OnFile' : incidents'[i].subject = s =>
            i \in OnFile /\ incidents[i].subject = s /\ incidents'[i] = incidents[i]
      BY DEF Untouched, FilesStay, OnFile
    <3>3. Placed(w)
      BY <2>2 DEF KeptFor
    <3>4. stage[w] = "save" /\ incidents'[id[w]] = Nothing => incidents[id[w]] = Nothing
      <4>1. stage[w] = "save" => id[w] \in IncidentIds
        BY <1>0 DEF CInv, Typed, WorkIsOwned
      <4> QED BY <1>0, <4>1, FileGrows DEF Grown
    <3>5. \A i \in OnFile' : incidents'[i].subject = s =>
            /\ IsFarFrom(event[w], i) => IsFarFrom(event[w], i)'
            /\ i \in OnFile /\ incidents[i].subject = s
      BY <3>1, <3>2 DEF IsFarFrom, EventsIn
    <3> DEFINE mine == {i \in OnFile : incidents[i].subject = s}
               mineNext == {i \in OnFile' : incidents'[i].subject = s}
    <3>6. /\ stage[w] = "load" /\ id[w] # Nothing => open[s] # Nothing /\ id[w] = open[s].id
          /\ stage[w] = "load" /\ id[w] = Nothing => \A i \in mine : IsFarFrom(event[w], i)
          /\ stage[w] = "save" /\ incidents[id[w]] = Nothing =>
               \A i \in mine : IsFarFrom(event[w], i)
          /\ stage[w] \in {"save", "record"} => \A i \in mine : i <= id[w]
      BY <3>1, <3>3 DEF Placed
    <3>7. /\ stage'[w] = "load" /\ id'[w] # Nothing => open'[s] # Nothing /\ id'[w] = open'[s].id
          /\ stage'[w] = "load" /\ id'[w] = Nothing =>
               \A i \in mineNext : IsFarFrom(event[w], i)'
          /\ stage'[w] = "save" /\ incidents'[id'[w]] = Nothing =>
               \A i \in mineNext : IsFarFrom(event[w], i)'
          /\ stage'[w] \in {"save", "record"} => \A i \in mineNext : i <= id'[w]
      BY <3>1, <3>4, <3>5, <3>6
    <3> QED BY <3>1, <3>7 DEF Placed, IsFarFrom
  <2> QED BY <1>2, <2>1, <2>2 DEF Untouched
<1> QED BY <1>1, <1>2 DEF KeptFor

(* A worker's own step leaves it alone at work on its subject.             *)
LEMMA AloneAfter ==
  ASSUME CInv, OneByOne, [Next]_vars, NEW w \in Workers, Process(w), NEW s, WorksOn(w, s),
         NEW v \in Workers, WorksOn(v, s)'
  PROVE  v = w
<1>1. \A e \in Events : Ingest(v, e) => v # w
  BY DEF Ingest, WorksOn
<1>2. \A e \in Events : Ingest(v, e) => ~Process(w)
  <2> SUFFICES ASSUME NEW e \in Events, Ingest(v, e), Process(w) PROVE FALSE
    OBVIOUS
  <2>1. stage[v] = "idle" /\ stage'[v] = "rules"
    BY DEF Ingest, CInv, Typed
  <2>2. v # w => stage'[v] = stage[v]
    BY DEF CInv, Typed, Process, Evaluate, Lookup, Load, LoadFails, Save, SaveFails, Record, Finish
  <2> QED BY <1>1, <2>1, <2>2
<1>3. stage[v] # "idle" /\ event'[v] = event[v]
  BY <1>2, WorkGoesOn DEF WorksOn
<1> QED BY <1>3 DEF OneByOne, WorksOn

(* Unless its worker is recording, openSubjects knows of all on file.      *)
LEMMA OpenCovers ==
  ASSUME CInv, OneByOne, NEW w \in Workers, NEW s, WorksOn(w, s), stage[w] # "record", Known(s),
         NEW i \in OnFile, incidents[i].subject = s, NEW d \in EventsIn(incidents[i])
  PROVE  open[s] # Nothing /\ i <= open[s].id /\ TimeOf[d] <= open[s].lastSeen
<1>1. ASSUME NEW v \in Workers, stage[v] = "record", id[v] = i PROVE FALSE
  <2>1. Holds(v) /\ incidents[id[v]] # Nothing
    BY <1>1 DEF Holds, OnFile, CInv, WorkIsOwned
  <2>2. SubjectKey(event[v]) = s
    BY <1>1, <2>1 DEF CInv, WorkIsOwned
  <2> QED BY <1>1, <2>2 DEF OneByOne, WorksOn
<1> QED BY <1>1 DEF Known

LEMMA LookupKeeps ==
  ASSUME OInv, [Next]_vars, NEW s \in Subjects, KeptFor(s), NEW w \in Workers, WorksOn(w, s),
         Lookup(w)
  PROVE  KeptFor(s)'
<1>0. CInv /\ SInv /\ OneByOne /\ Known(s)
  BY DEF OInv, SInv, Underway, KeptFor
<1>1. /\ stage[w] = "lookup" /\ SubjectKey(event[w]) = s
      /\ stage' = [stage EXCEPT ![w] = "load"]
      /\ id' = [id EXCEPT ![w] =
           IF open[s] = Nothing \/ Expired(open[s].lastSeen, TimeOf[event[w]])
           THEN Nothing ELSE open[s].id]
      /\ UNCHANGED <<disk, memory, event, found, copy, history, counts>>
  BY DEF Lookup, WorksOn
<1>2. /\ incidents' = incidents /\ open' = open /\ event' = event /\ stage'[w] = "load"
      /\ id'[w] = IF open[s] = Nothing \/ Expired(open[s].lastSeen, TimeOf[event[w]])
                  THEN Nothing ELSE open[s].id
  BY <1>0, <1>1 DEF disk, memory, CInv, Typed
<1>3. Known(s)' /\ Apart(s)'
  <2>1. \A v \in Workers : stage[v] = "record" => Same(v)
    BY <1>0, <1>1 DEF Same, CInv, Typed
  <2>2. FilesStay(s)
    BY <1>2 DEF FilesStay
  <2> QED BY <1>0, <1>2, <2>1, <2>2, KnownStays DEF KeptFor
<1>4. /\ event[w] \in Events /\ TimeOf[event[w]] \in Nat
      /\ open[s] # Nothing => open[s].lastSeen \in Nat /\ open[s].id # Nothing
  BY <1>0, <1>1, EventsAreTelemetry, NothingIsNone
     DEF CInv, Typed, WorkIsOwned, Openings
<1>5. ASSUME id'[w] = Nothing, NEW i \in OnFile, incidents[i].subject = s
      PROVE  IsFarFrom(event[w], i)
  <2> SUFFICES ASSUME NEW d \in EventsIn(incidents[i])
               PROVE  TimeOf[event[w]] - TimeOf[d] > Window
    BY DEF IsFarFrom
  <2>1. open[s] # Nothing /\ TimeOf[d] <= open[s].lastSeen
    BY <1>0, <1>1, <1>5, OpenCovers
  <2>2. TimeOf[event[w]] - open[s].lastSeen > Window
    BY <1>2, <1>4, <1>5, <2>1 DEF Expired
  <2>3. d \in Events
    BY <1>0, <1>5 DEF OInv, FilesAreFilled, CInv, Typed
  <2>4. TimeOf[d] \in Nat /\ Window \in Nat /\ open[s].lastSeen \in Nat
    BY <1>4, <2>1, <2>3, EventsAreTelemetry, BoundsAreNaturals
  <2> QED BY <1>4, <2>1, <2>2, <2>4
<1>6. Placed(w)'
  <2>1. \A i \in OnFile' : i \in OnFile /\ incidents'[i] = incidents[i]
    BY <1>2 DEF OnFile
  <2>2. id'[w] # Nothing => open'[s] # Nothing /\ id'[w] = open'[s].id
    BY <1>2
  <2> QED BY <1>1, <1>2, <1>5, <2>1, <2>2 DEF Placed, IsFarFrom
<1>7. Process(w)
  BY DEF Process
<1> QED BY <1>0, <1>3, <1>6, <1>7, AloneAfter DEF KeptFor

LEMMA LoadKeeps ==
  ASSUME OInv, [Next]_vars, NEW s \in Subjects, KeptFor(s), NEW w \in Workers, WorksOn(w, s),
         Load(w)
  PROVE  KeptFor(s)'
<1>0. CInv /\ SInv /\ OneByOne /\ Known(s) /\ Placed(w)
  BY DEF OInv, SInv, Underway, KeptFor
<1>1. /\ stage[w] = "load" /\ SubjectKey(event[w]) = s
      /\ stage' = [stage EXCEPT ![w] = "save"]
      /\ incidents' = incidents /\ open' = open /\ event' = event /\ found' = found
      /\ stage'[w] = "save"
  BY <1>0 DEF Load, WorksOn, memory, CInv, Typed
<1>2. Known(s)' /\ Apart(s)'
  <2>1. \A v \in Workers : stage[v] = "record" => Same(v)
    BY <1>0, <1>1 DEF Same, Load, StartIncident, CInv, Typed
  <2>2. FilesStay(s)
    BY <1>1 DEF FilesStay
  <2> QED BY <1>0, <1>1, <2>1, <2>2, KnownStays DEF KeptFor
<1>3. \A i \in OnFile' : i \in OnFile /\ incidents'[i] = incidents[i]
  BY <1>1 DEF OnFile
<1>4. CASE id[w] # Nothing /\ id' = id
  <2>1. /\ open[s] # Nothing /\ id[w] = open[s].id
        /\ incidents[id[w]] # Nothing
    BY <1>0, <1>1, <1>4 DEF Placed, CInv, WorkIsOwned, Holds
  <2>2. ASSUME NEW i \in OnFile, incidents[i].subject = s PROVE i <= id[w]
    <3>1. PICK d : d \in EventsIn(incidents[i])
      BY <2>2 DEF OInv, FilesAreFilled
    <3> QED BY <1>0, <1>1, <2>1, <2>2, <3>1, OpenCovers
  <2> QED BY <1>0, <1>1, <1>2, <1>3, <1>4, <2>1, <2>2, AloneAfter DEF KeptFor, Placed, Process
<1>5. CASE id[w] = Nothing /\ StartIncident(w)
  <2>1. id'[w] = fresh /\ fresh \in Nat
    BY <1>0, <1>5 DEF StartIncident, CInv, Typed
  <2>2. ASSUME NEW i \in OnFile PROVE i <= fresh
    <3>1. i < fresh /\ i \in Int
      BY <1>0, <2>2 DEF OnFile, CInv, FileIsSorted, IncidentIds
    <3> QED BY <2>1, <3>1
  <2>3. \A i \in OnFile : incidents[i].subject = s => IsFarFrom(event[w], i)
    BY <1>0, <1>1, <1>5 DEF Placed
  <2>4. Placed(w)'
    BY <1>1, <1>3, <2>1, <2>2, <2>3 DEF Placed, IsFarFrom
  <2> QED BY <1>0, <1>2, <2>4, AloneAfter DEF KeptFor, Process
<1> QED BY <1>4, <1>5 DEF Load

LEMMA SaveKeeps ==
  ASSUME OInv, [Next]_vars, NEW s \in Subjects, orderly[s], KeptFor(s),
         NEW w \in Workers, WorksOn(w, s), Save(w)
  PROVE  KeptFor(s)'
<1> DEFINE n == id[w]
           e == event[w]
<1>0. CInv /\ SInv /\ OneByOne /\ Known(s) /\ Apart(s) /\ Placed(w) /\ FilesAreFilled
  BY DEF OInv, SInv, Underway, KeptFor
<1>1. /\ stage[w] = "save" /\ SubjectKey(e) = s /\ open' = open /\ Process(w)
  BY DEF Save, WorksOn, memory, Process
<1>2. /\ n \in IncidentIds /\ e \in Events
      /\ \A i \in IncidentIds \ {n} : incidents'[i] = incidents[i]
      /\ incidents'[n] # Nothing /\ incidents'[n].subject = s
      /\ incidents[n] # Nothing =>
           /\ incidents[n].subject = s
           /\ EventsIn(incidents'[n]) \subseteq EventsIn(incidents[n]) \union {e}
      /\ incidents[n] = Nothing => EventsIn(incidents'[n]) \subseteq {e}
      /\ stage'[w] = "record" /\ event'[w] = e /\ id'[w] = n
      /\ \A v \in Workers \ {w} : Same(v)
  <2>1. Writes(w)
    BY DEF Save, Writes
  <2>2. /\ stage'[w] = "record" /\ event'[w] = e /\ id'[w] = n
        /\ \A v \in Workers \ {w} : Same(v)
    BY <1>0 DEF Save, Same, CInv, Typed
  <2> QED BY <1>0, <1>1, <2>1, <2>2, WriteIs
<1> HIDE DEF n, e
<1>3. \A i \in OnFile' : i # n => i \in OnFile /\ incidents'[i] = incidents[i]
  BY <1>2 DEF OnFile
<1>4. \A i \in OnFile' : incidents'[i].subject = s => i <= n
  <2>1. \A i \in OnFile : incidents[i].subject = s => i <= n
    BY <1>0, <1>1 DEF Placed, n, e
  <2>2. n <= n
    BY <1>2 DEF IncidentIds
  <2> QED BY <1>3, <2>1, <2>2
(* What was on file of the subject, but for the incident saved, is more     *)
(* than a window before the event.                                         *)
<1>5. ASSUME NEW i \in OnFile, incidents[i].subject = s, i # n PROVE IsFarFrom(e, i)
  <2>1. CASE incidents[n] = Nothing
    BY <1>0, <1>1, <1>5, <2>1 DEF Placed, n, e
  <2>2. CASE incidents[n] # Nothing
    <3>1. n \in OnFile /\ incidents[n].subject = s
      BY <1>2, <2>2 DEF OnFile
    <3>2. PICK c : c \in EventsIn(incidents[n])
      BY <1>0, <3>1 DEF FilesAreFilled
    <3>3. i < n
      <4>1. i \in Int /\ n \in Int
        BY <1>2, <1>5 DEF OnFile, IncidentIds
      <4>2. i <= n
        BY <1>0, <1>1, <1>5 DEF Placed, n, e
      <4> QED BY <1>5, <4>1, <4>2
    <3>4. IsFarFrom(c, i)
      BY <1>0, <1>5, <3>1, <3>2, <3>3 DEF Apart
    <3>5. c \in sent /\ sent \subseteq Events /\ SubjectKey(c) = s
      BY <1>0, <3>1, <3>2 DEF FilesAreFilled, CInv, Typed, FileIsSorted, Own, EventsIn, OnFile
    <3>6. TimeOf[c] <= TimeOf[e]
      BY <1>1, <3>5 DEF OInv, EventsAreLatest, e
    <3>7. \A d \in EventsIn(incidents[i]) : d \in Events
      BY <1>0, <1>5 DEF FilesAreFilled, CInv, Typed
    <3>8. \A d \in EventsIn(incidents[i]) : TimeOf[c] - TimeOf[d] > Window /\ TimeOf[d] \in Nat
      BY <3>4, <3>7, EventsAreTelemetry DEF IsFarFrom
    <3>9. TimeOf[c] \in Nat /\ TimeOf[e] \in Nat /\ Window \in Nat
      BY <1>2, <3>5, EventsAreTelemetry, BoundsAreNaturals
    <3> QED BY <3>6, <3>8, <3>9 DEF IsFarFrom
  <2> QED BY <2>1, <2>2
<1>6. Known(s)'
  <2> SUFFICES ASSUME NEW i \in OnFile', incidents'[i].subject = s,
                      NEW d \in EventsIn(incidents'[i])
               PROVE  \/ \E v \in Workers : stage'[v] = "record" /\ id'[v] = i /\ event'[v] = d
                      \/ open'[s] # Nothing /\ i <= open'[s].id /\ TimeOf[d] <= open'[s].lastSeen
    BY DEF Known, EventsIn
  <2>1. CASE i = n /\ d = e
    BY <1>2, <2>1
  <2>2. CASE ~(i = n /\ d = e)
    <3>1. i \in OnFile /\ incidents[i].subject = s /\ d \in EventsIn(incidents[i])
      BY <1>2, <1>3, <2>2 DEF OnFile
    <3> QED BY <1>0, <1>1, <3>1, OpenCovers
  <2> QED BY <2>1, <2>2
<1>7. Apart(s)'
  <2> SUFFICES ASSUME NEW i \in OnFile', NEW j \in OnFile', i < j,
                      incidents'[i].subject = s, incidents'[j].subject = s,
                      NEW c \in EventsIn(incidents'[j]), NEW d \in EventsIn(incidents'[i])
               PROVE  TimeOf[c] - TimeOf[d] > Window
    BY DEF Apart, IsFarFrom, EventsIn
  <2>1. i # n
    <3>1. j <= n /\ i \in Int /\ j \in Int /\ n \in Int
      BY <1>2, <1>4 DEF OnFile, IncidentIds
    <3> QED BY <3>1
  <2>2. i \in OnFile /\ incidents'[i] = incidents[i]
    BY <1>3, <2>1
  <2>3. CASE j = n /\ c = e
    BY <1>5, <2>1, <2>2, <2>3 DEF IsFarFrom
  <2>4. CASE ~(j = n /\ c = e)
    <3>1. j \in OnFile /\ incidents[j].subject = s /\ c \in EventsIn(incidents[j])
      BY <1>2, <1>3, <2>4 DEF OnFile
    <3> QED BY <1>0, <2>2, <3>1 DEF Apart, IsFarFrom
  <2> QED BY <2>3, <2>4
<1>8. Placed(w)'
  BY <1>1, <1>2, <1>4 DEF Placed, n, e
<1> QED BY <1>0, <1>1, <1>6, <1>7, <1>8, AloneAfter DEF KeptFor

LEMMA RecordKeeps ==
  ASSUME OInv, [Next]_vars, NEW s \in Subjects, orderly[s], KeptFor(s),
         NEW w \in Workers, WorksOn(w, s), Record(w)
  PROVE  KeptFor(s)'
<1>0. CInv /\ SInv /\ OneByOne /\ Apart(s) /\ Placed(w) /\ FilesAreFilled
  BY DEF OInv, SInv, Underway, KeptFor
<1>1. /\ stage[w] = "record" /\ SubjectKey(event[w]) = s /\ Process(w)
      /\ incidents' = incidents /\ stage'[w] = "idle"
      /\ open'[s] = [id |-> id[w], lastSeen |-> TimeOf[event[w]]]
  BY <1>0 DEF Record, WorksOn, disk, Process, Finish, CInv, Typed
<1>2. open'[s] # Nothing
  <2>1. id[w] \in IncidentIds /\ event[w] \in Events
    BY <1>0, <1>1 DEF CInv, Typed, WorkIsOwned
  <2>2. open'[s] \in Openings
    BY <1>1, <2>1, EventsAreTelemetry DEF Openings
  <2> QED BY <2>2, NothingIsNone
<1>3. Known(s)'
  <2> SUFFICES ASSUME NEW i \in OnFile, incidents[i].subject = s, NEW d \in EventsIn(incidents[i])
               PROVE  i <= id[w] /\ TimeOf[d] <= TimeOf[event[w]]
    BY <1>1, <1>2 DEF Known, EventsIn, OnFile
  <2>1. i <= id[w]
    BY <1>0, <1>1 DEF Placed
  <2>2. d \in sent /\ SubjectKey(d) = s
    BY <1>0 DEF FilesAreFilled, CInv, FileIsSorted, Own, EventsIn, OnFile
  <2> QED BY <1>1, <2>1, <2>2 DEF OInv, EventsAreLatest
<1>4. Apart(s)'
  BY <1>0, <1>1 DEF Apart, IsFarFrom, EventsIn, OnFile
<1>5. \A v \in Workers : ~WorksOn(v, s)'
  BY <1>0, <1>1, AloneAfter DEF WorksOn
<1> QED BY <1>3, <1>4, <1>5 DEF KeptFor

LEMMA WindowsKeptStep ==
  ASSUME OInv, [Next]_vars
  PROVE  WindowsKept'
<1> SUFFICES ASSUME Quiet', NEW s \in Subjects, orderly'[s]
             PROVE  KeptFor(s)'
  BY DEF WindowsKept, KeptFor, Known, Apart, Placed, IsFarFrom, WorksOn, OnFile, EventsIn
<1>1. CInv /\ SInv /\ CountsTyped
  BY DEF OInv, SInv
<1>2. Quiet /\ orderly[s]
  BY <1>1, QuietBefore, OrderlyBefore
<1>3. KeptFor(s)
  BY <1>2 DEF OInv, WindowsKept, KeptFor
<1> QED BY <1>2, <1>3, TouchedByItsWorker, UntouchedKeeps, LookupKeeps, LoadKeeps, SaveKeeps,
           RecordKeeps

LEMMA OInvInit == Init => OInv
<1> SUFFICES ASSUME Init PROVE OInv
  OBVIOUS
<1>1. SInv
  BY SInvInit
<1>2. HitsTyped /\ CountsTyped
  BY HitsTypedInit
<1>3. OnFile = {} /\ \A w \in Workers : stage[w] = "idle"
  BY DEF Init, OnFile
<1>4. EventsAreLatest /\ FilesAreFilled
  BY <1>3 DEF Init, EventsAreLatest, FilesAreFilled
<1>5. WindowsKept
  BY <1>3 DEF WindowsKept, Known, Apart, WorksOn
<1> QED BY <1>1, <1>2, <1>4, <1>5 DEF OInv

LEMMA OrderInvariant == ASSUME OneAtATime PROVE Spec => []OInv
<1>1. OInv /\ [Next]_vars => OInv'
  <2> SUFFICES ASSUME OInv, [Next]_vars PROVE OInv'
    OBVIOUS
  <2>1. CInv /\ SInv /\ OneByOne /\ HitsTyped /\ CountsTyped /\ EventsAreLatest /\ FilesAreFilled
    BY DEF OInv, SInv, Underway
  <2>2. SInv'
    BY <2>1, CInvStep, UnderwayStep, AckedStep, OpenStep DEF SInv
  <2> QED BY <2>1, <2>2, HitsTypedStep, CountsTypedStep, EventsAreLatestStep,
             FilesAreFilledStep, WindowsKeptStep DEF OInv
<1> QED BY <1>1, OInvInit, PTL DEF Spec

(* "Groups findings that share a subject into a single incident" (rules.go): *)
(* without failures and restarts, two incidents of a subject whose events    *)
(* come in order and one after the other are more than a window apart.       *)
THEOREM IncidentsKeepApart == ASSUME OneAtATime PROVE Spec => []IncidentsAreAWindowApart
<1>1. OInv => IncidentsAreAWindowApart
  <2> SUFFICES ASSUME OInv, Quiet, NEW i \in OnFile, NEW j \in OnFile, i < j,
                      incidents[j].subject = incidents[i].subject, orderly[incidents[i].subject],
                      NEW d \in EventsIn(incidents[i]), NEW e \in EventsIn(incidents[j])
               PROVE  TimeOf[e] - TimeOf[d] > Window
    BY DEF IncidentsAreAWindowApart, Quiet
  <2>1. incidents[i].subject \in Subjects
    BY DEF OInv, SInv, CInv, Typed, OnFile, Incidents
  <2>2. Apart(incidents[i].subject)
    BY <2>1 DEF OInv, WindowsKept
  <2> QED BY <2>2 DEF Apart, IsFarFrom
<1> QED BY <1>1, OrderInvariant, PTL

-----------------------------------------------------------------------------
(* Thresholds are earned                                                   *)

LEMMA StandAmongMore ==
  ASSUME NEW of, NEW seq, NEW among, NEW more, Stand(of, seq, among), among \subseteq more
  PROVE  Stand(of, seq, more)
BY DEF Stand

(* A new hit stands for its own event, which no other stands for.          *)
LEMMA StandAfter ==
  ASSUME NEW seq \in Seq(Nat), NEW among, NEW of, Stand(of, seq, among),
         NEW e, TimeOf[e] \in Nat, e \notin among,
         NEW rule, rule.count \in Nat, rule.window \in Nat
  PROVE  \E new : Stand(new, HitsAfter(seq, TimeOf[e], rule), among \union {e})
<1> DEFINE t == TimeOf[e]
           after == HitsAfter(seq, t, rule)
           all == Append(seq, t)
           l == Len(seq)
<1>1. after \in Seq(Nat)
      /\ \E at : Drawn(after, at, all, l + 1, t - rule.window)
  BY HitsAfterDraws
<1>2. PICK at : Drawn(after, at, all, l + 1, t - rule.window)
  BY <1>1
<1>3. l \in Nat /\ all[l + 1] = t /\ \A i \in 1..l : all[i] = seq[i]
  OBVIOUS
<1> DEFINE new == [i \in 1..Len(after) |-> IF at[i] = l + 1 THEN e ELSE of[at[i]]]
<1> HIDE DEF after, all, l, t
<1>4. /\ at \in [1..Len(after) -> 1..l+1]
      /\ \A i, j \in 1..Len(after) : at[i] = at[j] => i = j
      /\ \A i \in 1..Len(after) : after[i] = all[at[i]]
  BY <1>2 DEF Drawn
<1>5. /\ of \in [1..l -> among]
      /\ \A i, j \in 1..l : of[i] = of[j] => i = j
      /\ \A i \in 1..l : TimeOf[of[i]] = seq[i]
  BY DEF Stand, l
<1>6. \A x \in 1..l+1 : x = l + 1 \/ x \in 1..l
  BY <1>3
<1>7. ASSUME NEW i \in 1..Len(after)
      PROVE  /\ at[i] = l + 1 => new[i] = e
             /\ at[i] # l + 1 => at[i] \in 1..l /\ new[i] = of[at[i]] /\ new[i] \in among
  BY <1>4, <1>5, <1>6
<1>8. new = [i \in 1..Len(after) |-> new[i]]
  OBVIOUS
<1> HIDE DEF new
<1>9. new \in [1..Len(after) -> among \union {e}]
  BY <1>7, <1>8
<1>10. ASSUME NEW i \in 1..Len(after), NEW j \in 1..Len(after), new[i] = new[j] PROVE i = j
  <2>1. at[i] = at[j]
    BY <1>5, <1>7, <1>10
  <2> QED BY <1>4, <2>1
<1>11. ASSUME NEW i \in 1..Len(after) PROVE TimeOf[new[i]] = after[i]
  <2>1. CASE at[i] = l + 1
    BY <1>3, <1>4, <1>7, <2>1 DEF t
  <2>2. CASE at[i] # l + 1
    BY <1>3, <1>4, <1>5, <1>7, <2>2
  <2> QED BY <2>1, <2>2
<1>12. Stand(new, after, among \union {e})
  BY <1>9, <1>10, <1>11 DEF Stand
<1> QED BY <1>12 DEF after, t

(* No hit left is older than the window.                                   *)
LEMMA HitsAreRecent ==
  ASSUME NEW seq \in Seq(Nat), NEW t \in Nat, NEW rule, rule.count \in Nat, rule.window \in Nat
  PROVE  \A i \in 1..Len(HitsAfter(seq, t, rule)) : HitsAfter(seq, t, rule)[i] >= t - rule.window
<1> DEFINE after == HitsAfter(seq, t, rule)
<1>1. PICK at : Drawn(after, at, Append(seq, t), Len(seq) + 1, t - rule.window)
  BY HitsAfterDraws
<1> HIDE DEF after
<1>2. \A i \in 1..Len(after) : after[i] >= t - rule.window
  BY <1>1 DEF Drawn
<1> QED BY <1>2 DEF after

(* Outside of evaluation what may have been counted only grows, if the      *)
(* subject stays orderly.                                                  *)
LEMMA CountableGrows ==
  ASSUME OneAtATime, OInv, [Next]_vars, NEW s \in Subjects, NEW r \in Rules, orderly'[s]
  PROVE  Countable(s, r) \subseteq Countable(s, r)'
<1>0. CInv
  BY DEF OInv, SInv
<1> SUFFICES ASSUME NEW e \in Countable(s, r)
             PROVE  e \in Countable(s, r)'
  OBVIOUS
<1>1. /\ e \in stored /\ e \in sent /\ SubjectKey(e) = s /\ r \in RulesOf[e]
      /\ \A w \in Workers : stage[w] = "rules" => event[w] # e
  BY DEF Countable, OInv, EventsAreLatest
<1>2. e \in stored'
  <2>1. \A w \in Workers, d \in Events : Ingest(w, d) => stored \subseteq stored'
    BY DEF Ingest
  <2> QED BY <1>1, <2>1, SendingIs
<1>3. ASSUME NEW w \in Workers, stage'[w] = "rules", event'[w] = e PROVE FALSE
  <2>1. \A d \in Events : ~Ingest(w, d)
    <3> SUFFICES ASSUME NEW d \in Events, Ingest(w, d) PROVE FALSE
      OBVIOUS
    <3>1. event'[w] = d
      BY <1>0 DEF Ingest, CInv, Typed
    <3>2. orderly'[s] => d \notin sent
      BY <1>1, <1>3, <3>1 DEF Ingest, OInv, CountsTyped
    <3> QED BY <1>1, <1>3, <3>1, <3>2
  <2>2. ~Process(w)
    BY <1>0, <1>3 DEF Process, Evaluate, Lookup, Load, LoadFails, Save, SaveFails, Record, Finish,
                CInv, Typed
  <2>3. Same(w)
    BY <1>0, <1>3, <2>1, <2>2, OwnStepOrNone
  <2> QED BY <1>1, <1>3, <2>3 DEF Same
<1> QED BY <1>1, <1>2, <1>3 DEF Countable

LEMMA HitsAreEventsStep ==
  ASSUME OneAtATime, OInv, HitsAreEvents, [Next]_vars
  PROVE  HitsAreEvents'
<1>0. CInv /\ CountsTyped /\ OneByOne /\ HitsTyped
  BY DEF OInv, SInv, Underway
<1> SUFFICES ASSUME NEW s \in Subjects, NEW r \in Rules, orderly'[s]
             PROVE  HitsStandFor(s, r)'
  BY DEF HitsAreEvents
<1> SUFFICES \E of : Stand(of, hits'[<<s, r>>], Countable(s, r)')
  BY DEF HitsStandFor, Stand
<1>1. orderly[s] /\ Countable(s, r) \subseteq Countable(s, r)' /\ <<s, r>> \in Subjects \X Rules
  BY <1>0, OrderlyBefore, CountableGrows
<1>2. PICK of : Stand(of, hits[<<s, r>>], Countable(s, r))
  BY <1>1 DEF HitsAreEvents, HitsStandFor
<1>3. CASE hits'[<<s, r>>] = hits[<<s, r>>]
  BY <1>1, <1>2, <1>3, StandAmongMore
<1>4. CASE Restart
  <2>1. hits' = [sr \in Subjects \X Rules |-> <<>>]
    BY <1>4 DEF Restart
  <2>2. hits'[<<s, r>>] = <<>>
    BY <1>1, <2>1, Zenon
  <2>3. Stand([i \in 1..0 |-> i], <<>>, Countable(s, r)')
    <3>1. Len(<<>>) = 0 /\ 1..0 = {}
      OBVIOUS
    <3> QED BY <3>1 DEF Stand
  <2> QED BY <2>2, <2>3
<1>5. ASSUME NEW w \in Workers, Evaluate(w), hits'[<<s, r>>] # hits[<<s, r>>]
      PROVE  \E new : Stand(new, hits'[<<s, r>>], Countable(s, r)')
  <2> DEFINE e == event[w]
  <2>1. e \in Events /\ stage[w] = "rules" /\ stored' = stored /\ e \in stored
        /\ event[w] \in Events
    BY <1>0, <1>5 DEF Evaluate, disk, CInv, Typed, WorkIsOwned
  <2>2. /\ s = SubjectKey(e) /\ r \in RulesOf[e]
        /\ hits'[<<s, r>>] = HitsAfter(hits[<<s, r>>], TimeOf[e], RuleOf[r])
    <3>1. <<s, r>>[1] = s /\ <<s, r>>[2] = r
      OBVIOUS
    <3>2. \/ hits'[<<s, r>>] = hits[<<s, r>>]
          \/ /\ <<s, r>>[1] = SubjectKey(event[w]) /\ <<s, r>>[2] \in RulesOf[event[w]]
             /\ hits'[<<s, r>>] = HitsAfter(hits[<<s, r>>], TimeOf[event[w]], RuleOf[<<s, r>>[2]])
      BY <1>1, <1>5, <2>1, EvaluationHits, Zenon
    <3> QED BY <1>5, <3>1, <3>2
  <2>3. e \notin Countable(s, r)
    BY <2>1 DEF Countable
  <2>4. e \in Countable(s, r)'
    <3>1. ASSUME NEW v \in Workers, stage'[v] = "rules", event'[v] = e PROVE FALSE
      <4>1. v # w
        BY <1>0, <1>5, <3>1 DEF Evaluate, Finish, CInv, Typed
      <4>2. stage[v] = "rules" /\ event[v] = e
        BY <1>0, <1>5, <3>1, <4>1 DEF Evaluate, Finish, CInv, Typed
      <4> QED BY <1>0, <2>1, <4>1, <4>2 DEF OneByOne
    <3> QED BY <2>1, <2>2, <3>1 DEF Countable
  <2> HIDE DEF e
  <2>5. /\ hits[<<s, r>>] \in Seq(Nat) /\ TimeOf[e] \in Nat
        /\ RuleOf[r].count \in Nat /\ RuleOf[r].window \in Nat
    BY <1>0, <1>1, <2>1, EventsAreTelemetry, PackLoads DEF HitsTyped
  <2>8. \E new : Stand(new, HitsAfter(hits[<<s, r>>], TimeOf[e], RuleOf[r]),
                      Countable(s, r) \union {e})
    BY <1>2, <2>3, <2>5, StandAfter, Zenon
  <2>6. PICK new : Stand(new, hits'[<<s, r>>], Countable(s, r) \union {e})
    BY <2>2, <2>8
  <2>7. Countable(s, r) \union {e} \subseteq Countable(s, r)'
    BY <1>1, <2>4
  <2> QED BY <2>6, <2>7, StandAmongMore
<1>6. hits' = hits \/ Restart \/ \E w \in Workers : Evaluate(w)
  BY DEF Next, vars, memory, Process, Ingest, Lookup, Load, LoadFails, Save, SaveFails, Record
<1> QED BY <1>3, <1>4, <1>5, <1>6

InTheWindow(a, b, t, k) == a <= t /\ b >= t - k
NoFarther(a, b, k) == a - b <= k

LEMMA WithinAWindow ==
  \A a, b, t, k \in Nat : InTheWindow(a, b, t, k) => NoFarther(a, b, k)
BY DEF InTheWindow, NoFarther

(* Enough events, within a window of each other, back a finding.           *)
LEMMA StandBacks ==
  ASSUME NEW s, NEW r \in Rules, NEW of, NEW seq \in Seq(Nat), NEW t \in Nat,
         NEW among \in SUBSET {e \in stored : SubjectKey(e) = s /\ r \in RulesOf[e]},
         Stand(of, seq, among), Len(seq) >= CountOf(r),
         \A i \in 1..Len(seq) : seq[i] <= t /\ seq[i] >= t - RuleOf[r].window
  PROVE  Backed(s, r)
<1> DEFINE E == {of[i] : i \in 1..Len(seq)}
<1>1. /\ of \in [1..Len(seq) -> among] /\ Len(seq) \in Nat
      /\ \A i, j \in 1..Len(seq) : of[i] = of[j] => i = j
      /\ \A i \in 1..Len(seq) : TimeOf[of[i]] = seq[i] /\ seq[i] \in Nat
  BY DEF Stand
<1>2. Cardinality(E) = Len(seq)
  <2>1. of \in [1..Len(seq) -> E] /\ \A x \in E : \E i \in 1..Len(seq) : of[i] = x
    BY <1>1
  <2>2. of \in Bijection(1..Len(seq), E)
    BY <1>1, <2>1, Zenon DEF Bijection, Injection, Surjection, IsInjective
  <2>3. ExistsBijection(1..Len(seq), E)
    BY <2>2 DEF ExistsBijection
  <2> QED BY <1>1, <2>3, FS_CountingElements
<1>3. E \in SUBSET {e \in stored : SubjectKey(e) = s /\ r \in RulesOf[e]}
  BY <1>1
<1>4. ASSUME NEW d \in E, NEW e \in E PROVE TimeOf[d] - TimeOf[e] <= RuleOf[r].window
  <2>1. PICK i \in 1..Len(seq) : d = of[i]
    OBVIOUS
  <2>2. PICK j \in 1..Len(seq) : e = of[j]
    OBVIOUS
  <2>3. /\ TimeOf[d] = seq[i] /\ TimeOf[e] = seq[j] /\ seq[i] \in Nat /\ seq[j] \in Nat
        /\ seq[i] <= t /\ seq[j] >= t - RuleOf[r].window
    BY <1>1, <2>1, <2>2
  <2>4. RuleOf[r].window \in Nat
    BY PackLoads
  <2>5. /\ TimeOf[d] \in Nat /\ TimeOf[e] \in Nat
        /\ InTheWindow(TimeOf[d], TimeOf[e], t, RuleOf[r].window)
    BY <2>3 DEF InTheWindow
  <2>6. NoFarther(TimeOf[d], TimeOf[e], RuleOf[r].window)
    BY <2>4, <2>5, WithinAWindow, Zenon
  <2> QED BY <2>6 DEF NoFarther
<1> QED BY <1>2, <1>3, <1>4 DEF Backed

LEMMA BackedStays ==
  ASSUME [Next]_vars, NEW s, NEW r, Backed(s, r)
  PROVE  Backed(s, r)'
<1>1. stored \subseteq stored'
  <2>1. \A w \in Workers, d \in Events : Ingest(w, d) => stored \subseteq stored'
    BY DEF Ingest
  <2> QED BY <2>1, SendingIs
<1> QED BY <1>1 DEF Backed, CountOf, RulesOf

LEMMA BackedByNone ==
  ASSUME NEW s, NEW r, CountOf(r) = 0
  PROVE  Backed(s, r)
<1>1. Cardinality({}) = 0
  BY FS_EmptySet
<1> QED BY <1>1 DEF Backed

(* What an evaluation finds of an orderly subject is backed.               *)
LEMMA EvaluationIsBacked ==
  ASSUME OneAtATime, OInv, HitsAreEvents, [Next]_vars,
         NEW w \in Workers, Evaluate(w), NEW s, s = SubjectKey(event[w]), orderly'[s],
         stage'[w] # "idle", NEW r \in found'[w]
  PROVE  Backed(s, r)'
<1> DEFINE e == event[w]
           counted == {s} \X {q \in RulesOf[e] : CountOf(q) > 0}
           made == {q \in RulesOf[e] : Len(hits'[<<s, q>>]) >= CountOf(q)}
<1>0. CInv /\ CountsTyped /\ OneByOne /\ HitsTyped
  BY DEF OInv, SInv, Underway
<1>1. /\ stage[w] = "rules" /\ e \in Events /\ s \in Subjects /\ stored' = stored
      /\ TimeOf[e] \in Nat
  BY <1>0, KeyIsSubject, EventsAreTelemetry DEF Evaluate, disk, CInv, Typed, WorkIsOwned
<1>2. /\ found' = [found EXCEPT ![w] = made]
      /\ hits' = [sr \in Subjects \X Rules |->
                    IF sr \in counted
                    THEN HitsAfter(hits[sr], TimeOf[e], RuleOf[sr[2]])
                    ELSE hits[sr]]
  <2>1. ~Finish(w)
    BY <1>0 DEF Finish, CInv, Typed
  <2> QED BY <2>1, Zenon DEF Evaluate
<1>3. r \in made
  BY <1>0, <1>2 DEF CInv, Typed
<1>4. r \in Rules /\ r \in RulesOf[e] /\ Len(hits'[<<s, r>>]) >= CountOf(r)
  BY <1>1, <1>3 DEF RulesOf
<1>5. CASE CountOf(r) = 0
  BY <1>5, BackedByNone, BackedStays
<1>6. CASE CountOf(r) # 0
  <2>1. CountOf(r) > 0
    BY <1>4, <1>6, PackLoads DEF CountOf
  <2>2. <<s, r>> \in counted /\ <<s, r>> \in Subjects \X Rules /\ <<s, r>>[2] = r
    BY <1>1, <1>4, <2>1
  <2>3. hits'[<<s, r>>] = HitsAfter(hits[<<s, r>>], TimeOf[e], RuleOf[r])
    <3> HIDE DEF counted
    <3> QED BY <1>2, <2>2
  <2>4. /\ hits[<<s, r>>] \in Seq(Nat) /\ RuleOf[r].count \in Nat /\ RuleOf[r].window \in Nat
        /\ hits'[<<s, r>>] \in Seq(Nat)
    <3>1. /\ hits[<<s, r>>] \in Seq(Nat) /\ RuleOf[r].count \in Nat /\ RuleOf[r].window \in Nat
      BY <1>0, <1>4, <2>2, PackLoads DEF HitsTyped
    <3> QED BY <1>1, <2>3, <3>1, HitsAfterDraws
  <2>5. HitsAreEvents'
    BY HitsAreEventsStep
  <2>6. HitsStandFor(s, r)'
    BY <1>1, <1>4, <2>5 DEF HitsAreEvents
  <2>7. PICK of : Stand(of, hits'[<<s, r>>], Countable(s, r)')
    <3>1. \E of \in [1..Len(hits'[<<s, r>>]) -> Countable(s, r)'] :
            Stand(of, hits'[<<s, r>>], Countable(s, r)')
      BY <2>6 DEF HitsStandFor, Stand
    <3> QED BY <3>1
  <2>8. Countable(s, r)' \in SUBSET {d \in stored : SubjectKey(d) = s /\ r \in RulesOf[d]}
    BY <1>1 DEF Countable, RulesOf
  <2>9. ASSUME NEW i \in 1..Len(hits'[<<s, r>>])
        PROVE  /\ hits'[<<s, r>>][i] <= TimeOf[e]
               /\ hits'[<<s, r>>][i] >= TimeOf[e] - RuleOf[r].window
    <3>1. hits'[<<s, r>>][i] >= TimeOf[e] - RuleOf[r].window
      BY <1>1, <2>3, <2>4, <2>9, HitsAreRecent
    <3>2. PICK d : d = of[i]
      OBVIOUS
    <3>3. d \in Countable(s, r)' /\ hits'[<<s, r>>][i] = TimeOf[d]
      BY <2>7, <3>2 DEF Stand
    <3>4. d \in sent /\ SubjectKey(d) = s
      BY <2>8, <3>3 DEF OInv, EventsAreLatest
    <3>5. orderly[s]
      BY <1>0, <1>1, OrderlyBefore
    <3> QED BY <1>1, <3>1, <3>3, <3>4, <3>5 DEF OInv, EventsAreLatest
  <2>10. Backed(s, r)
    <3> HIDE DEF e
    <3> QED BY <1>1, <1>4, <2>4, <2>7, <2>8, <2>9, StandBacks
  <2> QED BY <2>10, BackedStays
<1> QED BY <1>5, <1>6

LEMMA FoundIsBackedStep ==
  ASSUME OneAtATime, OInv, HInv, [Next]_vars
  PROVE  FoundIsBacked'
<1>0. CInv /\ SInv /\ CountsTyped
  BY DEF OInv, SInv
<1> SUFFICES ASSUME NEW v \in Workers, stage'[v] \in {"lookup", "load", "save"},
                    NEW s, s = SubjectKey(event'[v]), orderly'[s], NEW r \in found'[v]
             PROVE  Backed(s, r)'
  BY DEF FoundIsBacked, Backed
<1>1. \A e \in Events : ~Ingest(v, e)
  BY <1>0 DEF Ingest, CInv, Typed
<1>2. stage[v] # "idle" /\ event[v] \in Events /\ s = SubjectKey(event[v]) /\ s \in Subjects
  BY <1>0, <1>1, WorkGoesOn, KeyIsSubject DEF CInv, Typed, WorkIsOwned
<1>3. orderly[s]
  BY <1>0, <1>2, OrderlyBefore
<1>4. CASE Evaluate(v)
  BY <1>2, <1>4, EvaluationIsBacked DEF HInv
<1>5. CASE stage[v] \in {"lookup", "load", "save"} /\ found'[v] = found[v]
  <2>1. Backed(s, r)
    BY <1>2, <1>3, <1>5 DEF HInv, FoundIsBacked
  <2> QED BY <2>1, BackedStays
<1>6. Same(v) => stage[v] \in {"lookup", "load", "save"} /\ found'[v] = found[v]
  BY DEF Same
<1>7. Process(v) => \/ Evaluate(v)
                    \/ stage[v] \in {"lookup", "load", "save"} /\ found'[v] = found[v]
  BY <1>0 DEF Process, Lookup, Load, LoadFails, Save, SaveFails, Record, Finish, CInv, Typed
<1> QED BY <1>0, <1>1, <1>4, <1>5, <1>6, <1>7, OwnStepOrNone

LEMMA ThresholdStep ==
  ASSUME OneAtATime, OInv, HInv, [Next]_vars
  PROVE  ThresholdIsEarned'
<1>0. CInv /\ SInv /\ CountsTyped /\ FilesAreFilled
  BY DEF OInv, SInv
<1> SUFFICES ASSUME NEW i \in OnFile', NEW s, s = incidents'[i].subject, orderly'[s],
                    NEW r \in RulesFound(incidents'[i])
             PROVE  Backed(s, r)'
  BY DEF ThresholdIsEarned, Backed, RulesFound
<1>1. ASSUME i \in OnFile, orderly[s], r \in RulesFound(incidents[i]), incidents[i].subject = s
      PROVE  Backed(s, r)'
  <2>1. Backed(s, r)
    BY <1>1 DEF HInv, ThresholdIsEarned
  <2> QED BY <2>1, BackedStays
<1>2. CASE incidents'[i] = incidents[i]
  <2>1. i \in OnFile /\ s \in Subjects
    BY <1>0, <1>2 DEF OnFile, CInv, Typed, Incidents
  <2>2. orderly[s]
    BY <1>0, <2>1, OrderlyBefore
  <2> QED BY <1>1, <1>2, <2>1, <2>2
<1>3. ASSUME NEW w \in Workers, Writes(w), i = id[w]
      PROVE  Backed(s, r)'
  <2>1. /\ event[w] \in Events /\ s \in Subjects /\ s = SubjectKey(event[w])
        /\ incidents[i] # Nothing =>
             /\ incidents[i].subject = s
             /\ RulesFound(incidents'[i]) \subseteq RulesFound(incidents[i]) \union found[w]
        /\ incidents[i] = Nothing => RulesFound(incidents'[i]) \subseteq found[w]
    BY <1>0, <1>3, WriteIs, KeyIsSubject
  <2>2. orderly[s]
    BY <1>0, <2>1, OrderlyBefore
  <2>3. CASE r \in found[w]
    <3>1. stage[w] = "save"
      BY <1>3 DEF Writes
    <3>2. Backed(s, r)
      BY <2>1, <2>2, <2>3, <3>1 DEF HInv, FoundIsBacked
    <3> QED BY <3>2, BackedStays
  <2>4. CASE r \notin found[w]
    <3>1. i \in OnFile /\ r \in RulesFound(incidents[i]) /\ incidents[i].subject = s
      BY <2>1, <2>4 DEF OnFile
    <3> QED BY <1>1, <2>2, <3>1
  <2> QED BY <2>3, <2>4
<1>4. incidents'[i] = incidents[i] \/ \E w \in Workers : Writes(w) /\ i = id[w]
  BY <1>0, OnlySaveWrites, WriteIs DEF OnFile
<1> QED BY <1>2, <1>3, <1>4

(* "The finding is emitted only once Count matching events have been seen   *)
(* for the same subject inside Window" (thresholdMet): so it is for a       *)
(* subject whose events come in order, once each and one after the other,   *)
(* through failures and restarts.                                          *)
THEOREM ThresholdsAreEarned == ASSUME OneAtATime PROVE Spec => []ThresholdIsEarned
<1>1. Init => HInv
  <2> SUFFICES ASSUME Init PROVE HInv
    OBVIOUS
  <2>1. FoundIsBacked /\ ThresholdIsEarned
    BY DEF Init, FoundIsBacked, ThresholdIsEarned, OnFile
  <2>2. ASSUME NEW s \in Subjects, NEW r \in Rules PROVE HitsStandFor(s, r)
    <3>1. hits = [sr \in Subjects \X Rules |-> <<>>] /\ <<s, r>> \in Subjects \X Rules
      BY DEF Init
    <3>2. hits[<<s, r>>] = <<>>
      BY <3>1, Zenon
    <3>3. Len(<<>>) = 0 /\ 1..0 = {}
      OBVIOUS
    <3>4. PICK of : of = [i \in 1..0 |-> i]
      OBVIOUS
    <3>5. Stand(of, hits[<<s, r>>], Countable(s, r))
      BY <3>2, <3>3, <3>4 DEF Stand
    <3> QED BY <3>5 DEF HitsStandFor, Stand
  <2> QED BY <2>1, <2>2 DEF HInv, HitsAreEvents
<1>2. (HInv /\ OInv) /\ [Next]_vars => HInv'
  BY HitsAreEventsStep, FoundIsBackedStep, ThresholdStep DEF HInv
<1> QED BY <1>1, <1>2, OrderInvariant, PTL DEF Spec, HInv

-----------------------------------------------------------------------------
(* The engine keeps its promise                                            *)

(* Storing an event is all that Ingest does of what the promise sees.      *)
LEMMA IngestFiles ==
  ASSUME NEW w \in Workers, NEW e \in Events, Ingest(w, e)
  PROVE  Promise!Next
<1>1. stored' = stored \union {e} /\ UNCHANGED <<incidents, acked>>
  BY DEF Ingest
<1>2. UNCHANGED [i \in OnFile |-> OnRecord(incidents[i])]
  BY <1>1 DEF OnFile, OnRecord, RulesFound
<1>3. Promise!File(e)
  BY <1>1, <1>2 DEF Promise!File
<1> QED BY <1>3 DEF Promise!Next

(* The rules found become part of the incident saved, full or not.         *)
LEMMA MergedRules ==
  ASSUME NEW inc \in Incidents, NEW e \in Events, NEW rules \in SUBSET Rules,
         WithinBound(inc)
  PROVE  RulesFound(Merged(inc, e, rules)) = RulesFound(inc) \union rules
<1>1. PICK new : new = Merged(inc, e, rules)
  OBVIOUS
<1>2. \A r \in Rules : MergedFinding(inc, e, rules, r)
  BY MergedFindings, Zenon
<1>3. \A r \in Rules : /\ inc.findings[r] \subseteq new.findings[r]
                       /\ r \notin rules => new.findings[r] = inc.findings[r]
  BY <1>1, <1>2 DEF MergedFinding
<1>4. \A r \in rules : Held(new, e, r)
  BY <1>1, MergedIsHeld, Zenon
<1>5. \A r \in rules : new.findings[r] # {}
  BY <1>4, FS_EmptySet, BoundsAreNaturals DEF Held
<1>6. RulesFound(new) = RulesFound(inc) \union rules
  BY <1>3, <1>5 DEF RulesFound
<1> QED BY <1>1, <1>6

(* Saving folds the findings of the event into an incident of its subject.  *)
LEMMA SaveFolds ==
  ASSUME OInv, NEW w \in Workers, Writes(w), UNCHANGED <<stored, acked>>
  PROVE  Promise!Next
<1> DEFINE e == event[w]
           i == id[w]
           new == Merged(copy[w], e, found[w])
<1>1. /\ copy[w] \in Incidents /\ e \in Events /\ found[w] \in SUBSET Rules
      /\ i \in IncidentIds /\ WithinBound(copy[w])
      /\ copy[w].subject = SubjectKey(e)
      /\ incidents[i] # Nothing => copy[w] = incidents[i]
      /\ incidents[i] = Nothing => EventsIn(copy[w]) = {}
  BY DEF Writes, OInv, SInv, Underway, CInv, Typed, WorkIsOwned, CopiesAreCurrent,
         FindingsAreBounded, FilesAreFilled
<1>2. /\ e \in stored
      /\ found[w] # {} /\ Always(e) \subseteq found[w] /\ found[w] \in SUBSET RulesOf[e]
  BY DEF Writes, OInv, SInv, Underway, CInv, WorkIsOwned, FoundIsMatched
<1>3. RulesFound(new) = RulesFound(copy[w]) \union found[w]
  BY <1>1, MergedRules, Zenon
<1>4. incidents[i] = Nothing => RulesFound(copy[w]) = {}
  BY <1>1 DEF EventsIn, RulesFound
<1>5. new \in Incidents /\ new.subject = SubjectKey(e)
  <2>1. copy[w] \in Incidents /\ e \in Events /\ found[w] \in SUBSET Rules
    BY <1>1
  <2>2. new \in Incidents /\ new.subject = copy[w].subject
    BY <2>1, MergedIsIncident, Zenon
  <2> QED BY <1>1, <2>2
<1>6. /\ incidents' = [incidents EXCEPT ![i] = new]
      /\ UNCHANGED <<stored, acked>>
  BY DEF Writes, Write
<1> HIDE DEF new, e, i
<1>7. new # Nothing
  BY <1>5, NothingIsNone
<1>8. /\ incidents'[i] = new
      /\ \A j \in IncidentIds : j # i => incidents'[j] = incidents[j]
  BY <1>1, <1>6 DEF OInv, SInv, CInv, Typed
<1>9. OnFile' = OnFile \union {i}
  BY <1>1, <1>7, <1>8 DEF OnFile
<1>10. i \in OnFile => OnRecord(incidents[i]) = [subject |-> SubjectKey(e),
                                               rules   |-> RulesFound(copy[w])]
  BY <1>1 DEF OnFile, OnRecord
<1> DEFINE before == IF i \in OnFile THEN OnRecord(incidents[i]).rules ELSE {}
<1>11. RulesFound(new) = before \union found[w]
  BY <1>1, <1>3, <1>4, <1>10 DEF OnFile
<1>12. \A j \in OnFile \union {i} :
         OnRecord(incidents'[j]) =
           IF j = i THEN [subject |-> SubjectKey(e), rules |-> before \union found[w]]
           ELSE OnRecord(incidents[j])
  BY <1>5, <1>8, <1>11 DEF OnRecord, OnFile
<1>13. [j \in OnFile' |-> OnRecord(incidents'[j])]
         = [j \in OnFile \union {i} |->
              IF j = i THEN [subject |-> SubjectKey(e), rules |-> before \union found[w]]
              ELSE OnRecord(incidents[j])]
  BY <1>9, <1>12
<1>14. Promise!Fold(e, i, found[w])
  BY <1>1, <1>2, <1>6, <1>10, <1>13 DEF Promise!Fold, Promise!RulesIn, Always, OnRecord, RulesFound
<1> QED BY <1>1, <1>2, <1>14 DEF Promise!Next

(* Recording tells of an incident that holds what the event added.          *)
LEMMA RecordTells ==
  ASSUME OInv, NEW w \in Workers, Record(w)
  PROVE  Promise!Next
<1>1. /\ event[w] \in Events /\ id[w] \in IncidentIds /\ incidents[id[w]] # Nothing
      /\ incidents[id[w]].subject = SubjectKey(event[w])
      /\ Always(event[w]) \subseteq RulesFound(incidents[id[w]])
  BY RecordedIsKept DEF Record, OInv
<1>2. /\ acked' = [acked EXCEPT ![event[w]] = id[w]]
      /\ UNCHANGED <<stored, incidents>>
  BY DEF Record, disk
<1>3. [j \in OnFile |-> OnRecord(incidents[j])]' = [j \in OnFile |-> OnRecord(incidents[j])]
  BY <1>2 DEF OnFile, OnRecord, RulesFound
<1>4. Promise!Tell(event[w], id[w])
  BY <1>1, <1>2, <1>3 DEF Promise!Tell, OnFile, OnRecord, Always
<1> QED BY <1>1, <1>4 DEF Promise!Next

(* Of any other step the promise sees nothing.                             *)
LEMMA OthersPromiseNothing ==
  ASSUME [Next]_vars, ~\E w \in Workers : Record(w),
         ~\E w \in Workers : \E e \in Events : Ingest(w, e)
  PROVE  /\ UNCHANGED <<stored, acked>>
         /\ incidents' = incidents \/ \E w \in Workers : Writes(w)
<1>1. UNCHANGED <<stored, acked>>
  BY DEF Next, vars, disk, history, Process, Evaluate, Lookup, Load, LoadFails, Save, SaveFails,
         Restart
<1> QED BY <1>1, OnlySaveWrites

(* Engine.Process and Service.Ingest, a subject's events one after the     *)
(* other: whatever interleaves, fails or restarts, each step files an      *)
(* event, folds one event's findings into one incident of its subject, or   *)
(* tells of an incident that holds them, for any rules and events.         *)
THEOREM EngineKeepsPromise == ASSUME OneAtATime PROVE Spec => PromiseIsKept
<1>1. Init => Promise!Init
  <2> SUFFICES ASSUME Init PROVE Promise!Init
    OBVIOUS
  <2>1. OnFile = {} /\ stored = {} /\ acked = [e \in Events |-> Nothing]
    BY DEF Init, OnFile
  <2> QED BY <2>1 DEF Promise!Init
<1>2. OInv /\ [Next]_vars =>
        [Promise!Next]_<<stored, [i \in OnFile |-> OnRecord(incidents[i])], acked>>
  <2> SUFFICES ASSUME OInv, [Next]_vars
               PROVE  \/ Promise!Next
                      \/ UNCHANGED <<stored, [i \in OnFile |-> OnRecord(incidents[i])], acked>>
    OBVIOUS
  <2>1. CASE \E w \in Workers : Record(w)
    BY <2>1, RecordTells
  <2>2. CASE \E w \in Workers : \E e \in Events : Ingest(w, e)
    BY <2>2, IngestFiles
  <2>3. CASE UNCHANGED <<stored, incidents, acked>>
    BY <2>3 DEF OnFile, OnRecord, RulesFound
  <2>4. CASE UNCHANGED <<stored, acked>> /\ \E w \in Workers : Writes(w)
    BY <2>4, SaveFolds
  <2> QED BY <2>1, <2>2, <2>3, <2>4, OthersPromiseNothing
<1> QED BY <1>1, <1>2, OrderInvariant, PTL DEF Spec, PromiseIsKept, Promise!Spec, Promise!ledger
=============================================================================

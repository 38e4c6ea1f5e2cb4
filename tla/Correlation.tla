---------------------------- MODULE Correlation -----------------------------
(***************************************************************************)
(* The correlation engine (internal/correlation/engine.go), driven by the  *)
(* ingest path (Service.Ingest): an event is stored, the rules it matches  *)
(* become findings, and the findings are folded into the incident that is  *)
(* open for the event's subject.                                           *)
(*                                                                         *)
(* Engine.Process holds the engine's lock for each look at its maps and    *)
(* for nothing longer: deciding thresholds, finding the open incident,     *)
(* reading it, saving it and recording it as open are five steps, and any  *)
(* number of requests take them concurrently.  The open incidents and the  *)
(* threshold hits live in the process's memory; events and incidents in    *)
(* the store.                                                              *)
(***************************************************************************)
EXTENDS DetectionRules, Sequences

CONSTANTS
  Workers,           \* ingest requests that run at a time
  Events,            \* event ids
  Rules,             \* rule ids
  TimeOf,            \* an event's own timestamp
  ActorOf,           \* the actor it is attributed to, or NoActor
  SourceOf,          \* the source that sent it
  FieldsOf,          \* the fields of it that rules can read
  NoActor,
  RuleOf,            \* the rule pack: what each rule matches and its threshold
  Window,            \* how long an incident stays open for its subject
  MaxFindingEvents,  \* event ids kept per finding
  OneAtATime,        \* a subject's events are sent one after the other
  MaxReplays,        \* bound: events sent again in a behaviour
  MaxFailures,       \* bound: store calls that fail in a behaviour
  MaxRestarts,       \* bound: restarts of the process in a behaviour
  Nothing

ASSUME EventsAreTelemetry ==
  TimeOf \in [Events -> Nat]

(* A pack with a rule that is not valid does not load, and the API does not *)
(* start.                                                                   *)
ASSUME PackLoads ==
  \A r \in Rules : /\ ValidRule(RuleOf[r])
                   /\ RuleOf[r].count \in Nat /\ RuleOf[r].window \in Nat

ASSUME BoundsAreNaturals ==
  /\ Window \in Nat /\ MaxFindingEvents \in Nat \ {0}
  /\ MaxReplays \in Nat /\ MaxFailures \in Nat /\ MaxRestarts \in Nat
  /\ OneAtATime \in BOOLEAN

ASSUME FinitelyMany == IsFiniteSet(Workers) /\ IsFiniteSet(Events)

VARIABLES
  stored,     \* durable: the events on file
  incidents,  \* durable: what is on file under each incident id
  fresh,      \* the next incident id; ids are never drawn twice
  open,       \* openSubjects: per subject, the incident absorbing its findings
  hits,       \* thresholdHits: per subject and rule, timestamps
  stage,      \* where each worker is
  event,      \* the event it processes
  found,      \* the rules that made a finding of it
  id,         \* the incident it folds them into
  copy,       \* its copy of that incident
  acked,      \* history: the incident reported for each event
  sent,       \* history: the events sent so far
  orderly,    \* history: subjects sent in order of time and without repeats
  replays, failures, restarts

disk    == <<stored, incidents, fresh>>
memory  == <<open, hits>>
work    == <<stage, event, found, id, copy>>
history == <<acked, sent, orderly>>
counts  == <<replays, failures, restarts>>
vars    == <<disk, memory, work, history, counts>>

RulesOf == [e \in Events |-> {r \in Rules : Matches(RuleOf[r], FieldsOf[e])}]

CountOf(r) == RuleOf[r].count

(* Mutant: findings are grouped by the source alone. *)
SourceKey(e) == <<"unattributed", SourceOf[e]>>

(* What an incident is about: the acting identity, or, for an event that    *)
(* names none, the source that sent it.                                     *)
SubjectKey(e) ==
  IF ActorOf[e] # NoActor THEN <<"actor", ActorOf[e]>>
  ELSE <<"unattributed", SourceOf[e]>>

Subjects == {SubjectKey(e) : e \in Events}

Findings == [Rules -> SUBSET Events]

IncidentIds == 1..(Cardinality(Events) + MaxReplays)

Incidents == [subject : Subjects, findings : Findings]

Openings == [id : IncidentIds, lastSeen : Nat]

ASSUME NothingIsNone ==
  Nothing \notin Events /\ Nothing \notin IncidentIds
  /\ Nothing \notin Incidents /\ Nothing \notin Openings

RulesFound(inc) == {r \in Rules : inc.findings[r] # {}}

EventsIn(inc) == UNION {inc.findings[r] : r \in Rules}

TypeOK ==
  /\ stored \subseteq Events
  /\ incidents \in [IncidentIds -> Incidents \union {Nothing}]
  /\ fresh \in Nat
  /\ open \in [Subjects -> Openings \union {Nothing}]
  /\ hits \in [Subjects \X Rules -> Seq(Nat)]
  /\ \A s \in Subjects, r \in Rules : Len(hits[s, r]) <= CountOf(r)
  /\ stage \in [Workers -> {"idle", "rules", "lookup", "load", "save", "record"}]
  /\ event \in [Workers -> Events \union {Nothing}]
  /\ found \in [Workers -> SUBSET Rules]
  /\ id \in [Workers -> IncidentIds \union {Nothing}]
  /\ copy \in [Workers -> Incidents \union {Nothing}]
  /\ acked \in [Events -> IncidentIds \union {Nothing}]
  /\ sent \subseteq Events
  /\ orderly \in [Subjects -> BOOLEAN]
  /\ replays \in 0..MaxReplays
  /\ failures \in 0..MaxFailures
  /\ restarts \in 0..MaxRestarts

Init ==
  /\ stored = {}
  /\ incidents = [i \in IncidentIds |-> Nothing]
  /\ fresh = 1
  /\ open = [s \in Subjects |-> Nothing]
  /\ hits = [sr \in Subjects \X Rules |-> <<>>]
  /\ stage = [w \in Workers |-> "idle"]
  /\ event = [w \in Workers |-> Nothing]
  /\ found = [w \in Workers |-> {}]
  /\ id = [w \in Workers |-> Nothing]
  /\ copy = [w \in Workers |-> Nothing]
  /\ acked = [e \in Events |-> Nothing]
  /\ sent = {}
  /\ orderly = [s \in Subjects |-> TRUE]
  /\ replays = 0 /\ failures = 0 /\ restarts = 0

-----------------------------------------------------------------------------
(* Ingest *)

InHand(s) == {w \in Workers : stage[w] # "idle" /\ SubjectKey(event[w]) = s}

Later(e) == {d \in sent : SubjectKey(d) = SubjectKey(e) /\ TimeOf[d] > TimeOf[e]}

(* An event arrives and is stored - SaveEvent is idempotent on its id - and *)
(* only then handed to the engine, whether or not it was already on file.   *)
Ingest(w, e) ==
  /\ stage[w] = "idle"
  /\ OneAtATime => InHand(SubjectKey(e)) = {}
  /\ e \in sent => replays < MaxReplays
  /\ replays' = IF e \in sent THEN replays + 1 ELSE replays
  /\ sent' = sent \union {e}
  /\ orderly' = [orderly EXCEPT ![SubjectKey(e)] =
                   @ /\ e \notin sent /\ Later(e) = {}]
  /\ stored' = stored \union {e}
  /\ stage' = [stage EXCEPT ![w] = "rules"]
  /\ event' = [event EXCEPT ![w] = e]
  /\ UNCHANGED <<incidents, fresh, memory, found, id, copy, acked, failures,
                 restarts>>

Finish(w) ==
  /\ stage' = [stage EXCEPT ![w] = "idle"]
  /\ event' = [event EXCEPT ![w] = Nothing]
  /\ found' = [found EXCEPT ![w] = {}]
  /\ id'    = [id EXCEPT ![w] = Nothing]
  /\ copy'  = [copy EXCEPT ![w] = Nothing]

-----------------------------------------------------------------------------
(* Rules and thresholds: Engine.evaluate, thresholdMet *)

(* One pass over the hits drops those before the cutoff; kept[n] is what it *)
(* has kept of the first n.                                                 *)
Kept(seq, cutoff) ==
  LET kept[n \in 0..Len(seq)] ==
        IF n = 0 THEN <<>>
        ELSE IF seq[n] >= cutoff THEN Append(kept[n - 1], seq[n])
        ELSE kept[n - 1]
  IN  kept

InWindow(seq, t, rule) == Kept(Append(seq, t), t - rule.window)[Len(seq) + 1]

LastOf(seq, n) == IF Len(seq) <= n THEN seq ELSE SubSeq(seq, Len(seq) - n + 1, Len(seq))

(* Mutants: the bound on retained hits forgotten; the window forgotten. *)
HitsUnbounded(seq, t, rule) == InWindow(seq, t, rule)
HitsForEver(seq, t, rule) == LastOf(Append(seq, t), rule.count)

(* The hits a new one at time t leaves: none older than the window counted  *)
(* back from t, and never more than the rule's count.                       *)
HitsAfter(seq, t, rule) == LastOf(InWindow(seq, t, rule), rule.count)

(* Every rule the event matches makes a finding of it, a threshold rule only *)
(* once it has its count of hits.                                           *)
Evaluate(w) ==
  LET e == event[w]
      counted == {SubjectKey(e)} \X {r \in RulesOf[e] : CountOf(r) > 0}
  IN  /\ stage[w] = "rules"
      /\ hits' = [sr \in Subjects \X Rules |->
                    IF sr \in counted
                    THEN HitsAfter(hits[sr], TimeOf[e], RuleOf[sr[2]])
                    ELSE hits[sr]]
      /\ LET made == {r \in RulesOf[e] :
                        Len(hits'[<<SubjectKey(e), r>>]) >= CountOf(r)}
         IN  \/ /\ made # {}
                /\ found' = [found EXCEPT ![w] = made]
                /\ stage' = [stage EXCEPT ![w] = "lookup"]
                /\ UNCHANGED <<event, id, copy>>
             \/ made = {} /\ Finish(w)
      /\ UNCHANGED <<disk, open, history, counts>>

-----------------------------------------------------------------------------
(* Folding findings into an incident: Engine.mergeIntoIncident *)

(* Mutant: an event a full window after the last one is too late. *)
ExpiredAtWindow(last, t) == t - last >= Window

Expired(last, t) == t - last > Window

(* Under the lock: which incident is open for the subject? *)
Lookup(w) ==
  LET s == SubjectKey(event[w]) IN
  /\ stage[w] = "lookup"
  /\ stage' = [stage EXCEPT ![w] = "load"]
  /\ id' = [id EXCEPT ![w] =
       IF open[s] = Nothing \/ Expired(open[s].lastSeen, TimeOf[event[w]])
       THEN Nothing ELSE open[s].id]
  /\ UNCHANGED <<disk, memory, event, found, copy, history, counts>>

StartIncident(w) ==
  /\ id' = [id EXCEPT ![w] = fresh]
  /\ fresh' = fresh + 1
  /\ copy' = [copy EXCEPT ![w] = [ subject  |-> SubjectKey(event[w]),
                                  findings |-> [r \in Rules |-> {}] ]]

Load(w) ==
  /\ stage[w] = "load"
  /\ stage' = [stage EXCEPT ![w] = "save"]
  /\ \/ /\ id[w] # Nothing
        /\ copy' = [copy EXCEPT ![w] = incidents[id[w]]]
        /\ UNCHANGED <<id, fresh>>
     \/ id[w] = Nothing /\ StartIncident(w)
  /\ UNCHANGED <<stored, incidents, memory, event, found, history, counts>>

(* Mutant: the new incident takes the id of the one that cannot be read. *)
LoadFailsKeepsId(w) ==
  /\ stage[w] = "load" /\ id[w] # Nothing
  /\ failures < MaxFailures
  /\ failures' = failures + 1
  /\ stage' = [stage EXCEPT ![w] = "save"]
  /\ copy' = [copy EXCEPT ![w] = [ subject  |-> SubjectKey(event[w]),
                                  findings |-> [r \in Rules |-> {}] ]]
  /\ UNCHANGED <<disk, memory, event, found, id, history, replays, restarts>>

(* An incident that cannot be read is taken for none: a new one is started. *)
LoadFails(w) ==
  /\ stage[w] = "load" /\ id[w] # Nothing
  /\ failures < MaxFailures
  /\ failures' = failures + 1
  /\ stage' = [stage EXCEPT ![w] = "save"]
  /\ StartIncident(w)
  /\ UNCHANGED <<stored, incidents, memory, event, found, history, replays,
                 restarts>>

(* Mutant: the findings of the latest event replace those on file. *)
Replaced(inc, e, rules) ==
  [inc EXCEPT !.findings = [r \in Rules |-> IF r \in rules THEN {e} ELSE {}]]

(* mergeFinding: one finding per rule, its events kept up to a bound. *)
Merged(inc, e, rules) ==
  [inc EXCEPT !.findings = [r \in Rules |->
    IF r \in rules /\ Cardinality(inc.findings[r]) < MaxFindingEvents
    THEN inc.findings[r] \union {e} ELSE inc.findings[r]]]

Write(w) ==
  incidents' = [incidents EXCEPT ![id[w]] = Merged(copy[w], event[w], found[w])]

Save(w) ==
  /\ stage[w] = "save"
  /\ stage' = [stage EXCEPT ![w] = "record"]
  /\ Write(w)
  /\ UNCHANGED <<stored, fresh, memory, event, found, id, copy, history, counts>>

(* Mutant: the incident is taken for open although it could not be saved. *)
SaveErrorDropped(w) ==
  /\ stage[w] = "save"
  /\ failures < MaxFailures
  /\ failures' = failures + 1
  /\ stage' = [stage EXCEPT ![w] = "record"]
  /\ UNCHANGED <<disk, memory, event, found, id, copy, history, replays, restarts>>

(* The response is marked degraded, and openSubjects is not told; the row   *)
(* may be there for all that, when only the answer was lost.                *)
SaveFails(w) ==
  /\ stage[w] = "save"
  /\ failures < MaxFailures
  /\ failures' = failures + 1
  /\ Write(w) \/ UNCHANGED incidents
  /\ Finish(w)
  /\ UNCHANGED <<stored, fresh, memory, history, replays, restarts>>

(* Under the lock again: the incident is open, last seen at the event's own *)
(* time; the caller and the audit trail are told of it.                     *)
Record(w) ==
  /\ stage[w] = "record"
  /\ open' = [open EXCEPT ![SubjectKey(event[w])] =
                [id |-> id[w], lastSeen |-> TimeOf[event[w]]]]
  /\ acked' = [acked EXCEPT ![event[w]] = id[w]]
  /\ Finish(w)
  /\ UNCHANGED <<disk, hits, sent, orderly, counts>>

(* The process dies: its memory and the requests in hand are gone. *)
Restart ==
  /\ restarts < MaxRestarts
  /\ restarts' = restarts + 1
  /\ open' = [s \in Subjects |-> Nothing]
  /\ hits' = [sr \in Subjects \X Rules |-> <<>>]
  /\ stage' = [w \in Workers |-> "idle"]
  /\ event' = [w \in Workers |-> Nothing]
  /\ found' = [w \in Workers |-> {}]
  /\ id' = [w \in Workers |-> Nothing]
  /\ copy' = [w \in Workers |-> Nothing]
  /\ UNCHANGED <<disk, history, replays, failures>>

Process(w) ==
  \/ Evaluate(w) \/ Lookup(w) \/ Load(w) \/ LoadFails(w)
  \/ Save(w) \/ SaveFails(w) \/ Record(w)

Next ==
  \/ \E w \in Workers : Process(w) \/ \E e \in Events : Ingest(w, e)
  \/ Restart

Spec == Init /\ [][Next]_vars

-----------------------------------------------------------------------------
(* Properties *)

OnFile == {i \in IncidentIds : incidents[i] # Nothing}

(* "Events with no attributable actor are grouped by source so they are      *)
(* never silently merged into someone else's incident" (subjectKey): all     *)
(* events of an incident share the actor, or have none and share the source, *)
(* whatever workers, restarts and failures do.                               *)
NobodyElsesIncident ==
  \A i \in OnFile : \A d, e \in EventsIn(incidents[i]) :
    /\ ActorOf[d] = ActorOf[e]
    /\ ActorOf[d] = NoActor => SourceOf[d] = SourceOf[e]

(* Ingest answers with the incident an event went to, and the audit trail    *)
(* says that incident was updated from it: what the event added is in that   *)
(* incident from then on, through every later merge, failure and restart.    *)
AckedEvidenceIsKept ==
  \A e \in Events : acked[e] # Nothing =>
    /\ incidents[acked[e]] # Nothing
    /\ {r \in RulesOf[e] : CountOf(r) = 0} \subseteq RulesFound(incidents[acked[e]])
    /\ incidents[acked[e]].subject = SubjectKey(e)

(* "Groups findings that share a subject into a single incident" (rules.go): *)
(* while the subject's events come in order and nothing fails, two incidents *)
(* of one subject are further apart than the correlation window.             *)
IncidentsAreAWindowApart ==
  restarts = 0 /\ failures = 0 =>
    \A i, j \in OnFile :
      LET s == incidents[i].subject
      IN  i < j /\ incidents[j].subject = s /\ orderly[s] =>
            \A d \in EventsIn(incidents[i]) : \A e \in EventsIn(incidents[j]) :
              TimeOf[e] - TimeOf[d] > Window

(* openSubjects never runs ahead of the store: the incident it names is on   *)
(* file, is the subject's own, and holds the event it was last seen with     *)
(* under one of that event's rules, or found that rule's finding full.       *)
OpenIncidentIsOnFile ==
  \A s \in Subjects : open[s] # Nothing =>
    LET inc == incidents[open[s].id]
    IN  /\ inc # Nothing
        /\ inc.subject = s
        /\ \E e \in stored : \E r \in RulesOf[e] :
             /\ SubjectKey(e) = s /\ TimeOf[e] = open[s].lastSeen
             /\ \/ e \in inc.findings[r]
                \/ Cardinality(inc.findings[r]) = MaxFindingEvents

Backed(s, r) ==
  \E E \in SUBSET {e \in stored : SubjectKey(e) = s /\ r \in RulesOf[e]} :
    /\ Cardinality(E) >= CountOf(r)
    /\ \A d, e \in E : TimeOf[d] - TimeOf[e] <= RuleOf[r].window

(* "The finding is emitted only once Count matching events have been seen    *)
(* for the same subject inside Window" (Threshold), for a subject whose      *)
(* events were sent in order and once each.                                  *)
ThresholdIsEarned ==
  \A i \in OnFile : orderly[incidents[i].subject] =>
    \A r \in RulesFound(incidents[i]) : Backed(incidents[i].subject, r)

(* The same sentence, for every subject.                                     *)
ThresholdIsAlwaysEarned ==
  \A i \in OnFile : \A r \in RulesFound(incidents[i]) :
    Backed(incidents[i].subject, r)

(* "Monotonicity - adding evidence to an incident never lowers its risk      *)
(* score" (internal/risk/score.go): the score is computed from an incident's *)
(* findings, so no step takes a finding away from an incident on file.       *)
EvidenceOnlyGrows ==
  [][\A i \in OnFile : RulesFound(incidents[i]) \subseteq RulesFound(incidents'[i])]_vars

OnRecord(inc) == [subject |-> inc.subject, rules |-> RulesFound(inc)]

(* The engine's promise to its callers, implemented.                         *)
Promise ==
  INSTANCE IncidentLedger WITH
    Ids       <- IncidentIds,
    SubjectOf <- [e \in Events |-> SubjectKey(e)],
    Matched   <- RulesOf,
    Certain   <- [e \in Events |-> {r \in RulesOf[e] : CountOf(r) = 0}],
    filed     <- stored,
    incident  <- [i \in OnFile |-> OnRecord(incidents[i])],
    told      <- acked

(* "The engine groups findings that share a subject into a single incident"  *)
(* and Ingest answers with its id: however requests, failed calls and        *)
(* restarts interleave, each step files one event, folds one event's         *)
(* findings into one incident of its subject, or tells of an incident that   *)
(* holds them.                                                              *)
PromiseIsKept == Promise!Spec
=============================================================================

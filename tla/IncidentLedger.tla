--------------------------- MODULE IncidentLedger ---------------------------
(***************************************************************************)
(* What the correlation engine promises to whoever hands it events         *)
(* (Engine.Process, internal/correlation/engine.go): an incident is about  *)
(* one subject and changes only by folding in the findings of one event of *)
(* that subject that is on file; nothing is taken out of it again; and a   *)
(* caller is told only of an incident that holds its event's findings.     *)
(* Which incident an event goes to, which threshold it meets, and whether  *)
(* it is correlated at all is not promised.                                *)
(***************************************************************************)
CONSTANTS
  Events,
  Ids,        \* incident ids
  SubjectOf,  \* whom an event is about
  Matched,    \* the rules an event matches
  Certain,    \* those of them that no threshold holds back
  Nothing     \* nobody has been told

VARIABLES
  filed,      \* the events on file
  incident,   \* per id on file, a subject and the rules there are findings of
  told        \* per event, the incident its caller was told of last

ledger == <<filed, incident, told>>

Init ==
  /\ filed = {}
  /\ incident = [i \in {} |-> {}]
  /\ told = [e \in Events |-> Nothing]

File(e) ==
  /\ filed' = filed \union {e}
  /\ UNCHANGED <<incident, told>>

RulesIn(i) == IF i \in DOMAIN incident THEN incident[i].rules ELSE {}

(* The findings of e, all of the certain ones among them, become part of i. *)
Fold(e, i, rules) ==
  /\ e \in filed
  /\ rules # {} /\ Certain[e] \subseteq rules
  /\ i \in DOMAIN incident => incident[i].subject = SubjectOf[e]
  /\ incident' = [j \in DOMAIN incident \union {i} |->
                    IF j = i THEN [subject |-> SubjectOf[e],
                                   rules   |-> RulesIn(i) \union rules]
                    ELSE incident[j]]
  /\ UNCHANGED <<filed, told>>

Tell(e, i) ==
  /\ i \in DOMAIN incident
  /\ incident[i].subject = SubjectOf[e]
  /\ Certain[e] \subseteq incident[i].rules
  /\ told' = [told EXCEPT ![e] = i]
  /\ UNCHANGED <<filed, incident>>

Next ==
  \E e \in Events :
    \/ File(e)
    \/ \E i \in Ids : Tell(e, i) \/ \E rules \in SUBSET Matched[e] : Fold(e, i, rules)

Spec == Init /\ [][Next]_ledger
=============================================================================

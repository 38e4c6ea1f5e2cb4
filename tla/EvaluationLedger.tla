-------------------------- MODULE EvaluationLedger --------------------------
(***************************************************************************)
(* What the store promises about evaluations (SaveActionWithAudit and the  *)
(* append-only audit sink): the response action and the audit entries that *)
(* describe it become durable together, at most once, and never change or  *)
(* disappear.  Whether an evaluation is recorded at all is not promised.   *)
(***************************************************************************)
CONSTANTS
  Evaluations,  \* response action ids
  Units,        \* what one evaluation may leave: an action with its entries
  Nothing       \* nothing has been recorded

VARIABLE recorded

TypeOK == recorded \in [Evaluations -> Units \union {Nothing}]

Init == recorded = [e \in Evaluations |-> Nothing]

Record(e) ==
  /\ recorded[e] = Nothing
  /\ recorded'[e] \in Units
  /\ recorded' = [recorded EXCEPT ![e] = recorded'[e]]

Next == \E e \in Evaluations : Record(e)

Spec == Init /\ [][Next]_recorded
=============================================================================

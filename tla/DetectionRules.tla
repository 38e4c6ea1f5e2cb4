--------------------------- MODULE DetectionRules ---------------------------
(***************************************************************************)
(* Declarative detection rules (internal/correlation/rules.go): what a     *)
(* rule pack must be to load, and when a rule matches an event.            *)
(*                                                                         *)
(* The fields of an event a rule can read are a function from field names  *)
(* to texts, without those the event does not carry.  An operator of a     *)
(* condition that is not used is "" or the empty set, as in the code.      *)
(* Comparison ignores case in the code, and so do the texts here.          *)
(***************************************************************************)
EXTENDS Integers, FiniteSets

(* The closed set of fields; an event may carry labels besides.            *)
AllowedFields ==
  { "event_type", "category", "severity", "source_type", "source_name",
    "actor.type", "actor.domain", "actor.privileged",
    "target.type", "target.criticality",
    "device.os", "device.managed", "device.compliant",
    "network.first_seen_for_actor", "network.country",
    "cloud.provider", "cloud.resource_type" }

CONSTANT LabelFields  \* the fields "labels.<key>" with a key and no blank in it

ValidField(f) == f \in AllowedFields \union LabelFields

Present(fields, f) == ValidField(f) /\ f \in DOMAIN fields

(* The operators a condition uses, in the order in which eval looks.       *)
Operators(c) ==
  {op \in {"exists", "equals", "not_equals", "in"} :
     \/ op = "exists"     /\ c.exists # ""
     \/ op = "equals"     /\ c.equals # ""
     \/ op = "not_equals" /\ c.not_equals # ""
     \/ op = "in"         /\ c.in # {}}

(* An absent field satisfies "not equals" and "does not exist", and nothing *)
(* else; a condition without an operator fails closed.                      *)
Eval(c, fields) ==
  LET present == Present(fields, c.field) IN
  IF c.exists # "" THEN present <=> c.exists = "true"
  ELSE IF c.equals # "" THEN present /\ fields[c.field] = c.equals
  ELSE IF c.not_equals # "" THEN present => fields[c.field] # c.not_equals
  ELSE present /\ fields[c.field] \in c.in

Matches(rule, fields) ==
  /\ rule.event_type # {} =>
       Present(fields, "event_type") /\ fields["event_type"] \in rule.event_type
  /\ \A c \in rule.conditions : Eval(c, fields)

(* Rule.validate.  A threshold of 0 stands for none.                       *)
ValidCondition(c) == ValidField(c.field) /\ Cardinality(Operators(c)) = 1

ValidRule(rule) ==
  /\ rule.event_type # {} \/ rule.conditions # {}
  /\ \A c \in rule.conditions : ValidCondition(c)
  /\ rule.count # 0 => rule.count >= 2 /\ rule.window > 0
==============================================================================

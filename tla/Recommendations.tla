-------------------------- MODULE Recommendations ---------------------------
(***************************************************************************)
(* What the correlation engine proposes for an incident, and on which      *)
(* entity (internal/correlation/recommend.go), over the criticality the    *)
(* Security Graph gives each entity (internal/graph).                      *)
(*                                                                         *)
(* An incident is a record                                                 *)
(*   categories : the evidence categories of its findings                  *)
(*   risk       : its risk score                                           *)
(*   crit       : the criticality stored with each of its entities,        *)
(*                "absent" for an entity it does not touch                 *)
(* Its stored recommendations are computed from the first and the last by  *)
(* the recompute that stores it, so they are derived here.                 *)
(***************************************************************************)
EXTENDS PolicyKernel, Sequences

CONSTANTS
  Entities,   \* entity ids, numbered in the order sort.Strings gives them
  TypeOf      \* the entity type each id carries

NoEntity == 0

Levels == {"low", "medium", "high", "critical"}

Criticalities == [Entities -> Levels \union {"absent"}]

EntityTypes == { "identity", "account", "session", "endpoint", "ip_address",
                 "application", "secret", "cloud_resource", "repository",
                 "service" }

Categories == { "authentication", "session_anomaly", "privilege_escalation",
                "credential_access", "cloud_access", "data_access",
                "process_execution", "network_activity",
                "configuration_change" }

ASSUME EntitiesAreNumbered ==
  /\ Entities \subseteq Nat \ {NoEntity}
  /\ TypeOf \in [Entities -> EntityTypes]

Incidents == [categories : SUBSET Categories, risk : 0..100, crit : Criticalities]

(* Criticality.Rank; anything unclassified ranks as medium. *)
Rank(level) ==
  CASE level = "critical" -> 3 [] level = "high" -> 2 [] level = "low" -> 0
    [] OTHER -> 1

Present(crit) == {e \in Entities : crit[e] # "absent"}

(* Of the candidates, the most critical, the smallest id among equals: the  *)
(* one both selection loops of the code end with.                           *)
MostCritical(candidates, crit) ==
  CHOOSE e \in candidates :
    \A f \in candidates : \/ Rank(crit[f]) < Rank(crit[e])
                          \/ Rank(crit[f]) = Rank(crit[e]) /\ e <= f

-----------------------------------------------------------------------------
CategoryAction ==
  [ authentication       |-> "require_mfa",
    session_anomaly      |-> "revoke_sessions",
    privilege_escalation |-> "temporarily_suspend_privileges",
    credential_access    |-> "rotate_exposed_secret",
    cloud_access         |-> "preserve_evidence",
    data_access          |-> "preserve_evidence",
    process_execution    |-> "isolate_endpoint",
    network_activity     |-> "isolate_endpoint",
    configuration_change |-> "preserve_evidence" ]

(* The entity types an action acts upon, in order of preference. *)
TargetTypes(type) ==
  CASE type \in { "require_mfa", "revoke_sessions",
                  "temporarily_suspend_privileges", "preserve_evidence" }
                                        -> <<"identity", "account">>
    [] type = "isolate_endpoint"        -> <<"endpoint">>
    [] type = "rotate_exposed_secret"   -> <<"secret">>
    [] OTHER                            -> <<>>

EntitiesOfType(crit, type) == {e \in Present(crit) : TypeOf[e] = type}

(* recommendActions: evidence is always preserved, each category asks for   *)
(* its containment step, and an endpoint in scope for its isolation.        *)
Recommended(inc) ==
  {"preserve_evidence"}
    \union {CategoryAction[c] : c \in inc.categories}
    \union {a \in {"isolate_endpoint"} : EntitiesOfType(inc.crit, "endpoint") # {}}

(* resolveTarget: the most critical entity of the first preferred type that *)
(* the incident touches.                                                    *)
RecommendedTarget(type, inc) ==
  LET Candidates(i) == EntitiesOfType(inc.crit, TargetTypes(type)[i])
      Matching == {i \in DOMAIN TargetTypes(type) : Candidates(i) # {}}
  IN  IF Matching = {} THEN NoEntity
      ELSE LET first == CHOOSE i \in Matching : \A j \in Matching : i <= j
           IN  MostCritical(Candidates(first), inc.crit)
=============================================================================

--------------------------- MODULE MCSecurityGraph ---------------------------
(* Two identities that share an address, one of which reaches a secret that *)
(* unlocks the database the inventory declares: the database is four hops   *)
(* from the other one, one more than the walk goes.                         *)
EXTENDS SecurityGraph, TLC

(* In the order of the code's ids: account: < endpoint: < identity: < ...   *)
Db == 1
Host == 2
Alice == 3
Bob == 4
Ip == 5
Vault == 6

Says(category, actor) ==
  [ category |-> category, actor |-> actor, privileged |-> FALSE, denied |-> FALSE,
    ip |-> NoEntity, device |-> NoEntity, session |-> NoEntity,
    target |-> NoEntity, criticality |-> Medium, cloud |-> NoEntity ]

MCTelemetry ==
  [ login  |-> [Says("authentication", Alice) EXCEPT !.ip = Ip],
    again  |-> [Says("authentication", Alice) EXCEPT !.ip = Ip, !.device = Host],
    grant  |-> [Says("privilege_escalation", Alice)
                  EXCEPT !.privileged = TRUE, !.target = Alice, !.criticality = Low],
    shared |-> [Says("authentication", Bob) EXCEPT !.ip = Ip],
    steal  |-> [Says("credential_access", Bob)
                  EXCEPT !.denied = TRUE, !.target = Vault, !.criticality = Critical] ]

MCFindingOf ==
  [ login |-> "new_location", again |-> "new_location", grant |-> "role_change",
    shared |-> Nothing, steal |-> "secret_access" ]

Rule(c, s, n) == [category |-> c, severity |-> s, confidence |-> n]

MCRules ==
  [ new_location  |-> Rule("authentication", "medium", 55),
    role_change   |-> Rule("privilege_escalation", "high", 75),
    secret_access |-> Rule("credential_access", "high", 80) ]

MCEvents == DOMAIN MCTelemetry
MCAssets == (Vault :> High) @@ (Db :> Critical)
MCAssetEdges == {[from |-> Vault, to |-> Db, rel |-> "grants_access_to"]}
==============================================================================

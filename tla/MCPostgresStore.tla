-------------------------- MODULE MCPostgresStore ---------------------------
(* Three calls over a pool of two connections: an action with its two       *)
(* entries, a refusal that has one and no action, and a lone entry.         *)
EXTENDS PostgresStore, TLC

CONSTANTS judged, refused, alone

MCEntriesOf == (judged :> 2) @@ (refused :> 1) @@ (alone :> 1)
=============================================================================

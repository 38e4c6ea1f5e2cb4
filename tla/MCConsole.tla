------------------------------ MODULE MCConsole ------------------------------
(* Two browsers and two addresses, an administrator whom a deployment makes *)
(* an analyst, and an agent that writes to the API too.                     *)
EXTENDS Console, TLC

MCRolesOf == [ann |-> <<"admin", "analyst">>]
MCAccounts == DOMAIN MCRolesOf

Alike == Permutations(Browsers) \union Permutations(Keys)
==============================================================================

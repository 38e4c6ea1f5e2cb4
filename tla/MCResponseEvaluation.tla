------------------------ MODULE MCResponseEvaluation ------------------------
(* A small instance of ResponseEvaluation: an identity and an endpoint, one *)
(* incident, and the requests that tell the rules of the policy apart.      *)
EXTENDS ResponseEvaluation, TLC

Alice  == 1
Laptop == 2

MCTypeOf    == (Alice :> "identity") @@ (Laptop :> "endpoint")
MCInventory == (Alice :> "high") @@ (Laptop :> "absent")

MCSightings == {<<Alice, "critical">>, <<Laptop, "medium">>}

(* One kind of evidence above the automation threshold, two kinds below it, *)
(* two kinds above it.                                                      *)
SignIns == [categories |-> {"authentication"}, risk |-> 45, touched |-> {Alice}]

WeakPair ==
  [ categories |-> {"authentication", "process_execution"}, risk |-> 30,
    touched |-> {Alice, Laptop} ]

StrongPair == [WeakPair EXCEPT !.risk = 75]

MCReports == {SignIns, WeakPair, StrongPair}

By(operator, automated, type, mode, inc) ==
  [ type |-> type, mode |-> mode, incident |-> inc, operator |-> operator,
    automated |-> automated ]

Human(type, mode) == By("alice", FALSE, type, mode, "stored")
Machine(type)     == By(NoOperator, TRUE, type, "", "stored")

MCAsks ==
  { Human("require_mfa", "simulate"),            \* recommended after sign-ins
    Human("temporarily_suspend_privileges", ""), \* never recommended here
    Human("isolate_endpoint", "execute"),
    Human("revoke_sessions", "simulate"),        \* irreversible
    Human("wipe_endpoint", "simulate"),          \* destructive
    Human("unlisted", "simulate"),
    Human("require_mfa", "unlisted"),
    By("alice", TRUE, "isolate_endpoint", "simulate", "stored"),
    By("alice", FALSE, "require_mfa", "", "other"),
    Machine("isolate_endpoint") }

(* The requests whose target is what the two criticality claims are about. *)
MCTargetedAsks == { Human("require_mfa", "simulate"),
                    Human("temporarily_suspend_privileges", "") }
=============================================================================

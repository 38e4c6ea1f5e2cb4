----------------------------- MODULE MCLifecycle -----------------------------
(* A deployment on PostgreSQL that seeds itself; one that does not and has  *)
(* the remote kernel; one on the in-memory store, which is what an          *)
(* unparsable GRIEFER_STORAGE_POSTGRES makes of the first; and some that    *)
(* must not run.                                                            *)
EXTENDS Lifecycle, TLC

Unset == [s \in Settings |-> ""]
Everywhere == ("PORT" :> "8080") @@ ("INTERNAL_API_TOKEN" :> "secret") @@ Unset
Deployed == ("GRIEFER_STORAGE_POSTGRES" :> "true") @@ ("DATABASE_URL" :> "db") @@ Everywhere

Demo == ("SEED_SYNTHETIC_DEMO" :> "true") @@ Deployed

MCEnvironments ==
  [ demo     |-> Demo,
    plain    |-> ("OPA_URL" :> "opa") @@ Deployed,
    mistyped |-> ("GRIEFER_STORAGE_POSTGRES" :> "yes") @@ Demo,
    \* refused, by one condition of Validate each
    open      |-> ("INTERNAL_API_TOKEN" :> "") @@ Demo,
    unsure    |-> ("GRIEFER_HTTP_ADDR" :> "everywhere")
                    @@ ("GRIEFER_ALLOW_PUBLIC_BIND" :> "yes") @@ Unset,
    executing |-> ("RESPONSE_MODE" :> "execute") @@ Demo,
    real      |-> ("ALLOW_REAL_ACTIONS" :> "true") @@ Demo,
    failOpen  |-> ("GRIEFER_OPA_FAIL_CLOSED" :> "false") @@ Demo,
    graceless |-> ("GRIEFER_SHUTDOWN_TIMEOUT" :> "nonpositive") @@ Demo,
    nowhere   |-> ("GRIEFER_STORAGE_POSTGRES" :> "true") @@ Everywhere,
    mute      |-> ("GRIEFER_NATS_ENABLED" :> "true") @@ ("NATS_USER" :> "api") @@ Demo ]
==============================================================================

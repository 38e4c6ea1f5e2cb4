--------------------------- MODULE Configuration ----------------------------
(***************************************************************************)
(* What the API process makes of its environment                           *)
(* (internal/config/config.go): Load resolves each setting to a value or   *)
(* its default, Validate refuses what must not run.                        *)
(*                                                                         *)
(* A setting's text is abstracted to what Load and Validate tell apart:    *)
(* "" stands for unset or blank; a flag is "true", "false" or anything     *)
(* else, an amount "positive", "nonpositive" or anything else; an address  *)
(* is "loopback", "everywhere" (any host others can reach) or              *)
(* "malformed".  Where the code ignores case, so does the abstraction.     *)
(***************************************************************************)
EXTENDS Integers

(* The amounts Validate wants to be positive; every default is.            *)
Amounts ==
  { "GRIEFER_MAX_REQUEST_BYTES", "GRIEFER_MAX_BATCH_EVENTS",
    "GRIEFER_RATE_LIMIT_RPS", "GRIEFER_RATE_LIMIT_BURST",
    "GRIEFER_READ_TIMEOUT", "GRIEFER_WRITE_TIMEOUT", "GRIEFER_IDLE_TIMEOUT",
    "GRIEFER_SHUTDOWN_TIMEOUT", "GRIEFER_OPA_TIMEOUT" }

(* What can be told of an address. *)
Addresses == {"", "loopback", "everywhere", "malformed"}

Settings ==
  Amounts \union
  { "GRIEFER_HTTP_ADDR", "PORT", "GRIEFER_ALLOW_PUBLIC_BIND",
    "INTERNAL_API_TOKEN", "GRIEFER_INTERNAL_API_TOKEN",
    "GRIEFER_STORAGE_POSTGRES", "DATABASE_URL", "GRIEFER_POSTGRES_DSN",
    "GRIEFER_NATS_ENABLED", "NATS_URL", "GRIEFER_NATS_URL",
    "NATS_USER", "GRIEFER_NATS_USER", "NATS_PASSWORD", "GRIEFER_NATS_PASSWORD",
    "OPA_URL", "GRIEFER_OPA_URL", "GRIEFER_OPA_FAIL_CLOSED",
    "RESPONSE_MODE", "GRIEFER_RESPONSE_MODE", "ALLOW_REAL_ACTIONS",
    "SEED_SYNTHETIC_DEMO", "GRIEFER_LOG_FORMAT", "GRIEFER_LOG_LEVEL" }

(* envFirst, envString: the first of two names that is set, or a default.  *)
First(e, platform, own, fallback) ==
  IF e[platform] # "" THEN e[platform] ELSE IF e[own] # "" THEN e[own] ELSE fallback

Text(e, name, fallback) == IF e[name] # "" THEN e[name] ELSE fallback

(* envBool: what does not parse counts as not set.                         *)
Flag(e, name, fallback) ==
  IF e[name] \in {"true", "false"} THEN e[name] = "true" ELSE fallback

(* envInt, envFloat, envDuration: what does not parse counts as not set.   *)
Positive(e, name) == e[name] # "nonpositive"

(* An explicit address wins; a port the platform injected binds every      *)
(* interface; failing both, loopback.                                      *)
ListenAddr(e) ==
  IF e["GRIEFER_HTTP_ADDR"] # "" THEN e["GRIEFER_HTTP_ADDR"]
  ELSE CASE e["PORT"] = ""          -> "loopback"
         [] e["PORT"] = "malformed" -> "malformed"
         [] OTHER                   -> "everywhere"

IsPublicBind(addr) == addr = "everywhere"

NormalizeResponseMode(mode) == IF mode = "simulation" THEN "simulate" ELSE mode

Load(e) ==
  [ addr            |-> ListenAddr(e),
    allowPublicBind |-> Flag(e, "GRIEFER_ALLOW_PUBLIC_BIND", FALSE),
    token           |-> First(e, "INTERNAL_API_TOKEN", "GRIEFER_INTERNAL_API_TOKEN", ""),
    positive        |-> {a \in Amounts : Positive(e, a)},
    postgres        |-> Flag(e, "GRIEFER_STORAGE_POSTGRES", FALSE),
    dsn             |-> First(e, "DATABASE_URL", "GRIEFER_POSTGRES_DSN", ""),
    nats            |-> Flag(e, "GRIEFER_NATS_ENABLED", FALSE),
    natsURL         |-> First(e, "NATS_URL", "GRIEFER_NATS_URL", "localhost"),
    natsUser        |-> First(e, "NATS_USER", "GRIEFER_NATS_USER", ""),
    natsPassword    |-> First(e, "NATS_PASSWORD", "GRIEFER_NATS_PASSWORD", ""),
    opaURL          |-> First(e, "OPA_URL", "GRIEFER_OPA_URL", ""),
    failClosed      |-> Flag(e, "GRIEFER_OPA_FAIL_CLOSED", TRUE),
    mode            |-> NormalizeResponseMode(
                          First(e, "RESPONSE_MODE", "GRIEFER_RESPONSE_MODE", "simulate")),
    realActions     |-> Flag(e, "ALLOW_REAL_ACTIONS", FALSE),
    seed            |-> Flag(e, "SEED_SYNTHETIC_DEMO", FALSE),
    logFormat       |-> Text(e, "GRIEFER_LOG_FORMAT", "json"),
    logLevel        |-> Text(e, "GRIEFER_LOG_LEVEL", "info") ]

(* A listener others can reach needs a credential, or an operator who says *)
(* in so many words that it has none.                                      *)
ValidateBind(c) ==
  /\ c.addr # "malformed"
  /\ IsPublicBind(c.addr) => c.token # "" \/ c.allowPublicBind

Validate(c) ==
  /\ ValidateBind(c)
  /\ c.positive = Amounts
  /\ c.postgres => c.dsn # ""
  /\ c.failClosed
  /\ c.nats => c.natsURL # "" /\ (c.natsUser # "" => c.natsPassword # "")
  /\ ~c.realActions
  /\ c.mode = "simulate"
  /\ c.logFormat \in {"json", "text"}
  /\ c.logLevel \in {"debug", "info", "warn", "error"}
==============================================================================

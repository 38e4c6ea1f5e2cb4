---------------------------- MODULE PolicyKernel ----------------------------
(***************************************************************************)
(* The Policy Kernel as pure operators: the action catalog                 *)
(* (internal/incidents), the response policy (griefer/response.rego), what *)
(* a kernel implementation makes of a policy document or of its absence    *)
(* (internal/policy), and how a verdict becomes an action status           *)
(* (internal/api).  Nothing here has state; ResponseEvaluation runs it.    *)
(***************************************************************************)
EXTENDS Naturals

-----------------------------------------------------------------------------
(* The action catalog *)

(* Actions the catalog declares reversible, each with its rollback action. *)
RollbackAction ==
  [ preserve_evidence              |-> "release_evidence_hold",
    require_mfa                    |-> "remove_mfa_requirement",
    temporarily_suspend_privileges |-> "restore_privileges",
    isolate_endpoint               |-> "release_endpoint_isolation" ]

Reversible   == DOMAIN RollbackAction
Irreversible == {"revoke_sessions", "rotate_exposed_secret"}
Destructive  == {"delete_identity", "wipe_endpoint", "purge_audit_records"}
Isolation    == {"isolate_endpoint", "revoke_sessions"}

(* incidents.Lookup knows exactly these types. *)
ActionTypes == Reversible \union Irreversible \union Destructive

Modes == {"simulate", "execute"}

-----------------------------------------------------------------------------
(* The policy: griefer.response *)

OneCategory == 1  \* mutant: a single signal counts as corroboration

MinEvidenceCategories == 2
MinAutomatedRiskScore == 40

(* What the service resolves about an action before it asks: policy.Input. *)
PolicyInput(type, mode, critical, evidence, risk, automated) ==
  [ known       |-> type \in ActionTypes,
    mode        |-> mode,
    destructive |-> type \in Destructive,
    reversible  |-> type \in Reversible,
    rollback    |-> type \in DOMAIN RollbackAction,
    isolation   |-> type \in Isolation,
    critical    |-> critical,
    categories  |-> evidence,   \* the number of distinct evidence categories
    risk        |-> risk,
    automated   |-> automated ]

(* Each rule of the policy contributes its reason when its body holds. *)
DenyRules(in) ==
  [ destructive  |-> in.destructive,
    unknown      |-> ~in.known,
    unknown_mode |-> in.mode \notin Modes ]

ApprovalRules(in) ==
  LET uncorroborated == in.automated /\ in.categories < MinEvidenceCategories IN
  [ irreversible   |-> ~in.reversible,
    no_rollback    |-> in.reversible /\ ~in.rollback,
    critical_asset |-> in.critical,
    uncorroborated |-> uncorroborated,
    weak_isolation |-> in.isolation /\ uncorroborated,
    low_risk       |-> in.automated /\ in.risk < MinAutomatedRiskScore,
    execute        |-> in.mode = "execute" ]

Denied(in)        == \E rule \in DOMAIN DenyRules(in) : DenyRules(in)[rule]
NeedsApproval(in) == \E rule \in DOMAIN ApprovalRules(in) : ApprovalRules(in)[rule]

Effect(in) ==
  IF Denied(in) THEN "deny"
  ELSE IF NeedsApproval(in) THEN "require_approval" ELSE "allow"

-----------------------------------------------------------------------------
(* A kernel: embedded OPA, or a remote one behind a timeout *)

Effects == {"allow", "deny", "require_approval"}

(* The decision document the response policy publishes for an input. *)
GrieferDocument(in) ==
  [ effect |-> Effect(in), allow |-> Effect(in) = "allow", reasoned |-> TRUE ]

(* The documents some other bundle, loaded in its place, may publish. *)
AnyDocument ==
  [ effect : Effects \union {"proceed"}, allow : BOOLEAN, reasoned : BOOLEAN ]

(* What the engine publishes with GRIEFER's bundle, with a foreign one, and *)
(* when it hangs or is gone.                                                *)
Bundles == {"griefer", "foreign", "none"}

Documents(bundle, in) ==
  CASE bundle = "griefer" -> {GrieferDocument(in)}
    [] bundle = "foreign" -> AnyDocument
    [] bundle = "none"    -> {}

(* toDecision accepts a document only when it is a verdict that agrees with *)
(* itself and gives a reason.                                               *)
WellFormed(doc) ==
  /\ doc.effect \in Effects
  /\ doc.allow <=> doc.effect = "allow"
  /\ doc.reasoned

(* Mutant: an unreachable kernel leaves the decision to an operator. *)
FailToOperator(error) ==
  [effect |-> "require_approval", failClosed |-> TRUE, error |-> error]

FailClosed(error) == [effect |-> "deny", failClosed |-> TRUE, error |-> error]

Decided(doc) ==
  IF WellFormed(doc)
  THEN [effect |-> doc.effect, failClosed |-> FALSE, error |-> "none"]
  ELSE FailClosed("unavailable")

(* Mutant: no timeout and no error path, the call waits for a verdict. *)
VerdictsOnly(bundle, in) == {Decided(doc) : doc \in Documents(bundle, in)}

(* Kernel.Evaluate answers with the document's verdict, with a fail-closed  *)
(* deny when the engine is down, refuses, or sends something undecodable,   *)
(* and with a fail-closed deny when its timeout passes first.               *)
KernelAnswers(bundle, in) ==
  {Decided(doc) : doc \in Documents(bundle, in)}
    \union {FailClosed(error) : error \in {"timeout", "unavailable"}}

Decisions ==
  [ effect : Effects, failClosed : BOOLEAN,
    error : {"none", "timeout", "unavailable"} ]

-----------------------------------------------------------------------------
(* From verdict to action status: applyDecision and evaluationResult *)

Statuses == {"simulated", "requires_approval", "denied", "rejected"}

(* Mutant: the hard stop left out, an allow is carried out in any mode. *)
StatusWithoutHardStop(mode, effect) ==
  CASE effect = "allow"            -> "simulated"
    [] effect = "require_approval" -> "requires_approval"
    [] OTHER                       -> "denied"

(* Only mode "simulate" ever leads to an effect, whatever the policy says. *)
StatusFor(mode, effect) ==
  CASE effect = "require_approval"              -> "requires_approval"
    [] effect = "allow" /\ mode # "simulate"    -> "requires_approval"
    [] effect = "allow" /\ mode = "simulate"    -> "simulated"
    [] OTHER                                    -> "denied"

ResultFor(status, decision) ==
  CASE decision.error = "timeout"      -> "policy_timeout"
    [] decision.error = "unavailable"  -> "policy_unavailable"
    [] OTHER -> CASE status = "simulated"         -> "allowed"
                  [] status = "requires_approval" -> "requires_approval"
                  [] OTHER                        -> "denied"

Results ==
  { "allowed", "requires_approval", "denied", "policy_timeout",
    "policy_unavailable", "invalid_action", "validation_failed",
    "internal_error" }

(* auditActionFor and auditOutcomeFor *)
AuditActionFor(status) ==
  CASE status = "simulated"         -> "response.simulated"
    [] status = "requires_approval" -> "response.requires_approval"
    [] status = "rejected"          -> "response.rejected"
    [] OTHER                        -> "response.denied"

AuditOutcomeFor(effect) ==
  CASE effect = "allow"            -> "success"
    [] effect = "require_approval" -> "pending"
    [] OTHER                       -> "denied"
=============================================================================

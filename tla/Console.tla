------------------------------ MODULE Console -------------------------------
(***************************************************************************)
(* The console's server: signing in (app/api/auth/login with the attempt   *)
(* limiter of lib/ratelimit.ts), sessions (lib/session.ts, middleware.ts)  *)
(* and the gateway to the API (app/api/griefer), over the API's own rate   *)
(* limiter and role check.                                                 *)
(*                                                                         *)
(* A handler runs until it awaits: signing in awaits the password hash     *)
(* between the check of the block and the count of the failure; a gateway  *)
(* call awaits its body, its session twice and the API, while time passes  *)
(* and the console may be deployed anew.  Requests carry the cookie they   *)
(* were sent with.                                                         *)
(***************************************************************************)
EXTENDS RateLimiter, Sequences

CONSTANTS
  Browsers,
  Keys,            \* clientKey: the addresses browsers sign in from
  Accounts,
  Roles,           \* "admin", "analyst"
  RolesOf,         \* the roles configuration gives each account in turn
  ConsoleClient,   \* the one address the API sees every gateway call from
  MaxFailed,       \* MAX_ATTEMPTS
  Window,          \* WINDOW_MS
  Block,           \* BLOCK_MS
  MaxTracked,      \* MAX_TRACKED
  SessionTtl,      \* SESSION_TTL_SECONDS
  UpstreamTimeout, \* UPSTREAM_TIMEOUT_MS
  MaxRequests,     \* bound: attempts to sign in, gateway calls, other clients' calls
  MaxDeploys,      \* bound: deployments of the console
  Nothing

Paths == {"evaluate", "audit"}

ASSUME ConsoleBounds ==
  /\ ConsoleClient \in Clients
  /\ MaxFailed \in Nat \ {0, 1} /\ {Window, Block, MaxTracked, SessionTtl} \subseteq Nat
  /\ UpstreamTimeout \in Nat
  /\ MaxRequests \in Nat /\ MaxDeploys \in Nat
  /\ IsFiniteSet(Browsers)

(* Both are a quarter of an hour. *)
ASSUME BlockOutlastsWindow == Window > 0 /\ Window <= Block

ASSUME RolesAreConfigured ==
  \A a \in Accounts, i \in 1..MaxDeploys + 1 : RolesOf[a][i] \in Roles

ASSUME NothingIsNone == Nothing \notin [count : Nat, firstAt : Nat, blockedUntil : Nat]

VARIABLES
  deploys,   \* deployments so far: which configuration is in force
  attempts,  \* lib/ratelimit.ts: per key, [count, firstAt, blockedUntil]
  cookie,    \* per browser: its session token, [sub, role, exp]
  stage,     \* per browser: the request it waits for
  form,      \* per browser: [key, sub, right], the form it sent
  call,      \* per browser: its gateway call, [n, path, token, at]
  wire,      \* calls the gateway sent and answers to them, [n, path, actor, role,
             \* at, reply]: at is when the call, or its answer, left
  ledger,    \* durable, at the API: the calls it did, in order, [n, path, actor,
             \* role, sent, at]: when the gateway sent it, and when it was done
  answers,   \* history: what each gateway call was answered
  failed,    \* history: when a key failed since it last succeeded
  uncounted, \* history: keys of which a failure was not counted
  held,      \* history: when an account last held a role, or -1
  requests

access  == <<attempts, cookie, form, failed, uncounted>>
gateway == <<call, wire, ledger, answers>>
console == <<deploys, held, stage, access, gateway, requests>>
vars    == <<limiter, console>>

RoleNow(a) == RolesOf[a][deploys + 1]

Calls == 1..MaxRequests

Made == {n \in Calls : answers[n] # "unmade"}

TypeOK ==
  /\ LimiterTypeOK
  /\ deploys \in 0..MaxDeploys
  /\ \A k \in Keys : attempts[k] # Nothing =>
       attempts[k].count \in 0..MaxFailed - 1 /\ attempts[k].firstAt \in 0..now
  /\ Cardinality({k \in Keys : attempts[k] # Nothing}) <= MaxTracked
  /\ \A b \in Browsers : cookie[b] # Nothing =>
       /\ cookie[b].sub \in Accounts /\ cookie[b].role \in Roles
       /\ cookie[b].exp <= now + SessionTtl
  /\ stage \in [Browsers -> {"idle", "hashing", "admitted", "attributed", "sent"}]
  /\ Cardinality({r.n : r \in wire}) = Cardinality(wire)
  /\ answers \in [Calls -> {"unmade", "open", "lost",
       "done", "malformed", "forbidden", "throttled", "unavailable"}]

Init ==
  /\ LimiterInit
  /\ deploys = 0
  /\ attempts = [k \in Keys |-> Nothing]
  /\ cookie = [b \in Browsers |-> Nothing]
  /\ stage = [b \in Browsers |-> "idle"]
  /\ form = [b \in Browsers |-> Nothing]
  /\ call = [b \in Browsers |-> Nothing]
  /\ wire = {} /\ ledger = <<>>
  /\ answers = [n \in Calls |-> "unmade"]
  /\ failed = [k \in Keys |-> <<>>]
  /\ uncounted = {}
  /\ held = [a \in Accounts |-> [r \in Roles |-> IF r = RolesOf[a][1] THEN 0 ELSE -1]]
  /\ requests = 0

Goto(b, s) == stage' = [stage EXCEPT ![b] = s]

-----------------------------------------------------------------------------
(* Signing in *)

(* Mutant: what blocks is the count, which the block itself starts anew. *)
BlockedByCount(k) == attempts[k] # Nothing /\ attempts[k].count >= MaxFailed

(* blockedFor *)
Blocked(k) == attempts[k] # Nothing /\ now < attempts[k].blockedUntil

Swept == [k \in Keys |->
  IF attempts[k] # Nothing /\ now > attempts[k].blockedUntil /\ now - attempts[k].firstAt > Window
  THEN Nothing ELSE attempts[k]]

Attempt(count, blockedUntil) ==
  [count |-> count, firstAt |-> now, blockedUntil |-> blockedUntil]

(* A key's entry after one more failure: a window starts, the failure is    *)
(* counted, or it is the one that blocks.                                   *)
Counted(a) ==
  CASE a = Nothing -> Attempt(1, 0)
    [] a # Nothing /\ now - a.firstAt > Window -> Attempt(1, 0)
    [] a # Nothing /\ now - a.firstAt <= Window /\ a.count + 1 < MaxFailed ->
         [a EXCEPT !.count = @ + 1]
    [] OTHER -> Attempt(0, now + Block)

(* Mutant: the table takes every key. *)
RecordFailureOfAny(k) ==
  /\ attempts' = [Swept EXCEPT ![k] = Counted(Swept[k])]
  /\ failed' = [failed EXCEPT ![k] = Append(@, now)]
  /\ UNCHANGED uncounted

(* recordFailure; a table that is full takes no new key. *)
RecordFailure(k) ==
  LET full == Cardinality({j \in Keys : Swept[j] # Nothing}) >= MaxTracked
      counts == Swept[k] # Nothing \/ ~full
  IN  /\ attempts' = IF counts THEN [Swept EXCEPT ![k] = Counted(Swept[k])] ELSE Swept
      /\ failed' = [failed EXCEPT ![k] = Append(@, now)]
      /\ uncounted' = IF counts THEN uncounted ELSE uncounted \union {k}

(* The form is sent; it is refused at once while its key is blocked. *)
SubmitForm(b, k, a, right) ==
  /\ stage[b] = "idle" /\ requests < MaxRequests
  /\ ~Blocked(k)
  /\ form' = [form EXCEPT ![b] = [key |-> k, sub |-> a, right |-> right]]
  /\ Goto(b, "hashing")
  /\ requests' = requests + 1
  /\ UNCHANGED <<limiter, deploys, held, attempts, cookie, failed, uncounted, gateway>>

(* A form that cannot be read, or with no usable password, counts at once. *)
SubmitBroken(b, k) ==
  /\ stage[b] = "idle" /\ requests < MaxRequests
  /\ ~Blocked(k)
  /\ RecordFailure(k)
  /\ requests' = requests + 1
  /\ UNCHANGED <<limiter, deploys, held, stage, cookie, form, gateway>>

(* sign *)
Token(a) == [sub |-> a, role |-> RoleNow(a), exp |-> now + SessionTtl]

(* The hash is there: authenticate finds the password right ... *)
SignIn(b) ==
  /\ stage[b] = "hashing" /\ form[b].right
  /\ attempts' = [attempts EXCEPT ![form[b].key] = Nothing]
  /\ failed' = [failed EXCEPT ![form[b].key] = <<>>]
  /\ cookie' = [cookie EXCEPT ![b] = Token(form[b].sub)]
  /\ form' = [form EXCEPT ![b] = Nothing]
  /\ Goto(b, "idle")
  /\ UNCHANGED <<limiter, deploys, held, uncounted, gateway, requests>>

(* ... or wrong, or the account unknown. *)
RejectForm(b) ==
  /\ stage[b] = "hashing" /\ ~form[b].right
  /\ RecordFailure(form[b].key)
  /\ form' = [form EXCEPT ![b] = Nothing]
  /\ Goto(b, "idle")
  /\ UNCHANGED <<limiter, deploys, held, cookie, gateway, requests>>

SignOut(b) ==
  /\ stage[b] = "idle" /\ cookie[b] # Nothing
  /\ cookie' = [cookie EXCEPT ![b] = Nothing]
  /\ UNCHANGED <<limiter, deploys, held, stage, attempts, form, failed, uncounted, gateway,
                 requests>>

-----------------------------------------------------------------------------
(* The gateway *)

(* Mutant: a signature is all that is checked. *)
VerifyForEver(token) == TRUE

(* verify: the expiry is the token's own, and so is the role. *)
Verify(token) == token.exp > now

(* mayAccess *)
MayAccess(role, path) == path = "audit" => role = "admin"

NextCall == Cardinality(Made) + 1

AnswerCall(b, code) ==
  /\ answers' = [answers EXCEPT ![call[b].n] = code]
  /\ call' = [call EXCEPT ![b] = Nothing]
  /\ Goto(b, "idle")

(* middleware.ts sends a browser without a valid session to sign in, and    *)
(* turns one whose role may not reach the path away.                        *)
EnterGateway(b, path) ==
  /\ stage[b] = "idle" /\ requests < MaxRequests
  /\ requests' = requests + 1
  /\ cookie[b] # Nothing /\ Verify(cookie[b])
  /\ IF MayAccess(cookie[b].role, path)
     THEN /\ call' = [call EXCEPT ![b] =
                        [n |-> NextCall, path |-> path, token |-> cookie[b], at |-> now]]
          /\ answers' = [answers EXCEPT ![NextCall] = "open"]
          /\ Goto(b, "admitted")
     ELSE /\ answers' = [answers EXCEPT ![NextCall] = "forbidden"]
          /\ UNCHANGED <<call, stage>>
  /\ UNCHANGED <<limiter, deploys, held, access, wire, ledger>>

(* attribute: an action needs somebody who asks for it. *)
AttributeCall(b) ==
  /\ stage[b] = "admitted" /\ call[b].path = "evaluate"
  /\ IF Verify(call[b].token)
     THEN Goto(b, "attributed") /\ UNCHANGED <<call, answers>>
     ELSE AnswerCall(b, "malformed")
  /\ UNCHANGED <<limiter, deploys, held, access, wire, ledger, requests>>

(* actorHeaders, and fetch: the session is read once more, and a call whose *)
(* session has ended since goes out on nobody's behalf.                     *)
ForwardCall(b) ==
  LET verified == Verify(call[b].token)
  IN  /\ \/ stage[b] = "attributed"
         \/ stage[b] = "admitted" /\ call[b].path = "audit"
      /\ wire' = wire \union
           {[ n |-> call[b].n, path |-> call[b].path, at |-> now, reply |-> "none",
              actor |-> IF verified THEN call[b].token.sub ELSE Nothing,
              role |-> IF verified THEN call[b].token.role ELSE Nothing ]}
      /\ call' = [call EXCEPT ![b].at = now]
      /\ Goto(b, "sent")
      /\ UNCHANGED <<limiter, deploys, held, access, ledger, answers, requests>>

Reply(r, code) == wire' = (wire \ {r}) \union {[r EXCEPT !.reply = code, !.at = now]}

(* A call the API does now, however long it was on its way. *)
Deed(r) ==
  [n |-> r.n, path |-> r.path, actor |-> r.actor, role |-> r.role, sent |-> r.at, at |-> now]

(* POST /api/v1/actions/evaluate, within the limit of the console's address. *)
EvaluateCall(r) ==
  /\ r.reply = "none" /\ r.path = "evaluate"
  /\ \/ /\ Admit(ConsoleClient)
        /\ ledger' = Append(ledger, Deed(r))
        /\ Reply(r, "done")
     \/ /\ Refuse(ConsoleClient)
        /\ Reply(r, "throttled")
        /\ UNCHANGED ledger
  /\ UNCHANGED <<deploys, held, stage, access, call, answers, requests>>

(* GET /api/v1/audit: RequireRole, which lets a call without an operator    *)
(* pass.                                                                    *)
ReadTrail(r) ==
  /\ r.reply = "none" /\ r.path = "audit"
  /\ IF r.role \in {Nothing, "admin"}
     THEN ledger' = Append(ledger, Deed(r)) /\ Reply(r, "done")
     ELSE Reply(r, "forbidden") /\ UNCHANGED ledger
  /\ UNCHANGED <<limiter, deploys, held, stage, access, call, answers, requests>>

(* The answer arrives while the gateway still waits for it: it began before  *)
(* the timer ran, and its body may take longer.                             *)
DeliverAnswer(b) ==
  /\ stage[b] = "sent"
  /\ \E r \in wire :
       /\ r.n = call[b].n /\ r.reply # "none"
       /\ r.at - call[b].at <= UpstreamTimeout
       /\ AnswerCall(b, r.reply)
       /\ wire' = wire \ {r}
  /\ UNCHANGED <<limiter, deploys, held, access, ledger, requests>>

(* Mutant: a call that timed out is sent once more. *)
GiveUpResends(b) ==
  /\ stage[b] = "sent" /\ now - call[b].at >= UpstreamTimeout
  /\ wire' = {IF r.n = call[b].n THEN [r EXCEPT !.reply = "none"] ELSE r : r \in wire}
  /\ call' = [call EXCEPT ![b].at = now]
  /\ UNCHANGED <<limiter, deploys, held, stage, access, ledger, answers, requests>>

(* The timer aborts the call; the API may be done with it, or yet be.       *)
GiveUp(b) ==
  /\ stage[b] = "sent" /\ now - call[b].at >= UpstreamTimeout
  /\ AnswerCall(b, "unavailable")
  /\ UNCHANGED <<limiter, deploys, held, access, wire, ledger, requests>>

Waiting(r) == \E b \in Browsers : call[b] # Nothing /\ call[b].n = r.n

(* The call, or its answer, does not arrive: the gateway sees an error.     *)
LoseCall(r) ==
  /\ wire' = wire \ {r}
  /\ \/ ~Waiting(r) /\ UNCHANGED <<stage, call, answers>>
     \/ \E b \in Browsers :
          /\ stage[b] = "sent" /\ call[b].n = r.n
          /\ AnswerCall(b, "unavailable")
  /\ UNCHANGED <<limiter, deploys, held, access, ledger, requests>>

-----------------------------------------------------------------------------
(* Everything else *)

OtherWrite(c) ==
  /\ c # ConsoleClient /\ requests < MaxRequests
  /\ requests' = requests + 1
  /\ Admit(c) \/ Refuse(c)
  /\ UNCHANGED <<deploys, held, stage, access, gateway>>

(* The accounts are configuration: a change is a deployment, which forgets  *)
(* the attempts and every request in hand, and leaves the sessions valid.   *)
Deploy ==
  /\ deploys < MaxDeploys
  /\ deploys' = deploys + 1
  /\ held' = [a \in Accounts |-> [held[a] EXCEPT ![RolesOf[a][deploys + 2]] = now]]
  /\ attempts' = [k \in Keys |-> Nothing]
  /\ failed' = [k \in Keys |-> <<>>]
  /\ stage' = [b \in Browsers |-> "idle"]
  /\ form' = [b \in Browsers |-> Nothing]
  /\ call' = [b \in Browsers |-> Nothing]
  /\ answers' = [n \in Calls |-> IF answers[n] = "open" THEN "lost" ELSE answers[n]]
  /\ UNCHANGED <<limiter, cookie, uncounted, wire, ledger, requests>>

Pass ==
  /\ Tick
  /\ held' = [a \in Accounts |-> [held[a] EXCEPT ![RoleNow(a)] = now + 1]]
  /\ UNCHANGED <<deploys, stage, access, gateway, requests>>

Next ==
  \/ \E b \in Browsers :
       \/ \E k \in Keys :
            SubmitBroken(b, k) \/ \E a \in Accounts, right \in BOOLEAN : SubmitForm(b, k, a, right)
       \/ SignIn(b) \/ RejectForm(b) \/ SignOut(b)
       \/ \E path \in Paths : EnterGateway(b, path)
       \/ AttributeCall(b) \/ ForwardCall(b) \/ DeliverAnswer(b) \/ GiveUp(b)
  \/ \E r \in wire : EvaluateCall(r) \/ ReadTrail(r) \/ LoseCall(r)
  \/ \E c \in Clients : OtherWrite(c)
  \/ Deploy \/ Pass

Spec == Init /\ [][Next]_vars

-----------------------------------------------------------------------------
(* Properties *)

(* Concurrent attempts all pass the check of the block before the first of  *)
(* them is counted, and a window may end just before the next begins: even  *)
(* so a key whose failures are counted fails, since its last success and the *)
(* last deployment, either of which clears the table of it, and in the      *)
(* length of a window, at most as often as what is left of one window's     *)
(* or block's count allows, a full window, and attempts that were in hand   *)
(* when it was blocked (route.ts, recordFailure, sweep).                    *)
AttemptsAreBounded ==
  \A k \in Keys \ uncounted :
    LET lately == {i \in DOMAIN failed[k] : now - failed[k][i] < Window}
    IN  Cardinality(lately) <=
          (MaxFailed - 1) + MaxFailed + (Cardinality(Browsers) - 1)

(* A session outlives a change of its account, but not for long: what the    *)
(* API does in somebody's name was sent when the account had held the role   *)
(* no longer ago than a session lasts, and what is answered as done was done *)
(* no more than the gateway's timeout later.  (A call the gateway gave up on *)
(* or a deployment forgot has no such bound: the API does it when it comes.) *)
(* Only an administrator's or nobody's call reads the trail (session.ts,     *)
(* route.ts, principal.ts, RequireRole).                                    *)
StaleRoleIsBounded ==
  \A i \in DOMAIN ledger :
    LET d == ledger[i]
    IN  /\ d.actor # Nothing =>
             /\ held[d.actor][d.role] >= 0
             /\ d.sent - held[d.actor][d.role] < SessionTtl
             /\ answers[d.n] = "done" =>
                  d.at - held[d.actor][d.role] < SessionTtl + UpstreamTimeout
        /\ d.path = "audit" => d.role \in {"admin", Nothing}

(* What the gateway answers is true: a call answered as done was done once, *)
(* one that was refused was not and will not be, and no call - not even one *)
(* the gateway gave up on - is ever done twice (route.ts, evaluate).        *)
AnswersAreTrue ==
  \A n \in Made :
    LET done == Cardinality({i \in DOMAIN ledger : ledger[i].n = n})
    IN  /\ done <= 1
        /\ answers[n] = "done" => done = 1
        /\ answers[n] \in {"malformed", "forbidden", "throttled"} => done = 0 /\ \A r \in wire : r.n # n
=============================================================================

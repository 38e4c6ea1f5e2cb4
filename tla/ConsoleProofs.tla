---------------------------- MODULE ConsoleProofs ----------------------------
(***************************************************************************)
(* Proofs about Console: any browsers, keys, accounts and deployments, any *)
(* limits of the attempt limiter under which a block outlasts a window,    *)
(* any lifetime of a session and any delay in each handler.                *)
(*                                                                         *)
(* The API's limiter is RateLimiter's own: what is proved of that holds of *)
(* Console.  SessionInv follows a role from the account to the ledger;     *)
(* CallInv follows the number of a call; LoginInv says, per key, what the  *)
(* entry of the attempt limiter knows of the failures there were.          *)
(***************************************************************************)
EXTENDS Console, RateLimiterProofs, SequenceTheorems

InHand == {"admitted", "attributed", "sent"}

Tokens == [sub : Accounts, role : Roles, exp : Nat]
Forms == [key : Keys, sub : Accounts, right : BOOLEAN]
CallRecords == [n : Calls, path : Paths, token : Tokens, at : Nat]
Actors == Accounts \union {Nothing}
RolesTold == Roles \union {Nothing}
Deeds == [n : Calls, path : Paths, actor : Actors, role : RolesTold, sent : Nat, at : Nat]
Replies == {"none", "done", "throttled", "forbidden"}
Sent == [n : Calls, path : Paths, actor : Actors, role : RolesTold, at : Nat, reply : Replies]
Entries == [count : 0..MaxFailed - 1, firstAt : 0..MaxTime, blockedUntil : Nat]
Codes == {"unmade", "open", "lost", "done", "malformed", "forbidden", "throttled", "unavailable"}

LoginTyped ==
  /\ attempts \in [Keys -> Entries \union {Nothing}]
  /\ form \in [Browsers -> Forms \union {Nothing}]
  /\ \A b \in Browsers : stage[b] = "hashing" => form[b] \in Forms
  /\ failed \in [Keys -> Seq(0..MaxTime)]
  /\ uncounted \subseteq Keys

GatewayTyped ==
  /\ call \in [Browsers -> CallRecords \union {Nothing}]
  /\ \A b \in Browsers : stage[b] \in InHand => call[b] \in CallRecords
  /\ wire \subseteq Sent /\ IsFiniteSet(wire)
  /\ ledger \in Seq(Deeds)
  /\ answers \in [Calls -> Codes]

WorldTyped ==
  /\ now \in 0..MaxTime
  /\ deploys \in 0..MaxDeploys /\ requests \in 0..MaxRequests
  /\ cookie \in [Browsers -> Tokens \union {Nothing}]
  /\ stage \in [Browsers -> {"idle", "hashing"} \union InHand]
  /\ held \in [Accounts -> [Roles -> Int]]

TypeInv == WorldTyped /\ LoginTyped /\ GatewayTyped

-----------------------------------------------------------------------------
(* The limiter of the API *)

(* Every step of Console is one of the limiter or leaves it alone: calls of *)
(* the gateway are requests of one client, and others write as they like.   *)
THEOREM ConsoleKeepsLimiter == Spec => LimiterSpec
<1>1. Init => LimiterInit
  BY DEF Init
<1>2. [Next]_vars => [LimiterNext]_limiter
  <2> SUFFICES ASSUME [Next]_vars PROVE [LimiterNext]_limiter
    OBVIOUS
  <2>1. ConsoleClient \in Clients
    BY ConsoleBounds
  <2>2. CASE UNCHANGED vars
    BY <2>2 DEF vars
  <2>3. ASSUME NEW r \in wire, EvaluateCall(r) \/ ReadTrail(r) \/ LoseCall(r)
        PROVE  [LimiterNext]_limiter
    BY <2>1, <2>3 DEF EvaluateCall, ReadTrail, LoseCall, LimiterNext
  <2>4. ASSUME NEW c \in Clients, OtherWrite(c) PROVE [LimiterNext]_limiter
    BY <2>4 DEF OtherWrite, LimiterNext
  <2>5. CASE Deploy \/ Pass
    BY <2>5 DEF Deploy, Pass, LimiterNext
  <2>6. ASSUME NEW b \in Browsers,
               \/ \E k \in Keys :
                    \/ SubmitBroken(b, k)
                    \/ \E a \in Accounts, right \in BOOLEAN : SubmitForm(b, k, a, right)
               \/ SignIn(b) \/ RejectForm(b) \/ SignOut(b)
               \/ \E path \in Paths : EnterGateway(b, path)
               \/ AttributeCall(b) \/ ForwardCall(b) \/ DeliverAnswer(b) \/ GiveUp(b)
        PROVE  UNCHANGED limiter
    BY <2>6 DEF SubmitBroken, SubmitForm, SignIn, RejectForm, SignOut, EnterGateway,
                AttributeCall, ForwardCall, DeliverAnswer, GiveUp
  <2> QED BY <2>2, <2>3, <2>4, <2>5, <2>6 DEF Next
<1>3. QED
  BY <1>1, <1>2, PTL DEF Spec, LimiterSpec

(* The API's limit holds with the console as its client (RateLimiter.allow, *)
(* app/api/griefer): whatever the gateway and others send, each address is   *)
(* admitted its burst and its rate.                                          *)
THEOREM WritesAreLimited == Spec => []AdmissionsAreBounded
BY ConsoleKeepsLimiter, ClientsGetTheirRate, PTL

-----------------------------------------------------------------------------
(* Types                                                                   *)

LEMMA Constants ==
  /\ MaxFailed \in Nat /\ MaxFailed > 1
  /\ Window \in Nat /\ Block \in Nat /\ Window > 0 /\ Window <= Block
  /\ SessionTtl \in Nat /\ UpstreamTimeout \in Nat /\ MaxTime \in Nat
  /\ MaxRequests \in Nat /\ MaxDeploys \in Nat
  /\ IsFiniteSet(Browsers)
BY ConsoleBounds, BlockOutlastsWindow, LimiterBounds

LEMMA InitTyped == Init => TypeInv
<1> SUFFICES ASSUME Init PROVE TypeInv
  OBVIOUS
<1>1. WorldTyped
  BY Constants, RolesAreConfigured DEF Init, LimiterInit, WorldTyped
<1>2. LoginTyped
  <2>1. <<>> \in Seq(0..MaxTime)
    BY EmptySeq
  <2> QED BY <2>1 DEF Init, LoginTyped
<1>3. GatewayTyped
  <2>1. <<>> \in Seq(Deeds) /\ IsFiniteSet({})
    BY EmptySeq, FS_EmptySet
  <2> QED BY <2>1 DEF Init, GatewayTyped, InHand, Codes
<1>4. QED
  BY <1>1, <1>2, <1>3 DEF TypeInv

(* recordFailure makes entries of entries. *)
LEMMA CountedIsEntry ==
  ASSUME TypeInv, NEW e \in Entries \union {Nothing}
  PROVE  Counted(e) \in Entries
<1>1. now \in 0..MaxTime /\ 1 \in 0..MaxFailed - 1 /\ 0 \in 0..MaxFailed - 1 /\ now + Block \in Nat
  BY Constants DEF TypeInv, WorldTyped
<1>2. Attempt(1, 0) \in Entries /\ Attempt(0, now + Block) \in Entries
  BY <1>1 DEF Attempt, Entries
<1>3. ASSUME e # Nothing, e.count + 1 < MaxFailed
      PROVE  [e EXCEPT !.count = @ + 1] \in Entries
  <2>1. e \in Entries /\ e.count \in 0..MaxFailed - 1
    BY <1>3 DEF Entries
  <2>2. e.count + 1 \in 0..MaxFailed - 1
    BY <1>3, <2>1, Constants
  <2> QED BY <2>1, <2>2 DEF Entries
<1>4. QED
  BY <1>2, <1>3 DEF Counted

LEMMA SweptTyped ==
  ASSUME TypeInv
  PROVE  Swept \in [Keys -> Entries \union {Nothing}]
BY DEF TypeInv, LoginTyped, Swept

LEMMA FailureTyped ==
  ASSUME TypeInv, NEW k \in Keys, RecordFailure(k)
  PROVE  /\ attempts' \in [Keys -> Entries \union {Nothing}]
         /\ failed' \in [Keys -> Seq(0..MaxTime)]
         /\ failed'[k] = Append(failed[k], now)
         /\ \A j \in Keys \ {k} : failed'[j] = failed[j]
         /\ uncounted' \subseteq Keys /\ uncounted \subseteq uncounted'
<1>1. Swept \in [Keys -> Entries \union {Nothing}] /\ Counted(Swept[k]) \in Entries
  BY SweptTyped, CountedIsEntry
<1>2. attempts' = Swept \/ attempts' = [Swept EXCEPT ![k] = Counted(Swept[k])]
  BY DEF RecordFailure
<1>3. failed \in [Keys -> Seq(0..MaxTime)] /\ now \in 0..MaxTime
  BY DEF TypeInv, LoginTyped, WorldTyped
<1>4. Append(failed[k], now) \in Seq(0..MaxTime)
  BY <1>3, AppendProperties
<1>5. failed' = [failed EXCEPT ![k] = Append(failed[k], now)]
  BY DEF RecordFailure
<1>6. uncounted' \subseteq Keys /\ uncounted \subseteq uncounted'
  BY DEF RecordFailure, TypeInv, LoginTyped
<1>7. attempts' \in [Keys -> Entries \union {Nothing}]
  BY <1>1, <1>2
<1>8. /\ failed' \in [Keys -> Seq(0..MaxTime)]
      /\ failed'[k] = Append(failed[k], now)
      /\ \A j \in Keys \ {k} : failed'[j] = failed[j]
  BY <1>3, <1>4, <1>5
<1>9. QED
  BY <1>6, <1>7, <1>8

LEMMA RequestCounted ==
  ASSUME TypeInv, requests < MaxRequests
  PROVE  requests + 1 \in 0..MaxRequests
BY Constants DEF TypeInv, WorldTyped

LoginStep(b) ==
  \/ \E k \in Keys :
       \/ SubmitBroken(b, k)
       \/ \E a \in Accounts, right \in BOOLEAN : SubmitForm(b, k, a, right)
  \/ SignIn(b) \/ RejectForm(b) \/ SignOut(b)

LEMMA ConfigurationIsOne ==
  ASSUME NEW d \in 0..MaxDeploys
  PROVE  d + 1 \in 1..MaxDeploys + 1
BY Constants

(* The role an account has now is one of the roles. *)
LEMMA RoleNowIsRole ==
  ASSUME TypeInv, NEW a \in Accounts
  PROVE  RoleNow(a) \in Roles
<1>1. deploys + 1 \in 1..MaxDeploys + 1
  BY ConfigurationIsOne DEF TypeInv, WorldTyped
<1>2. QED
  BY <1>1, RolesAreConfigured DEF RoleNow

LEMMA TypeLogin ==
  ASSUME TypeInv, NEW b \in Browsers, LoginStep(b)
  PROVE  TypeInv'
<1> USE DEF LoginStep
<1>1. GatewayTyped'
  <2>1. UNCHANGED gateway
    BY DEF SubmitBroken, SubmitForm, SignIn, RejectForm, SignOut
  <2>2. \A c \in Browsers : stage'[c] \in InHand => stage[c] \in InHand
    BY DEF SubmitBroken, SubmitForm, SignIn, RejectForm, SignOut, Goto, InHand,
           TypeInv, WorldTyped
  <2> QED BY <2>1, <2>2 DEF TypeInv, GatewayTyped, gateway
<1>2. ASSUME NEW k \in Keys, SubmitBroken(b, k)
      PROVE  TypeInv'
  <2>1. requests' \in 0..MaxRequests
    BY <1>2, RequestCounted DEF SubmitBroken
  <2>2. /\ attempts' \in [Keys -> Entries \union {Nothing}]
        /\ failed' \in [Keys -> Seq(0..MaxTime)] /\ uncounted' \subseteq Keys
    BY <1>2, FailureTyped DEF SubmitBroken
  <2> QED BY <1>1, <1>2, <2>1, <2>2
          DEF SubmitBroken, TypeInv, WorldTyped, LoginTyped, limiter
<1>3. ASSUME NEW k \in Keys, NEW a \in Accounts, NEW right \in BOOLEAN,
             SubmitForm(b, k, a, right)
      PROVE  TypeInv'
  <2>1. requests' \in 0..MaxRequests
    BY <1>3, RequestCounted DEF SubmitForm
  <2>2. [key |-> k, sub |-> a, right |-> right] \in Forms
    BY DEF Forms
  <2>3. /\ form' \in [Browsers -> Forms \union {Nothing}]
        /\ \A c \in Browsers : stage'[c] = "hashing" => form'[c] \in Forms
        /\ stage' \in [Browsers -> {"idle", "hashing"} \union InHand]
    BY <1>3, <2>2 DEF SubmitForm, Goto, TypeInv, WorldTyped, LoginTyped
  <2> QED BY <1>1, <1>3, <2>1, <2>3
          DEF SubmitForm, TypeInv, WorldTyped, LoginTyped, limiter
<1>4. CASE SignIn(b) \/ RejectForm(b)
  <2>1. /\ form' = [form EXCEPT ![b] = Nothing]
        /\ stage' = [stage EXCEPT ![b] = "idle"]
        /\ stage[b] = "hashing" /\ form[b] \in Forms
        /\ UNCHANGED <<limiter, deploys, held, requests>>
    BY <1>4 DEF SignIn, RejectForm, Goto, TypeInv, LoginTyped
  <2>2. /\ form' \in [Browsers -> Forms \union {Nothing}]
        /\ \A c \in Browsers : stage'[c] = "hashing" => form'[c] \in Forms
        /\ stage' \in [Browsers -> {"idle", "hashing"} \union InHand]
    BY <2>1 DEF TypeInv, WorldTyped, LoginTyped
  <2>3. form[b].key \in Keys /\ form[b].sub \in Accounts
    BY <2>1 DEF Forms
  <2>4. CASE SignIn(b)
    <3>1. Token(form[b].sub) \in Tokens
      <4>1. now + SessionTtl \in Nat
        BY Constants DEF TypeInv, WorldTyped
      <4> QED BY <2>3, <4>1, RoleNowIsRole DEF Token, Tokens
    <3>2. cookie' \in [Browsers -> Tokens \union {Nothing}]
      BY <2>4, <3>1 DEF SignIn, TypeInv, WorldTyped
    <3>3. <<>> \in Seq(0..MaxTime)
      BY EmptySeq
    <3>4. /\ attempts' \in [Keys -> Entries \union {Nothing}]
          /\ failed' \in [Keys -> Seq(0..MaxTime)] /\ uncounted' = uncounted
      BY <2>3, <2>4, <3>3 DEF SignIn, TypeInv, LoginTyped
    <3> QED BY <1>1, <2>1, <2>2, <3>2, <3>4 DEF TypeInv, WorldTyped, LoginTyped, limiter
  <2>5. CASE RejectForm(b)
    <3>1. /\ attempts' \in [Keys -> Entries \union {Nothing}]
          /\ failed' \in [Keys -> Seq(0..MaxTime)] /\ uncounted' \subseteq Keys
      BY <2>3, <2>5, FailureTyped DEF RejectForm
    <3> QED BY <1>1, <2>1, <2>2, <2>5, <3>1
            DEF RejectForm, TypeInv, WorldTyped, LoginTyped, limiter
  <2> QED BY <1>4, <2>4, <2>5
<1>5. CASE SignOut(b)
  <2>1. cookie' \in [Browsers -> Tokens \union {Nothing}]
    BY <1>5 DEF SignOut, TypeInv, WorldTyped
  <2> QED BY <1>1, <1>5, <2>1 DEF SignOut, TypeInv, WorldTyped, LoginTyped, limiter
<1>6. QED
  BY <1>2, <1>3, <1>4, <1>5

GatewayStep(b) ==
  AttributeCall(b) \/ ForwardCall(b) \/ DeliverAnswer(b) \/ GiveUp(b)

LEMMA TypeEnter ==
  ASSUME TypeInv, NEW b \in Browsers, NEW path \in Paths, EnterGateway(b, path),
         NextCall \in Calls
  PROVE  TypeInv'
<1>1. requests' \in 0..MaxRequests
  BY RequestCounted DEF EnterGateway
<1>2. cookie[b] \in Tokens /\ now \in Nat
  BY Constants DEF EnterGateway, TypeInv, WorldTyped
<1>3. [n |-> NextCall, path |-> path, token |-> cookie[b], at |-> now] \in CallRecords
  BY <1>2 DEF CallRecords
<1>4. \/ /\ call' = [call EXCEPT ![b] =
                       [n |-> NextCall, path |-> path, token |-> cookie[b], at |-> now]]
         /\ stage' = [stage EXCEPT ![b] = "admitted"]
      \/ UNCHANGED <<call, stage>>
  BY DEF EnterGateway, Goto
<1>5. /\ call' \in [Browsers -> CallRecords \union {Nothing}]
      /\ stage' \in [Browsers -> {"idle", "hashing"} \union InHand]
      /\ \A c \in Browsers : stage'[c] \in InHand => call'[c] \in CallRecords
      /\ \A c \in Browsers : stage'[c] = "hashing" => stage[c] = "hashing"
  BY <1>3, <1>4 DEF TypeInv, WorldTyped, GatewayTyped, InHand
<1>6. answers' \in [Calls -> Codes]
  BY DEF EnterGateway, TypeInv, GatewayTyped, Codes
<1>7. QED
  BY <1>1, <1>5, <1>6
  DEF EnterGateway, TypeInv, WorldTyped, LoginTyped, GatewayTyped, limiter, access

LEMMA TypeGateway ==
  ASSUME TypeInv, NEW b \in Browsers, GatewayStep(b)
  PROVE  TypeInv'
<1>1. /\ stage[b] \in InHand /\ call[b] \in CallRecords /\ now \in Nat
      /\ UNCHANGED <<limiter, deploys, held, access, ledger, requests>>
  BY Constants DEF GatewayStep, AttributeCall, ForwardCall, DeliverAnswer, GiveUp, InHand,
         TypeInv, WorldTyped, GatewayTyped
<1>2. /\ call[b].n \in Calls /\ call[b].path \in Paths /\ call[b].token \in Tokens
      /\ [call[b] EXCEPT !.at = now] \in CallRecords
  BY <1>1 DEF CallRecords
<1>3. /\ call' \in [Browsers -> CallRecords \union {Nothing}]
      /\ stage' \in [Browsers -> {"idle", "hashing"} \union InHand]
      /\ \A c \in Browsers : stage'[c] \in InHand => call'[c] \in CallRecords
      /\ \A c \in Browsers : stage'[c] = "hashing" => stage[c] = "hashing"
  <2>1. \/ call' = call /\ stage' = [stage EXCEPT ![b] = "attributed"]
        \/ call' = [call EXCEPT ![b] = Nothing] /\ stage' = [stage EXCEPT ![b] = "idle"]
        \/ /\ call' = [call EXCEPT ![b] = [call[b] EXCEPT !.at = now]]
           /\ stage' = [stage EXCEPT ![b] = "sent"]
    <3>1. CASE ForwardCall(b)
      BY <3>1, <1>1 DEF ForwardCall, Goto, TypeInv, GatewayTyped
    <3>2. CASE ~ForwardCall(b)
      BY <3>2 DEF GatewayStep, AttributeCall, DeliverAnswer, GiveUp, AnswerCall, Goto
    <3> QED BY <3>1, <3>2
  <2> QED BY <1>1, <1>2, <2>1 DEF TypeInv, WorldTyped, GatewayTyped, InHand
<1>4. answers' \in [Calls -> Codes]
  <2>1. \/ answers' = answers
        \/ \E code \in Codes : answers' = [answers EXCEPT ![call[b].n] = code]
    <3>1. CASE DeliverAnswer(b)
      <4>1. PICK r \in wire : r.reply # "none" /\ AnswerCall(b, r.reply)
        BY <3>1 DEF DeliverAnswer
      <4>2. r.reply \in Codes
        BY <4>1 DEF TypeInv, GatewayTyped, Sent, Replies, Codes
      <4> QED BY <4>1, <4>2 DEF AnswerCall
    <3>2. CASE ~DeliverAnswer(b)
      BY <3>2 DEF GatewayStep, AttributeCall, ForwardCall, GiveUp, AnswerCall, Codes
    <3> QED BY <3>1, <3>2
  <2> QED BY <1>2, <2>1 DEF TypeInv, GatewayTyped
<1>5. wire' \subseteq Sent /\ IsFiniteSet(wire')
  <2>1. CASE ForwardCall(b)
    <3> DEFINE r == [ n |-> call[b].n, path |-> call[b].path, at |-> now, reply |-> "none",
              actor |-> IF Verify(call[b].token) THEN call[b].token.sub ELSE Nothing,
              role |-> IF Verify(call[b].token) THEN call[b].token.role ELSE Nothing ]
    <3>1. r \in Sent
      BY <1>1, <1>2 DEF Sent, Replies, Actors, RolesTold, Tokens
    <3>2. wire' = wire \union {r}
      BY <2>1 DEF ForwardCall
    <3> HIDE DEF r
    <3> QED BY <3>1, <3>2, FS_AddElement DEF TypeInv, GatewayTyped
  <2>2. CASE ~ForwardCall(b)
    <3>1. wire' \subseteq wire
      BY <2>2 DEF GatewayStep, AttributeCall, DeliverAnswer, GiveUp
    <3> QED BY <3>1, FS_Subset DEF TypeInv, GatewayTyped
  <2> QED BY <2>1, <2>2
<1>6. QED
  BY <1>1, <1>3, <1>4, <1>5 DEF TypeInv, WorldTyped, LoginTyped, GatewayTyped, limiter, access

LEMMA TypeAPI ==
  ASSUME TypeInv, NEW r \in wire, EvaluateCall(r) \/ ReadTrail(r) \/ LoseCall(r)
  PROVE  TypeInv'
<1>1. r \in Sent /\ Deed(r) \in Deeds /\ now \in Nat
  BY Constants DEF Deed, Deeds, Sent, TypeInv, WorldTyped, GatewayTyped
<1>2. /\ UNCHANGED <<deploys, held, access, requests>>
      /\ now' = now
  BY DEF EvaluateCall, ReadTrail, LoseCall, Admit, Refuse, limiter
<1>3. ledger' \in Seq(Deeds)
  <2>1. ledger' = ledger \/ ledger' = Append(ledger, Deed(r))
    BY DEF EvaluateCall, ReadTrail, LoseCall
  <2> QED BY <1>1, <2>1, AppendProperties DEF TypeInv, GatewayTyped
<1>4. wire' \subseteq Sent /\ IsFiniteSet(wire')
  <2>1. \/ wire' = wire \ {r}
        \/ \E code \in Replies :
             wire' = (wire \ {r}) \union {[r EXCEPT !.reply = code, !.at = now]}
    BY DEF EvaluateCall, ReadTrail, LoseCall, Reply, Replies
  <2>2. IsFiniteSet(wire \ {r})
    BY FS_Subset DEF TypeInv, GatewayTyped
  <2>3. ASSUME NEW code \in Replies
        PROVE  /\ [r EXCEPT !.reply = code, !.at = now] \in Sent
               /\ IsFiniteSet((wire \ {r}) \union {[r EXCEPT !.reply = code, !.at = now]})
    BY <1>1, <2>2, FS_AddElement DEF Sent
  <2> QED BY <2>1, <2>2, <2>3 DEF TypeInv, GatewayTyped
<1>5. /\ stage' \in [Browsers -> {"idle", "hashing"} \union InHand]
      /\ call' \in [Browsers -> CallRecords \union {Nothing}]
      /\ answers' \in [Calls -> Codes]
      /\ \A c \in Browsers : stage'[c] \in InHand => call'[c] \in CallRecords
      /\ \A c \in Browsers : stage'[c] = "hashing" => stage[c] = "hashing"
  <2>1. \/ UNCHANGED <<stage, call, answers>>
        \/ \E b \in Browsers : stage[b] = "sent" /\ AnswerCall(b, "unavailable")
    BY DEF EvaluateCall, ReadTrail, LoseCall
  <2>2. ASSUME NEW b \in Browsers, stage[b] = "sent", AnswerCall(b, "unavailable")
        PROVE  /\ stage' = [stage EXCEPT ![b] = "idle"]
               /\ call' = [call EXCEPT ![b] = Nothing]
               /\ answers' = [answers EXCEPT ![call[b].n] = "unavailable"]
    BY <2>2 DEF AnswerCall, Goto
  <2>3. /\ stage \in [Browsers -> {"idle", "hashing"} \union InHand]
        /\ call \in [Browsers -> CallRecords \union {Nothing}]
        /\ answers \in [Calls -> Codes]
        /\ \A c \in Browsers : stage[c] \in InHand => call[c] \in CallRecords
    BY DEF TypeInv, WorldTyped, GatewayTyped
  <2>4. CASE UNCHANGED <<stage, call, answers>>
    BY <2>3, <2>4
  <2>5. ASSUME NEW b \in Browsers, stage[b] = "sent", AnswerCall(b, "unavailable")
        PROVE  /\ stage' \in [Browsers -> {"idle", "hashing"} \union InHand]
               /\ call' \in [Browsers -> CallRecords \union {Nothing}]
               /\ answers' \in [Calls -> Codes]
               /\ \A c \in Browsers : stage'[c] \in InHand => call'[c] \in CallRecords
               /\ \A c \in Browsers : stage'[c] = "hashing" => stage[c] = "hashing"
    BY <2>2, <2>3, <2>5 DEF InHand, Codes
  <2> QED BY <2>1, <2>4, <2>5
<1>6. QED
  BY <1>2, <1>3, <1>4, <1>5 DEF TypeInv, WorldTyped, LoginTyped, GatewayTyped, access

LEMMA TypeWorld ==
  ASSUME TypeInv, Deploy \/ Pass \/ \E c \in Clients : OtherWrite(c)
  PROVE  TypeInv'
<1>1. CASE \E c \in Clients : OtherWrite(c)
  <2>1. requests' \in 0..MaxRequests
    BY <1>1, RequestCounted DEF OtherWrite
  <2> QED BY <1>1, <2>1
          DEF OtherWrite, Admit, Refuse, access, gateway, TypeInv, WorldTyped, LoginTyped,
              GatewayTyped
<1>2. CASE Deploy
  <2>1. deploys' \in 0..MaxDeploys /\ now \in Int
    BY <1>2, Constants DEF Deploy, TypeInv, WorldTyped
  <2>2. held' \in [Accounts -> [Roles -> Int]]
    BY <1>2, <2>1 DEF Deploy, TypeInv, WorldTyped
  <2>3. <<>> \in Seq(0..MaxTime)
    BY EmptySeq
  <2>4. LoginTyped'
    BY <1>2, <2>3 DEF Deploy, TypeInv, LoginTyped
  <2>5. answers' \in [Calls -> Codes]
    BY <1>2 DEF Deploy, TypeInv, GatewayTyped, Codes
  <2>6. GatewayTyped'
    BY <1>2, <2>5 DEF Deploy, TypeInv, GatewayTyped, InHand
  <2> QED BY <1>2, <2>1, <2>2, <2>4, <2>6 DEF Deploy, TypeInv, WorldTyped, limiter
<1>3. CASE Pass
  <2>1. now' \in 0..MaxTime /\ now + 1 \in Int
    BY <1>3, Constants DEF Pass, Tick, TypeInv, WorldTyped
  <2>2. held' \in [Accounts -> [Roles -> Int]]
    BY <1>3, <2>1 DEF Pass, TypeInv, WorldTyped
  <2> QED BY <1>3, <2>1, <2>2
          DEF Pass, access, gateway, TypeInv, WorldTyped, LoginTyped, GatewayTyped
<1>4. QED
  BY <1>1, <1>2, <1>3

(* Next, by what its steps touch. *)
LEMMA StepCases ==
  ASSUME Next
  PROVE  \/ \E b \in Browsers : LoginStep(b) \/ GatewayStep(b)
         \/ \E b \in Browsers, path \in Paths : EnterGateway(b, path)
         \/ \E r \in wire : EvaluateCall(r) \/ ReadTrail(r) \/ LoseCall(r)
         \/ Deploy \/ Pass \/ \E c \in Clients : OtherWrite(c)
BY DEF Next, LoginStep, GatewayStep

LEMMA TypeStep ==
  ASSUME TypeInv, [Next]_vars, requests < MaxRequests => NextCall \in Calls
  PROVE  TypeInv'
<1>1. CASE UNCHANGED vars
  BY <1>1 DEF vars, limiter, console, access, gateway, TypeInv, WorldTyped, LoginTyped,
              GatewayTyped
<1>2. ASSUME NEW b \in Browsers, NEW path \in Paths, EnterGateway(b, path)
      PROVE  TypeInv'
  BY <1>2, TypeEnter DEF EnterGateway
<1>3. QED
  BY <1>1, <1>2, StepCases, TypeLogin, TypeGateway, TypeAPI, TypeWorld

-----------------------------------------------------------------------------
(* Sessions                                                                *)

(* At this instant the account, whose role it was, or is, was told. *)
Fresh(sub, role, until) == held[sub][role] >= 0 /\ until - held[sub][role] <= SessionTtl

HeldIsCurrent ==
  /\ \A a \in Accounts : held[a][RoleNow(a)] = now
  /\ \A a \in Accounts, r \in Roles : held[a][r] <= now

CookiesFresh ==
  \A b \in Browsers : cookie[b] # Nothing =>
    /\ Fresh(cookie[b].sub, cookie[b].role, cookie[b].exp)
    /\ cookie[b].exp <= now + SessionTtl

CallsFresh ==
  \A b \in Browsers : stage[b] \in InHand =>
    Fresh(call[b].token.sub, call[b].token.role, call[b].token.exp)

WireFresh ==
  \A r \in wire : r.reply = "none" /\ r.actor # Nothing =>
    r.actor \in Accounts /\ r.role \in Roles /\ Fresh(r.actor, r.role, r.at + 1)

LedgerFresh ==
  \A i \in DOMAIN ledger :
    LET d == ledger[i]
    IN  /\ d.actor # Nothing =>
             d.actor \in Accounts /\ d.role \in Roles /\ Fresh(d.actor, d.role, d.sent + 1)
        /\ d.path = "audit" => d.role \in {"admin", Nothing}

SessionInv == HeldIsCurrent /\ CookiesFresh /\ CallsFresh /\ WireFresh /\ LedgerFresh

FreshNext(sub, role, until) ==
  held'[sub][role] >= 0 /\ until - held'[sub][role] <= SessionTtl

HeldGrows ==
  /\ now <= now'
  /\ \A a \in Accounts, r \in Roles : held[a][r] <= held'[a][r]

LEMMA HeldStep ==
  ASSUME TypeInv, TypeInv', HeldIsCurrent, [Next]_vars
  PROVE  HeldIsCurrent' /\ HeldGrows
<1>1. CASE UNCHANGED <<now, held, deploys>>
  <2>1. HeldIsCurrent'
    BY <1>1 DEF HeldIsCurrent, RoleNow
  <2>2. HeldGrows
    BY <1>1, Constants DEF HeldGrows, TypeInv, WorldTyped
  <2> QED BY <2>1, <2>2
<1>2. ASSUME NEW at \in Int, now <= at, now' = at,
             held' = [a \in Accounts |-> [held[a] EXCEPT ![RoleNow(a)'] = at]]
      PROVE  HeldIsCurrent' /\ HeldGrows
  <2>1. \A a \in Accounts : RoleNow(a)' \in Roles
    <3>1. deploys' \in 0..MaxDeploys
      BY DEF TypeInv, WorldTyped
    <3>2. deploys' + 1 \in 1..MaxDeploys + 1
      BY <3>1, ConfigurationIsOne
    <3> QED BY <3>2, RolesAreConfigured DEF RoleNow
  <2>2. \A a \in Accounts : held[a] \in [Roles -> Int]
    BY DEF TypeInv, WorldTyped
  <2>3. \A a \in Accounts, r \in Roles :
          held'[a][r] = IF r = RoleNow(a)' THEN at ELSE held[a][r]
    BY <1>2, <2>2
  <2>4. \A a \in Accounts, r \in Roles : held[a][r] \in Int /\ held[a][r] <= now
    BY <2>2 DEF HeldIsCurrent
  <2>5. now \in Int
    BY Constants DEF TypeInv, WorldTyped
  <2>6. \A a \in Accounts, r \in Roles : held[a][r] <= held'[a][r] /\ held'[a][r] <= at
    BY <1>2, <2>3, <2>4, <2>5
  <2>7. \A a \in Accounts : held'[a][RoleNow(a)'] = now'
    BY <1>2, <2>1, <2>3
  <2> QED BY <1>2, <2>6, <2>7 DEF HeldIsCurrent, HeldGrows
<1>3. now \in Int /\ deploys \in Int
  BY Constants DEF TypeInv, WorldTyped
<1>4. CASE Deploy
  <2>1. now' = now /\ deploys' + 1 = deploys + 2
    BY <1>3, <1>4 DEF Deploy, limiter
  <2>2. \A a \in Accounts : RoleNow(a)' = RolesOf[a][deploys + 2]
    BY <2>1 DEF RoleNow
  <2>3. held' = [a \in Accounts |-> [held[a] EXCEPT ![RoleNow(a)'] = now]]
    BY <1>4, <2>2 DEF Deploy
  <2> QED BY <1>2, <1>3, <2>1, <2>3
<1>5. CASE Pass
  <2>1. now' = now + 1 /\ now + 1 \in Int /\ now <= now + 1
    BY <1>3, <1>5 DEF Pass, Tick
  <2>2. \A a \in Accounts : RoleNow(a)' = RoleNow(a)
    BY <1>5 DEF Pass, RoleNow
  <2>3. held' = [a \in Accounts |-> [held[a] EXCEPT ![RoleNow(a)'] = now + 1]]
    BY <1>5, <2>2 DEF Pass
  <2> QED BY <1>2, <2>1, <2>3
<1>6. CASE ~(Deploy \/ Pass)
  <2>1. UNCHANGED <<now, held, deploys>>
    BY <1>6, StepCases
    DEF vars, console, limiter, LoginStep, SubmitBroken, SubmitForm, SignIn, RejectForm,
        SignOut, GatewayStep, AttributeCall, ForwardCall, DeliverAnswer, GiveUp,
        EnterGateway, EvaluateCall, ReadTrail, LoseCall, OtherWrite, Admit, Refuse
  <2> QED BY <1>1, <2>1
<1>7. QED
  BY <1>4, <1>5, <1>6

(* What was told of an account stays told. *)
LEMMA FreshStays ==
  ASSUME TypeInv, TypeInv', HeldGrows, NEW sub \in Accounts, NEW role \in Roles,
         NEW until \in Int, Fresh(sub, role, until)
  PROVE  FreshNext(sub, role, until)
<1>1. held[sub][role] \in Int /\ held'[sub][role] \in Int /\ SessionTtl \in Int
  BY Constants DEF TypeInv, WorldTyped
<1>2. held[sub][role] <= held'[sub][role]
  BY DEF HeldGrows
<1>3. held[sub][role] >= 0 /\ until - held[sub][role] <= SessionTtl
  BY DEF Fresh
<1>4. QED
  BY <1>1, <1>2, <1>3 DEF FreshNext

LEMMA CookiesStep ==
  ASSUME TypeInv, TypeInv', HeldIsCurrent, HeldGrows, CookiesFresh, [Next]_vars
  PROVE  CookiesFresh'
<1> SUFFICES ASSUME NEW b \in Browsers, cookie'[b] # Nothing
             PROVE  /\ FreshNext(cookie'[b].sub, cookie'[b].role, cookie'[b].exp)
                    /\ cookie'[b].exp <= now' + SessionTtl
  BY DEF CookiesFresh, Fresh, FreshNext
<1>1. /\ now \in Int /\ now' \in Int /\ now <= now' /\ SessionTtl \in Int /\ now >= 0
  BY Constants DEF TypeInv, WorldTyped, HeldGrows
<1>2. CASE cookie'[b] = cookie[b]
  <2>1. cookie[b] \in Tokens /\ cookie[b] # Nothing
    BY <1>2 DEF TypeInv, WorldTyped
  <2>2. cookie[b].sub \in Accounts /\ cookie[b].role \in Roles /\ cookie[b].exp \in Int
    BY <2>1 DEF Tokens
  <2>3. /\ Fresh(cookie[b].sub, cookie[b].role, cookie[b].exp)
        /\ cookie[b].exp <= now + SessionTtl
    BY <2>1 DEF CookiesFresh
  <2>4. cookie[b].exp <= now' + SessionTtl
    BY <1>1, <2>2, <2>3
  <2> QED BY <1>2, <2>2, <2>3, <2>4, FreshStays
<1>3. CASE cookie'[b] # cookie[b]
  <2>1. SignIn(b)
    <3>1. cookie \in [Browsers -> Tokens \union {Nothing}]
      BY DEF TypeInv, WorldTyped
    <3> QED BY <1>3, <3>1, StepCases
            DEF vars, console, access, LoginStep, SubmitBroken, SubmitForm, SignIn, RejectForm,
                SignOut, GatewayStep, AttributeCall, ForwardCall, DeliverAnswer, GiveUp,
                EnterGateway, EvaluateCall, ReadTrail, LoseCall, OtherWrite, Deploy, Pass
  <2>2. form[b].sub \in Accounts
    BY <2>1 DEF SignIn, TypeInv, LoginTyped, Forms
  <2>3. cookie'[b] = Token(form[b].sub) /\ now' = now
    BY <2>1 DEF SignIn, limiter, TypeInv, WorldTyped
  <2>4. Fresh(form[b].sub, RoleNow(form[b].sub), now + SessionTtl)
    <3>1. held[form[b].sub][RoleNow(form[b].sub)] = now
      BY <2>2 DEF HeldIsCurrent
    <3> QED BY <1>1, <3>1 DEF Fresh
  <2>5. RoleNow(form[b].sub) \in Roles /\ now + SessionTtl \in Int
    BY <1>1, <2>2, RoleNowIsRole
  <2> QED BY <1>1, <2>2, <2>3, <2>4, <2>5, FreshStays DEF Token
<1>4. QED
  BY <1>2, <1>3

LEMMA CallsStep ==
  ASSUME TypeInv, TypeInv', HeldGrows, CookiesFresh, CallsFresh, [Next]_vars
  PROVE  CallsFresh'
<1> SUFFICES ASSUME NEW b \in Browsers, stage'[b] \in InHand
             PROVE  FreshNext(call'[b].token.sub, call'[b].token.role, call'[b].token.exp)
  BY DEF CallsFresh, Fresh, FreshNext
<1>1. \/ stage[b] \in InHand /\ call'[b].token = call[b].token
      \/ cookie[b] # Nothing /\ call'[b].token = cookie[b]
  <2>1. CASE \E path \in Paths : EnterGateway(b, path)
    BY <2>1 DEF EnterGateway, Goto, TypeInv, WorldTyped, GatewayTyped
  <2>2. CASE GatewayStep(b)
    <3>1. stage[b] \in InHand
      BY <2>2 DEF GatewayStep, AttributeCall, ForwardCall, DeliverAnswer, GiveUp, InHand
    <3>2. CASE ForwardCall(b)
      <4>1. call[b] \in CallRecords
        BY <3>1 DEF TypeInv, GatewayTyped
      <4>2. call'[b] = [call[b] EXCEPT !.at = now]
        BY <3>2 DEF ForwardCall, TypeInv, GatewayTyped
      <4> QED BY <3>1, <4>1, <4>2 DEF CallRecords
    <3>3. CASE ~ForwardCall(b)
      BY <2>2, <3>1, <3>3
      DEF GatewayStep, AttributeCall, DeliverAnswer, GiveUp, AnswerCall, Goto, InHand,
          TypeInv, WorldTyped
    <3> QED BY <3>2, <3>3
  <2>3. CASE /\ ~GatewayStep(b)
             /\ ~\E path \in Paths : EnterGateway(b, path)
    <3>1. stage[b] \in InHand /\ call'[b] = call[b]
      <4>1. stage \in [Browsers -> {"idle", "hashing"} \union InHand]
            /\ call \in [Browsers -> CallRecords \union {Nothing}]
        BY DEF TypeInv, WorldTyped, GatewayTyped
      <4>2. ASSUME NEW c \in Browsers \ {b},
                   GatewayStep(c) \/ \E path \in Paths : EnterGateway(c, path)
            PROVE  stage'[b] = stage[b] /\ call'[b] = call[b]
        BY <4>1, <4>2
        DEF GatewayStep, AttributeCall, ForwardCall, DeliverAnswer, GiveUp, EnterGateway,
            AnswerCall, Goto
      <4>3. ASSUME NEW c \in Browsers, LoginStep(c)
            PROVE  stage'[b] \in {stage[b], "idle", "hashing"} /\ call'[b] = call[b]
        BY <4>1, <4>3
        DEF LoginStep, SubmitBroken, SubmitForm, SignIn, RejectForm, SignOut, Goto, gateway
      <4>4. ASSUME NEW r \in wire, EvaluateCall(r) \/ ReadTrail(r) \/ LoseCall(r)
            PROVE  stage'[b] = "idle" \/ (stage'[b] = stage[b] /\ call'[b] = call[b])
        BY <4>1, <4>4 DEF EvaluateCall, ReadTrail, LoseCall, AnswerCall, Goto
      <4>5. ASSUME Deploy \/ Pass \/ UNCHANGED vars \/ \E c \in Clients : OtherWrite(c)
            PROVE  stage'[b] = "idle" \/ (stage'[b] = stage[b] /\ call'[b] = call[b])
        BY <4>1, <4>5 DEF Deploy, Pass, OtherWrite, vars, console, gateway
      <4> QED BY <2>3, <4>2, <4>3, <4>4, <4>5, StepCases DEF InHand
    <3> QED BY <3>1
  <2> QED BY <2>1, <2>2, <2>3
<1>2. CASE stage[b] \in InHand /\ call'[b].token = call[b].token
  <2>1. call[b].token \in Tokens
    BY <1>2 DEF TypeInv, GatewayTyped, CallRecords
  <2>2. /\ call[b].token.sub \in Accounts /\ call[b].token.role \in Roles
        /\ call[b].token.exp \in Int
    BY <2>1 DEF Tokens
  <2> QED BY <1>2, <2>2, FreshStays DEF CallsFresh
<1>3. CASE cookie[b] # Nothing /\ call'[b].token = cookie[b]
  <2>1. cookie[b].sub \in Accounts /\ cookie[b].role \in Roles /\ cookie[b].exp \in Int
    BY <1>3 DEF TypeInv, WorldTyped, Tokens
  <2> QED BY <1>3, <2>1, FreshStays DEF CookiesFresh
<1>4. QED
  BY <1>1, <1>2, <1>3

(* The record ForwardCall sends. *)
Outgoing(b) ==
  LET verified == Verify(call[b].token)
  IN  [ n |-> call[b].n, path |-> call[b].path, at |-> now, reply |-> "none",
        actor |-> IF verified THEN call[b].token.sub ELSE Nothing,
        role |-> IF verified THEN call[b].token.role ELSE Nothing ]

(* What waits for the API was sent now, or waited for it. *)
LEMMA WireComes ==
  ASSUME TypeInv, [Next]_vars, NEW s \in wire', s.reply = "none"
  PROVE  \/ s \in wire
         \/ \E b \in Browsers : stage[b] \in InHand /\ ForwardCall(b) /\ s = Outgoing(b)
<1>1. CASE s \in wire
  BY <1>1
<1>2. CASE \E b \in Browsers : ForwardCall(b)
  <2>1. PICK b \in Browsers : ForwardCall(b)
    BY <1>2
  <2>2. stage[b] \in InHand /\ wire' = wire \union {Outgoing(b)}
    BY <2>1 DEF ForwardCall, InHand, Outgoing
  <2> QED BY <2>1, <2>2
<1>3. CASE \E r \in wire, code \in Replies \ {"none"} : Reply(r, code)
  <2>1. PICK r \in wire, code \in Replies \ {"none"} : Reply(r, code)
    BY <1>3
  <2>2. s # [r EXCEPT !.reply = code, !.at = now]
    BY DEF TypeInv, GatewayTyped, Sent
  <2> QED BY <2>1, <2>2 DEF Reply
<1>4. CASE wire' \subseteq wire
  BY <1>4
<1>5. QED
  <2>1. ASSUME NEW b \in Browsers, GatewayStep(b), ~ForwardCall(b)
        PROVE  wire' \subseteq wire
    BY <2>1 DEF GatewayStep, AttributeCall, DeliverAnswer, GiveUp
  <2>2. ASSUME NEW r \in wire, EvaluateCall(r) \/ ReadTrail(r) \/ LoseCall(r)
        PROVE  wire' \subseteq wire \/ \E code \in Replies \ {"none"} : Reply(r, code)
    BY <2>2 DEF EvaluateCall, ReadTrail, LoseCall, Replies
  <2>3. ASSUME \/ \E b \in Browsers : LoginStep(b)
               \/ \E b \in Browsers, path \in Paths : EnterGateway(b, path)
               \/ Deploy \/ Pass \/ UNCHANGED vars \/ \E c \in Clients : OtherWrite(c)
        PROVE  wire' = wire
    BY <2>3 DEF LoginStep, SubmitBroken, SubmitForm, SignIn, RejectForm, SignOut,
                EnterGateway, Deploy, Pass, OtherWrite, vars, console, gateway
  <2> QED BY <1>2, <1>3, <1>4, <2>1, <2>2, <2>3, StepCases DEF GatewayStep

(* What the ledger gains was on its way. *)
LEMMA LedgerComes ==
  ASSUME [Next]_vars
  PROVE  \/ ledger' = ledger
         \/ \E r \in wire : /\ r.reply = "none" /\ ledger' = Append(ledger, Deed(r))
                            /\ r.path = "audit" => r.role \in {"admin", Nothing}
<1>1. ASSUME NEW r \in wire, EvaluateCall(r) \/ ReadTrail(r) \/ LoseCall(r)
      PROVE  \/ ledger' = ledger
             \/ /\ r.reply = "none" /\ ledger' = Append(ledger, Deed(r))
                /\ r.path = "audit" => r.role \in {"admin", Nothing}
  BY <1>1 DEF EvaluateCall, ReadTrail, LoseCall
<1>2. ASSUME \/ \E b \in Browsers : LoginStep(b) \/ GatewayStep(b)
             \/ \E b \in Browsers, path \in Paths : EnterGateway(b, path)
             \/ Deploy \/ Pass \/ UNCHANGED vars \/ \E c \in Clients : OtherWrite(c)
      PROVE  ledger' = ledger
  BY <1>2 DEF LoginStep, SubmitBroken, SubmitForm, SignIn, RejectForm, SignOut, GatewayStep,
              AttributeCall, ForwardCall, DeliverAnswer, GiveUp, EnterGateway, Deploy, Pass,
              OtherWrite, vars, console, gateway
<1>3. QED
  BY <1>1, <1>2, StepCases

(* What was sent at an instant in somebody's name tells a role that had yet  *)
(* to age out.                                                              *)
Named(d, at) ==
  d.actor # Nothing => d.actor \in Accounts /\ d.role \in Roles /\ Fresh(d.actor, d.role, at + 1)

NamedNext(d, at) ==
  d.actor # Nothing =>
    d.actor \in Accounts /\ d.role \in Roles /\ FreshNext(d.actor, d.role, at + 1)

LEMMA NamedStays ==
  ASSUME TypeInv, TypeInv', HeldGrows, NEW d, NEW at \in Int, Named(d, at)
  PROVE  NamedNext(d, at)
BY FreshStays DEF Named, NamedNext

LEMMA WireStep ==
  ASSUME TypeInv, TypeInv', HeldGrows, CallsFresh, WireFresh, [Next]_vars
  PROVE  WireFresh'
<1> SUFFICES ASSUME NEW s \in wire', s.reply = "none" PROVE NamedNext(s, s.at)
  BY DEF WireFresh, Named, NamedNext, Fresh, FreshNext
<1>1. CASE s \in wire
  <2>1. Named(s, s.at) /\ s.at \in Int
    BY <1>1 DEF WireFresh, Named, TypeInv, GatewayTyped, Sent
  <2> QED BY <2>1, NamedStays
<1>2. CASE \E b \in Browsers : stage[b] \in InHand /\ ForwardCall(b) /\ s = Outgoing(b)
  <2>1. PICK b \in Browsers : stage[b] \in InHand /\ s = Outgoing(b)
    BY <1>2
  <2>2. call[b].token \in Tokens
    BY <2>1 DEF TypeInv, GatewayTyped, CallRecords
  <2>3. /\ call[b].token.sub \in Accounts /\ call[b].token.role \in Roles
        /\ call[b].token.exp \in Int
    BY <2>2 DEF Tokens
  <2>4. s.at = now /\ now \in Int
    BY <2>1, Constants DEF Outgoing, TypeInv, WorldTyped
  <2>5. CASE Verify(call[b].token)
    <3>1. s.actor = call[b].token.sub /\ s.role = call[b].token.role
      BY <2>1, <2>5 DEF Outgoing
    <3>2. now < call[b].token.exp
      BY <2>3, <2>4, <2>5 DEF Verify
    <3>3. Fresh(call[b].token.sub, call[b].token.role, call[b].token.exp)
      BY <2>1 DEF CallsFresh
    <3>4. held[call[b].token.sub][call[b].token.role] \in Int /\ SessionTtl \in Int
      BY <2>3, Constants DEF TypeInv, WorldTyped
    <3>5. Fresh(call[b].token.sub, call[b].token.role, now + 1)
      BY <2>3, <2>4, <3>2, <3>3, <3>4 DEF Fresh
    <3>6. Named(s, s.at)
      BY <2>3, <2>4, <3>1, <3>5 DEF Named
    <3> QED BY <2>4, <3>6, NamedStays
  <2>6. CASE ~Verify(call[b].token)
    BY <2>1, <2>6 DEF Outgoing, NamedNext
  <2> QED BY <2>5, <2>6
<1>3. QED
  BY <1>1, <1>2, WireComes

LEMMA LedgerStep ==
  ASSUME TypeInv, TypeInv', HeldGrows, WireFresh, LedgerFresh, [Next]_vars
  PROVE  LedgerFresh'
<1> SUFFICES ASSUME NEW i \in DOMAIN ledger'
             PROVE  /\ NamedNext(ledger'[i], ledger'[i].sent)
                    /\ ledger'[i].path = "audit" => ledger'[i].role \in {"admin", Nothing}
  BY DEF LedgerFresh, NamedNext, Fresh, FreshNext
<1>1. ledger \in Seq(Deeds)
  BY DEF TypeInv, GatewayTyped
<1>2. ASSUME i \in DOMAIN ledger, ledger'[i] = ledger[i]
      PROVE  /\ NamedNext(ledger'[i], ledger'[i].sent)
             /\ ledger'[i].path = "audit" => ledger'[i].role \in {"admin", Nothing}
  <2>1. ledger[i] \in Deeds
    BY <1>1, <1>2
  <2>2. ledger[i].sent \in Int /\ Named(ledger[i], ledger[i].sent)
    BY <1>2, <2>1 DEF Deeds, LedgerFresh, Named
  <2> QED BY <1>2, <2>2, NamedStays DEF LedgerFresh
<1>3. ASSUME NEW r \in wire, r.reply = "none", ledger' = Append(ledger, Deed(r)),
             r.path = "audit" => r.role \in {"admin", Nothing}
      PROVE  /\ NamedNext(ledger'[i], ledger'[i].sent)
             /\ ledger'[i].path = "audit" => ledger'[i].role \in {"admin", Nothing}
  <2>1. i \in 1..Len(ledger) + 1 /\ Len(ledger) \in Nat
    BY <1>1, <1>3
  <2>2. CASE i = Len(ledger) + 1
    <3>1. ledger'[i] = Deed(r)
      BY <1>1, <1>3, <2>2
    <3>2. r.at \in Int /\ Named(r, r.at)
      BY <1>3 DEF WireFresh, Named, TypeInv, GatewayTyped, Sent
    <3>3. NamedNext(r, r.at)
      BY <3>2, NamedStays
    <3> QED BY <1>3, <3>1, <3>3 DEF Deed, NamedNext
  <2>3. CASE i # Len(ledger) + 1
    <3>1. i \in DOMAIN ledger /\ ledger'[i] = ledger[i]
      BY <1>1, <1>3, <2>1, <2>3
    <3> QED BY <1>2, <3>1
  <2> QED BY <2>2, <2>3
<1>4. QED
  BY <1>2, <1>3, LedgerComes

LEMMA SessionInit == Init => SessionInv
<1> SUFFICES ASSUME Init PROVE SessionInv
  OBVIOUS
<1>1. HeldIsCurrent
  <2>1. deploys = 0 /\ now = 0 /\ \A a \in Accounts : RolesOf[a][1] \in Roles
    BY Constants, RolesAreConfigured DEF Init, LimiterInit
  <2>2. \A a \in Accounts : RoleNow(a) = RolesOf[a][1]
    BY <2>1 DEF RoleNow
  <2> QED BY <2>1, <2>2 DEF Init, HeldIsCurrent
<1>2. CookiesFresh /\ CallsFresh /\ WireFresh /\ LedgerFresh
  BY DEF Init, CookiesFresh, CallsFresh, WireFresh, LedgerFresh, InHand
<1>3. QED
  BY <1>1, <1>2 DEF SessionInv

LEMMA SessionStep ==
  ASSUME TypeInv, TypeInv', SessionInv, [Next]_vars
  PROVE  SessionInv'
BY HeldStep, CookiesStep, CallsStep, WireStep, LedgerStep DEF SessionInv

-----------------------------------------------------------------------------
(* Calls and their answers                                                 *)

Done(n) == \E i \in DOMAIN ledger : ledger[i].n = n
OnWire(n) == \E r \in wire : r.n = n
DoneNext(n) == \E i \in DOMAIN ledger' : ledger'[i].n = n
OnWireNext(n) == \E r \in wire' : r.n = n
Refused == {"malformed", "forbidden", "throttled"}

(* Calls are numbered as they are made, each made with its request. *)
Numbered == \E m \in 0..requests : Made = 1..m

(* One call is on its way, or done, once. *)
WireAlone == \A r, s \in wire : r.n = s.n => r = s
LedgerOnce == \A i, j \in DOMAIN ledger : ledger[i].n = ledger[j].n => i = j

(* The API answers as it did. *)
RepliesTrue == \A r \in wire : r.reply = "done" <=> Done(r.n)

(* A call refused, or not made yet, is not with the API. *)
AnswersKept ==
  \A n \in Calls :
    /\ answers[n] \in Refused \union {"unmade"} => ~Done(n) /\ ~OnWire(n)
    /\ answers[n] = "done" => Done(n)

(* Each browser in hand has a call of its own, which is open, and until it  *)
(* is sent the API has not seen it.                                         *)
HandsOpen ==
  \A b \in Browsers : stage[b] \in InHand =>
    /\ answers[call[b].n] = "open"
    /\ \A c \in Browsers : stage[c] \in InHand /\ call[c].n = call[b].n => c = b
    /\ stage[b] # "sent" => ~Done(call[b].n) /\ ~OnWire(call[b].n)

CallInv ==
  Numbered /\ WireAlone /\ LedgerOnce /\ RepliesTrue /\ AnswersKept /\ HandsOpen

LEMMA CallInit == Init => CallInv
<1> SUFFICES ASSUME Init PROVE CallInv
  OBVIOUS
<1>1. Numbered
  <2>1. Made = 1..0 /\ 0 \in 0..requests
    BY DEF Init, Made
  <2> QED BY <2>1 DEF Numbered
<1>2. ~\E n \in Calls : Done(n) \/ OnWire(n)
  BY DEF Init, Done, OnWire
<1>3. AnswersKept
  BY <1>2 DEF Init, AnswersKept
<1>4. WireAlone /\ LedgerOnce /\ RepliesTrue /\ HandsOpen
  BY DEF Init, WireAlone, LedgerOnce, RepliesTrue, HandsOpen, InHand
<1>5. QED
  BY <1>1, <1>3, <1>4 DEF CallInv

(* The number of the next call is one more than that of the last. *)
LEMMA NextIsNew ==
  ASSUME TypeInv, Numbered
  PROVE  /\ NextCall \in Nat /\ NextCall > 0 /\ Made = 1..NextCall - 1
         /\ NextCall - 1 \in 0..requests
         /\ requests < MaxRequests => NextCall \in Calls /\ answers[NextCall] = "unmade"
<1>1. PICK m \in 0..requests : Made = 1..m
  BY DEF Numbered
<1>2. requests \in Nat /\ requests <= MaxRequests /\ MaxRequests \in Nat /\ m \in Nat /\ m <= requests
  BY Constants DEF TypeInv, WorldTyped
<1>3. Cardinality(1..m) = m
  BY <1>2, FS_Interval
<1>4. NextCall = m + 1
  BY <1>1, <1>3 DEF NextCall
<1>5. NextCall - 1 = m
  BY <1>2, <1>4
<1>6. ASSUME requests < MaxRequests
      PROVE  NextCall \in Calls /\ answers[NextCall] = "unmade"
  <2>1. m + 1 \in 1..MaxRequests /\ m + 1 \notin 1..m
    BY <1>2, <1>6
  <2> QED BY <1>1, <1>4, <2>1 DEF Calls, Made
<1>7. QED
  BY <1>1, <1>2, <1>4, <1>5, <1>6

(* Steps that are none of the gateway's. *)
Quiet ==
  /\ UNCHANGED gateway
  /\ requests' \in Nat /\ requests <= requests'
  /\ \A b \in Browsers : stage'[b] \in InHand => stage'[b] = stage[b]

LEMMA QuietStep ==
  ASSUME TypeInv, TypeInv',
         \/ \E b \in Browsers : LoginStep(b)
         \/ Pass \/ UNCHANGED vars \/ \E c \in Clients : OtherWrite(c)
  PROVE  Quiet
<1>1. UNCHANGED gateway
  BY DEF LoginStep, SubmitBroken, SubmitForm, SignIn, RejectForm, SignOut, Pass, OtherWrite,
         vars, console
<1>2. requests \in Int /\ requests' \in Nat
  BY DEF TypeInv, WorldTyped
<1>3. requests' = requests \/ requests' = requests + 1
  BY DEF LoginStep, SubmitBroken, SubmitForm, SignIn, RejectForm, SignOut, Pass, OtherWrite,
         vars, console
<1>4. requests <= requests'
  BY <1>2, <1>3
<1>5. ASSUME NEW b \in Browsers, stage'[b] \in InHand
      PROVE  stage'[b] = stage[b]
  <2>1. CASE \E c \in Browsers : LoginStep(c)
    BY <1>5, <2>1 DEF LoginStep, SubmitBroken, SubmitForm, SignIn, RejectForm, SignOut, Goto,
                      InHand, TypeInv, WorldTyped
  <2>2. CASE ~\E c \in Browsers : LoginStep(c)
    BY <2>2 DEF Pass, OtherWrite, vars, console
  <2> QED BY <2>1, <2>2
<1>6. QED
  BY <1>1, <1>2, <1>4, <1>5 DEF Quiet

(* The numbers made are kept by what only answers them. *)
LEMMA NumberedStays ==
  ASSUME TypeInv, TypeInv', Numbered, requests <= requests',
         \A n \in Calls : answers'[n] = "unmade" <=> answers[n] = "unmade"
  PROVE  Numbered'
<1>1. Made' = Made
  BY DEF Made
<1>2. PICK m \in 0..requests : Made = 1..m
  BY DEF Numbered
<1>3. requests \in Int /\ requests' \in Int /\ m \in Int
  BY DEF TypeInv, WorldTyped
<1>4. m \in 0..requests'
  BY <1>2, <1>3
<1>5. QED
  BY <1>1, <1>2, <1>4 DEF Numbered

LEMMA CallsQuiet ==
  ASSUME TypeInv, TypeInv', CallInv, Quiet
  PROVE  CallInv'
<1>1. Numbered'
  BY NumberedStays DEF CallInv, Quiet, gateway
<1>2. \A n : (Done(n)' <=> Done(n)) /\ (OnWire(n)' <=> OnWire(n))
  BY DEF Quiet, gateway, Done, OnWire
<1>3. WireAlone' /\ LedgerOnce' /\ RepliesTrue' /\ AnswersKept'
  BY <1>2 DEF CallInv, Quiet, gateway, WireAlone, LedgerOnce, RepliesTrue, AnswersKept
<1>4. HandsOpen'
  BY <1>2 DEF CallInv, Quiet, gateway, HandsOpen
<1>5. QED
  BY <1>1, <1>3, <1>4 DEF CallInv

LEMMA CallsEnter ==
  ASSUME TypeInv, TypeInv', CallInv, NEW b \in Browsers, NEW path \in Paths,
         EnterGateway(b, path)
  PROVE  CallInv'
<1> DEFINE n == NextCall
<1>1. /\ n \in Calls /\ answers[n] = "unmade" /\ n \in Nat /\ n > 0
      /\ Made = 1..n - 1 /\ n - 1 \in 0..requests
  BY NextIsNew DEF EnterGateway, CallInv
<1>2. answers' = [answers EXCEPT ![n] = "open"] \/ answers' = [answers EXCEPT ![n] = "forbidden"]
  BY DEF EnterGateway
<1>3. UNCHANGED <<wire, ledger>> /\ requests' = requests + 1
  BY DEF EnterGateway
<1>4. /\ answers'[n] \in {"open", "forbidden"}
      /\ \A m \in Calls \ {n} : answers'[m] = answers[m]
  BY <1>1, <1>2 DEF TypeInv, GatewayTyped
<1>5. \/ call'[b].n = n /\ stage'[b] = "admitted" /\ answers'[n] = "open"
      \/ stage'[b] = "idle"
  BY <1>1 DEF EnterGateway, Goto, TypeInv, WorldTyped, GatewayTyped
<1>6. \A c \in Browsers \ {b} : stage'[c] = stage[c] /\ call'[c] = call[c]
  BY DEF EnterGateway, Goto, TypeInv, WorldTyped, GatewayTyped
<1> HIDE DEF n
<1>7. Numbered'
  <2>1. Made' = Made \union {n}
    BY <1>1, <1>4 DEF Made
  <2>2. 1..n = (1..n - 1) \union {n}
    BY <1>1
  <2>3. requests' \in Int /\ requests \in Int
    BY DEF TypeInv, WorldTyped
  <2>4. n \in 0..requests'
    BY <1>1, <1>3, <2>3
  <2> QED BY <1>1, <2>1, <2>2, <2>4 DEF Numbered
<1>8. \A m : (Done(m)' <=> Done(m)) /\ (OnWire(m)' <=> OnWire(m))
  BY <1>3 DEF Done, OnWire
<1>9. ~Done(n) /\ ~OnWire(n)
  BY <1>1 DEF CallInv, AnswersKept
<1>10. WireAlone' /\ LedgerOnce' /\ RepliesTrue'
  BY <1>3, <1>8 DEF CallInv, WireAlone, LedgerOnce, RepliesTrue
<1>11. AnswersKept'
  BY <1>4, <1>8, <1>9 DEF CallInv, AnswersKept
<1>12. HandsOpen'
  <2>1. \A c \in Browsers \ {b} : stage'[c] \in InHand =>
          call'[c].n \in Calls /\ call'[c].n # n /\ answers'[call'[c].n] = "open"
    <3>1. ASSUME NEW c \in Browsers \ {b}, stage'[c] \in InHand
          PROVE  call'[c].n \in Calls /\ call'[c].n # n /\ answers'[call'[c].n] = "open"
      <4>1. stage[c] \in InHand /\ call'[c] = call[c] /\ call[c] \in CallRecords
        BY <1>6, <3>1 DEF TypeInv, GatewayTyped
      <4>2. call[c].n \in Calls /\ answers[call[c].n] = "open"
        BY <4>1 DEF CallRecords, CallInv, HandsOpen
      <4> QED BY <1>1, <1>4, <4>1, <4>2
    <3> QED BY <3>1
  <2>2. stage'[b] \in InHand => call'[b].n = n /\ answers'[n] = "open"
    BY <1>5 DEF InHand
  <2>3. \A c \in Browsers \ {b} : stage'[c] \in InHand =>
          /\ \A a \in Browsers : stage'[a] \in InHand /\ call'[a].n = call'[c].n => a = c
          /\ stage'[c] # "sent" => ~Done(call'[c].n) /\ ~OnWire(call'[c].n)
    BY <1>6, <2>1, <2>2 DEF CallInv, HandsOpen
  <2> QED BY <1>8, <1>9, <2>1, <2>2, <2>3 DEF HandsOpen
<1>13. QED
  BY <1>7, <1>10, <1>11, <1>12 DEF CallInv

(* The session holds for now: only the call's stage changes. *)
LEMMA CallsAttributed ==
  ASSUME TypeInv, TypeInv', CallInv, NEW b \in Browsers, stage[b] = "admitted",
         Goto(b, "attributed"), UNCHANGED <<gateway, requests>>
  PROVE  CallInv'
<1>1. /\ stage'[b] = "attributed"
      /\ \A c \in Browsers \ {b} : stage'[c] = stage[c]
  BY DEF Goto, TypeInv, WorldTyped
<1>2. Numbered'
  BY NumberedStays DEF CallInv, gateway, TypeInv, WorldTyped
<1>3. \A m : (Done(m)' <=> Done(m)) /\ (OnWire(m)' <=> OnWire(m))
  BY DEF Done, OnWire, gateway
<1>4. WireAlone' /\ LedgerOnce' /\ RepliesTrue' /\ AnswersKept'
  BY <1>3 DEF CallInv, gateway, WireAlone, LedgerOnce, RepliesTrue, AnswersKept
<1>5. \A c \in Browsers : stage'[c] \in InHand =>
        stage[c] \in InHand /\ (stage'[c] # "sent" => stage[c] # "sent")
  BY <1>1 DEF InHand
<1>6. HandsOpen'
  BY <1>3, <1>5 DEF CallInv, HandsOpen, gateway
<1>7. QED
  BY <1>2, <1>4, <1>6 DEF CallInv

(* A call is answered, truly, and perhaps taken off its way. *)
LEMMA CallsAnswered ==
  ASSUME TypeInv, TypeInv', CallInv, NEW b \in Browsers, stage[b] \in InHand,
         NEW code \in Codes \ {"unmade"}, AnswerCall(b, code),
         wire' \subseteq wire, UNCHANGED <<ledger, requests>>,
         code = "done" => Done(call[b].n),
         code \in Refused => ~Done(call[b].n) /\ \A r \in wire' : r.n # call[b].n
  PROVE  CallInv'
<1> DEFINE n == call[b].n
<1>1. n \in Calls /\ answers[n] = "open"
  BY DEF TypeInv, GatewayTyped, CallRecords, CallInv, HandsOpen
<1>2. answers'[n] = code /\ \A m \in Calls \ {n} : answers'[m] = answers[m]
  BY <1>1 DEF AnswerCall, TypeInv, GatewayTyped
<1>3. /\ stage'[b] = "idle"
      /\ \A c \in Browsers \ {b} : stage'[c] = stage[c] /\ call'[c] = call[c]
  BY DEF AnswerCall, Goto, TypeInv, WorldTyped, GatewayTyped
<1>4. \A c \in Browsers \ {b} : stage[c] \in InHand => call[c].n \in Calls \ {n}
  <2>1. \A c \in Browsers \ {b} : stage[c] \in InHand => call[c].n \in Calls
    BY DEF TypeInv, GatewayTyped, CallRecords
  <2> QED BY <2>1 DEF CallInv, HandsOpen
<1>5. code = "done" => Done(n)
  OBVIOUS
<1>6. code \in Refused => ~Done(n) /\ \A r \in wire' : r.n # n
  OBVIOUS
<1> HIDE DEF n
<1>7. Numbered'
  <2>1. requests \in Int
    BY DEF TypeInv, WorldTyped
  <2> QED BY <1>1, <1>2, <2>1, NumberedStays DEF CallInv
<1>8. \A m : (Done(m)' <=> Done(m)) /\ (OnWire(m)' => OnWire(m))
  BY DEF Done, OnWire
<1>9. WireAlone' /\ LedgerOnce' /\ RepliesTrue'
  BY <1>8 DEF CallInv, WireAlone, LedgerOnce, RepliesTrue
<1>10. AnswersKept'
  <2>1. ASSUME NEW m \in Calls
        PROVE  /\ answers'[m] \in Refused \union {"unmade"} => ~Done(m)' /\ ~OnWire(m)'
               /\ answers'[m] = "done" => Done(m)'
    <3>1. CASE m = n
      BY <1>2, <1>5, <1>6, <1>8, <3>1 DEF OnWire
    <3>2. CASE m # n
      BY <1>2, <1>8, <3>2 DEF CallInv, AnswersKept
    <3> QED BY <3>1, <3>2
  <2> QED BY <2>1 DEF AnswersKept
<1>11. HandsOpen'
  <2>1. \A c \in Browsers : stage'[c] \in InHand => c # b
    BY <1>3 DEF InHand
  <2>2. ASSUME NEW c \in Browsers \ {b}, stage[c] \in InHand
        PROVE  /\ answers'[call[c].n] = "open"
               /\ stage[c] # "sent" => ~DoneNext(call[c].n) /\ ~OnWireNext(call[c].n)
    <3>1. \A m : (DoneNext(m) <=> Done(m)) /\ (OnWireNext(m) => OnWire(m))
      BY <1>8 DEF Done, OnWire, DoneNext, OnWireNext
    <3> QED BY <1>2, <1>4, <2>2, <3>1 DEF CallInv, HandsOpen
  <2>3. \A c \in Browsers \ {b} : stage[c] \in InHand =>
          \A a \in Browsers : stage[a] \in InHand /\ call[a].n = call[c].n => a = c
    BY DEF CallInv, HandsOpen
  <2> QED BY <1>3, <2>1, <2>2, <2>3 DEF HandsOpen, Done, OnWire, DoneNext, OnWireNext
<1>12. QED
  BY <1>7, <1>9, <1>10, <1>11 DEF CallInv

LEMMA CallsForwarded ==
  ASSUME TypeInv, TypeInv', CallInv, NEW b \in Browsers, ForwardCall(b)
  PROVE  CallInv'
<1> DEFINE n == call[b].n
           s == Outgoing(b)
<1>1. /\ stage[b] \in InHand /\ stage[b] # "sent" /\ n \in Calls
      /\ wire' = wire \union {s} /\ s.n = n /\ s.reply = "none"
  BY DEF ForwardCall, InHand, Outgoing, TypeInv, GatewayTyped, CallRecords
<1>2. /\ answers[n] = "open" /\ ~Done(n) /\ ~OnWire(n)
      /\ \A c \in Browsers \ {b} : stage[c] \in InHand => call[c].n # n
  BY <1>1 DEF CallInv, HandsOpen
<1>3. UNCHANGED <<ledger, answers, requests>>
  BY DEF ForwardCall
<1>4. /\ stage'[b] = "sent" /\ call'[b].n = n
      /\ \A c \in Browsers \ {b} : stage'[c] = stage[c] /\ call'[c] = call[c]
  <2>1. call[b] \in CallRecords
    BY <1>1 DEF TypeInv, GatewayTyped
  <2>2. call' = [call EXCEPT ![b] = [call[b] EXCEPT !.at = now]]
    BY DEF ForwardCall, TypeInv, GatewayTyped
  <2> QED BY <2>1, <2>2 DEF ForwardCall, Goto, CallRecords, TypeInv, WorldTyped, GatewayTyped
<1> HIDE DEF n, s
<1>5. Numbered'
  BY <1>3, NumberedStays DEF CallInv, TypeInv, WorldTyped
<1>6. \A m : (Done(m)' <=> Done(m)) /\ (OnWire(m)' <=> OnWire(m) \/ m = n)
  BY <1>1, <1>3 DEF Done, OnWire
<1>7. \A r \in wire : r.n # n
  BY <1>2 DEF OnWire
<1>8. WireAlone'
  BY <1>1, <1>7 DEF CallInv, WireAlone
<1>9. LedgerOnce'
  BY <1>3 DEF CallInv, LedgerOnce
<1>10. RepliesTrue'
  BY <1>1, <1>2, <1>6 DEF CallInv, RepliesTrue
<1>11. AnswersKept'
  BY <1>2, <1>3, <1>6 DEF CallInv, AnswersKept, Refused
<1>12. HandsOpen'
  <2>1. \A m : (DoneNext(m) <=> Done(m)) /\ (OnWireNext(m) <=> OnWire(m) \/ m = n)
    BY <1>6 DEF Done, OnWire, DoneNext, OnWireNext
  <2>2. \A c \in Browsers : stage'[c] \in InHand =>
          stage[c] \in InHand /\ call'[c].n = call[c].n
    BY <1>1, <1>4 DEF n
  <2>3. \A c \in Browsers : stage'[c] \in InHand =>
          /\ answers'[call'[c].n] = "open"
          /\ \A a \in Browsers : stage'[a] \in InHand /\ call'[a].n = call'[c].n => a = c
    BY <1>3, <2>2 DEF CallInv, HandsOpen
  <2>4. \A c \in Browsers \ {b} : stage'[c] \in InHand /\ stage'[c] # "sent" =>
          ~DoneNext(call'[c].n) /\ ~OnWireNext(call'[c].n)
    BY <1>2, <1>4, <2>1 DEF CallInv, HandsOpen
  <2> QED BY <1>4, <2>3, <2>4 DEF HandsOpen, Done, OnWire, DoneNext, OnWireNext
<1>13. QED
  BY <1>5, <1>8, <1>9, <1>10, <1>11, <1>12 DEF CallInv

(* What a reply puts on the wire in the place of the call. *)
LEMMA ReplyOnWire ==
  ASSUME TypeInv, NEW r \in wire,
         \/ ledger' = Append(ledger, Deed(r)) /\ Reply(r, "done")
         \/ UNCHANGED ledger /\ \E code \in {"throttled", "forbidden"} : Reply(r, code)
  PROVE  \E s : /\ s.n = r.n /\ s.at = now /\ s.reply \in {"done", "throttled", "forbidden"}
               /\ wire' = (wire \ {r}) \union {s}
               /\ \/ s.reply = "done" /\ ledger' = Append(ledger, Deed(r))
                  \/ s.reply # "done" /\ UNCHANGED ledger
<1>1. PICK code \in {"done", "throttled", "forbidden"} :
        /\ Reply(r, code)
        /\ \/ code = "done" /\ ledger' = Append(ledger, Deed(r))
           \/ code # "done" /\ UNCHANGED ledger
  OBVIOUS
<1> DEFINE s == [r EXCEPT !.reply = code, !.at = now]
<1>2. s.n = r.n /\ s.at = now /\ s.reply = code
  BY DEF TypeInv, GatewayTyped, Sent
<1>3. wire' = (wire \ {r}) \union {s}
  BY <1>1 DEF Reply
<1> HIDE DEF s
<1>4. QED
  BY <1>1, <1>2, <1>3

(* The API does a call that waits, or refuses it. *)
LEMMA CallsReplied ==
  ASSUME TypeInv, TypeInv', CallInv, NEW r \in wire, r.reply = "none",
         UNCHANGED <<stage, call, answers, requests>>,
         \/ ledger' = Append(ledger, Deed(r)) /\ Reply(r, "done")
         \/ UNCHANGED ledger /\ \E code \in {"throttled", "forbidden"} : Reply(r, code)
  PROVE  CallInv'
<1>1. PICK s : /\ s.n = r.n /\ s.at = now /\ s.reply \in {"done", "throttled", "forbidden"}
               /\ wire' = (wire \ {r}) \union {s}
               /\ \/ s.reply = "done" /\ ledger' = Append(ledger, Deed(r))
                  \/ s.reply # "done" /\ UNCHANGED ledger
  BY ReplyOnWire
<1>2. r.n \in Calls /\ ~Done(r.n) /\ OnWire(r.n)
  BY DEF CallInv, RepliesTrue, TypeInv, GatewayTyped, Sent, OnWire
<1>3. ledger \in Seq(Deeds)
  BY DEF TypeInv, GatewayTyped
<1>4. \A m : OnWire(m)' <=> OnWire(m)
  BY <1>1 DEF OnWire
<1>5. ASSUME s.reply = "done"
      PROVE  LedgerOnce' /\ \A m : Done(m)' <=> Done(m) \/ m = r.n
  <2>1. ledger' = Append(ledger, Deed(r))
    BY <1>1, <1>5
  <2>2. /\ Len(ledger) \in Nat /\ DOMAIN ledger = 1..Len(ledger)
        /\ DOMAIN ledger' = 1..Len(ledger) + 1
        /\ \A i \in 1..Len(ledger) : ledger'[i] = ledger[i]
        /\ ledger'[Len(ledger) + 1] = Deed(r)
    BY <1>3, <2>1
  <2>3. Deed(r).n = r.n
    BY DEF Deed
  <2>4. \A i \in DOMAIN ledger' : i \in DOMAIN ledger \/ i = Len(ledger) + 1
    BY <2>2
  <2>5. DOMAIN ledger \subseteq DOMAIN ledger' /\ Len(ledger) + 1 \in DOMAIN ledger'
    BY <2>2
  <2>6. \A m : Done(m)' <=> Done(m) \/ m = r.n
    BY <2>2, <2>3, <2>4, <2>5 DEF Done
  <2>7. \A i \in DOMAIN ledger : ledger[i].n # r.n
    BY <1>2 DEF Done
  <2>8. LedgerOnce'
    BY <2>2, <2>3, <2>4, <2>7 DEF CallInv, LedgerOnce
  <2> QED BY <2>6, <2>8
<1>6. ASSUME s.reply # "done"
      PROVE  LedgerOnce' /\ \A m : Done(m)' <=> Done(m)
  BY <1>1, <1>6 DEF CallInv, LedgerOnce, Done
<1>7. \A m : Done(m)' <=> Done(m) \/ (s.reply = "done" /\ m = r.n)
  BY <1>5, <1>6
<1>8. Numbered'
  BY NumberedStays DEF CallInv, TypeInv, WorldTyped
<1>9. WireAlone'
  BY <1>1 DEF CallInv, WireAlone
<1>10. RepliesTrue'
  <2>1. ASSUME NEW q \in wire \ {r}
        PROVE  q.reply = "done" <=> Done(q.n)'
    <3>1. q.n # r.n
      BY DEF CallInv, WireAlone
    <3>2. q.reply = "done" <=> Done(q.n)
      BY DEF CallInv, RepliesTrue
    <3> QED BY <1>7, <3>1, <3>2
  <2>2. s.reply = "done" <=> Done(s.n)'
    BY <1>1, <1>2, <1>7
  <2> QED BY <1>1, <2>1, <2>2 DEF RepliesTrue
<1>11. AnswersKept'
  BY <1>2, <1>4, <1>7 DEF CallInv, AnswersKept
<1>12. HandsOpen'
  <2>1. \A m : (DoneNext(m) <=> Done(m) \/ (s.reply = "done" /\ m = r.n))
               /\ (OnWireNext(m) <=> OnWire(m))
    BY <1>4, <1>7 DEF Done, OnWire, DoneNext, OnWireNext
  <2>2. ASSUME NEW b \in Browsers, stage[b] \in InHand, stage[b] # "sent"
        PROVE  ~DoneNext(call[b].n) /\ ~OnWireNext(call[b].n)
    <3>1. ~Done(call[b].n) /\ ~OnWire(call[b].n)
      BY <2>2 DEF CallInv, HandsOpen
    <3>2. call[b].n # r.n
      BY <1>2, <3>1
    <3> QED BY <2>1, <3>1, <3>2
  <2>3. /\ stage' = stage /\ call' = call /\ answers' = answers
        /\ \A b \in Browsers : stage[b] \in InHand =>
             /\ answers[call[b].n] = "open"
             /\ \A c \in Browsers : stage[c] \in InHand /\ call[c].n = call[b].n => c = b
    BY DEF CallInv, HandsOpen
  <2> QED BY <2>2, <2>3 DEF HandsOpen, Done, OnWire, DoneNext, OnWireNext
<1>13. QED
  BY <1>5, <1>6, <1>8, <1>9, <1>10, <1>11, <1>12 DEF CallInv

LEMMA CallsLost ==
  ASSUME TypeInv, TypeInv', CallInv, wire' \subseteq wire,
         UNCHANGED <<stage, call, answers, requests, ledger>>
  PROVE  CallInv'
<1>1. Numbered'
  BY NumberedStays DEF CallInv, TypeInv, WorldTyped
<1>2. \A m : (Done(m)' <=> Done(m)) /\ (OnWire(m)' => OnWire(m))
  BY DEF Done, OnWire
<1>3. WireAlone' /\ LedgerOnce' /\ RepliesTrue' /\ AnswersKept'
  BY <1>2 DEF CallInv, WireAlone, LedgerOnce, RepliesTrue, AnswersKept
<1>4. HandsOpen'
  BY <1>2 DEF CallInv, HandsOpen
<1>5. QED
  BY <1>1, <1>3, <1>4 DEF CallInv

LEMMA CallsDeployed ==
  ASSUME TypeInv, TypeInv', CallInv, Deploy
  PROVE  CallInv'
<1>1. /\ UNCHANGED <<wire, ledger, requests>> /\ \A b \in Browsers : stage'[b] = "idle"
      /\ \A n \in Calls : answers'[n] = IF answers[n] = "open" THEN "lost" ELSE answers[n]
  BY DEF Deploy
<1>2. Numbered'
  BY <1>1, NumberedStays DEF CallInv, TypeInv, WorldTyped
<1>3. \A m : (Done(m)' <=> Done(m)) /\ (OnWire(m)' <=> OnWire(m))
  BY <1>1 DEF Done, OnWire
<1>4. WireAlone' /\ LedgerOnce' /\ RepliesTrue'
  BY <1>1, <1>3 DEF CallInv, WireAlone, LedgerOnce, RepliesTrue
<1>5. AnswersKept'
  BY <1>1, <1>3 DEF CallInv, AnswersKept, Refused
<1>6. HandsOpen'
  BY <1>1 DEF HandsOpen, InHand
<1>7. QED
  BY <1>2, <1>4, <1>5, <1>6 DEF CallInv

LEMMA CallStep ==
  ASSUME TypeInv, TypeInv', CallInv, [Next]_vars
  PROVE  CallInv'
<1>1. ASSUME \/ \E b \in Browsers : LoginStep(b)
             \/ Pass \/ UNCHANGED vars \/ \E c \in Clients : OtherWrite(c)
      PROVE  CallInv'
  BY <1>1, QuietStep, CallsQuiet
<1>2. ASSUME NEW b \in Browsers, GatewayStep(b)
      PROVE  CallInv'
  <2>1. stage[b] \in InHand /\ call[b].n \in Calls
    BY <1>2 DEF GatewayStep, AttributeCall, ForwardCall, DeliverAnswer, GiveUp, InHand,
                TypeInv, GatewayTyped, CallRecords
  <2>2. CASE AttributeCall(b)
    <3>1. stage[b] = "admitted" /\ UNCHANGED <<wire, ledger, requests>>
      BY <2>2 DEF AttributeCall
    <3>2. CASE Verify(call[b].token)
      BY <2>2, <3>1, <3>2, CallsAttributed DEF AttributeCall, gateway
    <3>3. CASE ~Verify(call[b].token)
      <4>1. ~Done(call[b].n) /\ ~OnWire(call[b].n)
        BY <2>1, <3>1 DEF CallInv, HandsOpen
      <4>2. AnswerCall(b, "malformed") /\ "malformed" \in Codes \ {"unmade"}
        BY <2>2, <3>3 DEF AttributeCall, Codes
      <4> QED BY <2>1, <3>1, <4>1, <4>2, CallsAnswered DEF OnWire
    <3> QED BY <3>2, <3>3
  <2>3. CASE ForwardCall(b)
    BY <2>3, CallsForwarded
  <2>4. CASE DeliverAnswer(b)
    <3>1. PICK r \in wire : /\ r.n = call[b].n /\ r.reply # "none"
                            /\ AnswerCall(b, r.reply) /\ wire' = wire \ {r}
      BY <2>4 DEF DeliverAnswer
    <3>2. r.reply \in Codes \ {"unmade"}
      BY <3>1 DEF TypeInv, GatewayTyped, Sent, Replies, Codes
    <3>3. r.reply = "done" <=> Done(call[b].n)
      BY <3>1 DEF CallInv, RepliesTrue
    <3>4. \A q \in wire' : q.n # call[b].n
      BY <3>1 DEF CallInv, WireAlone
    <3>5. r.reply \in Refused => r.reply # "done"
      BY DEF Refused
    <3>6. UNCHANGED <<ledger, requests>> /\ wire' \subseteq wire
      BY <2>4, <3>1 DEF DeliverAnswer
    <3> QED BY <2>1, <3>1, <3>2, <3>3, <3>4, <3>5, <3>6, CallsAnswered
  <2>5. CASE GiveUp(b)
    <3>1. "unavailable" \in Codes \ {"unmade"} /\ "unavailable" \notin Refused
      BY DEF Codes, Refused
    <3>2. AnswerCall(b, "unavailable") /\ UNCHANGED <<wire, ledger, requests>>
      BY <2>5 DEF GiveUp
    <3> QED BY <2>1, <3>1, <3>2, CallsAnswered
  <2> QED BY <1>2, <2>2, <2>3, <2>4, <2>5 DEF GatewayStep
<1>3. ASSUME NEW r \in wire, EvaluateCall(r) \/ ReadTrail(r)
      PROVE  CallInv'
  <2>1. /\ r.reply = "none" /\ UNCHANGED <<stage, call, answers, requests>>
        /\ \/ ledger' = Append(ledger, Deed(r)) /\ Reply(r, "done")
           \/ UNCHANGED ledger /\ \E code \in {"throttled", "forbidden"} : Reply(r, code)
    BY <1>3 DEF EvaluateCall, ReadTrail
  <2> QED BY <2>1, CallsReplied
<1>4. ASSUME NEW r \in wire, LoseCall(r)
      PROVE  CallInv'
  <2>1. wire' \subseteq wire /\ UNCHANGED <<ledger, requests>>
    BY <1>4 DEF LoseCall
  <2>2. CASE UNCHANGED <<stage, call, answers>>
    BY <2>1, <2>2, CallsLost
  <2>3. ASSUME NEW b \in Browsers, stage[b] = "sent", AnswerCall(b, "unavailable")
        PROVE  CallInv'
    <3>1. /\ "unavailable" \in Codes \ {"unmade"} /\ "unavailable" \notin Refused
          /\ stage[b] \in InHand
      BY <2>3 DEF Codes, Refused, InHand
    <3> QED BY <2>1, <2>3, <3>1, CallsAnswered
  <2> QED BY <1>4, <2>2, <2>3 DEF LoseCall
<1>5. QED
  BY <1>1, <1>2, <1>3, <1>4, StepCases, CallsEnter, CallsDeployed

LEMMA CallsAreTyped == Spec => [](TypeInv /\ CallInv)
<1>1. Init => TypeInv /\ CallInv
  BY InitTyped, CallInit
<1>2. TypeInv /\ CallInv /\ [Next]_vars => TypeInv' /\ CallInv'
  <2> SUFFICES ASSUME TypeInv, CallInv, [Next]_vars
               PROVE  TypeInv' /\ CallInv'
    OBVIOUS
  <2>1. requests < MaxRequests => NextCall \in Calls
    BY NextIsNew DEF CallInv
  <2>2. TypeInv'
    BY <2>1, TypeStep
  <2> QED BY <2>2, CallStep
<1>3. QED
  BY <1>1, <1>2, PTL DEF Spec

-----------------------------------------------------------------------------
(* Time on the way                                                         *)

InTime(d) == d.at - d.sent <= UpstreamTimeout

(* While the gateway waits, the wire knows when the call left, and with its *)
(* answer when it was done.                                                 *)
WireTellsTime ==
  \A b \in Browsers, r \in wire : stage[b] = "sent" /\ r.n = call[b].n =>
    /\ r.reply = "none" => r.at = call[b].at
    /\ r.reply = "done" =>
         \A i \in DOMAIN ledger : ledger[i].n = r.n =>
           ledger[i].sent = call[b].at /\ ledger[i].at = r.at

DoneInTime == \A i \in DOMAIN ledger : answers[ledger[i].n] = "done" => InTime(ledger[i])

TimeInv == WireTellsTime /\ DoneInTime

(* Steps after which the gateway waits for no call anew, and no answer but   *)
(* one that came in time is heard.                                          *)
LEMMA TimesKept ==
  ASSUME TypeInv, TimeInv, ledger' = ledger, wire' \subseteq wire,
         \A b \in Browsers : stage'[b] = "sent" => stage[b] = "sent" /\ call'[b] = call[b],
         \A n \in Calls : answers'[n] = "done" =>
           answers[n] = "done" \/ \A i \in DOMAIN ledger : ledger[i].n = n => InTime(ledger[i])
  PROVE  TimeInv'
<1>1. WireTellsTime'
  BY DEF TimeInv, WireTellsTime
<1>2. \A i \in DOMAIN ledger : ledger[i].n \in Calls
  <2>1. \A i \in DOMAIN ledger : ledger[i] \in Deeds
    BY DEF TypeInv, GatewayTyped
  <2> QED BY <2>1 DEF Deeds
<1>3. DoneInTime'
  BY <1>2 DEF TimeInv, DoneInTime, InTime
<1>4. QED
  BY <1>1, <1>3 DEF TimeInv

LEMMA TimesForwarded ==
  ASSUME TypeInv, CallInv, TimeInv, NEW b \in Browsers, ForwardCall(b)
  PROVE  TimeInv'
<1> DEFINE s == Outgoing(b)
<1>1. /\ stage[b] \in InHand /\ stage[b] # "sent" /\ call[b] \in CallRecords
      /\ wire' = wire \union {s} /\ s.n = call[b].n /\ s.reply = "none" /\ s.at = now
  BY DEF ForwardCall, InHand, Outgoing, TypeInv, GatewayTyped
<1>2. /\ call'[b].n = call[b].n /\ call'[b].at = now
      /\ \A c \in Browsers \ {b} : stage'[c] = stage[c] /\ call'[c] = call[c]
  <2>1. call' = [call EXCEPT ![b] = [call[b] EXCEPT !.at = now]]
    BY DEF ForwardCall, TypeInv, GatewayTyped
  <2> QED BY <1>1, <2>1 DEF ForwardCall, Goto, CallRecords, TypeInv, WorldTyped, GatewayTyped
<1>3. /\ \A r \in wire : r.n # call[b].n
      /\ \A c \in Browsers \ {b} : stage[c] \in InHand => call[c].n # call[b].n
  BY <1>1 DEF CallInv, HandsOpen, OnWire
<1>4. UNCHANGED <<ledger, answers>>
  BY DEF ForwardCall
<1> HIDE DEF s
<1>5. WireTellsTime'
  <2> SUFFICES ASSUME NEW c \in Browsers, NEW r \in wire', stage'[c] = "sent", r.n = call'[c].n
               PROVE  /\ r.reply = "none" => r.at = call'[c].at
                      /\ r.reply = "done" =>
                           \A i \in DOMAIN ledger' : ledger'[i].n = r.n =>
                             ledger'[i].sent = call'[c].at /\ ledger'[i].at = r.at
    BY DEF WireTellsTime
  <2>1. CASE c = b
    BY <1>1, <1>2, <1>3, <2>1
  <2>2. CASE c # b
    <3>1. r \in wire
      BY <1>1, <1>2, <1>3, <2>2 DEF InHand
    <3> QED BY <1>2, <1>4, <2>2, <3>1 DEF TimeInv, WireTellsTime
  <2> QED BY <2>1, <2>2
<1>6. DoneInTime'
  BY <1>4 DEF TimeInv, DoneInTime, InTime
<1>7. QED
  BY <1>5, <1>6 DEF TimeInv

LEMMA TimesReplied ==
  ASSUME TypeInv, CallInv, TimeInv, NEW r \in wire, r.reply = "none",
         UNCHANGED <<stage, call, answers>>,
         \/ ledger' = Append(ledger, Deed(r)) /\ Reply(r, "done")
         \/ UNCHANGED ledger /\ \E code \in {"throttled", "forbidden"} : Reply(r, code)
  PROVE  TimeInv'
<1>1. PICK s : /\ s.n = r.n /\ s.at = now /\ s.reply \in {"done", "throttled", "forbidden"}
               /\ wire' = (wire \ {r}) \union {s}
               /\ \/ s.reply = "done" /\ ledger' = Append(ledger, Deed(r))
                  \/ s.reply # "done" /\ UNCHANGED ledger
  BY ReplyOnWire
<1>2. ~Done(r.n) /\ r.n \in Calls
  BY DEF CallInv, RepliesTrue, TypeInv, GatewayTyped, Sent
<1>3. answers[r.n] # "done"
  BY <1>2 DEF CallInv, AnswersKept
<1>4. \A i \in DOMAIN ledger : ledger[i].n # r.n
  BY <1>2 DEF Done
<1>5. \A q \in wire \ {r} : q.n # r.n
  BY DEF CallInv, WireAlone
<1>6. \A i \in DOMAIN ledger' :
        \/ i \in DOMAIN ledger /\ ledger'[i] = ledger[i]
        \/ s.reply = "done" /\ ledger'[i] = Deed(r)
  <2>1. ledger \in Seq(Deeds)
    BY DEF TypeInv, GatewayTyped
  <2>2. CASE ledger' = Append(ledger, Deed(r)) /\ s.reply = "done"
    <3>1. /\ Len(ledger) \in Nat /\ DOMAIN ledger = 1..Len(ledger)
          /\ DOMAIN ledger' = 1..Len(ledger) + 1
          /\ \A i \in 1..Len(ledger) : ledger'[i] = ledger[i]
          /\ ledger'[Len(ledger) + 1] = Deed(r)
      BY <2>1, <2>2
    <3>2. \A i \in DOMAIN ledger' : i \in DOMAIN ledger \/ i = Len(ledger) + 1
      BY <3>1
    <3> QED BY <2>2, <3>1, <3>2
  <2>3. CASE UNCHANGED ledger
    BY <2>3
  <2> QED BY <1>1, <2>2, <2>3
<1>7. Deed(r).n = r.n /\ Deed(r).sent = r.at /\ Deed(r).at = now
  BY DEF Deed
<1>8. WireTellsTime'
  <2> SUFFICES ASSUME NEW b \in Browsers, NEW q \in wire', stage[b] = "sent", q.n = call[b].n
               PROVE  /\ q.reply = "none" => q.at = call[b].at
                      /\ q.reply = "done" =>
                           \A i \in DOMAIN ledger' : ledger'[i].n = q.n =>
                             ledger'[i].sent = call[b].at /\ ledger'[i].at = q.at
    BY DEF WireTellsTime
  <2>1. CASE q = s
    <3>1. r.at = call[b].at
      BY <1>1, <2>1 DEF TimeInv, WireTellsTime
    <3> QED BY <1>1, <1>4, <1>6, <1>7, <2>1, <3>1
  <2>2. CASE q # s
    <3>1. q \in wire \ {r}
      BY <1>1, <2>2
    <3>2. \A i \in DOMAIN ledger' : ledger'[i].n = q.n =>
            i \in DOMAIN ledger /\ ledger'[i] = ledger[i]
      BY <1>5, <1>6, <1>7, <3>1
    <3> QED BY <3>1, <3>2 DEF TimeInv, WireTellsTime
  <2> QED BY <2>1, <2>2
<1>9. DoneInTime'
  BY <1>3, <1>6, <1>7 DEF TimeInv, DoneInTime, InTime
<1>10. QED
  BY <1>8, <1>9 DEF TimeInv

(* The gateway hears of a call that was done only if its answer began before *)
(* the timer ran.                                                           *)
LEMMA TimesAnswered ==
  ASSUME TypeInv, TimeInv, NEW b \in Browsers, stage[b] \in InHand,
         NEW code, AnswerCall(b, code), wire' \subseteq wire, ledger' = ledger,
         code = "done" =>
           \A i \in DOMAIN ledger : ledger[i].n = call[b].n => InTime(ledger[i])
  PROVE  TimeInv'
<1>1. call[b].n \in Calls
  BY DEF TypeInv, GatewayTyped, CallRecords
<1>2. \A n \in Calls : answers'[n] = IF n = call[b].n THEN code ELSE answers[n]
  BY <1>1 DEF AnswerCall, TypeInv, GatewayTyped
<1>3. \A c \in Browsers : stage'[c] = "sent" => stage[c] = "sent" /\ call'[c] = call[c]
  BY DEF AnswerCall, Goto, TypeInv, WorldTyped, GatewayTyped
<1>4. QED
  BY <1>2, <1>3, TimesKept

LEMMA TimeStep ==
  ASSUME TypeInv, TypeInv', CallInv, TimeInv, [Next]_vars
  PROVE  TimeInv'
<1>1. ASSUME \/ \E b \in Browsers : LoginStep(b)
             \/ Pass \/ UNCHANGED vars \/ \E c \in Clients : OtherWrite(c)
      PROVE  TimeInv'
  BY <1>1, QuietStep, TimesKept DEF Quiet, gateway, InHand
<1>2. ASSUME NEW b \in Browsers, NEW path \in Paths, EnterGateway(b, path)
      PROVE  TimeInv'
  <2>1. /\ ledger' = ledger /\ wire' = wire
        /\ \E code \in {"open", "forbidden"} : answers' = [answers EXCEPT ![NextCall] = code]
    BY <1>2 DEF EnterGateway
  <2>2. \A c \in Browsers : stage'[c] = "sent" => stage[c] = "sent" /\ call'[c] = call[c]
    BY <1>2 DEF EnterGateway, Goto, TypeInv, WorldTyped, GatewayTyped
  <2>3. \A n \in Calls : answers'[n] = "done" => answers[n] = "done"
    BY <2>1 DEF TypeInv, GatewayTyped
  <2> QED BY <2>1, <2>2, <2>3, TimesKept
<1>3. ASSUME NEW b \in Browsers, GatewayStep(b)
      PROVE  TimeInv'
  <2>1. stage[b] \in InHand
    BY <1>3 DEF GatewayStep, AttributeCall, ForwardCall, DeliverAnswer, GiveUp, InHand
  <2>2. CASE AttributeCall(b)
    <3>1. UNCHANGED <<wire, ledger>>
      BY <2>2 DEF AttributeCall
    <3>2. CASE Verify(call[b].token)
      <4>1. UNCHANGED <<call, answers>> /\ Goto(b, "attributed")
        BY <2>2, <3>2 DEF AttributeCall
      <4>2. \A c \in Browsers : stage'[c] = "sent" => stage[c] = "sent"
        BY <4>1 DEF Goto, TypeInv, WorldTyped
      <4> QED BY <3>1, <4>1, <4>2, TimesKept
    <3>3. CASE ~Verify(call[b].token)
      <4>1. AnswerCall(b, "malformed")
        BY <2>2, <3>3 DEF AttributeCall
      <4> QED BY <2>1, <3>1, <4>1, TimesAnswered
    <3> QED BY <3>2, <3>3
  <2>3. CASE ForwardCall(b)
    BY <2>3, TimesForwarded
  <2>4. CASE DeliverAnswer(b)
    <3>1. PICK r \in wire : /\ r.n = call[b].n /\ r.reply # "none"
                            /\ r.at - call[b].at <= UpstreamTimeout
                            /\ AnswerCall(b, r.reply) /\ wire' = wire \ {r}
      BY <2>4 DEF DeliverAnswer
    <3>2. stage[b] = "sent" /\ ledger' = ledger
      BY <2>4 DEF DeliverAnswer
    <3>3. r.reply = "done" =>
            \A i \in DOMAIN ledger : ledger[i].n = call[b].n => InTime(ledger[i])
      BY <3>1, <3>2 DEF TimeInv, WireTellsTime, InTime
    <3> QED BY <2>1, <3>1, <3>2, <3>3, TimesAnswered
  <2>5. CASE GiveUp(b)
    <3>1. AnswerCall(b, "unavailable") /\ UNCHANGED <<wire, ledger>>
      BY <2>5 DEF GiveUp
    <3> QED BY <2>1, <3>1, TimesAnswered
  <2> QED BY <1>3, <2>2, <2>3, <2>4, <2>5 DEF GatewayStep
<1>4. ASSUME NEW r \in wire, EvaluateCall(r) \/ ReadTrail(r)
      PROVE  TimeInv'
  <2>1. /\ r.reply = "none" /\ UNCHANGED <<stage, call, answers>>
        /\ \/ ledger' = Append(ledger, Deed(r)) /\ Reply(r, "done")
           \/ UNCHANGED ledger /\ \E code \in {"throttled", "forbidden"} : Reply(r, code)
    BY <1>4 DEF EvaluateCall, ReadTrail
  <2> QED BY <2>1, TimesReplied
<1>5. ASSUME NEW r \in wire, LoseCall(r)
      PROVE  TimeInv'
  <2>1. wire' \subseteq wire /\ ledger' = ledger
    BY <1>5 DEF LoseCall
  <2>2. CASE UNCHANGED <<stage, call, answers>>
    BY <2>1, <2>2, TimesKept
  <2>3. ASSUME NEW b \in Browsers, stage[b] = "sent", AnswerCall(b, "unavailable")
        PROVE  TimeInv'
    BY <2>1, <2>3, TimesAnswered DEF InHand
  <2> QED BY <1>5, <2>2, <2>3 DEF LoseCall
<1>6. CASE Deploy
  <2>1. /\ UNCHANGED <<wire, ledger>> /\ \A b \in Browsers : stage'[b] = "idle"
        /\ \A n \in Calls : answers'[n] = "done" => answers[n] = "done"
    BY <1>6 DEF Deploy
  <2> QED BY <2>1, TimesKept
<1>7. QED
  BY <1>1, <1>2, <1>3, <1>4, <1>5, <1>6, StepCases

(* A stale role does little and not for long (session.ts, route.ts,         *)
(* RequireRole): however sessions, deployments and the delays of a call      *)
(* overlap, a call in an account's name is sent for a role the account held  *)
(* no longer ago than a session lasts, and is answered as done only if the   *)
(* API did it within the gateway's timeout.                                 *)
THEOREM SessionsAgeOut == Spec => []StaleRoleIsBounded
<1>1. Init => SessionInv /\ TimeInv
  BY SessionInit DEF Init, TimeInv, WireTellsTime, DoneInTime
<1>2. (TypeInv /\ CallInv) /\ (TypeInv /\ CallInv)' /\ (SessionInv /\ TimeInv) /\ [Next]_vars
        => (SessionInv /\ TimeInv)'
  BY SessionStep, TimeStep
<1>3. TypeInv /\ SessionInv /\ TimeInv => StaleRoleIsBounded
  <2> SUFFICES ASSUME TypeInv, SessionInv, TimeInv, NEW i \in DOMAIN ledger
               PROVE  LET d == ledger[i]
                      IN  /\ d.actor # Nothing =>
                               /\ held[d.actor][d.role] >= 0
                               /\ d.sent - held[d.actor][d.role] < SessionTtl
                               /\ answers[d.n] = "done" =>
                                    d.at - held[d.actor][d.role] < SessionTtl + UpstreamTimeout
                          /\ d.path = "audit" => d.role \in {"admin", Nothing}
    BY DEF StaleRoleIsBounded
  <2> DEFINE d == ledger[i]
  <2>1. d.sent \in Int /\ d.at \in Int /\ SessionTtl \in Int /\ UpstreamTimeout \in Int
    <3>1. d \in Deeds
      BY DEF TypeInv, GatewayTyped
    <3> HIDE DEF d
    <3> QED BY <3>1, Constants DEF Deeds
  <2>2. /\ d.actor # Nothing =>
             d.actor \in Accounts /\ d.role \in Roles /\ Fresh(d.actor, d.role, d.sent + 1)
        /\ d.path = "audit" => d.role \in {"admin", Nothing}
    BY DEF SessionInv, LedgerFresh
  <2>3. d.actor # Nothing => held[d.actor][d.role] \in Int
    BY <2>2 DEF TypeInv, WorldTyped
  <2>4. answers[d.n] = "done" => d.at - d.sent <= UpstreamTimeout
    BY DEF TimeInv, DoneInTime, InTime
  <2> HIDE DEF d
  <2>5. d.actor # Nothing =>
          /\ held[d.actor][d.role] >= 0
          /\ d.sent - held[d.actor][d.role] < SessionTtl
          /\ answers[d.n] = "done" =>
               d.at - held[d.actor][d.role] < SessionTtl + UpstreamTimeout
    BY <2>1, <2>2, <2>3, <2>4 DEF Fresh
  <2> QED BY <2>2, <2>5 DEF d
<1>4. QED
  BY CallsAreTyped, <1>1, <1>2, <1>3, PTL DEF Spec

(* The gateway's answers are true (route.ts, evaluate): whatever is lost,   *)
(* late or given up, no call is done twice, a call answered as done was     *)
(* done, and one answered as refused was not and will not be.               *)
THEOREM AnswersAreHonest == Spec => []AnswersAreTrue
<1>1. TypeInv /\ CallInv => AnswersAreTrue
  <2> SUFFICES ASSUME TypeInv, CallInv, NEW n \in Made
               PROVE  LET done == Cardinality({i \in DOMAIN ledger : ledger[i].n = n})
                      IN  /\ done <= 1
                          /\ answers[n] = "done" => done = 1
                          /\ answers[n] \in {"malformed", "forbidden", "throttled"} =>
                               done = 0 /\ \A r \in wire : r.n # n
    BY DEF AnswersAreTrue
  <2> DEFINE D == {i \in DOMAIN ledger : ledger[i].n = n}
  <2>1. /\ answers[n] = "done" => Done(n)
        /\ answers[n] \in Refused => ~Done(n) /\ ~OnWire(n)
    BY DEF Made, CallInv, AnswersKept
  <2>2. CASE Done(n)
    <3>1. PICK i \in DOMAIN ledger : ledger[i].n = n
      BY <2>2 DEF Done
    <3>2. D = {i}
      BY <3>1 DEF CallInv, LedgerOnce
    <3>3. Cardinality(D) = 1
      BY <3>2, FS_Singleton
    <3> QED BY <2>1, <2>2, <3>3 DEF Refused
  <2>3. CASE ~Done(n)
    <3>1. D = {}
      BY <2>3 DEF Done
    <3>2. Cardinality(D) = 0
      BY <3>1, FS_EmptySet
    <3> QED BY <2>1, <2>3, <3>2 DEF Refused, OnWire
  <2> QED BY <2>2, <2>3
<1>2. QED
  BY <1>1, CallsAreTyped, PTL

-----------------------------------------------------------------------------
(* Attempts to sign in                                                     *)

(* How many failures came after t. *)
Late(s, t) == Cardinality({i \in DOMAIN s : s[i] > t})

LEMMA LateType ==
  ASSUME NEW s \in Seq(0..MaxTime), NEW t \in Int
  PROVE  IsFiniteSet({i \in DOMAIN s : s[i] > t}) /\ Late(s, t) \in Nat
<1>1. IsFiniteSet(1..Len(s)) /\ DOMAIN s = 1..Len(s)
  BY FS_Interval
<1>2. IsFiniteSet({i \in DOMAIN s : s[i] > t})
  BY <1>1, FS_Subset
<1>3. QED
  BY <1>2, FS_CardinalityType DEF Late

LEMMA LateIsInteger ==
  ASSUME NEW s \in Seq(0..MaxTime), NEW t \in Int
  PROVE  Late(s, t) \in Int
<1>1. Late(s, t) \in Nat
  BY LateType
<1>2. QED
  BY <1>1

LEMMA LateFalls ==
  ASSUME NEW s \in Seq(0..MaxTime), NEW t \in Int, NEW u \in Int, t <= u
  PROVE  Late(s, u) <= Late(s, t)
<1>1. \A i \in DOMAIN s : s[i] \in Int
  BY Constants
<1>2. {i \in DOMAIN s : s[i] > u} \subseteq {i \in DOMAIN s : s[i] > t}
  BY <1>1
<1>3. QED
  BY <1>2, LateType, FS_Subset DEF Late

LEMMA LateAppend ==
  ASSUME NEW s \in Seq(0..MaxTime), NEW x \in 0..MaxTime, NEW t \in Int
  PROVE  /\ Append(s, x) \in Seq(0..MaxTime)
         /\ Late(Append(s, x), t) <= Late(s, t) + 1
         /\ x <= t => Late(Append(s, x), t) = Late(s, t)
<1> DEFINE A == {i \in DOMAIN s : s[i] > t}
           B == {i \in DOMAIN Append(s, x) : Append(s, x)[i] > t}
           l == Len(s) + 1
<1>1. /\ Append(s, x) \in Seq(0..MaxTime)
      /\ DOMAIN s = 1..Len(s) /\ DOMAIN Append(s, x) = 1..l
      /\ Append(s, x)[l] = x /\ Len(s) \in Nat
      /\ \A i \in 1..Len(s) : Append(s, x)[i] = s[i]
  OBVIOUS
<1>2. 1..l = (1..Len(s)) \union {l} /\ l \notin 1..Len(s)
  BY <1>1
<1>3. x \in Int
  BY Constants
<1>4. B = IF x > t THEN A \union {l} ELSE A
  BY <1>1, <1>2
<1>5. l \notin A /\ IsFiniteSet(A) /\ Cardinality(A) \in Nat
  BY <1>1, <1>2, LateType DEF Late
<1>6. Cardinality(A \union {l}) = Cardinality(A) + 1
  BY <1>5, FS_AddElement
<1>7. Late(s, t) = Cardinality(A) /\ Late(Append(s, x), t) = Cardinality(B)
  BY DEF Late
<1> HIDE DEF A, B, l
<1>8. Cardinality(B) <= Cardinality(A) + 1
  BY <1>4, <1>5, <1>6
<1>9. x <= t => Cardinality(B) = Cardinality(A)
  BY <1>3, <1>4
<1>10. QED
  BY <1>1, <1>7, <1>8, <1>9

LEMMA LateNone ==
  ASSUME NEW s \in Seq(0..MaxTime), NEW t \in Int, \A i \in DOMAIN s : s[i] <= t
  PROVE  Late(s, t) = 0
<1>1. \A i \in DOMAIN s : s[i] \in Int
  BY Constants
<1>2. {i \in DOMAIN s : s[i] > t} = {}
  BY <1>1
<1>3. QED
  BY <1>2, FS_EmptySet DEF Late

(* AttemptsAreBounded's bound. *)
Bound == (MaxFailed - 1) + MaxFailed + (Cardinality(Browsers) - 1)

LEMMA BoundIsInteger ==
  /\ Cardinality(Browsers) \in Nat
  /\ Bound \in Int /\ Bound = MaxFailed + MaxFailed + Cardinality(Browsers) - 2
<1>1. Cardinality(Browsers) \in Nat
  BY Constants, FS_CardinalityType
<1>2. MaxFailed \in Int
  BY Constants
<1>3. QED
  BY <1>1, <1>2 DEF Bound

(* What a key's entry e knows, at an instant, of the failures s there were, *)
(* with h of the key's forms in hand.  Since its window began no more have  *)
(* failed than the entry counts, and in the window's length before it no    *)
(* more than an entry can count: that window had not blocked.  A block can  *)
(* be met only by the attempts that were in hand when it began, and there   *)
(* the sum of what failed and of what can still fail does not grow.         *)
KeyInv(e, s, h, at) ==
  /\ \A i \in DOMAIN s : s[i] <= at
  /\ e = Nothing => Late(s, at - Window) <= MaxFailed - 1
  /\ e # Nothing =>
       /\ e.firstAt <= at
       /\ e.blockedUntil \in {0, e.firstAt + Block}
       /\ Late(s, e.firstAt) <= e.count
       /\ e.blockedUntil = 0 => Late(s, e.firstAt - Window) <= (MaxFailed - 1) + e.count
       /\ at < e.blockedUntil => Late(s, e.firstAt - Window) + h <= Bound

LEMMA EntryType ==
  ASSUME NEW e \in Entries \union {Nothing}, e # Nothing
  PROVE  /\ e.count \in Nat /\ e.count <= MaxFailed - 1
         /\ e.firstAt \in Nat /\ e.blockedUntil \in Nat
<1>1. e \in Entries
  OBVIOUS
<1>2. e.count \in 0..MaxFailed - 1 /\ e.firstAt \in 0..MaxTime /\ e.blockedUntil \in Nat
  BY <1>1 DEF Entries
<1>3. QED
  BY <1>2, Constants

LEMMA EntryIsSomething ==
  ASSUME NEW e \in Entries
  PROVE  e # Nothing
<1>1. 0..MaxFailed - 1 \subseteq Nat /\ 0..MaxTime \subseteq Nat
  BY Constants
<1>2. e \in [count : Nat, firstAt : Nat, blockedUntil : Nat]
  BY <1>1 DEF Entries
<1>3. QED
  BY <1>2, NothingIsNone

(* Of the key's forms, fewer come to be in hand while it is blocked. *)
LEMMA KeyHands ==
  ASSUME NEW e \in Entries \union {Nothing}, NEW s \in Seq(0..MaxTime), NEW h \in Nat,
         NEW g \in Nat, NEW at \in Int, KeyInv(e, s, h, at),
         e # Nothing /\ at < e.blockedUntil => g <= h
  PROVE  KeyInv(e, s, g, at)
<1>1. ASSUME e # Nothing, at < e.blockedUntil
      PROVE  Late(s, e.firstAt - Window) + g <= Bound
  <2>1. e.firstAt - Window \in Int
    BY <1>1, EntryType, Constants
  <2>2. Late(s, e.firstAt - Window) \in Nat
    BY <2>1, LateType
  <2>3. Late(s, e.firstAt - Window) + h <= Bound /\ g <= h /\ Bound \in Int
    BY <1>1, BoundIsInteger DEF KeyInv
  <2> QED BY <2>2, <2>3
<1>2. QED
  BY <1>1 DEF KeyInv

LEMMA KeyPass ==
  ASSUME NEW e \in Entries \union {Nothing}, NEW s \in Seq(0..MaxTime), NEW h \in Nat,
         NEW at \in 0..MaxTime, KeyInv(e, s, h, at), NEW next \in Int, next = at + 1
  PROVE  KeyInv(e, s, h, next)
<1>1. /\ at \in Int /\ Window \in Int /\ MaxFailed \in Int
      /\ at - Window \in Int /\ next - Window \in Int /\ at - Window <= next - Window
  <2>1. at \in Int /\ Window \in Int /\ MaxFailed \in Int
    BY Constants
  <2> QED BY <2>1
<1>2. \A i \in DOMAIN s : s[i] \in Int /\ s[i] <= at
  BY Constants DEF KeyInv
<1>3. \A i \in DOMAIN s : s[i] <= next
  BY <1>1, <1>2
<1>4. Late(s, next - Window) <= Late(s, at - Window)
  BY <1>1, LateFalls
<1>5. Late(s, next - Window) \in Nat /\ Late(s, at - Window) \in Nat
  BY <1>1, LateType
<1>6. e = Nothing => Late(s, next - Window) <= MaxFailed - 1
  BY <1>1, <1>4, <1>5 DEF KeyInv
<1>7. ASSUME e # Nothing
      PROVE  /\ e.firstAt <= next
             /\ next < e.blockedUntil => Late(s, e.firstAt - Window) + h <= Bound
  <2>1. e.firstAt \in Int /\ e.blockedUntil \in Int
    BY <1>7, EntryType
  <2>2. e.firstAt <= at /\ (at < e.blockedUntil => Late(s, e.firstAt - Window) + h <= Bound)
    BY <1>7 DEF KeyInv
  <2>3. e.firstAt <= next /\ (next < e.blockedUntil => at < e.blockedUntil)
    BY <1>1, <2>1, <2>2
  <2> QED BY <2>2, <2>3
<1>8. e # Nothing =>
        /\ e.blockedUntil \in {0, e.firstAt + Block}
        /\ Late(s, e.firstAt) <= e.count
        /\ e.blockedUntil = 0 => Late(s, e.firstAt - Window) <= (MaxFailed - 1) + e.count
  BY DEF KeyInv
<1>9. QED
  BY <1>3, <1>6, <1>7, <1>8 DEF KeyInv

LEMMA KeyReset ==
  ASSUME NEW h \in Nat, NEW at \in 0..MaxTime
  PROVE  KeyInv(Nothing, <<>>, h, at)
<1>1. at - Window \in Int /\ 0 <= MaxFailed - 1 /\ <<>> \in Seq(0..MaxTime)
  <2>1. at \in Int /\ Window \in Int /\ MaxFailed \in Int /\ MaxFailed > 1
    BY Constants
  <2> QED BY <2>1, EmptySeq
<1>2. \A i \in DOMAIN <<>> : <<>>[i] <= at - Window
  OBVIOUS
<1>3. Late(<<>>, at - Window) = 0
  BY <1>1, <1>2, LateNone
<1>4. \A i \in DOMAIN <<>> : <<>>[i] <= at
  OBVIOUS
<1>5. QED
  BY <1>1, <1>3, <1>4 DEF KeyInv

(* sweep forgets an entry when its window is over, and its block. *)
LEMMA KeyForgotten ==
  ASSUME NEW e \in Entries \union {Nothing}, NEW s \in Seq(0..MaxTime), NEW h \in Nat,
         NEW at \in 0..MaxTime, KeyInv(e, s, h, at), e # Nothing, at - e.firstAt > Window
  PROVE  Late(s, at - Window) <= MaxFailed - 1
<1>1. at \in Int /\ Window \in Int /\ MaxFailed \in Int
  BY Constants
<1>2. /\ e.firstAt \in Int /\ e.count \in Int /\ e.count <= MaxFailed - 1
      /\ Late(s, e.firstAt) <= e.count
  BY EntryType DEF KeyInv
<1>3. e.firstAt <= at - Window /\ at - Window \in Int
  BY <1>1, <1>2
<1>4. /\ Late(s, at - Window) <= Late(s, e.firstAt)
      /\ Late(s, at - Window) \in Int /\ Late(s, e.firstAt) \in Int
  BY <1>2, <1>3, LateFalls, LateIsInteger
<1>5. QED
  BY <1>1, <1>2, <1>4

(* The failure is counted in a window that goes on. *)
LEMMA KeyGoesOn ==
  ASSUME NEW e \in Entries \union {Nothing}, NEW s \in Seq(0..MaxTime), NEW h \in Nat,
         NEW g \in Nat, NEW at \in 0..MaxTime, KeyInv(e, s, h, at), e # Nothing,
         e.count + 1 < MaxFailed, at < e.blockedUntil => g + 1 <= h
  PROVE  KeyInv([e EXCEPT !.count = @ + 1], Append(s, at), g, at)
<1> DEFINE d == [e EXCEPT !.count = @ + 1]
           s1 == Append(s, at)
<1>1. /\ d.count = e.count + 1 /\ d.firstAt = e.firstAt /\ d.blockedUntil = e.blockedUntil
      /\ d # Nothing
  <2>1. e \in Entries /\ e.count \in Nat
    BY EntryType
  <2>2. e.count + 1 \in 0..MaxFailed - 1
    BY <2>1, Constants
  <2>3. d \in Entries
    BY <2>1, <2>2 DEF Entries
  <2> QED BY <2>1, <2>3, EntryIsSomething DEF Entries
<1>2. /\ e.firstAt \in Int /\ e.count \in Int /\ e.blockedUntil \in Int /\ at \in Int
      /\ MaxFailed \in Int /\ Window \in Int /\ Bound \in Int /\ e.firstAt - Window \in Int
  <2>1. e.firstAt \in Int /\ Window \in Int
    BY EntryType, Constants
  <2>2. e.firstAt - Window \in Int
    BY <2>1
  <2>3. e.firstAt \in Int /\ e.count \in Int /\ e.blockedUntil \in Int
    BY EntryType
  <2>4. MaxFailed \in Int /\ Bound \in Int
    BY Constants, BoundIsInteger
  <2>5. at \in Int
    BY Constants
  <2> QED BY <2>1, <2>2, <2>3, <2>4, <2>5
<1>3. /\ Late(s1, e.firstAt) <= Late(s, e.firstAt) + 1
      /\ Late(s1, e.firstAt - Window) <= Late(s, e.firstAt - Window) + 1
      /\ s1 \in Seq(0..MaxTime)
  BY <1>2, LateAppend
<1>4. /\ Late(s, e.firstAt) \in Int /\ Late(s, e.firstAt - Window) \in Int
      /\ Late(s1, e.firstAt) \in Int /\ Late(s1, e.firstAt - Window) \in Int
  BY <1>2, <1>3, LateIsInteger
<1>5. /\ e.firstAt <= at /\ e.blockedUntil \in {0, e.firstAt + Block}
      /\ Late(s, e.firstAt) <= e.count
      /\ e.blockedUntil = 0 => Late(s, e.firstAt - Window) <= (MaxFailed - 1) + e.count
      /\ at < e.blockedUntil => Late(s, e.firstAt - Window) + h <= Bound
      /\ \A i \in DOMAIN s : s[i] <= at
  BY DEF KeyInv
<1>6. \A i \in DOMAIN s1 : s1[i] <= at
  BY <1>2, <1>5
<1> HIDE DEF d, s1
<1>7. Late(s1, d.firstAt) <= d.count
  BY <1>1, <1>2, <1>3, <1>4, <1>5
<1>8. d.blockedUntil = 0 => Late(s1, d.firstAt - Window) <= (MaxFailed - 1) + d.count
  BY <1>1, <1>2, <1>3, <1>4, <1>5, SMTT(20)
<1>9. at < d.blockedUntil => Late(s1, d.firstAt - Window) + g <= Bound
  BY <1>1, <1>2, <1>3, <1>4, <1>5, SMTT(20)
<1>10. KeyInv(d, s1, g, at)
  BY <1>1, <1>5, <1>6, <1>7, <1>8, <1>9 DEF KeyInv
<1>11. QED
  BY <1>10 DEF d, s1

(* The failure starts a window. *)
LEMMA KeyStarts ==
  ASSUME NEW s \in Seq(0..MaxTime), NEW g \in Nat, TypeInv,
         \A i \in DOMAIN s : s[i] <= now, Late(s, now - Window) <= MaxFailed - 1
  PROVE  KeyInv(Attempt(1, 0), Append(s, now), g, now)
<1> DEFINE d == Attempt(1, 0)
           s1 == Append(s, now)
<1>1. d.count = 1 /\ d.firstAt = now /\ d.blockedUntil = 0 /\ d # Nothing
  <2>1. d \in Entries
    <3>1. now \in 0..MaxTime /\ 1 \in 0..MaxFailed - 1
      BY Constants DEF TypeInv, WorldTyped
    <3> QED BY <3>1 DEF Attempt, Entries
  <2> QED BY <2>1, EntryIsSomething DEF Attempt
<1>2. /\ now \in 0..MaxTime /\ now \in Int /\ Window \in Int /\ MaxFailed \in Int
      /\ now >= 0 /\ now - Window \in Int
  <2>1. now \in 0..MaxTime /\ now \in Int /\ now >= 0 /\ Window \in Int /\ MaxFailed \in Int
    BY Constants DEF TypeInv, WorldTyped
  <2> QED BY <2>1
<1>3. s1 \in Seq(0..MaxTime) /\ Late(s1, now - Window) <= Late(s, now - Window) + 1
  BY <1>2, LateAppend
<1>4. Late(s, now - Window) \in Int /\ Late(s1, now - Window) \in Int
  BY <1>2, <1>3, LateIsInteger
<1>5. \A i \in DOMAIN s1 : s1[i] <= now
  BY <1>2
<1>6. Late(s1, now) = 0
  BY <1>2, <1>3, <1>5, LateNone
<1> HIDE DEF d, s1
<1>7. Late(s1, now - Window) <= (MaxFailed - 1) + 1
  BY <1>2, <1>3, <1>4
<1>8. now <= now /\ ~(now < 0) /\ 0 <= 1
  BY <1>2
<1>9. KeyInv(d, s1, g, now)
  BY <1>1, <1>5, <1>6, <1>7, <1>8 DEF KeyInv
<1>10. QED
  BY <1>9 DEF d, s1

(* The failure blocks the key. *)
LEMMA KeyBlocks ==
  ASSUME TypeInv, NEW e \in Entries \union {Nothing}, NEW s \in Seq(0..MaxTime),
         NEW h \in Nat, NEW g \in Nat, KeyInv(e, s, h, now), e # Nothing,
         now - e.firstAt <= Window, g <= Cardinality(Browsers) - 1,
         now < e.blockedUntil => g + 1 <= h
  PROVE  KeyInv(Attempt(0, now + Block), Append(s, now), g, now)
<1> DEFINE d == Attempt(0, now + Block)
           s1 == Append(s, now)
<1>1. d.count = 0 /\ d.firstAt = now /\ d.blockedUntil = now + Block /\ d # Nothing
  <2>1. d \in Entries
    <3>1. now \in 0..MaxTime /\ 0 \in 0..MaxFailed - 1 /\ now + Block \in Nat
      BY Constants DEF TypeInv, WorldTyped
    <3> QED BY <3>1 DEF Attempt, Entries
  <2> QED BY <2>1, EntryIsSomething DEF Attempt
<1>2. /\ now \in 0..MaxTime /\ now \in Int /\ now >= 0 /\ Window \in Int /\ Window > 0
      /\ Block \in Int /\ Window <= Block /\ MaxFailed \in Int /\ MaxFailed > 1
      /\ e.firstAt \in Int /\ e.blockedUntil \in Int /\ e.count \in Int
      /\ e.count <= MaxFailed - 1
  BY Constants, EntryType DEF TypeInv, WorldTyped
<1>3. now - Window \in Int /\ e.firstAt - Window \in Int
  BY <1>2
<1>4. s1 \in Seq(0..MaxTime) /\ Late(s1, now - Window) <= Late(s, now - Window) + 1
  BY <1>2, <1>3, LateAppend
<1>5. /\ e.firstAt <= now /\ e.blockedUntil \in {0, e.firstAt + Block}
      /\ Late(s, e.firstAt) <= e.count
      /\ e.blockedUntil = 0 => Late(s, e.firstAt - Window) <= (MaxFailed - 1) + e.count
      /\ now < e.blockedUntil => Late(s, e.firstAt - Window) + h <= Bound
      /\ \A i \in DOMAIN s : s[i] <= now
  BY DEF KeyInv
<1>6. Late(s, now - Window) <= Late(s, e.firstAt - Window)
  <2>1. e.firstAt - Window <= now - Window
    BY <1>2, <1>5
  <2> QED BY <1>3, <2>1, LateFalls
<1>7. /\ Late(s, now - Window) \in Int /\ Late(s1, now - Window) \in Int
      /\ Late(s, e.firstAt - Window) \in Int /\ Late(s, e.firstAt) \in Int
  BY <1>2, <1>3, <1>4, LateIsInteger
<1>8. \A i \in DOMAIN s1 : s1[i] <= now
  <2>1. /\ Len(s) \in Nat /\ DOMAIN s = 1..Len(s) /\ DOMAIN s1 = 1..Len(s) + 1
        /\ \A i \in 1..Len(s) : s1[i] = s[i]
        /\ s1[Len(s) + 1] = now
    OBVIOUS
  <2>2. ASSUME NEW i \in DOMAIN s1 PROVE i \in DOMAIN s \/ i = Len(s) + 1
    BY <2>1
  <2>3. now <= now
    BY <1>2
  <2> HIDE DEF s1
  <2> QED BY <1>5, <2>1, <2>2, <2>3
<1>9. Late(s1, now) = 0
  BY <1>2, <1>4, <1>8, LateNone
<1>10. /\ Cardinality(Browsers) \in Int /\ Bound \in Int
       /\ Bound = MaxFailed + MaxFailed + Cardinality(Browsers) - 2
  BY BoundIsInteger
<1> HIDE DEF d, s1
<1>11. Late(s1, now - Window) + g <= Bound
  <2>0. Late(s1, now - Window) <= MaxFailed + MaxFailed - 1 =>
          Late(s1, now - Window) + g <= Bound
    <3> DEFINE l == Late(s1, now - Window)
               c == Cardinality(Browsers)
    <3>1. l \in Int /\ c \in Int /\ g \in Int /\ MaxFailed \in Int /\ g <= c - 1
      BY <1>2, <1>7, <1>10
    <3>2. Bound = MaxFailed + MaxFailed + c - 2
      BY <1>10
    <3> HIDE DEF l, c
    <3>3. l <= MaxFailed + MaxFailed - 1 => l + g <= Bound
      BY <3>1, <3>2
    <3> QED BY <3>3 DEF l
  <2>1. CASE e.blockedUntil = 0
    <3>1. Late(s, e.firstAt - Window) <= (MaxFailed - 1) + e.count
      BY <1>5, <2>1
    <3>2. Late(s1, now - Window) <= MaxFailed + MaxFailed - 1
      BY <1>2, <1>4, <1>6, <1>7, <3>1, SMTT(20)
    <3> QED BY <2>0, <3>2
  <2>2. CASE now < e.blockedUntil
    <3>1. Late(s, e.firstAt - Window) + h <= Bound /\ g + 1 <= h
      BY <1>5, <2>2
    <3> QED BY <1>4, <1>6, <1>7, <1>10, <3>1, SMTT(20)
  <2>3. CASE e.blockedUntil # 0 /\ ~(now < e.blockedUntil)
    <3>1. now - Window = e.firstAt
      BY <1>2, <1>5, <2>3, SMTT(20)
    <3>2. Late(s, now - Window) <= e.count
      BY <1>5, <3>1
    <3>3. Late(s1, now - Window) <= MaxFailed + MaxFailed - 1
      BY <1>2, <1>4, <1>7, <3>2, SMTT(20)
    <3> QED BY <2>0, <3>3
  <2> QED BY <2>1, <2>2, <2>3
<1>12. now <= now /\ 0 <= 0 /\ now + Block # 0
  BY <1>2
<1>13. KeyInv(d, s1, g, now)
  BY <1>1, <1>8, <1>9, <1>11, <1>12 DEF KeyInv
<1>14. QED
  BY <1>13 DEF d, s1

LEMMA KeyCounted ==
  ASSUME TypeInv, NEW e \in Entries \union {Nothing}, NEW s \in Seq(0..MaxTime),
         NEW h \in Nat, NEW g \in Nat, KeyInv(e, s, h, now),
         g <= Cardinality(Browsers) - 1, e # Nothing /\ now < e.blockedUntil => g + 1 <= h
  PROVE  KeyInv(Counted(e), Append(s, now), g, now)
<1>1. now \in 0..MaxTime /\ now \in Int /\ Window \in Int /\ MaxFailed \in Int
  BY Constants DEF TypeInv, WorldTyped
<1>2. \A i \in DOMAIN s : s[i] <= now
  BY DEF KeyInv
<1>3. CASE e = Nothing
  <2>1. Late(s, now - Window) <= MaxFailed - 1
    BY <1>3 DEF KeyInv
  <2>2. KeyInv(Attempt(1, 0), Append(s, now), g, now)
    BY <1>2, <2>1, KeyStarts
  <2> QED BY <1>3, <2>2 DEF Counted
<1>4. CASE e # Nothing /\ now - e.firstAt > Window
  <2>1. Late(s, now - Window) <= MaxFailed - 1
    BY <1>1, <1>4, KeyForgotten
  <2>2. KeyInv(Attempt(1, 0), Append(s, now), g, now)
    BY <1>2, <2>1, KeyStarts
  <2>3. e.firstAt \in Int
    BY <1>4, EntryType
  <2>4. Counted(e) = Attempt(1, 0)
    BY <1>1, <1>4, <2>3 DEF Counted
  <2> QED BY <2>2, <2>4
<1>5. CASE e # Nothing /\ ~(now - e.firstAt > Window)
  <2>1. e.firstAt \in Int /\ e.count \in Int
    BY <1>5, EntryType
  <2>2. now - e.firstAt <= Window
    BY <1>1, <1>5, <2>1
  <2>3. CASE e.count + 1 < MaxFailed
    <3>1. Counted(e) = [e EXCEPT !.count = @ + 1]
      BY <1>5, <2>2, <2>3 DEF Counted
    <3>2. KeyInv([e EXCEPT !.count = @ + 1], Append(s, now), g, now)
      BY <1>1, <1>5, <2>3, KeyGoesOn
    <3> QED BY <3>1, <3>2
  <2>4. CASE ~(e.count + 1 < MaxFailed)
    <3>1. Counted(e) = Attempt(0, now + Block)
      BY <1>5, <2>4 DEF Counted
    <3>2. KeyInv(Attempt(0, now + Block), Append(s, now), g, now)
      BY <1>5, <2>2, KeyBlocks
    <3> QED BY <3>1, <3>2
  <2> QED BY <2>3, <2>4
<1>6. QED
  BY <1>3, <1>4, <1>5

LEMMA KeySwept ==
  ASSUME TypeInv, NEW k \in Keys, NEW s \in Seq(0..MaxTime), NEW h \in Nat,
         KeyInv(attempts[k], s, h, now)
  PROVE  /\ KeyInv(Swept[k], s, h, now)
         /\ Swept[k] # Nothing => Swept[k] = attempts[k]
<1>1. attempts[k] \in Entries \union {Nothing} /\ now \in 0..MaxTime
  BY DEF TypeInv, LoginTyped, WorldTyped
<1>2. CASE Swept[k] = attempts[k]
  BY <1>2
<1>3. CASE Swept[k] # attempts[k]
  <2>1. Swept[k] = Nothing /\ attempts[k] # Nothing /\ now - attempts[k].firstAt > Window
    BY <1>3 DEF Swept
  <2>2. Late(s, now - Window) <= MaxFailed - 1
    BY <1>1, <2>1, KeyForgotten
  <2>3. \A i \in DOMAIN s : s[i] <= now
    BY DEF KeyInv
  <2>4. KeyInv(Nothing, s, h, now)
    BY <2>2, <2>3 DEF KeyInv
  <2> QED BY <2>1, <2>4
<1>4. QED
  BY <1>2, <1>3

(* The forms of a key that are in hand. *)
Hashing(k) == {b \in Browsers : stage[b] = "hashing" /\ form[b].key = k}
HashingNext(k) == {b \in Browsers : stage'[b] = "hashing" /\ form'[b].key = k}

LoginInv ==
  \A k \in Keys \ uncounted : KeyInv(attempts[k], failed[k], Cardinality(Hashing(k)), now)

LoginNext ==
  \A k \in Keys \ uncounted' :
    KeyInv(attempts'[k], failed'[k], Cardinality(HashingNext(k)), now')

LEMMA HashingType ==
  ASSUME NEW H \in SUBSET Browsers
  PROVE  IsFiniteSet(H) /\ Cardinality(H) \in Nat /\ Cardinality(H) <= Cardinality(Browsers)
BY Constants, FS_Subset, FS_CardinalityType

LEMMA HashingWithout ==
  ASSUME NEW b \in Browsers, NEW H \in SUBSET (Browsers \ {b})
  PROVE  Cardinality(H) <= Cardinality(Browsers) - 1
<1>1. IsFiniteSet(Browsers \ {b}) /\ Cardinality(Browsers \ {b}) = Cardinality(Browsers) - 1
  BY Constants, FS_RemoveElement
<1>2. QED
  BY <1>1, FS_Subset

LEMMA HashingFalls ==
  ASSUME NEW G \in SUBSET Browsers, NEW H \in SUBSET Browsers, G \subseteq H
  PROVE  Cardinality(G) <= Cardinality(H)
BY HashingType, FS_Subset

LEMMA HashingLoses ==
  ASSUME NEW H \in SUBSET Browsers, NEW b \in H, NEW G \in SUBSET (H \ {b})
  PROVE  Cardinality(G) + 1 <= Cardinality(H)
<1>1. IsFiniteSet(H) /\ Cardinality(H) \in Nat
  BY HashingType
<1>2. IsFiniteSet(H \ {b}) /\ Cardinality(H \ {b}) = Cardinality(H) - 1
  BY <1>1, FS_RemoveElement
<1>3. Cardinality(G) <= Cardinality(H \ {b}) /\ Cardinality(G) \in Nat
  BY <1>2, FS_Subset, FS_CardinalityType
<1>4. QED
  BY <1>1, <1>2, <1>3

(* Keys whose entry and failures a step leaves alone, and of which it adds  *)
(* no form while they are blocked.                                          *)
LEMMA KeyAlone ==
  ASSUME TypeInv, LoginInv, NEW k \in Keys \ uncounted, attempts'[k] = attempts[k],
         failed'[k] = failed[k], now' = now, Blocked(k) => HashingNext(k) \subseteq Hashing(k)
  PROVE  KeyInv(attempts'[k], failed'[k], Cardinality(HashingNext(k)), now')
<1>1. /\ attempts[k] \in Entries \union {Nothing} /\ failed[k] \in Seq(0..MaxTime)
      /\ now \in Int
  BY Constants DEF TypeInv, LoginTyped, WorldTyped
<1>2. Cardinality(Hashing(k)) \in Nat /\ Cardinality(HashingNext(k)) \in Nat
  BY HashingType DEF Hashing, HashingNext
<1>3. Blocked(k) => Cardinality(HashingNext(k)) <= Cardinality(Hashing(k))
  BY HashingFalls DEF Hashing, HashingNext
<1>4. KeyInv(attempts[k], failed[k], Cardinality(Hashing(k)), now)
  BY DEF LoginInv
<1> DEFINE h == Cardinality(Hashing(k))
           g == Cardinality(HashingNext(k))
<1> HIDE DEF h, g
<1>5. /\ h \in Nat /\ g \in Nat /\ KeyInv(attempts[k], failed[k], h, now)
      /\ attempts[k] # Nothing /\ now < attempts[k].blockedUntil => g <= h
  BY <1>2, <1>3, <1>4 DEF h, g, Blocked
<1>6. KeyInv(attempts[k], failed[k], g, now)
  BY <1>1, <1>5, KeyHands
<1>7. QED
  BY <1>6 DEF g

(* recordFailure, of a key in whose favour a form was just refused, or one  *)
(* that was not blocked when its form was.                                  *)
LEMMA FailureKept ==
  ASSUME TypeInv, LoginInv, NEW b \in Browsers, NEW k \in Keys, RecordFailure(k), now' = now,
         \A j \in Keys : HashingNext(j) \subseteq Hashing(j) \ {b},
         Blocked(k) => b \in Hashing(k)
  PROVE  LoginNext
<1> SUFFICES ASSUME NEW j \in Keys \ uncounted'
             PROVE  KeyInv(attempts'[j], failed'[j], Cardinality(HashingNext(j)), now')
  BY DEF LoginNext
<1> DEFINE h == Cardinality(Hashing(j))
           g == Cardinality(HashingNext(j))
<1>1. /\ attempts \in [Keys -> Entries \union {Nothing}] /\ failed \in [Keys -> Seq(0..MaxTime)]
      /\ now \in Int
  BY Constants DEF TypeInv, LoginTyped, WorldTyped
<1>2. j \in Keys \ uncounted
  BY FailureTyped
<1>3. KeyInv(attempts[j], failed[j], h, now)
  BY <1>2 DEF LoginInv
<1>4. /\ h \in Nat /\ g \in Nat /\ g <= h /\ g <= Cardinality(Browsers) - 1
      /\ b \in Hashing(j) => g + 1 <= h
  <2>1. /\ Hashing(j) \subseteq Browsers /\ HashingNext(j) \subseteq Hashing(j) \ {b}
        /\ HashingNext(j) \subseteq Browsers \ {b} /\ HashingNext(j) \subseteq Browsers
        /\ HashingNext(j) \subseteq Hashing(j)
    BY DEF Hashing
  <2> QED BY <2>1, HashingType, HashingFalls, HashingLoses, HashingWithout
<1> HIDE DEF h, g
<1>5. /\ KeyInv(Swept[j], failed[j], h, now)
      /\ Swept[j] # Nothing => Swept[j] = attempts[j]
      /\ Swept[j] \in Entries \union {Nothing}
  BY <1>1, <1>2, <1>3, <1>4, KeySwept, SweptTyped
<1>6. CASE j # k
  <2>1. attempts'[j] = Swept[j] /\ failed'[j] = failed[j]
    BY <1>6, SweptTyped, FailureTyped DEF RecordFailure
  <2>2. KeyInv(Swept[j], failed[j], g, now)
    BY <1>1, <1>4, <1>5, KeyHands
  <2> QED BY <2>1, <2>2 DEF g
<1>7. CASE j = k
  <2>1. attempts'[j] = Counted(Swept[j]) /\ failed'[j] = Append(failed[j], now)
    BY <1>7, SweptTyped, FailureTyped DEF RecordFailure
  <2>2. Swept[j] # Nothing /\ now < Swept[j].blockedUntil => g + 1 <= h
    BY <1>4, <1>5, <1>7 DEF Blocked
  <2>3. KeyInv(Counted(Swept[j]), Append(failed[j], now), g, now)
    BY <1>1, <1>4, <1>5, <2>2, KeyCounted
  <2> QED BY <2>1, <2>3 DEF g
<1>8. QED
  BY <1>6, <1>7

LEMMA LoginInit == Init => LoginInv
<1> SUFFICES ASSUME Init, NEW k \in Keys \ uncounted
             PROVE  KeyInv(attempts[k], failed[k], Cardinality(Hashing(k)), now)
  BY DEF LoginInv
<1>1. attempts[k] = Nothing /\ failed[k] = <<>> /\ now \in 0..MaxTime
  BY Constants DEF Init, LimiterInit
<1>2. Cardinality(Hashing(k)) \in Nat
  BY HashingType DEF Hashing
<1>3. QED
  BY <1>1, <1>2, KeyReset

(* A browser's own steps touch no other's form. *)
LEMMA OthersHash ==
  ASSUME TypeInv, NEW b \in Browsers, NEW j \in Keys,
         \A c \in Browsers \ {b} : stage'[c] = stage[c] /\ form'[c] = form[c],
         stage'[b] # "hashing"
  PROVE  HashingNext(j) \subseteq Hashing(j) \ {b}
BY DEF Hashing, HashingNext

LEMMA LoginKept ==
  ASSUME TypeInv, LoginInv, NEW b \in Browsers, LoginStep(b)
  PROVE  LoginNext
<1>1. /\ stage \in [Browsers -> {"idle", "hashing"} \union InHand]
      /\ form \in [Browsers -> Forms \union {Nothing}]
      /\ attempts \in [Keys -> Entries \union {Nothing}]
      /\ failed \in [Keys -> Seq(0..MaxTime)]
  BY DEF TypeInv, WorldTyped, LoginTyped
<1>2. now' = now
  BY DEF LoginStep, SubmitBroken, SubmitForm, SignIn, RejectForm, SignOut, limiter
<1>3. \A c \in Browsers \ {b} : stage'[c] = stage[c] /\ form'[c] = form[c]
  BY <1>1 DEF LoginStep, SubmitBroken, SubmitForm, SignIn, RejectForm, SignOut, Goto
<1>4. stage'[b] # "hashing" => \A j \in Keys : HashingNext(j) \subseteq Hashing(j) \ {b}
  BY <1>3, OthersHash
<1>5. ASSUME NEW k \in Keys, SubmitBroken(b, k)
      PROVE  LoginNext
  <2>1. stage'[b] # "hashing" /\ ~Blocked(k) /\ RecordFailure(k)
    BY <1>5 DEF SubmitBroken
  <2> QED BY <1>2, <1>4, <2>1, FailureKept
<1>6. ASSUME NEW k \in Keys, NEW a \in Accounts, NEW right \in BOOLEAN,
             SubmitForm(b, k, a, right)
      PROVE  LoginNext
  <2>1. UNCHANGED <<attempts, failed, uncounted>> /\ ~Blocked(k) /\ form'[b].key = k
    BY <1>1, <1>6 DEF SubmitForm
  <2>2. \A j \in Keys \ {k} : HashingNext(j) \subseteq Hashing(j)
    BY <1>3, <2>1 DEF Hashing, HashingNext
  <2>3. \A j \in Keys : Blocked(j) => HashingNext(j) \subseteq Hashing(j)
    BY <2>1, <2>2
  <2> QED BY <1>2, <2>1, <2>3, KeyAlone DEF LoginNext
<1>7. CASE SignIn(b)
  <2> DEFINE k == form[b].key
  <2>1. /\ k \in Keys /\ stage'[b] = "idle" /\ UNCHANGED uncounted
        /\ attempts' = [attempts EXCEPT ![k] = Nothing] /\ failed' = [failed EXCEPT ![k] = <<>>]
    BY <1>1, <1>7 DEF SignIn, Goto, TypeInv, LoginTyped, Forms
  <2> HIDE DEF k
  <2>2. attempts'[k] = Nothing /\ failed'[k] = <<>>
    BY <1>1, <2>1
  <2>3. \A j \in Keys : HashingNext(j) \subseteq Hashing(j)
    BY <1>4, <2>1
  <2>4. ASSUME NEW j \in Keys \ uncounted', j # k
        PROVE  KeyInv(attempts'[j], failed'[j], Cardinality(HashingNext(j)), now')
    <3>1. attempts'[j] = attempts[j] /\ failed'[j] = failed[j]
      BY <1>1, <2>1, <2>4
    <3> QED BY <1>2, <2>1, <2>3, <3>1, KeyAlone
  <2>5. KeyInv(Nothing, <<>>, Cardinality(HashingNext(k)), now)
    <3>1. Cardinality(HashingNext(k)) \in Nat
      BY HashingType DEF HashingNext
    <3>2. now \in 0..MaxTime
      BY DEF TypeInv, WorldTyped
    <3> QED BY <3>1, <3>2, KeyReset
  <2> QED BY <1>2, <2>2, <2>4, <2>5 DEF LoginNext
<1>8. CASE RejectForm(b)
  <2>1. /\ form[b].key \in Keys /\ stage'[b] # "hashing" /\ b \in Hashing(form[b].key)
        /\ RecordFailure(form[b].key)
    BY <1>1, <1>8 DEF RejectForm, Goto, Hashing, TypeInv, LoginTyped, Forms
  <2> QED BY <1>2, <1>4, <2>1, FailureKept
<1>9. CASE SignOut(b)
  <2>1. /\ UNCHANGED <<attempts, failed, uncounted>>
        /\ \A j \in Keys : HashingNext(j) \subseteq Hashing(j)
    BY <1>9 DEF SignOut, Hashing, HashingNext
  <2> QED BY <1>2, <2>1, KeyAlone DEF LoginNext
<1>10. QED
  BY <1>5, <1>6, <1>7, <1>8, <1>9 DEF LoginStep

LEMMA LoginInvStep ==
  ASSUME TypeInv, TypeInv', LoginInv, [Next]_vars
  PROVE  LoginInv'
<1> SUFFICES LoginNext
  BY DEF LoginNext, LoginInv, Hashing, HashingNext
<1>1. CASE \E b \in Browsers : LoginStep(b)
  BY <1>1, LoginKept
<1>2. CASE Deploy
  <2>1. now' \in 0..MaxTime /\ \A k \in Keys : attempts'[k] = Nothing /\ failed'[k] = <<>>
    BY <1>2 DEF Deploy, TypeInv, WorldTyped
  <2>2. \A k \in Keys : Cardinality(HashingNext(k)) \in Nat
    BY HashingType DEF HashingNext
  <2> QED BY <2>1, <2>2, KeyReset DEF LoginNext
<1>3. CASE Pass
  <2>1. /\ now' = now + 1 /\ now' \in Int /\ now \in 0..MaxTime
        /\ attempts \in [Keys -> Entries \union {Nothing}] /\ failed \in [Keys -> Seq(0..MaxTime)]
        /\ UNCHANGED <<attempts, failed, uncounted, stage, form>>
    BY <1>3, Constants DEF Pass, Tick, access, TypeInv, WorldTyped, LoginTyped
  <2>2. \A k \in Keys : HashingNext(k) = Hashing(k) /\ Cardinality(Hashing(k)) \in Nat
    BY <2>1, HashingType DEF Hashing, HashingNext
  <2> QED BY <2>1, <2>2, KeyPass DEF LoginInv, LoginNext
<1>4. CASE ~(Deploy \/ Pass \/ \E b \in Browsers : LoginStep(b))
  <2>1. UNCHANGED <<now, attempts, failed, uncounted, form>>
    BY <1>4, StepCases
    DEF vars, console, limiter, access, GatewayStep, AttributeCall, ForwardCall, DeliverAnswer,
        GiveUp, EnterGateway, EvaluateCall, ReadTrail, LoseCall, OtherWrite, Admit, Refuse
  <2>2. \A c \in Browsers : stage'[c] = "hashing" => stage[c] = "hashing"
    BY <1>4, StepCases
    DEF vars, console, GatewayStep, AttributeCall, ForwardCall, DeliverAnswer, GiveUp,
        AnswerCall, Goto, EnterGateway, EvaluateCall, ReadTrail, LoseCall, OtherWrite,
        TypeInv, WorldTyped
  <2>3. \A j \in Keys : HashingNext(j) \subseteq Hashing(j)
    BY <2>1, <2>2 DEF Hashing, HashingNext
  <2> QED BY <2>1, <2>3, KeyAlone DEF LoginNext
<1>5. QED
  BY <1>1, <1>2, <1>3, <1>4

LEMMA KeyBounded ==
  ASSUME TypeInv, NEW e \in Entries \union {Nothing}, NEW s \in Seq(0..MaxTime),
         NEW h \in Nat, KeyInv(e, s, h, now)
  PROVE  Late(s, now - Window) <= Bound
<1>1. /\ now \in Int /\ Window \in Int /\ Window > 0 /\ Block \in Int /\ Window <= Block
      /\ MaxFailed \in Int /\ MaxFailed > 1
  BY Constants DEF TypeInv, WorldTyped
<1>2. /\ Cardinality(Browsers) \in Nat /\ Bound \in Int
      /\ Bound = MaxFailed + MaxFailed + Cardinality(Browsers) - 2
  BY BoundIsInteger
<1>3. MaxFailed + MaxFailed - 2 <= Bound /\ MaxFailed - 1 <= Bound
  BY <1>1, <1>2
<1>4. now - Window \in Int
  BY <1>1
<1>5. Late(s, now - Window) \in Int
  BY <1>4, LateIsInteger
<1>6. CASE e = Nothing
  BY <1>1, <1>2, <1>3, <1>5, <1>6 DEF KeyInv
<1>7. CASE e # Nothing
  <2>1. /\ e.firstAt \in Int /\ e.count \in Int /\ e.blockedUntil \in Int
        /\ e.count <= MaxFailed - 1
    BY <1>7, EntryType
  <2>2. /\ e.firstAt <= now /\ e.blockedUntil \in {0, e.firstAt + Block}
        /\ Late(s, e.firstAt) <= e.count
        /\ e.blockedUntil = 0 => Late(s, e.firstAt - Window) <= (MaxFailed - 1) + e.count
        /\ now < e.blockedUntil => Late(s, e.firstAt - Window) + h <= Bound
    BY <1>7 DEF KeyInv
  <2>3. e.firstAt - Window \in Int /\ e.firstAt - Window <= now - Window
    BY <1>1, <2>1, <2>2
  <2>4. Late(s, now - Window) <= Late(s, e.firstAt - Window)
    BY <1>4, <2>3, LateFalls
  <2>5. Late(s, e.firstAt - Window) \in Int /\ Late(s, e.firstAt) \in Int
    BY <2>1, <2>3, LateIsInteger
  <2>6. CASE e.blockedUntil = 0
    <3>1. Late(s, e.firstAt - Window) <= (MaxFailed - 1) + e.count
      BY <2>2, <2>6
    <3> QED BY <1>1, <1>2, <1>3, <1>5, <2>1, <2>4, <2>5, <3>1, SMTT(20)
  <2>7. CASE now < e.blockedUntil
    <3>1. Late(s, e.firstAt - Window) + h <= Bound
      BY <2>2, <2>7
    <3> QED BY <1>2, <1>5, <2>4, <2>5, <3>1
  <2>8. CASE e.blockedUntil # 0 /\ ~(now < e.blockedUntil)
    <3>1. e.firstAt <= now - Window
      BY <1>1, <2>1, <2>2, <2>8
    <3>2. Late(s, now - Window) <= Late(s, e.firstAt)
      BY <1>4, <2>1, <3>1, LateFalls
    <3>3. Late(s, e.firstAt) <= e.count
      BY <2>2
    <3>4. Late(s, now - Window) <= MaxFailed - 1
      BY <1>1, <1>5, <2>1, <2>5, <3>2, <3>3
    <3> QED BY <1>1, <1>2, <1>3, <1>5, <3>4
  <2> QED BY <2>6, <2>7, <2>8
<1>8. QED
  BY <1>6, <1>7

(* Guessing is slow (route.ts, blockedFor, recordFailure, sweep): although   *)
(* the block is read before the hash is awaited and counted after, no key   *)
(* whose failures are counted fails more often, in the length of a window,  *)
(* than the limits and the browsers allow.                                  *)
THEOREM GuessingIsBounded == Spec => []AttemptsAreBounded
<1>1. Init => LoginInv
  BY LoginInit
<1>2. (TypeInv /\ CallInv) /\ (TypeInv /\ CallInv)' /\ LoginInv /\ [Next]_vars => LoginInv'
  BY LoginInvStep
<1>3. TypeInv /\ CallInv /\ LoginInv => AttemptsAreBounded
  <2> SUFFICES ASSUME TypeInv, LoginInv, NEW k \in Keys \ uncounted
               PROVE  Cardinality({i \in DOMAIN failed[k] : now - failed[k][i] < Window}) <= Bound
    BY DEF AttemptsAreBounded, Bound
  <2>1. /\ attempts[k] \in Entries \union {Nothing} /\ failed[k] \in Seq(0..MaxTime)
        /\ KeyInv(attempts[k], failed[k], Cardinality(Hashing(k)), now)
    BY DEF TypeInv, LoginTyped, LoginInv
  <2>2. Cardinality(Hashing(k)) \in Nat
    BY HashingType DEF Hashing
  <2>3. Late(failed[k], now - Window) <= Bound
    BY <2>1, <2>2, KeyBounded
  <2>4. \A i \in DOMAIN failed[k] : failed[k][i] \in Int
    BY <2>1, Constants
  <2>5. now \in Int /\ Window \in Int
    BY Constants DEF TypeInv, WorldTyped
  <2>6. {i \in DOMAIN failed[k] : now - failed[k][i] < Window} =
          {i \in DOMAIN failed[k] : failed[k][i] > now - Window}
    BY <2>4, <2>5
  <2> QED BY <2>3, <2>6 DEF Late
<1>4. QED
  BY CallsAreTyped, <1>1, <1>2, <1>3, PTL DEF Spec

-----------------------------------------------------------------------------
(* The table of attempts, and types                                        *)

(* Entries are of the past, and no more than the table holds. *)
KeysTracked == {k \in Keys : attempts[k] # Nothing}

TableInv ==
  /\ \A k \in Keys : attempts[k] # Nothing => attempts[k].firstAt <= now
  /\ IsFiniteSet(KeysTracked) /\ Cardinality(KeysTracked) <= MaxTracked

TrackedBy(entries) == {k \in Keys : entries[k] # Nothing}

LEMMA TableFailure ==
  ASSUME TypeInv, TableInv, NEW k \in Keys, RecordFailure(k)
  PROVE  /\ \A j \in Keys : attempts'[j] # Nothing => attempts'[j].firstAt <= now
         /\ IsFiniteSet(TrackedBy(attempts')) /\ Cardinality(TrackedBy(attempts')) <= MaxTracked
<1> DEFINE S == TrackedBy(Swept)
<1>1. /\ Swept \in [Keys -> Entries \union {Nothing}]
      /\ attempts \in [Keys -> Entries \union {Nothing}] /\ now \in Int /\ now \in 0..MaxTime
  BY SweptTyped, Constants DEF TypeInv, LoginTyped, WorldTyped
<1>2. \A j \in Keys : Swept[j] # Nothing => Swept[j] = attempts[j]
  BY DEF Swept
<1>3. \A j \in Keys : Swept[j] # Nothing => Swept[j].firstAt <= now
  BY <1>2 DEF TableInv
<1>4. IsFiniteSet(S) /\ Cardinality(S) <= MaxTracked /\ Cardinality(S) \in Nat
  <2>1. S \subseteq KeysTracked
    BY <1>2 DEF TrackedBy, KeysTracked
  <2>2. IsFiniteSet(S) /\ Cardinality(S) <= Cardinality(KeysTracked)
    BY <2>1, FS_Subset DEF TableInv
  <2>3. Cardinality(S) \in Nat /\ Cardinality(KeysTracked) \in Nat /\ MaxTracked \in Nat
    BY <2>2, FS_CardinalityType, ConsoleBounds DEF TableInv
  <2>4. Cardinality(KeysTracked) <= MaxTracked
    BY DEF TableInv
  <2> QED BY <2>2, <2>3, <2>4
<1>5. CASE attempts' = Swept
  BY <1>3, <1>4, <1>5
<1>6. ASSUME attempts' = [Swept EXCEPT ![k] = Counted(Swept[k])],
             Swept[k] # Nothing \/ ~(Cardinality(S) >= MaxTracked)
      PROVE  /\ \A j \in Keys : attempts'[j] # Nothing => attempts'[j].firstAt <= now
             /\ IsFiniteSet(TrackedBy(attempts'))
             /\ Cardinality(TrackedBy(attempts')) <= MaxTracked
  <2>1. /\ attempts'[k] = Counted(Swept[k])
        /\ \A j \in Keys \ {k} : attempts'[j] = Swept[j]
    BY <1>1, <1>6
  <2>2. Swept[k] \in Entries \union {Nothing}
    BY <1>1
  <2>3. Counted(Swept[k]) \in Entries /\ Counted(Swept[k]) # Nothing
    BY <2>2, CountedIsEntry, EntryIsSomething
  <2>4. Counted(Swept[k]).firstAt <= now
    <3>1. CASE Counted(Swept[k]) \in {Attempt(1, 0), Attempt(0, now + Block)}
      BY <1>1, <3>1 DEF Attempt
    <3>2. CASE /\ Swept[k] # Nothing
               /\ Counted(Swept[k]) = [Swept[k] EXCEPT !.count = @ + 1]
      <4>1. Swept[k] \in Entries
        BY <2>2, <3>2
      <4>2. Counted(Swept[k]).firstAt = Swept[k].firstAt
        BY <3>2, <4>1 DEF Entries
      <4> QED BY <1>3, <3>2, <4>2
    <3> QED BY <3>1, <3>2 DEF Counted
  <2>5. TrackedBy(attempts') = S \union {k}
    BY <2>1, <2>3 DEF TrackedBy
  <2>6. IsFiniteSet(S \union {k}) /\ Cardinality(S \union {k}) <= MaxTracked
    <3>1. CASE k \in S
      <4>1. S \union {k} = S
        BY <3>1
      <4> QED BY <1>4, <4>1
    <3>2. CASE k \notin S
      <4>1. Swept[k] = Nothing
        BY <3>2 DEF TrackedBy
      <4>2. Cardinality(S) < MaxTracked
        <5>1. ~(Cardinality(S) >= MaxTracked) /\ MaxTracked \in Int /\ Cardinality(S) \in Int
          BY <1>4, <1>6, <4>1, ConsoleBounds
        <5> QED BY <5>1
      <4>3. IsFiniteSet(S \union {k}) /\ Cardinality(S \union {k}) = Cardinality(S) + 1
        BY <1>4, <3>2, FS_AddElement
      <4>4. MaxTracked \in Int /\ Cardinality(S) \in Int
        BY <1>4, ConsoleBounds
      <4> QED BY <4>2, <4>3, <4>4
    <3> QED BY <3>1, <3>2
  <2> QED BY <1>3, <2>1, <2>4, <2>5, <2>6
<1>7. QED
  BY <1>5, <1>6 DEF RecordFailure, TrackedBy

LEMMA TableInit == Init => TableInv
<1> SUFFICES ASSUME Init PROVE TableInv
  OBVIOUS
<1>1. KeysTracked = {} /\ \A k \in Keys : attempts[k] = Nothing
  BY DEF Init, KeysTracked
<1>2. MaxTracked \in Nat
  BY ConsoleBounds
<1>3. QED
  BY <1>1, <1>2, FS_EmptySet DEF TableInv

(* The other steps leave entries alone, or forget them. *)
LEMMA TableForgets ==
  ASSUME TypeInv, TypeInv', TableInv, now <= now',
         \A k \in Keys : attempts'[k] \in {attempts[k], Nothing}
  PROVE  TableInv'
<1>1. KeysTracked' \subseteq KeysTracked
  BY DEF KeysTracked
<1>2. IsFiniteSet(KeysTracked) /\ Cardinality(KeysTracked) <= MaxTracked
  BY DEF TableInv
<1>3. /\ IsFiniteSet(KeysTracked') /\ Cardinality(KeysTracked') <= Cardinality(KeysTracked)
      /\ Cardinality(KeysTracked') \in Nat /\ Cardinality(KeysTracked) \in Nat /\ MaxTracked \in Nat
  BY <1>1, <1>2, FS_Subset, FS_CardinalityType, ConsoleBounds
<1>4. Cardinality(KeysTracked') <= MaxTracked
  BY <1>2, <1>3
<1>5. ASSUME NEW k \in Keys, attempts'[k] # Nothing
      PROVE  attempts'[k].firstAt <= now'
  <2>1. attempts'[k] = attempts[k] /\ attempts[k] # Nothing
    BY <1>5
  <2>2. attempts[k].firstAt \in Int
    <3>1. attempts[k] \in Entries \union {Nothing}
      BY DEF TypeInv, LoginTyped
    <3> QED BY <2>1, <3>1, EntryType
  <2>3. attempts[k].firstAt <= now
    BY <2>1 DEF TableInv
  <2>4. now \in Int /\ now' \in Int
    BY Constants DEF TypeInv, WorldTyped
  <2> QED BY <2>1, <2>2, <2>3, <2>4
<1>6. QED
  BY <1>3, <1>4, <1>5 DEF TableInv

LEMMA TableStep ==
  ASSUME TypeInv, TypeInv', TableInv, HeldGrows, [Next]_vars
  PROVE  TableInv'
<1>1. attempts \in [Keys -> Entries \union {Nothing}]
  BY DEF TypeInv, LoginTyped
<1>2. ASSUME NEW k \in Keys, RecordFailure(k), now' = now
      PROVE  TableInv'
  BY <1>2, TableFailure DEF TableInv, KeysTracked, TrackedBy
<1>3. ASSUME NEW b \in Browsers, LoginStep(b)
      PROVE  \/ \E k \in Keys : RecordFailure(k) /\ now' = now
             \/ \A k \in Keys : attempts'[k] \in {attempts[k], Nothing}
  <2>1. CASE RejectForm(b)
    <3>1. form[b].key \in Keys
      BY <2>1 DEF RejectForm, TypeInv, LoginTyped, Forms
    <3> QED BY <2>1, <3>1 DEF RejectForm, limiter
  <2>2. CASE ~RejectForm(b)
    BY <1>1, <1>3, <2>2 DEF LoginStep, SubmitBroken, SubmitForm, SignIn, SignOut, limiter
  <2> QED BY <2>1, <2>2
<1>4. CASE ~\E b \in Browsers : LoginStep(b)
  <2>1. \A k \in Keys : attempts'[k] \in {attempts[k], Nothing}
    BY <1>4, StepCases
    DEF vars, console, access, GatewayStep, AttributeCall, ForwardCall, DeliverAnswer, GiveUp,
        EnterGateway, EvaluateCall, ReadTrail, LoseCall, OtherWrite, Deploy, Pass
  <2> QED BY <2>1, TableForgets DEF HeldGrows
<1>5. QED
  BY <1>2, <1>3, <1>4, TableForgets DEF HeldGrows

(* Nobody outgrows the console's tables (ratelimit.ts, session.ts,          *)
(* route.ts): whatever is tried, the table of attempts holds no more keys   *)
(* than it may, a cookie's expiry is at most one lifetime away and every    *)
(* call on its way has a number of its own.                                 *)
THEOREM ConsoleTypeCorrect == Spec => []TypeOK
<1>1. Init => TableInv /\ HeldIsCurrent
  BY TableInit, SessionInit DEF SessionInv
<1>2. (TypeInv /\ CallInv) /\ (TypeInv /\ CallInv)' /\ TableInv /\ SessionInv /\ [Next]_vars
        => TableInv'
  BY TableStep, HeldStep DEF SessionInv
<1>3. Init => SessionInv
  BY SessionInit
<1>4. (TypeInv /\ CallInv) /\ (TypeInv /\ CallInv)' /\ SessionInv /\ [Next]_vars => SessionInv'
  BY SessionStep
<1>5. TypeInv /\ CallInv /\ TableInv /\ SessionInv /\ LimiterTypeOK => TypeOK
  <2> SUFFICES ASSUME TypeInv, CallInv, TableInv, SessionInv, LimiterTypeOK
               PROVE  TypeOK
    OBVIOUS
  <2>1. \A k \in Keys : attempts[k] # Nothing =>
          attempts[k].count \in 0..MaxFailed - 1 /\ attempts[k].firstAt \in 0..now
    <3>1. ASSUME NEW k \in Keys, attempts[k] # Nothing
          PROVE  attempts[k].count \in 0..MaxFailed - 1 /\ attempts[k].firstAt \in 0..now
      <4>1. attempts[k] \in Entries \union {Nothing} /\ now \in Int
        BY Constants DEF TypeInv, LoginTyped, WorldTyped
      <4>2. /\ attempts[k].count \in Nat /\ attempts[k].count <= MaxFailed - 1
            /\ attempts[k].firstAt \in Nat
        BY <3>1, <4>1, EntryType
      <4>3. attempts[k].firstAt <= now /\ MaxFailed \in Int
        BY <3>1, Constants DEF TableInv
      <4> QED BY <4>1, <4>2, <4>3
    <3> QED BY <3>1
  <2>2. Cardinality({k \in Keys : attempts[k] # Nothing}) <= MaxTracked
    BY DEF TableInv, KeysTracked
  <2>3. \A b \in Browsers : cookie[b] # Nothing =>
          /\ cookie[b].sub \in Accounts /\ cookie[b].role \in Roles
          /\ cookie[b].exp <= now + SessionTtl
    <3>1. \A b \in Browsers : cookie[b] # Nothing => cookie[b] \in Tokens
      BY DEF TypeInv, WorldTyped
    <3> QED BY <3>1 DEF Tokens, SessionInv, CookiesFresh
  <2>4. Cardinality({r.n : r \in wire}) = Cardinality(wire)
    <3> DEFINE T == {r.n : r \in wire}
               f == [r \in wire |-> r.n]
    <3>1. \A r, s \in wire : f[r] = f[s] => r = s
      BY DEF CallInv, WireAlone
    <3>2. f \in [wire -> T] /\ \A t \in T : \E r \in wire : f[r] = t
      OBVIOUS
    <3>3. f \in Bijection(wire, T)
      BY <3>1, <3>2, Zenon DEF Bijection, Injection, Surjection, IsInjective
    <3>4. ExistsBijection(wire, T)
      BY <3>3 DEF ExistsBijection
    <3> QED BY <3>4, FS_Bijection DEF TypeInv, GatewayTyped
  <2>5. /\ deploys \in 0..MaxDeploys /\ answers \in [Calls -> Codes]
        /\ stage \in [Browsers -> {"idle", "hashing", "admitted", "attributed", "sent"}]
    <3>1. {"idle", "hashing"} \union InHand = {"idle", "hashing", "admitted", "attributed", "sent"}
      BY DEF InHand
    <3> QED BY <3>1 DEF TypeInv, WorldTyped, GatewayTyped
  <2> QED BY <2>1, <2>2, <2>3, <2>4, <2>5 DEF TypeOK, Codes
<1>6. Spec => []LimiterTypeOK
  BY ConsoleKeepsLimiter, LimiterTypeCorrect, PTL
<1>7. QED
  BY CallsAreTyped, <1>1, <1>2, <1>3, <1>4, <1>5, <1>6, PTL DEF Spec

=============================================================================

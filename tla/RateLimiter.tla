---------------------------- MODULE RateLimiter -----------------------------
(***************************************************************************)
(* The API's rate limiter (RateLimiter.allow, internal/httpx): a token     *)
(* bucket per client address, kept for a bounded number of clients.        *)
(*                                                                         *)
(* A bucket that is forgotten comes back full, so forgetting is harmless   *)
(* only for a client that was idle for as long as its bucket takes to fill.*)
(***************************************************************************)
EXTENDS Integers, FiniteSets

CONSTANTS
  Clients,     \* addresses
  Burst,       \* tokens a full bucket holds
  Rate,        \* tokens a bucket gains per tick
  Ttl,         \* how long an idle bucket is kept when the table is full
  MaxClients,  \* maxTrackedClients
  MaxTime,     \* bound: length of a behaviour in ticks
  NoBucket

ASSUME LimiterBounds ==
  /\ Burst \in Nat \ {0} /\ Rate \in Nat \ {0}
  /\ Ttl \in Nat /\ MaxClients \in Nat /\ MaxTime \in Nat

(* 100 tokens at 50 a second fill in two seconds, and a bucket is kept for  *)
(* ten minutes; nothing in config.Validate keeps an operator from setting   *)
(* a rate at which it takes longer.                                         *)
ASSUME FullBeforeForgotten == Rate * (Ttl + 1) >= Burst

ASSUME NoBucketIsNone == NoBucket \notin [tokens : 0..Burst, at : Nat, seen : Nat]

VARIABLES
  now,
  buckets,  \* per client: tokens left at its last admission, and when it was seen
  since     \* history: requests admitted for a client from each instant on

limiter == <<now, buckets, since>>

Bucket == [tokens : 0..Burst, at : 0..MaxTime, seen : 0..MaxTime]

LimiterTypeOK ==
  /\ now \in 0..MaxTime
  /\ buckets \in [Clients -> Bucket \union {NoBucket}]
  /\ since \in [Clients -> [0..MaxTime -> Nat]]

LimiterInit ==
  /\ now = 0
  /\ buckets = [c \in Clients |-> NoBucket]
  /\ since = [c \in Clients |-> [t \in 0..MaxTime |-> 0]]

Tracked == {c \in Clients : buckets[c] # NoBucket}

(* rate.Limiter: what a bucket holds at this instant. *)
Available(c) ==
  IF buckets[c] = NoBucket THEN Burst
  ELSE LET filled == buckets[c].tokens + Rate * (now - buckets[c].at)
       IN  IF filled < Burst THEN filled ELSE Burst

(* Mutant: a full table is simply emptied. *)
StaleAny == Tracked

Stale == {c \in Tracked : now - buckets[c].seen > Ttl}

(* evictLocked: a client that is not in a full table makes it forget. *)
Forgotten(c) ==
  IF c \notin Tracked /\ Cardinality(Tracked) >= MaxClients THEN Stale ELSE {}

(* Still full after that: there is no place for the client. *)
HasPlace(c) == c \in Tracked \/ Cardinality(Tracked \ Forgotten(c)) < MaxClients

Kept(c) == [d \in Clients |-> IF d \in Forgotten(c) THEN NoBucket ELSE buckets[d]]

Admit(c) ==
  /\ HasPlace(c) /\ Available(c) >= 1
  /\ buckets' = [Kept(c) EXCEPT ![c] = [tokens |-> Available(c) - 1, at |-> now, seen |-> now]]
  /\ since' = [since EXCEPT ![c] =
                 [t \in 0..MaxTime |-> IF t <= now THEN since[c][t] + 1 ELSE since[c][t]]]
  /\ UNCHANGED now

(* 429: the bucket is empty, or the table is full of clients seen lately. *)
Refuse(c) ==
  /\ \/ HasPlace(c) /\ Available(c) < 1
        /\ buckets' = [Kept(c) EXCEPT ![c].seen = now]
     \/ ~HasPlace(c)
        /\ buckets' = Kept(c)
  /\ UNCHANGED <<now, since>>

Tick ==
  /\ now < MaxTime
  /\ now' = now + 1
  /\ UNCHANGED <<buckets, since>>

LimiterNext == Tick \/ \E c \in Clients : Admit(c) \/ Refuse(c)

LimiterSpec == LimiterInit /\ [][LimiterNext]_limiter

-----------------------------------------------------------------------------
(* Properties *)

(* However the table fills up and forgets, a client gets no more than its   *)
(* burst and what its bucket gained: from any instant on, what was admitted *)
(* for it is at most Burst plus Rate for each tick that passed, and the     *)
(* table never holds more clients than it may (allow, evictLocked).         *)
AdmissionsAreBounded ==
  /\ Cardinality(Tracked) <= MaxClients
  /\ \A c \in Clients, t \in 0..now : since[c][t] <= Burst + Rate * (now - t)
=============================================================================

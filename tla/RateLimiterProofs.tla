------------------------- MODULE RateLimiterProofs -------------------------
(***************************************************************************)
(* The rate limiter's bound, for any set of clients, burst, rate, table    *)
(* size and time to live that fills a bucket before it is forgotten.       *)
(*                                                                         *)
(* AdmissionsAreBounded is not inductive: what a client was admitted says  *)
(* nothing of what is left in its bucket.  The invariant speaks of both    *)
(* together, and of the buckets that may be forgotten: they are full.      *)
(***************************************************************************)
EXTENDS RateLimiter, FiniteSetTheorems, TLAPS

BucketsAreCurrent ==
  \A c \in Tracked : buckets[c].at <= buckets[c].seen /\ buckets[c].seen <= now

NothingAheadOfTime ==
  \A c \in Clients, t \in 0..MaxTime : t > now => since[c][t] = 0

TableIsBounded == IsFiniteSet(Tracked) /\ Cardinality(Tracked) <= MaxClients

(* What was admitted and what could be admitted now, together.             *)
SpentAndLeft ==
  \A c \in Clients, t \in 0..now :
    since[c][t] + Available(c) <= Burst + Rate * (now - t)

LInv == /\ LimiterTypeOK /\ BucketsAreCurrent /\ NothingAheadOfTime
        /\ TableIsBounded /\ SpentAndLeft

(* Multiplication by the rate is monotonic.                                *)
LEMMA MoreTicksMoreTokens ==
  ASSUME NEW r \in Nat, NEW a \in Nat, NEW b \in Nat, a <= b
  PROVE  r * a <= r * b
<1>1. r * b = r * a + r * (b - a)
  OBVIOUS
<1>2. r * (b - a) >= 0
  OBVIOUS
<1> QED BY <1>1, <1>2

(* A bucket never offers more than the burst.                              *)
LEMMA AvailableIsNat ==
  LimiterTypeOK /\ BucketsAreCurrent => \A c \in Clients : Available(c) \in 0..Burst
<1> SUFFICES ASSUME LimiterTypeOK, BucketsAreCurrent, NEW c \in Clients
             PROVE  Available(c) \in 0..Burst
  OBVIOUS
<1> USE LimiterBounds
<1>1. CASE buckets[c] = NoBucket
  BY <1>1 DEF Available
<1>2. CASE buckets[c] # NoBucket
  <2>1. /\ buckets[c] \in Bucket /\ buckets[c].at <= now /\ now \in Nat
        /\ buckets[c].at \in Nat /\ buckets[c].tokens \in 0..Burst
    BY <1>2 DEF LimiterTypeOK, BucketsAreCurrent, Tracked, Bucket
  <2>2. Rate * (now - buckets[c].at) >= 0
    BY <2>1
  <2> QED BY <1>2, <2>1, <2>2 DEF Available
<1> QED BY <1>1, <1>2

LEMMA AvailableIsNatNext ==
  (LimiterTypeOK /\ BucketsAreCurrent => \A c \in Clients : Available(c) \in 0..Burst)'
BY AvailableIsNat, PTL

(* What the table forgets when it is full is a full bucket, which is what  *)
(* a client it does not know is given.                                     *)
LEMMA ForgottenAreFull ==
  ASSUME LimiterTypeOK, BucketsAreCurrent, NEW c \in Stale
  PROVE  Available(c) = Burst
<1> USE LimiterBounds
<1>1. /\ c \in Clients /\ buckets[c] # NoBucket /\ buckets[c] \in Bucket
      /\ now - buckets[c].seen > Ttl /\ now \in Nat
      /\ buckets[c].at <= buckets[c].seen /\ buckets[c].seen <= now
  BY DEF LimiterTypeOK, BucketsAreCurrent, Stale, Tracked
<1>2. buckets[c].at \in Nat /\ buckets[c].seen \in Nat /\ buckets[c].tokens \in 0..Burst
  BY <1>1 DEF Bucket
<1>3. Ttl + 1 <= now - buckets[c].at /\ now - buckets[c].at \in Nat
  BY <1>1, <1>2
<1>4. Rate * (Ttl + 1) <= Rate * (now - buckets[c].at)
  BY <1>3, MoreTicksMoreTokens
<1>5. Burst <= Rate * (now - buckets[c].at)
  BY <1>3, <1>4, FullBeforeForgotten
<1>6. ~(buckets[c].tokens + Rate * (now - buckets[c].at) < Burst)
  BY <1>2, <1>3, <1>5
<1> QED BY <1>1, <1>6 DEF Available

(* The initial table is empty, and nothing was admitted.                   *)
LEMMA LInvInit == LimiterInit => LInv
<1> SUFFICES ASSUME LimiterInit PROVE LInv
  OBVIOUS
<1> USE LimiterBounds DEF LimiterInit
<1>1. LimiterTypeOK
  BY DEF LimiterTypeOK
<1>2. Tracked = {}
  BY DEF Tracked
<1>3. TableIsBounded
  BY <1>2, FS_EmptySet DEF TableIsBounded
<1>4. BucketsAreCurrent /\ NothingAheadOfTime
  BY <1>2 DEF BucketsAreCurrent, NothingAheadOfTime
<1>5. SpentAndLeft
  <2> SUFFICES ASSUME NEW c \in Clients, NEW t \in 0..now
               PROVE  since[c][t] + Available(c) <= Burst + Rate * (now - t)
    BY DEF SpentAndLeft
  <2>1. t = 0 /\ now = 0 /\ since[c][t] = 0 /\ Available(c) = Burst
    BY DEF Available
  <2>2. Rate * (now - t) = 0
    BY <2>1
  <2> QED BY <2>1, <2>2
<1> QED BY <1>1, <1>3, <1>4, <1>5 DEF LInv

(* A tick gives every bucket at most Rate more tokens.                     *)
LEMMA TickKeepsLInv == LInv /\ Tick => LInv'
<1> SUFFICES ASSUME LInv, Tick PROVE LInv'
  OBVIOUS
<1> USE LimiterBounds DEF LInv, Tick
<1>0. now \in 0..MaxTime /\ now \in Nat /\ now' = now + 1 /\ now' \in 0..MaxTime
  BY DEF LimiterTypeOK
<1>1. LimiterTypeOK'
  BY <1>0 DEF LimiterTypeOK
<1>2. Tracked' = Tracked
  BY DEF Tracked
<1>3. TableIsBounded'
  BY <1>2 DEF TableIsBounded
<1>4. BucketsAreCurrent'
  <2> SUFFICES ASSUME NEW c \in Tracked
               PROVE  buckets[c].at <= buckets[c].seen /\ buckets[c].seen <= now + 1
    BY <1>0, <1>2 DEF BucketsAreCurrent
  <2>1. buckets[c].at <= buckets[c].seen /\ buckets[c].seen <= now
    BY DEF BucketsAreCurrent
  <2>2. buckets[c].seen \in Nat
    BY DEF LimiterTypeOK, Tracked, Bucket
  <2> QED BY <1>0, <2>1, <2>2
<1>5. NothingAheadOfTime'
  BY <1>0 DEF NothingAheadOfTime
<1>6. SpentAndLeft'
  <2> SUFFICES ASSUME NEW c \in Clients, NEW t \in 0..(now + 1)
               PROVE  since[c][t] + Available(c)' <= Burst + Rate * (now + 1 - t)
    BY <1>0 DEF SpentAndLeft
  <2>1. Available(c) \in 0..Burst /\ Available(c)' \in 0..Burst
    BY <1>1, <1>4, AvailableIsNat, AvailableIsNatNext
  <2>2. since[c][t] \in Nat
    BY <1>0 DEF LimiterTypeOK
  <2>3. CASE t = now + 1
    <3>1. since[c][t] = 0
      BY <1>0, <2>3 DEF NothingAheadOfTime
    <3>2. Rate * (now + 1 - t) = 0
      BY <1>0, <2>3
    <3> QED BY <2>1, <3>1, <3>2
  <2>4. CASE t \in 0..now
    <3>1. since[c][t] + Available(c) <= Burst + Rate * (now - t)
      BY <2>4 DEF SpentAndLeft
    <3>2. Rate * (now + 1 - t) = Rate * (now - t) + Rate
      BY <1>0, <2>4
    <3>3. Available(c)' <= Available(c) + Rate
      <4>1. CASE buckets[c] = NoBucket
        BY <4>1, <2>1 DEF Available
      <4>2. CASE buckets[c] # NoBucket
        <5>1. buckets[c].at \in Nat /\ buckets[c].tokens \in Nat
          BY <4>2 DEF LimiterTypeOK, Bucket
        <5>2. Rate * (now + 1 - buckets[c].at) = Rate * (now - buckets[c].at) + Rate
          BY <1>0, <5>1
        <5>3. Rate * (now - buckets[c].at) \in Int
          BY <1>0, <5>1
        <5> QED BY <1>0, <4>2, <5>1, <5>2, <5>3 DEF Available
      <4> QED BY <4>1, <4>2
    <3>4. Rate * (now - t) \in Int
      BY <1>0, <2>4
    <3> QED BY <2>1, <2>2, <3>1, <3>2, <3>3, <3>4
  <2> QED BY <1>0, <2>3, <2>4
<1> QED BY <1>1, <1>3, <1>4, <1>5, <1>6

(* What is left in the table after forgetting, and that those the table    *)
(* forgets are offered no more than before.                                *)
LEMMA KeptIsSound ==
  ASSUME LInv, NEW c \in Clients
  PROVE  /\ Kept(c) \in [Clients -> Bucket \union {NoBucket}]
         /\ {d \in Clients : Kept(c)[d] # NoBucket} = Tracked \ Forgotten(c)
         /\ \A d \in Tracked \ Forgotten(c) : Kept(c)[d] = buckets[d]
         /\ \A d \in Clients \ (Tracked \ Forgotten(c)) :
              Kept(c)[d] = NoBucket /\ Available(d) = Burst
<1> USE DEF LInv
<1>1. Forgotten(c) \subseteq Stale
  BY DEF Forgotten
<1>2. \A d \in Stale : Available(d) = Burst
  BY ForgottenAreFull
<1>3. \A d \in Clients \ Tracked : Available(d) = Burst
  BY DEF Tracked, Available
<1>4. Kept(c) \in [Clients -> Bucket \union {NoBucket}]
  BY DEF Kept, LimiterTypeOK
<1>5. \A d \in Clients : Kept(c)[d] = IF d \in Forgotten(c) THEN NoBucket ELSE buckets[d]
  BY DEF Kept
<1> QED BY <1>1, <1>2, <1>3, <1>4, <1>5 DEF Tracked

(* The table after a request of c: c itself, and what was kept.            *)
LEMMA TableAfterRequest ==
  ASSUME LInv, NEW c \in Clients, HasPlace(c) \/ Tracked' \subseteq Tracked \ Forgotten(c),
         Tracked' \subseteq (Tracked \ Forgotten(c)) \union {c},
         c \in Tracked => c \notin Forgotten(c)
  PROVE  TableIsBounded'
<1> USE LimiterBounds
<1> DEFINE Left == Tracked \ Forgotten(c)
<1>1. IsFiniteSet(Tracked) /\ Cardinality(Tracked) <= MaxClients
  BY DEF LInv, TableIsBounded
<1>2. IsFiniteSet(Left) /\ Cardinality(Left) <= Cardinality(Tracked)
  BY <1>1, FS_Subset
<1>3. Cardinality(Left) \in Nat /\ Cardinality(Tracked) \in Nat
  BY <1>1, <1>2, FS_CardinalityType
<1>4. CASE Tracked' \subseteq Left
  <2>1. IsFiniteSet(Tracked') /\ Cardinality(Tracked') <= Cardinality(Left)
    BY <1>2, <1>4, FS_Subset
  <2>2. Cardinality(Tracked') \in Nat
    BY <2>1, FS_CardinalityType
  <2> QED BY <1>1, <1>2, <1>3, <2>1, <2>2 DEF TableIsBounded
<1>5. CASE ~(Tracked' \subseteq Left)
  <2>1. HasPlace(c) /\ c \notin Left
    BY <1>5
  <2>2. c \notin Tracked
    BY <2>1
  <2>3. Cardinality(Left) < MaxClients
    BY <2>1, <2>2 DEF HasPlace
  <2>4. IsFiniteSet(Left \union {c}) /\ Cardinality(Left \union {c}) = Cardinality(Left) + 1
    BY <1>2, <2>1, FS_AddElement
  <2>5. IsFiniteSet(Tracked') /\ Cardinality(Tracked') <= Cardinality(Left \union {c})
    BY <2>4, FS_Subset
  <2>6. Cardinality(Tracked') \in Nat
    BY <2>5, FS_CardinalityType
  <2> QED BY <1>3, <2>3, <2>4, <2>5, <2>6 DEF TableIsBounded
<1> QED BY <1>4, <1>5

(* An admission takes one token and is counted once.                       *)
LEMMA AdmitKeepsLInv ==
  ASSUME LInv, NEW c \in Clients, Admit(c)
  PROVE  LInv'
<1> USE LimiterBounds
<1> DEFINE Left == Tracked \ Forgotten(c)
           b == [tokens |-> Available(c) - 1, at |-> now, seen |-> now]
<1>0. /\ now \in 0..MaxTime /\ now \in Nat /\ now' = now
      /\ Available(c) \in 1..Burst /\ b \in Bucket
  <2>1. now \in 0..MaxTime /\ Available(c) \in 0..Burst
    BY AvailableIsNat DEF LInv, LimiterTypeOK
  <2> QED BY <2>1 DEF Admit, Bucket
<1>1. /\ Kept(c) \in [Clients -> Bucket \union {NoBucket}]
      /\ {d \in Clients : Kept(c)[d] # NoBucket} = Left
      /\ \A d \in Left : Kept(c)[d] = buckets[d]
      /\ \A d \in Clients \ Left : Kept(c)[d] = NoBucket /\ Available(d) = Burst
  BY KeptIsSound
<1>2. buckets' = [Kept(c) EXCEPT ![c] = b]
  BY DEF Admit
<1>3. /\ buckets' \in [Clients -> Bucket \union {NoBucket}]
      /\ buckets'[c] = b
      /\ \A d \in Clients \ {c} : buckets'[d] = Kept(c)[d]
  BY <1>0, <1>1, <1>2
<1>4. /\ since' \in [Clients -> [0..MaxTime -> Nat]]
      /\ \A t \in 0..MaxTime : since'[c][t] = IF t <= now THEN since[c][t] + 1 ELSE since[c][t]
      /\ \A d \in Clients \ {c} : since'[d] = since[d]
  BY DEF Admit, LInv, LimiterTypeOK
<1>5. LimiterTypeOK'
  BY <1>0, <1>3, <1>4 DEF LimiterTypeOK
<1>6. b # NoBucket
  BY <1>0, NoBucketIsNone DEF Bucket
<1>7. Tracked' \subseteq Left \union {c}
  BY <1>1, <1>3 DEF Tracked
<1>8. BucketsAreCurrent'
  <2> SUFFICES ASSUME NEW d \in Left \union {c}
               PROVE  buckets'[d].at <= buckets'[d].seen /\ buckets'[d].seen <= now
    BY <1>0, <1>7 DEF BucketsAreCurrent
  <2>1. CASE d = c
    BY <1>0, <1>3, <2>1
  <2>2. CASE d # c
    <3>1. buckets'[d] = buckets[d] /\ d \in Tracked
      BY <1>1, <1>3, <2>2 DEF Tracked
    <3> QED BY <3>1 DEF LInv, BucketsAreCurrent
  <2> QED BY <2>1, <2>2
<1>9. NothingAheadOfTime'
  <2> SUFFICES ASSUME NEW d \in Clients, NEW t \in 0..MaxTime, t > now
               PROVE  since'[d][t] = 0
    BY <1>0 DEF NothingAheadOfTime
  <2>1. since'[d][t] = since[d][t]
    <3>1. CASE d = c
      <4>1. ~(t <= now)
        BY <1>0
      <4> QED BY <1>4, <3>1, <4>1
    <3>2. CASE d # c
      BY <1>4, <3>2
    <3> QED BY <3>1, <3>2
  <2> QED BY <2>1 DEF LInv, NothingAheadOfTime
<1>10. TableIsBounded'
  <2>1. HasPlace(c) /\ (c \in Tracked => c \notin Forgotten(c))
    BY DEF Admit, Forgotten
  <2> QED BY <1>7, <2>1, TableAfterRequest
<1>11. SpentAndLeft'
  <2> SUFFICES ASSUME NEW d \in Clients, NEW t \in 0..now
               PROVE  since'[d][t] + Available(d)' <= Burst + Rate * (now - t)
    BY <1>0 DEF SpentAndLeft
  <2>1. since[d][t] + Available(d) <= Burst + Rate * (now - t)
    BY DEF LInv, SpentAndLeft
  <2>2. t \in 0..MaxTime /\ t <= now /\ since[d][t] \in Nat /\ Available(d) \in 0..Burst
    <3>1. Available(d) \in 0..Burst
      BY AvailableIsNat DEF LInv
    <3>2. t \in 0..MaxTime /\ t <= now
      BY <1>0 DEF LInv, LimiterTypeOK
    <3>3. since[d][t] \in Nat
      BY <3>2 DEF LInv, LimiterTypeOK
    <3> QED BY <3>1, <3>2, <3>3
  <2>3. CASE d = c
    <3>1. since'[d][t] = since[d][t] + 1
      BY <1>4, <2>2, <2>3
    <3>2. Rate * (now' - buckets'[c].at) = 0
      BY <1>0, <1>3
    <3>3. Available(d)' = Available(c) - 1
      BY <1>0, <1>3, <1>6, <2>3, <3>2 DEF Available
    <3> QED BY <1>0, <2>1, <2>2, <2>3, <3>1, <3>3
  <2>4. CASE d # c
    <3>1. since'[d][t] = since[d][t]
      BY <1>4, <2>4
    <3>2. Available(d)' = Available(d)
      <4>1. CASE d \in Left
        BY <1>0, <1>1, <1>3, <2>4, <4>1 DEF Available
      <4>2. CASE d \notin Left
        BY <1>1, <1>3, <2>4, <4>2 DEF Available
      <4> QED BY <4>1, <4>2
    <3> QED BY <2>1, <3>1, <3>2
  <2> QED BY <2>3, <2>4
<1> QED BY <1>5, <1>8, <1>9, <1>10, <1>11 DEF LInv

(* A refusal takes nothing: the client is at most seen.                    *)
LEMMA RefuseKeepsLInv ==
  ASSUME LInv, NEW c \in Clients, Refuse(c)
  PROVE  LInv'
<1> USE LimiterBounds
<1> DEFINE Left == Tracked \ Forgotten(c)
<1>0. now \in 0..MaxTime /\ now \in Nat /\ now' = now /\ since' = since
  BY DEF LInv, LimiterTypeOK, Refuse
<1>1. /\ Kept(c) \in [Clients -> Bucket \union {NoBucket}]
      /\ {d \in Clients : Kept(c)[d] # NoBucket} = Left
      /\ \A d \in Left : Kept(c)[d] = buckets[d]
      /\ \A d \in Clients \ Left : Kept(c)[d] = NoBucket /\ Available(d) = Burst
  BY KeptIsSound
<1>2. \A d \in Left : /\ buckets[d] \in Bucket /\ buckets[d] # NoBucket
                      /\ buckets[d].at <= buckets[d].seen /\ buckets[d].seen <= now
  BY DEF LInv, LimiterTypeOK, BucketsAreCurrent, Tracked
<1>3. \/ buckets' = Kept(c)
      \/ c \in Left /\ buckets' = [Kept(c) EXCEPT ![c].seen = now]
  <2>1. CASE HasPlace(c) /\ Available(c) < 1
    <3>1. c \in Tracked
      BY <2>1 DEF Available, Tracked
    <3>2. c \in Left
      BY <3>1 DEF Forgotten
    <3> QED BY <2>1, <3>2 DEF Refuse
  <2>2. CASE ~HasPlace(c)
    BY <2>2 DEF Refuse
  <2> QED BY <2>1, <2>2 DEF Refuse
<1>4. /\ buckets' \in [Clients -> Bucket \union {NoBucket}]
      /\ \A d \in Clients \ Left : buckets'[d] = NoBucket
      /\ \A d \in Left :
           /\ buckets'[d] # NoBucket
           /\ buckets'[d].at = buckets[d].at /\ buckets'[d].tokens = buckets[d].tokens
           /\ buckets'[d].at <= buckets'[d].seen /\ buckets'[d].seen <= now
  <2>1. CASE buckets' = Kept(c)
    BY <1>1, <1>2, <2>1
  <2>2. CASE c \in Left /\ buckets' = [Kept(c) EXCEPT ![c].seen = now]
    <3> DEFINE b == [buckets[c] EXCEPT !.seen = now]
    <3>1. buckets' = [Kept(c) EXCEPT ![c] = b]
      BY <1>1, <2>2
    <3>2. /\ b \in Bucket /\ b.at = buckets[c].at /\ b.tokens = buckets[c].tokens
          /\ b.seen = now /\ b.at <= now
      BY <1>0, <1>2, <2>2 DEF Bucket
    <3>3. b # NoBucket
      BY <3>2, NoBucketIsNone DEF Bucket
    <3>4. /\ buckets' \in [Clients -> Bucket \union {NoBucket}] /\ buckets'[c] = b
          /\ \A d \in Clients \ {c} : buckets'[d] = Kept(c)[d]
      BY <1>1, <3>1, <3>2
    <3> HIDE DEF b
    <3> QED BY <1>0, <1>1, <1>2, <2>2, <3>2, <3>3, <3>4
  <2> QED BY <1>3, <2>1, <2>2
<1>5. LimiterTypeOK'
  BY <1>0, <1>4 DEF LInv, LimiterTypeOK
<1>6. Tracked' \subseteq Left
  BY <1>4 DEF Tracked
<1>7. BucketsAreCurrent'
  BY <1>0, <1>4, <1>6 DEF BucketsAreCurrent
<1>8. NothingAheadOfTime'
  BY <1>0 DEF LInv, NothingAheadOfTime
<1>9. TableIsBounded'
  BY <1>6, TableAfterRequest DEF Forgotten
<1>10. SpentAndLeft'
  <2>1. \A d \in Clients : Available(d)' = Available(d)
    BY <1>0, <1>1, <1>2, <1>4 DEF Available
  <2> QED BY <1>0, <2>1 DEF LInv, SpentAndLeft
<1> QED BY <1>5, <1>7, <1>8, <1>9, <1>10 DEF LInv

(* The invariant holds throughout.                                         *)
THEOREM LimiterInvariant == LimiterSpec => []LInv
<1>1. LInv /\ [LimiterNext]_limiter => LInv'
  <2> SUFFICES ASSUME LInv, [LimiterNext]_limiter PROVE LInv'
    OBVIOUS
  <2>1. CASE Tick
    BY <2>1, TickKeepsLInv
  <2>2. ASSUME NEW c \in Clients, Admit(c) PROVE LInv'
    BY <2>2, AdmitKeepsLInv
  <2>3. ASSUME NEW c \in Clients, Refuse(c) PROVE LInv'
    BY <2>3, RefuseKeepsLInv
  <2>4. CASE UNCHANGED limiter
    BY <2>4 DEF LInv, limiter, LimiterTypeOK, BucketsAreCurrent, NothingAheadOfTime,
                TableIsBounded, SpentAndLeft, Tracked, Available
  <2> QED BY <2>1, <2>2, <2>3, <2>4 DEF LimiterNext
<1> QED BY <1>1, LInvInit, PTL DEF LimiterSpec

(* The limiter's state is well typed (middleware.go, RateLimiter).         *)
THEOREM LimiterTypeCorrect == LimiterSpec => []LimiterTypeOK
BY LimiterInvariant, PTL DEF LInv

(* From any instant on a client is admitted at most its burst and what its *)
(* bucket gained since, whoever fills the table and whatever it forgets,   *)
(* and the table stays within its limit (RateLimiter.allow, evictLocked).  *)
THEOREM ClientsGetTheirRate == LimiterSpec => []AdmissionsAreBounded
<1>1. LInv => AdmissionsAreBounded
  <2> SUFFICES ASSUME LInv, NEW c \in Clients, NEW t \in 0..now
               PROVE  since[c][t] <= Burst + Rate * (now - t)
    BY DEF LInv, TableIsBounded, AdmissionsAreBounded
  <2> USE LimiterBounds
  <2>1. now \in 0..MaxTime /\ t \in 0..MaxTime
    BY DEF LInv, LimiterTypeOK
  <2>2. since[c][t] + Available(c) <= Burst + Rate * (now - t)
    BY DEF LInv, SpentAndLeft
  <2>3. since[c][t] \in Nat /\ Available(c) \in 0..Burst
    BY <2>1, AvailableIsNat DEF LInv, LimiterTypeOK
  <2>4. Rate * (now - t) \in Int
    BY <2>1
  <2> QED BY <2>2, <2>3, <2>4
<1> QED BY <1>1, LimiterInvariant, PTL
==============================================================================

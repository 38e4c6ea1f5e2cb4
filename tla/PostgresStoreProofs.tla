------------------------- MODULE PostgresStoreProofs -------------------------
(***************************************************************************)
(* Proofs about PostgresStore, for any number of calls, any pool and any   *)
(* page size.                                                              *)
(***************************************************************************)
EXTENDS PostgresStore, FiniteSetTheorems, NaturalsInduction, TLAPS

-----------------------------------------------------------------------------
(* The inductive invariant *)

(* The sequence is ahead of every number it gave out. *)
Numbered == \A w \in Writers : \A i \in DOMAIN drawn[w] : drawn[w][i] < nextSeq

(* Numbers are drawn once, and in the order the entries are written. *)
DrawnOnce ==
  \A w, x \in Writers : \A i \in DOMAIN drawn[w] : \A j \in DOMAIN drawn[x] :
    /\ drawn[w][i] = drawn[x][j] => w = x /\ i = j
    /\ w = x /\ i < j => drawn[w][i] < drawn[w][j]

(* A COMMIT is sent of what is written, and nothing is written after it;   *)
(* only what the database has committed is durable, and that as a whole.   *)
CommittedWhole ==
  \A w \in Writers :
    /\ commit[w] # "none" =>
         Written(w) /\ phase[w] \in {"committing", "ok", "error", "lost"}
    /\ phase[w] = "ok" => commit[w] = "done"
    /\ IF commit[w] = "done"
       THEN log[w] = drawn[w] /\ (w \in actions <=> w \in WithAction)
       ELSE log[w] = <<>> /\ w \notin actions

(* The reader's pages leave no hole: a row that was there when it began and *)
(* that it has not been shown is still ahead of its offset.                 *)
AheadOfReader ==
  \A s \in atStart :
    /\ s \in Trail
    /\ s \notin seen => Before(s) >= offset

ReaderInv == IF reader = "idle" THEN offset = 0 ELSE AheadOfReader

IInv == TypeOK /\ Numbered /\ DrawnOnce /\ CommittedWhole

-----------------------------------------------------------------------------
(* Pages *)

(* A durable number was drawn, so the trail is a finite set of numbers below *)
(* the next one.                                                            *)
LEMMA TrailIsFinite ==
  ASSUME IInv
  PROVE  /\ Trail \subseteq Nat
         /\ IsFiniteSet(Trail)
         /\ \A s \in Trail : s < nextSeq
         /\ \A S \in SUBSET Trail : IsFiniteSet(S) /\ Cardinality(S) \in Nat
<1>1. ASSUME NEW s \in Trail
      PROVE  s \in Nat /\ s < nextSeq
  <2>1. PICK w \in Writers : \E i \in DOMAIN log[w] : s = log[w][i]
    BY DEF Trail
  <2>2. log[w] = drawn[w]
    BY <2>1 DEF IInv, CommittedWhole
  <2>3. QED
    BY <2>1, <2>2 DEF IInv, TypeOK, Numbered
<1>2. nextSeq \in Nat
  BY DEF IInv, TypeOK
<1>3. IsFiniteSet(Trail)
  BY <1>1, <1>2, FS_BoundedSetOfNaturals, \A s \in Trail : s <= nextSeq
<1>4. \A S \in SUBSET Trail : IsFiniteSet(S) /\ Cardinality(S) \in Nat
  BY <1>3, FS_Subset, FS_CardinalityType
<1>5. QED
  BY <1>1, <1>3, <1>4

(* A page of List is a finite set of sequence numbers.                      *)
LEMMA PageIsFinite ==
  ASSUME IInv
  PROVE  Page \subseteq Nat /\ Cardinality(Page) \in Nat
BY TrailIsFinite, Page \subseteq Trail DEF Page

-----------------------------------------------------------------------------
(* The invariant holds initially and is kept by every step *)

(* An empty database satisfies the invariant.                               *)
LEMMA InitInvariant == Init => IInv
BY WritersWriteUnits DEF Init, IInv, TypeOK, Phases, Numbered, DrawnOnce,
   CommittedWhole, Committed

(* The steps that only move a call, or only mark it. *)
LEMMA MovesKeepInvariant ==
  ASSUME IInv, NEW w \in Writers,
         \/ Begin(w) \/ BeginFails(w) \/ WriteAction(w) \/ Rollback(w)
         \/ SendCommit(w) \/ CommitNotSent(w) \/ CommitRefused(w)
         \/ CommitReturns(w) \/ CommitFails(w) \/ Cancel(w) \/ StatementFails(w)
  PROVE  IInv'
<1> USE DEF IInv, TypeOK, Phases, Numbered, DrawnOnce, CommittedWhole, Committed,
        Written, Become, Return, calls, database, reading
<1>1. CASE Begin(w)
  BY <1>1 DEF Begin
<1>2. CASE BeginFails(w)
  BY <1>2, SMTT(20) DEF BeginFails
<1>3. CASE WriteAction(w)
  BY <1>3 DEF WriteAction
<1>4. CASE Rollback(w)
  BY <1>4, SMTT(20) DEF Rollback
<1>5. CASE CommitFails(w)
  BY <1>5, SMTT(20) DEF CommitFails
<1>6. CASE Cancel(w)
  BY <1>6, SMTT(20) DEF Cancel
<1>7. CASE StatementFails(w)
  BY <1>7, SMTT(20) DEF StatementFails
<1>8. CASE SendCommit(w)
  BY <1>8, SMTT(20) DEF SendCommit
<1>9. CASE CommitNotSent(w)
  BY <1>9, SMTT(20) DEF CommitNotSent
<1>10. CASE CommitRefused(w)
  BY <1>10, SMTT(20) DEF CommitRefused
<1>11. CASE CommitReturns(w)
  BY <1>11, SMTT(20) DEF CommitReturns
<1>12. QED
  BY <1>1, <1>2, <1>3, <1>4, <1>5, <1>6, <1>7, <1>8, <1>9, <1>10, <1>11

(* Drawing a number keeps the numbers distinct and ordered, because the     *)
(* sequence is ahead of all of them.                                        *)
LEMMA DrawKeepsInvariant ==
  ASSUME IInv, NEW w \in Writers, AppendAudit(w)
  PROVE  IInv'
<1> USE DEF IInv, AppendAudit, database, reading
<1>1. TypeOK'
  BY DEF TypeOK
<1>2. \A x \in Writers : x # w => drawn'[x] = drawn[x]
  BY DEF TypeOK
<1>3. /\ drawn'[w] = Append(drawn[w], nextSeq)
      /\ DOMAIN drawn'[w] = DOMAIN drawn[w] \union {Len(drawn[w]) + 1}
      /\ drawn'[w][Len(drawn[w]) + 1] = nextSeq
      /\ \A i \in DOMAIN drawn[w] :
           drawn'[w][i] = drawn[w][i] /\ i \in Nat /\ i < Len(drawn[w]) + 1
  BY DEF TypeOK
<1>4. \A x \in Writers : \A i \in DOMAIN drawn[x] :
        drawn[x][i] \in Nat /\ i \in Nat /\ drawn[x][i] < nextSeq
  BY DEF TypeOK, Numbered
<1>5. nextSeq \in Nat /\ nextSeq' = nextSeq + 1
  BY DEF TypeOK
<1>6. Numbered'
  <2> SUFFICES ASSUME NEW x \in Writers, NEW i \in DOMAIN drawn'[x]
               PROVE  drawn'[x][i] < nextSeq'
    BY DEF Numbered
  <2>1. CASE x = w
    BY <2>1, <1>3, <1>4, <1>5
  <2>2. CASE x # w
    BY <2>2, <1>2, <1>4, <1>5
  <2>3. QED
    BY <2>1, <2>2
<1>7. DrawnOnce'
  <2> SUFFICES ASSUME NEW x \in Writers, NEW y \in Writers,
                      NEW i \in DOMAIN drawn'[x], NEW j \in DOMAIN drawn'[y]
               PROVE  /\ drawn'[x][i] = drawn'[y][j] => x = y /\ i = j
                      /\ x = y /\ i < j => drawn'[x][i] < drawn'[y][j]
    BY DEF DrawnOnce
  <2>1. CASE i \in DOMAIN drawn[x] /\ j \in DOMAIN drawn[y]
    BY <2>1, <1>2, <1>3 DEF DrawnOnce
  <2>2. CASE i \notin DOMAIN drawn[x] /\ j \in DOMAIN drawn[y]
    <3>1. x = w /\ i = Len(drawn[w]) + 1 /\ drawn'[x][i] = nextSeq
      BY <2>2, <1>2, <1>3
    <3>2. drawn'[y][j] = drawn[y][j] /\ drawn[y][j] < nextSeq
      BY <2>2, <1>2, <1>3, <1>4
    <3>3. x = y => j < i
      BY <2>2, <3>1, <1>3
    <3>4. drawn[y][j] \in Nat /\ i \in Nat /\ j \in Nat
      BY <2>2, <3>1, <1>4 DEF TypeOK
    <3>5. QED
      BY <3>1, <3>2, <3>3, <3>4, <1>5
  <2>3. CASE i \in DOMAIN drawn[x] /\ j \notin DOMAIN drawn[y]
    <3>1. y = w /\ j = Len(drawn[w]) + 1 /\ drawn'[y][j] = nextSeq
      BY <2>3, <1>2, <1>3
    <3>2. drawn'[x][i] = drawn[x][i] /\ drawn[x][i] < nextSeq
      BY <2>3, <1>2, <1>3, <1>4
    <3>3. drawn[x][i] \in Nat
      BY <2>3, <1>4
    <3>4. QED
      BY <3>1, <3>2, <3>3, <1>5
  <2>4. CASE i \notin DOMAIN drawn[x] /\ j \notin DOMAIN drawn[y]
    <3>1. /\ x = w /\ i = Len(drawn[w]) + 1
          /\ y = w /\ j = Len(drawn[w]) + 1
          /\ Len(drawn[w]) \in Nat
      BY <2>4, <1>2, <1>3 DEF TypeOK
    <3>2. QED
      BY <3>1
  <2>5. QED
    BY <2>1, <2>2, <2>3, <2>4
<1>8. CommittedWhole'
  <2>1. phase[w] = "open" /\ commit[w] = "none"
    BY DEF CommittedWhole
  <2>2. ASSUME NEW x \in Writers, x # w
        PROVE  Written(x)' = Written(x)
    BY <2>2, <1>2 DEF Written
  <2>3. QED
    BY <2>1, <2>2, <1>2 DEF CommittedWhole
<1>9. QED
  BY <1>1, <1>6, <1>7, <1>8

(* A commit makes the whole unit durable, whoever still waits for it.       *)
LEMMA CommitKeepsInvariant ==
  ASSUME IInv, NEW w \in Writers, Commit(w)
  PROVE  IInv'
<1>1. /\ commit[w] = "sent" /\ commit' = [commit EXCEPT ![w] = "done"]
      /\ actions' = actions \union ({w} \intersect WithAction)
      /\ log' = [log EXCEPT ![w] = drawn[w]]
      /\ UNCHANGED <<phase, cancelled, acted, drawn, nextSeq, reading>>
  BY DEF Commit, calls, MakeDurable
<1>2. TypeOK'
  BY <1>1 DEF IInv, TypeOK, Phases, reading
<1>3. Numbered' /\ DrawnOnce'
  BY <1>1 DEF IInv, Numbered, DrawnOnce
<1>4. CommittedWhole'
  <2> SUFFICES ASSUME NEW x \in Writers
               PROVE  (/\ commit[x] # "none" =>
                            /\ Written(x)
                            /\ phase[x] \in {"committing", "ok", "error", "lost"}
                       /\ phase[x] = "ok" => commit[x] = "done"
                       /\ IF commit[x] = "done"
                          THEN log[x] = drawn[x] /\ (x \in actions <=> x \in WithAction)
                          ELSE log[x] = <<>> /\ x \notin actions)'
    BY DEF CommittedWhole
  <2>1. Written(x)' = Written(x)
    BY <1>1 DEF Written
  <2>2. CASE x = w
    <3>1. log'[w] = drawn[w] /\ commit'[w] = "done"
      BY <1>1 DEF IInv, TypeOK
    <3>2. /\ Written(w) /\ phase[w] \in {"committing", "ok", "error", "lost"}
          /\ w \notin actions
      BY <1>1 DEF IInv, CommittedWhole
    <3>3. QED
      BY <2>1, <2>2, <3>1, <3>2, <1>1
  <2>3. CASE x # w
    <3>1. /\ log'[x] = log[x] /\ commit'[x] = commit[x]
          /\ x \in actions' <=> x \in actions
      BY <2>3, <1>1 DEF IInv, TypeOK
    <3>2. QED
      BY <2>1, <3>1, <1>1 DEF IInv, CommittedWhole
  <2>4. QED
    BY <2>2, <2>3
<1>5. QED
  BY <1>2, <1>3, <1>4 DEF IInv

(* A crash undoes nothing that was committed.                               *)
LEMMA CrashKeepsInvariant ==
  ASSUME IInv, Crash
  PROVE  IInv'
BY DEF Crash, IInv, TypeOK, Phases, Numbered, DrawnOnce, CommittedWhole,
   Committed, Written, database, reading

(* The steps of the client that pages through the trail. *)
Reads == StartReading \/ CountRows \/ ReadPage \/ PageFails

(* Reading changes neither the calls nor the trail.                         *)
LEMMA ReaderKeepsInvariant ==
  ASSUME IInv, Reads
  PROVE  IInv'
<1>1. UNCHANGED <<phase, cancelled, acted, drawn, nextSeq, commit, actions, log>>
  BY DEF Reads, StartReading, CountRows, ReadPage, PageFails, calls, database
<1>2. /\ Trail \subseteq Nat /\ Cardinality(Trail) \in Nat
      /\ Page \subseteq Nat /\ Cardinality(Page) \in Nat
  BY TrailIsFinite, PageIsFinite
<1>3. TypeOK'
  <2>1. CASE StartReading
    BY <2>1, <1>1, <1>2 DEF IInv, TypeOK, StartReading
  <2>2. CASE ReadPage
    <3>1. /\ offset' \in Nat /\ total' \in Nat
          /\ seen' \subseteq Nat /\ atStart' = atStart
      BY <2>2, <1>2 DEF IInv, TypeOK, ReadPage
    <3>2. reader' \in {"idle", "reading", "counted", "finished"}
      BY <2>2 DEF ReadPage
    <3>3. QED
      BY <3>1, <3>2, <1>1 DEF IInv, TypeOK
  <2>3. CASE CountRows \/ PageFails
    <3>1. /\ reader' \in {"reading", "counted"} /\ total' \in Nat
          /\ UNCHANGED <<offset, seen, atStart>>
      BY <2>3, <1>2 DEF CountRows, PageFails
    <3>2. QED
      BY <3>1, <1>1 DEF IInv, TypeOK
  <2>4. QED
    BY <2>1, <2>2, <2>3 DEF Reads
<1>4. Numbered' /\ DrawnOnce' /\ CommittedWhole'
  BY <1>1 DEF IInv, Numbered, DrawnOnce, CommittedWhole, Committed, Written
<1>5. QED
  BY <1>3, <1>4 DEF IInv

(* The steps of a call and of its transaction. *)
Works(w) == Call(w) \/ Cancel(w) \/ Commit(w) \/ CommitRefused(w)

(* The invariant is inductive: one case per kind of step.                   *)
LEMMA NextKeepsInvariant == IInv /\ [Next]_vars => IInv'
<1> SUFFICES ASSUME IInv, [Next]_vars
             PROVE  IInv'
  OBVIOUS
<1>1. ASSUME NEW w \in Writers, Works(w)
      PROVE  IInv'
  BY <1>1, MovesKeepInvariant, DrawKeepsInvariant, CommitKeepsInvariant DEF Works, Call
<1>2. CASE UNCHANGED vars
  BY <1>2 DEF vars, calls, database, reading, IInv, TypeOK, Numbered, DrawnOnce,
     CommittedWhole, Committed, Written
<1>3. QED
  BY <1>1, <1>2, CrashKeepsInvariant, ReaderKeepsInvariant DEF Next, Reads, Works

(* The invariant holds in every reachable state.                            *)
LEMMA Invariant == Spec => []IInv
BY InitInvariant, NextKeepsInvariant, PTL DEF Spec

-----------------------------------------------------------------------------
(* Safety *)

(* The calls, the trail and its reader stay inside their types, the numbers *)
(* AppendAudit scans among them.                                            *)
THEOREM TypeCorrect == Spec => []TypeOK
BY Invariant, PTL DEF IInv

(* appendAudit: no two entries of the trail carry one sequence, and a unit's *)
(* entries carry theirs in the order they were written, for any number of   *)
(* concurrent transactions.                                                 *)
THEOREM Ordered == Spec => []TrailIsOrdered
<1>1. IInv => TrailIsOrdered
  BY DEF IInv, TypeOK, DrawnOnce, CommittedWhole, Committed, TrailIsOrdered
<1>2. QED
  BY <1>1, Invariant, PTL

(* SaveActionWithAudit: nil means the whole unit is durable, and of a call   *)
(* that did not get as far as asking for its commit nothing is ever found.  *)
THEOREM Acknowledged == Spec => []AcknowledgedIsDurable
<1>1. IInv => AcknowledgedIsDurable
  BY WritersWriteUnits DEF IInv, CommittedWhole, Committed, Written, AcknowledgedIsDurable
<1>2. QED
  BY <1>1, Invariant, PTL

(* inTx: what a call has recorded is what it had to write, never a part.    *)
THEOREM Whole == Spec => []UnitsAreWhole
<1>1. IInv => UnitsAreWhole
  BY WritersWriteUnits DEF IInv, CommittedWhole, Committed, Written, UnitsAreWhole
<1>2. QED
  BY <1>1, Invariant, PTL

-----------------------------------------------------------------------------
(* The store implements the ledger *)

Recorded(w) ==
  IF ~Committed(w) /\ w \notin actions THEN Nothing
  ELSE [action |-> w \in actions, entries |-> Len(log[w])]

(* A commit records one unit, whole, where there was none.                  *)
LEMMA CommitRecords ==
  ASSUME IInv, NEW w \in Writers, Commit(w)
  PROVE  Ledger!Next
<1>1. IInv'
  BY CommitKeepsInvariant
<1>2. /\ commit[w] = "sent"
      /\ actions' = actions \union ({w} \intersect WithAction)
      /\ log' = [log EXCEPT ![w] = drawn[w]]
  BY DEF Commit, MakeDurable
<1>3. ~Committed(w) /\ w \notin actions /\ Written(w)
  BY <1>2 DEF IInv, CommittedWhole, Committed
<1>4. log'[w] = drawn[w] /\ Len(drawn[w]) \in {1, 2} /\ drawn[w] # <<>>
  <2>1. log'[w] = drawn[w]
    BY <1>2 DEF IInv, TypeOK
  <2>2. Len(drawn[w]) \in {1, 2}
    BY <1>3, WritersWriteUnits DEF Written
  <2>3. QED
    BY <2>1, <2>2
<1>5. /\ Recorded(w) = Nothing
      /\ Recorded(w)' = [action |-> w \in actions', entries |-> Len(drawn[w])]
  BY <1>3, <1>4 DEF Recorded, Committed
<1>6. \A x \in Writers : x # w => Recorded(x)' = Recorded(x)
  <2> SUFFICES ASSUME NEW x \in Writers, x # w
               PROVE  Recorded(x)' = Recorded(x)
    OBVIOUS
  <2>1. log'[x] = log[x] /\ (x \in actions' <=> x \in actions)
    BY <1>2 DEF IInv, TypeOK
  <2>2. (x \in actions') = (x \in actions)
    BY <2>1
  <2>3. QED
    BY <2>1, <2>2 DEF Recorded, Committed
<1>7. Recorded(w)' \in [action : BOOLEAN, entries : {1, 2}]
  BY <1>4, <1>5
<1>8. [x \in Writers |-> Recorded(x)]'
        = [[x \in Writers |-> Recorded(x)] EXCEPT ![w] = Recorded(w)']
  BY <1>6
<1>9. Ledger!Record(w)
  BY <1>5, <1>7, <1>8 DEF Ledger!Record, Recorded
<1>10. QED
  BY <1>9 DEF Ledger!Next

(* Any other step leaves every record as it is. *)
LEMMA OthersRecordNothing ==
  ASSUME [Next]_vars, \A w \in Writers : ~Commit(w)
  PROVE  UNCHANGED <<actions, log>>
<1>1. ASSUME NEW w \in Writers, Works(w)
      PROVE  UNCHANGED <<actions, log>>
  BY <1>1 DEF Works, Call, Cancel, Begin, BeginFails, WriteAction, AppendAudit,
     StatementFails, Rollback, SendCommit, CommitNotSent, CommitRefused,
     CommitReturns, CommitFails, database
<1>2. CASE Crash
  BY <1>2 DEF Crash, database
<1>3. CASE Reads
  BY <1>3 DEF Reads, StartReading, CountRows, ReadPage, PageFails, database
<1>4. QED
  BY <1>1, <1>2, <1>3 DEF Next, vars, database, Reads, Works

(* SaveActionWithAudit and Append implement the ledger: each unit becomes   *)
(* durable in one step, whole, once, and stays, across failed statements,   *)
(* unknown commits and crashes.                                             *)
THEOREM StoreIsLedger == Spec => LedgerSpec
<1>1. Init => Ledger!Init
  BY DEF Init, Ledger!Init, Committed
<1>2. IInv /\ [Next]_vars =>
        Ledger!Next \/ UNCHANGED [w \in Writers |-> Recorded(w)]
  <2> SUFFICES ASSUME IInv, [Next]_vars
               PROVE  Ledger!Next \/ UNCHANGED [w \in Writers |-> Recorded(w)]
    OBVIOUS
  <2>1. CASE \E w \in Writers : Commit(w)
    BY <2>1, CommitRecords
  <2>2. CASE \A w \in Writers : ~Commit(w)
    BY <2>2, OthersRecordNothing DEF Recorded, Committed
  <2>3. QED
    BY <2>1, <2>2
<1>3. IInv /\ [Next]_vars => [Ledger!Next]_[w \in Writers |->
        IF ~Committed(w) /\ w \notin actions THEN Nothing
        ELSE [action |-> w \in actions, entries |-> Len(log[w])]]
  BY <1>2 DEF Recorded
<1>4. QED
  BY <1>1, <1>3, Invariant, PTL DEF LedgerSpec, Ledger!Spec, Spec

-----------------------------------------------------------------------------
(* Paging *)

(* Rows stand in the order of their sequences. *)
LEMMA RowsAreOrdered ==
  ASSUME IInv
  PROVE  /\ \A s \in Trail : Before(s) \in Nat
         /\ \A s, t \in Trail : s < t => Before(s) < Before(t)
         /\ \A s, t \in Trail : Before(s) = Before(t) => s = t
<1> DEFINE Below(s) == {t \in Trail : t < s}
<1>1. \A s \in Trail : Below(s) \in SUBSET Trail /\ s \in Nat
  BY TrailIsFinite
<1>2. \A s \in Trail : IsFiniteSet(Below(s)) /\ Cardinality(Below(s)) \in Nat
  BY <1>1, TrailIsFinite
<1>3. ASSUME NEW s \in Trail, NEW t \in Trail, s < t
      PROVE  Before(s) < Before(t)
  <2>1. /\ Below(s) \in SUBSET Below(t)
        /\ s \in Below(t) /\ s \notin Below(s)
    BY <1>1, <1>3
  <2>2. /\ Cardinality(Below(s)) <= Cardinality(Below(t))
        /\ Cardinality(Below(s)) # Cardinality(Below(t))
    BY <2>1, <1>2, FS_Subset
  <2>3. QED
    BY <2>2, <1>2 DEF Before
<1>4. \A s \in Trail : Before(s) \in Nat
  BY <1>2 DEF Before
<1>5. QED
  BY <1>1, <1>3, <1>4

(* A set of rows whose positions lie between two bounds is no larger than   *)
(* the distance between them.                                               *)
LEMMA RowsBetween ==
  ASSUME IInv, NEW S \in SUBSET Trail, NEW a \in Nat, NEW b \in Nat, a <= b,
         \A s \in S : a <= Before(s) /\ Before(s) < b
  PROVE  Cardinality(S) <= b - a
<1> DEFINE f == [s \in S |-> Before(s)]
<1>1. \A s \in S : Before(s) \in a..(b - 1)
  BY RowsAreOrdered
<1>2. f \in Injection(S, a..(b - 1))
  BY <1>1, RowsAreOrdered DEF Injection, IsInjective
<1>3. IsFiniteSet(a..(b - 1)) /\ Cardinality(a..(b - 1)) = b - a
  <2>1. /\ IsFiniteSet(a..(b - 1))
        /\ Cardinality(a..(b - 1)) = IF a > b - 1 THEN 0 ELSE (b - 1) - a + 1
    BY b - 1 \in Int, FS_Interval
  <2>2. QED
    BY <2>1
<1>4. QED
  BY <1>2, <1>3, FS_Injection

(* An offset with a row at it or after it has a page that is not empty.     *)
LEMMA EmptyPageEndsTheTrail ==
  ASSUME IInv, NEW s \in Trail, Before(s) >= offset
  PROVE  Page # {}
<1> DEFINE Rest == {t \in Trail : Before(t) >= offset}
<1>1. PICK t \in Rest : \A u \in Rest : ~(u < t)
  <2>1. Rest \subseteq Nat /\ Rest # {}
    BY TrailIsFinite
  <2>2. PICK t \in Rest : \A u \in Rest : <<u, t>> \notin OpToRel(<, Nat)
    BY <2>1, NatLessThanWellFounded, WFMin
  <2>3. \A u \in Rest : u < t => <<u, t>> \in OpToRel(<, Nat)
    BY <2>1 DEF OpToRel
  <2>4. QED
    BY <2>2, <2>3
<1> DEFINE Below == {u \in Trail : u < t}
<1>2. offset \in Nat
  BY DEF IInv, TypeOK
<1>3. \A u \in Below : 0 <= Before(u) /\ Before(u) < offset
  BY <1>1, <1>2, RowsAreOrdered
<1>4. Cardinality(Below) <= offset - 0
  BY <1>2, <1>3, RowsBetween
<1>5. Before(t) = offset
  BY <1>1, <1>2, <1>4, RowsAreOrdered DEF Before
<1>6. t \in Page
  BY <1>1, <1>2, <1>5, WritersWriteUnits DEF Page
<1>7. QED
  BY <1>6

(* The part of TrailIsFinite that the next lemmas use under a prime.        *)
LEMMA FiniteTrail == IInv => IsFiniteSet(Trail)
BY TrailIsFinite

(* The trail only grows, and a row only moves towards its end.              *)
LEMMA RowsMoveOn ==
  ASSUME IInv, [Next]_vars
  PROVE  /\ Trail \subseteq Trail'
         /\ \A s \in Trail : Before(s) <= Before(s)'
<1>1. Trail \subseteq Trail'
  <2>1. CASE \E w \in Writers : Commit(w)
    <3>1. PICK w \in Writers : Commit(w)
      BY <2>1
    <3>2. commit[w] = "sent" /\ log' = [log EXCEPT ![w] = drawn[w]]
      BY <3>1 DEF Commit, MakeDurable
    <3>3. log[w] = <<>>
      BY <3>2 DEF IInv, CommittedWhole
    <3>4. \A x \in Writers : x # w => log'[x] = log[x]
      BY <3>2 DEF IInv, TypeOK
    <3>5. QED
      BY <3>3, <3>4 DEF Trail
  <2>2. CASE \A w \in Writers : ~Commit(w)
    BY <2>2, OthersRecordNothing DEF Trail
  <2>3. QED
    BY <2>1, <2>2
<1>2. IInv'
  BY NextKeepsInvariant
<1>3. IsFiniteSet(Trail)'
  BY <1>2, FiniteTrail, PTL
<1>4. ASSUME NEW s \in Trail
      PROVE  Before(s) <= Before(s)'
  <2>1. {t \in Trail : t < s} \in SUBSET {t \in Trail' : t < s}
    BY <1>1
  <2>2. IsFiniteSet({t \in Trail' : t < s})
    BY <1>3, FS_Subset
  <2>3. QED
    BY <2>1, <2>2, FS_Subset DEF Before
<1>5. QED
  BY <1>1, <1>4

(* A page shows all that lies before the next offset, and an empty page is  *)
(* the end.                                                                 *)
LEMMA ReadPageLeavesNoHole ==
  ASSUME IInv, ReaderInv, ReadPage
  PROVE  AheadOfReader' /\ (reader' = "finished" => atStart \subseteq seen)
<1>1. AheadOfReader /\ Trail' = Trail /\ atStart' = atStart
  BY DEF ReadPage, ReaderInv, database, Trail
<1>2. \A s \in Trail : Before(s)' = Before(s)
  BY <1>1 DEF Before
<1>3. offset \in Nat /\ offset + PageSize \in Nat /\ PageSize \in Nat
  BY WritersWriteUnits DEF IInv, TypeOK
<1>4. Cardinality(Page) <= PageSize
  <2>1. Page \in SUBSET Trail
    BY DEF Page
  <2>2. \A s \in Page : offset <= Before(s) /\ Before(s) < offset + PageSize
    BY <2>1, <1>3, RowsAreOrdered DEF Page
  <2>3. Cardinality(Page) <= (offset + PageSize) - offset
    BY <2>1, <2>2, <1>3, RowsBetween
  <2>4. QED
    BY <2>3, <1>3, PageIsFinite
<1>5. AheadOfReader'
  <2> SUFFICES ASSUME NEW s \in atStart
               PROVE  s \in Trail /\ (s \notin seen' => Before(s) >= offset')
    BY <1>1, <1>2 DEF AheadOfReader
  <2>1. s \in Trail /\ (s \notin seen => Before(s) >= offset)
    BY <1>1 DEF AheadOfReader
  <2>2. s \notin seen' => s \notin seen /\ s \notin Page
    BY DEF ReadPage
  <2>3. s \notin Page => Before(s) < offset \/ Before(s) >= offset + PageSize
    BY <2>1, <1>3, RowsAreOrdered DEF Page
  <2>4. offset' = offset + Cardinality(Page)
    BY DEF ReadPage
  <2>5. QED
    BY <2>1, <2>2, <2>3, <2>4, <1>3, <1>4, PageIsFinite, RowsAreOrdered
<1>6. reader' = "finished" => atStart \subseteq seen
  <2>1. reader' = "finished" => Page = {}
    BY DEF ReadPage
  <2>2. QED
    BY <2>1, <1>1, EmptyPageEndsTheTrail DEF AheadOfReader
<1>7. QED
  BY <1>5, <1>6

(* Any other step may move a row the reader has not been shown away from    *)
(* the start of the trail, never past its offset.                           *)
LEMMA OthersKeepAhead ==
  ASSUME IInv, [Next]_vars, AheadOfReader, UNCHANGED <<offset, seen, atStart>>
  PROVE  AheadOfReader'
<1> SUFFICES ASSUME NEW s \in atStart
             PROVE  s \in Trail' /\ (s \notin seen => Before(s)' >= offset)
  BY DEF AheadOfReader
<1>1. s \in Trail /\ (s \notin seen => Before(s) >= offset)
  BY DEF AheadOfReader
<1>2. s \in Trail' /\ Before(s) <= Before(s)'
  BY <1>1, RowsMoveOn
<1>3. IInv'
  BY NextKeepsInvariant
<1>4. Before(s) \in Nat /\ offset \in Nat
  BY <1>1, RowsAreOrdered DEF IInv, TypeOK
<1>5. Before(s)' \in Nat
  <2>1. IsFiniteSet(Trail)'
    BY <1>3, FiniteTrail, PTL
  <2>2. {t \in Trail' : t < s} \in SUBSET Trail'
    OBVIOUS
  <2>3. QED
    BY <2>1, <2>2, FS_Subset, FS_CardinalityType DEF Before
<1>6. QED
  BY <1>1, <1>2, <1>4, <1>5

(* Every step keeps the reader's invariant.                                 *)
LEMMA NextKeepsReader ==
  IInv /\ ReaderInv /\ NothingIsSkipped /\ [Next]_vars
    => ReaderInv' /\ NothingIsSkipped'
<1> SUFFICES ASSUME IInv, ReaderInv, NothingIsSkipped, [Next]_vars
             PROVE  ReaderInv' /\ NothingIsSkipped'
  OBVIOUS
<1>1. CASE ReadPage
  <2>1. reader' # "idle" /\ atStart' = atStart /\ seen \subseteq seen'
    BY <1>1 DEF ReadPage
  <2>2. QED
    BY <1>1, <2>1, ReadPageLeavesNoHole DEF ReaderInv, NothingIsSkipped
<1>2. CASE StartReading
  <2>1. /\ reader' = "reading" /\ atStart' = Trail /\ offset' = offset
        /\ Trail' = Trail /\ \A s \in Trail : Before(s)' = Before(s)
    BY <1>2 DEF StartReading, database, Trail, Before
  <2>2. offset = 0
    BY <1>2 DEF StartReading, ReaderInv
  <2>3. QED
    BY <2>1, <2>2, RowsAreOrdered DEF ReaderInv, AheadOfReader, NothingIsSkipped
<1>3. CASE UNCHANGED reading
  BY <1>3, OthersKeepAhead DEF reading, ReaderInv, NothingIsSkipped
<1>6. CASE CountRows \/ PageFails
  <2>1. /\ reader # "idle" /\ reader' \notin {"idle", "finished"}
        /\ UNCHANGED <<offset, seen, atStart>>
    BY <1>6 DEF CountRows, PageFails
  <2>2. QED
    BY <2>1, OthersKeepAhead DEF ReaderInv, NothingIsSkipped
<1>4. ASSUME NEW w \in Writers, Works(w)
      PROVE  UNCHANGED reading
  BY <1>4 DEF Works, Call, Cancel, Begin, BeginFails, WriteAction, AppendAudit,
     StatementFails, Rollback, Return, Become, SendCommit, CommitNotSent, Commit,
     CommitRefused, CommitReturns, CommitFails
<1>5. QED
  BY <1>1, <1>2, <1>3, <1>4, <1>6 DEF Next, vars, Crash, Works

(* List: a client that pages through the trail to its end misses no entry   *)
(* that was there when it began, while entries with lower sequences become  *)
(* visible after entries with higher ones, for every page size.             *)
THEOREM PagingSkipsNothing == Spec => []NothingIsSkipped
<1>1. Init => ReaderInv /\ NothingIsSkipped
  BY DEF Init, ReaderInv, NothingIsSkipped
<1>2. QED
  BY <1>1, Invariant, NextKeepsReader, PTL DEF Spec

-----------------------------------------------------------------------------
(* The total and the page *)

(* What was counted is still there when the page is read.                   *)
CountedIsThere == reader = "counted" => total <= Cardinality(Trail)

(* Two parts of the trail hold at most the sum of what each holds.          *)
LEMMA PartsCover ==
  ASSUME IInv, NEW S \in SUBSET Trail, NEW T \in SUBSET Trail
  PROVE  Cardinality(S \union T) <= Cardinality(S) + Cardinality(T)
<1>1. /\ IsFiniteSet(S) /\ IsFiniteSet(T) /\ S \intersect T \in SUBSET Trail
      /\ Cardinality(S) \in Nat /\ Cardinality(T) \in Nat
  BY TrailIsFinite
<1>2. Cardinality(S \intersect T) \in Nat
  BY <1>1, TrailIsFinite
<1>3. Cardinality(S \union T)
        = Cardinality(S) + Cardinality(T) - Cardinality(S \intersect T)
  BY <1>1, FS_Union
<1>4. QED
  BY <1>1, <1>2, <1>3

(* A request that has counted got there by CountRows and holds its count.   *)
LEMMA OnlyCountRowsCounts ==
  ASSUME [Next]_vars, ~CountRows, reader' = "counted"
  PROVE  reader = "counted" /\ total' = total
<1>1. ASSUME NEW w \in Writers, Works(w)
      PROVE  UNCHANGED reading
  BY <1>1 DEF Works, Call, Cancel, Begin, BeginFails, WriteAction, AppendAudit,
     StatementFails, Rollback, Return, Become, SendCommit, CommitNotSent, Commit,
     CommitRefused, CommitReturns, CommitFails
<1>2. ~StartReading /\ ~ReadPage /\ ~PageFails
  BY DEF StartReading, ReadPage, PageFails
<1>3. UNCHANGED reading
  BY <1>1, <1>2 DEF Next, vars, Crash, Works
<1>4. QED
  BY <1>3 DEF reading

(* When a page comes short, no row lies beyond it: the first one that would *)
(* has as many rows before it as the pages up to there can hold.            *)
LEMMA NoRowBeyondAShortPage ==
  ASSUME IInv, Cardinality(Page) < PageSize, NEW s \in Trail
  PROVE  Before(s) < offset + PageSize
<1> SUFFICES ASSUME ~(Before(s) < offset + PageSize) PROVE FALSE
  OBVIOUS
<1> DEFINE Rest == {t \in Trail : Before(t) >= offset + PageSize}
<1>1. /\ offset \in Nat /\ PageSize \in Nat /\ offset + PageSize \in Nat
      /\ Page \in SUBSET Trail /\ Cardinality(Page) \in Nat
  BY WritersWriteUnits, PageIsFinite DEF IInv, TypeOK, Page
<1>2. PICK t \in Rest : \A u \in Rest : ~(u < t)
  <2>1. Rest \subseteq Nat /\ Rest # {}
    BY <1>1, TrailIsFinite, RowsAreOrdered
  <2>2. PICK t \in Rest : \A u \in Rest : <<u, t>> \notin OpToRel(<, Nat)
    BY <2>1, NatLessThanWellFounded, WFMin
  <2>3. \A u \in Rest : u < t => <<u, t>> \in OpToRel(<, Nat)
    BY <2>1 DEF OpToRel
  <2>4. QED
    BY <2>2, <2>3
<1> DEFINE Below == {u \in Trail : u < t}
           Shown == {u \in Below : Before(u) < offset}
           Paged == {u \in Below : Before(u) >= offset}
<1>3. Paged \in SUBSET Page
  <2> SUFFICES ASSUME NEW u \in Paged PROVE u \in Page
    OBVIOUS
  <2>1. u \in Trail /\ u < t /\ Before(u) >= offset /\ Before(u) \in Nat
    BY RowsAreOrdered
  <2>2. ~(Before(u) >= offset + PageSize)
    BY <2>1, <1>2
  <2>3. Before(u) < offset + PageSize
    BY <2>1, <2>2, <1>1
  <2>4. QED
    BY <2>1, <2>3 DEF Page
<1>4. Cardinality(Shown) <= offset
  <2>1. \A u \in Shown : 0 <= Before(u) /\ Before(u) < offset
    BY RowsAreOrdered
  <2>2. Cardinality(Shown) <= offset - 0
    BY <2>1, <1>1, RowsBetween
  <2>3. QED
    BY <2>2, <1>1
<1>5. Cardinality(Paged) <= Cardinality(Page)
  BY <1>1, <1>3, TrailIsFinite, FS_Subset
<1>6. Cardinality(Below) <= Cardinality(Shown) + Cardinality(Paged)
  <2>1. Below = Shown \union Paged
    BY <1>1, RowsAreOrdered
  <2>2. QED
    BY <2>1, PartsCover
<1>7. Before(t) = Cardinality(Below) /\ Before(t) >= offset + PageSize
  BY <1>2 DEF Before
<1>8. /\ Cardinality(Below) \in Nat /\ Cardinality(Shown) \in Nat
      /\ Cardinality(Paged) \in Nat
  BY TrailIsFinite
<1>9. QED
  BY <1>1, <1>4, <1>5, <1>6, <1>7, <1>8

(* The rows before an offset and a page that comes short are all there are. *)
LEMMA ShortPageCompletesTheTrail ==
  ASSUME IInv, Cardinality(Page) < PageSize
  PROVE  Cardinality(Trail) <= offset + Cardinality(Page)
<1> DEFINE Shown == {s \in Trail : Before(s) < offset}
<1>1. offset \in Nat /\ Page \in SUBSET Trail /\ Cardinality(Page) \in Nat
  BY PageIsFinite DEF IInv, TypeOK, Page
<1>2. Trail = Shown \union Page
  BY <1>1, NoRowBeyondAShortPage, RowsAreOrdered DEF Page
<1>3. Cardinality(Trail) <= Cardinality(Shown) + Cardinality(Page)
  BY <1>1, <1>2, PartsCover
<1>4. Cardinality(Shown) <= offset
  <2>1. \A s \in Shown : 0 <= Before(s) /\ Before(s) < offset
    BY RowsAreOrdered
  <2>2. Cardinality(Shown) <= offset - 0
    BY <2>1, <1>1, RowsBetween
  <2>3. QED
    BY <2>2, <1>1
<1>5. Cardinality(Trail) \in Nat /\ Cardinality(Shown) \in Nat
  BY TrailIsFinite
<1>6. QED
  BY <1>1, <1>3, <1>4, <1>5

(* Rows that were counted do not go away.                                   *)
LEMMA CountedStays == IInv /\ CountedIsThere /\ [Next]_vars => CountedIsThere'
<1> SUFFICES ASSUME IInv, CountedIsThere, [Next]_vars, reader' = "counted"
             PROVE  total' <= Cardinality(Trail')
  BY DEF CountedIsThere
<1>1. CASE CountRows
  <2>1. total' = Cardinality(Trail) /\ Trail' = Trail
    BY <1>1 DEF CountRows, database, Trail
  <2>2. QED
    BY <2>1, TrailIsFinite
<1>2. CASE ~CountRows
  <2>1. reader = "counted" /\ total' = total
    BY <1>2, OnlyCountRowsCounts
  <2>2. Cardinality(Trail) <= Cardinality(Trail')
    <3>1. Trail \in SUBSET Trail'
      BY RowsMoveOn
    <3>2. IInv'
      BY NextKeepsInvariant
    <3>3. IsFiniteSet(Trail)'
      BY <3>2, FiniteTrail, PTL
    <3>4. QED
      BY <3>1, <3>3, FS_Subset
  <2>3. Cardinality(Trail) \in Nat /\ total \in Nat
    BY TrailIsFinite DEF IInv, TypeOK
  <2>4. Cardinality(Trail') \in Nat
    <3>1. IInv'
      BY NextKeepsInvariant
    <3>2. IsFiniteSet(Trail)'
      BY <3>1, FiniteTrail, PTL
    <3>3. QED
      BY <3>2, FS_CardinalityType
  <2>5. QED
    BY <2>1, <2>2, <2>3, <2>4 DEF CountedIsThere
<1>3. QED
  BY <1>1, <1>2

(* List: the total never promises a client a row beyond a page that came    *)
(* short, whatever is committed between the count and the page, for every   *)
(* page size.                                                               *)
THEOREM ShortPages == Spec => ShortPageIsTheEnd
<1>1. Init => CountedIsThere
  BY DEF Init, CountedIsThere
<1>2. IInv /\ CountedIsThere /\ [Next]_vars =>
        [ReadPage /\ Cardinality(Page) < PageSize => total <= offset']_vars
  <2> SUFFICES ASSUME IInv, CountedIsThere, ReadPage, Cardinality(Page) < PageSize
               PROVE  total <= offset'
    OBVIOUS
  <2>1. total <= Cardinality(Trail) /\ offset' = offset + Cardinality(Page)
    BY DEF ReadPage, CountedIsThere
  <2>2. Cardinality(Trail) <= offset + Cardinality(Page)
    BY ShortPageCompletesTheTrail
  <2>3. /\ total \in Nat /\ offset \in Nat
        /\ Cardinality(Trail) \in Nat /\ Cardinality(Page) \in Nat
    BY TrailIsFinite, PageIsFinite DEF IInv, TypeOK
  <2>4. QED
    BY <2>1, <2>2, <2>3
<1>3. QED
  BY <1>1, <1>2, Invariant, CountedStays, PTL DEF Spec, ShortPageIsTheEnd
=============================================================================

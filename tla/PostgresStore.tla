--------------------------- MODULE PostgresStore ----------------------------
(***************************************************************************)
(* internal/storage/postgres.go: SaveActionWithAudit and Append as the     *)
(* database sees them - transactions over a bounded connection pool, a     *)
(* BIGSERIAL that is drawn when an entry is inserted and is not given back *)
(* by a rollback, commits whose outcome the caller may never learn, or     *)
(* that land when it is gone - and List, read page by page meanwhile.      *)
(*                                                                         *)
(* A writer is one call.  A call of SaveActionWithAudit writes the action  *)
(* (unless there is none) and its entries; a call of Append writes one     *)
(* entry and is a transaction of one statement.                            *)
(***************************************************************************)
EXTENDS Integers, Sequences, FiniteSets

CONSTANTS
  Writers,
  WithAction,   \* the writers that have an action to write
  EntriesOf,    \* how many entries each writer has to write
  PoolSize,     \* MaxConns
  PageSize,     \* the page a reader of the trail asks for
  Nothing

ASSUME WritersWriteUnits ==
  /\ WithAction \subseteq Writers
  /\ EntriesOf \in [Writers -> {1, 2}]
  /\ PoolSize \in Nat \ {0}
  /\ PageSize \in Nat \ {0}

VARIABLES
  phase,      \* where each call is
  cancelled,  \* its context was cancelled: the caller is gone or timed out
  acted,      \* its transaction holds the action's row
  drawn,      \* the sequence numbers its entries drew
  nextSeq,    \* audit_log_sequence_seq
  commit,     \* the COMMIT of its transaction, as the database sees it
  actions,    \* durable: the actions in response_actions
  log,        \* durable: the sequences of its entries in audit_log
  reader,     \* a client paging through the trail: where it is
  offset,     \* the offset it will ask for next
  total,      \* what its request under way has counted, 0 before
  seen,       \* the sequences it has been shown
  atStart     \* history: the sequences in the trail when it began

calls    == <<phase, cancelled, acted, drawn>>
database == <<commit, actions, log>>
reading  == <<reader, offset, total, seen, atStart>>
vars     == <<calls, nextSeq, database, reading>>

Phases == {"waiting", "open", "committing", "failed", "ok", "error", "lost"}

TypeOK ==
  /\ phase \in [Writers -> Phases]
  /\ cancelled \in [Writers -> BOOLEAN]
  /\ acted \in [Writers -> BOOLEAN]
  /\ drawn \in [Writers -> Seq(Nat \ {0})]
  /\ nextSeq \in Nat \ {0}
  /\ commit \in [Writers -> {"none", "sent", "done", "refused"}]
  /\ actions \subseteq Writers
  /\ log \in [Writers -> Seq(Nat \ {0})]
  /\ reader \in {"idle", "reading", "counted", "finished"}
  /\ offset \in Nat
  /\ total \in Nat
  /\ seen \subseteq Nat
  /\ atStart \subseteq Nat

Init ==
  /\ phase = [w \in Writers |-> "waiting"]
  /\ cancelled = [w \in Writers |-> FALSE]
  /\ acted = [w \in Writers |-> FALSE]
  /\ drawn = [w \in Writers |-> <<>>]
  /\ nextSeq = 1
  /\ commit = [w \in Writers |-> "none"]
  /\ actions = {}
  /\ log = [w \in Writers |-> <<>>]
  /\ reader = "idle" /\ offset = 0 /\ total = 0
  /\ seen = {} /\ atStart = {}

-----------------------------------------------------------------------------
(* Transactions: inTx, saveAction, appendAudit *)

Become(w, from, to) == phase[w] = from /\ phase' = [phase EXCEPT ![w] = to]

(* A call that returns is done with its context. *)
Return(w, from, to) ==
  /\ Become(w, from, to)
  /\ cancelled' = [cancelled EXCEPT ![w] = FALSE]

Busy == {w \in Writers : phase[w] \in {"open", "committing", "failed"}}

(* pool.Begin waits for a connection for as long as the context lives. *)
Begin(w) ==
  /\ Become(w, "waiting", "open")
  /\ ~cancelled[w]
  /\ Cardinality(Busy) < PoolSize
  /\ UNCHANGED <<cancelled, acted, drawn, nextSeq, database, reading>>

(* The context ended first, or the database cannot be reached. *)
BeginFails(w) ==
  /\ Return(w, "waiting", "error")
  /\ UNCHANGED <<acted, drawn, nextSeq, database, reading>>

WriteAction(w) ==
  /\ phase[w] = "open" /\ ~cancelled[w]
  /\ w \in WithAction /\ ~acted[w]
  /\ acted' = [acted EXCEPT ![w] = TRUE]
  /\ UNCHANGED <<phase, cancelled, drawn, nextSeq, database, reading>>

(* Mutant: the sequence is the number of committed rows, plus one. *)
AppendAfterLast(w) ==
  /\ phase[w] = "open" /\ ~cancelled[w]
  /\ w \in WithAction => acted[w]
  /\ Len(drawn[w]) < EntriesOf[w]
  /\ drawn' = [drawn EXCEPT ![w] =
       Append(@, 1 + Len(@) + Cardinality({x \in Writers : log[x] # <<>>}))]
  /\ UNCHANGED <<phase, cancelled, acted, nextSeq, database, reading>>

(* Inserting an entry draws its sequence number. *)
AppendAudit(w) ==
  /\ phase[w] = "open" /\ ~cancelled[w]
  /\ w \in WithAction => acted[w]
  /\ Len(drawn[w]) < EntriesOf[w]
  /\ drawn' = [drawn EXCEPT ![w] = Append(@, nextSeq)]
  /\ nextSeq' = nextSeq + 1
  /\ UNCHANGED <<phase, cancelled, acted, database, reading>>

Written(w) ==
  /\ w \in WithAction => acted[w]
  /\ Len(drawn[w]) = EntriesOf[w]

(* A statement fails, or is cancelled under way, possibly after the sequence *)
(* gave out a number.                                                       *)
StatementFails(w) ==
  /\ Become(w, "open", "failed")
  /\ ~Written(w)
  /\ nextSeq' \in {nextSeq, nextSeq + 1}
  /\ UNCHANGED <<cancelled, acted, drawn, database, reading>>

(* Mutant: the rollback is sent on the request's own context. *)
RollbackOnRequestContext(w) ==
  /\ Return(w, "failed", "error")
  /\ ~cancelled[w]
  /\ UNCHANGED <<acted, drawn, nextSeq, database, reading>>

(* The rollback is sent whatever became of the request's context. *)
Rollback(w) ==
  /\ Return(w, "failed", "error")
  /\ UNCHANGED <<acted, drawn, nextSeq, database, reading>>

(* Mutant: the entries are flushed without the action they describe. *)
MakeEntriesDurable(w) ==
  /\ log' = [log EXCEPT ![w] = drawn[w]]
  /\ UNCHANGED actions

MakeDurable(w) ==
  /\ actions' = actions \union ({w} \intersect WithAction)
  /\ log' = [log EXCEPT ![w] = drawn[w]]

(* tx.Commit, up to the wire. *)
SendCommit(w) ==
  /\ Become(w, "open", "committing")
  /\ ~cancelled[w] /\ Written(w)
  /\ commit' = [commit EXCEPT ![w] = "sent"]
  /\ UNCHANGED <<cancelled, acted, drawn, nextSeq, actions, log, reading>>

(* The context ended first, or the connection is gone. *)
CommitNotSent(w) ==
  /\ Return(w, "open", "error")
  /\ Written(w)
  /\ UNCHANGED <<acted, drawn, nextSeq, database, reading>>

(* The COMMIT arrives, be it that nobody waits for its answer any more, and  *)
(* the database commits ...                                                 *)
Commit(w) ==
  /\ commit[w] = "sent"
  /\ commit' = [commit EXCEPT ![w] = "done"]
  /\ MakeDurable(w)
  /\ UNCHANGED <<calls, nextSeq, reading>>

(* ... or does not, or the COMMIT never arrives: the unit is rolled back.   *)
CommitRefused(w) ==
  /\ commit[w] = "sent"
  /\ commit' = [commit EXCEPT ![w] = "refused"]
  /\ UNCHANGED <<calls, nextSeq, actions, log, reading>>

(* tx.Commit returns nil: the database has said that it committed. *)
CommitReturns(w) ==
  /\ Return(w, "committing", "ok")
  /\ commit[w] = "done"
  /\ UNCHANGED <<acted, drawn, nextSeq, database, reading>>

(* Mutant: the error of the commit is dropped. *)
CommitErrorDropped(w) ==
  /\ Return(w, "committing", "ok")
  /\ UNCHANGED <<acted, drawn, nextSeq, database, reading>>

(* tx.Commit returns an error: the commit was refused, or the answer did not *)
(* come, or the context ended meanwhile - whether the database has committed,*)
(* has not, or yet will.                                                    *)
CommitFails(w) ==
  /\ Return(w, "committing", "error")
  /\ UNCHANGED <<acted, drawn, nextSeq, database, reading>>

-----------------------------------------------------------------------------
(* Around the calls *)

(* From the COMMIT on, a context that ends is one way for it to fail. *)
Cancel(w) ==
  /\ phase[w] \in {"waiting", "open"} /\ ~cancelled[w]
  /\ cancelled' = [cancelled EXCEPT ![w] = TRUE]
  /\ UNCHANGED <<phase, acted, drawn, nextSeq, database, reading>>

(* Mutant: the process keeps the ledger in its own memory. *)
CrashWithLedger ==
  /\ \E w \in Writers : phase[w] \notin {"ok", "error", "lost"}
  /\ phase' = [w \in Writers |->
                IF phase[w] \in {"ok", "error"} THEN phase[w] ELSE "lost"]
  /\ actions' = {} /\ log' = [w \in Writers |-> <<>>]
  /\ UNCHANGED <<cancelled, acted, drawn, nextSeq, commit, reading>>

(* The process dies.  The database rolls back what it was not told to      *)
(* commit; a COMMIT on its way may yet arrive.                              *)
Crash ==
  /\ \E w \in Writers : phase[w] \notin {"ok", "error", "lost"}
  /\ phase' = [w \in Writers |->
                IF phase[w] \in {"ok", "error"} THEN phase[w] ELSE "lost"]
  /\ cancelled' = [w \in Writers |-> FALSE]
  /\ UNCHANGED <<acted, drawn, nextSeq, database, reading>>

-----------------------------------------------------------------------------
(* List: the trail in sequence order, a page at an offset *)

Trail == UNION {{log[w][i] : i \in DOMAIN log[w]} : w \in Writers}

Before(s) == Cardinality({t \in Trail : t < s})

(* Mutant: the offset is taken for the last row already shown, counted from *)
(* zero.                                                                    *)
PageAfterOffset ==
  {s \in Trail : Before(s) > offset /\ Before(s) <= offset + PageSize}

(* Rows offset+1 to offset+PageSize of ORDER BY sequence. *)
Page == {s \in Trail : Before(s) >= offset /\ Before(s) < offset + PageSize}

StartReading ==
  /\ reader = "idle"
  /\ reader' = "reading"
  /\ atStart' = Trail
  /\ UNCHANGED <<calls, nextSeq, database, offset, total, seen>>

(* Mutant: the total is the last number the sequence gave out. *)
CountNumbers ==
  /\ reader = "reading"
  /\ reader' = "counted"
  /\ total' = nextSeq - 1
  /\ UNCHANGED <<calls, nextSeq, database, offset, seen, atStart>>

(* The total is counted by a statement of its own, before the page is read. *)
CountRows ==
  /\ reader = "reading"
  /\ reader' = "counted"
  /\ total' = Cardinality(Trail)
  /\ UNCHANGED <<calls, nextSeq, database, offset, seen, atStart>>

(* The reader asks for the page after the rows it was shown, until there is *)
(* none.                                                                    *)
ReadPage ==
  /\ reader = "counted"
  /\ offset' = offset + Cardinality(Page)
  /\ seen' = seen \union Page
  /\ reader' = IF Page = {} THEN "finished" ELSE "reading"
  /\ total' = 0
  /\ UNCHANGED <<calls, nextSeq, database, atStart>>

(* The second statement fails: the request is answered with an error, and   *)
(* the reader asks for the same page again.                                 *)
PageFails ==
  /\ reader = "counted"
  /\ reader' = "reading"
  /\ total' = 0
  /\ UNCHANGED <<calls, nextSeq, database, offset, seen, atStart>>

Call(w) ==
  \/ Begin(w) \/ BeginFails(w)
  \/ WriteAction(w) \/ AppendAudit(w) \/ StatementFails(w)
  \/ Rollback(w)
  \/ SendCommit(w) \/ CommitNotSent(w) \/ CommitReturns(w) \/ CommitFails(w)

Next ==
  \/ \E w \in Writers : Call(w) \/ Cancel(w) \/ Commit(w) \/ CommitRefused(w)
  \/ Crash
  \/ StartReading \/ CountRows \/ ReadPage \/ PageFails

(* A call goes on while it can: a statement, a commit and a rollback return, *)
(* and a connection that stays free is handed to whoever waits for one.  No *)
(* failure is assumed to happen: BeginFails is not among the fair actions,   *)
(* nor is giving up on a COMMIT the database has yet to handle.              *)
Fairness ==
  /\ \A w \in Writers :
       /\ WF_vars(Begin(w))
       /\ WF_vars(WriteAction(w) \/ AppendAudit(w) \/ StatementFails(w))
       /\ WF_vars(SendCommit(w) \/ CommitNotSent(w))
       /\ WF_vars(Commit(w) \/ CommitRefused(w))
       /\ WF_vars(CommitReturns(w) \/ (CommitFails(w) /\ commit[w] # "sent"))
       /\ WF_vars(Rollback(w))
       /\ WF_vars(BeginFails(w) /\ cancelled[w])

Spec == Init /\ [][Next]_vars /\ Fairness

-----------------------------------------------------------------------------
(* Properties *)

Committed(w) == log[w] # <<>>

(* BIGSERIAL and UNIQUE: no two entries of the trail carry one sequence, and *)
(* the entries of a unit carry theirs in the order they were written, so the *)
(* policy's verdict always reads before the response it led to.              *)
TrailIsOrdered ==
  \A w, x \in Writers : \A i \in DOMAIN log[w] : \A j \in DOMAIN log[x] :
    /\ log[w][i] = log[x][j] => w = x /\ i = j
    /\ w = x /\ i < j => log[w][i] < log[w][j]

(* SaveActionWithAudit returns nil only when the whole unit is durable, and  *)
(* stays so.  Of a call that did not get as far as asking for its commit     *)
(* nothing is ever found, whether a statement failed, its context ended or   *)
(* the process died.  Of any other - it waits, it was told of an error, it   *)
(* died - the unit may be found, at once or later (inTx).                    *)
AcknowledgedIsDurable ==
  \A w \in Writers :
    /\ phase[w] = "ok" => Committed(w) /\ (w \in WithAction => w \in actions)
    /\ commit[w] = "none" => ~Committed(w) /\ w \notin actions

(* The store's promise, implemented: each unit whole, once, and for ever.    *)
Ledger ==
  INSTANCE EvaluationLedger WITH
    Evaluations <- Writers,
    Units       <- [action : BOOLEAN, entries : {1, 2}],
    recorded    <- [w \in Writers |->
                      IF ~Committed(w) /\ w \notin actions THEN Nothing
                      ELSE [action |-> w \in actions, entries |-> Len(log[w])]]

LedgerSpec == Ledger!Spec

(* What one writer has recorded is what it had to write. *)
UnitsAreWhole ==
  \A w \in Writers :
    \/ ~Committed(w) /\ w \notin actions
    \/ Len(log[w]) = EntriesOf[w] /\ (w \in actions <=> w \in WithAction)

(* List with OFFSET over a trail that grows, where a lower sequence can be   *)
(* committed after a higher one: a client that pages to the end may be shown *)
(* a row twice, but misses none that was there when it began.                *)
NothingIsSkipped == reader = "finished" => atStart \subseteq seen

(* List counts the trail and reads the page in two statements, and what is   *)
(* committed between them may be in the page and not in the total.  It never *)
(* is the other way round: the total promises a client no row beyond a page  *)
(* that came short of its limit, which is therefore the end.                 *)
ShortPageIsTheEnd ==
  [][ReadPage /\ Cardinality(Page) < PageSize => total <= offset']_vars

(* Every call returns: no cancelled caller, failed statement or full pool    *)
(* holds a connection for ever.                                              *)
EveryCallReturns ==
  \A w \in Writers : phase[w] = "waiting" ~> phase[w] \in {"ok", "error", "lost"}

(* docs/SAFETY_MODEL.md: "A missing audit entry is visible as a sequence gap *)
(* in PostgreSQL" - when a call has failed and left no entry, a number below *)
(* the next one is held neither by the trail nor by a call under way.        *)
LostEntryLeavesGap ==
  \A w \in Writers :
    phase[w] = "error" /\ commit[w] # "sent" /\ ~Committed(w) =>
      \E s \in 1..(nextSeq - 1) :
        /\ s \notin Trail
        /\ \A x \in Writers : phase[x] = "open" \/ commit[x] = "sent" =>
             s \notin {drawn[x][i] : i \in DOMAIN drawn[x]}
=============================================================================

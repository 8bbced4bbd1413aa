------------------------------- MODULE Outbox --------------------------------
(***************************************************************************)
(* The outbox table of a schema and the processes that empty it into the   *)
(* stream: a relay task, and callers that flush after their transaction.   *)
(*                                                                         *)
(*   packages/va-platform/src/va_platform/messaging/outbox.py              *)
(*   packages/va-platform/src/va_platform/nats/__init__.py (JetStreamPublisher) *)
(*                                                                         *)
(* A row is named by its transaction and its position in it.  Transactions *)
(* are numbered in the order they begin, which is the order of created_at; *)
(* the ids of one transaction's rows (UUIDv7) ascend with the position.    *)
(***************************************************************************)
EXTENDS Faults, Sequences, FiniteSets

CONSTANTS NumTxn,      \* transactions that write to the outbox
          NumRows,     \* events one transaction adds
          Drainer,     \* processes that empty the outbox
          Relay,       \* the one of them that is the relay task
          BatchSize,   \* rows read at once
          Interval,    \* pause of the relay between two passes
          MaxInterval  \* longest pause after failures

ASSUME OutboxAssumption ==
  /\ NumTxn \in Nat /\ NumRows \in Nat \ {0}
  /\ Relay \in Drainer
  /\ BatchSize \in Nat \ {0}
  /\ Interval \in Nat \ {0} /\ MaxInterval \in Nat

Txn == 1..NumTxn
Row == Txn \X (1..NumRows)

\* ORDER BY created_at, id
Before(r, q) == r[1] < q[1] \/ (r[1] = q[1] /\ r[2] < q[2])

LongestPause == IF MaxInterval > Interval THEN MaxInterval ELSE Interval

VARIABLES
  txn,        \* what became of each transaction
  earlier,    \* for each transaction, those committed before it began
  marked,     \* rows with published_at set
  log,        \* the stream: rows in the order JetStream stored them
  window,     \* message ids JetStream remembers (duplicate_window)
  pc,         \* where each drainer is
  batch,      \* rows a drainer has read and not yet published and marked
  full,       \* its last batch was as long as the limit
  due,        \* rows committed when its current pass began
  delay       \* the relay's current pause

outboxState == <<txn, earlier, marked, log, window, pc, batch, full, due, delay>>
outboxVars == <<outboxState, faults>>
drain == <<pc, batch, full, due>>

Committed == {r \in Row : txn[r[1]] = "committed"}
Pending == Committed \ marked
InLog(r) == \E i \in 1..Len(log) : log[i] = r

OutboxInit ==
  /\ txn = [t \in Txn |-> "none"]
  /\ earlier = [t \in Txn |-> {}]
  /\ marked = {}
  /\ log = <<>>
  /\ window = {}
  /\ pc = [d \in Drainer |-> "idle"]
  /\ batch = [d \in Drainer |-> {}]
  /\ full = [d \in Drainer |-> FALSE]
  /\ due = [d \in Drainer |-> {}]
  /\ delay = Interval
  /\ faults = 0

------------------------------------------------------------------------------
(* The senders: Outbox.add in the caller's transaction.                     *)

Begin(t) ==
  /\ txn[t] = "none"
  /\ \A s \in Txn : s < t => txn[s] # "none"
  /\ txn' = [txn EXCEPT ![t] = "open"]
  /\ earlier' = [earlier EXCEPT ![t] = {s \in Txn : txn[s] = "committed"}]
  /\ UNCHANGED <<marked, log, window, drain, delay, faults>>

\* Commit or roll back; the rows exist from the commit on.
Finish(t) ==
  /\ txn[t] = "open"
  /\ \E outcome \in {"committed", "aborted"} : txn' = [txn EXCEPT ![t] = outcome]
  /\ UNCHANGED <<earlier, marked, log, window, drain, delay, faults>>

------------------------------------------------------------------------------
(* publish_pending and drain_outbox: the same loop, with and without an     *)
(* event loop.                                                              *)

StartPass_NotAfterFailure(d) ==
  /\ pc[d] = "idle"
  /\ d = Relay => delay = Interval
  /\ pc' = [pc EXCEPT ![d] = "read"]
  /\ due' = [due EXCEPT ![d] = Committed]
  /\ UNCHANGED <<txn, earlier, marked, log, window, batch, full, delay, faults>>

StartPass(d) ==
  /\ pc[d] = "idle"
  /\ pc' = [pc EXCEPT ![d] = "read"]
  /\ due' = [due EXCEPT ![d] = Committed]
  /\ UNCHANGED <<txn, earlier, marked, log, window, batch, full, delay, faults>>

\* _pending: the first rows without published_at, at most a batch of them.
FirstOf(rows) ==
  CHOOSE b \in SUBSET rows :
    /\ Cardinality(b) = IF Cardinality(rows) < BatchSize THEN Cardinality(rows) ELSE BatchSize
    /\ \A r \in b, q \in rows \ b : Before(r, q)

\* A pass that reads nothing is over.
Read_OneBatch(d) ==
  /\ pc[d] = "read"
  /\ LET b == FirstOf(Pending) IN
       /\ batch' = [batch EXCEPT ![d] = b]
       /\ full' = [full EXCEPT ![d] = FALSE]
       /\ pc' = [pc EXCEPT ![d] = IF b = {} THEN "done" ELSE "publish"]
  /\ UNCHANGED <<txn, earlier, marked, log, window, due, delay, faults>>

Read(d) ==
  /\ pc[d] = "read"
  /\ LET b == FirstOf(Pending) IN
       /\ batch' = [batch EXCEPT ![d] = b]
       /\ full' = [full EXCEPT ![d] = Cardinality(b) = BatchSize]
       /\ pc' = [pc EXCEPT ![d] = IF b = {} THEN "done" ELSE "publish"]
  /\ UNCHANGED <<txn, earlier, marked, log, window, due, delay, faults>>

\* The rows of a batch go out one by one, in order.
FirstLeft(d) == CHOOSE r \in batch[d] : \A q \in batch[d] \ {r} : Before(r, q)

\* JetStream, external: a message id it still remembers is dropped, the
\* publisher gets its ack either way.
Store(r) ==
  /\ log' = IF r \in window THEN log ELSE Append(log, r)
  /\ window' = window \cup {r}

PublishRow(d) ==
  /\ pc[d] = "publish"
  /\ Store(FirstLeft(d))
  /\ pc' = [pc EXCEPT ![d] = "mark"]
  /\ UNCHANGED <<txn, earlier, marked, batch, full, due, delay, faults>>

\* _mark_published; after the last row of a full batch comes the next batch.
Mark(d) ==
  /\ pc[d] = "mark"
  /\ LET r == FirstLeft(d) IN
       /\ marked' = marked \cup {r}
       /\ batch' = [batch EXCEPT ![d] = @ \ {r}]
       /\ pc' = [pc EXCEPT ![d] = IF batch[d] # {r} THEN "publish"
                                  ELSE IF full[d] THEN "read" ELSE "done"]
  /\ UNCHANGED <<txn, earlier, log, window, full, due, delay, faults>>

\* The pass returns; the relay's pause is back to normal.
EndPass(d) ==
  /\ pc[d] = "done"
  /\ pc' = [pc EXCEPT ![d] = "idle"]
  /\ delay' = IF d = Relay THEN Interval ELSE delay
  /\ due' = [due EXCEPT ![d] = {}]
  /\ UNCHANGED <<txn, earlier, marked, log, window, batch, full, faults>>

------------------------------------------------------------------------------
(* What may go wrong.                                                       *)

Rest(d) ==
  /\ pc' = [pc EXCEPT ![d] = "idle"]
  /\ batch' = [batch EXCEPT ![d] = {}]
  /\ due' = [due EXCEPT ![d] = {}]

\* The first failure ends the pass with this and all later rows open.
PublishFails_Unbounded(d) ==
  /\ pc[d] = "publish"
  /\ Fault
  /\ delay' = IF d # Relay THEN delay ELSE 2 * delay
  /\ Rest(d)
  /\ UNCHANGED <<txn, earlier, marked, log, window, full>>

\* The publisher raises, whether or not the broker stored the message.  The
\* relay doubles its pause.
PublishFails(d) ==
  /\ pc[d] = "publish"
  /\ Fault
  /\ \/ UNCHANGED <<log, window>>
     \/ Store(FirstLeft(d))
  /\ delay' = IF d # Relay THEN delay
              ELSE IF 2 * delay < LongestPause THEN 2 * delay ELSE LongestPause
  /\ Rest(d)
  /\ UNCHANGED <<txn, earlier, marked, full>>

\* The process dies anywhere in a pass and is restarted.
Crash(d) ==
  /\ pc[d] # "idle"
  /\ Fault
  /\ Rest(d)
  /\ delay' = IF d = Relay THEN Interval ELSE delay
  /\ UNCHANGED <<txn, earlier, marked, log, window, full>>

\* The duplicate window of JetStream passes over the oldest id in it.
Forget ==
  /\ \E i \in 1..Len(log) :
       /\ log[i] \in window
       /\ \A j \in 1..(i - 1) : log[j] \in window => \E k \in i..Len(log) : log[k] = log[j]
       /\ \A k \in (i + 1)..Len(log) : log[k] # log[i]
       /\ window' = window \ {log[i]}
  /\ Fault
  /\ UNCHANGED <<txn, earlier, marked, log, drain, delay>>

------------------------------------------------------------------------------
Pass(d) == StartPass(d) \/ Read(d) \/ PublishRow(d) \/ Mark(d) \/ EndPass(d)

OutboxNext ==
  \/ \E t \in Txn : Begin(t) \/ Finish(t)
  \/ \E d \in Drainer : Pass(d) \/ PublishFails(d) \/ Crash(d)
  \/ Forget

OutboxSpec == OutboxInit /\ [][OutboxNext]_outboxVars

------------------------------------------------------------------------------
(* Properties.                                                              *)

\* The types of the variables.
OutboxTypeOK ==
  /\ txn \in [Txn -> {"none", "open", "committed", "aborted"}]
  /\ earlier \in [Txn -> SUBSET Txn]
  /\ marked \subseteq Row
  /\ log \in Seq(Row)
  /\ window \subseteq Row
  /\ pc \in [Drainer -> {"idle", "read", "publish", "mark", "done"}]
  /\ batch \in [Drainer -> SUBSET Row]
  /\ full \in [Drainer -> BOOLEAN]
  /\ due \in [Drainer -> SUBSET Row]
  /\ delay \in Interval..LongestPause
  /\ faults \in 0..MaxFaults

\* Where a row comes to be in the stream for the first time.
FirstIn(r) == CHOOSE i \in 1..Len(log) : log[i] = r /\ \A j \in 1..(i-1) : log[j] # r
SentBefore(r, q) == InLog(q) => InLog(r) /\ FirstIn(r) < FirstIn(q)

\* The events of one transaction come into the stream in the order they were added
\* (outbox.py: "Innerhalb einer Transaktion bleibt die Reihenfolge erhalten"), and
\* those of a transaction that began after another had committed come after it; only
\* overlapping transactions may change places, with several drainers, failures,
\* crashes and duplicates (publish_pending).
OrderKept ==
  \A r, q \in Row :
    \/ r[1] = q[1] /\ r[2] < q[2]
    \/ r[1] \in earlier[q[1]]
    => SentBefore(r, q)

\* Nothing in the stream was rolled back, nothing that is marked as sent is missing
\* from it, and when a pass returns, everything committed before it began is there,
\* however many batches that took.
NothingLost ==
  /\ \A r \in Row : InLog(r) => r \in Committed
  /\ \A r \in marked : InLog(r)
  /\ \A d \in Drainer : pc[d] = "done" => \A r \in due[d] : InLog(r)

\* The stream has what was committed, all of it and in its order.
SentAsCommitted == OrderKept /\ NothingLost

\* Every committed event is in the stream in the end, though publishing fails
\* and processes die for a while (outbox.py: an entry that stays open is taken
\* up by the next pass).
EventuallySent ==
  <>[](\A t \in Txn : txn[t] = "committed" => \A n \in 1..NumRows : InLog(<<t, n>>) /\ <<t, n>> \in marked)
==============================================================================

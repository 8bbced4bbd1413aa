----------------------------- MODULE ReliableBus -----------------------------
(***************************************************************************)
(* One durable JetStream consumer of a service and the ReliableBus that    *)
(* wraps the service's handlers with the inbox and the outbox of its       *)
(* database schema.  Deliveries come from the stream VA_EVENTS, may come   *)
(* again after a failure, a lost ack or a crash, and may overlap when the  *)
(* in-progress acks of a slow handler are lost.                            *)
(*                                                                         *)
(*   packages/va-platform/src/va_platform/messaging/{reliable,inbox}.py    *)
(*   packages/va-platform/src/va_platform/nats/bus.py  (_pull .. _keep_alive) *)
(*                                                                         *)
(* A message is one entry of the stream.  Two messages may carry the same  *)
(* event id: the sender's outbox sends at least once and JetStream drops a *)
(* duplicate only inside its window.  A run is one execution of the        *)
(* handler, named by the message and its delivery number; the events a run *)
(* publishes get fresh ids, so they are named by the run and a part.       *)
(***************************************************************************)
EXTENDS Naturals

CONSTANTS Message,      \* entries of the stream this consumer is to receive
          Event,        \* event ids
          EventOf,      \* the event id a message carries
          Worker,       \* pull loops of this consumer, over all processes
          Part,         \* positions of the follow-up events of one handler run
          MaxDeliver,   \* deliveries of a message before it is given up
          MaxFaults,    \* bound on failures and crashes
          KeepAlive     \* TRUE: a message is not redelivered under a live worker

ASSUME BusAssumption ==
  /\ EventOf \in [Message -> Event]
  /\ Part # {}
  /\ MaxDeliver \in Nat \ {0}
  /\ MaxFaults \in Nat
  /\ KeepAlive \in BOOLEAN

Run == Message \X (1..MaxDeliver)
Row == Run \X Part
RowsOf(run) == {run} \X Part
NoRun == <<>>

EventOfRun(run) == EventOf[run[1]]

VARIABLES
  mstate,       \* JetStream: what became of each message
  delivered,    \* JetStream: num_delivered
  aged,         \* events older than max_age
  inbox,        \* event ids with an inbox entry
  outbox,       \* follow-up events in the outbox
  marked,       \* those with published_at set
  stream,       \* follow-up events that are in the stream
  stored,       \* handler runs whose business data is committed
  deadLetters,  \* messages for which va.screening.run.failed was published
  pc,           \* where each worker is in ReliableBus._deliver
  job,          \* the delivery each worker is processing
  batch,        \* the outbox rows a worker has read and not yet marked
  row,          \* the row it has published and not yet marked
  faults        \* failures and crashes so far

broker == <<mstate, delivered>>
tables == <<inbox, outbox, marked, stored>>
worker == <<pc, job, batch, row>>
vars == <<mstate, delivered, aged, inbox, outbox, marked, stream, stored,
          deadLetters, pc, job, batch, row, faults>>

Init ==
  /\ mstate = [m \in Message |-> "pending"]
  /\ delivered = [m \in Message |-> 0]
  /\ aged = {}
  /\ inbox = {}
  /\ outbox = {}
  /\ marked = {}
  /\ stream = {}
  /\ stored = {}
  /\ deadLetters = {}
  /\ pc = [w \in Worker |-> "idle"]
  /\ job = [w \in Worker |-> NoRun]
  /\ batch = [w \in Worker |-> {}]
  /\ row = [w \in Worker |-> {}]
  /\ faults = 0

Goto(w, label) == pc' = [pc EXCEPT ![w] = label]

\* A failure that the code does not prevent; MaxFaults bounds them.
Fault == faults < MaxFaults /\ faults' = faults + 1

------------------------------------------------------------------------------
(* JetStream, external: pull of one message, redelivery after ack_wait.     *)

Fetch_NoLimit(w, m) ==
  /\ pc[w] = "idle"
  /\ mstate[m] = "pending"
  /\ mstate' = [mstate EXCEPT ![m] = "inflight"]
  /\ delivered' = [delivered EXCEPT ![m] = @ + 1]
  /\ job' = [job EXCEPT ![w] = <<m, delivered[m] + 1>>]
  /\ Goto(w, "examine")
  /\ UNCHANGED <<aged, tables, stream, deadLetters, batch, row, faults>>

Fetch(w, m) ==
  /\ pc[w] = "idle"
  /\ mstate[m] = "pending"
  /\ delivered[m] < MaxDeliver
  /\ mstate' = [mstate EXCEPT ![m] = "inflight"]
  /\ delivered' = [delivered EXCEPT ![m] = @ + 1]
  /\ job' = [job EXCEPT ![w] = <<m, delivered[m] + 1>>]
  /\ Goto(w, "examine")
  /\ UNCHANGED <<aged, tables, stream, deadLetters, batch, row, faults>>

InHands(m) == \E w \in Worker : pc[w] # "idle" /\ job[w][1] = m

AckWait(m) ==
  /\ mstate[m] = "inflight"
  /\ KeepAlive => ~InHands(m)
  /\ mstate' = [mstate EXCEPT ![m] =
                  IF delivered[m] < MaxDeliver THEN "pending" ELSE "exhausted"]
  /\ UNCHANGED <<delivered, aged, tables, stream, deadLetters, worker, faults>>

\* Time passes: the event gets older than max_age (RUN_TIMEOUT_MINUTES).
Age(e) ==
  /\ e \notin aged
  /\ aged' = aged \cup {e}
  /\ UNCHANGED <<broker, tables, stream, deadLetters, worker, faults>>

------------------------------------------------------------------------------
(* ReliableBus._deliver.                                                    *)

\* Too old: return without a trace.  Seen: flush what was left last time.
\* Otherwise the handler runs.
Examine_AckWhenSeen(w) ==
  /\ pc[w] = "examine"
  /\ LET e == EventOfRun(job[w]) IN
       Goto(w, IF e \in aged THEN "skip"
               ELSE IF e \in inbox THEN "ack" ELSE "handle")
  /\ UNCHANGED <<broker, aged, tables, stream, deadLetters, job, batch, row, faults>>

Examine(w) ==
  /\ pc[w] = "examine"
  /\ LET e == EventOfRun(job[w]) IN
       Goto(w, IF e \in aged THEN "skip"
               ELSE IF e \in inbox THEN "flush" ELSE "handle")
  /\ UNCHANGED <<broker, aged, tables, stream, deadLetters, job, batch, row, faults>>

Handle_PublishesDirectly(w) ==
  /\ pc[w] = "handle"
  /\ stream' = stream \cup RowsOf(job[w])
  /\ Goto(w, "complete")
  /\ UNCHANGED <<broker, aged, tables, deadLetters, job, batch, row, faults>>

\* The handler commits its business data and returns; what it published is
\* collected in memory.
Handle(w) ==
  /\ pc[w] = "handle"
  /\ stored' = stored \cup {job[w]}
  /\ Goto(w, "complete")
  /\ UNCHANGED <<broker, aged, inbox, outbox, marked, stream, deadLetters,
                 job, batch, row, faults>>

HandleFails_Swallowed(w) ==
  /\ pc[w] = "handle"
  /\ Fault
  /\ Goto(w, "ack")
  /\ UNCHANGED <<broker, aged, tables, stream, deadLetters, job, batch, row>>

\* The handler raises, before or after it committed something.
HandleFails(w) ==
  /\ pc[w] = "handle"
  /\ Fault
  /\ \/ UNCHANGED stored
     \/ stored' = stored \cup {job[w]}
  /\ Goto(w, "failed")
  /\ UNCHANGED <<broker, aged, inbox, outbox, marked, stream, deadLetters,
                 job, batch, row>>

\* Inbox.claim: the entry, or FALSE when there is one already.
Claimed(e) == e \in inbox

\* One transaction: the inbox entry and the collected follow-up events.  A
\* delivery that lost the race drops its follow-ups and returns.
Complete_WithoutClaim(w) ==
  /\ pc[w] = "complete"
  /\ inbox' = inbox \cup {EventOfRun(job[w])}
  /\ outbox' = outbox \cup RowsOf(job[w])
  /\ Goto(w, "flush")
  /\ UNCHANGED <<broker, aged, marked, stream, stored, deadLetters,
                 job, batch, row, faults>>

Complete(w) ==
  /\ pc[w] = "complete"
  /\ \/ /\ Claimed(EventOfRun(job[w]))
        /\ Goto(w, "ack")
        /\ UNCHANGED <<inbox, outbox>>
     \/ /\ ~Claimed(EventOfRun(job[w]))
        /\ inbox' = inbox \cup {EventOfRun(job[w])}
        /\ outbox' = outbox \cup RowsOf(job[w])
        /\ Goto(w, "flush")
  /\ UNCHANGED <<broker, aged, marked, stream, stored, deadLetters,
                 job, batch, row, faults>>

\* The transaction is rolled back.
CompleteFails(w) ==
  /\ pc[w] = "complete"
  /\ Fault
  /\ Goto(w, "failed")
  /\ UNCHANGED <<broker, aged, tables, stream, deadLetters, job, batch, row>>

------------------------------------------------------------------------------
(* drain_outbox: read the open rows, then publish and mark each.  The order *)
(* of the rows and the limit of a batch are in module Outbox.               *)

Pending == outbox \ marked

ReadPending(w) ==
  /\ pc[w] = "flush"
  /\ batch' = [batch EXCEPT ![w] = Pending]
  /\ Goto(w, IF Pending = {} THEN "ack" ELSE "publish")
  /\ UNCHANGED <<broker, aged, tables, stream, deadLetters, job, row, faults>>

\* The publisher returns after the broker's ack.
Publish(w) ==
  /\ pc[w] = "publish"
  /\ \E r \in batch[w] :
       /\ row' = [row EXCEPT ![w] = {r}]
       /\ stream' = stream \cup {r}
  /\ Goto(w, "mark")
  /\ UNCHANGED <<broker, aged, tables, deadLetters, job, batch, faults>>

\* The publisher raises; the broker may have stored the event all the same.
PublishFails(w) ==
  /\ pc[w] = "publish"
  /\ Fault
  /\ \/ UNCHANGED stream
     \/ \E r \in batch[w] : stream' = stream \cup {r}
  /\ batch' = [batch EXCEPT ![w] = {}]
  /\ Goto(w, "failed")
  /\ UNCHANGED <<broker, aged, tables, deadLetters, job, row>>

Mark(w) ==
  /\ pc[w] = "mark"
  /\ marked' = marked \cup row[w]
  /\ batch' = [batch EXCEPT ![w] = @ \ row[w]]
  /\ row' = [row EXCEPT ![w] = {}]
  /\ Goto(w, IF batch[w] \subseteq row[w] THEN "ack" ELSE "publish")
  /\ UNCHANGED <<broker, aged, inbox, outbox, stream, stored, deadLetters, job, faults>>

------------------------------------------------------------------------------
(* NatsBus._dispatch: settle the message.                                   *)

Release(w) ==
  /\ Goto(w, "idle")
  /\ job' = [job EXCEPT ![w] = NoRun]
  /\ batch' = [batch EXCEPT ![w] = {}]
  /\ row' = [row EXCEPT ![w] = {}]

\* "acked" is the ack of a processed event, "skipped" the ack of an old one.
Ack(w) ==
  /\ pc[w] \in {"ack", "skip"}
  /\ mstate' = [mstate EXCEPT ![job[w][1]] = IF pc[w] = "skip" THEN "skipped" ELSE "acked"]
  /\ Release(w)
  /\ UNCHANGED <<delivered, aged, tables, stream, deadLetters, faults>>

Nak_Terms(w) ==
  /\ pc[w] = "failed"
  /\ job[w][2] < MaxDeliver
  /\ mstate' = [mstate EXCEPT ![job[w][1]] = IF @ = "inflight" THEN "termed" ELSE @]
  /\ Release(w)
  /\ UNCHANGED <<delivered, aged, tables, stream, deadLetters, faults>>

\* message.nak: back to the stream, unless it was settled meanwhile.
Nak(w) ==
  /\ pc[w] = "failed"
  /\ job[w][2] < MaxDeliver
  /\ mstate' = [mstate EXCEPT ![job[w][1]] = IF @ = "inflight" THEN "pending" ELSE @]
  /\ Release(w)
  /\ UNCHANGED <<delivered, aged, tables, stream, deadLetters, faults>>

\* The last attempt failed: the dead-letter callback of run_service publishes
\* va.screening.run.failed; an exception there is only logged.
DeadLetter(w) ==
  /\ pc[w] = "failed"
  /\ job[w][2] = MaxDeliver
  /\ \/ /\ deadLetters' = deadLetters \cup {job[w][1]}
        /\ UNCHANGED faults
     \/ /\ Fault
        /\ UNCHANGED deadLetters
  /\ Goto(w, "term")
  /\ UNCHANGED <<broker, aged, tables, stream, job, batch, row>>

Term(w) ==
  /\ pc[w] = "term"
  /\ mstate' = [mstate EXCEPT ![job[w][1]] = "termed"]
  /\ Release(w)
  /\ UNCHANGED <<delivered, aged, tables, stream, deadLetters, faults>>

\* ack, nak or term does not reach the broker, or the process dies: what the
\* worker had in memory is gone, the tables and the stream stay.
Crash(w) ==
  /\ pc[w] # "idle"
  /\ Fault
  /\ Release(w)
  /\ UNCHANGED <<broker, aged, tables, stream, deadLetters>>

------------------------------------------------------------------------------
Work(w) ==
  \/ Examine(w) \/ Handle(w) \/ Complete(w)
  \/ ReadPending(w) \/ Publish(w) \/ Mark(w)
  \/ Ack(w) \/ Nak(w) \/ DeadLetter(w) \/ Term(w)

Failure(w) == HandleFails(w) \/ CompleteFails(w) \/ PublishFails(w) \/ Crash(w)

Next ==
  \/ \E w \in Worker : Work(w) \/ Failure(w)
  \/ \E w \in Worker, m \in Message : Fetch(w, m)
  \/ \E m \in Message : AckWait(m)
  \/ \E e \in Event : Age(e)

Spec == Init /\ [][Next]_vars

(* The pull loop never ends while the service is up, each call it makes     *)
(* returns or raises (every NATS call and the database have a timeout), and *)
(* JetStream redelivers after ack_wait.                                     *)
Fairness ==
  /\ \A w \in Worker : WF_vars(Work(w))
  /\ \A w \in Worker, m \in Message : WF_vars(Fetch(w, m))
  /\ \A m \in Message : WF_vars(AckWait(m))

FairSpec == Spec /\ Fairness

------------------------------------------------------------------------------
(* Properties.                                                              *)

PCs == {"idle", "examine", "handle", "complete", "flush", "publish", "mark",
        "ack", "skip", "failed", "term"}

\* Types of the variables: what the tables, the broker and a worker can hold.
TypeOK ==
  /\ mstate \in [Message -> {"pending", "inflight", "acked", "skipped",
                             "termed", "exhausted"}]
  /\ delivered \in [Message -> 0..MaxDeliver]
  /\ aged \subseteq Event
  /\ inbox \subseteq Event
  /\ outbox \subseteq Row
  /\ marked \subseteq Row
  /\ stream \subseteq Row
  /\ stored \subseteq Run
  /\ deadLetters \subseteq Message
  /\ pc \in [Worker -> PCs]
  /\ job \in [Worker -> Run \cup {NoRun}]
  /\ \A w \in Worker : pc[w] # "idle" => job[w] \in Run
  /\ batch \in [Worker -> SUBSET Row]
  /\ row \in [Worker -> SUBSET Row]
  /\ faults \in 0..MaxFaults

\* However often an event is delivered, published twice or handled by two
\* workers at once, the follow-up events of only one handler run get out
\* (reliable.py: "Die Handler eines Service verarbeiten jedes Event einmal").
OneRunPerEvent ==
  \A r1, r2 \in stream \cup outbox :
    EventOfRun(r1[1]) = EventOfRun(r2[1]) => r1[1] = r2[1]

\* A follow-up event is in the stream only when the business data of the run
\* that announced it is committed (reliable.py, the order of _deliver).
SentDataStored == \A r \in stream : r[1] \in stored

\* A row with published_at is in the stream: marking never loses an event,
\* with several workers draining the outbox at once and crashes in between.
MarkedIsSent == marked \subseteq stream

\* An acked event was processed: its inbox entry is committed.
AckedIsProcessed ==
  \A m \in Message : mstate[m] = "acked" => EventOf[m] \in inbox

\* Nothing is put aside before it is done: no row before it is in the stream, no
\* message before its event is processed.
SettledIsDone == MarkedIsSent /\ AckedIsProcessed

\* events.md: "Folge-Events stehen im Stream, bevor das ausloesende Event
\* bestaetigt wird."
FollowUpsBeforeAck ==
  \A m \in Message : mstate[m] = "acked" =>
    \A r \in outbox : r[1][1] = m => r \in stream

\* With fewer faults than deliveries, every event that is not too old is
\* processed and its follow-up events are sent.
EventuallySent ==
  \A e \in Event : <>[](e \in aged \/ \E run \in Run :
                         EventOfRun(run) = e /\ RowsOf(run) \subseteq stream)

\* The bus implements "each event is processed once": see ProcessOnce.
Once == INSTANCE ProcessOnce WITH
          RunEvent <- [run \in Run |-> EventOfRun(run)],
          chosen <- {r[1] : r \in outbox},
          sent <- stream
ImplementsProcessOnce == Once!Spec
==============================================================================

-------------------------- MODULE ReliableBusProofs --------------------------
(***************************************************************************)
(* Proofs about ReliableBus, for any number of messages, events, workers,  *)
(* deliveries and faults, and with or without working in-progress acks.    *)
(***************************************************************************)
EXTENDS ReliableBus, TLAPS

\* What a worker holds in memory and in the tables, beyond its type: the data
\* of a run is stored before the run completes, rows are read from the outbox.
WorkerInv ==
  \A w \in Worker :
    /\ pc[w] = "complete" => job[w] \in stored
    /\ batch[w] \subseteq outbox
    /\ row[w] \subseteq stream
    /\ pc[w] \in {"flush", "publish", "mark", "ack"} => EventOfRun(job[w]) \in inbox

\* Every outbox row belongs to the one run that claimed its event.
OutboxInv ==
  /\ \A r \in outbox : r[1] \in stored /\ EventOfRun(r[1]) \in inbox
  /\ \A r1, r2 \in outbox : EventOfRun(r1[1]) = EventOfRun(r2[1]) => r1[1] = r2[1]

\* Only outbox rows are published, only published rows are marked.
StreamInv == stream \subseteq outbox /\ marked \subseteq stream

\* The inductive invariant.
IInv == TypeOK /\ WorkerInv /\ OutboxInv /\ StreamInv /\ AckedIsProcessed

\* A run names a message, a delivery number and through them an event.
LEMMA RunType ==
  ASSUME NEW run \in Run
  PROVE  /\ run[1] \in Message
         /\ run[2] \in 1..MaxDeliver
         /\ EventOfRun(run) \in Event
  BY BusAssumption DEF Run, EventOfRun

\* The follow-up events of a run are outbox rows of that run.
LEMMA RowType ==
  ASSUME NEW run \in Run, NEW r \in RowsOf(run)
  PROVE  r \in Row /\ r[1] = run
  BY DEF RowsOf, Row

------------------------------------------------------------------------------
(* Type correctness.                                                        *)

\* The initial state is well typed.
LEMMA InitType == Init => TypeOK
  BY BusAssumption DEF Init, TypeOK, PCs

\* Letting go of a delivery keeps the workers' variables well typed.
LEMMA ReleaseType ==
  ASSUME TypeOK, NEW w \in Worker, Release(w)
  PROVE  /\ pc' \in [Worker -> PCs]
         /\ job' \in [Worker -> Run \cup {NoRun}]
         /\ \A v \in Worker : pc'[v] # "idle" => job'[v] \in Run
         /\ batch' \in [Worker -> SUBSET Row]
         /\ row' \in [Worker -> SUBSET Row]
  BY DEF TypeOK, Release, Goto, PCs

\* Every step keeps the variables well typed.
LEMMA NextType == TypeOK /\ [Next]_vars => TypeOK'
<1> SUFFICES ASSUME TypeOK, [Next]_vars PROVE TypeOK'
  OBVIOUS
<1> USE BusAssumption DEF broker, tables, worker
<1>1. CASE UNCHANGED vars
  BY <1>1 DEF vars, TypeOK
<1>2. ASSUME NEW w \in Worker, Work(w) PROVE TypeOK'
  <2>0. pc[w] # "idle" => /\ job[w] \in Run
                          /\ job[w][1] \in Message
                          /\ EventOfRun(job[w]) \in Event
    BY RunType DEF TypeOK
  <2>1. CASE Examine(w)
    BY <2>1, <2>0 DEF Examine, TypeOK, Goto, PCs
  <2>2. CASE Handle(w)
    BY <2>2, <2>0 DEF Handle, TypeOK, Goto, PCs
  <2>3. CASE Complete(w)
    <3>1. inbox' \subseteq Event /\ outbox' \subseteq Row
      BY <2>3, <2>0, RowType DEF Complete, TypeOK
    <3>2. QED BY <2>3, <3>1 DEF Complete, TypeOK, Goto, PCs
  <2>4. CASE ReadPending(w)
    BY <2>4 DEF ReadPending, TypeOK, Goto, PCs, Pending
  <2>5. CASE Publish(w)
    BY <2>5 DEF Publish, TypeOK, Goto, PCs
  <2>6. CASE Mark(w)
    BY <2>6 DEF Mark, TypeOK, Goto, PCs
  <2>7. CASE Ack(w)
    BY <2>7, <2>0, ReleaseType DEF Ack, TypeOK
  <2>8. CASE Nak(w)
    BY <2>8, <2>0, ReleaseType DEF Nak, TypeOK
  <2>9. CASE DeadLetter(w)
    BY <2>9, <2>0 DEF DeadLetter, Fault, TypeOK, Goto, PCs
  <2>10. CASE Term(w)
    BY <2>10, <2>0, ReleaseType DEF Term, TypeOK
  <2>11. QED
    BY <1>2, <2>1, <2>2, <2>3, <2>4, <2>5, <2>6, <2>7, <2>8, <2>9, <2>10 DEF Work
<1>3. ASSUME NEW w \in Worker, Failure(w) PROVE TypeOK'
  <2>0. pc[w] # "idle" => job[w] \in Run
    BY DEF TypeOK
  <2>1. CASE HandleFails(w)
    BY <2>1, <2>0 DEF HandleFails, Fault, TypeOK, Goto, PCs
  <2>2. CASE CompleteFails(w)
    BY <2>2 DEF CompleteFails, Fault, TypeOK, Goto, PCs
  <2>3. CASE PublishFails(w)
    BY <2>3 DEF PublishFails, Fault, TypeOK, Goto, PCs
  <2>4. CASE Crash(w)
    BY <2>4, ReleaseType DEF Crash, Fault, TypeOK
  <2>5. QED
    BY <1>3, <2>1, <2>2, <2>3, <2>4 DEF Failure
<1>4. ASSUME NEW w \in Worker, NEW m \in Message, Fetch(w, m) PROVE TypeOK'
  <2>1. <<m, delivered[m] + 1>> \in Run /\ delivered[m] + 1 \in 0..MaxDeliver
    BY <1>4 DEF Fetch, TypeOK, Run
  <2>2. QED BY <1>4, <2>1 DEF Fetch, TypeOK, Goto, PCs
<1>5. ASSUME NEW m \in Message, AckWait(m) PROVE TypeOK'
  BY <1>5 DEF AckWait, TypeOK
<1>6. ASSUME NEW e \in Event, Age(e) PROVE TypeOK'
  BY <1>6 DEF Age, TypeOK
<1>7. QED
  BY <1>1, <1>2, <1>3, <1>4, <1>5, <1>6 DEF Next

\* Every reachable state is well typed.
THEOREM TypeCorrect == Spec => []TypeOK
  BY InitType, NextType, PTL DEF Spec

------------------------------------------------------------------------------
(* The run that claims an event is the only one whose events get out.       *)

\* The tables are empty and nobody works at the start.
LEMMA InitIInv == Init => IInv
  BY InitType, BusAssumption
     DEF Init, IInv, WorkerInv, OutboxInv, StreamInv, AckedIsProcessed

\* Steps that leave the tables and the stream alone only move workers.
LEMMA TablesUnchanged ==
  ASSUME IInv, TypeOK', UNCHANGED <<inbox, outbox, marked, stream, stored>>
  PROVE  OutboxInv' /\ StreamInv'
  BY DEF IInv, OutboxInv, StreamInv, EventOfRun

\* A worker that lets go of its delivery forgets what it had in memory.
LEMMA ReleaseInv ==
  ASSUME IInv, NEW w \in Worker, Release(w),
         UNCHANGED <<inbox, outbox, marked, stream, stored>>
  PROVE  WorkerInv'
  BY DEF IInv, TypeOK, WorkerInv, Release, Goto, EventOfRun

\* Each step of a delivery preserves the invariant; Complete is the step that
\* needs it, because the claim is what makes the new rows the only ones.
LEMMA WorkIInv ==
  ASSUME IInv, TypeOK', NEW w \in Worker, Work(w)
  PROVE  IInv'
<1> USE DEF broker, tables, worker
<1>0. /\ TypeOK /\ WorkerInv /\ OutboxInv /\ StreamInv /\ AckedIsProcessed
      /\ pc[w] # "idle" => job[w] \in Run /\ job[w][1] \in Message
  BY RunType DEF IInv, TypeOK
<1>1. CASE Examine(w)
  <2>1. WorkerInv'
    BY <1>0, <1>1 DEF Examine, WorkerInv, TypeOK, Goto, EventOfRun
  <2>2. AckedIsProcessed'
    BY <1>0, <1>1 DEF Examine, AckedIsProcessed
  <2>3. QED BY <2>1, <2>2, <1>1, TablesUnchanged DEF Examine, IInv
<1>2. CASE Handle(w)
  <2>1. WorkerInv'
    BY <1>0, <1>2 DEF Handle, WorkerInv, TypeOK, Goto, EventOfRun
  <2>2. OutboxInv' /\ StreamInv' /\ AckedIsProcessed'
    BY <1>0, <1>2 DEF Handle, OutboxInv, StreamInv, AckedIsProcessed, EventOfRun
  <2>3. QED BY <2>1, <2>2 DEF IInv
<1>3. CASE Complete(w)
  <2>1. CASE Claimed(EventOfRun(job[w]))
    <3>1. UNCHANGED <<inbox, outbox, marked, stream, stored, mstate, job, batch, row>>
          /\ Goto(w, "ack")
      BY <1>3, <2>1 DEF Complete
    <3>2. WorkerInv'
      BY <1>0, <2>1, <3>1 DEF WorkerInv, TypeOK, Goto, EventOfRun, Claimed
    <3>3. AckedIsProcessed'
      BY <1>0, <3>1 DEF AckedIsProcessed
    <3>4. QED BY <3>1, <3>2, <3>3, TablesUnchanged DEF IInv
  <2>2. CASE ~Claimed(EventOfRun(job[w]))
    <3> DEFINE run == job[w]
    <3>1. /\ pc[w] = "complete" /\ run \in Run /\ run \in stored
          /\ EventOfRun(run) \notin inbox
          /\ inbox' = inbox \cup {EventOfRun(run)}
          /\ outbox' = outbox \cup RowsOf(run)
          /\ Goto(w, "flush")
          /\ UNCHANGED <<marked, stream, stored, mstate, job, batch, row>>
      BY <1>0, <1>3, <2>2 DEF Complete, Claimed, WorkerInv
    <3>2. WorkerInv'
      BY <1>0, <3>1 DEF WorkerInv, TypeOK, Goto, EventOfRun
    <3>3. OutboxInv'
      <4>1. \A r \in RowsOf(run) : r[1] = run
        BY <3>1, RowType
      <4>2. \A r \in outbox : EventOfRun(r[1]) # EventOfRun(run)
        BY <1>0, <3>1 DEF OutboxInv
      <4>3. \A r \in outbox' : r[1] \in stored' /\ EventOfRun(r[1]) \in inbox'
        BY <1>0, <3>1, <4>1 DEF OutboxInv
      <4>4. \A r1, r2 \in outbox' :
              EventOfRun(r1[1]) = EventOfRun(r2[1]) => r1[1] = r2[1]
        BY <1>0, <3>1, <4>1, <4>2 DEF OutboxInv
      <4>5. QED BY <4>3, <4>4 DEF OutboxInv, EventOfRun
    <3>4. StreamInv' /\ AckedIsProcessed'
      BY <1>0, <3>1 DEF StreamInv, AckedIsProcessed
    <3>5. QED BY <3>2, <3>3, <3>4 DEF IInv
  <2>3. QED BY <2>1, <2>2
<1>4. CASE ReadPending(w)
  <2>1. WorkerInv'
    BY <1>0, <1>4 DEF ReadPending, Pending, WorkerInv, TypeOK, Goto, EventOfRun
  <2>2. AckedIsProcessed'
    BY <1>0, <1>4 DEF ReadPending, AckedIsProcessed
  <2>3. QED BY <2>1, <2>2, <1>4, TablesUnchanged DEF ReadPending, IInv
<1>5. CASE Publish(w)
  <2>1. WorkerInv'
    BY <1>0, <1>5 DEF Publish, WorkerInv, TypeOK, Goto, EventOfRun
  <2>2. OutboxInv' /\ StreamInv' /\ AckedIsProcessed'
    BY <1>0, <1>5 DEF Publish, WorkerInv, OutboxInv, StreamInv, AckedIsProcessed, EventOfRun
  <2>3. QED BY <2>1, <2>2 DEF IInv
<1>6. CASE Mark(w)
  <2>1. WorkerInv'
    BY <1>0, <1>6 DEF Mark, WorkerInv, TypeOK, Goto, EventOfRun
  <2>2. OutboxInv' /\ StreamInv' /\ AckedIsProcessed'
    BY <1>0, <1>6 DEF Mark, WorkerInv, OutboxInv, StreamInv, AckedIsProcessed, EventOfRun
  <2>3. QED BY <2>1, <2>2 DEF IInv
<1>7. CASE Ack(w)
  <2>1. AckedIsProcessed'
    BY <1>0, <1>7 DEF Ack, AckedIsProcessed, WorkerInv, TypeOK, EventOfRun
  <2>2. QED BY <2>1, <1>7, TablesUnchanged, ReleaseInv DEF Ack, IInv
<1>8. CASE Nak(w)
  <2>1. AckedIsProcessed'
    BY <1>0, <1>8 DEF Nak, AckedIsProcessed, TypeOK
  <2>2. QED BY <2>1, <1>8, TablesUnchanged, ReleaseInv DEF Nak, IInv
<1>9. CASE DeadLetter(w)
  <2>1. WorkerInv'
    BY <1>0, <1>9 DEF DeadLetter, WorkerInv, TypeOK, Goto, EventOfRun
  <2>2. AckedIsProcessed'
    BY <1>0, <1>9 DEF DeadLetter, AckedIsProcessed
  <2>3. QED BY <2>1, <2>2, <1>9, TablesUnchanged DEF DeadLetter, IInv
<1>10. CASE Term(w)
  <2>1. AckedIsProcessed'
    BY <1>0, <1>10 DEF Term, AckedIsProcessed, TypeOK
  <2>2. QED BY <2>1, <1>10, TablesUnchanged, ReleaseInv DEF Term, IInv
<1>11. QED
  BY <1>1, <1>2, <1>3, <1>4, <1>5, <1>6, <1>7, <1>8, <1>9, <1>10 DEF Work

\* Failures and crashes preserve the invariant.
LEMMA FailureIInv ==
  ASSUME IInv, TypeOK', NEW w \in Worker, Failure(w)
  PROVE  IInv'
<1> USE DEF broker, tables, worker
<1>0. TypeOK /\ WorkerInv /\ OutboxInv /\ StreamInv /\ AckedIsProcessed
  BY DEF IInv
<1>1. CASE HandleFails(w)
  <2>1. WorkerInv'
    BY <1>0, <1>1 DEF HandleFails, WorkerInv, TypeOK, Goto, EventOfRun
  <2>2. OutboxInv' /\ StreamInv' /\ AckedIsProcessed'
    BY <1>0, <1>1 DEF HandleFails, OutboxInv, StreamInv, AckedIsProcessed, EventOfRun
  <2>3. QED BY <2>1, <2>2 DEF IInv
<1>2. CASE CompleteFails(w)
  <2>1. WorkerInv'
    BY <1>0, <1>2 DEF CompleteFails, WorkerInv, TypeOK, Goto, EventOfRun
  <2>2. AckedIsProcessed'
    BY <1>0, <1>2 DEF CompleteFails, AckedIsProcessed
  <2>3. QED BY <2>1, <2>2, <1>2, TablesUnchanged DEF CompleteFails, IInv
<1>3. CASE PublishFails(w)
  <2>1. WorkerInv'
    BY <1>0, <1>3 DEF PublishFails, WorkerInv, TypeOK, Goto, EventOfRun
  <2>2. OutboxInv' /\ StreamInv' /\ AckedIsProcessed'
    BY <1>0, <1>3 DEF PublishFails, WorkerInv, OutboxInv, StreamInv, AckedIsProcessed, EventOfRun
  <2>3. QED BY <2>1, <2>2 DEF IInv
<1>4. CASE Crash(w)
  <2>1. AckedIsProcessed'
    BY <1>0, <1>4 DEF Crash, AckedIsProcessed
  <2>2. QED BY <2>1, <1>4, TablesUnchanged, ReleaseInv DEF Crash, IInv
<1>5. QED
  BY <1>1, <1>2, <1>3, <1>4 DEF Failure

\* Every step preserves the invariant.
LEMMA NextIInv == IInv /\ [Next]_vars => IInv'
<1> SUFFICES ASSUME IInv, [Next]_vars PROVE IInv'
  OBVIOUS
<1> USE DEF broker, tables, worker
<1>0. TypeOK /\ TypeOK' /\ WorkerInv /\ OutboxInv /\ StreamInv /\ AckedIsProcessed
  BY NextType DEF IInv
<1>1. CASE UNCHANGED vars
  BY <1>0, <1>1 DEF vars, IInv, WorkerInv, OutboxInv, StreamInv, AckedIsProcessed, EventOfRun
<1>2. ASSUME NEW w \in Worker, Work(w) PROVE IInv'
  BY <1>0, <1>2, WorkIInv
<1>3. ASSUME NEW w \in Worker, Failure(w) PROVE IInv'
  BY <1>0, <1>3, FailureIInv
<1>4. ASSUME NEW w \in Worker, NEW m \in Message, Fetch(w, m) PROVE IInv'
  <2>1. WorkerInv'
    BY <1>0, <1>4 DEF Fetch, WorkerInv, TypeOK, Goto, EventOfRun
  <2>2. AckedIsProcessed'
    BY <1>0, <1>4 DEF Fetch, AckedIsProcessed, TypeOK
  <2>3. QED BY <1>0, <2>1, <2>2, <1>4, TablesUnchanged DEF Fetch, IInv
<1>5. ASSUME NEW m \in Message, AckWait(m) PROVE IInv'
  <2>1. WorkerInv' /\ AckedIsProcessed'
    BY <1>0, <1>5 DEF AckWait, WorkerInv, AckedIsProcessed, TypeOK, EventOfRun
  <2>2. QED BY <1>0, <2>1, <1>5, TablesUnchanged DEF AckWait, IInv
<1>6. ASSUME NEW e \in Event, Age(e) PROVE IInv'
  <2>1. WorkerInv' /\ AckedIsProcessed'
    BY <1>0, <1>6 DEF Age, WorkerInv, AckedIsProcessed, EventOfRun
  <2>2. QED BY <1>0, <2>1, <1>6, TablesUnchanged DEF Age, IInv
<1>7. QED
  BY <1>1, <1>2, <1>3, <1>4, <1>5, <1>6 DEF Next

\* The strengthened invariant holds in every reachable state.
THEOREM Inductive == Spec => []IInv
  BY InitIInv, NextIInv, PTL DEF Spec

\* However often and by however many workers an event is delivered, only one
\* handler run's follow-up events get out.
THEOREM OneRun == Spec => []OneRunPerEvent
<1>1. IInv => OneRunPerEvent
  BY DEF IInv, OutboxInv, StreamInv, OneRunPerEvent
<1>2. QED BY <1>1, Inductive, PTL

\* Nothing is announced before its data is stored: a follow-up event is in the
\* stream only if the run of the handler it tells of has committed.
THEOREM SentStored == Spec => []SentDataStored
<1>1. IInv => SentDataStored
  BY DEF IInv, OutboxInv, StreamInv, SentDataStored
<1>2. QED BY <1>1, Inductive, PTL

\* No row of the outbox is marked before it is sent, and no message is acked
\* whose event was not processed.
THEOREM Settled == Spec => []SettledIsDone
<1>1. IInv => SettledIsDone
  BY DEF IInv, StreamInv, SettledIsDone, MarkedIsSent
<1>2. QED BY <1>1, Inductive, PTL

------------------------------------------------------------------------------
(* The bus implements ProcessOnce: completing a delivery that wins the      *)
(* claim chooses the run, publishing a row sends it, all else stutters.     *)

Chosen == {r[1] : r \in outbox}

\* The initial states map to initial states of ProcessOnce.
LEMMA InitRefines == Init => Once!Init
  BY DEF Init, Once!Init

\* Every step maps to a step of ProcessOnce or to a stutter.
LEMMA NextRefines == IInv /\ [Next]_vars => [Once!Next]_(Once!vars)
<1> SUFFICES ASSUME IInv, [Next]_vars PROVE [Once!Next]_(Once!vars)
  OBVIOUS
<1> USE DEF broker, tables, worker
<1>0. TypeOK /\ OutboxInv /\ StreamInv /\ WorkerInv
  BY DEF IInv
<1>1. ASSUME UNCHANGED <<outbox, stream>> PROVE UNCHANGED Once!vars
  BY <1>1 DEF Once!vars
<1>2. ASSUME UNCHANGED outbox, NEW r \in Row, r \in outbox, stream' = stream \cup {r}
      PROVE  Once!Next
  <2>1. PICK run \in Run, part \in Part : r = <<run, part>>
    BY <1>2 DEF Row
  <2>2. Once!Send(run, part)
    BY <1>2, <2>1 DEF Once!Send
  <2>3. QED BY <2>2 DEF Once!Next
<1>3. CASE UNCHANGED vars
  BY <1>1, <1>3 DEF vars
<1>4. ASSUME NEW w \in Worker, Complete(w) PROVE [Once!Next]_(Once!vars)
  <2>1. CASE Claimed(EventOfRun(job[w]))
    BY <1>1, <1>4, <2>1 DEF Complete
  <2>2. CASE ~Claimed(EventOfRun(job[w]))
    <3>1. PICK run \in Run :
            /\ outbox' = outbox \cup RowsOf(run) /\ UNCHANGED stream
            /\ EventOfRun(run) \notin inbox
      BY <1>0, <1>4, <2>2 DEF Complete, Claimed, TypeOK
    <3>2. Chosen' = Chosen \cup {run}
      <4>1. PICK part : part \in Part
        BY BusAssumption
      <4>2. <<run, part>> \in outbox' /\ <<run, part>>[1] = run
        BY <3>1, <4>1 DEF RowsOf
      <4>3. \A r \in RowsOf(run) : r[1] = run
        BY <3>1, RowType
      <4>4. QED BY <3>1, <4>2, <4>3 DEF Chosen
    <3>3. \A other \in Chosen : other \in Run /\ EventOfRun(other) # EventOfRun(run)
      BY <1>0, <3>1 DEF Chosen, OutboxInv, TypeOK, Row
    <3>4. Once!Choose(run)
      BY <3>1, <3>2, <3>3 DEF Once!Choose, Chosen
    <3>5. QED BY <3>1, <3>4 DEF Once!Next
  <2>3. QED BY <2>1, <2>2
<1>5. ASSUME NEW w \in Worker, Publish(w) PROVE [Once!Next]_(Once!vars)
  <2>1. PICK r \in batch[w] : stream' = stream \cup {r}
    BY <1>5 DEF Publish
  <2>2. r \in Row /\ r \in outbox /\ UNCHANGED outbox
    BY <1>0, <1>5, <2>1 DEF Publish, TypeOK, WorkerInv
  <2>3. QED BY <1>2, <2>1, <2>2
<1>6. ASSUME NEW w \in Worker, PublishFails(w) PROVE [Once!Next]_(Once!vars)
  <2>1. CASE UNCHANGED stream
    BY <1>1, <1>6, <2>1 DEF PublishFails
  <2>2. CASE \E r \in batch[w] : stream' = stream \cup {r}
    <3>1. PICK r \in batch[w] : stream' = stream \cup {r}
      BY <2>2
    <3>2. r \in Row /\ r \in outbox /\ UNCHANGED outbox
      BY <1>0, <1>6, <3>1 DEF PublishFails, TypeOK, WorkerInv
    <3>3. QED BY <1>2, <3>1, <3>2
  <2>3. QED BY <1>6, <2>1, <2>2 DEF PublishFails
<1>7. ASSUME NEW w \in Worker, Work(w), ~Complete(w), ~Publish(w)
      PROVE  UNCHANGED Once!vars
  BY <1>1, <1>7 DEF Work, Examine, Handle, ReadPending, Mark, Ack, Nak, DeadLetter, Term
<1>8. ASSUME NEW w \in Worker, Failure(w), ~PublishFails(w)
      PROVE  UNCHANGED Once!vars
  BY <1>1, <1>8 DEF Failure, HandleFails, CompleteFails, Crash
<1>9. ASSUME \/ \E w \in Worker, m \in Message : Fetch(w, m)
             \/ \E m \in Message : AckWait(m)
             \/ \E e \in Event : Age(e)
      PROVE  UNCHANGED Once!vars
  BY <1>1, <1>9 DEF Fetch, AckWait, Age
<1>10. QED
  BY <1>3, <1>4, <1>5, <1>6, <1>7, <1>8, <1>9 DEF Next

\* ReliableBus implements ProcessOnce.
THEOREM Refinement == Spec => ImplementsProcessOnce
  BY InitRefines, NextRefines, Inductive, PTL
     DEF Spec, ImplementsProcessOnce, Once!Spec

------------------------------------------------------------------------------
(* With working in-progress acks a message has one worker, and its          *)
(* follow-up events are in the stream before it is acked.                   *)

\* A message in the hands of a worker is in flight and in no other hands.
HoldInv ==
  /\ \A w \in Worker : pc[w] # "idle" => mstate[job[w][1]] = "inflight"
  /\ \A v, w \in Worker :
       v # w /\ pc[v] # "idle" /\ pc[w] # "idle" => job[v][1] # job[w][1]

\* How much of a message's follow-up events is in the stream, by the position
\* of its worker in _deliver.
FlushInv ==
  \A w \in Worker : \A r \in outbox :
    /\ pc[w] \in {"handle", "complete"} => r[1][1] # job[w][1]
    /\ pc[w] \in {"publish", "mark"} /\ r[1][1] = job[w][1] => r \in stream \cup batch[w]
    /\ pc[w] = "ack" /\ r[1][1] = job[w][1] => r \in stream

KInv == HoldInv /\ FlushInv /\ FollowUpsBeforeAck

\* Nobody holds a message and no message is acked at the start.
LEMMA InitKInv == Init => KInv
  BY DEF Init, KInv, HoldInv, FlushInv, FollowUpsBeforeAck

\* Redelivery waits for the worker, so a message stays in one pair of hands.
LEMMA HoldStep ==
  ASSUME KeepAlive, TypeOK, HoldInv, Next
  PROVE  HoldInv'
<1> USE DEF broker, tables, worker
<1>1. ASSUME NEW w \in Worker, Goto(w, pc'[w]), pc[w] # "idle",
             UNCHANGED <<mstate, job>>
      PROVE  HoldInv'
  BY <1>1 DEF TypeOK, HoldInv, Goto
<1>2. ASSUME NEW w \in Worker, pc[w] # "idle", Release(w), NEW st,
             mstate' = [mstate EXCEPT ![job[w][1]] = st] \/ UNCHANGED mstate
      PROVE  HoldInv'
  <2>1. \A v \in Worker : pc'[v] # "idle" =>
          /\ v # w /\ pc[v] # "idle" /\ job'[v] = job[v]
          /\ job[v][1] \in Message /\ job[v][1] # job[w][1]
    BY <1>2, RunType DEF TypeOK, HoldInv, Release, Goto
  <2>2. \A v \in Worker : pc'[v] # "idle" => mstate'[job[v][1]] = mstate[job[v][1]]
    BY <1>2, <2>1 DEF TypeOK
  <2>3. QED BY <2>1, <2>2 DEF HoldInv
<1>3. ASSUME NEW w \in Worker, Work(w) PROVE HoldInv'
  <2>1. CASE Examine(w) \/ Handle(w) \/ Complete(w) \/ ReadPending(w)
             \/ Publish(w) \/ Mark(w) \/ DeadLetter(w)
    BY <2>1, <1>1 DEF Examine, Handle, Complete, ReadPending, Publish, Mark,
                      DeadLetter, Goto, TypeOK
  <2>2. CASE Ack(w)
    BY <2>2, <1>2 DEF Ack
  <2>3. CASE Nak(w)
    BY <2>3, <1>2 DEF Nak
  <2>4. CASE Term(w)
    BY <2>4, <1>2 DEF Term
  <2>5. QED BY <1>3, <2>1, <2>2, <2>3, <2>4 DEF Work
<1>4. ASSUME NEW w \in Worker, Failure(w) PROVE HoldInv'
  <2>1. CASE HandleFails(w) \/ CompleteFails(w) \/ PublishFails(w)
    BY <2>1, <1>1 DEF HandleFails, CompleteFails, PublishFails, Goto, TypeOK
  <2>2. CASE Crash(w)
    BY <2>2, <1>2 DEF Crash
  <2>3. QED BY <1>4, <2>1, <2>2 DEF Failure
<1>5. ASSUME NEW w \in Worker, NEW m \in Message, Fetch(w, m) PROVE HoldInv'
  BY <1>5 DEF Fetch, Goto, TypeOK, HoldInv
<1>6. ASSUME NEW m \in Message, AckWait(m) PROVE HoldInv'
  BY <1>6 DEF AckWait, InHands, TypeOK, HoldInv
<1>7. ASSUME NEW e \in Event, Age(e) PROVE HoldInv'
  BY <1>7 DEF Age, HoldInv
<1>8. QED
  BY <1>3, <1>4, <1>5, <1>6, <1>7 DEF Next

\* A delivery either drains what its message put into the outbox or is not
\* acked; a delivery that finds its event claimed by another message has put
\* nothing there.
LEMMA FlushStep ==
  ASSUME KeepAlive, IInv, KInv, Next
  PROVE  FlushInv' /\ FollowUpsBeforeAck'
<1> USE DEF broker, tables, worker
<1>0. TypeOK /\ WorkerInv /\ OutboxInv /\ StreamInv
      /\ HoldInv /\ FlushInv /\ FollowUpsBeforeAck
  BY DEF IInv, KInv
<1>1. ASSUME NEW w \in Worker, Work(w) PROVE FlushInv' /\ FollowUpsBeforeAck'
  <2>0. pc[w] # "idle" => job[w] \in Run /\ job[w][1] \in Message
    BY <1>0, RunType DEF TypeOK
  <2>1. CASE Examine(w)
    <3>1. EventOfRun(job[w]) \notin inbox => \A r \in outbox : r[1][1] # job[w][1]
      BY <1>0 DEF OutboxInv, EventOfRun
    <3>2. FlushInv'
      BY <1>0, <2>1, <3>1 DEF Examine, FlushInv, Goto, TypeOK
    <3>3. QED BY <1>0, <2>1, <3>2 DEF Examine, FollowUpsBeforeAck
  <2>2. CASE Handle(w)
    BY <1>0, <2>2 DEF Handle, FlushInv, FollowUpsBeforeAck, Goto, TypeOK
  <2>3. CASE Complete(w)
    <3>1. CASE Claimed(EventOfRun(job[w]))
      BY <1>0, <2>3, <3>1 DEF Complete, FlushInv, FollowUpsBeforeAck, Goto, TypeOK
    <3>2. CASE ~Claimed(EventOfRun(job[w]))
      <4>1. /\ pc[w] = "complete" /\ Goto(w, "flush")
            /\ outbox' = outbox \cup RowsOf(job[w])
            /\ UNCHANGED <<mstate, stream, job, batch>>
        BY <2>3, <3>2 DEF Complete
      <4>2. \A r \in RowsOf(job[w]) : r[1] = job[w]
        BY <2>0, <4>1, RowType
      <4>3. mstate[job[w][1]] = "inflight"
            /\ \A v \in Worker : v # w /\ pc[v] # "idle" => job[v][1] # job[w][1]
        BY <1>0, <4>1 DEF HoldInv
      <4>4. FlushInv'
        BY <1>0, <4>1, <4>2, <4>3 DEF FlushInv, Goto, TypeOK
      <4>5. FollowUpsBeforeAck'
        BY <1>0, <4>1, <4>2, <4>3 DEF FollowUpsBeforeAck
      <4>6. QED BY <4>4, <4>5
    <3>3. QED BY <3>1, <3>2
  <2>4. CASE ReadPending(w)
    BY <1>0, <2>4 DEF ReadPending, Pending, StreamInv, FlushInv, FollowUpsBeforeAck,
                      Goto, TypeOK
  <2>5. CASE Publish(w)
    BY <1>0, <2>5 DEF Publish, FlushInv, FollowUpsBeforeAck, Goto, TypeOK
  <2>6. CASE Mark(w)
    BY <1>0, <2>6 DEF Mark, WorkerInv, FlushInv, FollowUpsBeforeAck, Goto, TypeOK
  <2>7. CASE Ack(w)
    <3>1. FlushInv'
      BY <1>0, <2>7 DEF Ack, Release, Goto, FlushInv, TypeOK
    <3>2. FollowUpsBeforeAck'
      BY <1>0, <2>0, <2>7 DEF Ack, FlushInv, FollowUpsBeforeAck, TypeOK
    <3>3. QED BY <3>1, <3>2
  <2>8. CASE Nak(w)
    BY <1>0, <2>0, <2>8 DEF Nak, Release, Goto, FlushInv, FollowUpsBeforeAck, TypeOK
  <2>9. CASE DeadLetter(w)
    BY <1>0, <2>9 DEF DeadLetter, FlushInv, FollowUpsBeforeAck, Goto, TypeOK
  <2>10. CASE Term(w)
    BY <1>0, <2>0, <2>10 DEF Term, Release, Goto, FlushInv, FollowUpsBeforeAck, TypeOK
  <2>11. QED
    BY <1>1, <2>1, <2>2, <2>3, <2>4, <2>5, <2>6, <2>7, <2>8, <2>9, <2>10 DEF Work
<1>2. ASSUME NEW w \in Worker, Failure(w) PROVE FlushInv' /\ FollowUpsBeforeAck'
  <2>1. CASE HandleFails(w)
    BY <1>0, <2>1 DEF HandleFails, FlushInv, FollowUpsBeforeAck, Goto, TypeOK
  <2>2. CASE CompleteFails(w)
    BY <1>0, <2>2 DEF CompleteFails, FlushInv, FollowUpsBeforeAck, Goto, TypeOK
  <2>3. CASE PublishFails(w)
    BY <1>0, <2>3 DEF PublishFails, FlushInv, FollowUpsBeforeAck, Goto, TypeOK
  <2>4. CASE Crash(w)
    BY <1>0, <2>4 DEF Crash, Release, FlushInv, FollowUpsBeforeAck, Goto, TypeOK
  <2>5. QED BY <1>2, <2>1, <2>2, <2>3, <2>4 DEF Failure
<1>3. ASSUME NEW w \in Worker, NEW m \in Message, Fetch(w, m)
      PROVE  FlushInv' /\ FollowUpsBeforeAck'
  BY <1>0, <1>3 DEF Fetch, FlushInv, FollowUpsBeforeAck, Goto, TypeOK
<1>4. ASSUME NEW m \in Message, AckWait(m) PROVE FlushInv' /\ FollowUpsBeforeAck'
  BY <1>0, <1>4 DEF AckWait, FlushInv, FollowUpsBeforeAck, TypeOK
<1>5. ASSUME NEW e \in Event, Age(e) PROVE FlushInv' /\ FollowUpsBeforeAck'
  BY <1>0, <1>5 DEF Age, FlushInv, FollowUpsBeforeAck
<1>6. QED
  BY <1>1, <1>2, <1>3, <1>4, <1>5 DEF Next

\* While in-progress acks keep a message with its worker, an acked message's
\* follow-up events are in the stream, whatever fails and whoever else works.
THEOREM AckAfterFollowUps ==
  ASSUME KeepAlive
  PROVE  Spec => []FollowUpsBeforeAck
<1>1. IInv /\ KInv /\ [Next]_vars => KInv'
  <2>1. ASSUME IInv, KInv, Next PROVE KInv'
    BY <2>1, HoldStep, FlushStep DEF IInv, KInv
  <2>2. ASSUME KInv, UNCHANGED vars PROVE KInv'
    BY <2>2 DEF vars, KInv, HoldInv, FlushInv, FollowUpsBeforeAck
  <2>3. QED BY <2>1, <2>2
<1>2. KInv => FollowUpsBeforeAck
  BY DEF KInv
<1>3. QED BY <1>1, <1>2, InitKInv, Inductive, PTL DEF Spec
==============================================================================

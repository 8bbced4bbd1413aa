-------------------------- MODULE RunLifecycleProofs ---------------------------
(***************************************************************************)
(* Proofs about RunLifecycle, for any number of runs, instances, slots and *)
(* faults and any limits: what the tables of the web-api and the batch say *)
(* of a run, whatever the order of events, watchdogs and crashes.          *)
(***************************************************************************)
EXTENDS RunLifecycle, FiniteSetTheorems, TLAPS

\* Runs begin in the order of their ids; only those that have begun are spoken of.
RunInv ==
  /\ \A r, s \in Run : origin[r] = "none" /\ r < s => origin[s] = "none"
  /\ \A r \in Run : origin[r] = "none" <=> batchRun[r] = "none"
  /\ \A r \in Run : origin[r] = "none" => status[r] = "none"
  /\ \A k \in 1..Len(unsent) : origin[unsent[k].run] # "none"
  /\ \A k \in 1..Len(stream) : origin[stream[k].run] # "none"

IsTimeout(e) == e.kind = "timeout"
NoTimeout(q, r) == \A k \in 1..Len(q) : IsTimeout(q[k]) => q[k].run # r
Once(q) == \A j, k \in 1..Len(q) : IsTimeout(q[j]) /\ IsTimeout(q[k]) /\ q[j].run = q[k].run => j = k
Closed(r) == batchRun[r] \notin {"none", "running"}

\* A run with a timeout is closed; there is one timeout of it, in the outbox or in the
\* stream.
TimeoutInv ==
  /\ Once(unsent) /\ Once(stream)
  /\ \A k \in 1..Len(unsent) : IsTimeout(unsent[k]) =>
       Closed(unsent[k].run) /\ NoTimeout(stream, unsent[k].run)
  /\ \A k \in 1..Len(stream) : IsTimeout(stream[k]) => Closed(stream[k].run)

\* One instance works at a time, and what it read before its last step still holds: no
\* run of the web-api is in its time; none of the hanging has a timeout yet.
LockInv ==
  /\ \A i \in Instance : task[i].does # "nothing" => i \in lock
  /\ \A i, j \in lock : i = j
  /\ \A i \in Instance : task[i].does = "manual" =>
       \A r \in Run : Web(r) /\ batchRun[r] = "running" => started[r] + Total <= now
  /\ \A i \in Instance : task[i].does = "check" =>
       \A r \in task[i].hanging : Web(r) /\ NoTimeout(unsent, r) /\ NoTimeout(stream, r)

Undisturbed(r) == \A j \in held : stream[j].run # r
Scores(e, r) == e.run = r /\ e.kind = "scored"

\* There is one count of a run, before its report; once projected, and unless an event
\* of the run was handed back, the counters are those of its event.
CountInv ==
  /\ \A k \in 1..Len(unsent) : unsent[k].kind \in {"requested", "timeout"}
  /\ \A r \in Run, j, k \in 1..Len(stream) : Scores(stream[j], r) /\ Scores(stream[k], r) => j = k
  /\ \A k \in inbox, r \in Run : Scores(stream[k], r) /\ Undisturbed(r) =>
       universe[r] /\ scored[r] = IF stream[k].full THEN "all" ELSE "some"
  /\ \A j \in 1..Len(stream) : stream[j].kind = "reported" =>
       \E k \in 1..(j - 1) : Scores(stream[k], stream[j].run)
  /\ \A r \in Run : Web(r) /\ batchRun[r] \in {"success", "partial"} =>
       \E k \in 1..Len(stream) : Scores(stream[k], r)

\* The inductive invariant.
IInv == TypeOK /\ RunInv /\ TimeoutInv /\ LockInv /\ CountInv /\ TablesTell /\ OneFetchAtATime

------------------------------------------------------------------------------
(* Kinds, stages and times.                                                 *)

\* The stages in their order.
LEMMA StagesInOrder ==
  /\ Kind = {"requested", "fetched", "scored", "reported", "failed", "no_data", "timeout"}
  /\ {Stages[n] : n \in 1..4} = {"requested", "fetched", "scored", "reported"}
  /\ StageNo("requested") = 1 /\ StageNo("fetched") = 2
  /\ StageNo("scored") = 3 /\ StageNo("reported") = 4
<1>1. Stages[1] = "requested" /\ Stages[2] = "fetched" /\ Stages[3] = "scored" /\ Stages[4] = "reported"
  BY DEF Stages
<1>2. \A n \in 1..4 : n = 1 \/ n = 2 \/ n = 3 \/ n = 4
  OBVIOUS
<1>3. {Stages[n] : n \in 1..4} = {"requested", "fetched", "scored", "reported"}
  BY <1>1, <1>2
<1>4. Kind = {"requested", "fetched", "scored", "reported", "failed", "no_data", "timeout"}
  BY <1>3 DEF Kind, FailureKind, Failures
<1>5. StageNo("requested") = 1
  BY <1>1, <1>2 DEF StageNo
<1>6. StageNo("fetched") = 2
  BY <1>1, <1>2 DEF StageNo
<1>7. StageNo("scored") = 3
  BY <1>1, <1>2 DEF StageNo
<1>8. StageNo("reported") = 4
  BY <1>1, <1>2 DEF StageNo
<1> QED BY <1>3, <1>4, <1>5, <1>6, <1>7, <1>8

\* Bounds are numbers, a set of runs is finite.
LEMMA Bounds ==
  /\ MaxTime \in Nat /\ Total \in Nat /\ \A r \in Run : r \in Nat
  /\ \A S \in SUBSET Run : Cardinality(S) \in Nat
<1>1. IsFiniteSet(Run)
  BY LifecycleAssumption, FS_Interval DEF Run
<1>2. \A S \in SUBSET Run : Cardinality(S) \in Nat
  BY <1>1, FS_Subset, FS_CardinalityType
<1> QED BY <1>2, LifecycleAssumption DEF MaxTime, Total, Run

------------------------------------------------------------------------------
(* What an event does to the tables.                                        *)

\* Events of different runs are told to the tables.
Tell(events) ==
  /\ events \subseteq Event
  /\ \A e, f \in events : e.run = f.run => e = f
  /\ Project(events) /\ CloseRun(events)

\* What the event e does to the rows of its run.
Follows(r, e) ==
  /\ status'[r] = IF status[r] = "none" \/ Advances(status[r], StatusOf(e)) THEN StatusOf(e) ELSE status[r]
  /\ lastAt'[r] = IF e.at >= lastAt[r] THEN e.at ELSE lastAt[r]
  /\ universe'[r] = (universe[r] \/ e.kind \in {"fetched", "scored"})
  /\ scored'[r] = IF e.kind = "scored" THEN (IF e.full THEN "all" ELSE "some") ELSE scored[r]
  /\ batchRun'[r] = IF Web(r) /\ batchRun[r] = "running" /\ StatusOf(e) \in Result
                      THEN IF e.kind = "reported"
                             THEN IF ~universe'[r] \/ scored'[r] = "all" THEN "success" ELSE "partial"
                             ELSE StatusOf(e)
                      ELSE batchRun[r]

Untouched(r) ==
  /\ status'[r] = status[r] /\ lastAt'[r] = lastAt[r] /\ universe'[r] = universe[r]
  /\ scored'[r] = scored[r] /\ batchRun'[r] = batchRun[r]

\* A run is told its own event, or nothing.
LEMMA ToldItsOwn ==
  ASSUME TypeOK, NEW events, Tell(events), NEW r \in Run
  PROVE  \/ ~Hit(events, r) /\ Untouched(r)
         \/ \E e \in events : e.run = r /\ Follows(r, e)
<1>1. CASE ~Hit(events, r)
  <2>1. universe[r] \in BOOLEAN
    BY DEF TypeOK
  <2>2. \A e \in events : e.run # r
    BY <1>1 DEF Hit
  <2>3. status'[r] = status[r] /\ lastAt'[r] = lastAt[r] /\ scored'[r] = scored[r] /\ batchRun'[r] = batchRun[r]
    BY <1>1, <2>2 DEF Tell, Project, CloseRun, NewStatus, NewLastAt, NewScored
  <2>4. universe'[r] = universe[r]
    BY <2>1, <2>2 DEF Tell, Project, NewUniverse
  <2> QED BY <1>1, <2>3, <2>4 DEF Untouched
<1>2. CASE Hit(events, r)
  <2>1. PICK e \in events : e.run = r
    BY <1>2 DEF Hit
  <2>2. \A f \in events : f.run = r => f = e
    BY <2>1 DEF Tell
  <2>3. EventOn(events, r) = e
    BY <2>1, <2>2 DEF EventOn
  <2>4. /\ NewStatus(events, r) = (IF status[r] = "none" \/ Advances(status[r], StatusOf(e)) THEN StatusOf(e) ELSE status[r])
        /\ NewLastAt(events, r) = (IF e.at >= lastAt[r] THEN e.at ELSE lastAt[r])
    BY <1>2, <2>3 DEF NewStatus, NewLastAt
  <2>5. NewScored(events, r) = (IF e.kind = "scored" THEN (IF e.full THEN "all" ELSE "some") ELSE scored[r])
    BY <2>1, <2>2, <2>3 DEF NewScored
  <2>6. NewUniverse(events, r) = (universe[r] \/ e.kind \in {"fetched", "scored"})
    BY <2>1, <2>2 DEF NewUniverse, TypeOK
  <2>7. /\ status'[r] = NewStatus(events, r) /\ lastAt'[r] = NewLastAt(events, r)
        /\ universe'[r] = NewUniverse(events, r) /\ scored'[r] = NewScored(events, r)
    BY DEF Tell, Project
  <2>8. batchRun'[r] = IF Web(r) /\ batchRun[r] = "running" /\ StatusOf(e) \in Result
                         THEN Closing(events, r) ELSE batchRun[r]
    BY <2>1, <2>2 DEF Tell, CloseRun
  <2>9. Closing(events, r) = (IF e.kind = "reported"
                               THEN IF ~universe'[r] \/ scored'[r] = "all" THEN "success" ELSE "partial"
                               ELSE StatusOf(e))
    BY <2>3, <2>7 DEF Closing
  <2> QED BY <2>1, <2>4, <2>5, <2>6, <2>7, <2>8, <2>9 DEF Follows
<1> QED BY <1>1, <1>2

\* An event has a status, which is a result if the event is one.
LEMMA StatusType ==
  ASSUME NEW e \in Event
  PROVE  /\ StatusOf(e) \in {"requested", "fetched", "scored", "reported", "failed", "no_data"}
         /\ StatusOf(e) = "reported" <=> e.kind = "reported"
         /\ StatusOf(e) = "scored" <=> e.kind = "scored"
         /\ e.run \in Run /\ e.at \in 0..MaxTime /\ e.full \in BOOLEAN
  BY StagesInOrder DEF Event, StatusOf

\* Telling events keeps the tables well typed.
LEMMA TellType ==
  ASSUME TypeOK, NEW events, Tell(events)
  PROVE  /\ batchRun' \in [Run -> {"none", "running", "success", "partial"} \cup Failures]
         /\ status' \in [Run -> {"none"} \cup {Stages[n] : n \in 1..4} \cup Failures]
         /\ lastAt' \in [Run -> 0..MaxTime]
         /\ universe' \in [Run -> BOOLEAN]
         /\ scored' \in [Run -> {"none", "some", "all"}]
<1>1. /\ status' = [r \in Run |-> status'[r]] /\ lastAt' = [r \in Run |-> lastAt'[r]]
      /\ universe' = [r \in Run |-> universe'[r]] /\ scored' = [r \in Run |-> scored'[r]]
      /\ batchRun' = [r \in Run |-> batchRun'[r]]
  BY DEF Tell, Project, CloseRun
<1>2. ASSUME NEW r \in Run
      PROVE  /\ batchRun'[r] \in {"none", "running", "success", "partial"} \cup Failures
             /\ status'[r] \in {"none"} \cup {Stages[n] : n \in 1..4} \cup Failures
             /\ lastAt'[r] \in 0..MaxTime /\ universe'[r] \in BOOLEAN
             /\ scored'[r] \in {"none", "some", "all"}
  <2>1. CASE Untouched(r)
    BY <2>1 DEF Untouched, TypeOK
  <2>2. ASSUME NEW e \in events, e.run = r, Follows(r, e)
        PROVE  /\ batchRun'[r] \in {"none", "running", "success", "partial"} \cup Failures
               /\ status'[r] \in {"none"} \cup {Stages[n] : n \in 1..4} \cup Failures
               /\ lastAt'[r] \in 0..MaxTime /\ universe'[r] \in BOOLEAN
               /\ scored'[r] \in {"none", "some", "all"}
    <3>1. e \in Event
      BY DEF Tell
    <3>2. /\ StatusOf(e) \in {"requested", "fetched", "scored", "reported", "failed", "no_data"}
          /\ StatusOf(e) = "reported" <=> e.kind = "reported"
          /\ e.at \in 0..MaxTime
      BY <3>1, StatusType
    <3>3. /\ batchRun[r] \in {"none", "running", "success", "partial", "failed", "no_data"}
          /\ status[r] \in {"none", "requested", "fetched", "scored", "reported", "failed", "no_data"}
          /\ lastAt[r] \in 0..MaxTime /\ universe[r] \in BOOLEAN /\ scored[r] \in {"none", "some", "all"}
      <4>1. /\ batchRun[r] \in {"none", "running", "success", "partial"} \cup Failures
            /\ status[r] \in {"none"} \cup {Stages[n] : n \in 1..4} \cup Failures
            /\ lastAt[r] \in 0..MaxTime
        BY DEF TypeOK
      <4>2. universe[r] \in BOOLEAN /\ scored[r] \in {"none", "some", "all"}
        BY DEF TypeOK
      <4>3. \A n \in 1..4 : Stages[n] \in {"requested", "fetched", "scored", "reported"}
        BY StagesInOrder
      <4>4. status[r] \in {"none", "requested", "fetched", "scored", "reported", "failed", "no_data"}
        BY <4>1, <4>3 DEF Failures
      <4> QED BY <4>1, <4>2, <4>4 DEF Failures
    <3>4. batchRun'[r] \in {"none", "running", "success", "partial", "failed", "no_data"}
      BY <2>2, <3>2, <3>3 DEF Follows, Result, Failures
    <3>5. status'[r] \in {"none", "requested", "fetched", "scored", "reported", "failed", "no_data"}
      BY <2>2, <3>2, <3>3 DEF Follows
    <3>6. lastAt'[r] \in 0..MaxTime /\ universe'[r] \in BOOLEAN /\ scored'[r] \in {"none", "some", "all"}
      BY <2>2, <3>2, <3>3 DEF Follows
    <3> QED BY <3>4, <3>5, <3>6, StagesInOrder DEF Failures
  <2> QED BY <2>1, <2>2, ToldItsOwn
<1> QED BY <1>1, <1>2

\* Dispatch and the watchdog tell events.
LEMMA DispatchTells ==
  ASSUME TypeOK, NEW k \in 1..Len(stream), Dispatch(k)
  PROVE  Tell({stream[k]}) /\ stream[k] \in Event
  BY DEF TypeOK, Dispatch, Tell

LEMMA CheckTells ==
  ASSUME TypeOK, NEW i \in Instance, CheckFail(i)
  PROVE  /\ Tell({TimeoutOf(r) : r \in task[i].hanging})
         /\ task[i].hanging \in SUBSET Run
         /\ \A r \in task[i].hanging : TimeoutOf(r) \in Event /\ TimeoutOf(r).run = r
<1>1. task[i].hanging \in SUBSET Run
  BY DEF TypeOK
<1>2. \A r \in Run : TimeoutOf(r) \in Event /\ TimeoutOf(r).run = r
  BY StagesInOrder, Bounds DEF TimeoutOf, Event, TypeOK
<1> QED BY <1>1, <1>2 DEF CheckFail, Tell

------------------------------------------------------------------------------
(* Type correctness.                                                        *)

\* The initial state satisfies the invariant.
LEMMA InitInv == Init => IInv
<1> SUFFICES ASSUME Init PROVE IInv
  OBVIOUS
<1>1. TypeOK
  BY LifecycleAssumption, Bounds DEF Init, TypeOK, NoTask, Task
<1>2. RunInv /\ TimeoutInv /\ LockInv
  BY DEF Init, RunInv, TimeoutInv, LockInv, Once, Web, NoTask, Task
<1>3. CountInv /\ TablesTell /\ OneFetchAtATime
  BY DEF Init, CountInv, TablesTell, TablesAgree, CountsRight, OneFetchAtATime, Web, Failures, Scores
<1> QED BY <1>1, <1>2, <1>3 DEF IInv

\* What an instance may be at.
Tasks == [does : {"nothing", "manual", "scheduled", "check"}, slot : SUBSET Slot, hanging : SUBSET Run]

\* What Work and Leave do to the lock.
LEMMA LockType ==
  ASSUME TypeOK, NEW i \in Instance
  PROVE  /\ Leave(i) => lock' \subseteq Instance /\ task' \in [Instance -> Tasks]
         /\ \A t \in Tasks : Work(i, t) => lock' \subseteq Instance /\ task' \in [Instance -> Tasks]
<1>1. NoTask \in Tasks
  BY DEF NoTask, Task, Tasks
<1>2. lock \subseteq Instance /\ task \in [Instance -> Tasks]
  BY DEF TypeOK, Tasks
<1> QED BY <1>1, <1>2 DEF Leave, Work

\* A queue with an event more is a queue of events.
LEMMA EventTypes ==
  ASSUME TypeOK, NEW r \in Run
  PROVE  /\ \A k \in Kind, full \in BOOLEAN : [run |-> r, kind |-> k, at |-> now, full |-> full] \in Event
         /\ [run |-> r, kind |-> "requested", at |-> now, full |-> FALSE] \in Event
         /\ \A n \in 2..4, full \in BOOLEAN :
              [run |-> r, kind |-> Stages[n], at |-> now, full |-> full] \in Event
         /\ \A kind \in Failures : [run |-> r, kind |-> kind, at |-> now, full |-> FALSE] \in Event
  BY StagesInOrder DEF TypeOK, Event, Kind, FailureKind

\* Every step keeps the variables well typed.
LEMMA NextType ==
  ASSUME TypeOK, [Next]_vars
  PROVE  TypeOK'
<1> USE DEF runs, table
<1>1. CASE UNCHANGED vars
  BY <1>1 DEF vars, TypeOK
<1>2. ASSUME NEW i \in Instance, StartRead(i) \/ ScheduleRead(i) \/ CheckRead(i) PROVE TypeOK'
  <2>1. PICK t \in Tasks : Work(i, t)
    <3>1. CASE StartRead(i)
      BY <3>1 DEF StartRead, Task, Tasks
    <3>2. CASE ScheduleRead(i)
      BY <3>2 DEF ScheduleRead, Task, Tasks, Due
    <3>3. CASE CheckRead(i)
      <4>1. Task("check", {}, Hanging) \in Tasks
        BY DEF Task, Tasks, Hanging
      <4> QED BY <3>3, <4>1 DEF CheckRead
    <3> QED BY <1>2, <3>1, <3>2, <3>3
  <2>2. lock' \subseteq Instance /\ task' \in [Instance -> Tasks]
    BY <2>1, LockType
  <2> QED BY <1>2, <2>2 DEF StartRead, ScheduleRead, CheckRead, TypeOK, Tasks
<1>3. ASSUME NEW i \in Instance, Create(i) PROVE TypeOK'
  <2>1. PICK r \in New :
          /\ origin' = [origin EXCEPT ![r] = task[i].does]
          /\ started' = [started EXCEPT ![r] = now]
          /\ slotOf' = [slotOf EXCEPT ![r] = task[i].slot]
          /\ batchRun' = [batchRun EXCEPT ![r] = "running"]
          /\ unsent' = Append(unsent, [run |-> r, kind |-> "requested", at |-> now, full |-> FALSE])
    BY <1>3 DEF Create
  <2>2. r \in Run
    BY DEF New
  <2>3. unsent' \in Seq(Event)
    BY <2>1, <2>2, EventTypes DEF TypeOK
  <2>4. task[i].does \in {"manual", "scheduled"} /\ task[i].slot \in SUBSET Slot
    BY <1>3 DEF Create, TypeOK
  <2> QED BY <1>3, <2>1, <2>2, <2>3, <2>4, LockType DEF Create, TypeOK, Tasks
<1>4. ASSUME NEW i \in Instance, CheckFail(i) PROVE TypeOK'
  <2>0. PICK events : events = {TimeoutOf(r) : r \in task[i].hanging}
    OBVIOUS
  <2>1. Tell(events) /\ task[i].hanging \in SUBSET Run
    BY <1>4, <2>0, CheckTells
  <2>2. unsent' \in Seq(Event)
    <3>1. PICK q \in Ascending(task[i].hanging) :
            unsent' = unsent \o [k \in 1..Cardinality(task[i].hanging) |-> TimeoutOf(q[k])]
      BY <1>4 DEF CheckFail
    <3>2. Cardinality(task[i].hanging) \in Nat
      BY <2>1, Bounds
    <3>3. \A k \in 1..Cardinality(task[i].hanging) : TimeoutOf(q[k]) \in Event
      BY <1>4, CheckTells DEF Ascending
    <3>4. [k \in 1..Cardinality(task[i].hanging) |-> TimeoutOf(q[k])] \in Seq(Event)
      BY <3>2, <3>3
    <3> QED BY <3>1, <3>4 DEF TypeOK
  <2> QED BY <1>4, <2>1, <2>2, TellType, LockType DEF CheckFail, TypeOK, Tasks
<1>5. ASSUME NEW i \in Instance, Abort(i) PROVE TypeOK'
  <2>1. faults' \in 0..MaxFaults
    BY <1>5, LifecycleAssumption DEF Abort, Fault, TypeOK
  <2> QED BY <1>5, <2>1, LockType DEF Abort, TypeOK, Tasks
<1>6. CASE Flush
  <2>1. unsent' \in Seq(Event) /\ stream' \in Seq(Event) /\ Len(stream') = Len(stream) + 1 /\ Len(stream) \in Nat
    BY <1>6 DEF Flush, TypeOK
  <2> QED BY <1>6, <2>1 DEF Flush, TypeOK
<1>7. ASSUME NEW k \in 1..Len(stream), Dispatch(k) PROVE TypeOK'
  BY <1>7, DispatchTells, TellType DEF Dispatch, TypeOK
<1>8. ASSUME NEW k \in 1..Len(stream), DispatchFails(k) \/ DeadLetter(k) PROVE TypeOK'
  <2>1. faults' \in 0..MaxFaults
    BY <1>8, LifecycleAssumption DEF DispatchFails, DeadLetter, Fault, TypeOK
  <2>2. CASE DispatchFails(k)
    BY <2>1, <2>2 DEF DispatchFails, TypeOK
  <2>3. CASE DeadLetter(k)
    BY <2>1, <2>3 DEF DeadLetter, TypeOK
  <2> QED BY <1>8, <2>2, <2>3
<1>9. ASSUME NEW e \in Event, stream' = Append(stream, e) PROVE
        stream' \in Seq(Event) /\ inbox \subseteq 1..Len(stream') /\ held \subseteq 1..Len(stream')
  <2>1. Len(stream') = Len(stream) + 1 /\ Len(stream) \in Nat /\ stream' \in Seq(Event)
    BY <1>9 DEF TypeOK
  <2> QED BY <2>1 DEF TypeOK
<1>10. ASSUME NEW r \in Run, NEW n \in 2..4, NEW full \in BOOLEAN, Emit(r, n, full) PROVE TypeOK'
  BY <1>10, <1>9, EventTypes DEF Emit, TypeOK
<1>11. ASSUME NEW r \in Run, NEW kind \in Failures, EmitFailure(r, kind) PROVE TypeOK'
  BY <1>11, <1>9, EventTypes DEF EmitFailure, TypeOK
<1>12. CASE BatchStart
  <2>1. PICK r \in New :
          /\ origin' = [origin EXCEPT ![r] = "batch"]
          /\ started' = [started EXCEPT ![r] = now]
          /\ batchRun' = [batchRun EXCEPT ![r] = "running"]
          /\ stream' = Append(stream, [run |-> r, kind |-> "requested", at |-> now, full |-> FALSE])
    BY <1>12 DEF BatchStart
  <2>2. r \in Run
    BY DEF New
  <2>3. stream' \in Seq(Event) /\ inbox \subseteq 1..Len(stream') /\ held \subseteq 1..Len(stream')
    BY <2>1, <2>2, <1>9, EventTypes
  <2> QED BY <1>12, <2>1, <2>2, <2>3 DEF BatchStart, TypeOK
<1>13. ASSUME NEW r \in Run, BatchEnd(r) PROVE TypeOK'
  BY <1>13 DEF BatchEnd, TypeOK
<1>14. CASE Tick
  BY <1>14, Bounds DEF Tick, TypeOK
<1> QED BY <1>1, <1>2, <1>3, <1>4, <1>5, <1>6, <1>7, <1>8, <1>10, <1>11, <1>12, <1>13, <1>14 DEF Next

------------------------------------------------------------------------------
(* The steps by what they change.                                           *)

\* Runs, tables and queues stay: an instance reads or gives up, an event is handed
\* back or given up, time passes.
Quiet ==
  /\ UNCHANGED <<origin, started, batchRun, status, universe, scored, lastAt, unsent, stream>>
  /\ held \subseteq held' /\ inbox' \subseteq inbox \cup held

\* A service sends an event that is neither a timeout nor a request.
Emits(e) ==
  /\ e \in Event /\ e.kind \notin {"requested", "timeout"}
  /\ stream' = Append(stream, e)
  /\ Sent(e.run, {"requested", "fetched", "scored"})
  /\ e.kind = "scored" => ~Sent(e.run, {"scored"})
  /\ e.kind = "reported" => Sent(e.run, {"scored"})
  /\ UNCHANGED <<now, runs, batchRun, table, unsent, inbox, held, lock, task, faults>>

\* What a stage sends and what it sends when it fails.
LEMMA EmitEmits ==
  ASSUME TypeOK, NEW r \in Run
  PROVE  /\ \A n \in 2..4, full \in BOOLEAN : Emit(r, n, full) => \E e \in Event : Emits(e)
         /\ \A kind \in Failures : EmitFailure(r, kind) => \E e \in Event : Emits(e)
<1> USE DEF runs, table
<1>1. ASSUME NEW n \in 2..4, NEW full \in BOOLEAN, Emit(r, n, full)
      PROVE  \E e \in Event : Emits(e)
  <2> DEFINE e == [run |-> r, kind |-> Stages[n], at |-> now, full |-> full]
  <2>1. e \in Event
    BY EventTypes
  <2>2. /\ n = 2 \/ n = 3 \/ n = 4
        /\ Stages[1] = "requested" /\ Stages[2] = "fetched" /\ Stages[3] = "scored" /\ Stages[4] = "reported"
    BY DEF Stages
  <2>3. Emits(e)
    BY <1>1, <2>1, <2>2 DEF Emit, Emits, Sent
  <2> QED BY <2>1, <2>3
<1>2. ASSUME NEW kind \in Failures, EmitFailure(r, kind)
      PROVE  \E e \in Event : Emits(e)
  <2> DEFINE e == [run |-> r, kind |-> kind, at |-> now, full |-> FALSE]
  <2>1. e \in Event
    BY EventTypes
  <2>2. Emits(e)
    BY <1>2, <2>1 DEF EmitFailure, Emits, Sent, Failures
  <2> QED BY <2>1, <2>2
<1> QED BY <1>1, <1>2

\* Every step is one of these.
LEMMA StepCases ==
  ASSUME TypeOK, [Next]_vars
  PROVE  \/ Quiet
         \/ \E i \in Instance : Create(i)
         \/ \E i \in Instance : CheckFail(i)
         \/ Flush
         \/ \E k \in 1..Len(stream) : Dispatch(k)
         \/ \E e \in Event : Emits(e)
         \/ BatchStart
         \/ \E r \in Run : BatchEnd(r)
<1> USE DEF runs, table
<1>1. CASE UNCHANGED vars
  BY <1>1 DEF vars, Quiet
<1>2. ASSUME NEW i \in Instance, StartRead(i) \/ ScheduleRead(i) \/ CheckRead(i) \/ Abort(i) PROVE Quiet
  BY <1>2 DEF StartRead, ScheduleRead, CheckRead, Abort, Quiet
<1>3. ASSUME NEW k \in 1..Len(stream), DispatchFails(k) \/ DeadLetter(k) PROVE Quiet
  BY <1>3 DEF DispatchFails, DeadLetter, Quiet
<1>4. CASE Tick
  BY <1>4 DEF Tick, Quiet
<1> QED BY <1>1, <1>2, <1>3, <1>4, EmitEmits DEF Next

\* Sequences of events, element by element.
LEMMA Queues ==
  /\ \A q \in Seq(Event) : Len(q) \in Nat
  /\ \A q \in Seq(Event), k \in Nat : k \in 1..Len(q) => q[k] \in Event /\ q[k].run \in Run
  /\ \A q \in Seq(Event), e \in Event :
       /\ Len(Append(q, e)) = Len(q) + 1
       /\ Append(q, e)[Len(q) + 1] = e
       /\ \A k \in 1..Len(q) : Append(q, e)[k] = q[k]
  /\ \A q \in Seq(Event) : q # <<>> =>
       /\ Len(q) > 0 /\ Head(q) = q[1] /\ Head(q) \in Event
       /\ Len(Tail(q)) = Len(q) - 1
       /\ \A k \in 1..(Len(q) - 1) : Tail(q)[k] = q[k + 1]
<1>1. \A q \in Seq(Event) : Len(q) \in Nat
  OBVIOUS
<1>4. \A q \in Seq(Event), k \in Nat : k \in 1..Len(q) => q[k] \in Event /\ q[k].run \in Run
  <2>1. \A e \in Event : e.run \in Run
    BY DEF Event
  <2>2. \A q \in Seq(Event), k \in Nat : k \in 1..Len(q) => q[k] \in Event
    OBVIOUS
  <2> QED BY <2>1, <2>2
<1>2. \A q \in Seq(Event), e \in Event :
        /\ Len(Append(q, e)) = Len(q) + 1
        /\ Append(q, e)[Len(q) + 1] = e
        /\ \A k \in 1..Len(q) : Append(q, e)[k] = q[k]
  OBVIOUS
<1>3. \A q \in Seq(Event) : q # <<>> =>
        /\ Len(q) > 0 /\ Head(q) = q[1] /\ Head(q) \in Event
        /\ Len(Tail(q)) = Len(q) - 1
        /\ \A k \in 1..(Len(q) - 1) : Tail(q)[k] = q[k + 1]
  OBVIOUS
<1> QED BY <1>1, <1>2, <1>3, <1>4

\* The watchdog adds one timeout for each of the hanging.
LEMMA TimeoutsAdded ==
  ASSUME TypeOK, NEW i \in Instance, CheckFail(i)
  PROVE  \E n \in Nat :
           /\ Len(unsent') = Len(unsent) + n /\ Len(unsent) \in Nat
           /\ \A k \in 1..Len(unsent) : unsent'[k] = unsent[k]
           /\ \A k \in (Len(unsent) + 1)..Len(unsent') :
                unsent'[k].run \in task[i].hanging /\ unsent'[k].kind = "timeout"
           /\ \A j, k \in (Len(unsent) + 1)..Len(unsent') : unsent'[j].run = unsent'[k].run => j = k
<1> DEFINE S == task[i].hanging
           n == Cardinality(S)
<1>1. PICK q \in Ascending(S) : unsent' = unsent \o [k \in 1..n |-> TimeoutOf(q[k])]
  BY DEF CheckFail
<1>2. n \in Nat /\ S \in SUBSET Run
  BY CheckTells, Bounds
<1>3. \A k \in 1..n : q[k] \in S /\ q[k] \in Nat /\ TimeoutOf(q[k]) \in Event
  BY <1>2, Bounds, CheckTells DEF Ascending
<1>4. \A j, k \in 1..n : j < k => q[j] < q[k]
  BY <1>2 DEF Ascending
<1>5. \A j, k \in 1..n : q[j] = q[k] => j = k
  BY <1>2, <1>3, <1>4
<1> HIDE DEF n
<1> DEFINE f == [k \in 1..n |-> TimeoutOf(q[k])]
<1>6. f \in Seq(Event) /\ Len(f) = n /\ \A k \in 1..n : f[k] = TimeoutOf(q[k])
  BY <1>2, <1>3
<1> HIDE DEF f
<1>7. unsent \in Seq(Event) /\ Len(unsent) \in Nat
  BY DEF TypeOK
<1>8. /\ Len(unsent') = Len(unsent) + n
      /\ \A k \in 1..Len(unsent) : unsent'[k] = unsent[k]
      /\ \A k \in (Len(unsent) + 1)..Len(unsent') : unsent'[k] = f[k - Len(unsent)]
  BY <1>1, <1>2, <1>6, <1>7 DEF f
<1>9. \A k \in (Len(unsent) + 1)..Len(unsent') :
        k - Len(unsent) \in 1..n /\ unsent'[k] = TimeoutOf(q[k - Len(unsent)])
  BY <1>2, <1>6, <1>7, <1>8
<1>10. \A k \in (Len(unsent) + 1)..Len(unsent') :
         unsent'[k].run = q[k - Len(unsent)] /\ unsent'[k].kind = "timeout"
  <2>1. \A r : TimeoutOf(r).run = r /\ TimeoutOf(r).kind = "timeout"
    BY DEF TimeoutOf
  <2> QED BY <1>9, <2>1
<1>11. \A j, k \in (Len(unsent) + 1)..Len(unsent') : unsent'[j].run = unsent'[k].run => j = k
  <2> SUFFICES ASSUME NEW j \in (Len(unsent) + 1)..Len(unsent'), NEW k \in (Len(unsent) + 1)..Len(unsent'),
                      unsent'[j].run = unsent'[k].run
               PROVE  j = k
    OBVIOUS
  <2>1. j - Len(unsent) = k - Len(unsent)
    BY <1>5, <1>9, <1>10
  <2> QED BY <1>7, <2>1, <1>2, <1>8
<1> QED BY <1>2, <1>3, <1>7, <1>8, <1>9, <1>10, <1>11

------------------------------------------------------------------------------
(* The tables of a run tell one story.                                      *)

\* An event told of a run opens nothing, and closes the run in both tables.
LEMMA TellKeepsStory ==
  ASSUME TypeOK, RunInv, TablesAgree, NEW events, Tell(events), UNCHANGED origin,
         \A e \in events : origin[e.run] # "none", NEW r \in Run
  PROVE  /\ origin[r] = "none" => status'[r] = status[r]
         /\ batchRun'[r] = "none" <=> batchRun[r] = "none"
         /\ batchRun'[r] = "running" => batchRun[r] = "running"
         /\ batchRun[r] \notin {"none", "running"} => batchRun'[r] = batchRun[r]
         /\ Web(r) => /\ (batchRun'[r] = "running") <=> (status'[r] \notin Result)
                      /\ batchRun'[r] \in Failures => status'[r] = batchRun'[r]
<1>1. CASE ~Hit(events, r) /\ Untouched(r)
  BY <1>1 DEF Untouched, TablesAgree
<1>2. ASSUME NEW e \in events, e.run = r, Follows(r, e)
      PROVE  /\ origin[r] = "none" => status'[r] = status[r]
             /\ batchRun'[r] = "none" <=> batchRun[r] = "none"
             /\ batchRun'[r] = "running" => batchRun[r] = "running"
             /\ batchRun[r] \notin {"none", "running"} => batchRun'[r] = batchRun[r]
             /\ Web(r) => /\ (batchRun'[r] = "running") <=> (status'[r] \notin Result)
                          /\ batchRun'[r] \in Failures => status'[r] = batchRun'[r]
  <2> DEFINE s == StatusOf(e)
  <2>1. e \in Event
    BY DEF Tell
  <2>2. /\ s \in {"requested", "fetched", "scored", "reported", "failed", "no_data"}
        /\ s = "reported" <=> e.kind = "reported"
    BY <2>1, StatusType
  <2> HIDE DEF s
  <2>3. status[r] \in {"none", "requested", "fetched", "scored", "reported", "failed", "no_data"}
    BY StagesInOrder DEF TypeOK, Failures
  <2>4. /\ status'[r] = IF status[r] = "none" \/ Advances(status[r], s) THEN s ELSE status[r]
        /\ batchRun'[r] = IF Web(r) /\ batchRun[r] = "running" /\ s \in Result
                            THEN IF e.kind = "reported"
                                   THEN IF ~universe'[r] \/ scored'[r] = "all" THEN "success" ELSE "partial"
                                   ELSE s
                            ELSE batchRun[r]
    BY <1>2 DEF Follows, s
  <2>5. /\ status[r] \in Result => status'[r] \in Result
        /\ status[r] \in Failures => status'[r] = status[r]
        /\ status[r] \notin Result /\ s \in Result => status'[r] = s
        /\ s \notin Result /\ status[r] \notin Result => status'[r] \notin Result
    BY <2>2, <2>3, <2>4, StagesInOrder DEF Advances, Result, Failures
  <2>6. /\ batchRun'[r] = "none" <=> batchRun[r] = "none"
        /\ batchRun'[r] = "running" => batchRun[r] = "running"
        /\ batchRun[r] \notin {"none", "running"} => batchRun'[r] = batchRun[r]
    BY <2>2, <2>4 DEF Result, Failures
  <2>7. ASSUME Web(r)
        PROVE  /\ (batchRun'[r] = "running") <=> (status'[r] \notin Result)
               /\ batchRun'[r] \in Failures => status'[r] = batchRun'[r]
    <3>1. /\ (batchRun[r] = "running") <=> (status[r] \notin Result)
          /\ batchRun[r] \in Failures => status[r] = batchRun[r]
      BY <2>7 DEF TablesAgree
    <3>2. CASE batchRun[r] = "running" /\ s \in Result
      BY <3>1, <3>2, <2>2, <2>4, <2>5, <2>7 DEF Result, Failures
    <3>3. CASE ~(batchRun[r] = "running" /\ s \in Result)
      BY <3>1, <3>3, <2>4, <2>5 DEF Result, Failures
    <3> QED BY <3>2, <3>3
  <2> QED BY <1>2, <2>6, <2>7
<1> QED BY <1>1, <1>2, ToldItsOwn

\* What is told is told of runs that have begun.
LEMMA ToldHaveBegun ==
  ASSUME TypeOK, RunInv, LockInv
  PROVE  /\ \A k \in 1..Len(stream) : Dispatch(k) => \A e \in {stream[k]} : origin[e.run] # "none"
         /\ \A i \in Instance : CheckFail(i) =>
              \A e \in {TimeoutOf(r) : r \in task[i].hanging} : origin[e.run] # "none"
  BY DEF RunInv, LockInv, CheckFail, TimeoutOf, Web

\* The run that is created is the first that has not begun.
LEMMA NewRun ==
  ASSUME TypeOK, RunInv, NEW r \in New
  PROVE  /\ r \in Run /\ origin[r] = "none" /\ batchRun[r] = "none" /\ status[r] = "none"
         /\ \A s \in Run : s < r => origin[s] # "none"
         /\ \A s \in Run : r < s => origin[s] = "none"
         /\ \A k \in 1..Len(stream) : stream[k].run # r
         /\ \A k \in 1..Len(unsent) : unsent[k].run # r
  BY DEF New, RunInv

\* Every step keeps the runs in their order and speaks only of those that have begun.
LEMMA NextRuns ==
  ASSUME TypeOK, TypeOK', RunInv, LockInv, TablesAgree, [Next]_vars
  PROVE  RunInv' /\ TablesAgree'
<1> USE DEF runs, table
<1>0. unsent \in Seq(Event) /\ stream \in Seq(Event) /\ Len(unsent) \in Nat /\ Len(stream) \in Nat
      /\ unsent' \in Seq(Event) /\ stream' \in Seq(Event)
  BY DEF TypeOK
<1>1. CASE Quiet
  BY <1>1 DEF Quiet, RunInv, TablesAgree, Web
<1>2. ASSUME NEW r \in New, NEW o \in {"manual", "scheduled", "batch"},
             origin' = [origin EXCEPT ![r] = o], batchRun' = [batchRun EXCEPT ![r] = "running"],
             UNCHANGED status,
             \A k \in 1..Len(unsent') : unsent'[k].run = r \/ \E j \in 1..Len(unsent) : unsent'[k] = unsent[j],
             \A k \in 1..Len(stream') : stream'[k].run = r \/ \E j \in 1..Len(stream) : stream'[k] = stream[j]
      PROVE  RunInv' /\ TablesAgree'
  <2>1. /\ r \in Run /\ origin[r] = "none" /\ batchRun[r] = "none" /\ status[r] = "none"
        /\ \A s \in Run : s < r => origin[s] # "none"
        /\ \A s \in Run : r < s => origin[s] = "none"
    BY NewRun
  <2>2. /\ origin'[r] = o /\ batchRun'[r] = "running"
        /\ \A s \in Run : s # r => origin'[s] = origin[s] /\ batchRun'[s] = batchRun[s]
    BY <1>2, <2>1 DEF TypeOK
  <2>3. \A s, q \in Run : origin'[s] = "none" /\ s < q => origin'[q] = "none"
    BY <2>1, <2>2, Bounds DEF RunInv
  <2>4. \A s \in Run : (origin'[s] = "none" <=> batchRun'[s] = "none") /\ (origin'[s] = "none" => status'[s] = "none")
    BY <1>2, <2>2 DEF RunInv
  <2>5. /\ \A k \in 1..Len(unsent') : origin'[unsent'[k].run] # "none"
        /\ \A k \in 1..Len(stream') : origin'[stream'[k].run] # "none"
    <3>1. \A k \in 1..Len(unsent) : unsent[k].run \in Run /\ unsent[k].run # r /\ origin[unsent[k].run] # "none"
      BY <1>0, NewRun, Queues DEF RunInv
    <3>2. \A k \in 1..Len(stream) : stream[k].run \in Run /\ stream[k].run # r /\ origin[stream[k].run] # "none"
      BY <1>0, NewRun, Queues DEF RunInv
    <3> QED BY <1>2, <2>2, <3>1, <3>2, SMTT(30)
  <2>6. TablesAgree'
    BY <1>2, <2>1, <2>2 DEF TablesAgree, Web, Result, Failures
  <2> QED BY <2>3, <2>4, <2>5, <2>6 DEF RunInv
<1>3. ASSUME NEW i \in Instance, Create(i) PROVE RunInv' /\ TablesAgree'
  <2>1. PICK r \in New :
          /\ origin' = [origin EXCEPT ![r] = task[i].does]
          /\ batchRun' = [batchRun EXCEPT ![r] = "running"]
          /\ unsent' = Append(unsent, [run |-> r, kind |-> "requested", at |-> now, full |-> FALSE])
    BY <1>3 DEF Create
  <2>2. task[i].does \in {"manual", "scheduled"} /\ UNCHANGED <<status, stream>>
    BY <1>3 DEF Create
  <2>3. \A k \in 1..Len(unsent') : unsent'[k].run = r \/ \E j \in 1..Len(unsent) : unsent'[k] = unsent[j]
    <3>1. r \in Run
      BY NewRun
    <3>2. PICK e \in Event : e.run = r /\ unsent' = Append(unsent, e)
      BY <2>1, <3>1, EventTypes
    <3> QED BY <1>0, <3>2, Queues
  <2> QED BY <1>2, <2>1, <2>2, <2>3
<1>4. CASE BatchStart
  <2>1. PICK r \in New :
          /\ origin' = [origin EXCEPT ![r] = "batch"]
          /\ batchRun' = [batchRun EXCEPT ![r] = "running"]
          /\ stream' = Append(stream, [run |-> r, kind |-> "requested", at |-> now, full |-> FALSE])
    BY <1>4 DEF BatchStart
  <2>2. UNCHANGED <<status, unsent>>
    BY <1>4 DEF BatchStart
  <2>3. \A k \in 1..Len(stream') : stream'[k].run = r \/ \E j \in 1..Len(stream) : stream'[k] = stream[j]
    <3>1. r \in Run
      BY NewRun
    <3>2. PICK e \in Event : e.run = r /\ stream' = Append(stream, e)
      BY <2>1, <3>1, EventTypes
    <3> QED BY <1>0, <3>2, Queues
  <2> QED BY <1>2, <2>1, <2>2, <2>3
<1>5. ASSUME NEW events, Tell(events), UNCHANGED <<origin, stream>>,
             \A e \in events : origin[e.run] # "none",
             \A k \in 1..Len(unsent') : origin[unsent'[k].run] # "none"
      PROVE  RunInv' /\ TablesAgree'
  <2>1. \A r \in Run : /\ origin[r] = "none" => status'[r] = status[r]
                       /\ batchRun'[r] = "none" <=> batchRun[r] = "none"
                       /\ Web(r) => /\ (batchRun'[r] = "running") <=> (status'[r] \notin Result)
                                    /\ batchRun'[r] \in Failures => status'[r] = batchRun'[r]
    BY <1>5, TellKeepsStory
  <2>3. TablesAgree'
    <3> SUFFICES ASSUME NEW r \in Run, Web(r)
                 PROVE  /\ (batchRun'[r] = "running") <=> (status'[r] \notin Result)
                        /\ batchRun'[r] \in Failures => status'[r] = batchRun'[r]
      BY <1>5 DEF TablesAgree, Web
    <3> QED BY <2>1
  <2> QED BY <1>5, <2>1, <2>3 DEF RunInv
<1>6. ASSUME NEW i \in Instance, CheckFail(i) PROVE RunInv' /\ TablesAgree'
  <2>1. PICK events : events = {TimeoutOf(r) : r \in task[i].hanging}
    OBVIOUS
  <2>2. Tell(events) /\ \A e \in events : origin[e.run] # "none"
    BY <1>6, <2>1, CheckTells, ToldHaveBegun
  <2>3. \A k \in 1..Len(unsent') : origin[unsent'[k].run] # "none"
    <3>1. \A r \in task[i].hanging : origin[r] # "none"
      BY <1>6 DEF CheckFail, LockInv, Web
    <3>2. /\ Len(unsent') \in Nat
          /\ \A k \in 1..Len(unsent) : unsent'[k] = unsent[k]
          /\ \A k \in (Len(unsent) + 1)..Len(unsent') : unsent'[k].run \in task[i].hanging
      BY <1>6, TimeoutsAdded
    <3>3. \A k \in 1..Len(unsent') : k \in 1..Len(unsent) \/ k \in (Len(unsent) + 1)..Len(unsent')
      BY <1>0, <3>2
    <3> QED BY <3>1, <3>2, <3>3 DEF RunInv
  <2> QED BY <1>5, <1>6, <2>2, <2>3 DEF CheckFail
<1>7. ASSUME NEW k \in 1..Len(stream), Dispatch(k) PROVE RunInv' /\ TablesAgree'
  <2>1. PICK events : events = {stream[k]}
    OBVIOUS
  <2>2. Tell(events) /\ \A e \in events : origin[e.run] # "none"
    BY <1>7, <2>1, DispatchTells, ToldHaveBegun
  <2> QED BY <1>5, <1>7, <2>2 DEF Dispatch, RunInv
<1>8. CASE Flush
  <2>1. unsent # <<>> /\ stream' = Append(stream, Head(unsent)) /\ unsent' = Tail(unsent)
        /\ UNCHANGED <<origin, batchRun, status>>
    BY <1>8 DEF Flush
  <2>2. \A k \in 1..Len(unsent') : origin[unsent'[k].run] # "none"
    BY <1>0, <2>1, Queues DEF RunInv
  <2>3. \A k \in 1..Len(stream') : origin[stream'[k].run] # "none"
    BY <1>0, <2>1, Queues DEF RunInv
  <2> QED BY <2>1, <2>2, <2>3 DEF RunInv, TablesAgree, Web
<1>9. ASSUME NEW e \in Event, Emits(e) PROVE RunInv' /\ TablesAgree'
  <2>1. origin[e.run] # "none"
    BY <1>9 DEF Emits, Sent, RunInv
  <2>2. \A k \in 1..Len(stream') : origin[stream'[k].run] # "none"
    BY <1>0, <1>9, <2>1, Queues DEF Emits, RunInv
  <2> QED BY <1>9, <2>2 DEF Emits, RunInv, TablesAgree, Web
<1>10. ASSUME NEW r \in Run, BatchEnd(r) PROVE RunInv' /\ TablesAgree'
  BY <1>10 DEF BatchEnd, RunInv, TablesAgree, Web, TypeOK, Failures
<1> QED BY <1>1, <1>3, <1>4, <1>6, <1>7, <1>8, <1>9, <1>10, StepCases

------------------------------------------------------------------------------
(* The lock.                                                                *)

\* When an instance leaves the lock or takes it, the others do nothing.
LEMMA Alone ==
  ASSUME TypeOK, LockInv, NEW i \in Instance
  PROVE  /\ task[i].does # "nothing" /\ Leave(i) =>
              lock' = {} /\ \A j \in Instance : task'[j].does = "nothing"
         /\ \A t \in Tasks : lock = {} /\ Work(i, t) =>
              /\ lock' = {i} /\ task'[i] = t
              /\ \A j \in Instance : j # i => task'[j].does = "nothing"
<1>1. ASSUME task[i].does # "nothing", Leave(i)
      PROVE  lock' = {} /\ \A j \in Instance : task'[j].does = "nothing"
  <2>1. lock = {i} /\ \A j \in Instance : j # i => task[j].does = "nothing"
    BY <1>1 DEF LockInv
  <2> QED BY <1>1, <2>1 DEF Leave, TypeOK, NoTask, Task
<1>2. ASSUME NEW t \in Tasks, lock = {}, Work(i, t)
      PROVE  lock' = {i} /\ task'[i] = t /\ \A j \in Instance : j # i => task'[j].does = "nothing"
  BY <1>2 DEF LockInv, Work, TypeOK
<1> QED BY <1>1, <1>2

\* Every step keeps the lock with one instance, and what that one has read true.
LEMMA NextLock ==
  ASSUME TypeOK, RunInv, TimeoutInv, LockInv, TablesAgree, OneFetchAtATime, [Next]_vars
  PROVE  LockInv' /\ OneFetchAtATime'
<1> USE DEF runs, table
<1>0. /\ unsent \in Seq(Event) /\ stream \in Seq(Event) /\ Len(unsent) \in Nat /\ Len(stream) \in Nat
      /\ now \in Nat /\ Total \in Nat /\ \A r \in Run : started[r] \in Nat /\ r \in Nat
  BY Bounds DEF TypeOK
<1>1. CASE UNCHANGED vars
  BY <1>1 DEF vars, LockInv, OneFetchAtATime, Web, NoTimeout
<1>2. ASSUME NEW i \in Instance, NEW t \in Tasks, lock = {}, Work(i, t),
             UNCHANGED <<now, origin, started, batchRun, unsent, stream>>,
             t.does = "manual" => \A r \in Run : Web(r) /\ batchRun[r] = "running" => started[r] + Total <= now,
             t.does = "check" => t.hanging \subseteq Hanging
      PROVE  LockInv' /\ OneFetchAtATime'
  <2>1. lock' = {i} /\ task'[i] = t /\ \A j \in Instance : j # i => task'[j].does = "nothing"
    BY <1>2, Alone
  <2>2. \A r \in Hanging : Web(r) /\ NoTimeout(unsent, r) /\ NoTimeout(stream, r)
    BY DEF Hanging, TimeoutInv, NoTimeout, Closed
  <2>3. \A r \in Hanging : (Web(r) /\ NoTimeout(unsent, r) /\ NoTimeout(stream, r))'
    BY <1>2, <2>2 DEF Web, NoTimeout
  <2>4. LockInv'
    BY <1>2, <2>1, <2>3 DEF LockInv, Web
  <2> QED BY <1>2, <2>4 DEF OneFetchAtATime, Web
<1>3. ASSUME NEW i \in Instance, StartRead(i) PROVE LockInv' /\ OneFetchAtATime'
  <2>1. \A r \in Run : Web(r) /\ batchRun[r] = "running" => started[r] + Total <= now
    BY <1>0, <1>3 DEF StartRead, Active
  <2>2. Task("manual", {}, {}) \in Tasks /\ Task("manual", {}, {}).does = "manual"
    BY DEF Task, Tasks
  <2> QED BY <1>2, <1>3, <2>1, <2>2 DEF StartRead
<1>4. ASSUME NEW i \in Instance, ScheduleRead(i) PROVE LockInv' /\ OneFetchAtATime'
  <2>1. \A s \in Due : Task("scheduled", {s}, {}) \in Tasks /\ Task("scheduled", {s}, {}).does = "scheduled"
    BY DEF Task, Tasks, Due
  <2> QED BY <1>2, <1>4, <2>1 DEF ScheduleRead
<1>5. ASSUME NEW i \in Instance, CheckRead(i) PROVE LockInv' /\ OneFetchAtATime'
  <2>1. /\ Task("check", {}, Hanging) \in Tasks /\ Task("check", {}, Hanging).does = "check"
        /\ Task("check", {}, Hanging).hanging = Hanging
    BY DEF Task, Tasks, Hanging
  <2> QED BY <1>2, <1>5, <2>1 DEF CheckRead
<1>6. ASSUME NEW i \in Instance, task[i].does # "nothing", Leave(i) PROVE LockInv'
  BY <1>6, Alone DEF LockInv
<1>7. ASSUME NEW i \in Instance, Create(i) PROVE LockInv' /\ OneFetchAtATime'
  <2>1. LockInv'
    BY <1>6, <1>7 DEF Create
  <2>2. PICK q \in New : /\ origin' = [origin EXCEPT ![q] = task[i].does]
                         /\ started' = [started EXCEPT ![q] = now]
                         /\ batchRun' = [batchRun EXCEPT ![q] = "running"]
    BY <1>7 DEF Create
  <2>3. q \in Run /\ \A s \in Run : q < s => origin[s] = "none"
    BY NewRun
  <2>4. /\ origin'[q] = task[i].does /\ started'[q] = now
        /\ \A s \in Run : s # q => origin'[s] = origin[s] /\ started'[s] = started[s] /\ batchRun'[s] = batchRun[s]
    BY <2>2, <2>3 DEF TypeOK
  <2>5. task[i].does = "manual" =>
          \A r \in Run : Web(r) /\ batchRun[r] = "running" => started[r] + Total <= now
    BY DEF LockInv
  <2>6. ASSUME NEW r \in Run, NEW s \in Run,
               r < s, Web(r)', origin'[s] = "manual", batchRun'[r] = "running"
        PROVE  started'[s] >= started'[r] + Total
    <3>1. CASE r = q
      <4>1. origin'[s] = "none"
        BY <1>0, <2>3, <2>4, <2>6, <3>1
      <4> QED BY <2>6, <4>1
    <3>2. CASE r # q /\ s = q
      BY <1>0, <2>4, <2>5, <2>6, <3>2 DEF Web
    <3>3. CASE r # q /\ s # q
      BY <2>4, <2>6, <3>3 DEF OneFetchAtATime, Web
    <3> QED BY <3>1, <3>2, <3>3
  <2> QED BY <2>1, <2>6 DEF OneFetchAtATime
<1>8. ASSUME NEW i \in Instance, Abort(i) PROVE LockInv' /\ OneFetchAtATime'
  <2>1. CASE task[i].does # "nothing"
    BY <1>6, <1>8, <2>1 DEF Abort, OneFetchAtATime, Web
  <2>2. CASE task[i].does = "nothing"
    <3>1. \A j \in Instance : task'[j].does # "nothing" => j # i /\ task'[j] = task[j]
      BY <1>8, <2>2 DEF Abort, Leave, TypeOK, NoTask, Task
    <3>2. LockInv'
      BY <1>8, <3>1 DEF Abort, Leave, LockInv, Web, NoTimeout
    <3> QED BY <1>8, <3>2 DEF Abort, OneFetchAtATime, Web
  <2> QED BY <2>1, <2>2
<1>9. ASSUME UNCHANGED <<now, origin, started, lock, task>>,
             \A r \in Run : batchRun'[r] = "running" => batchRun[r] = "running",
             \A r \in Run : NoTimeout(unsent, r) /\ NoTimeout(stream, r) =>
               (NoTimeout(unsent, r) /\ NoTimeout(stream, r))'
      PROVE  LockInv' /\ OneFetchAtATime'
  <2>1. \A i \in Instance : task[i].hanging \subseteq Run
    BY DEF TypeOK
  <2>2. LockInv'
    BY <1>9, <2>1 DEF LockInv, Web
  <2> QED BY <1>9, <2>2 DEF OneFetchAtATime, Web
<1>10. ASSUME NEW i \in Instance, CheckFail(i) PROVE LockInv' /\ OneFetchAtATime'
  <2>1. PICK events : events = {TimeoutOf(r) : r \in task[i].hanging}
    OBVIOUS
  <2>2. Tell(events) /\ \A e \in events : origin[e.run] # "none"
    BY <1>10, <2>1, CheckTells, ToldHaveBegun
  <2>3. \A r \in Run : batchRun'[r] = "running" => batchRun[r] = "running"
    BY <1>10, <2>2, TellKeepsStory DEF CheckFail
  <2>4. LockInv'
    BY <1>6, <1>10 DEF CheckFail
  <2> QED BY <1>10, <2>3, <2>4 DEF CheckFail, OneFetchAtATime, Web
<1>11. ASSUME NEW k \in 1..Len(stream), Dispatch(k) PROVE LockInv' /\ OneFetchAtATime'
  <2>1. PICK events : events = {stream[k]}
    OBVIOUS
  <2>2. Tell(events) /\ \A e \in events : origin[e.run] # "none"
    BY <1>11, <2>1, DispatchTells, ToldHaveBegun
  <2>3. \A r \in Run : batchRun'[r] = "running" => batchRun[r] = "running"
    BY <1>11, <2>2, TellKeepsStory DEF Dispatch
  <2> QED BY <1>9, <1>11, <2>3 DEF Dispatch, NoTimeout
<1>12. ASSUME NEW k \in 1..Len(stream), DispatchFails(k) \/ DeadLetter(k) PROVE LockInv' /\ OneFetchAtATime'
  BY <1>9, <1>12 DEF DispatchFails, DeadLetter, NoTimeout
<1>13. CASE Flush
  <2>1. unsent # <<>> /\ stream' = Append(stream, Head(unsent)) /\ unsent' = Tail(unsent)
        /\ UNCHANGED <<now, origin, started, batchRun, lock, task>>
    BY <1>13 DEF Flush
  <2>2. ASSUME NEW r \in Run, NoTimeout(unsent, r), NoTimeout(stream, r)
        PROVE  (NoTimeout(unsent, r) /\ NoTimeout(stream, r))'
    BY <1>0, <2>1, <2>2, Queues DEF NoTimeout
  <2> QED BY <1>9, <2>1, <2>2
<1>14. ASSUME NEW e \in Event, Emits(e) PROVE LockInv' /\ OneFetchAtATime'
  <2>1. ASSUME NEW r \in Run, NoTimeout(unsent, r), NoTimeout(stream, r)
        PROVE  (NoTimeout(unsent, r) /\ NoTimeout(stream, r))'
    BY <1>0, <1>14, <2>1, Queues DEF NoTimeout, IsTimeout, Emits
  <2> QED BY <1>9, <1>14, <2>1 DEF Emits
<1>15. CASE BatchStart
  <2>1. PICK q \in New : /\ origin' = [origin EXCEPT ![q] = "batch"]
                         /\ started' = [started EXCEPT ![q] = now]
                         /\ batchRun' = [batchRun EXCEPT ![q] = "running"]
                         /\ stream' = Append(stream, [run |-> q, kind |-> "requested", at |-> now, full |-> FALSE])
    BY <1>15 DEF BatchStart
  <2>2. UNCHANGED <<now, unsent, lock, task>>
    BY <1>15 DEF BatchStart
  <2>3. q \in Run /\ origin[q] = "none"
    BY NewRun
  <2>4. /\ origin'[q] = "batch"
        /\ \A r \in Run : r # q => origin'[r] = origin[r] /\ started'[r] = started[r] /\ batchRun'[r] = batchRun[r]
    BY <2>1, <2>3 DEF TypeOK
  <2>5. \A r \in Run : (Web(r)' => r # q /\ Web(r)) /\ (Web(r) => r # q /\ Web(r)')
    BY <2>3, <2>4 DEF Web
  <2>6. \A r \in Run : NoTimeout(unsent, r) /\ NoTimeout(stream, r) =>
          (NoTimeout(unsent, r) /\ NoTimeout(stream, r))'
    <3>1. PICK e \in Event : e.kind = "requested" /\ stream' = Append(stream, e)
      BY <2>1, <2>3, EventTypes
    <3> QED BY <1>0, <2>2, <3>1, Queues DEF NoTimeout, IsTimeout
  <2>7. \A i \in Instance : task[i].hanging \subseteq Run
    BY DEF TypeOK
  <2>8. LockInv'
    BY <2>2, <2>4, <2>5, <2>6, <2>7 DEF LockInv
  <2>9. OneFetchAtATime'
    BY <2>4, <2>5 DEF OneFetchAtATime
  <2> QED BY <2>8, <2>9
<1>16. ASSUME NEW r \in Run, BatchEnd(r) PROVE LockInv' /\ OneFetchAtATime'
  BY <1>9, <1>16 DEF BatchEnd, TypeOK, NoTimeout, Failures
<1>17. CASE Tick
  <2>1. now' = now + 1 /\ UNCHANGED <<origin, started, batchRun, unsent, stream, lock, task>>
    BY <1>17 DEF Tick
  <2>2. LockInv'
    BY <1>0, <2>1 DEF LockInv, Web, NoTimeout
  <2> QED BY <2>1, <2>2 DEF OneFetchAtATime, Web
<1>18. ASSUME NEW r \in Run, NEW n \in 2..4, NEW full \in BOOLEAN, Emit(r, n, full)
       PROVE  LockInv' /\ OneFetchAtATime'
  BY <1>14, <1>18, EmitEmits
<1>19. ASSUME NEW r \in Run, NEW kind \in Failures, EmitFailure(r, kind) PROVE LockInv' /\ OneFetchAtATime'
  BY <1>14, <1>19, EmitEmits
<1> QED BY <1>1, <1>3, <1>4, <1>5, <1>7, <1>8, <1>10, <1>11, <1>12, <1>13, <1>15, <1>16, <1>17, <1>18, <1>19 DEF Next

------------------------------------------------------------------------------
(* One timeout of a run.                                                    *)

\* Every step keeps a run to one timeout, and closed from then on.
LEMMA NextTimeouts ==
  ASSUME TypeOK, RunInv, TimeoutInv, LockInv, TablesAgree, [Next]_vars
  PROVE  TimeoutInv'
<1> USE DEF runs, table
<1>0. /\ unsent \in Seq(Event) /\ stream \in Seq(Event) /\ Len(unsent) \in Nat /\ Len(stream) \in Nat
      /\ \A k \in 1..Len(unsent) : unsent[k].run \in Run
      /\ \A k \in 1..Len(stream) : stream[k].run \in Run
  <2>1. unsent \in Seq(Event) /\ stream \in Seq(Event)
    BY DEF TypeOK
  <2> QED BY <2>1, Queues
<1>1. CASE Quiet
  BY <1>1 DEF Quiet, TimeoutInv, Once, NoTimeout, Closed
<1>2. ASSUME UNCHANGED <<unsent, stream>>, \A r \in Run : Closed(r) => Closed(r)' PROVE TimeoutInv'
  BY <1>0, <1>2 DEF TimeoutInv, Once, NoTimeout
<1>3. ASSUME NEW r \in New, batchRun' = [batchRun EXCEPT ![r] = "running"]
      PROVE  /\ \A k \in 1..Len(unsent) : Closed(unsent[k].run) => batchRun'[unsent[k].run] \notin {"none", "running"}
             /\ \A k \in 1..Len(stream) : Closed(stream[k].run) => batchRun'[stream[k].run] \notin {"none", "running"}
  BY <1>0, <1>3, NewRun DEF Closed, TypeOK
<1>4. ASSUME NEW i \in Instance, Create(i) PROVE TimeoutInv'
  <2>1. PICK r \in New :
          /\ batchRun' = [batchRun EXCEPT ![r] = "running"]
          /\ unsent' = Append(unsent, [run |-> r, kind |-> "requested", at |-> now, full |-> FALSE])
    BY <1>4 DEF Create
  <2>2. r \in Run
    BY NewRun
  <2>3. PICK e \in Event : e.kind = "requested" /\ unsent' = Append(unsent, e)
    BY <2>1, <2>2, EventTypes
  <2>4. /\ Len(unsent') = Len(unsent) + 1 /\ ~IsTimeout(unsent'[Len(unsent) + 1])
        /\ \A k \in 1..Len(unsent) : unsent'[k] = unsent[k]
    BY <1>0, <2>3, Queues DEF IsTimeout
  <2>5. stream' = stream
    BY <1>4 DEF Create
  <2>6. Once(unsent)' /\ Once(stream)'
    BY <1>0, <2>4, <2>5 DEF TimeoutInv, Once, IsTimeout
  <2>7. \A k \in 1..Len(unsent') : IsTimeout(unsent'[k]) =>
          k \in 1..Len(unsent) /\ unsent'[k] = unsent[k] /\ Closed(unsent[k].run) /\ NoTimeout(stream, unsent[k].run)
    <3>1. \A k \in 1..Len(unsent') : k \in 1..Len(unsent) \/ k = Len(unsent) + 1
      BY <1>0, <2>4
    <3> QED BY <2>4, <3>1 DEF TimeoutInv
  <2>8. \A k \in 1..Len(unsent') : IsTimeout(unsent'[k]) =>
          batchRun'[unsent'[k].run] \notin {"none", "running"} /\ NoTimeout(stream', unsent'[k].run)
    BY <1>3, <2>1, <2>5, <2>7
  <2>9. \A k \in 1..Len(stream') : IsTimeout(stream'[k]) => batchRun'[stream'[k].run] \notin {"none", "running"}
    BY <1>3, <2>1, <2>5 DEF TimeoutInv
  <2> QED BY <2>6, <2>8, <2>9 DEF TimeoutInv, NoTimeout, Closed, IsTimeout
<1>5. ASSUME NEW i \in Instance, CheckFail(i) PROVE TimeoutInv'
  <2>1. PICK events : events = {TimeoutOf(r) : r \in task[i].hanging}
    OBVIOUS
  <2>2. /\ Tell(events) /\ \A e \in events : origin[e.run] # "none"
        /\ task[i].hanging \in SUBSET Run /\ UNCHANGED <<origin, stream>>
    BY <1>5, <2>1, CheckTells, ToldHaveBegun DEF CheckFail
  <2>3. \A r \in Run : Closed(r) => Closed(r)'
    BY <2>2, TellKeepsStory DEF Closed
  <2>4. \A r \in task[i].hanging : Web(r) /\ NoTimeout(unsent, r) /\ NoTimeout(stream, r)
    BY <1>5 DEF CheckFail, LockInv
  <2>5. \A r \in task[i].hanging : Closed(r)'
    <3> SUFFICES ASSUME NEW r \in task[i].hanging PROVE Closed(r)'
      OBVIOUS
    <3>1. \A t : TimeoutOf(t).run = t /\ StatusOf(TimeoutOf(t)) = "failed" /\ TimeoutOf(t).kind = "timeout"
      BY DEF TimeoutOf, StatusOf
    <3>2. r \in Run /\ Web(r) /\ batchRun[r] # "none"
      BY <2>2, <2>4 DEF RunInv, Web
    <3>3. PICK e \in events : e.run = r /\ Follows(r, e)
      <4>1. Hit(events, r)
        BY <2>1, <3>1 DEF Hit
      <4> QED BY <2>2, <3>2, <4>1, ToldItsOwn
    <3>4. StatusOf(e) = "failed" /\ e.kind = "timeout"
      BY <2>1, <3>1
    <3> QED BY <3>2, <3>3, <3>4 DEF Follows, Result, Failures, Closed
  <2>6. PICK n \in Nat :
          /\ Len(unsent') = Len(unsent) + n
          /\ \A k \in 1..Len(unsent) : unsent'[k] = unsent[k]
          /\ \A k \in (Len(unsent) + 1)..Len(unsent') : unsent'[k].run \in task[i].hanging
          /\ \A j, k \in (Len(unsent) + 1)..Len(unsent') : unsent'[j].run = unsent'[k].run => j = k
    BY <1>5, TimeoutsAdded
  <2>7. \A k \in 1..Len(unsent') : k \in 1..Len(unsent) \/ k \in (Len(unsent) + 1)..Len(unsent')
    BY <1>0, <2>6
  <2>8. Once(unsent)'
    <3> SUFFICES ASSUME NEW j \in 1..Len(unsent'), NEW k \in 1..Len(unsent'), IsTimeout(unsent'[j]),
                        IsTimeout(unsent'[k]), unsent'[j].run = unsent'[k].run
                 PROVE  j = k
      BY DEF Once, IsTimeout
    <3>1. CASE j \in 1..Len(unsent) /\ k \in 1..Len(unsent)
      BY <2>6, <3>1 DEF TimeoutInv, Once
    <3>2. CASE j \in 1..Len(unsent) /\ k \in (Len(unsent) + 1)..Len(unsent')
      BY <2>4, <2>6, <3>2 DEF NoTimeout
    <3>3. CASE j \in (Len(unsent) + 1)..Len(unsent') /\ k \in 1..Len(unsent)
      BY <2>4, <2>6, <3>3 DEF NoTimeout
    <3>4. CASE j \in (Len(unsent) + 1)..Len(unsent') /\ k \in (Len(unsent) + 1)..Len(unsent')
      BY <2>6, <3>4
    <3> QED BY <2>7, <3>1, <3>2, <3>3, <3>4
  <2>9. \A k \in 1..Len(unsent') : IsTimeout(unsent'[k]) => batchRun'[unsent'[k].run] \notin {"none", "running"} /\ NoTimeout(stream, unsent'[k].run)
    <3> SUFFICES ASSUME NEW k \in 1..Len(unsent'), IsTimeout(unsent'[k])
                 PROVE  batchRun'[unsent'[k].run] \notin {"none", "running"} /\ NoTimeout(stream, unsent'[k].run)
      OBVIOUS
    <3>1. PICK r : r = unsent'[k].run
      OBVIOUS
    <3>2. CASE k \in 1..Len(unsent)
      BY <1>0, <2>3, <2>6, <3>1, <3>2 DEF TimeoutInv, Closed
    <3>3. CASE k \in (Len(unsent) + 1)..Len(unsent')
      BY <2>4, <2>5, <2>6, <3>1, <3>3 DEF Closed
    <3> QED BY <2>7, <3>2, <3>3
  <2>10. \A k \in 1..Len(stream) : IsTimeout(stream[k]) => batchRun'[stream[k].run] \notin {"none", "running"}
    BY <1>0, <2>3 DEF TimeoutInv, Closed
  <2> QED BY <2>2, <2>8, <2>9, <2>10 DEF TimeoutInv, Once, NoTimeout, Closed, IsTimeout
<1>6. ASSUME NEW k \in 1..Len(stream), Dispatch(k) PROVE TimeoutInv'
  <2>1. PICK events : events = {stream[k]}
    OBVIOUS
  <2>2. Tell(events) /\ \A e \in events : origin[e.run] # "none"
    BY <1>6, <2>1, DispatchTells, ToldHaveBegun
  <2>3. \A r \in Run : Closed(r) => Closed(r)'
    BY <1>6, <2>2, TellKeepsStory DEF Closed, Dispatch
  <2> QED BY <1>2, <1>6, <2>3 DEF Dispatch
<1>7. CASE Flush
  <2>1. unsent # <<>> /\ stream' = Append(stream, Head(unsent)) /\ unsent' = Tail(unsent) /\ batchRun' = batchRun
    BY <1>7 DEF Flush
  <2>2. /\ Len(unsent) > 0 /\ Len(unsent') = Len(unsent) - 1 /\ Len(stream') = Len(stream) + 1
        /\ \A k \in 1..Len(unsent') : unsent'[k] = unsent[k + 1]
        /\ \A k \in 1..Len(stream) : stream'[k] = stream[k]
        /\ stream'[Len(stream) + 1] = unsent[1]
    BY <1>0, <2>1, Queues
  <2>3. Once(unsent)'
    BY <1>0, <2>2 DEF TimeoutInv, Once, IsTimeout
  <2>4. Once(stream)'
    <3> SUFFICES ASSUME NEW j \in 1..Len(stream'), NEW k \in 1..Len(stream'), IsTimeout(stream'[j]),
                        IsTimeout(stream'[k]), stream'[j].run = stream'[k].run
                 PROVE  j = k
      BY DEF Once, IsTimeout
    <3>1. /\ j \in 1..Len(stream) \/ j = Len(stream) + 1
          /\ k \in 1..Len(stream) \/ k = Len(stream) + 1
      BY <1>0, <2>2
    <3>2. CASE j \in 1..Len(stream) /\ k \in 1..Len(stream)
      BY <2>2, <3>2 DEF TimeoutInv, Once
    <3>3. IsTimeout(unsent[1]) => NoTimeout(stream, unsent[1].run)
      BY <1>0, <2>2 DEF TimeoutInv
    <3>4. CASE j \in 1..Len(stream) /\ k = Len(stream) + 1
      BY <2>2, <3>3, <3>4 DEF NoTimeout
    <3>5. CASE j = Len(stream) + 1 /\ k \in 1..Len(stream)
      BY <2>2, <3>3, <3>5 DEF NoTimeout
    <3> QED BY <3>1, <3>2, <3>4, <3>5
  <2>5. \A k \in 1..Len(unsent') : IsTimeout(unsent'[k]) => Closed(unsent'[k].run) /\ NoTimeout(stream', unsent'[k].run)
    <3> SUFFICES ASSUME NEW k \in 1..Len(unsent'), IsTimeout(unsent'[k])
                 PROVE  Closed(unsent'[k].run) /\ NoTimeout(stream', unsent'[k].run)
      OBVIOUS
    <3>1. k + 1 \in 1..Len(unsent) /\ 1 \in 1..Len(unsent) /\ unsent'[k] = unsent[k + 1] /\ k + 1 # 1
      BY <1>0, <2>2
    <3>2. Closed(unsent'[k].run) /\ NoTimeout(stream, unsent'[k].run)
      BY <3>1 DEF TimeoutInv
    <3>3. IsTimeout(unsent[1]) => unsent[1].run # unsent'[k].run
      BY <3>1 DEF TimeoutInv, Once
    <3> QED BY <1>0, <2>2, <3>2, <3>3 DEF NoTimeout
  <2>6. \A k \in 1..Len(stream') : IsTimeout(stream'[k]) => Closed(stream'[k].run)
    BY <1>0, <2>2, SMTT(30) DEF TimeoutInv
  <2> QED BY <2>1, <2>3, <2>4, <2>5, <2>6 DEF TimeoutInv, Closed
<1>8. ASSUME NEW e \in Event, ~IsTimeout(e), stream' = Append(stream, e), unsent' = unsent,
             \A k \in 1..Len(unsent) : Closed(unsent[k].run) => batchRun'[unsent[k].run] \notin {"none", "running"},
             \A k \in 1..Len(stream) : Closed(stream[k].run) => batchRun'[stream[k].run] \notin {"none", "running"}
      PROVE  TimeoutInv'
  <2>1. /\ Len(stream') = Len(stream) + 1 /\ ~IsTimeout(stream'[Len(stream) + 1])
        /\ \A k \in 1..Len(stream) : stream'[k] = stream[k]
    BY <1>0, <1>8, Queues
  <2>2. Once(unsent)' /\ Once(stream)'
    BY <1>0, <1>8, <2>1 DEF TimeoutInv, Once
  <2>3. \A r : NoTimeout(stream, r) => NoTimeout(stream', r)
    BY <1>0, <2>1 DEF NoTimeout
  <2> QED BY <1>0, <1>8, <2>1, <2>2, <2>3 DEF TimeoutInv, Closed
<1>9. ASSUME NEW e \in Event, Emits(e) PROVE TimeoutInv'
  BY <1>8, <1>9 DEF Emits, IsTimeout, Closed
<1>10. CASE BatchStart
  <2>1. PICK r \in New :
          /\ batchRun' = [batchRun EXCEPT ![r] = "running"]
          /\ stream' = Append(stream, [run |-> r, kind |-> "requested", at |-> now, full |-> FALSE])
    BY <1>10 DEF BatchStart
  <2>2. r \in Run /\ unsent' = unsent
    BY <1>10, NewRun DEF BatchStart
  <2>3. PICK e \in Event : e.kind = "requested" /\ stream' = Append(stream, e)
    BY <2>1, <2>2, EventTypes
  <2> QED BY <1>3, <1>8, <2>1, <2>2, <2>3 DEF IsTimeout
<1>11. ASSUME NEW r \in Run, BatchEnd(r) PROVE TimeoutInv'
  <2>1. \A q \in Run : Closed(q) => Closed(q)'
    BY <1>11 DEF BatchEnd, Closed, TypeOK, Failures
  <2> QED BY <1>2, <1>11, <2>1 DEF BatchEnd
<1> QED BY <1>1, <1>4, <1>5, <1>6, <1>7, <1>9, <1>10, <1>11, StepCases

------------------------------------------------------------------------------
(* The counters.                                                            *)

\* A delivered run was counted.
Delivers(r) == Web(r) /\ batchRun[r] \in {"success", "partial"}

\* An event more in the stream disturbs no count.
LEMMA AppendKeepsCount ==
  ASSUME TypeOK, CountInv, CountsRight, NEW e \in Event, stream' = Append(stream, e),
         UNCHANGED <<inbox, held, universe, scored>>,
         \A k \in 1..Len(unsent') : unsent'[k].kind \in {"requested", "timeout"},
         \A r \in Run : Delivers(r)' => Delivers(r) /\ batchRun'[r] = batchRun[r],
         e.kind = "scored" => ~Sent(e.run, {"scored"}),
         e.kind = "reported" => Sent(e.run, {"scored"})
  PROVE  CountInv' /\ CountsRight'
<1>1. /\ Len(stream) \in Nat /\ Len(stream') = Len(stream) + 1 /\ stream'[Len(stream) + 1] = e
      /\ \A k \in 1..Len(stream) : stream'[k] = stream[k]
      /\ inbox \subseteq 1..Len(stream) /\ held \subseteq 1..Len(stream)
      /\ \A k \in 1..Len(stream') : k \in 1..Len(stream) \/ k = Len(stream) + 1
      /\ \A k \in 1..Len(stream) : k \in 1..Len(stream') /\ k < Len(stream) + 1
  BY Queues DEF TypeOK
<1>2. \A r : Undisturbed(r)' => Undisturbed(r)
  BY <1>1 DEF Undisturbed
<1>3. \A r \in Run, j, k \in 1..Len(stream') : Scores(stream'[j], r) /\ Scores(stream'[k], r) => j = k
  BY <1>1 DEF CountInv, Scores, Sent
<1>4. \A k \in inbox', r \in Run : Scores(stream'[k], r) /\ Undisturbed(r)' =>
        universe'[r] /\ scored'[r] = IF stream'[k].full THEN "all" ELSE "some"
  BY <1>1, <1>2 DEF CountInv
<1>5. \A j \in 1..Len(stream') : stream'[j].kind = "reported" =>
        \E k \in 1..(j - 1) : Scores(stream'[k], stream'[j].run)
  <2> SUFFICES ASSUME NEW j \in 1..Len(stream'), stream'[j].kind = "reported"
               PROVE  \E k \in 1..(j - 1) : Scores(stream'[k], stream'[j].run)
    OBVIOUS
  <2>1. CASE j \in 1..Len(stream)
    <3>1. PICK k \in 1..(j - 1) : Scores(stream[k], stream[j].run)
      BY <1>1, <2>1 DEF CountInv
    <3>2. k \in 1..Len(stream)
      BY <1>1, <2>1
    <3> QED BY <1>1, <2>1, <3>1, <3>2
  <2>2. CASE j = Len(stream) + 1
    <3>1. PICK k \in 1..Len(stream) : Scores(stream[k], e.run)
      BY <1>1, <2>2 DEF Sent, Scores
    <3> QED BY <1>1, <2>2, <3>1
  <2> QED BY <1>1, <2>1, <2>2
<1>6. \A r \in Run : Delivers(r)' => \E k \in 1..Len(stream') : Scores(stream'[k], r)
  <2> SUFFICES ASSUME NEW r \in Run, Delivers(r)' PROVE \E k \in 1..Len(stream') : Scores(stream'[k], r)
    OBVIOUS
  <2>1. PICK k \in 1..Len(stream) : Scores(stream[k], r)
    BY DEF CountInv, Delivers
  <2> QED BY <1>1, <2>1
<1>7. \A r \in Run, k \in 1..Len(stream') : Delivers(r)' /\ Scores(stream'[k], r) /\ Undisturbed(r)' =>
        /\ batchRun'[r] = "success" => stream'[k].full
        /\ batchRun'[r] = "partial" => ~stream'[k].full
  <2> SUFFICES ASSUME NEW r \in Run, NEW k \in 1..Len(stream'), Delivers(r)', Scores(stream'[k], r), Undisturbed(r)'
               PROVE  /\ batchRun'[r] = "success" => stream'[k].full
                      /\ batchRun'[r] = "partial" => ~stream'[k].full
    OBVIOUS
  <2>1. Delivers(r) /\ Undisturbed(r) /\ batchRun'[r] = batchRun[r]
    BY <1>2
  <2>2. CASE k \in 1..Len(stream)
    BY <1>1, <2>1, <2>2 DEF CountsRight, Delivers, Undisturbed, Scores
  <2>3. CASE k = Len(stream) + 1
    BY <1>1, <2>1, <2>3 DEF CountInv, Delivers, Scores, Sent
  <2> QED BY <1>1, <2>2, <2>3
<1>8. CountInv'
  BY <1>3, <1>4, <1>5, <1>6 DEF CountInv, Delivers, Scores
<1>9. CountsRight'
  BY <1>7 DEF CountsRight, Delivers, Undisturbed, Scores
<1> QED BY <1>8, <1>9

\* Every step keeps the counters with their events, and a delivered run as they say.
LEMMA NextCounts ==
  ASSUME TypeOK, RunInv, LockInv, TablesAgree, CountInv, CountsRight, [Next]_vars
  PROVE  CountInv' /\ CountsRight'
<1> USE DEF runs, table
<1>0. /\ unsent \in Seq(Event) /\ stream \in Seq(Event) /\ Len(unsent) \in Nat /\ Len(stream) \in Nat
      /\ \A k \in 1..Len(stream) : stream[k] \in Event /\ stream[k].run \in Run
      /\ inbox \subseteq 1..Len(stream) /\ held \subseteq 1..Len(stream)
  BY Queues DEF TypeOK
<1>1. CASE Quiet
  <2>1. /\ UNCHANGED <<origin, batchRun, universe, scored, unsent, stream>>
        /\ held \subseteq held' /\ inbox' \subseteq inbox \cup held
    BY <1>1 DEF Quiet
  <2>2. \A r \in Run : Undisturbed(r)' => Undisturbed(r)
    BY <2>1 DEF Undisturbed
  <2>3. \A k \in inbox', r \in Run : Scores(stream[k], r) /\ Undisturbed(r)' => k \in inbox
    BY <2>1 DEF Undisturbed, Scores
  <2>4. CountInv'
    BY <2>1, <2>2, <2>3 DEF CountInv, Web, Scores
  <2>5. CountsRight'
    BY <2>1, <2>2 DEF CountsRight, Web, Undisturbed
  <2> QED BY <2>4, <2>5
<1>2. ASSUME NEW r \in New, NEW o \in {"manual", "scheduled", "batch"},
             origin' = [origin EXCEPT ![r] = o], batchRun' = [batchRun EXCEPT ![r] = "running"]
      PROVE  \A q \in Run : Delivers(q)' => Delivers(q) /\ batchRun'[q] = batchRun[q]
  BY <1>2, NewRun DEF Delivers, Web, TypeOK
<1>3. ASSUME NEW i \in Instance, Create(i) PROVE CountInv' /\ CountsRight'
  <2>1. PICK r \in New :
          /\ origin' = [origin EXCEPT ![r] = task[i].does]
          /\ batchRun' = [batchRun EXCEPT ![r] = "running"]
          /\ unsent' = Append(unsent, [run |-> r, kind |-> "requested", at |-> now, full |-> FALSE])
    BY <1>3 DEF Create
  <2>2. UNCHANGED <<stream, inbox, held, universe, scored>> /\ task[i].does \in {"manual", "scheduled"}
    BY <1>3 DEF Create
  <2>3. PICK e \in Event : e.kind = "requested" /\ unsent' = Append(unsent, e)
    <3>1. r \in Run
      BY NewRun
    <3> QED BY <2>1, <3>1, EventTypes
  <2>4. \A k \in 1..Len(unsent') : unsent'[k].kind \in {"requested", "timeout"}
    BY <1>0, <2>3, Queues DEF CountInv
  <2>5. \A q \in Run : Delivers(q)' => Delivers(q) /\ batchRun'[q] = batchRun[q]
    BY <1>2, <2>1, <2>2
  <2>6. CountInv'
    BY <2>2, <2>4, <2>5 DEF CountInv, Delivers, Scores, Undisturbed
  <2>7. CountsRight'
    BY <2>2, <2>5 DEF CountsRight, Delivers
  <2> QED BY <2>6, <2>7
<1>4. ASSUME NEW i \in Instance, CheckFail(i) PROVE CountInv' /\ CountsRight'
  <2>1. PICK events : events = {TimeoutOf(r) : r \in task[i].hanging}
    OBVIOUS
  <2>2. Tell(events) /\ UNCHANGED <<origin, stream, inbox, held>>
    BY <1>4, <2>1, CheckTells DEF CheckFail
  <2>3. \A e \in events : e.kind = "timeout" /\ StatusOf(e) = "failed"
    BY <2>1 DEF TimeoutOf, StatusOf
  <2>4. \A r \in Run : /\ universe'[r] = universe[r] /\ scored'[r] = scored[r]
                       /\ batchRun'[r] = batchRun[r] \/ batchRun'[r] = "failed"
    <3> SUFFICES ASSUME NEW r \in Run
                 PROVE  /\ universe'[r] = universe[r] /\ scored'[r] = scored[r]
                        /\ batchRun'[r] = batchRun[r] \/ batchRun'[r] = "failed"
      OBVIOUS
    <3>1. CASE Untouched(r)
      BY <3>1 DEF Untouched
    <3>2. ASSUME NEW e \in events, Follows(r, e)
          PROVE  /\ universe'[r] = universe[r] /\ scored'[r] = scored[r]
                 /\ batchRun'[r] = batchRun[r] \/ batchRun'[r] = "failed"
      <4>1. universe[r] \in BOOLEAN
        BY DEF TypeOK
      <4> QED BY <2>3, <3>2, <4>1 DEF Follows
    <3> QED BY <2>2, <3>1, <3>2, ToldItsOwn
  <2>5. \A k \in 1..Len(unsent') : unsent'[k].kind \in {"requested", "timeout"}
    <3>1. /\ Len(unsent') \in Nat /\ \A k \in 1..Len(unsent) : unsent'[k] = unsent[k]
          /\ \A k \in (Len(unsent) + 1)..Len(unsent') : unsent'[k].kind = "timeout"
      BY <1>4, TimeoutsAdded
    <3>2. \A k \in 1..Len(unsent') : k \in 1..Len(unsent) \/ k \in (Len(unsent) + 1)..Len(unsent')
      BY <1>0, <3>1
    <3> QED BY <3>1, <3>2 DEF CountInv
  <2>6. CountInv'
    BY <2>2, <2>4, <2>5 DEF CountInv, Web, Scores, Undisturbed
  <2>7. CountsRight'
    BY <2>2, <2>4 DEF CountsRight, Web
  <2> QED BY <2>6, <2>7
<1>5. ASSUME NEW n \in 1..Len(stream), Dispatch(n) PROVE CountInv' /\ CountsRight'
  <2>1. PICK events, e : events = {e} /\ e = stream[n]
    OBVIOUS
  <2>2. /\ Tell(events) /\ e \in Event /\ UNCHANGED <<origin, unsent, stream, held>>
        /\ inbox' = inbox \cup {n} /\ Delivered(n)
    BY <1>5, <2>1, DispatchTells DEF Dispatch
  <2>3. /\ \A r \in Run : r # e.run => Untouched(r)
        /\ e.run \in Run /\ Follows(e.run, e)
    <3>1. e.run \in Run
      BY <2>2, StatusType
    <3>2. ASSUME NEW r \in Run, r # e.run PROVE Untouched(r)
      BY <2>1, <2>2, <3>2, ToldItsOwn
    <3>3. Hit(events, e.run)
      BY <2>1 DEF Hit
    <3>4. Follows(e.run, e)
      BY <2>1, <2>2, <3>1, <3>3, ToldItsOwn
    <3> QED BY <3>1, <3>2, <3>4
  <2>4. \A r \in Run : Undisturbed(r)' <=> Undisturbed(r)
    BY <2>2 DEF Undisturbed
  <2>5. \A k \in inbox', r \in Run : Scores(stream[k], r) /\ Undisturbed(r) =>
          universe'[r] /\ scored'[r] = IF stream[k].full THEN "all" ELSE "some"
    <3> SUFFICES ASSUME NEW k \in inbox', NEW r \in Run, Scores(stream[k], r), Undisturbed(r)
                 PROVE  universe'[r] /\ scored'[r] = IF stream[k].full THEN "all" ELSE "some"
      OBVIOUS
    <3>1. CASE r # e.run
      BY <2>1, <2>2, <2>3, <3>1 DEF Untouched, CountInv, Scores
    <3>2. CASE r = e.run /\ e.kind = "scored"
      <4>1. k = n
        BY <1>0, <2>1, <2>2, <3>2 DEF CountInv, Scores
      <4> QED BY <2>1, <2>3, <3>2, <4>1 DEF Follows
    <3>3. CASE r = e.run /\ e.kind # "scored"
      <4>1. k \in inbox
        BY <2>1, <2>2, <3>3 DEF Scores
      <4>2. universe[r] /\ scored[r] = IF stream[k].full THEN "all" ELSE "some"
        BY <4>1 DEF CountInv
      <4> QED BY <2>3, <3>3, <4>2 DEF Follows
    <3> QED BY <3>1, <3>2, <3>3
  <2>6. ASSUME NEW r \in Run, Web(r), batchRun'[r] \in {"success", "partial"}, batchRun'[r] # batchRun[r]
        PROVE  /\ r = e.run /\ e.kind = "reported"
               /\ batchRun'[r] = IF ~universe'[r] \/ scored'[r] = "all" THEN "success" ELSE "partial"
               /\ universe'[r] = universe[r] /\ scored'[r] = scored[r]
    <3>1. r = e.run
      BY <2>3, <2>6 DEF Untouched
    <3>2. StatusOf(e) \in Result /\ StatusOf(e) \in {"requested", "fetched", "scored", "reported", "failed", "no_data"}
      BY <2>2, <2>3, <2>6, <3>1, StatusType DEF Follows
    <3>3. e.kind = "reported"
      BY <2>3, <2>6, <3>1, <3>2 DEF Follows
    <3>4. universe[r] \in BOOLEAN
      BY DEF TypeOK
    <3> QED BY <2>3, <2>6, <3>1, <3>2, <3>3, <3>4 DEF Follows
  <2>7. \A r \in Run : Web(r) /\ batchRun'[r] \in {"success", "partial"} => \E k \in 1..Len(stream) : Scores(stream[k], r)
    <3> SUFFICES ASSUME NEW r \in Run, Web(r), batchRun'[r] \in {"success", "partial"}
                 PROVE  \E k \in 1..Len(stream) : Scores(stream[k], r)
      OBVIOUS
    <3>1. CASE batchRun'[r] = batchRun[r]
      BY <3>1 DEF CountInv
    <3>2. CASE batchRun'[r] # batchRun[r]
      BY <1>0, <2>1, <2>6, <3>2 DEF CountInv
    <3> QED BY <3>1, <3>2
  <2>8. CountInv'
    BY <2>2, <2>4, <2>5, <2>7 DEF CountInv, Web, Scores
  <2>9. ASSUME NEW r \in Run, NEW k \in 1..Len(stream), Web(r), Scores(stream[k], r), Undisturbed(r)
        PROVE  /\ batchRun'[r] = "success" => stream[k].full
               /\ batchRun'[r] = "partial" => ~stream[k].full
    <3>1. CASE batchRun'[r] = batchRun[r] \/ batchRun'[r] \notin {"success", "partial"}
      BY <2>9, <3>1 DEF CountsRight, Scores, Undisturbed
    <3>2. CASE batchRun'[r] # batchRun[r] /\ batchRun'[r] \in {"success", "partial"}
      <4>1. /\ r = e.run /\ e.kind = "reported"
            /\ batchRun'[r] = IF ~universe'[r] \/ scored'[r] = "all" THEN "success" ELSE "partial"
            /\ universe'[r] = universe[r] /\ scored'[r] = scored[r]
        BY <2>6, <2>9, <3>2
      <4>2. PICK j \in 1..(n - 1) : Scores(stream[j], r)
        BY <2>1, <4>1 DEF CountInv
      <4>3. j \in 1..Len(stream) /\ j = k
        BY <1>0, <2>9, <4>2 DEF CountInv
      <4>4. k \in inbox
        BY <2>2, <2>9, <4>2, <4>3 DEF Delivered, Undisturbed, Scores
      <4>5. universe[r] /\ scored[r] = IF stream[k].full THEN "all" ELSE "some"
        BY <2>9, <4>4 DEF CountInv
      <4> QED BY <4>1, <4>5
    <3> QED BY <3>1, <3>2
  <2>10. CountsRight'
    BY <2>2, <2>9 DEF CountsRight, Web, Scores, Undisturbed
  <2> QED BY <2>8, <2>10
<1>6. CASE Flush
  <2>1. /\ unsent # <<>> /\ stream' = Append(stream, Head(unsent)) /\ unsent' = Tail(unsent)
        /\ UNCHANGED <<origin, batchRun, inbox, held, universe, scored>>
    BY <1>6 DEF Flush
  <2>2. PICK e \in Event : e = Head(unsent) /\ e.kind \in {"requested", "timeout"}
    BY <1>0, <2>1, Queues DEF CountInv
  <2>3. \A k \in 1..Len(unsent') : unsent'[k].kind \in {"requested", "timeout"}
    BY <1>0, <2>1, Queues DEF CountInv
  <2>4. \A q \in Run : Delivers(q)' => Delivers(q) /\ batchRun'[q] = batchRun[q]
    BY <2>1 DEF Delivers, Web
  <2> QED BY <2>1, <2>2, <2>3, <2>4, AppendKeepsCount
<1>7. ASSUME NEW e \in Event, Emits(e) PROVE CountInv' /\ CountsRight'
  <2>1. \A q \in Run : Delivers(q)' => Delivers(q) /\ batchRun'[q] = batchRun[q]
    BY <1>7 DEF Emits, Delivers, Web
  <2> QED BY <1>7, <2>1, AppendKeepsCount DEF Emits, CountInv
<1>8. CASE BatchStart
  <2>1. PICK r \in New :
          /\ origin' = [origin EXCEPT ![r] = "batch"]
          /\ batchRun' = [batchRun EXCEPT ![r] = "running"]
          /\ stream' = Append(stream, [run |-> r, kind |-> "requested", at |-> now, full |-> FALSE])
    BY <1>8 DEF BatchStart
  <2>2. UNCHANGED <<unsent, inbox, held, universe, scored>>
    BY <1>8 DEF BatchStart
  <2>3. PICK e \in Event : e.kind = "requested" /\ stream' = Append(stream, e)
    <3>1. r \in Run
      BY NewRun
    <3> QED BY <2>1, <3>1, EventTypes
  <2>4. \A q \in Run : Delivers(q)' => Delivers(q) /\ batchRun'[q] = batchRun[q]
    BY <1>2, <2>1
  <2> QED BY <2>2, <2>3, <2>4, AppendKeepsCount DEF CountInv
<1>9. ASSUME NEW r \in Run, BatchEnd(r) PROVE CountInv' /\ CountsRight'
  <2>1. UNCHANGED <<origin, unsent, stream, inbox, held, universe, scored>> /\ origin[r] = "batch"
        /\ \A q \in Run : q # r => batchRun'[q] = batchRun[q]
    BY <1>9 DEF BatchEnd, TypeOK
  <2>2. \A q \in Run : Web(q) => batchRun'[q] = batchRun[q]
    BY <2>1 DEF Web
  <2>3. CountInv'
    BY <2>1, <2>2 DEF CountInv, Web, Scores, Undisturbed
  <2>4. CountsRight'
    BY <2>1, <2>2 DEF CountsRight, Web
  <2> QED BY <2>3, <2>4
<1> QED BY <1>1, <1>3, <1>4, <1>5, <1>6, <1>7, <1>8, <1>9, StepCases
------------------------------------------------------------------------------
(* The invariant and what follows from it.                                  *)

\* Every step keeps the invariant.
LEMMA NextInv == IInv /\ [Next]_vars => IInv'
<1> SUFFICES ASSUME IInv, [Next]_vars PROVE IInv'
  OBVIOUS
<1>1. TypeOK /\ RunInv /\ TimeoutInv /\ LockInv /\ CountInv /\ TablesAgree /\ CountsRight /\ OneFetchAtATime
  BY DEF IInv, TablesTell
<1>2. TypeOK'
  BY <1>1, NextType
<1>3. RunInv' /\ TablesAgree'
  BY <1>1, <1>2, NextRuns
<1>4. LockInv' /\ OneFetchAtATime'
  BY <1>1, NextLock
<1>5. TimeoutInv'
  BY <1>1, NextTimeouts
<1>6. CountInv' /\ CountsRight'
  BY <1>1, NextCounts
<1> QED BY <1>2, <1>3, <1>4, <1>5, <1>6 DEF IInv, TablesTell

\* The timeouts of a run in the outbox and in the stream are one at most.
LEMMA TimeoutsAreOne ==
  ASSUME TypeOK, TimeoutInv
  PROVE  OneTimeout
<1> SUFFICES ASSUME NEW r \in Run, NEW all, all = unsent \o stream
             PROVE  Cardinality({k \in 1..Len(all) : all[k].run = r /\ all[k].kind = "timeout"}) <= 1
  BY DEF OneTimeout
<1> DEFINE S == {k \in 1..Len(all) : all[k].run = r /\ all[k].kind = "timeout"}
<1>1. unsent \in Seq(Event) /\ stream \in Seq(Event) /\ Len(unsent) \in Nat /\ Len(stream) \in Nat
  BY DEF TypeOK
<1>2. /\ Len(all) = Len(unsent) + Len(stream)
      /\ \A k \in 1..Len(unsent) : all[k] = unsent[k]
      /\ \A k \in (Len(unsent) + 1)..Len(all) : all[k] = stream[k - Len(unsent)]
  BY <1>1
<1>3. \A k \in S : \/ k \in 1..Len(unsent) /\ unsent[k].run = r /\ IsTimeout(unsent[k])
                   \/ /\ k - Len(unsent) \in 1..Len(stream)
                      /\ stream[k - Len(unsent)].run = r /\ IsTimeout(stream[k - Len(unsent)])
  BY <1>1, <1>2 DEF IsTimeout
<1>4. \A j, k \in S : j = k
  <2> SUFFICES ASSUME NEW j \in S, NEW k \in S PROVE j = k
    OBVIOUS
  <2>1. j \in Nat /\ k \in Nat
    BY <1>1, <1>2
  <2> DEFINE InOutbox(n) == n \in 1..Len(unsent) /\ unsent[n].run = r /\ IsTimeout(unsent[n])
             InStream(n) == /\ n - Len(unsent) \in 1..Len(stream)
                            /\ stream[n - Len(unsent)].run = r /\ IsTimeout(stream[n - Len(unsent)])
  <2>2. (InOutbox(j) \/ InStream(j)) /\ (InOutbox(k) \/ InStream(k))
    BY <1>3
  <2>3. CASE InOutbox(j) /\ InOutbox(k)
    BY <2>3 DEF TimeoutInv, Once
  <2>4. CASE InStream(j) /\ InStream(k)
    <3>1. j - Len(unsent) = k - Len(unsent)
      BY <2>4 DEF TimeoutInv, Once
    <3> QED BY <1>1, <2>1, <3>1
  <2>5. ASSUME NEW m \in Nat, NEW n \in Nat, InOutbox(m), InStream(n) PROVE FALSE
    BY <2>5 DEF TimeoutInv, NoTimeout
  <2> QED BY <2>1, <2>2, <2>3, <2>4, <2>5
<1> HIDE DEF S
<1>5. S = {} \/ \E k \in S : S = {k}
  BY <1>4
<1>6. Cardinality(S) = 0 \/ Cardinality(S) = 1
  BY <1>5, FS_EmptySet, FS_Singleton
<1>7. Cardinality(S) <= 1
  BY <1>6
<1> QED BY <1>7 DEF S

\* The step of NeverBack.
OnlyForward ==
  \A r \in Run :
    /\ status[r] \in Failures => status'[r] = status[r]
    /\ status[r] \in Kind \ Failures =>
         \/ status'[r] \in Failures
         \/ status'[r] \in Kind /\ StageNo(status'[r]) >= StageNo(status[r])
    /\ batchRun[r] \notin {"none", "running"} => batchRun'[r] = batchRun[r]
    /\ lastAt'[r] >= lastAt[r]

\* What stays does not go back.
LEMMA StandingStill ==
  ASSUME TypeOK, UNCHANGED <<status, lastAt>>,
         \A r \in Run : Closed(r) => batchRun'[r] = batchRun[r]
  PROVE  OnlyForward
<1>1. \A r \in Run : lastAt[r] \in 0..MaxTime
  BY DEF TypeOK
<1>2. \A r \in Run : lastAt[r] >= lastAt[r]
  BY <1>1, Bounds
<1>3. \A r \in Run : status[r] \in {"none", "requested", "fetched", "scored", "reported", "failed", "no_data"}
  BY StagesInOrder DEF TypeOK, Failures
<1>4. \A r \in Run : status[r] \in Kind \ Failures => StageNo(status[r]) >= StageNo(status[r])
  BY <1>3, StagesInOrder DEF Failures
<1> QED BY <1>2, <1>4 DEF OnlyForward, Closed

\* Events that are told take no run back.
LEMMA TellingForward ==
  ASSUME TypeOK, RunInv, TablesAgree, NEW events, Tell(events), UNCHANGED origin,
         \A e \in events : origin[e.run] # "none"
  PROVE  OnlyForward
<1> SUFFICES ASSUME NEW r \in Run
             PROVE  /\ status[r] \in Failures => status'[r] = status[r]
                    /\ status[r] \in Kind \ Failures =>
                         \/ status'[r] \in Failures
                         \/ status'[r] \in Kind /\ StageNo(status'[r]) >= StageNo(status[r])
                    /\ batchRun[r] \notin {"none", "running"} => batchRun'[r] = batchRun[r]
                    /\ lastAt'[r] >= lastAt[r]
  BY DEF OnlyForward
<1>1. batchRun[r] \notin {"none", "running"} => batchRun'[r] = batchRun[r]
  BY TellKeepsStory
<1>2. /\ status[r] \in {"none", "requested", "fetched", "scored", "reported", "failed", "no_data"}
      /\ lastAt[r] \in Nat
  <2>1. status[r] \in {"none", "requested", "fetched", "scored", "reported", "failed", "no_data"}
    BY StagesInOrder DEF TypeOK, Failures
  <2>2. lastAt[r] \in 0..MaxTime
    BY DEF TypeOK
  <2> QED BY <2>1, <2>2, Bounds
<1>3. CASE Untouched(r)
  BY <1>1, <1>2, <1>3, StagesInOrder DEF Untouched, Failures
<1>4. ASSUME NEW e \in events, Follows(r, e)
      PROVE  /\ status[r] \in Failures => status'[r] = status[r]
             /\ status[r] \in Kind \ Failures =>
                  \/ status'[r] \in Failures
                  \/ status'[r] \in Kind /\ StageNo(status'[r]) >= StageNo(status[r])
             /\ lastAt'[r] >= lastAt[r]
  <2>1. e \in Event
    BY DEF Tell
  <2>2. /\ StatusOf(e) \in {"requested", "fetched", "scored", "reported", "failed", "no_data"}
        /\ e.at \in Nat
    BY <2>1, StatusType, Bounds
  <2>3. lastAt'[r] >= lastAt[r]
    BY <1>2, <1>4, <2>2 DEF Follows
  <2>4. status'[r] = IF status[r] = "none" \/ Advances(status[r], StatusOf(e)) THEN StatusOf(e) ELSE status[r]
    BY <1>4 DEF Follows
  <2> QED BY <1>2, <2>2, <2>3, <2>4, StagesInOrder DEF Advances, Failures
<1> QED BY <1>1, <1>3, <1>4, ToldItsOwn

\* No step takes a run back.
LEMMA NextForward ==
  ASSUME IInv, [Next]_vars
  PROVE  OnlyForward
<1> USE DEF runs, table
<1>0. TypeOK /\ RunInv /\ LockInv /\ TablesAgree
  BY DEF IInv, TablesTell
<1>1. CASE Quiet \/ Flush \/ \E e \in Event : Emits(e)
  BY <1>0, <1>1, StandingStill DEF Quiet, Flush, Emits
<1>2. CASE BatchStart \/ \E i \in Instance : Create(i)
  <2>1. PICK r \in New : batchRun' = [batchRun EXCEPT ![r] = "running"]
    BY <1>2 DEF Create, BatchStart
  <2>2. r \in Run /\ batchRun[r] = "none"
    BY <1>0, NewRun
  <2>3. \A q \in Run : Closed(q) => batchRun'[q] = batchRun[q]
    BY <1>0, <2>1, <2>2 DEF Closed, TypeOK
  <2>4. UNCHANGED <<status, lastAt>>
    BY <1>2 DEF Create, BatchStart
  <2> QED BY <1>0, <2>3, <2>4, StandingStill
<1>3. ASSUME NEW r \in Run, BatchEnd(r) PROVE OnlyForward
  <2>1. \A q \in Run : Closed(q) => batchRun'[q] = batchRun[q]
    BY <1>0, <1>3 DEF BatchEnd, Closed, TypeOK
  <2> QED BY <1>0, <1>3, <2>1, StandingStill DEF BatchEnd
<1>4. ASSUME NEW i \in Instance, CheckFail(i) PROVE OnlyForward
  <2>1. PICK events : events = {TimeoutOf(r) : r \in task[i].hanging}
    OBVIOUS
  <2>2. Tell(events) /\ UNCHANGED origin /\ \A e \in events : origin[e.run] # "none"
    BY <1>0, <1>4, <2>1, CheckTells, ToldHaveBegun DEF CheckFail
  <2> QED BY <1>0, <2>2, TellingForward
<1>5. ASSUME NEW k \in 1..Len(stream), Dispatch(k) PROVE OnlyForward
  <2>1. PICK events : events = {stream[k]}
    OBVIOUS
  <2>2. Tell(events) /\ UNCHANGED origin /\ \A e \in events : origin[e.run] # "none"
    BY <1>0, <1>5, <2>1, DispatchTells, ToldHaveBegun DEF Dispatch
  <2> QED BY <1>0, <2>2, TellingForward
<1> QED BY <1>0, <1>1, <1>2, <1>3, <1>4, <1>5, StepCases

\* The step of BatchClosesItsRuns.
LeavesBatchRuns ==
  \A r \in Run : origin[r] = "batch" /\ (inbox' # inbox \/ unsent' # unsent) => batchRun'[r] = batchRun[r]

\* No step of the web-api closes a run of the batch.
LEMMA NextLeavesBatchRuns ==
  ASSUME IInv, [Next]_vars
  PROVE  LeavesBatchRuns
<1> USE DEF runs, table
<1>0. TypeOK /\ RunInv
  BY DEF IInv
<1>1. CASE Quiet \/ Flush \/ \E e \in Event : Emits(e)
  BY <1>1 DEF Quiet, Flush, Emits, LeavesBatchRuns
<1>2. CASE BatchStart \/ \E r \in Run : BatchEnd(r)
  BY <1>2 DEF BatchStart, BatchEnd, LeavesBatchRuns
<1>3. ASSUME NEW i \in Instance, Create(i) PROVE LeavesBatchRuns
  <2>1. PICK r \in New : batchRun' = [batchRun EXCEPT ![r] = "running"]
    BY <1>3 DEF Create
  <2>2. origin[r] = "none"
    BY <1>0, NewRun
  <2> QED BY <1>0, <2>1, <2>2 DEF LeavesBatchRuns, TypeOK
<1>4. ASSUME NEW events, Tell(events) PROVE LeavesBatchRuns
  <2>1. ASSUME NEW r \in Run, origin[r] = "batch" PROVE batchRun'[r] = batchRun[r]
    <3>1. ~Web(r)
      BY <2>1 DEF Web
    <3> QED BY <1>0, <1>4, <3>1, ToldItsOwn DEF Follows, Untouched
  <2> QED BY <2>1 DEF LeavesBatchRuns
<1>5. ASSUME NEW i \in Instance, CheckFail(i) PROVE LeavesBatchRuns
  BY <1>0, <1>4, <1>5, CheckTells
<1>6. ASSUME NEW k \in 1..Len(stream), Dispatch(k) PROVE LeavesBatchRuns
  BY <1>0, <1>4, <1>6, DispatchTells
<1> QED BY <1>0, <1>1, <1>2, <1>3, <1>5, <1>6, StepCases

------------------------------------------------------------------------------
(* The theorems.                                                            *)

\* In every reachable state the inductive invariant of the runs holds, for any number
\* of runs, instances and faults (RunManager, EventManager.dispatch, projections).
THEOREM RunInvariant == Spec => []IInv
<1>1. Init => IInv
  BY InitInv
<1>2. IInv /\ [Next]_vars => IInv'
  BY NextInv
<1> QED BY <1>1, <1>2, PTL DEF Spec

\* The variables have their types: no event is projected that was not sent, no run is
\* spoken of that the sequence does not have.
THEOREM RunTypes == Spec => []TypeOK
<1>1. IInv => TypeOK
  BY DEF IInv
<1> QED BY <1>1, RunInvariant, PTL

\* run_status and batch.run of a run of the web-api tell one story, and a delivered run
\* is a success or partial as its scores say, whatever the order of deliveries, the
\* handed-back events, the watchdogs and the crashes (_update_run, close_run, _fail).
THEOREM TablesTellOfRuns == Spec => []TablesTell
<1>1. IInv => TablesTell
  BY DEF IInv
<1> QED BY <1>1, RunInvariant, PTL

\* Any number of watchdogs that tick, fail and tick again report a run once
\* (RunManager.check under pg_advisory_xact_lock).
THEOREM RunOneTimeout == Spec => []OneTimeout
<1>1. IInv => OneTimeout
  BY TimeoutsAreOne DEF IInv
<1> QED BY <1>1, RunInvariant, PTL

\* No manual run begins while one of the web-api is open and in its time, with any
\* number of instances (RunManager.start, _active under the lock).
THEOREM RunOneFetch == Spec => []OneFetchAtATime
<1>1. IInv => OneFetchAtATime
  BY DEF IInv
<1> QED BY <1>1, RunInvariant, PTL

\* No event, however late, takes a run back in either table (_advances, close_run, the
\* greatest of last_event_at).
THEOREM RunNeverBack == Spec => NeverBack
<1>1. IInv /\ [Next]_vars => [OnlyForward]_vars
  BY NextForward
<1> QED BY <1>1, RunInvariant, PTL DEF Spec, NeverBack, OnlyForward

\* No event and no watchdog of the web-api closes a run of the batch (close_run joins
\* run_request).
THEOREM RunLeavesBatch == Spec => BatchClosesItsRuns
<1>1. IInv /\ [Next]_vars => [LeavesBatchRuns]_vars
  BY NextLeavesBatchRuns
<1> QED BY <1>1, RunInvariant, PTL DEF Spec, BatchClosesItsRuns, LeavesBatchRuns
==============================================================================

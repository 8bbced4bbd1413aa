---------------------------- MODULE RunLifecycle -----------------------------
(***************************************************************************)
(* A screening run as the web-api sees it: it is created by a user, the    *)
(* scheduler or the batch, followed in web.run_status by the events of the *)
(* services, closed in batch.run by its first result, or failed by the     *)
(* watchdog.                                                               *)
(*                                                                         *)
(*   services/web-api/src/va_web_api/runs/{manager,schedule}.py            *)
(*   services/web-api/src/va_web_api/projections/__init__.py               *)
(*   services/web-api/src/va_web_api/events/__init__.py                    *)
(*                                                                         *)
(* The services are the environment: they send what their stage may send.  *)
(* Run ids ascend in the order of creation.  Of the payloads only whether  *)
(* every title of the universe got a score is kept.                        *)
(***************************************************************************)
EXTENDS Naturals, Sequences, FiniteSets

CONSTANTS NumRuns,      \* bound on runs
          Slot,         \* times of the cron schedule
          Instance,     \* processes of the web-api
          FetchLimit, ScoringLimit, ReportLimit,   \* WatchdogLimits
          Grace,        \* schedule.GRACE
          LastEvent,    \* bound: no run is created, no event sent later
          MaxEvents,    \* bound on the length of the stream when a service sends
          MaxFaults     \* bound on rolled-back transactions

ASSUME LifecycleAssumption ==
  /\ NumRuns \in Nat \ {0}
  /\ Slot \subseteq Nat
  /\ FetchLimit \in Nat /\ ScoringLimit \in Nat /\ ReportLimit \in Nat
  /\ Grace \in Nat /\ LastEvent \in Nat /\ MaxEvents \in Nat /\ MaxFaults \in Nat

Run == 1..NumRuns
Total == FetchLimit + ScoringLimit + ReportLimit
MaxTime == LastEvent + Total + 1

Failures == {"failed", "no_data"}
Stages == <<"requested", "fetched", "scored", "reported">>
StageNo(s) == CHOOSE n \in 1..4 : Stages[n] = s
Result == Failures \cup {"reported"}
FailureKind == Failures \cup {"timeout"}
Kind == {Stages[n] : n \in 1..4} \cup FailureKind
Event == [run : Run, kind : Kind, at : 0..MaxTime, full : BOOLEAN]

VARIABLES
  now,
  origin,     \* batch.run, web.run_request: who created the run
  started,    \* batch.run.started_at
  slotOf,     \* web.run_request.slot, as a set
  batchRun,   \* batch.run.status
  status,     \* web.run_status.status
  lastAt,     \* web.run_status.last_event_at
  universe,   \* web.run_status.universe_size is set
  scored,     \* web.run_status.scored_count: none, some or all of the universe
  unsent,     \* web.outbox
  stream,     \* VA_EVENTS
  inbox,      \* positions of the stream with an entry in web.inbox
  held,       \* positions that were handed back (nak) and wait for the retry
  lock,       \* pg_advisory_xact_lock: the instances that hold it
  task,       \* what an instance does under the lock
  faults

table == <<status, lastAt, universe, scored>>
runs == <<origin, started, slotOf>>
vars == <<now, origin, started, slotOf, batchRun, status, lastAt, universe, scored,
          unsent, stream, inbox, held, lock, task, faults>>

Task(does, slot, hanging) == [does |-> does, slot |-> slot, hanging |-> hanging]
NoTask == Task("nothing", {}, {})

Init ==
  /\ now = 0
  /\ origin = [r \in Run |-> "none"]
  /\ started = [r \in Run |-> 0]
  /\ slotOf = [r \in Run |-> {}]
  /\ batchRun = [r \in Run |-> "none"]
  /\ status = [r \in Run |-> "none"]
  /\ lastAt = [r \in Run |-> 0]
  /\ universe = [r \in Run |-> FALSE]
  /\ scored = [r \in Run |-> "none"]
  /\ unsent = <<>>
  /\ stream = <<>>
  /\ inbox = {}
  /\ held = {}
  /\ lock = {}
  /\ task = [i \in Instance |-> NoTask]
  /\ faults = 0

Fault == faults < MaxFaults /\ faults' = faults + 1

Web(r) == origin[r] \in {"manual", "scheduled"}   \* has a row in web.run_request
New == {r \in Run : origin[r] = "none" /\ \A s \in Run : s < r => origin[s] # "none"}
InBounds == New # {} /\ now <= LastEvent
Sent(r, kinds) == \E k \in 1..Len(stream) : stream[k].run = r /\ stream[k].kind \in kinds

------------------------------------------------------------------------------
(* The projections.  Each works on a set of events of different runs.       *)

StatusOf_Reason(e) == e.kind

\* The status of a failure is its reason only for no_data.
StatusOf(e) == IF e.kind = "timeout" THEN "failed" ELSE e.kind

Advances_LastWins(current, new) ==
  new \in Failures \/ current \in Failures \/ StageNo(new) >= StageNo(current)

\* _advances: the first failure stays; otherwise the stage only goes forward.
Advances(current, new) ==
  /\ current \notin Failures
  /\ new \in Failures \/ StageNo(new) >= StageNo(current)

EventOn(events, r) == CHOOSE e \in events : e.run = r
Hit(events, r) == \E e \in events : e.run = r

\* _update_run, for each run an event is about.
NewStatus(events, r) ==
  LET s == StatusOf(EventOn(events, r)) IN
    IF Hit(events, r) /\ (status[r] = "none" \/ Advances(status[r], s)) THEN s ELSE status[r]

NewLastAt(events, r) ==
  IF Hit(events, r) /\ EventOn(events, r).at >= lastAt[r]
    THEN EventOn(events, r).at ELSE lastAt[r]

NewUniverse(events, r) ==
  universe[r] \/ \E e \in events : e.run = r /\ e.kind \in {"fetched", "scored"}

NewScored_AllRows(events, r) ==
  IF \E e \in events : e.run = r /\ e.kind = "scored" THEN "all" ELSE scored[r]

NewScored(events, r) ==
  IF \E e \in events : e.run = r /\ e.kind = "scored"
    THEN IF EventOn(events, r).full THEN "all" ELSE "some"
    ELSE scored[r]

Project(events) ==
  /\ status' = [r \in Run |-> NewStatus(events, r)]
  /\ lastAt' = [r \in Run |-> NewLastAt(events, r)]
  /\ universe' = [r \in Run |-> NewUniverse(events, r)]
  /\ scored' = [r \in Run |-> NewScored(events, r)]

\* close_run: the status a result gives batch.run, from the counters in
\* run_status.  Without a universe nothing is missing.
Closing(events, r) ==
  LET e == EventOn(events, r) IN
    IF e.kind = "reported"
      THEN IF ~NewUniverse(events, r) \/ NewScored(events, r) = "all"
             THEN "success" ELSE "partial"
      ELSE StatusOf(e)

CloseRun_AnyRun(events) ==
  batchRun' = [r \in Run |->
    IF batchRun[r] = "running" /\ \E e \in events : e.run = r /\ StatusOf(e) \in Result
      THEN Closing(events, r) ELSE batchRun[r]]

\* Runs of the web-api only, and only while batch.run is open.
CloseRun(events) ==
  batchRun' = [r \in Run |->
    IF /\ Web(r) /\ batchRun[r] = "running"
       /\ \E e \in events : e.run = r /\ StatusOf(e) \in Result
      THEN Closing(events, r) ELSE batchRun[r]]

------------------------------------------------------------------------------
(* RunManager.start and RunManager.schedule, under the lock.                *)

Work(i, t) ==
  /\ lock' = lock \cup {i}
  /\ task' = [task EXCEPT ![i] = t]

Leave(i) ==
  /\ lock' = lock \ {i}
  /\ task' = [task EXCEPT ![i] = NoTask]

\* _active: an open run of anybody, younger than the sum of the limits.
Active == {r \in Run : batchRun[r] = "running" /\ started[r] + Total > now}

StartRead_NoLock(i) ==
  /\ task[i] = NoTask /\ Active = {} /\ InBounds
  /\ Work(i, Task("manual", {}, {}))
  /\ UNCHANGED <<now, runs, batchRun, table, unsent, stream, inbox, held, faults>>

\* With an active run there is RunActive, and nothing changes.
StartRead(i) ==
  /\ lock = {} /\ Active = {} /\ InBounds
  /\ Work(i, Task("manual", {}, {}))
  /\ UNCHANGED <<now, runs, batchRun, table, unsent, stream, inbox, held, faults>>

\* Schedule.due: the youngest slot up to now, if it is not too old.
Due == {s \in Slot : /\ s <= now /\ now <= s + Grace
                     /\ \A q \in Slot : q <= now => q <= s}

ScheduleRead(i) ==
  /\ lock = {} /\ InBounds
  /\ \E s \in Due :
       /\ \A r \in Run : slotOf[r] # {s}
       /\ Work(i, Task("scheduled", {s}, {}))
  /\ UNCHANGED <<now, runs, batchRun, table, unsent, stream, inbox, held, faults>>

\* _create: batch.run, run_request and the event in one transaction.
Create(i) ==
  /\ task[i].does \in {"manual", "scheduled"}
  /\ InBounds
  /\ \E r \in New :
       /\ origin' = [origin EXCEPT ![r] = task[i].does]
       /\ started' = [started EXCEPT ![r] = now]
       /\ slotOf' = [slotOf EXCEPT ![r] = task[i].slot]
       /\ batchRun' = [batchRun EXCEPT ![r] = "running"]
       /\ unsent' = Append(unsent, [run |-> r, kind |-> "requested", at |-> now, full |-> FALSE])
  /\ Leave(i)
  /\ UNCHANGED <<now, table, stream, inbox, held, faults>>

------------------------------------------------------------------------------
(* RunManager.check: the watchdog.                                          *)

Late(r, since, limit) == now > since + limit

Overdue_NoReport(r) ==
  \/ status[r] \in {"none", "requested"} /\ Late(r, started[r], FetchLimit)
  \/ status[r] = "fetched" /\ Late(r, lastAt[r], ScoringLimit)

Overdue(r) ==
  \/ status[r] \in {"none", "requested"} /\ Late(r, started[r], FetchLimit)
  \/ status[r] = "fetched" /\ Late(r, lastAt[r], ScoringLimit)
  \/ status[r] = "scored" /\ Late(r, lastAt[r], ReportLimit)

Hanging == {r \in Run : Web(r) /\ batchRun[r] = "running" /\ Overdue(r)}

CheckRead_NoLock(i) ==
  /\ task[i] = NoTask /\ Hanging # {}
  /\ Work(i, Task("check", {}, Hanging))
  /\ UNCHANGED <<now, runs, batchRun, table, unsent, stream, inbox, held, faults>>

\* The query for open runs, with their status.
CheckRead(i) ==
  /\ lock = {} /\ Hanging # {}
  /\ Work(i, Task("check", {}, Hanging))
  /\ UNCHANGED <<now, runs, batchRun, table, unsent, stream, inbox, held, faults>>

TimeoutOf(r) == [run |-> r, kind |-> "timeout", at |-> now, full |-> FALSE]

\* ORDER BY run_id
Ascending(S) == {q \in [1..Cardinality(S) -> S] : \A j, k \in DOMAIN q : j < k => q[j] < q[k]}

\* _fail for each of them: event, projection and close_run in one transaction.
\* What the query read is not read again.  (The code takes the time of the event
\* before it waits for the lock; here the event has the time of its commit.)
CheckFail(i) ==
  /\ task[i].does = "check"
  /\ \E q \in Ascending(task[i].hanging) :
       unsent' = unsent \o [k \in 1..Cardinality(task[i].hanging) |-> TimeoutOf(q[k])]
  /\ LET events == {TimeoutOf(r) : r \in task[i].hanging} IN Project(events) /\ CloseRun(events)
  /\ Leave(i)
  /\ UNCHANGED <<now, runs, stream, inbox, held, faults>>

\* The transaction is rolled back, or the process dies: the lock is free.  (At
\* the bounds of the model a creation ends here without a fault.)
Abort(i) ==
  /\ task[i] # NoTask
  /\ \/ Fault
     \/ /\ task[i].does # "check" /\ ~InBounds
        /\ UNCHANGED faults
  /\ Leave(i)
  /\ UNCHANGED <<now, runs, batchRun, table, unsent, stream, inbox, held>>

\* publish_pending, once NATS is there: row by row, in order.
Flush ==
  /\ unsent # <<>>
  /\ stream' = Append(stream, Head(unsent))
  /\ unsent' = Tail(unsent)
  /\ UNCHANGED <<now, runs, batchRun, table, inbox, held, lock, task, faults>>

------------------------------------------------------------------------------
(* EventManager.dispatch.  Another delivery of an event finds its inbox     *)
(* entry and changes nothing.                                               *)

\* One pull loop takes the stream in order; what it handed back comes later.
Delivered(k) ==
  /\ k \in 1..Len(stream) \ inbox
  /\ \A j \in 1..(k - 1) : j \in inbox \cup held

Dispatch(k) ==
  /\ Delivered(k)
  /\ inbox' = inbox \cup {k}
  /\ Project({stream[k]})
  /\ CloseRun({stream[k]})
  /\ UNCHANGED <<now, runs, unsent, stream, held, lock, task, faults>>

DispatchFails(k) ==
  /\ Delivered(k)
  /\ Fault
  /\ held' = held \cup {k}
  /\ UNCHANGED <<now, runs, batchRun, table, unsent, stream, inbox, lock, task>>

\* record_dead_letter: after the last attempt only the inbox entry remains.
DeadLetter(k) ==
  /\ Delivered(k) /\ k \in held
  /\ Fault
  /\ inbox' = inbox \cup {k}
  /\ UNCHANGED <<now, runs, batchRun, table, unsent, stream, held, lock, task>>

------------------------------------------------------------------------------
(* The environment: the services, the batch, the clock.                     *)

\* A stage sends its event, at most once, after the one it was started by.
Emit(r, n, full) ==
  /\ now <= LastEvent /\ Len(stream) < MaxEvents
  /\ n \in 2..4 /\ (full => Stages[n] = "scored")
  /\ Sent(r, {Stages[n - 1]}) /\ ~Sent(r, {Stages[n]})
  /\ stream' = Append(stream, [run |-> r, kind |-> Stages[n], at |-> now, full |-> full])
  /\ UNCHANGED <<now, runs, batchRun, table, unsent, inbox, held, lock, task, faults>>

\* Some stage reports a failure; a dead letter may do so besides a success.
EmitFailure(r, kind) ==
  /\ now <= LastEvent /\ Len(stream) < MaxEvents
  /\ Sent(r, {"requested"}) /\ ~Sent(r, Failures)
  /\ stream' = Append(stream, [run |-> r, kind |-> kind, at |-> now, full |-> FALSE])
  /\ UNCHANGED <<now, runs, batchRun, table, unsent, inbox, held, lock, task, faults>>

\* The batch starts a run of its own and sends its request itself.
BatchStart ==
  /\ InBounds
  /\ \E r \in New :
       /\ origin' = [origin EXCEPT ![r] = "batch"]
       /\ started' = [started EXCEPT ![r] = now]
       /\ batchRun' = [batchRun EXCEPT ![r] = "running"]
       /\ stream' = Append(stream, [run |-> r, kind |-> "requested", at |-> now, full |-> FALSE])
  /\ UNCHANGED <<now, slotOf, table, unsent, inbox, held, lock, task, faults>>

\* ... and closes it with the result of its RunTracker, or dies and never does.
BatchEnd(r) ==
  /\ origin[r] = "batch" /\ batchRun[r] = "running"
  /\ \E s \in Failures \cup {"success", "partial"} : batchRun' = [batchRun EXCEPT ![r] = s]
  /\ UNCHANGED <<now, runs, table, unsent, stream, inbox, held, lock, task, faults>>

Tick ==
  /\ now < MaxTime
  /\ now' = now + 1
  /\ UNCHANGED <<runs, batchRun, table, unsent, stream, inbox, held, lock, task, faults>>

------------------------------------------------------------------------------
Next ==
  \/ \E i \in Instance :
       StartRead(i) \/ ScheduleRead(i) \/ Create(i) \/ CheckRead(i) \/ CheckFail(i) \/ Abort(i)
  \/ Flush
  \/ \E k \in 1..Len(stream) : Dispatch(k) \/ DispatchFails(k) \/ DeadLetter(k)
  \/ \E r \in Run : BatchEnd(r)
  \/ \E r \in Run, n \in 2..4, full \in BOOLEAN : Emit(r, n, full)
  \/ \E r \in Run, kind \in Failures : EmitFailure(r, kind)
  \/ BatchStart
  \/ Tick

Spec == Init /\ [][Next]_vars

\* The background task ticks every minute and survives a failing tick; nothing
\* is assumed of NATS, the consumer or the services.
Watchdog == \E i \in Instance : CheckRead(i) \/ CheckFail(i) \/ Abort(i) \/ Create(i)
FairSpec == Spec /\ WF_vars(Tick) /\ WF_vars(Watchdog)

------------------------------------------------------------------------------
(* Properties.                                                              *)

\* The types of the variables.
TypeOK ==
  /\ now \in 0..MaxTime
  /\ origin \in [Run -> {"none", "manual", "scheduled", "batch"}]
  /\ started \in [Run -> 0..MaxTime]
  /\ slotOf \in [Run -> SUBSET Slot]
  /\ batchRun \in [Run -> {"none", "running", "success", "partial"} \cup Failures]
  /\ status \in [Run -> {"none"} \cup {Stages[n] : n \in 1..4} \cup Failures]
  /\ lastAt \in [Run -> 0..MaxTime]
  /\ universe \in [Run -> BOOLEAN]
  /\ scored \in [Run -> {"none", "some", "all"}]
  /\ unsent \in Seq(Event)
  /\ stream \in Seq(Event)
  /\ inbox \subseteq 1..Len(stream) /\ held \subseteq 1..Len(stream)
  /\ lock \subseteq Instance
  /\ task \in [Instance -> [does : {"nothing", "manual", "scheduled", "check"},
                            slot : SUBSET Slot, hanging : SUBSET Run]]
  /\ faults \in 0..MaxFaults

\* run_status and batch.run of a run of the web-api tell one story: the run is
\* open in the one as long as it has no result in the other; a failed run has
\* failed for the same reason in both, and a delivered one was reported
\* (_update_run and close_run, from the consumer and from the watchdog).
TablesAgree ==
  \A r \in Run : Web(r) =>
    /\ (batchRun[r] = "running") <=> (status[r] \notin Result)
    /\ batchRun[r] \in Failures => status[r] = batchRun[r]

\* A delivered run is a success or partial as its scores say, as long as none
\* of its events had to be retried: close_run reads counters that another
\* event's projection has left.
CountsRight ==
  \A r \in Run, k \in 1..Len(stream) :
    /\ Web(r) /\ stream[k].run = r /\ stream[k].kind = "scored"
    /\ \A j \in held : stream[j].run # r
    => /\ batchRun[r] = "success" => stream[k].full
       /\ batchRun[r] = "partial" => ~stream[k].full

\* The tables tell of a run what its events said.
TablesTell == TablesAgree /\ CountsRight

\* The watchdog reports a run at most once ("jeden einmal"), with several
\* instances and ticks that fail.
OneTimeout ==
  \A r \in Run :
    LET all == unsent \o stream IN
      Cardinality({k \in 1..Len(all) : all[k].run = r /\ all[k].kind = "timeout"}) <= 1

\* Two starts never fetch at the same time: while a run of the web-api is open
\* no manual run begins in the time its stages may take ("Zwei Abrufe zugleich
\* verdoppelten die Last auf Yahoo"), with several instances.
OneFetchAtATime ==
  \A r, q \in Run :
    r < q /\ Web(r) /\ origin[q] = "manual" /\ batchRun[r] = "running" =>
      started[q] >= started[r] + Total

\* An event that comes late or twice never takes a run back: a stage does not
\* go back, the first failure stays, what closed a run stays, and the time of
\* the last event does not go back.
NeverBack ==
  [][\A r \in Run :
       /\ status[r] \in Failures => status'[r] = status[r]
       /\ status[r] \in Kind \ Failures =>
            \/ status'[r] \in Failures
            \/ status'[r] \in Kind /\ StageNo(status'[r]) >= StageNo(status[r])
       /\ batchRun[r] \notin {"none", "running"} => batchRun'[r] = batchRun[r]
       /\ lastAt'[r] >= lastAt[r]]_vars

\* The web-api never closes a run of the batch, whatever events it gets of it.
BatchClosesItsRuns ==
  [][\A r \in Run : origin[r] = "batch" /\ (inbox' # inbox \/ unsent' # unsent) =>
       batchRun'[r] = batchRun[r]]_vars

\* Every run of the web-api is closed in the end: when a service is silent, an
\* event is lost or NATS stays away, the watchdog does it.
EveryRunCloses ==
  \A r \in Run : Web(r) ~> batchRun[r] \notin {"none", "running"}

\* _overdue: "Ergebnis da: schliesst die Projektion ab".  The watchdog does not
\* report a run whose result is there.
WatchdogSparesResults ==
  [][\A r \in Run : status[r] \in Result =>
       ~ \E k \in (Len(unsent) + 1)..Len(unsent') :
           unsent'[k].run = r /\ unsent'[k].kind = "timeout"]_vars
==============================================================================

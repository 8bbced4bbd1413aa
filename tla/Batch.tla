-------------------------------- MODULE Batch ---------------------------------
(***************************************************************************)
(* The batch: one process creates a run, hangs the handlers of all three   *)
(* services and its RunTracker on a bus, starts the chain, waits for its   *)
(* end, closes the run and exits.                                          *)
(*                                                                         *)
(*   src/main.py, src/run_tracker.py, src/composition.py                   *)
(*   packages/va-platform/src/va_platform/bus.py        (InProcessBus)     *)
(*   packages/va-platform/src/va_platform/nats/bus.py   (settle, close)    *)
(*                                                                         *)
(* Both transports deliver at most once here (MAX_DELIVER = 1).  What the  *)
(* services do in their handlers is in Screening, how inbox and outbox     *)
(* share a transaction in ReliableBus; here a handler is taken and         *)
(* finished, and finishes in one of the ways these modules allow.          *)
(***************************************************************************)
EXTENDS Faults, Integers, Sequences, FiniteSets

CONSTANTS Size,       \* titles of the universe
          OtherRuns   \* bound: kinds of the event of another run

Kind == {"requested", "fetched", "scored", "reported", "failed", "no_data"}

ASSUME BatchAssumption == Size \in Nat \ {0} /\ OtherRuns \subseteq Kind

VARIABLES
  transport,  \* Settings.event_bus
  events,     \* the queue of the process, or the stream, from the first event on
  taken,      \* for each consumer, the last event it is through with
  working,    \* the consumers with a handler running
  unsent,     \* what a service has left in its outbox
  tracked,    \* the fields of RunTracker
  died,       \* dead letters
  silent,     \* a dead letter without a failure event of this run: NATS refused it, or it is of another one
  gaveUp,     \* a wait for NATS ended by its timeout, or by an error
  stage,      \* where main._run is
  looks,      \* settle: consumers found quiet in a row
  alarmed,    \* notify_failure_without_run
  exit        \* the exit code, or -1

batchState == <<transport, events, taken, working, unsent, tracked, died, silent, gaveUp,
                stage, looks, alarmed, exit>>
batchVars == <<batchState, faults>>

\* In the order they are wired, and settle looks at them.
Wired == <<"market-data", "scoring", "notification", "batch">>
Name == {Wired[i] : i \in 1..4}

KindsOf == [c \in Name |->
  CASE c = "market-data"  -> {"requested"}
    [] c = "scoring"      -> {"fetched"}
    [] c = "notification" -> {"scored", "failed", "no_data"}
    [] c = "batch"        -> {"fetched", "scored", "reported", "failed", "no_data"}]

\* own: of this run.  scored: the titles with a score.
Note == [own : BOOLEAN, kind : Kind, scored : 0..Size]
Own(kind, n) == [own |-> TRUE, kind |-> kind, scored |-> n]
Has(kind) == \E i \in 1..Len(events) : events[i].own /\ events[i].kind = kind

\* Over NATS the consumers may find an event of another run first.
BatchInit ==
  /\ transport \in {"in_process", "nats"}
  /\ events \in {<<>>} \cup {<<[own |-> FALSE, kind |-> k, scored |-> 0]>> :
                               k \in IF transport = "nats" THEN OtherRuns ELSE {}}
  /\ taken = [c \in Name |-> 0]
  /\ working = {}
  /\ unsent = [c \in Name |-> <<>>]
  /\ tracked = [universe |-> 0, scored |-> 0, status |-> "none"]
  /\ died = FALSE /\ silent = FALSE /\ gaveUp = FALSE
  /\ stage = "start"
  /\ looks = 0
  /\ alarmed = FALSE
  /\ exit = -1
  /\ faults = 0

------------------------------------------------------------------------------
(* The bus.                                                                  *)

For(c) == {i \in 1..Len(events) : i > taken[c] /\ events[i].kind \in KindsOf[c]}
NextFor(c) == CHOOSE i \in For(c) : \A j \in For(c) : i <= j
Place(c) == CHOOSE i \in 1..4 : Wired[i] = c

\* InProcessBus.publish: event by event, and consumer by consumer.
InTurn(c) ==
  /\ working = {}
  /\ \A d \in Name : For(d) # {} =>
       NextFor(c) < NextFor(d) \/ (NextFor(c) = NextFor(d) /\ Place(c) <= Place(d))

\* NatsBus: every consumer by itself, until the bus is closed.
TakeNext(c) ==
  /\ stage \in {"chain", "settle"} /\ c \notin working /\ For(c) # {}
  /\ transport = "in_process" => InTurn(c)
  /\ working' = working \cup {c}
  /\ UNCHANGED <<transport, events, taken, unsent, tracked, died, silent, gaveUp, stage, looks,
                 alarmed, exit, faults>>

HasFailed == tracked.status \in {"no_data", "failed"}

\* dead_letter of main.py: the tracker first, whatever run the event is of, then the
\* failure event.
OnDeadLetter(c, published) ==
  LET e == events[NextFor(c)] IN
    /\ tracked' = IF HasFailed THEN tracked ELSE [tracked EXCEPT !.status = "failed"]
    /\ IF e.kind \in {"failed", "no_data"}
         THEN events' = events \o published /\ silent' = (silent \/ ~e.own)
         ELSE \/ /\ events' = events \o published \o <<[e EXCEPT !.kind = "failed"]>>
                 /\ silent' = (silent \/ ~e.own)
              \/ transport = "nats" /\ events' = events \o published /\ silent' = TRUE

Through(c) ==
  /\ c \in working
  /\ taken' = [taken EXCEPT ![c] = NextFor(c)]
  /\ working' = working \ {c}
  /\ UNCHANGED <<transport, gaveUp, stage, looks, alarmed, exit>>

\* What may follow an event, as pairs of a kind and a number of scores.
Answers(kind) ==
  CASE kind = "requested" -> {"fetched", "failed"} \X {0}
    [] kind = "fetched"   -> ({"scored"} \X (1..Size)) \cup ({"no_data", "failed"} \X {0})
    [] kind = "scored"    -> {"reported", "failed"} \X {0}
    [] OTHER              -> {}

\* What a handler publishes: one event of the same run.  Of another run there may be
\* none, when the event is too old, and there is none after a failure.
FollowUps(e) ==
  {<<[own |-> e.own, kind |-> p[1], scored |-> p[2]]>> : p \in Answers(e.kind)}
    \cup {s \in {<<>>} : ~e.own \/ Answers(e.kind) = {}}

\* The handler of a service returns, the outbox is flushed and the event acked: one
\* step, since settle takes the consumer for busy up to the ack.
Handle(c) ==
  /\ c # "batch"
  /\ Through(c)
  /\ \E out \in FollowUps(events[NextFor(c)]) : events' = events \o unsent[c] \o out
  /\ unsent' = [unsent EXCEPT ![c] = <<>>]
  /\ UNCHANGED <<tracked, died, silent, faults>>

\* Something is raised in the handler, before the flush, or in it: then the events
\* are out, or stay in the outbox until the next delivery.
HandleFails(c) ==
  /\ c # "batch"
  /\ Through(c)
  /\ Fault
  /\ died' = TRUE
  /\ \E out \in FollowUps(events[NextFor(c)]) :
       \/ OnDeadLetter(c, <<>>) /\ UNCHANGED unsent
       \/ OnDeadLetter(c, unsent[c] \o out) /\ UNCHANGED unsent
       \/ OnDeadLetter(c, <<>>) /\ unsent' = [unsent EXCEPT ![c] = @ \o out]

------------------------------------------------------------------------------
(* RunTracker.                                                               *)

\* _on_snapshot, _on_scoring, _on_report_sent, _on_failed: the first failure wins.
Track(e) ==
  IF ~e.own \/ (HasFailed /\ e.kind \notin {"fetched", "scored"}) THEN tracked
  ELSE CASE e.kind = "fetched" -> [tracked EXCEPT !.universe = Size]
         [] e.kind = "scored" -> [tracked EXCEPT !.universe = Size, !.scored = e.scored]
         [] e.kind = "reported" -> [tracked EXCEPT !.status =
                                      IF tracked.universe > tracked.scored THEN "partial" ELSE "success"]
         [] e.kind \in {"failed", "no_data"} -> [tracked EXCEPT !.status = e.kind]

HandleTracked ==
  /\ Through("batch")
  /\ tracked' = Track(events[NextFor("batch")])
  /\ UNCHANGED <<events, unsent, died, silent, faults>>

------------------------------------------------------------------------------
(* main.py                                                                   *)

Main(from, to) == stage = from /\ stage' = to
UnchangedBus == UNCHANGED <<transport, events, taken, working, unsent, tracked, died, silent>>

\* start_run, the bus, and the request.
StartChain ==
  /\ Main("start", "chain")
  /\ events' = Append(events, Own("requested", 0))
  /\ UNCHANGED <<transport, taken, working, unsent, tracked, died, silent, gaveUp, looks, alarmed,
                 exit, faults>>

\* No database: exit 4.  No bus, or the request is not sent: the run failed.
StartFails ==
  /\ Main("start", "end")
  /\ Fault
  /\ alarmed' = TRUE
  /\ exit' \in {1, 4}
  /\ UnchangedBus /\ UNCHANGED <<gaveUp, looks>>

\* In one process publish returns when the queue is empty; over NATS the tracker
\* wakes the batch.
ChainEnds ==
  /\ IF transport = "in_process"
       THEN working = {} /\ (\A c \in Name : For(c) = {}) /\ Main("chain", "close")
       ELSE tracked.status # "none" /\ Main("chain", "settle")
  /\ UnchangedBus /\ UNCHANGED <<gaveUp, looks, alarmed, exit, faults>>

Quiet(c) == For(c) = {} /\ c \notin working

\* settle: twice in a row nothing pending and nothing unacknowledged.
Look ==
  /\ stage = "settle"
  /\ LET c == Wired[(looks % 4) + 1]  n == IF Quiet(c) THEN looks + 1 ELSE 0 IN
       /\ looks' = n
       /\ stage' = IF n = 8 THEN "close" ELSE "settle"
  /\ UnchangedBus /\ UNCHANGED <<gaveUp, alarmed, exit, faults>>

\* RUN_TIMEOUT_MINUTES, or SETTLE_SECONDS.
GiveUp ==
  /\ transport = "nats" /\ stage \in {"chain", "settle"}
  /\ stage' = "close"
  /\ gaveUp' = TRUE
  /\ UnchangedBus /\ UNCHANGED <<looks, alarmed, exit, faults>>

\* Something is raised once the bus is open: publish gets no answer from NATS, which
\* may have stored the request, or settle loses the connection.
MainFails ==
  /\ transport = "nats" /\ stage \in {"chain", "settle"}
  /\ stage' = "abort"
  /\ Fault
  /\ gaveUp' = TRUE
  /\ UnchangedBus /\ UNCHANGED <<looks, alarmed, exit>>

\* close waits for the handlers that run, but not for ever: then they are cut off.
CloseBus ==
  /\ UNCHANGED <<transport, events, taken, unsent, tracked, died, silent, looks, faults>>
  /\ \/ working = {} /\ UNCHANGED <<working, gaveUp>>
     \/ transport = "nats" /\ working # {} /\ working' = {} /\ gaveUp' = TRUE

Finish_NoAlarm ==
  /\ Main("close", "end")
  /\ CloseBus
  /\ exit' = CASE tracked.status \in {"success", "partial"} -> 0
               [] tracked.status = "no_data" -> 3
               [] OTHER -> 1
  /\ UNCHANGED alarmed

\* The outcome decides.  Without one the run failed, and nobody else says so.
FinishRun ==
  /\ Main("close", "end")
  /\ CloseBus
  /\ exit' = CASE tracked.status \in {"success", "partial"} -> 0
               [] tracked.status = "no_data" -> 3
               [] OTHER -> 1
  /\ alarmed' = (tracked.status = "none")

\* "unexpected error": the run failed, whatever the tracker says.
FinishAborted ==
  /\ Main("abort", "end")
  /\ CloseBus
  /\ exit' = 1
  /\ alarmed' = TRUE

------------------------------------------------------------------------------
BatchNext ==
  \/ \E c \in Name : TakeNext(c) \/ Handle(c) \/ HandleFails(c)
  \/ HandleTracked
  \/ StartChain \/ StartFails \/ ChainEnds \/ Look \/ GiveUp \/ MainFails \/ FinishRun \/ FinishAborted

BatchSpec == BatchInit /\ [][BatchNext]_batchVars

------------------------------------------------------------------------------
(* Properties.                                                               *)

BatchTypeOK ==
  /\ transport \in {"in_process", "nats"}
  /\ events \in Seq(Note)
  /\ taken \in [Name -> 0..Len(events)]
  /\ working \subseteq Name
  /\ unsent \in [Name -> Seq(Note)]
  /\ tracked \in [universe : {0, Size}, scored : 0..Size,
                  status : {"none", "success", "partial", "no_data", "failed"}]
  /\ {died, silent, gaveUp, alarmed} \subseteq BOOLEAN
  /\ stage \in {"start", "chain", "settle", "close", "abort", "end"}
  /\ looks \in 0..8
  /\ exit \in {-1, 0, 1, 3, 4}
  /\ faults \in 0..MaxFaults

\* run_tracker.py: the chain ends with one result, and a failure always wins, also
\* one that comes after the success.  So unless a wait ran into its timeout, NATS was
\* lost or a handler was cut off at the close, the batch exits with 0 when, and only when,
\* the report of this run is out, no event of the run says it failed and no handler gave
\* up; it never ends without a result, and what counts as a full success has a score for
\* each title.
ExitIsTrue ==
  stage = "end" /\ Has("requested") /\ ~gaveUp =>
    /\ exit = 0 <=> Has("reported") /\ ~Has("failed") /\ ~Has("no_data") /\ ~died
    /\ tracked.status # "none"
    /\ tracked.status = "success" => \E i \in 1..Len(events) : events[i] = Own("scored", Size)

\* A batch that does not exit with 0 is heard of: by an event for notification in
\* the stream, or by its own alarm (main.py: "mit Ping und Fehlermail").  Silent are
\* only a failure event that NATS refuses, and a dead letter of another run's event.
FailureIsHeard ==
  stage = "end" /\ exit # 0 /\ ~silent => alarmed \/ Has("failed") \/ Has("no_data")

\* The end of the batch tells the truth, to cron and to the people.
EndIsTrue == ExitIsTrue /\ FailureIsHeard
==============================================================================

------------------------------ MODULE Services -------------------------------
(***************************************************************************)
(* What the three services of a run share: the stream VA_EVENTS, and a     *)
(* consumer each, which takes one message at a time and settles it         *)
(* together with the events its handler published.                         *)
(*                                                                         *)
(*   packages/va-platform/src/va_platform/service.py                       *)
(*   packages/va-platform/src/va_platform/nats/bus.py (_pull, _dispatch)   *)
(*                                                                         *)
(* Settle is one step here: that the inbox entry and the follow-up events  *)
(* get out together and once is what module ReliableBus is about.          *)
(***************************************************************************)
EXTENDS Naturals, Sequences, FiniteSets

CONSTANTS Run,          \* runs that are requested
          Forced,       \* those with force_refresh
          Delivering,   \* those with notify and without dry_run
          Scheduled,    \* those with trigger = scheduled
          Title,        \* the universe, 1..n
          Universe,     \* what load_universe may return on a run
          MaxDeliver,   \* MAX_DELIVER, the limit of the consumers in NATS
          MaxFaults     \* bound on crashes and failures

ASSUME ServicesAssumption ==
  /\ Forced \subseteq Run /\ Delivering \subseteq Run /\ Scheduled \subseteq Run
  /\ Title \subseteq Nat /\ Universe \subseteq SUBSET Title /\ {} \notin Universe
  /\ MaxDeliver \in Nat \ {0} /\ MaxFaults \in Nat

Consumer == {"market-data", "scoring", "notification"}

\* ref is the id the event carries of its sender's table (0 for none), titles
\* those of the payload.
Event == [kind : {"requested", "fetched", "scored", "reported", "failed", "no_data"},
          run : Run, ref : Nat, titles : SUBSET Title]

Filter == [c \in Consumer |->
            CASE c = "market-data"  -> {"requested"}
              [] c = "scoring"      -> {"fetched"}
              [] c = "notification" -> {"scored", "failed", "no_data"}]

VARIABLES
  maxDeliver, \* that the buses were opened with
  stream,     \* events published so far
  settled,    \* for each consumer, the messages that will not come again
  tries,      \* deliveries that ended in a crash or an exception
  job,        \* the message a consumer works on, as a set
  pc,         \* where its handler is
  lost,       \* history: messages that were given up without a failure event
  faults

services == <<maxDeliver, stream, settled, tries, job, pc, lost, faults>>

\* NatsBus refuses a max_deliver over the limit.
ServicesInit ==
  /\ maxDeliver \in 1..MaxDeliver
  /\ stream = {}
  /\ settled = [c \in Consumer |-> {}]
  /\ tries = [c \in Consumer |-> {}]
  /\ job = [c \in Consumer |-> {}]
  /\ pc = [c \in Consumer |-> "idle"]
  /\ lost = {}
  /\ faults = 0

Fault == faults < MaxFaults /\ faults' = faults + 1
At(c, label) == pc[c] = label
Goto(c, label) == pc' = [pc EXCEPT ![c] = label]
Message(c) == CHOOSE e \in job[c] : TRUE
Idle(c) == job' = [job EXCEPT ![c] = {}] /\ Goto(c, "idle")

\* One step of a handler that publishes nothing yet.
Step(c, from, to) ==
  /\ At(c, from)
  /\ Goto(c, to)
  /\ UNCHANGED <<maxDeliver, stream, settled, tries, job, lost>>

Take(c) ==
  /\ At(c, "idle")
  /\ \E e \in stream \ settled[c] :
       /\ e.kind \in Filter[c]
       /\ job' = [job EXCEPT ![c] = {e}]
  /\ Goto(c, "start")
  /\ UNCHANGED <<maxDeliver, stream, settled, tries, lost, faults>>

\* The handler returns: inbox entry and follow-up events, then the ack.
Settle(c, events) ==
  /\ stream' = stream \cup events
  /\ settled' = [settled EXCEPT ![c] = @ \cup job[c]]
  /\ Idle(c)
  /\ UNCHANGED <<maxDeliver, tries, lost>>

EventFor(c, kind, ref, titles) ==
  [kind |-> kind, run |-> Message(c).run, ref |-> ref, titles |-> titles]

\* The handler catches what is raised in it and reports the run as failed.
Raise(c) == Fault /\ Settle(c, {EventFor(c, "failed", 0, {})})

DeadLetter_None(c) == {}

\* run_failure: the last exception of a message ends the run, unless the
\* message is itself about a failure.
DeadLetter(c) ==
  IF Message(c).kind \in {"failed", "no_data"} THEN {} ELSE {EventFor(c, "failed", 0, {})}

\* The process dies, or an exception gets out of the handler, and what the handler
\* had in memory is gone.  NATS delivers again after a death up to its own limit; the
\* bus asks for it after an exception up to max_deliver, then the run is reported as
\* failed.  After the last death, or when NATS refuses the report, nobody does.
Break(c) ==
  /\ ~At(c, "idle")
  /\ Fault
  /\ LET n == Cardinality({t \in tries[c] : t[1] = Message(c)}) + 1
         done == settled' = [settled EXCEPT ![c] = @ \cup job[c]]
     IN /\ n <= MaxDeliver
        /\ tries' = [tries EXCEPT ![c] = @ \cup {<<Message(c), n>>}]
        /\ \/ n < MaxDeliver /\ UNCHANGED <<stream, settled, lost>>
           \/ n >= maxDeliver /\ done /\ stream' = stream \cup DeadLetter(c) /\ UNCHANGED lost
           \/ n >= maxDeliver /\ done /\ lost' = lost \cup job[c] /\ UNCHANGED stream
  /\ Idle(c)
  /\ UNCHANGED maxDeliver
==============================================================================

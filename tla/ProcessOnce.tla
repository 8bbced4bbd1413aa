----------------------------- MODULE ProcessOnce -----------------------------
(***************************************************************************)
(* What inbox and outbox promise the rest of the system: of all the runs   *)
(* of a handler for one event, at most one is chosen, and only a chosen    *)
(* run's follow-up events are ever sent, each at least once.               *)
(***************************************************************************)
CONSTANTS Run,       \* executions of the handler
          RunEvent,  \* the event each run is for
          Part       \* positions of the follow-up events of one run

VARIABLES chosen,    \* runs whose result counts
          sent       \* follow-up events other services can see

vars == <<chosen, sent>>

Init == chosen = {} /\ sent = {}

Choose(run) ==
  /\ \A other \in chosen : RunEvent[other] # RunEvent[run]
  /\ chosen' = chosen \cup {run}
  /\ UNCHANGED sent

Send(run, part) ==
  /\ run \in chosen
  /\ sent' = sent \cup {<<run, part>>}
  /\ UNCHANGED chosen

Next ==
  \/ \E run \in Run : Choose(run)
  \/ \E run \in Run, part \in Part : Send(run, part)

Spec == Init /\ [][Next]_vars
==============================================================================

---------------------------- MODULE MCReliableBus ----------------------------
(* Small instances of ReliableBus: one event, sent once or twice.           *)
EXTENDS ReliableBus

CONSTANTS m1, m2, e1

\* One event, sent once.
MCOneMessage == {m1}
MCOneEventOf == [m \in MCOneMessage |-> e1]

\* One event, sent twice.
MCTwoMessages == {m1, m2}
MCTwoEventOf == [m \in MCTwoMessages |-> e1]
==============================================================================

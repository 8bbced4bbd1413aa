------------------------------- MODULE Scoring -------------------------------
(***************************************************************************)
(* The service scoring: a snapshot becomes a scoring run.                  *)
(*                                                                         *)
(*   services/scoring/src/va_scoring/entrypoints/handlers.py               *)
(*   services/scoring/src/va_scoring/adapters/postgres/store.py            *)
(***************************************************************************)
EXTENDS Services

VARIABLES
  scorings,   \* scoring.scoring_run, with the titles that have a score
  scoringId   \* handler: the scoring run it has stored

scoring == <<scorings, scoringId>>
SC == "scoring"

ScoringReset == scoringId' = 0 /\ UNCHANGED scorings

ScoringInit == scorings = <<>> /\ scoringId = 0

RecordScoring_AllTitles ==
  /\ Step(SC, "start", "publish")
  /\ \E scored \in SUBSET Title :
       scorings' = Append(scorings, [fetch |-> Message(SC).ref, scored |-> scored])
  /\ scoringId' = Len(scorings')
  /\ UNCHANGED faults

\* record_scoring, in one transaction; which titles have a score depends on
\* their figures and on the filter of the profile.
RecordScoring ==
  /\ Step(SC, "start", "publish")
  /\ \E scored \in SUBSET Message(SC).titles :
       scorings' = Append(scorings, [fetch |-> Message(SC).ref, scored |-> scored])
  /\ scoringId' = Len(scorings')
  /\ UNCHANGED faults

\* Nothing that can be scored ends the run as no_data.
PublishScoring ==
  /\ At(SC, "publish")
  /\ LET some == scorings[scoringId].scored # {} IN
       Settle(SC, {EventFor(SC, IF some THEN "scored" ELSE "no_data", scoringId,
                            scorings[scoringId].scored)})
  /\ ScoringReset
  /\ UNCHANGED faults

ScoringFails ==
  /\ pc[SC] \in {"start", "publish"}
  /\ Raise(SC)
  /\ ScoringReset

ScoringStep == RecordScoring \/ PublishScoring
==============================================================================

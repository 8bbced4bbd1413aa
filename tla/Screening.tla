------------------------------ MODULE Screening ------------------------------
(***************************************************************************)
(* The chain of a run: screening.run.requested goes to market-data, its    *)
(* snapshot to scoring, the ranking to notification; any stage may end the *)
(* run as failed.  The web-api's view of the same runs is RunLifecycle.    *)
(***************************************************************************)
EXTENDS MarketData, Scoring, Notification

vars == <<services, market, scoring, notification>>

Init == ServicesInit /\ MarketDataInit /\ ScoringInit /\ NotificationInit

\* The web-api or the batch asks for a run.
Request(r) ==
  /\ \A e \in stream : e.run # r
  /\ stream' = stream \cup {[kind |-> "requested", run |-> r, ref |-> 0, titles |-> {}]}
  /\ UNCHANGED <<maxDeliver, settled, tries, job, pc, lost, faults, market, scoring, notification>>

MarketDataWork ==
  /\ (Take(MD) /\ UNCHANGED market) \/ MarketDataStep
  /\ UNCHANGED <<scoring, notification>>

ScoringWork ==
  /\ (Take(SC) /\ UNCHANGED scoring) \/ ScoringStep
  /\ UNCHANGED <<market, notification>>

NotificationWork ==
  /\ (Take(NO) /\ UNCHANGED notification) \/ NotificationStep
  /\ UNCHANGED <<market, scoring>>

Failure ==
  \/ FetchFails /\ UNCHANGED <<scoring, notification>>
  \/ ScoringFails /\ UNCHANGED <<market, notification>>
  \/ (SendFails \/ ReportFails) /\ UNCHANGED <<market, scoring>>
  \/ Break(MD) /\ MarketDataReset /\ UNCHANGED <<scoring, notification>>
  \/ Break(SC) /\ ScoringReset /\ UNCHANGED <<market, notification>>
  \/ Break(NO) /\ NotificationReset /\ UNCHANGED <<market, scoring>>

Next ==
  \/ \E r \in Run : Request(r)
  \/ MarketDataWork \/ ScoringWork \/ NotificationWork
  \/ Failure
  \/ NextDay /\ UNCHANGED <<scoring, notification>>

Spec == Init /\ [][Next]_vars

\* Every service is up and its calls return or raise.
FairSpec == Spec /\ WF_vars(MarketDataWork) /\ WF_vars(ScoringWork) /\ WF_vars(NotificationWork)

------------------------------------------------------------------------------
(* Properties.                                                              *)

HandlerPC == {"idle", "start", "snapshot", "fetch", "publish", "send", "log", "ping", "tell"}

\* The types of the variables.
TypeOK ==
  /\ maxDeliver \in 1..MaxDeliver
  /\ stream \subseteq Event
  /\ settled \in [Consumer -> SUBSET Event]
  /\ tries \in [Consumer -> SUBSET (Event \X (1..MaxDeliver))]
  /\ job \in [Consumer -> SUBSET stream]
  /\ pc \in [Consumer -> HandlerPC]
  /\ lost \subseteq Event
  /\ faults \in 0..MaxFaults
  /\ day \in 1..MaxDay
  /\ fetches \in Seq([day : 1..MaxDay, universe : Universe, finished : BOOLEAN, good : BOOLEAN])
  /\ rows \subseteq FetchId \X Title /\ caps \subseteq rows
  /\ current \in 0..Len(fetches)
  /\ wanted \subseteq Title /\ left \subseteq wanted /\ frame \subseteq Title
  /\ scorings \in Seq([fetch : FetchId, scored : SUBSET Title])
  /\ scoringId \in 0..Len(scorings)
  /\ reports \in Seq([run : Run, ref : 1..Len(scorings)])
  /\ logged \subseteq 1..Len(reports) /\ reportId \in 0..Len(reports)
  /\ mails \in Seq([run : Run, kind : {"report", "error"}, ref : Nat])
  /\ pings \subseteq Run \X BOOLEAN

ReportMails(ref) == {i \in 1..Len(mails) : mails[i].kind = "report" /\ mails[i].ref = ref}

\* What a snapshot event carries is what is stored for its fetch, also when
\* the fetch is used again ("Report und Datenbank bleiben deckungsgleich");
\* and the fetch is a finished one.
SnapshotIsStored ==
  \A e \in stream : e.kind = "fetched" =>
    fetches[e.ref].finished /\ e.titles \subseteq Stored(e.ref)

\* What is reported of a run goes back to a snapshot of the same run, whatever
\* crashed and was done again in between.
ReportHasScoringOfItsRun ==
  \A e \in stream : e.kind = "reported" =>
    \E s, f \in stream :
      /\ s.kind = "scored" /\ s.run = e.run /\ reports[e.ref].ref = s.ref
      /\ f.kind = "fetched" /\ f.run = e.run /\ scorings[s.ref].fetch = f.ref
      /\ s.titles \subseteq f.titles

\* What an event of the chain says is backed by what is stored.
EventsAreBacked == SnapshotIsStored /\ ReportHasScoringOfItsRun

\* report.sent says the mail is out: when the run wants one, the mail server
\* has accepted a mail for the scoring run of the report.
ReportedIsMailed ==
  \A e \in stream : e.kind = "reported" /\ e.run \in Delivering =>
    ReportMails(reports[e.ref].ref) # {}

\* The health check is told that a run went well only after its mail, and that
\* it failed only after an event says so.
PingsAreTrue ==
  \A p \in pings :
    IF p[2] THEN \E i \in 1..Len(mails) : mails[i].kind = "report" /\ mails[i].run = p[1]
            ELSE \E e \in stream : e.run = p[1] /\ e.kind \in {"failed", "no_data"}

\* Once the mail of a scoring run is logged, no second one follows, however
\* often the event is delivered again (P4.3b).
LoggedMailIsLast ==
  [][\A i \in logged : ReportMails(reports[i].ref)' = ReportMails(reports[i].ref)]_vars

\* Every run has an end, and its user hears of it: a report mail, a mail about
\* the failure, or nothing because there were no data.  One message that no delivery
\* gets through is enough to be heard of, except when it is lost without a trace:
\* its last delivery dies with the process, or NATS refuses the failure event, and
\* only the watchdog of the web-api ends the run (EveryRunCloses).  The run has one
\* fault: a refused mail about a failure is the second one, and only logged.
UserHears ==
  \A r \in Delivering :
    (\E e \in stream : e.run = r) ~>
      \/ \E i \in 1..Len(mails) : mails[i].run = r
      \/ \E e \in stream : e.run = r /\ e.kind = "no_data"
      \/ \E e \in lost : e.run = r

\* events.md: "notification verschickt fuer einen Bewertungslauf hoechstens eine
\* Report-Mail".
AtMostOneMail == \A s \in 1..Len(scorings) : Cardinality(ReportMails(s)) <= 1
==============================================================================

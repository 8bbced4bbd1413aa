---------------------------- MODULE Notification -----------------------------
(***************************************************************************)
(* The service notification: the report mail of a scoring run, the mail    *)
(* about a failure, and the pings to the health check.                     *)
(*                                                                         *)
(*   services/notification/src/va_notification/entrypoints/handlers.py     *)
(*   services/notification/src/va_notification/adapters/postgres/          *)
(*                                                                         *)
(* The log rows of pings and error mails are left out, nothing reads them. *)
(***************************************************************************)
EXTENDS Services

VARIABLES
  reports,    \* reporting.report
  logged,     \* reporting.delivery: reports whose mail is logged as sent
  mails,      \* mails the mail server accepted
  pings,      \* pings the health check got
  reportId    \* handler: the report it works on

notification == <<reports, logged, mails, pings, reportId>>
NO == "notification"

NotificationInit ==
  /\ reports = <<>> /\ logged = {} /\ mails = <<>> /\ pings = {} /\ reportId = 0

NotificationReset == reportId' = 0 /\ UNCHANGED <<reports, logged, mails, pings>>

Delivers == Message(NO).run \in Delivering
Mail(kind) == [run |-> Message(NO).run, kind |-> kind, ref |-> Message(NO).ref]

\* get_delivered_report: a report of this scoring run that is logged as sent.
Delivered(ref) == {i \in logged : reports[i].ref = ref}

BuildReport_NoLookup ==
  /\ At(NO, "start") /\ Step(NO, "start", IF Delivers THEN "send" ELSE "publish")
  /\ Message(NO).kind = "scored"
  /\ reports' = Append(reports, [run |-> Message(NO).run, ref |-> Message(NO).ref])
  /\ reportId' = Len(reports')
  /\ UNCHANGED <<logged, mails, pings, faults>>

BuildReport_AlwaysPings ==
  /\ At(NO, "start") /\ Step(NO, "start", IF Delivers THEN "send" ELSE "ping")
  /\ Message(NO).kind = "scored"
  /\ Delivers => Delivered(Message(NO).ref) = {}
  /\ reports' = Append(reports, [run |-> Message(NO).run, ref |-> Message(NO).ref])
  /\ reportId' = Len(reports')
  /\ UNCHANGED <<logged, mails, pings, faults>>

\* Already delivered: no second mail and no ping, only report.sent.
Already ==
  /\ Step(NO, "start", "publish")
  /\ Message(NO).kind = "scored" /\ Delivers /\ Delivered(Message(NO).ref) # {}
  /\ reportId' = CHOOSE i \in Delivered(Message(NO).ref) :
                   \A j \in Delivered(Message(NO).ref) : i <= j
  /\ UNCHANGED <<reports, logged, mails, pings, faults>>

BuildReport ==
  /\ At(NO, "start") /\ Step(NO, "start", IF Delivers THEN "send" ELSE "publish")
  /\ Message(NO).kind = "scored"
  /\ Delivers => Delivered(Message(NO).ref) = {}
  /\ reports' = Append(reports, [run |-> Message(NO).run, ref |-> Message(NO).ref])
  /\ reportId' = Len(reports')
  /\ UNCHANGED <<logged, mails, pings, faults>>

SendReport ==
  /\ Step(NO, "send", "log")
  /\ mails' = Append(mails, Mail("report"))
  /\ UNCHANGED <<reports, logged, pings, reportId, faults>>

\* The log is best effort: _record swallows what goes wrong.
LogReport ==
  /\ Step(NO, "log", "ping")
  /\ \/ logged' = logged \cup {reportId} /\ UNCHANGED faults
     \/ Fault /\ UNCHANGED logged
  /\ UNCHANGED <<reports, mails, pings, reportId>>

PingOK ==
  /\ Step(NO, "ping", "publish")
  /\ pings' = IF Message(NO).run \in Scheduled THEN pings \cup {<<Message(NO).run, TRUE>>} ELSE pings
  /\ UNCHANGED <<reports, logged, mails, reportId, faults>>

PublishReport ==
  /\ At(NO, "publish")
  /\ Settle(NO, {EventFor(NO, "reported", reportId, {})})
  /\ NotificationReset
  /\ UNCHANGED faults

SendFails_Swallowed ==
  /\ At(NO, "send")
  /\ Fault
  /\ Goto(NO, "log")
  /\ UNCHANGED <<maxDeliver, stream, settled, tries, job, lost, notification>>

\* The mail server refuses, or accepts and the answer is lost: the run failed.
SendFails ==
  /\ At(NO, "send")
  /\ Raise(NO)
  /\ \/ UNCHANGED mails
     \/ mails' = Append(mails, Mail("report"))
  /\ reportId' = 0
  /\ UNCHANGED <<reports, logged, pings>>

\* build_report or the database raises.
ReportFails ==
  /\ At(NO, "start") /\ Message(NO).kind = "scored"
  /\ Raise(NO)
  /\ NotificationReset

\* on_run_failed.
PingFailure ==
  /\ Step(NO, "start", "tell")
  /\ Message(NO).kind \in {"failed", "no_data"}
  /\ pings' = IF Message(NO).run \in Scheduled THEN pings \cup {<<Message(NO).run, FALSE>>} ELSE pings
  /\ UNCHANGED <<reports, logged, mails, reportId, faults>>

\* The mail about a failure; when it cannot be sent, that is only logged.
TellFailure ==
  /\ At(NO, "tell")
  /\ LET due == Message(NO).kind = "failed" /\ Delivers IN
       \/ due /\ mails' = Append(mails, Mail("error")) /\ UNCHANGED faults
       \/ due /\ Fault /\ UNCHANGED mails
       \/ ~due /\ UNCHANGED <<mails, faults>>
  /\ Settle(NO, {})
  /\ UNCHANGED <<reports, logged, pings, reportId>>

NotificationStep ==
  \/ Already \/ BuildReport \/ SendReport \/ LogReport \/ PingOK \/ PublishReport
  \/ PingFailure \/ TellFailure
==============================================================================

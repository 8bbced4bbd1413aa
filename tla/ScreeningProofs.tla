---------------------------- MODULE ScreeningProofs ----------------------------
(***************************************************************************)
(* Proofs about Screening, for any runs, universes, titles, days,          *)
(* deliveries and faults: what the events, mails and pings of a run say is *)
(* backed by what the services have stored, whatever is delivered again.   *)
(***************************************************************************)
EXTENDS Screening, NumberLemmas, FiniteSetTheorems

\* A service at work has one message, of a kind it has asked for.
JobInv ==
  \A c \in Consumer :
    IF At(c, "idle") THEN job[c] = {} ELSE \E e \in stream : job[c] = {e} /\ e.kind \in Filter[c]

\* What market-data has in its frame is stored, and the fetch it announces is finished.
MarketDataInv ==
  /\ pc[MD] \in {"idle", "start", "snapshot", "fetch", "publish"}
  /\ At(MD, "snapshot") => wanted \in Universe
  /\ ~At(MD, "fetch") => left = {}
  /\ pc[MD] \in {"fetch", "publish"} => current \in FetchId /\ frame \subseteq Stored(current)
  /\ At(MD, "publish") => fetches[current].finished

\* The scoring that is to be published is of the snapshot at work.
ScoringInv ==
  /\ pc[SC] \in {"idle", "start", "publish"}
  /\ At(SC, "publish") =>
       /\ scoringId \in 1..Len(scorings)
       /\ scorings[scoringId].fetch = Message(SC).ref
       /\ scorings[scoringId].scored \subseteq Message(SC).titles

IsReport(m, e) == m.kind = "report" /\ m.ref = e.ref /\ m.run = e.run
MailOut(e) == \E i \in 1..Len(mails) : IsReport(mails[i], e)

\* A report is of the scoring at work; before its mail none is logged, and after it
\* the mail is out.
NotificationInv ==
  /\ pc[NO] \in {"idle", "start", "send", "log", "ping", "publish", "tell"}
  /\ pc[NO] \in {"send", "log", "ping", "publish"} =>
       /\ Message(NO).kind = "scored" /\ reportId \in 1..Len(reports)
       /\ reports[reportId].ref = Message(NO).ref
  /\ At(NO, "send") => Delivered(Message(NO).ref) = {}
  /\ pc[NO] \in {"log", "ping"} => MailOut(Message(NO))
  /\ At(NO, "publish") /\ Delivers => ReportMails(Message(NO).ref) # {}
  /\ \A i \in logged : ReportMails(reports[i].ref) # {}

\* What an event says, by its kind.
Backed(e) ==
  /\ e.kind = "fetched" =>
       e.ref \in FetchId /\ fetches[e.ref].finished /\ e.titles \subseteq Stored(e.ref)
  /\ e.kind = "scored" =>
       /\ e.ref \in 1..Len(scorings)
       /\ \E f \in stream : /\ f.kind = "fetched" /\ f.run = e.run
                            /\ scorings[e.ref].fetch = f.ref /\ e.titles \subseteq f.titles
  /\ e.kind = "reported" =>
       /\ e.ref \in 1..Len(reports)
       /\ \E s \in stream : s.kind = "scored" /\ s.run = e.run /\ reports[e.ref].ref = s.ref
       /\ e.run \in Delivering => ReportMails(reports[e.ref].ref) # {}

\* The inductive invariant.
ScreeningInv ==
  /\ TypeOK /\ JobInv /\ MarketDataInv /\ ScoringInv /\ NotificationInv
  /\ \A e \in stream : Backed(e)
  /\ PingsAreTrue
------------------------------------------------------------------------------
(* Types, service by service.                                               *)

FetchRun == [day : 1..MaxDay, universe : Universe, finished : BOOLEAN, good : BOOLEAN]
ServicesTypes ==
  /\ maxDeliver \in 1..MaxDeliver
  /\ stream \subseteq Event
  /\ settled \in [Consumer -> SUBSET Event]
  /\ tries \in [Consumer -> SUBSET (Event \X (1..MaxDeliver))]
  /\ job \in [Consumer -> SUBSET stream]
  /\ pc \in [Consumer -> HandlerPC]
  /\ lost \subseteq Event
  /\ faults \in 0..MaxFaults
MarketTypes ==
  /\ day \in 1..MaxDay
  /\ fetches \in Seq(FetchRun)
  /\ rows \subseteq FetchId \X Title /\ caps \subseteq rows
  /\ current \in 0..Len(fetches)
  /\ wanted \subseteq Title /\ left \subseteq wanted /\ frame \subseteq Title
ScoringTypes ==
  /\ scorings \in Seq([fetch : FetchId, scored : SUBSET Title])
  /\ scoringId \in 0..Len(scorings)
NotificationTypes ==
  /\ reports \in Seq([run : Run, ref : 1..Len(scorings)])
  /\ logged \subseteq 1..Len(reports) /\ reportId \in 0..Len(reports)
  /\ mails \in Seq([run : Run, kind : {"report", "error"}, ref : Nat])
  /\ pings \subseteq Run \X BOOLEAN

LEMMA Types == TypeOK <=> ServicesTypes /\ MarketTypes /\ ScoringTypes /\ NotificationTypes
BY DEF TypeOK, ServicesTypes, MarketTypes, ScoringTypes, NotificationTypes, FetchRun

\* The message at work.
LEMMA MessageAtWork ==
  ASSUME ServicesTypes, JobInv, NEW c \in Consumer, ~At(c, "idle")
  PROVE  /\ Message(c) \in stream /\ Message(c) \in Event /\ job[c] = {Message(c)}
         /\ Message(c).kind \in Filter[c] /\ Message(c).run \in Run
         /\ Message(c).ref \in Nat /\ Message(c).titles \subseteq Title
<1>1. PICK e \in stream : job[c] = {e} /\ e.kind \in Filter[c]
  BY DEF JobInv
<1>2. Message(c) = e
  BY <1>1 DEF Message
<1>3. e \in Event
  BY DEF ServicesTypes
<1> QED BY <1>1, <1>2, <1>3 DEF Event

\* Each service asks for its own kinds.
LEMMA Kinds ==
  /\ Consumer = {MD, SC, NO} /\ MD # SC /\ MD # NO /\ SC # NO
  /\ Filter[MD] = {"requested"} /\ Filter[SC] = {"fetched"} /\ Filter[NO] = {"scored", "failed", "no_data"}
BY DEF Consumer, Filter, MD, SC, NO

------------------------------------------------------------------------------
(* Tables only grow, and what they said they still say.                     *)

Extends(s, t) == Len(s) <= Len(t) /\ \A i \in 1..Len(s) : t[i] = s[i]

Grows ==
  /\ stream \subseteq stream' /\ rows \subseteq rows'
  /\ Len(fetches) <= Len(fetches') /\ \A f \in FetchId : fetches[f].finished => fetches'[f].finished
  /\ Extends(scorings, scorings') /\ Extends(reports, reports') /\ Extends(mails, mails')

\* The lengths are numbers, before and after a step.
LEMMA Lengths ==
  ASSUME TypeOK
  PROVE  /\ Len(fetches) \in Nat /\ Len(scorings) \in Nat /\ Len(reports) \in Nat /\ Len(mails) \in Nat
         /\ DOMAIN fetches = FetchId /\ \A f \in FetchId : fetches[f] \in FetchRun
         /\ \A s \in 1..Len(scorings) : scorings[s].fetch \in FetchId /\ scorings[s].scored \subseteq Title
         /\ \A i \in 1..Len(reports) : reports[i].run \in Run /\ reports[i].ref \in 1..Len(scorings)
<1>1. MarketTypes /\ ScoringTypes /\ NotificationTypes
  BY Types
<1>2. /\ Len(fetches) \in Nat /\ DOMAIN fetches = FetchId /\ \A f \in FetchId : fetches[f] \in FetchRun
  BY <1>1 DEF MarketTypes, FetchId
<1>3. Len(scorings) \in Nat /\ \A s \in 1..Len(scorings) : scorings[s] \in [fetch : FetchId, scored : SUBSET Title]
  <2> DEFINE S == [fetch : FetchId, scored : SUBSET Title]
  <2>1. scorings \in Seq(S)
    BY <1>1 DEF ScoringTypes
  <2> HIDE DEF S
  <2>2. Len(scorings) \in Nat /\ \A s \in 1..Len(scorings) : scorings[s] \in S
    BY <2>1
  <2> QED BY <2>2 DEF S
<1>4. Len(reports) \in Nat /\ \A i \in 1..Len(reports) : reports[i] \in [run : Run, ref : 1..Len(scorings)]
  <2> DEFINE S == [run : Run, ref : 1..Len(scorings)]
  <2>1. reports \in Seq(S)
    BY <1>1 DEF NotificationTypes
  <2> HIDE DEF S
  <2>2. Len(reports) \in Nat /\ \A i \in 1..Len(reports) : reports[i] \in S
    BY <2>1
  <2> QED BY <2>2 DEF S
<1>5. Len(mails) \in Nat
  BY <1>1 DEF NotificationTypes
<1> QED BY <1>2, <1>3, <1>4, <1>5

\* A mail that is out stays out.
LEMMA MailsStay ==
  ASSUME TypeOK, Extends(mails, mails'), Len(mails') \in Nat
  PROVE  /\ \A ref : ReportMails(ref) # {} => ReportMails(ref)' # {}
         /\ \A e : MailOut(e) => MailOut(e)'
<1>1. \A i \in 1..Len(mails) : i \in 1..Len(mails') /\ mails'[i] = mails[i]
  BY Lengths DEF Extends
<1> QED BY <1>1 DEF ReportMails, MailOut, IsReport

\* What an event says stays true.
LEMMA BackedStays ==
  ASSUME TypeOK, TypeOK', Grows, NEW e \in stream, Backed(e)
  PROVE  Backed(e)'
<1>1. Len(mails') \in Nat /\ Len(fetches') \in Nat /\ Len(scorings') \in Nat /\ Len(reports') \in Nat
  BY Lengths
<1>2. \A ref : ReportMails(ref) # {} => ReportMails(ref)' # {}
  BY <1>1, MailsStay DEF Grows
<1>3. CASE e.kind = "fetched"
  <2>1. e.ref \in FetchId /\ fetches[e.ref].finished /\ e.titles \subseteq Stored(e.ref)
    BY <1>3 DEF Backed
  <2>2. e.ref \in FetchId' /\ fetches'[e.ref].finished /\ e.titles \subseteq Stored(e.ref)'
    BY <1>1, <2>1, Lengths DEF Grows, FetchId, Stored
  <2> QED BY <1>3, <2>2 DEF Backed
<1>4. CASE e.kind = "scored"
  <2>1. /\ e.ref \in 1..Len(scorings)
        /\ \E f \in stream : /\ f.kind = "fetched" /\ f.run = e.run
                             /\ scorings[e.ref].fetch = f.ref /\ e.titles \subseteq f.titles
    BY <1>4 DEF Backed
  <2>2. e.ref \in 1..Len(scorings') /\ scorings'[e.ref] = scorings[e.ref] /\ stream \subseteq stream'
    BY <1>1, <2>1, Lengths DEF Grows, Extends
  <2> QED BY <1>4, <2>1, <2>2 DEF Backed
<1>5. CASE e.kind = "reported"
  <2>1. /\ e.ref \in 1..Len(reports)
        /\ \E s \in stream : s.kind = "scored" /\ s.run = e.run /\ reports[e.ref].ref = s.ref
        /\ e.run \in Delivering => ReportMails(reports[e.ref].ref) # {}
    BY <1>5 DEF Backed
  <2>2. e.ref \in 1..Len(reports') /\ reports'[e.ref] = reports[e.ref] /\ stream \subseteq stream'
    BY <1>1, <2>1, Lengths DEF Grows, Extends
  <2>3. PICK ref : ref = reports[e.ref].ref
    OBVIOUS
  <2>4. reports'[e.ref].ref = ref
    BY <2>2, <2>3
  <2>5. e.run \in Delivering => ReportMails(ref)' # {}
    BY <1>2, <2>1, <2>3
  <2>6. e.run \in Delivering => ReportMails(reports[e.ref].ref)' # {}
    BY <2>4, <2>5 DEF ReportMails
  <2> QED BY <1>5, <2>1, <2>2, <2>6 DEF Backed
<1>6. CASE e.kind \notin {"fetched", "scored", "reported"}
  BY <1>6 DEF Backed
<1> QED BY <1>3, <1>4, <1>5, <1>6

\* A ping stays true.
LEMMA PingsStay ==
  ASSUME TypeOK, TypeOK', Grows, PingsAreTrue, pings' = pings
  PROVE  PingsAreTrue'
<1>1. \A i \in 1..Len(mails) : i \in 1..Len(mails') /\ mails'[i] = mails[i]
  BY Lengths DEF Grows, Extends
<1> QED BY <1>1 DEF PingsAreTrue, Grows

\* A service that does not move keeps what it knows.
LEMMA MarketDataStays ==
  ASSUME TypeOK, TypeOK', Grows, MarketDataInv, pc'[MD] = pc[MD], UNCHANGED <<wanted, current, left, frame>>
  PROVE  MarketDataInv'
<1>1. Len(fetches') \in Nat /\ Len(fetches) \in Nat
  BY Lengths
<1>2. \A f \in FetchId : f \in FetchId' /\ Stored(f) \subseteq Stored(f)' /\ (fetches[f].finished => fetches'[f].finished)
  BY <1>1 DEF Grows, FetchId, Stored
<1>3. PICK f : f = current
  OBVIOUS
<1>4. pc[MD] \in {"fetch", "publish"} => f \in FetchId' /\ frame \subseteq Stored(f)'
  BY <1>2, <1>3 DEF MarketDataInv
<1>5. At(MD, "publish") => fetches'[f].finished
  BY <1>2, <1>3 DEF MarketDataInv, At
<1> QED BY <1>3, <1>4, <1>5 DEF MarketDataInv, At, Stored

LEMMA ScoringStays ==
  ASSUME TypeOK, TypeOK', Grows, ScoringInv, pc'[SC] = pc[SC], job'[SC] = job[SC], scoringId' = scoringId
  PROVE  ScoringInv'
<1>1. Message(SC)' = Message(SC)
  BY DEF Message
<1>2. \A i \in 1..Len(scorings) : i \in 1..Len(scorings') /\ scorings'[i] = scorings[i]
  BY Lengths DEF Grows, Extends
<1> QED BY <1>1, <1>2 DEF ScoringInv, At

LEMMA NotificationStays ==
  ASSUME NotificationInv, pc'[NO] = pc[NO], job'[NO] = job[NO], UNCHANGED notification
  PROVE  NotificationInv'
<1>1. Message(NO)' = Message(NO) /\ UNCHANGED <<reports, mails, pings, logged, reportId>> /\ pc'[NO] = pc[NO]
  BY DEF Message, notification
<1> QED BY <1>1 DEF NotificationInv, At, MailOut, ReportMails, Delivered, Delivers
------------------------------------------------------------------------------
(* Messages are taken and settled.                                          *)

\* Only consumer c moves.
Alone(c) == \A d \in Consumer : d # c => pc'[d] = pc[d] /\ job'[d] = job[d]

\* Faults are counted up to their bound.
LEMMA FaultsCount ==
  ASSUME ServicesTypes, Fault \/ UNCHANGED faults
  PROVE  faults' \in 0..MaxFaults
BY ServicesAssumption DEF ServicesTypes, Fault

\* A consumer takes a message of the stream.
LEMMA TakeKeeps ==
  ASSUME ServicesTypes, JobInv, NEW c \in Consumer, Take(c)
  PROVE  /\ ServicesTypes' /\ JobInv' /\ Alone(c) /\ stream' = stream /\ pc'[c] = "start"
<1>1. PICK e \in stream : e.kind \in Filter[c] /\ job' = [job EXCEPT ![c] = {e}]
  BY DEF Take
<1>2. pc' = [pc EXCEPT ![c] = "start"] /\ UNCHANGED <<maxDeliver, stream, settled, tries, lost, faults>>
  BY DEF Take, Goto
<1>3. pc'[c] = "start" /\ job'[c] = {e} /\ Alone(c)
  BY <1>1, <1>2 DEF ServicesTypes, Alone
<1>4. ServicesTypes'
  BY <1>1, <1>2 DEF ServicesTypes, HandlerPC
<1>5. JobInv'
  BY <1>1, <1>2, <1>3 DEF JobInv, Alone, At
<1> QED BY <1>2, <1>3, <1>4, <1>5

\* A step of a handler.
LEMMA StepKeeps ==
  ASSUME ServicesTypes, JobInv, NEW c \in Consumer, NEW from, NEW to \in HandlerPC \ {"idle"},
         from # "idle", Step(c, from, to), Fault \/ UNCHANGED faults
  PROVE  /\ ServicesTypes' /\ JobInv' /\ Alone(c) /\ stream' = stream
         /\ pc[c] = from /\ pc'[c] = to /\ job'[c] = job[c]
<1>1. pc' = [pc EXCEPT ![c] = to] /\ pc[c] = from /\ UNCHANGED <<maxDeliver, stream, settled, tries, job, lost>>
  BY DEF Step, Goto, At
<1>2. pc'[c] = to /\ Alone(c)
  BY <1>1 DEF ServicesTypes, Alone
<1>3. ServicesTypes'
  BY <1>1, FaultsCount DEF ServicesTypes
<1>4. JobInv'
  BY <1>1, <1>2 DEF JobInv, Alone, At
<1> QED BY <1>1, <1>2, <1>3, <1>4

\* A consumer without a message, after its last step.
LEMMA IdleKeeps ==
  ASSUME ServicesTypes, JobInv, NEW c \in Consumer, Idle(c), stream \subseteq stream'
  PROVE  /\ JobInv' /\ Alone(c) /\ pc'[c] = "idle"
         /\ job' \in [Consumer -> SUBSET stream'] /\ pc' \in [Consumer -> HandlerPC]
<1>1. job' = [job EXCEPT ![c] = {}] /\ pc' = [pc EXCEPT ![c] = "idle"]
  BY DEF Idle, Goto
<1>2. pc'[c] = "idle" /\ job'[c] = {} /\ Alone(c)
  BY <1>1 DEF ServicesTypes, Alone
<1>3. JobInv'
  BY <1>2 DEF JobInv, Alone, At
<1>4. job' \in [Consumer -> SUBSET stream'] /\ pc' \in [Consumer -> HandlerPC]
  BY <1>1 DEF ServicesTypes, HandlerPC
<1> QED BY <1>2, <1>3, <1>4

\* The message is settled, its follow-up events are out.
LEMMA SettleKeeps ==
  ASSUME ServicesTypes, JobInv, NEW c \in Consumer, NEW events \in SUBSET Event,
         Settle(c, events), Fault \/ UNCHANGED faults
  PROVE  /\ ServicesTypes' /\ JobInv' /\ Alone(c) /\ pc'[c] = "idle"
         /\ stream' = stream \cup events
<1>1. /\ stream' = stream \cup events /\ settled' = [settled EXCEPT ![c] = @ \cup job[c]]
      /\ Idle(c) /\ UNCHANGED <<maxDeliver, tries, lost>>
  BY DEF Settle
<1>2. /\ JobInv' /\ Alone(c) /\ pc'[c] = "idle"
      /\ job' \in [Consumer -> SUBSET stream'] /\ pc' \in [Consumer -> HandlerPC]
  BY <1>1, IdleKeeps
<1>3. job[c] \subseteq Event
  BY DEF ServicesTypes
<1>4. settled' \in [Consumer -> SUBSET Event]
  BY <1>1, <1>3 DEF ServicesTypes
<1>5. ServicesTypes'
  BY <1>1, <1>2, <1>4, FaultsCount DEF ServicesTypes
<1> QED BY <1>1, <1>2, <1>5

\* An event of the run of the message.
LEMMA EventOfRun ==
  ASSUME ServicesTypes, JobInv, NEW c \in Consumer, ~At(c, "idle"), NEW kind,
         kind \in {"requested", "fetched", "scored", "reported", "failed", "no_data"},
         NEW ref \in Nat, NEW titles \in SUBSET Title
  PROVE  /\ EventFor(c, kind, ref, titles) \in Event /\ EventFor(c, kind, ref, titles).kind = kind
         /\ EventFor(c, kind, ref, titles).run = Message(c).run
         /\ EventFor(c, kind, ref, titles).ref = ref /\ EventFor(c, kind, ref, titles).titles = titles
BY MessageAtWork DEF EventFor, Event

\* The handler fails, or the process dies: at most a failure event is added.
FailureOf(c) == {EventFor(c, "failed", 0, {})}

LEMMA RaiseKeeps ==
  ASSUME ServicesTypes, JobInv, NEW c \in Consumer, ~At(c, "idle"), Raise(c)
  PROVE  /\ ServicesTypes' /\ JobInv' /\ Alone(c) /\ pc'[c] = "idle"
         /\ stream' = stream \cup FailureOf(c)
<1>1. FailureOf(c) \in SUBSET Event
  BY EventOfRun DEF FailureOf
<1>2. Fault /\ Settle(c, FailureOf(c))
  BY DEF Raise, FailureOf
<1> QED BY <1>1, <1>2, SettleKeeps

LEMMA BreakKeeps ==
  ASSUME ServicesTypes, JobInv, NEW c \in Consumer, Break(c)
  PROVE  /\ ~At(c, "idle") /\ ServicesTypes' /\ JobInv' /\ Alone(c) /\ pc'[c] = "idle"
         /\ stream \subseteq stream' /\ stream' \subseteq stream \cup FailureOf(c)
<1> DEFINE n == Cardinality({t \in tries[c] : t[1] = Message(c)}) + 1
<1>1. /\ ~At(c, "idle") /\ Fault /\ Idle(c) /\ tries' = [tries EXCEPT ![c] = @ \cup {<<Message(c), n>>}]
      /\ n <= MaxDeliver /\ UNCHANGED maxDeliver
      /\ settled' = settled \/ settled' = [settled EXCEPT ![c] = @ \cup job[c]]
      /\ stream' = stream \/ stream' = stream \cup DeadLetter(c)
      /\ lost' = lost \/ lost' = lost \cup job[c]
  BY DEF Break
<1>2. n \in 1..MaxDeliver
  <2> DEFINE T == {t \in tries[c] : t[1] = Message(c)}
             U == {Message(c)} \X (1..MaxDeliver)
  <2>1. tries[c] \subseteq Event \X (1..MaxDeliver)
    BY DEF ServicesTypes
  <2>2. T \subseteq U
    BY <2>1
  <2>3. IsFiniteSet({Message(c)}) /\ IsFiniteSet(1..MaxDeliver)
    <3>1. 1 \in Int /\ MaxDeliver \in Int
      BY ServicesAssumption
    <3>2. IsFiniteSet(1..MaxDeliver)
      BY <3>1, FS_Interval
    <3>3. IsFiniteSet({Message(c)})
      BY FS_Singleton
    <3> QED BY <3>2, <3>3
  <2>4. IsFiniteSet(U)
    BY <2>3, FS_Product
  <2>5. IsFiniteSet(T)
    BY <2>2, <2>4, FS_Subset
  <2>6. Cardinality(T) \in Nat
    BY <2>5, FS_CardinalityType
  <2>7. n <= MaxDeliver
    BY <1>1, <2>6, ServicesAssumption
  <2> QED BY <2>6, <2>7, ServicesAssumption
<1> HIDE DEF n
<1>3. Message(c) \in Event /\ job[c] \subseteq Event
  BY <1>1, MessageAtWork DEF ServicesTypes
<1>4. DeadLetter(c) \subseteq FailureOf(c) /\ FailureOf(c) \in SUBSET Event
  BY <1>1, EventOfRun DEF DeadLetter, FailureOf
<1>5. stream \subseteq stream' /\ stream' \subseteq stream \cup FailureOf(c)
  BY <1>1, <1>4
<1>6. /\ JobInv' /\ Alone(c) /\ pc'[c] = "idle"
      /\ job' \in [Consumer -> SUBSET stream'] /\ pc' \in [Consumer -> HandlerPC]
  BY <1>1, <1>5, IdleKeeps
<1>7. tries' \in [Consumer -> SUBSET (Event \X (1..MaxDeliver))]
  BY <1>1, <1>2, <1>3 DEF ServicesTypes
<1>8. settled' \in [Consumer -> SUBSET Event] /\ lost' \subseteq Event /\ maxDeliver' \in 1..MaxDeliver
  BY <1>1, <1>3 DEF ServicesTypes
<1>9. stream' \subseteq Event
  BY <1>4, <1>5 DEF ServicesTypes
<1> QED BY <1>1, <1>5, <1>6, <1>7, <1>8, <1>9, FaultsCount DEF ServicesTypes
------------------------------------------------------------------------------
(* A step of one service.                                                   *)

\* What the step of a service has to show apart from its own tables.
StepBy(c) ==
  /\ Grows /\ ServicesTypes' /\ JobInv' /\ Alone(c)
  /\ \A e \in stream' : e \in stream \/ Backed(e)'

\* Tables of the other services that do not change keep their types.
LEMMA TypesStay ==
  ASSUME TypeOK, Grows
  PROVE  /\ ServicesTypes /\ MarketTypes /\ ScoringTypes /\ NotificationTypes
         /\ UNCHANGED scoring /\ Len(fetches') \in Nat => ScoringTypes'
         /\ UNCHANGED notification /\ Len(scorings') \in Nat => NotificationTypes'
<1>1. ServicesTypes /\ MarketTypes /\ ScoringTypes /\ NotificationTypes
  BY Types
<1>2. ASSUME UNCHANGED scoring, Len(fetches') \in Nat PROVE ScoringTypes'
  <2> DEFINE S == [fetch : FetchId, scored : SUBSET Title]
             T == [fetch : 1..Len(fetches'), scored : SUBSET Title]
  <2>1. FetchId \subseteq 1..Len(fetches')
    BY <1>2, Lengths DEF FetchId, Grows
  <2>2. S \subseteq T
    BY <2>1
  <2>3. scorings \in Seq(S)
    BY <1>1 DEF ScoringTypes
  <2> HIDE DEF S, T
  <2>4. scorings \in Seq(T)
    BY <2>2, <2>3
  <2> QED BY <1>1, <1>2, <2>4 DEF ScoringTypes, scoring, T, FetchId
<1>3. ASSUME UNCHANGED notification, Len(scorings') \in Nat PROVE NotificationTypes'
  <2> DEFINE S == [run : Run, ref : 1..Len(scorings)]
             T == [run : Run, ref : 1..Len(scorings')]
  <2>1. 1..Len(scorings) \subseteq 1..Len(scorings')
    BY <1>3, Lengths DEF Grows, Extends
  <2>2. S \subseteq T
    BY <2>1
  <2>3. reports \in Seq(S)
    BY <1>1 DEF NotificationTypes
  <2> HIDE DEF S, T
  <2>4. reports \in Seq(T)
    BY <2>2, <2>3
  <2> QED BY <1>1, <1>3, <2>4 DEF NotificationTypes, notification, T
<1> QED BY <1>1, <1>2, <1>3

\* What is to be shown once the types and the service that moves are done.
LEMMA StepDone ==
  ASSUME ScreeningInv, TypeOK', NEW c, StepBy(c), MarketDataInv', ScoringInv', NotificationInv', PingsAreTrue'
  PROVE  ScreeningInv'
<1>1. \A e \in stream : Backed(e)'
  BY BackedStays DEF ScreeningInv, StepBy
<1> QED BY <1>1 DEF ScreeningInv, StepBy

LEMMA OfMarketData ==
  ASSUME ScreeningInv, StepBy(MD), UNCHANGED <<scoring, notification>>, MarketTypes', MarketDataInv'
  PROVE  ScreeningInv'
<1>1. TypeOK /\ Grows /\ ServicesTypes' /\ Alone(MD) /\ Len(fetches') \in Nat /\ Len(scorings') \in Nat
  BY Lengths DEF ScreeningInv, StepBy, MarketTypes, scoring
<1>2. ScoringTypes' /\ NotificationTypes'
  BY <1>1, TypesStay
<1>3. TypeOK'
  BY <1>1, <1>2 DEF TypeOK, ServicesTypes, MarketTypes, ScoringTypes, NotificationTypes, FetchRun
<1>4. pc'[SC] = pc[SC] /\ job'[SC] = job[SC] /\ pc'[NO] = pc[NO] /\ job'[NO] = job[NO]
  BY <1>1, Kinds DEF Alone
<1>5. ScoringInv' /\ NotificationInv' /\ PingsAreTrue'
  BY <1>1, <1>3, <1>4, ScoringStays, NotificationStays, PingsStay DEF ScreeningInv, scoring, notification
<1> QED BY <1>3, <1>5, StepDone

LEMMA OfScoring ==
  ASSUME ScreeningInv, StepBy(SC), UNCHANGED <<market, notification>>, ScoringTypes', ScoringInv'
  PROVE  ScreeningInv'
<1>1. TypeOK /\ Grows /\ ServicesTypes' /\ Alone(SC) /\ MarketTypes
  BY Types DEF ScreeningInv, StepBy
<1>2. Len(scorings') \in Nat
  <2> DEFINE S == [fetch : FetchId', scored : SUBSET Title]
  <2>1. scorings' \in Seq(S)
    BY DEF ScoringTypes
  <2> HIDE DEF S
  <2> QED BY <2>1
<1>3. MarketTypes' /\ NotificationTypes'
  BY <1>1, <1>2, TypesStay DEF MarketTypes, market, FetchId
<1>4. TypeOK'
  BY <1>1, <1>3 DEF TypeOK, ServicesTypes, MarketTypes, ScoringTypes, NotificationTypes, FetchRun
<1>5. pc'[MD] = pc[MD] /\ pc'[NO] = pc[NO] /\ job'[NO] = job[NO]
  BY <1>1, Kinds DEF Alone
<1>6. MarketDataInv' /\ NotificationInv' /\ PingsAreTrue'
  BY <1>1, <1>4, <1>5, MarketDataStays, NotificationStays, PingsStay DEF ScreeningInv, market, notification
<1> QED BY <1>4, <1>6, StepDone

LEMMA OfNotification ==
  ASSUME ScreeningInv, StepBy(NO), UNCHANGED <<market, scoring>>, NotificationTypes', NotificationInv', PingsAreTrue'
  PROVE  ScreeningInv'
<1>1. TypeOK /\ Grows /\ ServicesTypes' /\ Alone(NO) /\ MarketTypes /\ ScoringTypes
  BY Types DEF ScreeningInv, StepBy
<1>2. MarketTypes' /\ ScoringTypes'
  BY <1>1 DEF MarketTypes, ScoringTypes, market, scoring, FetchId
<1>3. TypeOK'
  BY <1>1, <1>2 DEF TypeOK, ServicesTypes, MarketTypes, ScoringTypes, NotificationTypes, FetchRun
<1>4. pc'[MD] = pc[MD] /\ pc'[SC] = pc[SC] /\ job'[SC] = job[SC]
  BY <1>1, Kinds DEF Alone
<1>5. MarketDataInv' /\ ScoringInv'
  BY <1>1, <1>3, <1>4, MarketDataStays, ScoringStays DEF ScreeningInv, market, scoring
<1> QED BY <1>3, <1>5, StepDone
------------------------------------------------------------------------------
(* market-data.                                                             *)

\* Nothing else is published or stored.
LEMMA Quiet ==
  ASSUME TypeOK, stream' = stream, rows \subseteq rows', UNCHANGED <<scoring, notification>>,
         Len(fetches) <= Len(fetches'), \A f \in FetchId : fetches[f].finished => fetches'[f].finished
  PROVE  Grows /\ \A e \in stream' : e \in stream \/ Backed(e)'
BY Lengths DEF Grows, Extends, scoring, notification

\* An event that says nothing about a table is backed.
LEMMA FailuresAreBacked ==
  ASSUME ScreeningInv, NEW c \in Consumer, ~At(c, "idle")
  PROVE  \A e \in FailureOf(c) : Backed(e)'
BY EventOfRun, Types DEF ScreeningInv, FailureOf, Backed

LEMMA MarketDataTakes ==
  ASSUME ScreeningInv, Take(MD), UNCHANGED <<market, scoring, notification>>
  PROVE  ScreeningInv'
<1>1. TypeOK /\ ServicesTypes /\ JobInv /\ MarketDataInv /\ MarketTypes /\ MD \in Consumer
  BY Types, Kinds DEF ScreeningInv
<1>2. ServicesTypes' /\ JobInv' /\ Alone(MD) /\ stream' = stream /\ pc'[MD] = "start" /\ pc[MD] = "idle"
  BY <1>1, TakeKeeps DEF Take, At
<1>3. StepBy(MD)
  BY <1>1, <1>2, Quiet DEF StepBy, market
<1>4. MarketTypes' /\ MarketDataInv'
  BY <1>1, <1>2 DEF MarketTypes, MarketDataInv, market, At, FetchId
<1> QED BY <1>3, <1>4, OfMarketData

\* After a step of the handler the types and its invariant are left to show.
LEMMA MarketDataStepDone ==
  ASSUME ScreeningInv, NEW from, NEW to \in HandlerPC \ {"idle"}, from # "idle", Step(MD, from, to),
         UNCHANGED <<scoring, notification, faults>>, rows \subseteq rows',
         Len(fetches) <= Len(fetches'), \A f \in FetchId : fetches[f].finished => fetches'[f].finished,
         MarketTypes', pc'[MD] = to => MarketDataInv'
  PROVE  ScreeningInv'
<1>1. TypeOK /\ ServicesTypes /\ JobInv /\ MD \in Consumer
  BY Types, Kinds DEF ScreeningInv
<1>2. ServicesTypes' /\ JobInv' /\ Alone(MD) /\ stream' = stream /\ pc'[MD] = to
  BY <1>1, StepKeeps
<1>3. StepBy(MD)
  BY <1>1, <1>2, Quiet DEF StepBy
<1> QED BY <1>2, <1>3, OfMarketData

LEMMA LoadUniverseKeeps ==
  ASSUME ScreeningInv, LoadUniverse, UNCHANGED <<scoring, notification>>
  PROVE  ScreeningInv'
<1>1. TypeOK /\ MarketTypes /\ MarketDataInv
  BY Types DEF ScreeningInv
<1>2. /\ Step(MD, "start", "snapshot") /\ wanted' \in Universe
      /\ UNCHANGED <<day, fetches, rows, caps, current, left, frame, faults>>
  BY DEF LoadUniverse
<1>3. left = {} /\ Len(fetches) \in Nat
  BY <1>1, <1>2, Lengths DEF MarketDataInv, Step, At
<1>4. MarketTypes'
  BY <1>1, <1>2, <1>3, ServicesAssumption DEF MarketTypes, FetchId
<1>5. pc'[MD] = "snapshot" => MarketDataInv'
  BY <1>2, <1>3 DEF MarketDataInv, At
<1> QED BY <1>2, <1>3, <1>4, <1>5, MarketDataStepDone DEF HandlerPC

LEMMA ReuseKeeps ==
  ASSUME ScreeningInv, Reuse, UNCHANGED <<scoring, notification>>
  PROVE  ScreeningInv'
<1>1. TypeOK /\ MarketTypes /\ MarketDataInv
  BY Types DEF ScreeningInv
<1>2. /\ Step(MD, "snapshot", "publish") /\ Reusable # {} /\ current' = Newest(Reusable)
      /\ frame' = Stored(current') \cap wanted /\ UNCHANGED <<day, fetches, rows, caps, wanted, left, faults>>
  BY DEF Reuse, MayReuse
<1>3. left = {} /\ Len(fetches) \in Nat
  BY <1>1, <1>2, Lengths DEF MarketDataInv, Step, At
<1>4. current' \in Reusable
  <2>1. Reusable \in SUBSET Nat /\ \A f \in Reusable : f <= Len(fetches)
    BY <1>3 DEF Reusable, FetchId
  <2>2. \E f \in Reusable : \A g \in Reusable : g <= f
    BY <1>2, <1>3, <2>1, GreatestNumber
  <2> QED BY <1>2, <2>2 DEF Newest
<1>5. current' \in FetchId /\ fetches[current'].finished
  BY <1>4 DEF Reusable
<1>6. MarketTypes'
  BY <1>1, <1>2, <1>3, <1>5 DEF MarketTypes, FetchId, Stored
<1>7. pc'[MD] = "publish" => MarketDataInv'
  BY <1>2, <1>3, <1>5 DEF MarketDataInv, At, FetchId, Stored
<1> QED BY <1>2, <1>3, <1>6, <1>7, MarketDataStepDone DEF HandlerPC

LEMMA StartFetchKeeps ==
  ASSUME ScreeningInv, StartFetch, UNCHANGED <<scoring, notification>>
  PROVE  ScreeningInv'
<1>1. TypeOK /\ MarketTypes /\ MarketDataInv
  BY Types DEF ScreeningInv
<1> DEFINE new == [day |-> day, universe |-> wanted, finished |-> FALSE, good |-> FALSE]
<1>2. /\ Step(MD, "snapshot", "fetch") /\ fetches' = Append(fetches, new) /\ current' = Len(fetches')
      /\ left' = wanted /\ frame' = {} /\ UNCHANGED <<day, rows, caps, wanted, faults>>
  BY DEF StartFetch
<1>3. wanted \in Universe /\ Len(fetches) \in Nat
  BY <1>1, <1>2, Lengths DEF MarketDataInv, Step, At
<1>4. new \in FetchRun
  BY <1>1, <1>3 DEF MarketTypes, FetchRun
<1> HIDE DEF new
<1>5. /\ fetches' \in Seq(FetchRun) /\ Len(fetches') = Len(fetches) + 1
      /\ \A f \in 1..Len(fetches) : fetches'[f] = fetches[f]
  BY <1>1, <1>2, <1>4 DEF MarketTypes
<1>6. FetchId \subseteq FetchId' /\ current' \in FetchId'
  BY <1>2, <1>3, <1>5 DEF FetchId
<1>7. MarketTypes'
  BY <1>1, <1>2, <1>3, <1>5, <1>6 DEF MarketTypes, FetchId
<1>8. pc'[MD] = "fetch" => MarketDataInv'
  BY <1>2, <1>6 DEF MarketDataInv, At
<1>9. Len(fetches) <= Len(fetches') /\ \A f \in FetchId : fetches[f].finished => fetches'[f].finished
  BY <1>3, <1>5 DEF FetchId
<1> QED BY <1>2, <1>7, <1>8, <1>9, MarketDataStepDone DEF HandlerPC

LEMMA FetchTitleKeeps ==
  ASSUME ScreeningInv, FetchTitle, UNCHANGED <<scoring, notification>>
  PROVE  ScreeningInv'
<1>1. TypeOK /\ MarketTypes /\ MarketDataInv
  BY Types DEF ScreeningInv
<1>2. PICK saved \in BOOLEAN, cap \in BOOLEAN :
        /\ frame' = IF saved THEN frame \cup {NextTitle} ELSE frame
        /\ rows' = IF saved THEN rows \cup {<<current, NextTitle>>} ELSE rows
        /\ caps' = IF saved /\ cap THEN caps \cup {<<current, NextTitle>>} ELSE caps
  BY DEF FetchTitle
<1>3. /\ left # {} /\ Step(MD, "fetch", "fetch") /\ left' = left \ {NextTitle}
      /\ UNCHANGED <<day, fetches, current, wanted, faults>>
  BY DEF FetchTitle
<1>4. current \in FetchId /\ frame \subseteq Stored(current) /\ Len(fetches) \in Nat
  BY <1>1, <1>3, Lengths DEF MarketDataInv, Step, At
<1>5. NextTitle \in left /\ NextTitle \in Title
  <2>1. left \in SUBSET Nat /\ left \subseteq Title
    BY <1>1, ServicesAssumption DEF MarketTypes
  <2>2. \E t \in left : \A u \in left : t <= u
    BY <1>3, <2>1, LeastNumber
  <2> QED BY <2>1, <2>2 DEF NextTitle
<1>6. MarketTypes'
  BY <1>1, <1>2, <1>3, <1>4, <1>5 DEF MarketTypes, FetchId
<1>7. frame' \subseteq Stored(current)'
  BY <1>2, <1>3, <1>4, <1>5 DEF Stored
<1>8. pc'[MD] = "fetch" => MarketDataInv'
  BY <1>3, <1>4, <1>7 DEF MarketDataInv, At, FetchId, Stored
<1>9. rows \subseteq rows'
  BY <1>2
<1> QED BY <1>3, <1>4, <1>6, <1>8, <1>9, MarketDataStepDone DEF HandlerPC

LEMMA FinishFetchKeeps ==
  ASSUME ScreeningInv, FinishFetch, UNCHANGED <<scoring, notification>>
  PROVE  ScreeningInv'
<1>1. TypeOK /\ MarketTypes /\ MarketDataInv
  BY Types DEF ScreeningInv
<1>2. PICK good \in BOOLEAN : good = ShareOK(current, frame)
  BY DEF ShareOK
<1>3. /\ left = {} /\ Step(MD, "fetch", "publish") /\ UNCHANGED <<day, rows, caps, current, wanted, left, frame, faults>>
      /\ fetches' = [fetches EXCEPT ![current].finished = TRUE, ![current].good = good]
  BY <1>2 DEF FinishFetch, handler
<1>4. current \in FetchId /\ frame \subseteq Stored(current) /\ Len(fetches) \in Nat
  BY <1>1, <1>3, Lengths DEF MarketDataInv, Step, At
<1>5. PICK f \in FetchRun : f = fetches[current]
  BY <1>1, <1>4, Lengths
<1> DEFINE new == [f EXCEPT !.finished = TRUE, !.good = good]
<1>6. new \in FetchRun /\ new.finished
  BY DEF FetchRun
<1>7. fetches' = [fetches EXCEPT ![current] = new]
  BY <1>1, <1>3, <1>4, <1>5, Lengths DEF FetchRun
<1> HIDE DEF new
<1>8. /\ fetches' \in Seq(FetchRun) /\ Len(fetches') = Len(fetches)
      /\ \A g \in 1..Len(fetches) : fetches'[g] = IF g = current THEN new ELSE fetches[g]
  <2>1. fetches \in Seq(FetchRun) /\ new \in FetchRun /\ current \in 1..Len(fetches)
    BY <1>1, <1>4, <1>6 DEF MarketTypes, FetchId
  <2> QED BY <1>7, <2>1
<1>9. MarketTypes'
  BY <1>1, <1>3, <1>8 DEF MarketTypes, FetchId
<1>10. pc'[MD] = "publish" => MarketDataInv'
  BY <1>3, <1>4, <1>6, <1>8 DEF MarketDataInv, At, FetchId, Stored
<1>11. Len(fetches) <= Len(fetches') /\ \A g \in FetchId : fetches[g].finished => fetches'[g].finished
  BY <1>4, <1>6, <1>8 DEF FetchId
<1> QED BY <1>3, <1>9, <1>10, <1>11, MarketDataStepDone DEF HandlerPC

\* The handler is done or gives up.
LEMMA MarketDataEnds ==
  ASSUME ScreeningInv, MarketDataReset, UNCHANGED <<scoring, notification>>,
         ServicesTypes', JobInv', Alone(MD), pc'[MD] = "idle",
         stream \subseteq stream', \A e \in stream' : e \in stream \/ Backed(e)'
  PROVE  ScreeningInv'
<1>1. TypeOK /\ MarketTypes /\ Len(fetches) \in Nat
  BY Types, Lengths DEF ScreeningInv
<1>2. MarketTypes' /\ MarketDataInv'
  BY <1>1 DEF MarketDataReset, MarketTypes, MarketDataInv, At, FetchId
<1>3. Grows
  BY <1>1, Lengths DEF Grows, Extends, MarketDataReset, scoring, notification
<1> QED BY <1>2, <1>3, OfMarketData DEF StepBy

LEMMA PublishSnapshotKeeps ==
  ASSUME ScreeningInv, PublishSnapshot, UNCHANGED <<scoring, notification>>
  PROVE  ScreeningInv'
<1>1. TypeOK /\ ServicesTypes /\ MarketTypes /\ JobInv /\ MarketDataInv /\ MD \in Consumer
  BY Types, Kinds DEF ScreeningInv
<1>2. /\ At(MD, "publish") /\ ~At(MD, "idle") /\ MarketDataReset /\ faults' = faults
      /\ Settle(MD, {EventFor(MD, "fetched", current, frame)})
  BY DEF PublishSnapshot, At
<1>3. current \in FetchId /\ frame \subseteq Stored(current) /\ fetches[current].finished /\ current \in Nat
  BY <1>1, <1>2, Lengths DEF MarketDataInv, At, FetchId
<1>4. PICK e : e = EventFor(MD, "fetched", current, frame)
  OBVIOUS
<1>5. e \in Event /\ e.kind = "fetched" /\ e.ref = current /\ e.titles = frame
  BY <1>1, <1>2, <1>3, <1>4, EventOfRun DEF MarketTypes
<1>6. /\ ServicesTypes' /\ JobInv' /\ Alone(MD) /\ pc'[MD] = "idle" /\ stream' = stream \cup {e}
  BY <1>1, <1>2, <1>4, <1>5, SettleKeeps
<1>7. Backed(e)'
  BY <1>2, <1>3, <1>5 DEF Backed, MarketDataReset, FetchId, Stored
<1> QED BY <1>2, <1>6, <1>7, MarketDataEnds

LEMMA MarketDataFails ==
  ASSUME ScreeningInv, FetchFails \/ (Break(MD) /\ MarketDataReset), UNCHANGED <<scoring, notification>>
  PROVE  ScreeningInv'
<1>1. ServicesTypes /\ JobInv /\ MD \in Consumer /\ MarketDataReset
  BY Types, Kinds DEF ScreeningInv, FetchFails
<1>2. /\ ServicesTypes' /\ JobInv' /\ Alone(MD) /\ pc'[MD] = "idle" /\ ~At(MD, "idle")
      /\ stream \subseteq stream' /\ stream' \subseteq stream \cup FailureOf(MD)
  BY <1>1, RaiseKeeps, BreakKeeps DEF FetchFails, At
<1> QED BY <1>1, <1>2, FailuresAreBacked, MarketDataEnds
------------------------------------------------------------------------------
(* scoring.                                                                 *)

LEMMA ScoringTakes ==
  ASSUME ScreeningInv, Take(SC), UNCHANGED <<market, scoring, notification>>
  PROVE  ScreeningInv'
<1>1. TypeOK /\ ServicesTypes /\ JobInv /\ ScoringTypes /\ SC \in Consumer
  BY Types, Kinds DEF ScreeningInv
<1>2. ServicesTypes' /\ JobInv' /\ Alone(SC) /\ stream' = stream /\ pc'[SC] = "start"
  BY <1>1, TakeKeeps
<1>3. StepBy(SC)
  <2>1. rows' = rows /\ fetches' = fetches
    BY DEF market
  <2> QED BY <1>1, <1>2, <2>1, Quiet DEF StepBy, Grows, Extends, scoring, notification
<1>4. ScoringTypes' /\ ScoringInv'
  BY <1>1, <1>2 DEF ScoringTypes, ScoringInv, scoring, market, At, FetchId
<1> QED BY <1>3, <1>4, OfScoring

\* The snapshot a scoring works on is a stored one.
LEMMA SnapshotAtWork ==
  ASSUME ScreeningInv, ~At(SC, "idle")
  PROVE  /\ Message(SC) \in stream /\ Message(SC).kind = "fetched" /\ Message(SC).ref \in FetchId
         /\ Message(SC).titles \subseteq Title /\ Message(SC).run \in Run
<1>1. Message(SC) \in stream /\ Message(SC).kind = "fetched" /\ Message(SC).titles \subseteq Title /\ Message(SC).run \in Run
  BY Types, Kinds, MessageAtWork DEF ScreeningInv
<1> QED BY <1>1 DEF ScreeningInv, Backed

LEMMA RecordScoringKeeps ==
  ASSUME ScreeningInv, RecordScoring, UNCHANGED <<market, notification>>
  PROVE  ScreeningInv'
<1>1. TypeOK /\ ServicesTypes /\ JobInv /\ ScoringTypes /\ SC \in Consumer
  BY Types, Kinds DEF ScreeningInv
<1>2. PICK m : m = Message(SC)
  OBVIOUS
<1>3. PICK scored \in SUBSET m.titles :
        scorings' = Append(scorings, [fetch |-> m.ref, scored |-> scored])
  BY <1>2 DEF RecordScoring
<1>4. Step(SC, "start", "publish") /\ scoringId' = Len(scorings') /\ faults' = faults
  BY DEF RecordScoring
<1>5. m.ref \in FetchId /\ m.titles \subseteq Title
  BY <1>2, <1>4, SnapshotAtWork DEF Step, At
<1>6. ServicesTypes' /\ JobInv' /\ Alone(SC) /\ stream' = stream /\ pc'[SC] = "publish" /\ job'[SC] = job[SC]
  BY <1>1, <1>4, StepKeeps DEF HandlerPC
<1> DEFINE new == [fetch |-> m.ref, scored |-> scored]
           S == [fetch : FetchId, scored : SUBSET Title]
<1>7. new \in S /\ new.fetch = m.ref /\ new.scored \subseteq m.titles
  BY <1>3, <1>5
<1>8. scorings \in Seq(S) /\ scorings' = Append(scorings, new)
  BY <1>1, <1>3 DEF ScoringTypes
<1> HIDE DEF new, S
<1>9. /\ scorings' \in Seq(S) /\ Len(scorings) \in Nat /\ Len(scorings') = Len(scorings) + 1
      /\ scorings'[Len(scorings) + 1] = new
      /\ \A i \in 1..Len(scorings) : scorings'[i] = scorings[i]
  BY <1>7, <1>8
<1>10. ScoringTypes'
  BY <1>4, <1>9 DEF ScoringTypes, S, market, FetchId
<1>11. Message(SC)' = m
  BY <1>2, <1>6 DEF Message
<1>12. ScoringInv'
  BY <1>4, <1>6, <1>7, <1>9, <1>11 DEF ScoringInv, At
<1>13. Grows
  BY <1>1, <1>6, <1>9, Lengths DEF Grows, Extends, market, notification
<1> QED BY <1>6, <1>10, <1>12, <1>13, OfScoring DEF StepBy

\* The handler is done or gives up.
LEMMA ScoringEnds ==
  ASSUME ScreeningInv, ScoringReset, UNCHANGED <<market, notification>>,
         ServicesTypes', JobInv', Alone(SC), pc'[SC] = "idle",
         stream \subseteq stream', \A e \in stream' : e \in stream \/ Backed(e)'
  PROVE  ScreeningInv'
<1>1. TypeOK /\ ScoringTypes /\ Len(scorings) \in Nat
  BY Types, Lengths DEF ScreeningInv
<1>2. ScoringTypes' /\ ScoringInv'
  BY <1>1 DEF ScoringReset, ScoringTypes, ScoringInv, At, FetchId, market
<1>3. Grows
  BY <1>1, Lengths DEF Grows, Extends, ScoringReset, market, notification
<1> QED BY <1>2, <1>3, OfScoring DEF StepBy

LEMMA PublishScoringKeeps ==
  ASSUME ScreeningInv, PublishScoring, UNCHANGED <<market, notification>>
  PROVE  ScreeningInv'
<1>1. TypeOK /\ ServicesTypes /\ JobInv /\ ScoringInv /\ SC \in Consumer
  BY Types, Kinds DEF ScreeningInv
<1>2. PICK kind \in {"scored", "no_data"} :
        kind = IF scorings[scoringId].scored # {} THEN "scored" ELSE "no_data"
  OBVIOUS
<1>3. PICK e : e = EventFor(SC, kind, scoringId, scorings[scoringId].scored)
  OBVIOUS
<1>4. Settle(SC, {e})
  BY <1>2, <1>3 DEF PublishScoring
<1>5. At(SC, "publish") /\ ~At(SC, "idle") /\ ScoringReset /\ faults' = faults
  BY DEF PublishScoring, At
<1>6. PICK m : m = Message(SC)
  OBVIOUS
<1>7. m \in stream /\ m.kind = "fetched" /\ m.ref \in FetchId /\ m.titles \subseteq Title
  BY <1>5, <1>6, SnapshotAtWork
<1>8. /\ scoringId \in 1..Len(scorings) /\ scorings[scoringId].fetch = m.ref
      /\ scorings[scoringId].scored \subseteq m.titles /\ scoringId \in Nat
  BY <1>1, <1>5, <1>6, Lengths DEF ScoringInv
<1>9. /\ e \in Event /\ e.kind = kind /\ e.run = m.run /\ e.ref = scoringId
      /\ e.titles = scorings[scoringId].scored
  BY <1>1, <1>2, <1>3, <1>5, <1>6, <1>7, <1>8, EventOfRun
<1>10. ServicesTypes' /\ JobInv' /\ Alone(SC) /\ pc'[SC] = "idle" /\ stream' = stream \cup {e}
  BY <1>1, <1>4, <1>5, <1>9, SettleKeeps
<1>11. Backed(e)'
  BY <1>2, <1>4, <1>5, <1>7, <1>8, <1>9, <1>10 DEF Backed, ScoringReset
<1> QED BY <1>5, <1>10, <1>11, ScoringEnds

LEMMA ScoringGivesUp ==
  ASSUME ScreeningInv, ScoringFails \/ (Break(SC) /\ ScoringReset), UNCHANGED <<market, notification>>
  PROVE  ScreeningInv'
<1>1. ServicesTypes /\ JobInv /\ SC \in Consumer /\ ScoringReset
  BY Types, Kinds DEF ScreeningInv, ScoringFails
<1>2. /\ ServicesTypes' /\ JobInv' /\ Alone(SC) /\ pc'[SC] = "idle" /\ ~At(SC, "idle")
      /\ stream \subseteq stream' /\ stream' \subseteq stream \cup FailureOf(SC)
  BY <1>1, RaiseKeeps, BreakKeeps DEF ScoringFails, At
<1> QED BY <1>1, <1>2, FailuresAreBacked, ScoringEnds
------------------------------------------------------------------------------
(* notification.                                                            *)

MailRecord == [run : Run, kind : {"report", "error"}, ref : Nat]

\* The mail server has one more mail.
LEMMA MailSent ==
  ASSUME ScreeningInv, ~At(NO, "idle"), NEW kind \in {"report", "error"}, mails' = Append(mails, Mail(kind))
  PROVE  /\ mails' \in Seq(MailRecord) /\ Extends(mails, mails') /\ Len(mails') = Len(mails) + 1
         /\ mails'[Len(mails')] = Mail(kind)
<1>1. Mail(kind) \in MailRecord
  BY Types, Kinds, MessageAtWork DEF ScreeningInv, Mail, MailRecord
<1>2. mails \in Seq(MailRecord)
  BY Types DEF ScreeningInv, NotificationTypes, MailRecord
<1> QED BY <1>1, <1>2 DEF Extends

\* A report whose mail is logged has had it.
LEMMA LoggedStay ==
  ASSUME ScreeningInv, Extends(mails, mails'), Len(mails') \in Nat, Extends(reports, reports')
  PROVE  /\ \A i \in logged : reports'[i] = reports[i] /\ ReportMails(reports[i].ref)' # {}
         /\ \A i \in logged : i \in 1..Len(reports)
<1>1. TypeOK /\ NotificationInv /\ logged \subseteq 1..Len(reports)
  BY DEF ScreeningInv, TypeOK
<1>2. \A i \in logged : reports'[i] = reports[i]
  BY <1>1 DEF Extends
<1>3. ASSUME NEW i \in logged PROVE ReportMails(reports[i].ref)' # {}
  <2>1. PICK ref : ref = reports[i].ref
    OBVIOUS
  <2>2. ReportMails(ref)' # {}
    BY <1>1, <2>1, MailsStay DEF NotificationInv
  <2>3. reports'[i].ref = ref
    BY <1>2, <2>1
  <2> QED BY <2>2, <2>3 DEF ReportMails
<1> QED BY <1>1, <1>2, <1>3

\* The scoring a report is of is a stored one.
LEMMA ScoringAtWork ==
  ASSUME ScreeningInv, ~At(NO, "idle")
  PROVE  /\ Message(NO) \in stream /\ Message(NO).kind \in {"scored", "failed", "no_data"}
         /\ Message(NO).run \in Run /\ Message(NO).ref \in Nat
         /\ Message(NO).kind = "scored" => Message(NO).ref \in 1..Len(scorings)
<1>1. /\ Message(NO) \in stream /\ Message(NO).kind \in {"scored", "failed", "no_data"}
      /\ Message(NO).run \in Run /\ Message(NO).ref \in Nat
  BY Types, Kinds, MessageAtWork DEF ScreeningInv
<1> QED BY <1>1 DEF ScreeningInv, Backed

LEMMA NotificationTakes ==
  ASSUME ScreeningInv, Take(NO), UNCHANGED <<market, scoring, notification>>
  PROVE  ScreeningInv'
<1>1. TypeOK /\ ServicesTypes /\ JobInv /\ NotificationTypes /\ NO \in Consumer /\ PingsAreTrue
  BY Types, Kinds DEF ScreeningInv
<1>2. ServicesTypes' /\ JobInv' /\ Alone(NO) /\ stream' = stream /\ pc'[NO] = "start"
  BY <1>1, TakeKeeps
<1>3. StepBy(NO)
  <2>1. rows' = rows /\ fetches' = fetches
    BY DEF market
  <2> QED BY <1>1, <1>2, <2>1, Quiet DEF StepBy, Grows, Extends, scoring, notification
<1>4. NotificationTypes'
  BY <1>1 DEF NotificationTypes, notification, scoring
<1>5. NotificationInv'
  BY <1>2 DEF ScreeningInv, NotificationInv, notification, At, ReportMails
<1>6. PingsAreTrue'
  BY <1>1, <1>2 DEF PingsAreTrue, notification
<1> QED BY <1>3, <1>4, <1>5, <1>6, OfNotification

\* After a step of the handler its own tables are left to show.
LEMMA NotificationStepDone ==
  ASSUME ScreeningInv, NEW from, NEW to \in HandlerPC \ {"idle"}, from # "idle", Step(NO, from, to),
         Fault \/ UNCHANGED faults, UNCHANGED <<market, scoring>>,
         Extends(reports, reports'), Extends(mails, mails'), NotificationTypes',
         pc'[NO] = to /\ Message(NO)' = Message(NO) => NotificationInv' /\ PingsAreTrue'
  PROVE  ScreeningInv'
<1>1. TypeOK /\ ServicesTypes /\ JobInv /\ NO \in Consumer
  BY Types, Kinds DEF ScreeningInv
<1>2. /\ ServicesTypes' /\ JobInv' /\ Alone(NO) /\ stream' = stream /\ pc'[NO] = to /\ job'[NO] = job[NO]
  BY <1>1, StepKeeps
<1>3. Message(NO)' = Message(NO)
  BY <1>2 DEF Message
<1>4. Grows
  BY <1>1, <1>2, Lengths DEF Grows, Extends, market, scoring
<1> QED BY <1>2, <1>3, <1>4, OfNotification DEF StepBy

LEMMA AlreadyKeeps ==
  ASSUME ScreeningInv, Already, UNCHANGED <<market, scoring>>
  PROVE  ScreeningInv'
<1>1. TypeOK /\ NotificationTypes /\ NotificationInv /\ PingsAreTrue /\ Len(reports) \in Nat /\ Len(mails) \in Nat
  BY Types, Lengths DEF ScreeningInv
<1>2. PICK m : m = Message(NO)
  OBVIOUS
<1>3. /\ Step(NO, "start", "publish") /\ m.kind = "scored" /\ Delivered(m.ref) # {}
      /\ reportId' = CHOOSE i \in Delivered(m.ref) : \A j \in Delivered(m.ref) : i <= j
      /\ UNCHANGED <<reports, logged, mails, pings, faults>>
  BY <1>2 DEF Already
<1>4. Delivered(m.ref) \in SUBSET Nat /\ logged \subseteq 1..Len(reports)
  <2>1. logged \subseteq 1..Len(reports) /\ 1..Len(reports) \subseteq Nat
    BY <1>1 DEF NotificationTypes
  <2>2. Delivered(m.ref) \subseteq logged
    BY DEF Delivered
  <2> QED BY <2>1, <2>2
<1>5. reportId' \in Delivered(m.ref)
  <2>1. \E i \in Delivered(m.ref) : \A j \in Delivered(m.ref) : i <= j
    BY <1>3, <1>4, LeastNumber
  <2> QED BY <1>3, <2>1
<1>6. reportId' \in 1..Len(reports) /\ reports[reportId'].ref = m.ref /\ ReportMails(m.ref) # {}
  BY <1>1, <1>4, <1>5 DEF Delivered, NotificationInv
<1>7. NotificationTypes'
  BY <1>1, <1>3, <1>6 DEF NotificationTypes, scoring
<1>8. ASSUME pc'[NO] = "publish", Message(NO)' = Message(NO) PROVE NotificationInv' /\ PingsAreTrue'
  <2>1. ReportMails(m.ref)' # {}
    BY <1>3, <1>6 DEF ReportMails
  <2>2. NotificationInv'
    BY <1>1, <1>2, <1>3, <1>6, <1>8, <2>1 DEF NotificationInv, At, ReportMails
  <2> QED BY <1>1, <1>3, <2>2 DEF PingsAreTrue, Step
<1>9. Extends(reports, reports') /\ Extends(mails, mails')
  BY <1>1, <1>3 DEF Extends
<1> QED BY <1>3, <1>7, <1>8, <1>9, NotificationStepDone DEF HandlerPC

LEMMA BuildReportKeeps ==
  ASSUME ScreeningInv, BuildReport, UNCHANGED <<market, scoring>>
  PROVE  ScreeningInv'
<1>1. TypeOK /\ NotificationTypes /\ NotificationInv /\ PingsAreTrue /\ Len(reports) \in Nat /\ Len(mails) \in Nat
  BY Types, Lengths DEF ScreeningInv
<1>2. PICK m : m = Message(NO)
  OBVIOUS
<1> DEFINE new == [run |-> m.run, ref |-> m.ref]
           S == [run : Run, ref : 1..Len(scorings)]
           to == IF Delivers THEN "send" ELSE "publish"
<1>3. /\ Step(NO, "start", to) /\ m.kind = "scored"
      /\ Delivers => Delivered(m.ref) = {}
      /\ reports' = Append(reports, new) /\ reportId' = Len(reports')
      /\ UNCHANGED <<logged, mails, pings, faults>>
  BY <1>2 DEF BuildReport
<1>4. m.run \in Run /\ m.ref \in 1..Len(scorings)
  BY <1>2, <1>3, ScoringAtWork DEF Step, At
<1>5. new \in S /\ new.ref = m.ref
  BY <1>4
<1>6. reports \in Seq(S)
  BY <1>1 DEF NotificationTypes
<1> HIDE DEF S, new
<1>7. /\ reports' \in Seq(S) /\ Len(reports') = Len(reports) + 1 /\ reports'[Len(reports')] = new
      /\ Extends(reports, reports')
  BY <1>1, <1>3, <1>5, <1>6 DEF Extends
<1>8. NotificationTypes'
  BY <1>1, <1>3, <1>7 DEF NotificationTypes, scoring, S
<1>9. Extends(mails, mails')
  BY <1>1, <1>3 DEF Extends
<1>10. ASSUME pc'[NO] = to, Message(NO)' = Message(NO) PROVE NotificationInv' /\ PingsAreTrue'
  <2>1. /\ \A i \in logged : reports'[i] = reports[i] /\ ReportMails(reports[i].ref)' # {}
        /\ \A i \in logged : i \in 1..Len(reports)
    BY <1>1, <1>3, <1>7, <1>9, LoggedStay
  <2>2. reportId' \in 1..Len(reports') /\ reports'[reportId'].ref = m.ref
    BY <1>1, <1>3, <1>5, <1>7
  <2>3. Delivers' = Delivers
    BY <1>10 DEF Delivers
  <2>4. Delivered(m.ref)' = Delivered(m.ref)
    BY <1>3, <2>1 DEF Delivered
  <2>5. ASSUME Delivers PROVE NotificationInv'
    <3>1. Delivered(m.ref)' = {} /\ pc'[NO] = "send"
      BY <1>3, <1>10, <2>4, <2>5
    <3>2. Delivered(Message(NO).ref)' = {}
      BY <1>2, <1>10, <3>1 DEF Delivered
    <3> QED BY <1>2, <1>3, <1>10, <2>1, <2>2, <3>1, <3>2 DEF NotificationInv, At
  <2>6. ASSUME ~Delivers PROVE NotificationInv'
    <3>1. pc'[NO] = "publish" /\ ~Delivers'
      BY <1>10, <2>3, <2>6
    <3> QED BY <1>2, <1>3, <1>10, <2>1, <2>2, <3>1 DEF NotificationInv, At
  <2>7. PingsAreTrue'
    BY <1>1, <1>3 DEF PingsAreTrue, Step
  <2> QED BY <2>5, <2>6, <2>7
<1> QED BY <1>3, <1>7, <1>8, <1>9, <1>10, NotificationStepDone DEF HandlerPC

\* Between the build of the report and its event, the report and its message.
LEMMA ReportAtWork ==
  ASSUME ScreeningInv, pc[NO] \in {"send", "log", "ping", "publish"}
  PROVE  /\ ~At(NO, "idle") /\ Message(NO).kind = "scored" /\ reportId \in 1..Len(reports)
         /\ reports[reportId].ref = Message(NO).ref
BY DEF ScreeningInv, NotificationInv, At

LEMMA SendReportKeeps ==
  ASSUME ScreeningInv, SendReport, UNCHANGED <<market, scoring>>
  PROVE  ScreeningInv'
<1>1. TypeOK /\ NotificationTypes /\ NotificationInv /\ PingsAreTrue /\ Len(reports) \in Nat /\ Len(mails) \in Nat
  BY Types, Lengths DEF ScreeningInv
<1>2. PICK m : m = Message(NO)
  OBVIOUS
<1>3. /\ Step(NO, "send", "log") /\ pc[NO] = "send" /\ ~At(NO, "idle")
      /\ mails' = Append(mails, Mail("report")) /\ UNCHANGED <<reports, logged, pings, reportId, faults>>
  BY DEF SendReport, Step, At
<1>4. /\ mails' \in Seq(MailRecord) /\ Extends(mails, mails') /\ Len(mails') = Len(mails) + 1
      /\ mails'[Len(mails')] = Mail("report")
  BY <1>3, MailSent
<1>5. NotificationTypes' /\ Extends(reports, reports')
  BY <1>1, <1>3, <1>4 DEF NotificationTypes, MailRecord, scoring, Extends
<1>6. m.kind = "scored" /\ reportId \in 1..Len(reports) /\ reports[reportId].ref = m.ref
  BY <1>2, <1>3, ReportAtWork
<1>7. ASSUME pc'[NO] = "log", Message(NO)' = Message(NO) PROVE NotificationInv' /\ PingsAreTrue'
  <2>1. \A i \in logged : ReportMails(reports[i].ref)' # {}
    BY <1>1, <1>4, <1>5, LoggedStay
  <2>2. MailOut(m)'
    BY <1>1, <1>2, <1>4 DEF MailOut, IsReport, Mail
  <2>3. MailOut(Message(NO))'
    BY <1>2, <1>7, <2>2 DEF MailOut
  <2>4. NotificationInv'
    BY <1>2, <1>3, <1>6, <1>7, <2>1, <2>3 DEF NotificationInv, At
  <2>5. \A i \in 1..Len(mails) : i \in 1..Len(mails') /\ mails'[i] = mails[i]
    BY <1>1, <1>4 DEF Extends
  <2>6. PingsAreTrue'
    BY <1>1, <1>3, <2>5 DEF PingsAreTrue, Step
  <2> QED BY <2>4, <2>6
<1> QED BY <1>3, <1>4, <1>5, <1>7, NotificationStepDone DEF HandlerPC

\* A mail that is out is one of those the scoring has had.
LEMMA OutIsMailed ==
  ASSUME NEW e, MailOut(e)
  PROVE  /\ ReportMails(e.ref) # {}
         /\ \E i \in 1..Len(mails) : mails[i].kind = "report" /\ mails[i].run = e.run
BY DEF MailOut, IsReport, ReportMails

LEMMA LogReportKeeps ==
  ASSUME ScreeningInv, LogReport, UNCHANGED <<market, scoring>>
  PROVE  ScreeningInv'
<1>1. TypeOK /\ NotificationTypes /\ NotificationInv /\ PingsAreTrue /\ Len(reports) \in Nat /\ Len(mails) \in Nat
  BY Types, Lengths DEF ScreeningInv
<1>2. PICK m : m = Message(NO)
  OBVIOUS
<1>3. /\ Step(NO, "log", "ping") /\ pc[NO] = "log" /\ (Fault \/ UNCHANGED faults)
      /\ logged' \subseteq logged \cup {reportId} /\ UNCHANGED <<reports, mails, pings, reportId>>
  BY DEF LogReport, Step, At
<1>4. m.kind = "scored" /\ reportId \in 1..Len(reports) /\ reports[reportId].ref = m.ref
  BY <1>2, <1>3, ReportAtWork
<1>5. MailOut(m) /\ ReportMails(m.ref) # {}
  BY <1>1, <1>2, <1>3, OutIsMailed DEF NotificationInv
<1>6. NotificationTypes' /\ Extends(reports, reports') /\ Extends(mails, mails')
  <2>1. NotificationTypes'
    BY <1>1, <1>3, <1>4 DEF NotificationTypes, scoring
  <2> QED BY <1>1, <1>3, <2>1 DEF Extends
<1>7. ASSUME pc'[NO] = "ping", Message(NO)' = Message(NO) PROVE NotificationInv' /\ PingsAreTrue'
  <2>1. \A i \in logged' : ReportMails(reports[i].ref) # {}
    BY <1>1, <1>3, <1>4, <1>5 DEF NotificationInv
  <2>2. \A i \in logged' : ReportMails(reports[i].ref)' # {}
    BY <1>3, <2>1 DEF ReportMails
  <2>3. MailOut(Message(NO))'
    BY <1>2, <1>3, <1>5, <1>7 DEF MailOut
  <2>4. NotificationInv'
    BY <1>2, <1>3, <1>4, <1>7, <2>2, <2>3 DEF NotificationInv, At
  <2>5. PingsAreTrue'
    BY <1>1, <1>3 DEF PingsAreTrue, Step
  <2> QED BY <2>4, <2>5
<1> QED BY <1>3, <1>6, <1>7, NotificationStepDone DEF HandlerPC

LEMMA PingOKKeeps ==
  ASSUME ScreeningInv, PingOK, UNCHANGED <<market, scoring>>
  PROVE  ScreeningInv'
<1>1. TypeOK /\ NotificationTypes /\ NotificationInv /\ PingsAreTrue /\ Len(reports) \in Nat /\ Len(mails) \in Nat
  BY Types, Lengths DEF ScreeningInv
<1>2. PICK m : m = Message(NO)
  OBVIOUS
<1>3. /\ Step(NO, "ping", "publish") /\ pc[NO] = "ping" /\ ~At(NO, "idle")
      /\ pings' \subseteq pings \cup {<<m.run, TRUE>>} /\ UNCHANGED <<reports, logged, mails, reportId, faults>>
  BY <1>2 DEF PingOK, Step, At
<1>4. m.kind = "scored" /\ reportId \in 1..Len(reports) /\ reports[reportId].ref = m.ref /\ m.run \in Run
  BY <1>2, <1>3, ReportAtWork, ScoringAtWork
<1>5. /\ ReportMails(m.ref) # {}
      /\ \E i \in 1..Len(mails) : mails[i].kind = "report" /\ mails[i].run = m.run
  BY <1>1, <1>2, <1>3, OutIsMailed DEF NotificationInv
<1>6. NotificationTypes' /\ Extends(reports, reports') /\ Extends(mails, mails')
  <2>1. <<m.run, TRUE>> \in Run \X BOOLEAN
    BY <1>4
  <2>2. pings' \subseteq Run \X BOOLEAN
    BY <1>1, <1>3, <2>1 DEF NotificationTypes
  <2> QED BY <1>1, <1>3, <2>2 DEF NotificationTypes, scoring, Extends
<1>7. ASSUME pc'[NO] = "publish", Message(NO)' = Message(NO) PROVE NotificationInv' /\ PingsAreTrue'
  <2>1. \A ref : ReportMails(ref)' = ReportMails(ref)
    BY <1>3 DEF ReportMails
  <2>2. ReportMails(Message(NO).ref)' # {}
    BY <1>2, <1>3, <1>5, <1>7 DEF ReportMails
  <2>3. \A i \in logged' : ReportMails(reports[i].ref)' # {}
    BY <1>1, <1>3 DEF NotificationInv, ReportMails
  <2>4. NotificationInv'
    BY <1>2, <1>3, <1>4, <1>7, <2>2, <2>3 DEF NotificationInv, At
  <2>5. stream' = stream
    BY <1>3 DEF Step
  <2>6. ASSUME NEW p \in pings'
        PROVE  IF p[2] THEN \E i \in 1..Len(mails') : mails'[i].kind = "report" /\ mails'[i].run = p[1]
                       ELSE \E e \in stream' : e.run = p[1] /\ e.kind \in {"failed", "no_data"}
    <3>1. CASE p \in pings
      BY <1>1, <1>3, <2>5, <3>1 DEF PingsAreTrue
    <3>2. CASE p = <<m.run, TRUE>>
      <4>1. p[1] = m.run /\ p[2]
        BY <3>2
      <4> QED BY <1>3, <1>5, <4>1
    <3> QED BY <1>3, <3>1, <3>2
  <2>7. PingsAreTrue'
    BY <2>6 DEF PingsAreTrue
  <2> QED BY <2>4, <2>7
<1> QED BY <1>3, <1>6, <1>7, NotificationStepDone DEF HandlerPC

LEMMA PingFailureKeeps ==
  ASSUME ScreeningInv, PingFailure, UNCHANGED <<market, scoring>>
  PROVE  ScreeningInv'
<1>1. TypeOK /\ NotificationTypes /\ NotificationInv /\ PingsAreTrue /\ Len(reports) \in Nat /\ Len(mails) \in Nat
  BY Types, Lengths DEF ScreeningInv
<1>2. PICK m : m = Message(NO)
  OBVIOUS
<1>3. /\ Step(NO, "start", "tell") /\ ~At(NO, "idle") /\ m.kind \in {"failed", "no_data"}
      /\ pings' \subseteq pings \cup {<<m.run, FALSE>>} /\ UNCHANGED <<reports, logged, mails, reportId, faults>>
  BY <1>2 DEF PingFailure, Step, At
<1>4. m \in stream /\ m.run \in Run
  BY <1>2, <1>3, ScoringAtWork
<1>5. NotificationTypes' /\ Extends(reports, reports') /\ Extends(mails, mails')
  <2>1. <<m.run, FALSE>> \in Run \X BOOLEAN
    BY <1>4
  <2>2. pings' \subseteq Run \X BOOLEAN
    BY <1>1, <1>3, <2>1 DEF NotificationTypes
  <2> QED BY <1>1, <1>3, <2>2 DEF NotificationTypes, scoring, Extends
<1>6. ASSUME pc'[NO] = "tell", Message(NO)' = Message(NO) PROVE NotificationInv' /\ PingsAreTrue'
  <2>1. \A i \in logged' : ReportMails(reports[i].ref)' # {}
    BY <1>1, <1>3 DEF NotificationInv, ReportMails
  <2>2. NotificationInv'
    BY <1>6, <2>1 DEF NotificationInv, At
  <2>3. stream' = stream
    BY <1>3 DEF Step
  <2>4. ASSUME NEW p \in pings'
        PROVE  IF p[2] THEN \E i \in 1..Len(mails') : mails'[i].kind = "report" /\ mails'[i].run = p[1]
                       ELSE \E e \in stream' : e.run = p[1] /\ e.kind \in {"failed", "no_data"}
    <3>1. CASE p \in pings
      BY <1>1, <1>3, <2>3, <3>1 DEF PingsAreTrue
    <3>2. CASE p = <<m.run, FALSE>>
      <4>1. p[1] = m.run /\ ~p[2]
        BY <3>2
      <4> QED BY <1>3, <1>4, <2>3, <4>1
    <3> QED BY <1>3, <3>1, <3>2
  <2>5. PingsAreTrue'
    BY <2>4 DEF PingsAreTrue
  <2> QED BY <2>2, <2>5
<1> QED BY <1>3, <1>5, <1>6, NotificationStepDone DEF HandlerPC

\* The handler is done or gives up, perhaps with one mail more.
LEMMA NotificationEnds ==
  ASSUME ScreeningInv, UNCHANGED <<market, scoring, reports, logged, pings>>, reportId' \in {0, reportId},
         mails' = mails \/ \E kind \in {"report", "error"} : mails' = Append(mails, Mail(kind)),
         ~At(NO, "idle"), ServicesTypes', JobInv', Alone(NO), pc'[NO] = "idle",
         stream \subseteq stream', \A e \in stream' : e \in stream \/ Backed(e)'
  PROVE  ScreeningInv'
<1>1. TypeOK /\ NotificationTypes /\ PingsAreTrue /\ Len(reports) \in Nat /\ Len(mails) \in Nat
  BY Types, Lengths DEF ScreeningInv
<1>2. mails' \in Seq(MailRecord) /\ Extends(mails, mails') /\ Len(mails') \in Nat
  <2>1. CASE mails' = mails
    BY <1>1, <2>1 DEF NotificationTypes, MailRecord, Extends
  <2>2. CASE \E kind \in {"report", "error"} : mails' = Append(mails, Mail(kind))
    BY <1>1, <2>2, MailSent
  <2> QED BY <2>1, <2>2
<1>3. NotificationTypes' /\ Extends(reports, reports')
  BY <1>1, <1>2 DEF NotificationTypes, MailRecord, scoring, Extends
<1>4. Grows
  BY <1>1, <1>2, <1>3, Lengths DEF Grows, Extends, market, scoring
<1>5. \A i \in logged' : ReportMails(reports[i].ref)' # {}
  BY <1>2, <1>3, LoggedStay
<1>6. NotificationInv'
  BY <1>5 DEF NotificationInv, At
<1>7. TypeOK'
  <2>1. ScoringTypes' /\ MarketTypes'
    BY <1>1, Types DEF ScoringTypes, MarketTypes, scoring, market, FetchId
  <2> QED BY <1>3, <2>1 DEF TypeOK, ServicesTypes, MarketTypes, ScoringTypes, NotificationTypes, FetchRun
<1>8. PingsAreTrue'
  BY <1>1, <1>4, <1>7, PingsStay
<1> QED BY <1>3, <1>4, <1>6, <1>8, OfNotification DEF StepBy

LEMMA PublishReportKeeps ==
  ASSUME ScreeningInv, PublishReport, UNCHANGED <<market, scoring>>
  PROVE  ScreeningInv'
<1>1. TypeOK /\ ServicesTypes /\ JobInv /\ NotificationInv /\ NO \in Consumer
  BY Types, Kinds DEF ScreeningInv
<1>2. /\ At(NO, "publish") /\ ~At(NO, "idle") /\ pc[NO] = "publish" /\ NotificationReset /\ faults' = faults
      /\ Settle(NO, {EventFor(NO, "reported", reportId, {})})
  BY DEF PublishReport, At
<1>3. PICK m : m = Message(NO)
  OBVIOUS
<1>4. PICK e : e = EventFor(NO, "reported", reportId, {})
  OBVIOUS
<1>5. /\ m \in stream /\ m.kind = "scored" /\ reportId \in 1..Len(reports) /\ reportId \in Nat
      /\ reports[reportId].ref = m.ref
  BY <1>1, <1>2, <1>3, ReportAtWork, ScoringAtWork, Lengths
<1>6. e \in Event /\ e.kind = "reported" /\ e.run = m.run /\ e.ref = reportId
  BY <1>1, <1>2, <1>3, <1>4, <1>5, EventOfRun
<1>7. ServicesTypes' /\ JobInv' /\ Alone(NO) /\ pc'[NO] = "idle" /\ stream' = stream \cup {e}
  BY <1>1, <1>2, <1>4, <1>6, SettleKeeps
<1>8. m.run \in Delivering => ReportMails(m.ref) # {}
  BY <1>1, <1>2, <1>3 DEF NotificationInv, Delivers
<1>9. UNCHANGED <<reports, logged, mails, pings>> /\ reportId' = 0
  BY <1>2 DEF NotificationReset
<1>10. e.run \in Delivering => ReportMails(reports[e.ref].ref)' # {}
  BY <1>5, <1>6, <1>8, <1>9 DEF ReportMails
<1>11. Backed(e)'
  BY <1>5, <1>6, <1>7, <1>9, <1>10 DEF Backed
<1> QED BY <1>2, <1>7, <1>9, <1>11, NotificationEnds

LEMMA TellFailureKeeps ==
  ASSUME ScreeningInv, TellFailure, UNCHANGED <<market, scoring>>
  PROVE  ScreeningInv'
<1>1. ServicesTypes /\ JobInv /\ NO \in Consumer
  BY Types, Kinds DEF ScreeningInv
<1>2. /\ ~At(NO, "idle") /\ Settle(NO, {}) /\ UNCHANGED <<reports, logged, pings, reportId>>
      /\ Fault \/ UNCHANGED faults
      /\ mails' = mails \/ mails' = Append(mails, Mail("error"))
  BY DEF TellFailure, At
<1>3. ServicesTypes' /\ JobInv' /\ Alone(NO) /\ pc'[NO] = "idle" /\ stream' = stream
  <2>1. {} \in SUBSET Event
    OBVIOUS
  <2> QED BY <1>1, <1>2, <2>1, SettleKeeps
<1> QED BY <1>2, <1>3, NotificationEnds

LEMMA NotificationFails ==
  ASSUME ScreeningInv, SendFails \/ ReportFails \/ (Break(NO) /\ NotificationReset), UNCHANGED <<market, scoring>>
  PROVE  ScreeningInv'
<1>1. ServicesTypes /\ JobInv /\ NO \in Consumer
  BY Types, Kinds DEF ScreeningInv
<1>2. /\ ServicesTypes' /\ JobInv' /\ Alone(NO) /\ pc'[NO] = "idle" /\ ~At(NO, "idle")
      /\ stream \subseteq stream' /\ stream' \subseteq stream \cup FailureOf(NO)
  BY <1>1, RaiseKeeps, BreakKeeps DEF SendFails, ReportFails, At
<1>3. /\ UNCHANGED <<reports, logged, pings>> /\ reportId' = 0
      /\ mails' = mails \/ mails' = Append(mails, Mail("report"))
  BY DEF SendFails, ReportFails, NotificationReset
<1>4. \A e \in FailureOf(NO) : Backed(e)'
  BY <1>1, <1>2, FailuresAreBacked
<1> QED BY <1>1, <1>2, <1>3, <1>4, NotificationEnds
------------------------------------------------------------------------------
(* The rest of Next.                                                        *)

LEMMA RequestKeeps ==
  ASSUME ScreeningInv, NEW r \in Run, Request(r)
  PROVE  ScreeningInv'
<1>1. TypeOK /\ ServicesTypes /\ JobInv /\ MarketTypes /\ MarketDataInv
  BY Types DEF ScreeningInv
<1>2. PICK e : e = [kind |-> "requested", run |-> r, ref |-> 0, titles |-> {}]
  OBVIOUS
<1>3. /\ stream' = stream \cup {e} /\ UNCHANGED <<maxDeliver, settled, tries, job, pc, lost, faults, market, scoring, notification>>
  BY <1>2 DEF Request
<1>4. e \in Event /\ e.kind = "requested"
  BY <1>2 DEF Event
<1>5. ServicesTypes' /\ JobInv' /\ Alone(MD)
  BY <1>1, <1>3, <1>4 DEF ServicesTypes, JobInv, Alone, At
<1>6. Backed(e)'
  BY <1>4 DEF Backed
<1>7. Grows
  BY <1>1, <1>3, Lengths DEF Grows, Extends, market, scoring, notification
<1>8. MarketTypes' /\ MarketDataInv'
  BY <1>1, <1>3 DEF MarketTypes, MarketDataInv, market, FetchId, Stored, At
<1> QED BY <1>3, <1>5, <1>6, <1>7, <1>8, OfMarketData DEF StepBy

LEMMA NextDayKeeps ==
  ASSUME ScreeningInv, NextDay, UNCHANGED <<scoring, notification>>
  PROVE  ScreeningInv'
<1>1. TypeOK /\ ServicesTypes /\ JobInv /\ MarketTypes /\ MarketDataInv
  BY Types DEF ScreeningInv
<1>2. /\ day < MaxDay /\ day' = day + 1
      /\ UNCHANGED <<maxDeliver, stream, settled, tries, job, pc, lost, faults, fetches, rows, caps, current, wanted, left, frame>>
  BY DEF NextDay, services, handler
<1>3. ServicesTypes' /\ JobInv' /\ Alone(MD)
  BY <1>1, <1>2 DEF ServicesTypes, JobInv, Alone, At
<1>4. Grows
  BY <1>1, <1>2, Lengths DEF Grows, Extends, scoring, notification
<1>5. day' \in 1..MaxDay
  BY <1>1, <1>2, MarketDataAssumption DEF MarketTypes
<1>6. MarketTypes' /\ MarketDataInv'
  BY <1>1, <1>2, <1>5 DEF MarketTypes, MarketDataInv, FetchId, Stored, At
<1> QED BY <1>2, <1>3, <1>4, <1>6, OfMarketData DEF StepBy

LEMMA StutterKeeps ==
  ASSUME ScreeningInv, UNCHANGED vars
  PROVE  ScreeningInv'
<1>1. UNCHANGED <<maxDeliver, stream, settled, tries, job, pc, lost, faults, day, fetches, rows, caps, current, wanted, left, frame,
                  scorings, scoringId, reports, logged, mails, pings, reportId>>
  BY DEF vars, services, market, scoring, notification
<1>2. TypeOK /\ ServicesTypes /\ JobInv /\ MarketTypes /\ MarketDataInv
  BY Types DEF ScreeningInv
<1>3. ServicesTypes' /\ JobInv' /\ Alone(MD)
  BY <1>1, <1>2 DEF ServicesTypes, JobInv, Alone, At
<1>4. Grows
  BY <1>1, <1>2, Lengths DEF Grows, Extends
<1>5. MarketTypes' /\ MarketDataInv'
  BY <1>1, <1>2 DEF MarketTypes, MarketDataInv, FetchId, Stored, At
<1> QED BY <1>1, <1>3, <1>4, <1>5, OfMarketData DEF StepBy, scoring, notification

LEMMA InitHolds ==
  ASSUME Init
  PROVE  ScreeningInv
<1>1. /\ maxDeliver \in 1..MaxDeliver /\ lost = {}
      /\ stream = {} /\ settled = [c \in Consumer |-> {}] /\ tries = [c \in Consumer |-> {}]
      /\ job = [c \in Consumer |-> {}] /\ pc = [c \in Consumer |-> "idle"] /\ faults = 0
      /\ day = 1 /\ fetches = <<>> /\ rows = {} /\ caps = {}
      /\ current = 0 /\ wanted = {} /\ left = {} /\ frame = {}
      /\ scorings = <<>> /\ scoringId = 0
      /\ reports = <<>> /\ logged = {} /\ mails = <<>> /\ pings = {} /\ reportId = 0
  BY DEF Init, ServicesInit, MarketDataInit, ScoringInit, NotificationInit
<1>2. ServicesTypes
  BY <1>1, ServicesAssumption DEF ServicesTypes, HandlerPC
<1>3. MarketTypes /\ ScoringTypes /\ NotificationTypes
  BY <1>1, MarketDataAssumption DEF MarketTypes, ScoringTypes, NotificationTypes, FetchId
<1>4. JobInv
  BY <1>1 DEF JobInv, At
<1>5. MarketDataInv /\ ScoringInv /\ NotificationInv
  BY <1>1, Kinds DEF MarketDataInv, ScoringInv, NotificationInv, At
<1>6. PingsAreTrue /\ \A e \in stream : Backed(e)
  BY <1>1 DEF PingsAreTrue
<1>7. TypeOK
  BY <1>2, <1>3, Types
<1> QED BY <1>4, <1>5, <1>6, <1>7 DEF ScreeningInv

LEMMA NextKeeps ==
  ASSUME ScreeningInv, [Next]_vars
  PROVE  ScreeningInv'
<1>1. CASE \E r \in Run : Request(r)
  BY <1>1, RequestKeeps
<1>2. CASE MarketDataWork
  <2>1. UNCHANGED <<scoring, notification>>
    BY <1>2 DEF MarketDataWork
  <2>2. CASE Take(MD) /\ UNCHANGED market
    BY <2>1, <2>2, MarketDataTakes
  <2>3. CASE MarketDataStep
    BY <2>1, <2>3, LoadUniverseKeeps, ReuseKeeps, StartFetchKeeps, FetchTitleKeeps, FinishFetchKeeps, PublishSnapshotKeeps
       DEF MarketDataStep
  <2> QED BY <1>2, <2>2, <2>3 DEF MarketDataWork
<1>3. CASE ScoringWork
  <2>1. UNCHANGED <<market, notification>>
    BY <1>3 DEF ScoringWork
  <2>2. CASE Take(SC) /\ UNCHANGED scoring
    BY <2>1, <2>2, ScoringTakes
  <2>3. CASE ScoringStep
    BY <2>1, <2>3, RecordScoringKeeps, PublishScoringKeeps DEF ScoringStep
  <2> QED BY <1>3, <2>2, <2>3 DEF ScoringWork
<1>4. CASE NotificationWork
  <2>1. UNCHANGED <<market, scoring>>
    BY <1>4 DEF NotificationWork
  <2>2. CASE Take(NO) /\ UNCHANGED notification
    BY <2>1, <2>2, NotificationTakes
  <2>3. CASE NotificationStep
    BY <2>1, <2>3, AlreadyKeeps, BuildReportKeeps, SendReportKeeps, LogReportKeeps, PingOKKeeps, PublishReportKeeps,
       PingFailureKeeps, TellFailureKeeps DEF NotificationStep
  <2> QED BY <1>4, <2>2, <2>3 DEF NotificationWork
<1>5. CASE Failure
  BY <1>5, MarketDataFails, ScoringGivesUp, NotificationFails DEF Failure
<1>6. CASE NextDay /\ UNCHANGED <<scoring, notification>>
  BY <1>6, NextDayKeeps
<1>7. CASE UNCHANGED vars
  BY <1>7, StutterKeeps
<1> QED BY <1>1, <1>2, <1>3, <1>4, <1>5, <1>6, <1>7 DEF Next

LEMMA ScreeningInvariant == Spec => []ScreeningInv
<1>1. Init => ScreeningInv
  BY InitHolds
<1>2. ScreeningInv /\ [Next]_vars => ScreeningInv'
  BY NextKeeps
<1> QED BY <1>1, <1>2, PTL DEF Spec
------------------------------------------------------------------------------
(* Theorems.                                                                *)

\* The variables keep their types: handlers work on messages of the stream, no message
\* is tried more often than max_deliver allows, reports are of stored scorings.
THEOREM ScreeningTypes == Spec => []TypeOK
<1>1. ScreeningInv => TypeOK
  BY DEF ScreeningInv
<1> QED BY <1>1, ScreeningInvariant, PTL

\* What an event of the chain says is backed by what is stored: a snapshot by the rows
\* of its fetch, new or used again, and a report by the scoring of a snapshot of its run.
THEOREM EventsBacked == Spec => []EventsAreBacked
<1>1. ScreeningInv => EventsAreBacked
  <2> SUFFICES ASSUME ScreeningInv PROVE EventsAreBacked
    OBVIOUS
  <2>1. \A e \in stream : Backed(e)
    BY DEF ScreeningInv
  <2>2. SnapshotIsStored
    BY <2>1 DEF SnapshotIsStored, Backed
  <2>3. ASSUME NEW e \in stream, e.kind = "reported"
        PROVE  \E s, f \in stream :
                 /\ s.kind = "scored" /\ s.run = e.run /\ reports[e.ref].ref = s.ref
                 /\ f.kind = "fetched" /\ f.run = e.run /\ scorings[s.ref].fetch = f.ref
                 /\ s.titles \subseteq f.titles
    <3>1. PICK s \in stream : s.kind = "scored" /\ s.run = e.run /\ reports[e.ref].ref = s.ref
      BY <2>1, <2>3 DEF Backed
    <3>2. PICK f \in stream : /\ f.kind = "fetched" /\ f.run = s.run
                              /\ scorings[s.ref].fetch = f.ref /\ s.titles \subseteq f.titles
      BY <2>1, <3>1 DEF Backed
    <3> QED BY <3>1, <3>2
  <2> QED BY <2>2, <2>3 DEF EventsAreBacked, ReportHasScoringOfItsRun
<1> QED BY <1>1, ScreeningInvariant, PTL

\* When report.sent says that the mail is out, it is: also when the event comes from a
\* delivery that found the mail logged, and also when the log of the mail was lost.
THEOREM ReportsMailed == Spec => []ReportedIsMailed
<1>1. ScreeningInv => ReportedIsMailed
  BY DEF ScreeningInv, Backed, ReportedIsMailed
<1> QED BY <1>1, ScreeningInvariant, PTL

\* The health check is told of a success only after the mail, of a failure only after
\* the event that says so.
THEOREM PingsTrue == Spec => []PingsAreTrue
<1>1. ScreeningInv => PingsAreTrue
  BY DEF ScreeningInv
<1> QED BY <1>1, ScreeningInvariant, PTL

\* A mail for a scoring goes out only while none is logged for it.
LEMMA MailOnlyUnlogged ==
  ASSUME ScreeningInv, [Next]_vars, NEW i \in logged
  PROVE  ReportMails(reports[i].ref)' = ReportMails(reports[i].ref)
<1>1. TypeOK /\ NotificationInv /\ i \in 1..Len(reports) /\ Len(reports) \in Nat /\ Len(mails) \in Nat
  BY Lengths DEF ScreeningInv, TypeOK
<1>2. PICK ref : ref = reports[i].ref
  OBVIOUS
<1>3. reports'[i].ref = ref
  <2>1. reports' = reports \/ \E new : reports' = Append(reports, new)
    BY DEF Next, Request, MarketDataWork, ScoringWork, NotificationWork, NotificationStep, Already, BuildReport, SendReport,
           LogReport, PingOK, PublishReport, PingFailure, TellFailure, Failure, SendFails, ReportFails, NotificationReset,
           vars, notification
  <2>2. reports \in Seq([run : Run, ref : 1..Len(scorings)])
    BY <1>1 DEF TypeOK
  <2>3. reports'[i] = reports[i]
    <3> DEFINE S == [run : Run, ref : 1..Len(scorings)]
    <3>1. reports \in Seq(S)
      BY <2>2
    <3> HIDE DEF S
    <3> QED BY <1>1, <2>1, <3>1
  <2> QED BY <1>2, <2>3
<1>4. ReportMails(ref)' = ReportMails(ref)
  <2>1. \/ mails' = mails
        \/ mails' = Append(mails, Mail("error"))
        \/ At(NO, "send") /\ mails' = Append(mails, Mail("report"))
    BY DEF Next, Request, MarketDataWork, ScoringWork, NotificationWork, NotificationStep, Already, BuildReport, SendReport,
           LogReport, PingOK, PublishReport, PingFailure, TellFailure, Failure, SendFails, ReportFails, NotificationReset,
           vars, notification, Step
  <2>2. CASE mails' = mails
    BY <2>2 DEF ReportMails
  <2>3. ASSUME NEW mail, mails' = Append(mails, mail), mail.kind = "report" => mail.ref # ref
        PROVE  ReportMails(ref)' = ReportMails(ref)
    <3>1. mails \in Seq([run : Run, kind : {"report", "error"}, ref : Nat])
      BY <1>1 DEF TypeOK
    <3> DEFINE S == [run : Run, kind : {"report", "error"}, ref : Nat]
    <3>2. mails \in Seq(S)
      BY <3>1
    <3> HIDE DEF S
    <3>3. /\ Len(mails') = Len(mails) + 1 /\ mails'[Len(mails) + 1] = mail
          /\ \A j \in 1..Len(mails) : mails'[j] = mails[j]
      BY <2>3, <3>2
    <3> QED BY <1>1, <2>3, <3>3 DEF ReportMails
  <2>4. CASE mails' = Append(mails, Mail("error"))
    BY <2>3, <2>4 DEF Mail
  <2>5. CASE At(NO, "send") /\ mails' = Append(mails, Mail("report"))
    <3>1. i \notin Delivered(Message(NO).ref)
      BY <1>1, <2>5 DEF NotificationInv
    <3>2. Message(NO).ref # ref
      BY <1>2, <3>1 DEF Delivered
    <3> QED BY <2>3, <2>5, <3>2 DEF Mail
  <2> QED BY <2>1, <2>2, <2>4, <2>5
<1> QED BY <1>2, <1>3, <1>4 DEF ReportMails

\* Once the mail of a scoring run is logged, no second one follows: however often its
\* event is delivered, and whatever fails on the way (P4.3b).
THEOREM LoggedIsLast == Spec => LoggedMailIsLast
<1>1. ScreeningInv /\ [Next]_vars => [\A i \in logged : ReportMails(reports[i].ref)' = ReportMails(reports[i].ref)]_vars
  BY MailOnlyUnlogged
<1> QED BY <1>1, ScreeningInvariant, PTL DEF Spec, LoggedMailIsLast
================================================================================

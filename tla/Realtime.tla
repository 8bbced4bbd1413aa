------------------------------ MODULE Realtime -------------------------------
(***************************************************************************)
(* The WebSocket of the web-api and the browser at its end: a tab learns   *)
(* of changes by events, catches up with resumeFrom after a lost           *)
(* connection, and reads the state itself by REST.                         *)
(*                                                                         *)
(*   services/web-api/src/va_web_api/realtime/{hub,endpoint,replay}.py     *)
(*   services/web-api/src/va_web_api/events/__init__.py  (dispatch)        *)
(*   frontend/src/app/shared/realtime/realtime.service.ts                  *)
(*                                                                         *)
(* One tab with one session and one topic.  An event is its sequence       *)
(* number in VA_EVENTS.  Sets of at most one number stand for int | None.  *)
(***************************************************************************)
EXTENDS Faults, Sequences, FiniteSets, Places

CONSTANTS MaxSeq,       \* bound on events
          QueueSize,    \* hub.QUEUE_SIZE
          ReplayLimit   \* replay.REPLAY_LIMIT

ASSUME RealtimeAssumption ==
  /\ MaxSeq \in Nat \ {0} /\ QueueSize \in Nat \ {0}
  /\ ReplayLimit \in Nat

Seqs == 1..MaxSeq
SessionEnd == 0      \* among the calls to the loop: HubBroadcaster.close_session
Optional == {{}} \cup {{k} : k \in 0..MaxSeq}
Message == [op : {"hello", "event", "resync"}, seq : Optional]
EventOf(k) == [op |-> "event", seq |-> {k}]
Resync == [op |-> "resync", seq |-> {}]

VARIABLES
  last,       \* last sequence number of VA_EVENTS
  projected,  \* events with their inbox entry and their projections
  nakked,     \* events handed back, to be delivered later
  announcing, \* event whose transaction is committed and not yet announced
  loopCalls,      \* callbacks of call_soon_threadsafe, in order
  session,    \* the session of the tab is valid
  phase,      \* where endpoint.realtime is with the connection of the tab
  held,       \* Client.held
  queue,      \* Client.queue
  replayed,   \* the events after resume, up to this number, or none: resync
  resume,     \* browser: resumeFrom of its subscribe message
  lastSeq,    \* browser: RealtimeService.lastSeq
  dirty,      \* browser: its view is to be loaded again
  shown,      \* browser: events in the state it has last loaded
  got,        \* history: messages of this connection, as they reached the tab
  early       \* history: events replayed before the hub had published them

consumer == <<last, projected, nakked, announcing>>
client == <<phase, held, queue, replayed>>
browser == <<resume, lastSeq, dirty, shown>>
history == <<got, early>>
realtimeState == <<consumer, loopCalls, session, client, browser, history>>
realtimeVars == <<realtimeState, faults>>

RealtimeInit ==
  /\ last = 0 /\ projected = {} /\ nakked = {} /\ announcing = {} /\ loopCalls = <<>>
  /\ session = TRUE
  /\ phase = "off" /\ held = <<>> /\ queue = <<>> /\ replayed = {}
  /\ resume = {} /\ lastSeq = {} /\ dirty = TRUE /\ shown = {}
  /\ got = <<>> /\ early = {} /\ faults = 0

ElementsOf(s) == {s[i] : i \in 1..Len(s)}

\* Events the hub has seen.
Published == projected \ (announcing \cup ElementsOf(loopCalls))

InHub == phase \in {"connected", "ready", "replay", "read", "live"}
Subscribed == phase \in {"replay", "read", "live"}
Holding == phase \in {"replay", "read"}

------------------------------------------------------------------------------
(* The stream and EventManager.dispatch.                                    *)

Emit ==
  /\ last < MaxSeq
  /\ last' = last + 1
  /\ UNCHANGED <<projected, nakked, announcing, loopCalls, session, client, browser, history, faults>>

\* In the order of the stream, but for what was handed back.
Deliverable(k) ==
  /\ announcing = {}
  /\ k \in 1..last \ projected
  /\ \A j \in 1..(k - 1) : j \in projected \cup nakked

Dispatch(k) ==
  /\ Deliverable(k)
  /\ projected' = projected \cup {k}
  /\ announcing' = {k}
  /\ UNCHANGED <<last, nakked, loopCalls, session, client, browser, history, faults>>

DispatchFails(k) ==
  /\ Deliverable(k) /\ k \notin nakked
  /\ Fault
  /\ nakked' = nakked \cup {k}
  /\ UNCHANGED <<last, projected, announcing, loopCalls, session, client, browser, history>>

\* After the commit: HubBroadcaster.publish.
Announce ==
  /\ announcing # {}
  /\ loopCalls' = loopCalls \o <<CHOOSE k \in announcing : TRUE>>
  /\ announcing' = {}
  /\ UNCHANGED <<last, projected, nakked, session, client, browser, history, faults>>

------------------------------------------------------------------------------
(* The hub.                                                                 *)

\* The connection is closed: what the server held for it is gone.
Close ==
  /\ phase' = "off" /\ held' = <<>> /\ queue' = <<>> /\ replayed' = {}
  /\ resume' = {} /\ got' = <<>> /\ early' = {}
  /\ UNCHANGED <<lastSeq, dirty, shown>>

Stay == UNCHANGED <<resume, lastSeq, dirty, shown, got>>

\* _enqueue, for several messages in one go: the writer has no turn between.  (A message
\* the writer is sending counts here as in the queue, so the code may have room for one more.)
Enqueue(messages) ==
  IF Len(queue) + Len(messages) > QueueSize
    THEN Close
    ELSE queue' = queue \o messages /\ UNCHANGED <<phase, held, replayed>> /\ Stay /\ UNCHANGED early

HubPublish_DropsWhileHolding(k) ==
  IF phase = "live" THEN Enqueue(<<EventOf(k)>>) ELSE UNCHANGED <<client, browser, history>>

\* WebSocketHub.publish.
HubPublish(k) ==
  CASE Holding /\ Len(held) = QueueSize -> Close
    [] Holding /\ Len(held) < QueueSize ->
         held' = Append(held, k) /\ UNCHANGED <<phase, queue, replayed, browser, history>>
    [] phase = "live" -> Enqueue(<<EventOf(k)>>)
    [] OTHER -> UNCHANGED <<client, browser, history>>

\* The loop runs the next callback.
LoopCall ==
  /\ loopCalls # <<>>
  /\ loopCalls' = Tail(loopCalls)
  /\ IF Head(loopCalls) # SessionEnd THEN HubPublish(Head(loopCalls))
     ELSE IF InHub THEN Close ELSE UNCHANGED <<client, browser, history>>
  /\ UNCHANGED <<consumer, session, faults>>

------------------------------------------------------------------------------
(* endpoint.realtime, for the connection of the tab.                        *)

Go(to) == phase' = to /\ UNCHANGED <<held, queue, replayed>>

\* The tab connects; the endpoint checks the session in another thread.
Connect ==
  /\ phase = "off" /\ session
  /\ Go("accepted")
  /\ resume' = lastSeq
  /\ UNCHANGED <<consumer, loopCalls, session, lastSeq, dirty, shown, history, faults>>

\* hub.connect, on what the check has found.
Register ==
  /\ phase = "accepted"
  /\ Go("connected")
  /\ UNCHANGED <<consumer, loopCalls, session, browser, history, faults>>

\* hello, with the last sequence of the stream if NATS answers.
Hello ==
  /\ phase = "connected"
  /\ phase' = "ready"
  /\ \/ queue' = Append(queue, [op |-> "hello", seq |-> {last}]) /\ UNCHANGED faults
     \/ Fault /\ queue' = Append(queue, [op |-> "hello", seq |-> {}])
  /\ UNCHANGED <<consumer, loopCalls, session, held, replayed, browser, history>>

\* Without resumeFrom only subscribe; otherwise hold, subscribe and replay.
Subscribe ==
  /\ phase = "ready"
  /\ Go(IF resume = {} THEN "live" ELSE "replay")
  /\ UNCHANGED <<consumer, loopCalls, session, browser, history, faults>>

After == CHOOSE r \in resume : TRUE

\* NatsReplayer.replay: what is in the stream now, if it is not too much.  That the
\* stream no longer reaches back so far is the Fault too: either way there is no replay.
ReadStream ==
  /\ phase = "replay"
  /\ phase' = "read"
  /\ \/ replayed' = (IF last <= After + ReplayLimit THEN {last} ELSE {}) /\ UNCHANGED faults
     \/ Fault /\ replayed' = {}
  /\ UNCHANGED <<consumer, loopCalls, session, held, queue, browser, history>>

Missed == IF replayed = {} THEN <<>>
          ELSE LET to == CHOOSE n \in replayed : TRUE IN
                 [i \in 1..(IF to > After THEN to - After ELSE 0) |-> After + i]

\* What was held back, without what the replay already brings.
Newer == AtPlaces(held, {i \in 1..Len(held) : \A m \in ElementsOf(Missed) : held[i] > m})

\* end_replay: the missed events, then those held back; resync when there was
\* no replay.
EndReplay ==
  /\ phase = "read"
  /\ LET seqs == Missed \o Newer
         out == [i \in 1..Len(seqs) |-> EventOf(seqs[i])]
                  \o (IF replayed = {} THEN <<Resync>> ELSE <<>>)
     IN IF Len(queue) + Len(out) > QueueSize THEN Close
        ELSE /\ phase' = "live" /\ held' = <<>> /\ replayed' = {}
             /\ queue' = queue \o out
             /\ early' = ElementsOf(Missed) \ Published
             /\ Stay
  /\ UNCHANGED <<consumer, loopCalls, session, faults>>

WatchSession_Never == FALSE /\ UNCHANGED realtimeVars

\* _watch_session: every minute, without touch.
WatchSession ==
  /\ InHub /\ ~session
  /\ Close
  /\ UNCHANGED <<consumer, loopCalls, session, faults>>

\* The network drops the connection.
Drop ==
  /\ phase # "off"
  /\ Fault
  /\ Close
  /\ UNCHANGED <<consumer, loopCalls, session>>

\* The web-api is restarted; what it has committed stays committed.
Restart ==
  /\ Fault
  /\ announcing' = {} /\ loopCalls' = <<>>
  /\ Close
  /\ UNCHANGED <<last, projected, nakked, session>>

\* Logout calls close_session; a session that expires or is revoked does not.
EndSession ==
  /\ session
  /\ session' = FALSE
  /\ loopCalls' \in {loopCalls, Append(loopCalls, SessionEnd)}
  /\ UNCHANGED <<consumer, client, browser, history, faults>>

------------------------------------------------------------------------------
(* The browser.                                                             *)

\* The writer sends the next message, RealtimeService.received takes it.
WriterSends ==
  /\ queue # <<>>
  /\ queue' = Tail(queue)
  /\ LET m == Head(queue) IN
       /\ lastSeq' = CASE m.op = "hello" /\ lastSeq = {} -> m.seq
                       [] m.op = "event" /\ \A s \in lastSeq, k \in m.seq : k > s -> m.seq
                       [] OTHER -> lastSeq
       /\ dirty' = (dirty \/ m.op \in {"event", "resync"})
       /\ got' = Append(got, m)
  /\ UNCHANGED <<consumer, loopCalls, session, phase, held, replayed, resume, shown, early, faults>>

\* The view loads the state again, by REST from the projections.
ViewReloads ==
  /\ dirty
  /\ dirty' = FALSE
  /\ shown' = projected
  /\ UNCHANGED <<consumer, loopCalls, session, client, resume, lastSeq, history, faults>>

------------------------------------------------------------------------------
Endpoint == Register \/ Hello \/ Subscribe \/ ReadStream \/ EndReplay
Consumer == Announce \/ \E k \in Seqs : Dispatch(k)

RealtimeNext ==
  \/ Emit \/ Consumer \/ (\E k \in Seqs : DispatchFails(k))
  \/ LoopCall \/ Connect \/ Endpoint \/ WatchSession \/ WriterSends \/ ViewReloads
  \/ Drop \/ Restart \/ EndSession

RealtimeSpec == RealtimeInit /\ [][RealtimeNext]_realtimeVars

\* The tab reconnects, the tasks of the loop have their turns, and a writer
\* that has something to send again and again gets to send it.
RealtimeFairSpec ==
  /\ RealtimeSpec
  /\ WF_realtimeVars(Consumer) /\ WF_realtimeVars(LoopCall) /\ WF_realtimeVars(Connect) /\ WF_realtimeVars(Endpoint)
  /\ WF_realtimeVars(WatchSession) /\ WF_realtimeVars(ViewReloads) /\ SF_realtimeVars(WriterSends)

------------------------------------------------------------------------------
(* Properties.                                                              *)

Phase == {"off", "accepted", "connected", "ready", "replay", "read", "live"}

\* The types of the variables, and the bounds of what a slow tab can hold.
RealtimeTypeOK ==
  /\ last \in 0..MaxSeq
  /\ projected \subseteq 1..last /\ nakked \subseteq 1..last /\ announcing \subseteq projected
  /\ loopCalls \in Seq(0..MaxSeq)
  /\ session \in BOOLEAN /\ phase \in Phase
  /\ held \in Seq(Seqs) /\ Len(held) <= QueueSize
  /\ queue \in Seq(Message) /\ Len(queue) <= QueueSize
  /\ replayed \in Optional /\ resume \in Optional /\ lastSeq \in Optional
  /\ dirty \in BOOLEAN /\ shown \subseteq projected
  /\ got \in Seq(Message) /\ early \subseteq Seqs
  /\ faults \in 0..MaxFaults

\* Between replay and live nothing is lost: of what happened after resumeFrom
\* and was published, the tab shows everything, or it is about to load it again.
NothingMissed ==
  phase = "live" =>
    \A r \in resume : \A k \in Published : k > r =>
      k \in shown \/ dirty \/ \E i \in 1..Len(queue) : queue[i] \in {EventOf(k), Resync}

\* Everything that reaches the tab on this connection, and what is on its way.
Arriving == got \o queue
PlacesOf(s, k) == {i \in 1..Len(s) : s[i] = EventOf(k)}

\* What comes is newer than all before it, but for what the tab had already, on this
\* connection or before it.
InOrder(s) ==
  \A k \in Seqs : \A j \in PlacesOf(s, k) :
    \/ \E i \in PlacesOf(s, k) : i < j
    \/ \E r \in resume : k <= r
    \/ \A n \in Seqs : \A i \in PlacesOf(s, n) : i < j => n < k

\* hub.py: "nichts vertauscht, nichts doppelt".  As long as JetStream delivers in
\* order, an event after resumeFrom that is new to the tab is newer than all it got
\* before.  And none comes twice but those that the replay found in the stream before
\* the consumer had them: they come once more, when their projections are there.
OrderedOnce ==
  /\ nakked = {} => InOrder(Arriving)
  /\ \A k \in Seqs : Cardinality(PlacesOf(Arriving, k)) <= (IF k \in early THEN 2 ELSE 1)

\* The tab follows the run: all of it, each event in its place.
TabFollows == NothingMissed /\ OrderedOnce

\* A connection does not outlive its session, also when it is opened while the
\* session ends.
SessionEndsConnection == <>[](session \/ phase = "off")

\* hub.py: a client that is too slow "verbindet sich neu und synchronisiert
\* sich per REST".
ResumeSucceeds == phase = "replay" ~> phase = "live" \/ ~session
==============================================================================

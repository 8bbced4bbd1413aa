----------------------------- MODULE MarketData ------------------------------
(***************************************************************************)
(* The service market-data: one fetch of the universe per run, or the      *)
(* fetch of the same day once more.                                        *)
(*                                                                         *)
(*   services/market-data/src/va_market_data/entrypoints/handlers.py       *)
(*   services/market-data/src/va_market_data/application/{snapshot,fetch}.py *)
(*   services/market-data/src/va_market_data/adapters/postgres/            *)
(***************************************************************************)
EXTENDS Services

CONSTANTS MaxDay      \* bound on days

ASSUME MarketDataAssumption == MaxDay \in Nat \ {0}

VARIABLES
  day,        \* the date of today
  fetches,    \* market_data.fetch_run, with its universe_member rows
  rows,       \* market_data.snapshot: titles stored for a fetch
  caps,       \* those of them that have a market cap
  current,    \* handler: the fetch it works on
  wanted,     \* handler: the titles of its universe
  left,       \* handler: titles still to be fetched
  frame       \* handler: titles in its data frame

market == <<day, fetches, rows, caps, current, wanted, left, frame>>
handler == <<current, wanted, left, frame>>
MD == "market-data"

MarketDataInit ==
  /\ day = 1
  /\ fetches = <<>>
  /\ rows = {} /\ caps = {}
  /\ current = 0 /\ wanted = {} /\ left = {} /\ frame = {}

\* What the handler had in memory is gone.
MarketDataReset ==
  /\ current' = 0 /\ wanted' = {} /\ left' = {} /\ frame' = {}
  /\ UNCHANGED <<day, fetches, rows, caps>>

FetchId == 1..Len(fetches)
Stored(f) == {t \in Title : <<f, t>> \in rows}

\* success_share: the share of the frame's rows with a market cap.
ShareOK(f, titles) ==
  /\ titles # {}
  /\ 5 * Cardinality({t \in titles : <<f, t>> \in caps}) >= 4 * Cardinality(titles)

\* get_reusable_fetch_run: finished, of this day, good enough, all titles.
Reusable == {f \in FetchId :
  /\ fetches[f].finished /\ fetches[f].day = day
  /\ fetches[f].good
  /\ wanted \subseteq fetches[f].universe}

Newest(S) == CHOOSE f \in S : \A g \in S : g <= f

\* load_universe; an empty universe raises.
LoadUniverse ==
  /\ Step(MD, "start", "snapshot")
  /\ wanted' \in Universe
  /\ UNCHANGED <<day, fetches, rows, caps, current, left, frame, faults>>

MayReuse == Message(MD).run \notin Forced /\ Reusable # {}

Reuse ==
  /\ Step(MD, "snapshot", "publish")
  /\ MayReuse
  /\ current' = Newest(Reusable)
  /\ frame' = Stored(current') \cap wanted
  /\ UNCHANGED <<day, fetches, rows, caps, wanted, left, faults>>

StartFetch ==
  /\ Step(MD, "snapshot", "fetch")
  /\ ~MayReuse
  /\ fetches' = Append(fetches, [day |-> day, universe |-> wanted,
                                 finished |-> FALSE, good |-> FALSE])
  /\ current' = Len(fetches')
  /\ left' = wanted
  /\ frame' = {}
  /\ UNCHANGED <<day, rows, caps, wanted, faults>>

NextTitle == CHOOSE t \in left : \A u \in left : t <= u

FetchTitle_KeepsUnsaved ==
  /\ left # {}
  /\ Step(MD, "fetch", "fetch")
  /\ left' = left \ {NextTitle}
  /\ frame' = frame \cup {NextTitle}
  /\ \E saved \in BOOLEAN, cap \in BOOLEAN :
       /\ rows' = IF saved THEN rows \cup {<<current, NextTitle>>} ELSE rows
       /\ caps' = IF cap THEN caps \cup {<<current, NextTitle>>} ELSE caps
  /\ UNCHANGED <<day, fetches, current, wanted, faults>>

\* A title comes with or without a market cap and is stored at once; one that
\* cannot be stored drops out of the frame.
FetchTitle ==
  /\ left # {}
  /\ Step(MD, "fetch", "fetch")
  /\ left' = left \ {NextTitle}
  /\ \E saved \in BOOLEAN, cap \in BOOLEAN :
       /\ frame' = IF saved THEN frame \cup {NextTitle} ELSE frame
       /\ rows' = IF saved THEN rows \cup {<<current, NextTitle>>} ELSE rows
       /\ caps' = IF saved /\ cap THEN caps \cup {<<current, NextTitle>>} ELSE caps
  /\ UNCHANGED <<day, fetches, current, wanted, faults>>

FinishFetch ==
  /\ left = {}
  /\ Step(MD, "fetch", "publish")
  /\ fetches' = [fetches EXCEPT ![current].finished = TRUE,
                                ![current].good = ShareOK(current, frame)]
  /\ UNCHANGED <<day, rows, caps, handler, faults>>

PublishSnapshot ==
  /\ At(MD, "publish")
  /\ Settle(MD, {EventFor(MD, "fetched", current, frame)})
  /\ MarketDataReset
  /\ UNCHANGED faults

\* Whatever is raised on the way ends the run.
FetchFails ==
  /\ pc[MD] \in {"start", "snapshot", "fetch", "publish"}
  /\ Raise(MD)
  /\ MarketDataReset

MarketDataStep ==
  \/ LoadUniverse \/ Reuse \/ StartFetch \/ FetchTitle \/ FinishFetch \/ PublishSnapshot

NextDay ==
  /\ day < MaxDay
  /\ day' = day + 1
  /\ UNCHANGED <<services, fetches, rows, caps, handler>>
==============================================================================

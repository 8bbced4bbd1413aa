------------------------------ MODULE Versions --------------------------------
(***************************************************************************)
(* The versioned time series of one title in market_data: a fetch asks     *)
(* what is stored, loads what may be missing or changed, and adds a row    *)
(* for each day whose value is new.  No row is changed or deleted; the     *)
(* latest first_seen_at counts.                                            *)
(*                                                                         *)
(*   services/market-data/src/va_market_data/adapters/postgres/{store,repository,models}.py *)
(*   services/market-data/src/va_market_data/adapters/yahoo.py             *)
(*   services/market-data/src/va_market_data/domain/history.py             *)
(*                                                                         *)
(* A split changes all earlier prices at the provider, a restatement       *)
(* earlier figures; a value is the set of later changes it already has in  *)
(* it, and never goes back.  A fetch reads the provider at one moment, its *)
(* fetched_at.  Fetches of several runs may overlap.                       *)
(***************************************************************************)
EXTENDS Faults, FiniteSets, FiniteSetsExt

CONSTANTS Overlap,                  \* FetcherConfig.price_overlap_days
          MaxDay, MaxFetches        \* bounds

ASSUME VersionsAssumption == {Overlap, MaxFetches} \subseteq Nat /\ MaxDay \in Nat \ {0}

VARIABLES
  series,    \* which table
  today,     \* days up to this one have a value at the provider
  changed,   \* days of a split or a restatement
  rows,      \* the table
  fetches    \* by number, in the order of fetched_at

versionsState == <<series, today, changed, rows, fetches>>
versionsVars == <<versionsState, faults>>

Day == 1..MaxDay
FetchId == 1..MaxFetches
\* seen: the fetch, for first_seen_at.
TableRow == [day : Day, has : SUBSET Day, event : BOOLEAN, seen : FetchId]
FetchState == [step : {"none", "known", "loaded", "compared", "over"}, last : 0..MaxDay, events : SUBSET Day,
               on : 0..MaxDay, frame : SUBSET TableRow]

NoFetch == [step |-> "none", last |-> 0, events |-> {}, on |-> 0, frame |-> {}]

VersionsInit ==
  /\ series \in {"price_bar", "share_count", "statement_value"}
  /\ today = 1
  /\ changed = {}
  /\ rows = {}
  /\ fetches = [f \in FetchId |-> NoFetch]
  /\ faults = 0

NextDay ==
  /\ today < MaxDay
  /\ today' = today + 1
  /\ changed' \in {changed, changed \cup {today + 1}}
  /\ UNCHANGED <<series, rows, fetches, faults>>

To(f, step) == fetches' = [fetches EXCEPT ![f].step = step]

------------------------------------------------------------------------------
(* The table.                                                                *)

Stored == {r.day : r \in rows}

\* DISTINCT ON the day, ORDER BY first_seen_at DESC.
LatestOf(S, d) == CHOOSE r \in S : r.day = d /\ \A q \in S : q.day = d => q.seen <= r.seen
Current(d) == LatestOf(rows, d)
Same(r, q) == r.has = q.has /\ r.event = q.event

\* The series as it was known at the time of a fetch (known_at, as_of).
KnownAt(f) == LET S == {r \in rows : r.seen <= f} IN {LatestOf(S, r.day) : r \in S}

\* Rows are only added.
Add(new) == rows' = rows \cup new

------------------------------------------------------------------------------
(* A fetch.                                                                  *)

LastDay == Max({0} \cup Stored)
SplitDays == {r.day : r \in {q \in rows : q.event}}

ReadState_OfLastFetch(f) ==
  /\ fetches[f].step = "none"
  /\ fetches' = [fetches EXCEPT ![f].step = "known", ![f].last = Max({0} \cup {fetches[g].on : g \in FetchId}),
                                ![f].events = SplitDays]
  /\ UNCHANGED <<series, today, changed, rows, faults>>

\* history_state: the last stored day and the stored splits, read when the run
\* of all titles begins.
ReadState(f) ==
  /\ fetches[f].step = "none"
  /\ fetches' = [fetches EXCEPT ![f].step = "known", ![f].last = LastDay, ![f].events = SplitDays]
  /\ UNCHANGED <<series, today, changed, rows, faults>>

\* What the provider has from a day on.  Prices: the day of the fetch is not over.
ProviderHas(f, from) ==
  {[day |-> d, has |-> IF series = "share_count" THEN {} ELSE {c \in changed : c > d},
    event |-> series = "price_bar" /\ d \in changed, seen |-> f]
      : d \in {d \in from..today : series = "price_bar" => d < today}}

Minus(a, b) == IF a > b THEN a - b ELSE 0

FirstOfItsTime(f) == \A g \in FetchId : (g < f) = (fetches[g].on # 0) \/ g = f

LoadFrom(f, from) ==
  /\ fetches[f].step = "known" /\ FirstOfItsTime(f)
  /\ fetches' = [fetches EXCEPT ![f].step = "loaded", ![f].on = today, ![f].frame = ProviderHas(f, from)]
  /\ UNCHANGED <<series, today, changed, rows, faults>>

\* All statements the provider has.
LoadStatements(f) == series = "statement_value" /\ LoadFrom(f, 1)

\* share_count_series: from the last day stored.
LoadShares(f) == series = "share_count" /\ LoadFrom(f, Max({1, fetches[f].last}))

\* The window begins a while before the last day stored.
PriceStart(f) == Max({1, Minus(fetches[f].last, Overlap)})
NewSplits(f) == {c \in changed : c >= PriceStart(f)} \ fetches[f].events

LoadPrices_Window(f) == series = "price_bar" /\ LoadFrom(f, PriceStart(f))

\* price_frames: a split in the window that is not stored is a reason to load all.
LoadPrices(f) == series = "price_bar" /\ LoadFrom(f, IF NewSplits(f) = {} THEN PriceStart(f) ELSE 1)

\* A call fails, the one for all prices too, or the provider limits the rate:
\* nothing of the series this time.
ProviderFails(f) ==
  /\ fetches[f].step = "known" /\ FirstOfItsTime(f)
  /\ Fault
  /\ fetches' = [fetches EXCEPT ![f].step = "over", ![f].on = today]
  /\ UNCHANGED <<series, today, changed, rows>>

\* The comparison with what counts now leaves these rows.
Compare(f, new) ==
  /\ fetches[f].step = "loaded"
  /\ fetches' = [fetches EXCEPT ![f].step = "compared", ![f].frame = new]
  /\ UNCHANGED <<series, today, changed, rows, faults>>

\* Of a statement and of a number of shares the value alone is compared.
OtherValues(f) == {r \in fetches[f].frame : r.day \in Stored => r.has # Current(r.day).has}

WriteStatements(f) == series = "statement_value" /\ Compare(f, OtherValues(f))

WriteShareCounts(f) == series = "share_count" /\ Compare(f, OtherValues(f))

WritePriceBars(f) ==
  /\ series = "price_bar"
  /\ Compare(f, {r \in fetches[f].frame : r.day \in Stored => ~Same(r, Current(r.day))})

\* The title's transaction commits.
Commit(f) ==
  /\ fetches[f].step = "compared"
  /\ Add(fetches[f].frame)
  /\ To(f, "over")
  /\ UNCHANGED <<series, today, changed, faults>>

\* The savepoint is undone, or the transaction of the title fails.
WriteFails(f) ==
  /\ fetches[f].step = "compared"
  /\ Fault
  /\ To(f, "over")
  /\ UNCHANGED <<series, today, changed, rows>>

------------------------------------------------------------------------------
VersionsNext ==
  \/ NextDay
  \/ \E f \in FetchId :
       \/ ReadState(f)
       \/ LoadStatements(f) \/ LoadShares(f) \/ LoadPrices(f) \/ ProviderFails(f)
       \/ WriteStatements(f) \/ WriteShareCounts(f) \/ WritePriceBars(f)
       \/ Commit(f) \/ WriteFails(f)

VersionsSpec == VersionsInit /\ [][VersionsNext]_versionsVars

------------------------------------------------------------------------------
(* Properties.                                                               *)

VersionsTypeOK ==
  /\ series \in {"price_bar", "share_count", "statement_value"}
  /\ today \in Day /\ changed \subseteq Day
  /\ rows \subseteq TableRow
  /\ fetches \in [FetchId -> FetchState]
  /\ faults \in 0..MaxFaults

\* A series has no gap: failed calls, failed writes and overlapping fetches leave
\* days out for a while, but never behind a day that is stored.
NoGap == \A d \in Stored : 1..d \subseteq Stored

\* A split that is stored counts as known and is no reason to load all prices
\* again; so all earlier prices that count have it, in whatever order overlapping
\* fetches commit (price_frames: else the old prices would stay unadjusted), now and
\* in the series as known at any earlier fetch.
StoredSplitIsApplied ==
  \A f \in FetchId : series = "price_bar" =>
    \A r, q \in KnownAt(f) : q.event /\ q.day > r.day => q.day \in r.has
==============================================================================

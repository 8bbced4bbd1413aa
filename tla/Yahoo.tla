-------------------------------- MODULE Yahoo ---------------------------------
(***************************************************************************)
(* The calls market-data makes at Yahoo: title by title the base data, then *)
(* the additional data until a rate limit, then the exchange rate.         *)
(*                                                                         *)
(*   services/market-data/src/va_market_data/adapters/yahoo.py             *)
(*   services/market-data/src/va_market_data/domain/consensus.py           *)
(*   services/market-data/src/va_market_data/application/fetch.py          *)
(*                                                                         *)
(* What a call brings is left out but for the consensus, where nothing at  *)
(* all is an answer.  yfinance reads several kinds of it from one response *)
(* (two stand for them here), and keeps an HTTP error as an empty one.     *)
(***************************************************************************)
EXTENDS Integers, Sequences

CONSTANTS NumRuns, NumListed     \* bounds: runs, and titles of a run

ASSUME YahooAssumption == {NumRuns, NumListed} \subseteq Nat \ {0}

VARIABLES
  pass,       \* the run; its number stands for the exchange rate of its day
  nth,        \* the title
  call,       \* place in Calls
  tries,      \* attempts of this call that failed
  hit,        \* _RateLimitGuard
  has,        \* what Yahoo has of the title: the kinds with data
  foreign,    \* it reports in another currency than it is traded in
  shared,     \* the response yfinance keeps of the shared source
  entries,    \* ConsensusEntry of each kind
  raw,        \* RawFetch is there
  fx,         \* Provenance.statement_fx
  rateCache,  \* lru_cache of _fx_rate
  limited,    \* Yahoo refused an additional call of this title by its rate limit
  pressed     \* it was asked for more data of this title all the same

yahooVars == <<pass, nth, call, tries, hit, has, foreign, shared, entries, raw, fx, rateCache, limited, pressed>>

SharedKinds == {"eps_trend", "growth_estimates"}
Kinds == SharedKinds \cup {"analyst_price_targets"}
None == 0      \* no rate
One == -1      \* the factor of one currency

Calls == <<"base", "eps_trend", "growth_estimates", "analyst_price_targets",
           "income", "balance", "cashflow", "shares", "prices", "all_prices", "fx", "done">>
Doing(c) == Calls[call] = c
Rate == 1..NumRuns

\* What yfinance can have: no analyst covers the title, or one does.
Coverage == {{}, SharedKinds, {"analyst_price_targets"}, Kinds}

\* fetch_one begins: the guard is set back, and each title has a yf.Ticker of its own.
TitleStarts ==
  /\ call' = 1 /\ tries' = 0
  /\ hit' = FALSE /\ limited' = FALSE /\ pressed' = FALSE
  /\ has' \in Coverage /\ foreign' \in BOOLEAN
  /\ shared' = "unasked"
  /\ entries' = [k \in Kinds |-> "unasked"]
  /\ raw' = FALSE /\ fx' = None

YahooInit ==
  /\ pass = 1 /\ nth = 1 /\ rateCache = None
  /\ call = 1 /\ tries = 0
  /\ hit = FALSE /\ limited = FALSE /\ pressed = FALSE
  /\ has \in Coverage /\ foreign \in BOOLEAN
  /\ shared = "unasked"
  /\ entries = [k \in Kinds |-> "unasked"]
  /\ raw = FALSE /\ fx = None

------------------------------------------------------------------------------
(* Calls and attempts.                                                       *)

GoTo(n) == call' = n /\ tries' = 0
GoOn == GoTo(call + 1)

\* One more attempt, if tenacity allows it.
Again(attempts) == tries + 1 < attempts /\ tries' = tries + 1 /\ UNCHANGED call
LastTry(attempts) == tries + 1 = attempts

\* A request goes out.  After a rate limit that is pressing.
Ask == pressed' = (pressed \/ limited)

\* note_rate_limit
NoteLimit == hit' = TRUE /\ limited' = TRUE
NoLimit == UNCHANGED <<hit, limited>>

UnchangedTitle == UNCHANGED <<pass, nth, has, foreign>>

------------------------------------------------------------------------------
(* The base data: three attempts, but none after a rate limit.  A title      *)
(* without them has no raw data and no further call.                         *)

BaseData ==
  /\ Doing("base")
  /\ Ask /\ NoLimit
  /\ \/ raw' = TRUE /\ GoOn
     \/ Again(3) /\ UNCHANGED raw
     \/ GoTo(Len(Calls)) /\ UNCHANGED raw      \* the third failure, or the rate limit
  /\ UnchangedTitle /\ UNCHANGED <<shared, entries, fx, rateCache>>

------------------------------------------------------------------------------
(* The consensus.                                                            *)

MarkFollowUps_Nothing(e) == e

\* _mark_follow_up_errors: behind an HTTP error of the shared source, empty is no finding.
MarkFollowUps(e) ==
  IF \E k \in SharedKinds : e[k] = "response_error"
  THEN [k \in Kinds |-> IF k \in SharedKinds /\ e[k] = "empty" THEN "error" ELSE e[k]]
  ELSE e

Entry(k, status) ==
  LET e == [entries EXCEPT ![k] = status]
  IN entries' = IF Calls[call + 1] \in Kinds THEN e ELSE MarkFollowUps(e)

Found(k) == IF k \in has THEN "ok" ELSE "empty"
UnchangedYf == UNCHANGED shared

\* The rest of the kinds is passed over after a rate limit.
SkipKind(k) ==
  /\ Doing(k) /\ hit
  /\ Entry(k, "skipped") /\ GoOn
  /\ NoLimit /\ UnchangedYf /\ UNCHANGED pressed
  /\ UnchangedTitle /\ UNCHANGED <<raw, fx, rateCache>>

\* yfinance has the response already; one that failed looks empty, and is not logged again.
KindFromCache(k) ==
  /\ Doing(k) /\ ~hit
  /\ k \in SharedKinds /\ shared # "unasked"
  /\ Entry(k, IF shared = "failed" THEN "empty" ELSE Found(k)) /\ GoOn
  /\ NoLimit /\ UnchangedYf /\ UNCHANGED pressed
  /\ UnchangedTitle /\ UNCHANGED <<raw, fx, rateCache>>

\* _consensus_value: two attempts; neither a rate limit nor an HTTP error, which
\* yfinance only logs, is tried again.
AskKind(k) ==
  /\ Doing(k) /\ ~hit
  /\ k \in SharedKinds => shared = "unasked"
  /\ Ask
  /\ \/ Entry(k, Found(k)) /\ GoOn /\ NoLimit
        /\ shared' = IF k \in SharedKinds THEN "read" ELSE shared
     \/ Entry(k, "response_error") /\ GoOn /\ NoLimit
        /\ shared' = IF k \in SharedKinds THEN "failed" ELSE shared
     \/ Again(2) /\ NoLimit /\ UNCHANGED <<entries, shared>>
     \/ LastTry(2) /\ Entry(k, "error") /\ GoOn /\ NoLimit /\ UnchangedYf
     \/ Entry(k, "error") /\ GoOn /\ NoteLimit /\ UnchangedYf
  /\ UnchangedTitle /\ UNCHANGED <<raw, fx, rateCache>>

------------------------------------------------------------------------------
(* Quarters, share counts and prices.                                        *)

Series == {"income", "balance", "cashflow", "shares", "prices", "all_prices"}
Fx == CHOOSE n \in 1..Len(Calls) : Calls[n] = "fx"

\* The prices of a window with a new split are followed by all prices; a failed
\* call by none.
Answered(ok) ==
  CASE Doing("prices") /\ ok -> GoOn \/ GoTo(Fx)
    [] Doing("prices") /\ ~ok -> GoTo(Fx)
    [] OTHER -> GoOn

\* A call that fails costs its data only: two attempts, but none after a rate limit.
AskSeries ==
  /\ Calls[call] \in Series /\ ~hit
  /\ Ask
  /\ \/ Answered(TRUE) /\ NoLimit
     \/ Again(2) /\ NoLimit
     \/ LastTry(2) /\ Answered(FALSE) /\ NoLimit
     \/ Answered(FALSE) /\ NoteLimit
  /\ UnchangedTitle /\ UnchangedYf /\ UNCHANGED <<entries, raw, fx, rateCache>>

\* _additional, and the break of quarterly_frames.
SkipSeries ==
  /\ Calls[call] \in Series /\ hit
  /\ GoTo(Fx)
  /\ NoLimit /\ UnchangedTitle /\ UnchangedYf /\ UNCHANGED <<pressed, entries, raw, fx, rateCache>>

------------------------------------------------------------------------------
(* The exchange rate: kept by the process once it is there.  Otherwise three *)
(* attempts, also after a rate limit; without it the factor stays open.      *)

StatementFx ==
  /\ Doing("fx")
  /\ \/ ~foreign /\ fx' = One /\ GoOn /\ UNCHANGED rateCache
     \/ foreign /\ rateCache # None /\ fx' = rateCache /\ GoOn /\ UNCHANGED rateCache
     \/ foreign /\ rateCache = None /\ fx' = pass /\ GoOn /\ rateCache' = pass
     \/ foreign /\ rateCache = None /\ Again(3) /\ UNCHANGED <<fx, rateCache>>
     \/ foreign /\ rateCache = None /\ LastTry(3) /\ GoOn /\ UNCHANGED <<fx, rateCache>>
  /\ NoLimit /\ UnchangedTitle /\ UnchangedYf /\ UNCHANGED <<pressed, entries, raw>>

\* fetch_all goes on; the service with the next run in the same process, the batch
\* in a new one.
NextTicker ==
  /\ Doing("done")
  /\ \/ nth < NumListed /\ nth' = nth + 1 /\ UNCHANGED <<pass, rateCache>>
     \/ nth = NumListed /\ pass < NumRuns /\ nth' = 1 /\ pass' = pass + 1 /\ rateCache' \in {rateCache, None}
  /\ TitleStarts

YahooNext ==
  \/ BaseData
  \/ \E k \in Kinds : SkipKind(k) \/ KindFromCache(k) \/ AskKind(k)
  \/ AskSeries \/ SkipSeries
  \/ StatementFx \/ NextTicker

YahooSpec == YahooInit /\ [][YahooNext]_yahooVars

------------------------------------------------------------------------------
(* Properties.                                                               *)

YahooTypeOK ==
  /\ pass \in 1..NumRuns /\ nth \in 1..NumListed /\ call \in 1..Len(Calls) /\ tries \in 0..2
  /\ {hit, foreign, raw, limited, pressed} \subseteq BOOLEAN
  /\ has \in Coverage
  /\ shared \in {"unasked", "read", "failed"}
  /\ entries \in [Kinds -> {"unasked", "ok", "empty", "error", "response_error", "skipped"}]
  /\ fx \in {None, One} \cup Rate /\ rateCache \in {None} \cup Rate

\* ADR-0010, yahoo.py: "empty" is a finding, that no analyst covers the title.  So a
\* title is done with "empty" only for kinds Yahoo has nothing of, and with "ok" only
\* for those it has, whichever calls failed, were kept by yfinance or passed over.
\* After a rate limit no further kind or series of this title is asked for, and nothing
\* is left out of a title that was not limited itself.  (The rate of its currency still
\* is, up to three times, and does not count here: StatementFx.)
ConsensusIsTrue ==
  /\ ~pressed
  /\ Doing("done") /\ raw => \A k \in Kinds :
       /\ entries[k] = "empty" => k \notin has
       /\ entries[k] = "ok" => k \in has
       /\ entries[k] \in {"skipped", "unasked"} => limited

\* _fx_rate: "Pro Run gecached".  The statements of a title are converted by the rate
\* of the run that fetched them, or not at all.
RateOfThisRun == Doing("done") /\ raw /\ foreign => fx \in {None, pass}
==============================================================================

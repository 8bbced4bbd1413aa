------------------------------- MODULE Universe -------------------------------
(***************************************************************************)
(* The universe of a run: the titles of DAX and MDAX from the first source *)
(* that answers for both indices, else from the list kept by hand, and     *)
(* their way into the table of titles, whose ISINs are set once.           *)
(*                                                                         *)
(*   market-data: application/universe.py, domain/universe.py,             *)
(*     adapters/ishares.py, deka.py, openfigi.py, csv_universe.py,         *)
(*     adapters/postgres/store.py (start_fetch)                            *)
(*                                                                         *)
(* Left out: names of titles, dates (iShares' only decides whether its     *)
(* answer counts) and the hint of diff that the list is out of date.       *)
(***************************************************************************)
EXTENDS Integers, Sequences, FiniteSets, SequencesExt, Places

CONSTANTS Symbols, Isins,
          Expected,     \* expected_counts: how many titles an index has
          Csv,          \* load_fallback: the list kept by hand
          MaxRows,      \* bound: the rows of an answer
          NumLoads      \* bound: the runs

NoIsin == 0

VARIABLES
  asking,      \* place of the source asked, 0 if none
  answered,    \* its indices so far
  loaded,      \* its titles so far
  universe,    \* what the chain gave: its source and titles, <<>> until then
  refused,     \* sources that were given up
  forced,      \* force_fallback
  isinOf,      \* table instrument: ISIN of each symbol that is in it
  fetch,       \* how the last start_fetch ended
  loads        \* runs so far

universeVars == <<asking, answered, loaded, universe, refused, forced, isinOf, fetch, loads>>

Sources == <<"iShares", "Deka">>
FallbackSource == "Fallback-CSV"
Indices == <<"DAX", "MDAX">>
Index == Indices[answered + 1]

Ticker == [symbol : Symbols, index : {"DAX", "MDAX"}, isin : Isins \cup {NoIsin}]

ASSUME UniverseAssumption ==
  /\ Expected \in [{"DAX", "MDAX"} -> Nat]
  /\ Csv \in Seq(Ticker)
  /\ {MaxRows, NumLoads} \subseteq Nat

\* The rows an answer may have.
Rows(S) == UNION {[1..n -> S] : n \in 0..MaxRows}

\* By symbol, the first entry.
Dedupe(s) ==
  AtPlaces(s, {i \in DOMAIN s : \A j \in 1..(i - 1) : s[j].symbol # s[i].symbol})

UniverseInit ==
  /\ asking = 0 /\ answered = 0 /\ loaded = <<>> /\ universe = <<>>
  /\ refused = {} /\ forced = FALSE /\ isinOf = <<>> /\ fetch = "none" /\ loads = 0

\* load_universe: the first source, or none of them.
StartLoad ==
  /\ asking = 0 /\ universe = <<>> /\ loads < NumLoads
  /\ loads' = loads + 1
  /\ forced' \in BOOLEAN
  /\ asking' = IF forced' THEN 0 ELSE 1
  /\ universe' = IF forced' THEN <<FallbackSource, Dedupe(Csv)>> ELSE <<>>
  /\ answered' = 0 /\ loaded' = <<>> /\ refused' = {}
  /\ UNCHANGED <<isinOf, fetch>>

\* An index is answered; after the last one the source's titles are the universe.
Answer(tickers) ==
  /\ loaded' = loaded \o tickers
  /\ answered' = answered + 1
  /\ IF answered' = Len(Indices)
     THEN /\ universe' = <<Sources[asking], Dedupe(loaded')>>
          /\ asking' = 0
     ELSE UNCHANGED <<universe, asking>>
  /\ UNCHANGED <<refused, forced, isinOf, fetch, loads>>

\* parse_ishares: shares only, in the expected number.
AskIshares ==
  /\ asking = 1
  /\ \E rows \in Rows(Symbols \X Isins) :
       /\ Len(rows) = Expected[Index]
       /\ Answer([i \in DOMAIN rows |-> [symbol |-> rows[i][1], index |-> Index, isin |-> rows[i][2]]])

\* The symbols of the list by ISIN, the last entry.
SymbolOf ==
  LET list == Dedupe(Csv)
      of(isin) == {i \in DOMAIN list : list[i].isin = isin}
  IN [isin \in {list[i].isin : i \in DOMAIN list} \ {NoIsin} |->
        list[CHOOSE i \in of(isin) : \A j \in of(isin) : j <= i].symbol]

\* resolve_isins_openfigi: a batch that fails leaves gaps.
Resolve(isins) == UNION {[S -> Symbols] : S \in SUBSET isins}

\* map_isins after parse_deka: the symbol from the list, else from OpenFIGI; no gap
\* may be left.
AskDeka ==
  /\ asking = 2
  /\ \E rows \in Rows(Isins) :
       LET unknown == ToSet(rows) \ DOMAIN SymbolOf
       IN /\ Len(rows) = Expected[Index]
          /\ \E resolved \in Resolve(unknown) :
               /\ DOMAIN resolved = unknown
               /\ Answer([i \in DOMAIN rows |->
                           [symbol |-> IF rows[i] \in unknown THEN resolved[rows[i]] ELSE SymbolOf[rows[i]],
                            index |-> Index, isin |-> rows[i]]])

\* An index cannot be had, or not in the expected number, or is too old: the whole
\* source is given up.
GiveUpSource_KeepsTitles ==
  /\ asking # 0
  /\ refused' = refused \cup {Sources[asking]}
  /\ answered' = 0
  /\ asking' = IF asking = Len(Sources) THEN 0 ELSE asking + 1
  /\ universe' = IF asking = Len(Sources) THEN <<FallbackSource, Dedupe(Csv)>> ELSE universe
  /\ UNCHANGED <<loaded, forced, isinOf, fetch, loads>>
GiveUpSource ==
  /\ asking # 0
  /\ refused' = refused \cup {Sources[asking]}
  /\ loaded' = <<>> /\ answered' = 0
  /\ asking' = IF asking = Len(Sources) THEN 0 ELSE asking + 1
  /\ universe' = IF asking = Len(Sources) THEN <<FallbackSource, Dedupe(Csv)>> ELSE universe
  /\ UNCHANGED <<forced, isinOf, fetch, loads>>

------------------------------------------------------------------------------
(* start_fetch: one transaction.                                            *)

\* get_or_create_instruments
Created(table, symbols) == [s \in DOMAIN table \cup symbols |-> IF s \in DOMAIN table THEN table[s] ELSE NoIsin]

\* write_isins, one title: only where none is, and none that another title has.
WriteIsin_AnyFree(table, t) ==
  IF t.isin # NoIsin /\ table[t.symbol] = NoIsin THEN [table EXCEPT ![t.symbol] = t.isin] ELSE table
WriteIsin(table, t) ==
  IF t.isin # NoIsin /\ table[t.symbol] = NoIsin /\ \A s \in DOMAIN table : table[s] # t.isin
  THEN [table EXCEPT ![t.symbol] = t.isin] ELSE table

\* Title by title, each in the table the ones before it left.
WriteIsins(table, tickers) ==
  LET after[n \in 0..Len(tickers)] == IF n = 0 THEN table ELSE WriteIsin(after[n - 1], tickers[n])
  IN after[Len(tickers)]

\* uq_instrument_isin
Unique(table) == \A s, u \in DOMAIN table : table[s] = table[u] /\ table[s] # NoIsin => s = u

\* With DAX_ONLY the handler drops the titles of MDAX.
OnlyDax(tickers) == AtPlaces(tickers, {i \in DOMAIN tickers : tickers[i].index = "DAX"})

StartFetchOfUniverse ==
  /\ universe # <<>>
  /\ \E daxOnly \in BOOLEAN :
       LET tickers == IF daxOnly THEN OnlyDax(universe[2]) ELSE universe[2]
           table == WriteIsins(Created(isinOf, {tickers[i].symbol : i \in DOMAIN tickers}), tickers)
       IN IF Unique(table) THEN isinOf' = table /\ fetch' = "started"
                           ELSE isinOf' = isinOf /\ fetch' = "failed"
  /\ universe' = <<>>
  /\ UNCHANGED <<asking, answered, loaded, refused, forced, loads>>

\* take_snapshot with a fetch of the same day: the titles are in the table already.
UseFetchOfTheDay ==
  /\ universe # <<>>
  /\ \A i \in DOMAIN universe[2] : universe[2][i].symbol \in DOMAIN isinOf
  /\ universe' = <<>>
  /\ UNCHANGED <<asking, answered, loaded, refused, forced, isinOf, fetch, loads>>

UniverseNext == StartLoad \/ AskIshares \/ AskDeka \/ GiveUpSource \/ StartFetchOfUniverse \/ UseFetchOfTheDay

UniverseSpec == UniverseInit /\ [][UniverseNext]_universeVars

------------------------------------------------------------------------------
(* Properties.                                                               *)

UniverseTypeOK ==
  /\ asking \in 0..Len(Sources) /\ answered \in 0..Len(Indices) /\ loads \in 0..NumLoads
  /\ loaded \in Seq(Ticker)
  /\ universe = <<>> \/ (universe[1] \in ToSet(Sources) \cup {FallbackSource} /\ universe[2] \in Seq(Ticker))
  /\ refused \subseteq ToSet(Sources) /\ forced \in BOOLEAN
  /\ DOMAIN isinOf \subseteq Symbols /\ \A s \in DOMAIN isinOf : isinOf[s] \in Isins \cup {NoIsin}
  /\ fetch \in {"none", "started", "failed"}

OfIndex(tickers, index) == Cardinality({i \in DOMAIN tickers : tickers[i].index = index})

\* "die erste gueltige gewinnt": a universe is the answer of one source, for every
\* index as many titles as it has, whatever a source that failed at its second
\* index had given before; the list by hand stands in only if it was asked for or
\* every live source was given up in this run.
UniverseFromOneSource ==
  universe # <<>> =>
    IF universe[1] = FallbackSource
    THEN universe[2] = Dedupe(Csv) /\ (forced \/ refused = ToSet(Sources))
    ELSE /\ universe[1] \notin refused
         /\ universe[2] = Dedupe(loaded)
         /\ \A index \in ToSet(Indices) : OfIndex(loaded, index) = Expected[index]

\* repository.py: an ISIN is never overwritten and never given to two titles; and a
\* title that comes back under another symbol with its old ISIN does not make the
\* start of the fetch fail, and with it every later run.
IsinsStay ==
  [][/\ fetch' # "failed"
     /\ \A s \in DOMAIN isinOf : isinOf[s] # NoIsin => isinOf'[s] = isinOf[s]]_universeVars
==============================================================================

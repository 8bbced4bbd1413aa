------------------------------ MODULE ReadModel -------------------------------
(***************************************************************************)
(* What the web-api shows of rankings and titles: tables of its own, which *)
(* only grow.  Two write them: the projections of the events, and the      *)
(* backfill that a start of the batch's container runs over the tables of  *)
(* market-data and scoring.                                                *)
(*                                                                         *)
(*   services/web-api/src/va_web_api/projections/__init__.py               *)
(*   services/web-api/src/va_web_api/read_models.py, read.py               *)
(*   src/db/backfill.py                                                    *)
(*                                                                         *)
(* Each writes in one transaction, statement by statement.  A row that     *)
(* another transaction has inserted and not committed makes an INSERT ...  *)
(* ON CONFLICT DO NOTHING wait; of two that wait for each other PostgreSQL *)
(* aborts one.  A row is its key: both writers take the same values.       *)
(***************************************************************************)
EXTENDS Faults, Sequences, FiniteSets

CONSTANTS Symbol,         \* titles
          NumSnapshots,   \* bounds: on fetches,
          NumScorings,    \* scorings
          NumBackfills,   \* and starts
          MaxTries        \* MAX_DELIVER of the consumer

ASSUME ReadModelAssumption == {NumSnapshots, NumScorings, NumBackfills} \subseteq Nat /\ MaxTries \in Nat \ {0}

VARIABLES
  saved,      \* market_data.fundamental_snapshot: <<fetch, title>>
  complete,   \* the fetches whose event is sent
  scored,     \* scoring.scoring_run with its results
  sent,       \* the scorings whose event is sent
  web,        \* the rows of the schema web that are committed
  tx,         \* the open transactions
  starts      \* runs of the backfill so far

readModelState == <<saved, complete, scored, sent, web, tx, starts>>
readModelVars == <<readModelState, faults>>

SnapshotId == 1..NumSnapshots
ScoringId == 1..NumScorings

\* web.snapshot_row, ranking_run (with ranking_profile), ranking_row (with ranking_factor)
SnapshotRow(f, t) == <<"snapshot_row", f, t>>
RankingRun(k) == <<"ranking_run", k>>
RankingRow(k, t) == <<"ranking_row", k, t>>

SnapshotEvent(f) == <<"snapshot.completed", f>>
ScoringEvent(k) == <<"run.completed", k>>
Events == {SnapshotEvent(f) : f \in SnapshotId} \cup {ScoringEvent(k) : k \in ScoringId}
BackfillRun == <<"backfill", 0>>
Writer == Events \cup {BackfillRun}

WebRow == {SnapshotRow(f, t) : f \in SnapshotId, t \in Symbol} \cup {RankingRun(k) : k \in ScoringId}
         \cup {RankingRow(k, t) : k \in ScoringId, t \in Symbol}

\* step: of the backfill and of an event; todo: the rows of the statement that is
\* next; new: what is inserted and not committed.
Transaction == [step : {"idle", "first", "second", "commit", "done", "dead", "snapshots", "insert snapshots",
                        "runs", "insert runs", "rows", "insert rows"},
                todo : SUBSET WebRow, new : SUBSET WebRow, tries : 0..MaxTries]
Unbegun == [step |-> "idle", todo |-> {}, new |-> {}, tries |-> 0]

ReadModelInit ==
  /\ saved = {} /\ complete = {}
  /\ scored = <<>> /\ sent = {}
  /\ web = {}
  /\ tx = [w \in Writer |-> Unbegun]
  /\ starts = 0
  /\ faults = 0

------------------------------------------------------------------------------
(* market-data and scoring.                                                  *)

\* Title by title.
SaveTitle(f, t) ==
  /\ f \notin complete /\ (\A g \in 1..(f - 1) : g \in complete)
  /\ saved' = saved \cup {<<f, t>>}
  /\ UNCHANGED <<complete, scored, sent, web, tx, starts, faults>>

SendSnapshot(f) ==
  /\ f \notin complete /\ (\A t \in Symbol : <<f, t>> \in saved)
  /\ complete' = complete \cup {f}
  /\ UNCHANGED <<saved, scored, sent, web, tx, starts, faults>>

\* The titles that pass the filter are ranked, and none need get a score; a rescore
\* takes an older fetch.
RecordRanking ==
  /\ Len(scored) < NumScorings
  /\ \E f \in complete, ranked \in SUBSET Symbol, rated \in BOOLEAN :
       /\ rated => ranked # {}
       /\ scored' = Append(scored, [fetch |-> f, ranked |-> ranked, rated |-> rated])
  /\ UNCHANGED <<saved, complete, sent, web, tx, starts, faults>>

\* run.completed; without a score it is run.failed, and the scoring remains.
SendScoring(k) ==
  /\ k \in DOMAIN scored \ sent /\ scored[k].rated
  /\ sent' = sent \cup {k}
  /\ UNCHANGED <<saved, complete, scored, web, tx, starts, faults>>

------------------------------------------------------------------------------
(* Transactions.                                                             *)

Work(w, new) ==
  /\ tx' = [tx EXCEPT ![w] = new]
  /\ UNCHANGED <<saved, complete, scored, sent>>

\* Who has inserted what w is to insert, and has not committed it.
WaitsFor(w) == {u \in Writer \ {w} : tx[w].todo \cap tx[u].new # {}}

\* insert(...).on_conflict_do_nothing()
Insert(w, next, todo) ==
  /\ WaitsFor(w) = {}
  /\ Work(w, [tx[w] EXCEPT !.step = next, !.todo = todo, !.new = @ \cup (tx[w].todo \ web)])
  /\ UNCHANGED <<web, starts, faults>>

\* The transaction is rolled back: the event comes again until it is given up, the
\* backfill is tried at the next start.
RollBack(w) ==
  /\ Work(w, IF w = BackfillRun THEN Unbegun
             ELSE [Unbegun EXCEPT !.step = IF tx[w].tries < MaxTries THEN "idle" ELSE "dead",
                               !.tries = tx[w].tries])
  /\ UNCHANGED <<web, starts>>

Fails(w) == tx[w].step \notin {"idle", "done", "dead"} /\ Fault /\ RollBack(w)

\* Each waits for the other, also in the midst of two statements about the same rows,
\* and one is chosen.
Meets(w, u) == tx[w].todo \cap (tx[u].new \cup tx[u].todo) # {}
Deadlock(w) ==
  /\ \E u \in Writer \ {w} : Meets(w, u) /\ Meets(u, w)
  /\ RollBack(w)
  /\ UNCHANGED faults

------------------------------------------------------------------------------
(* The projections of an event, in the order they are registered.            *)

Deliver(w, first) ==
  /\ tx[w].step = "idle"
  /\ Work(w, [tx[w] EXCEPT !.step = "first", !.todo = first, !.tries = @ + 1])
  /\ UNCHANGED <<web, starts, faults>>

\* snapshot
ProjectSnapshot(f) ==
  LET e == SnapshotEvent(f) IN
    \/ f \in complete /\ Deliver(e, {SnapshotRow(f, t) : t \in Symbol})
    \/ tx[e].step = "first" /\ Insert(e, "commit", {})

\* ranking
RowsOf(k) == {RankingRow(k, t) : t \in scored[k].ranked}

\* ranking, then ranking_run with ranking_profile and ranking_factor
ProjectScoring(k) ==
  LET e == ScoringEvent(k) IN
    \/ k \in sent /\ Deliver(e, RowsOf(k))
    \/ tx[e].step = "first" /\ Insert(e, "second", {RankingRun(k)})
    \/ tx[e].step = "second" /\ Insert(e, "commit", {})

CommitWeb(w, step) ==
  /\ web' = web \cup tx[w].new
  /\ Work(w, [tx[w] EXCEPT !.step = step, !.todo = {}, !.new = {}])
  /\ UNCHANGED <<starts, faults>>

Projected(e) == tx[e].step = "commit" /\ CommitWeb(e, "done")

------------------------------------------------------------------------------
(* backfill_projections: for each table a query for what is missing, and the *)
(* inserts.  A query sees what is committed when it begins.                   *)

StartBackfill ==
  /\ starts < NumBackfills /\ tx[BackfillRun].step = "idle"
  /\ starts' = starts + 1
  /\ Work(BackfillRun, [Unbegun EXCEPT !.step = "snapshots"])
  /\ UNCHANGED <<web, faults>>

\* What the queries of _snapshot_rows, _ranking_runs and _ranking_rows ask for.
AllSnapshots == {SnapshotRow(s[1], s[2]) : s \in saved}
AllRuns == {RankingRun(k) : k \in DOMAIN scored}
AllRows == UNION {RowsOf(k) : k \in DOMAIN scored}

\* ... NOT EXISTS (SELECT 1 FROM web. ...)
Query(step, rows, next) ==
  /\ tx[BackfillRun].step = step
  /\ Work(BackfillRun, [tx[BackfillRun] EXCEPT !.step = next, !.todo = rows \ (web \cup tx[BackfillRun].new)])
  /\ UNCHANGED <<web, starts, faults>>

InsertAll_EachTable(step, next) ==
  /\ tx[BackfillRun].step = step /\ WaitsFor(BackfillRun) = {}
  /\ web' = web \cup tx[BackfillRun].todo
  /\ Work(BackfillRun, [Unbegun EXCEPT !.step = next])
  /\ UNCHANGED <<starts, faults>>

\* _insert
InsertAll(step, next) ==
  /\ tx[BackfillRun].step = step
  /\ Insert(BackfillRun, next, {})

Backfill ==
  \/ Query("snapshots", AllSnapshots, "insert snapshots") \/ InsertAll("insert snapshots", "runs")
  \/ Query("runs", AllRuns, "insert runs") \/ InsertAll("insert runs", "rows")
  \/ Query("rows", AllRows, "insert rows") \/ InsertAll("insert rows", "commit")
  \/ tx[BackfillRun].step = "commit" /\ CommitWeb(BackfillRun, "idle")

------------------------------------------------------------------------------
(* The pages.  What is committed stays, so later statements of one request   *)
(* see at least what earlier ones saw.                                       *)

\* get_ranking: ranked and filtered titles, a FULL JOIN of both tables; passed_filter
\* is whether there is a row.
RankingPage(k) ==
  [t \in {s \in Symbol : RankingRow(k, s) \in web \/ SnapshotRow(scored[k].fetch, s) \in web} |->
    RankingRow(k, t) \in web]

\* get_instrument: the scorings of a title and whether it passed their filter.
TitlePage(t) ==
  {<<k, RankingRow(k, t) \in web>> :
     k \in {j \in DOMAIN scored : RankingRun(j) \in web /\
              (RankingRow(j, t) \in web \/ SnapshotRow(scored[j].fetch, t) \in web)}}

\* The same two from the tables of market-data and scoring (read.py), as the web-api
\* without NATS answers.
TableRanking(k) == [t \in {s[2] : s \in {r \in saved : r[1] = scored[k].fetch}} |-> t \in scored[k].ranked]
TableTitle(t) ==
  {<<k, t \in scored[k].ranked>> : k \in {j \in DOMAIN scored : <<scored[j].fetch, t>> \in saved}}

ReadModelNext ==
  \/ \E f \in SnapshotId : SendSnapshot(f) \/ ProjectSnapshot(f) \/ \E t \in Symbol : SaveTitle(f, t)
  \/ RecordRanking
  \/ \E k \in ScoringId : SendScoring(k) \/ ProjectScoring(k)
  \/ \E e \in Events : Projected(e)
  \/ StartBackfill \/ Backfill
  \/ \E w \in Writer : Fails(w) \/ Deadlock(w)

ReadModelSpec == ReadModelInit /\ [][ReadModelNext]_readModelVars

------------------------------------------------------------------------------
(* Properties.                                                               *)

ReadModelTypeOK ==
  /\ saved \subseteq SnapshotId \X Symbol /\ complete \subseteq SnapshotId
  /\ scored \in Seq([fetch : complete, ranked : SUBSET Symbol, rated : BOOLEAN])
  /\ Len(scored) <= NumScorings /\ sent \subseteq DOMAIN scored
  /\ web \subseteq WebRow
  /\ tx \in [Writer -> Transaction] /\ \A w \in Writer : tx[w].new \cap web = {}
  /\ starts \in 0..NumBackfills

\* Of a scoring it knows, the read model answers as the tables do (read_models.py:
\* "Die Antworten sind dieselben"): with all its ranked titles, no title as filtered
\* that was ranked, and the filtered ones too once the rows of the fetch are there,
\* while backfill and projections write the same rows in another order, fail, and come
\* again.  An event that is done with has its rows there, whoever wrote them.
PagesAreTrue ==
  /\ \A k \in DOMAIN scored : RankingRun(k) \in web =>
       /\ scored[k].ranked \subseteq DOMAIN RankingPage(k)
       /\ \A t \in DOMAIN RankingPage(k) : RankingPage(k)[t] = TableRanking(k)[t]
       /\ tx[SnapshotEvent(scored[k].fetch)].step = "done" => RankingPage(k) = TableRanking(k)
  /\ \A t \in Symbol : TitlePage(t) \subseteq TableTitle(t)
  /\ \A f \in SnapshotId : tx[SnapshotEvent(f)].step = "done" => \A t \in Symbol : SnapshotRow(f, t) \in web
  /\ \A k \in ScoringId : tx[ScoringEvent(k)].step = "done" => RankingRun(k) \in web
==============================================================================

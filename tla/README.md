# A TLA+ model of the value screener

The repository holds a weekly screener of DAX and MDAX titles: a web-api, three services
(market-data, scoring, notification) that hand a run on over NATS JetStream and PostgreSQL, a batch
that runs the same chain in one process, and an Angular frontend. This directory models what makes
that system hard: messages that are delivered again, overlap or are lost, transactions and calls
that fail between two steps, processes that die, a watchdog that races with late results, requests
that interleave between their transactions, tables that only grow, and a browser that has to catch up.

Paths below are relative to the repository; `va-platform` is
`packages/va-platform/src/va_platform`, `web-api` is `services/web-api/src/va_web_api`, and so on.

## 1. Inventory

| Component | State | Operations | Talks to | Correct when |
|---|---|---|---|---|
| **ReliableBus** (`va-platform/messaging/reliable.py`, `inbox.py`) | inbox of a schema, outbox of the same schema | deliver: age check, inbox check, handler, claim + outbox in one transaction, flush | NatsBus below, handlers above | the follow-ups of exactly one handler run per event get out, after its data, none is lost |
| **Outbox** (`messaging/outbox.py`) | rows with `published_at` | `add`, `publish_pending`, `drain_outbox`, the relay thread | JetStream publisher | nothing lost or invented, the order kept, everything sent in the end |
| **NatsBus** (`va-platform/nats/`) | pull loops, in-progress acks | pull, ack, nak, term, dead letter, publish, settle, close | JetStream | a message is settled once its handler is done with it |
| **Service runner** (`va-platform/service.py`) | – | dead letter → `screening.run.failed` | NatsBus | a lost message ends its run |
| **InProcessBus** (`va-platform/bus.py`) | queue | publish, deliver with retries, dead letter | batch | every event reaches every handler once, or is heard of |
| **Run manager** (`web-api/runs/`) | `batch.run`, `web.run_request`, `web.outbox`, advisory lock | start, schedule, watchdog check, tick | database, services through the outbox | one fetch at a time, every run closed, each time-out once |
| **Projections, event manager** (`web-api/projections/`, `events/`) | `web.run_status`, `web.inbox`, `batch.run`, read models | one projection per event type; close the run; announce after the commit | NatsBus, hub, backfill | the tables tell one story, nothing goes back, no half ranking is shown |
| **Backfill** (`src/db/backfill.py`) | the same read models | fills them from the tables of market-data and scoring at a start | projections | ranking and title pages answer as the tables do |
| **Hub, endpoint, replay** (`web-api/realtime/`) | per tab: topics, held events, queue, session | connect, subscribe, replay, publish, close | event manager (other threads), JetStream, browser | nothing missed, doubled or swapped; gone with its session |
| **Real-time service** (`frontend/.../shared/realtime/`) | `lastSeq`, versions per topic | connect, resume, receive, reload | hub, REST | the view catches up |
| **Profile editor** (`frontend/.../profiles/`) | form, its version, conflict | load, edit, save, reload, activate | web-api → scoring | form and `If-Match` belong together |
| **market-data** (`services/market-data`) | `fetch_run`, titles, statements, prices, shares, ISINs | universe, reuse or fetch, store title by title, finish | Yahoo, iShares, Deka, OpenFIGI, scoring | what is announced is stored; series have no gaps; "no data" is not an error |
| **scoring** (`services/scoring`) | scoring runs, profiles, activations | score a snapshot; save, activate, preview | notification, web-api (RPC) | a scoring belongs to its snapshot; ranks do not depend on the input's order; versions are append-only |
| **notification** (`services/notification`) | reports, deliveries | report mail, error mail, ping | SMTP, health check | at most one report mail per scoring, and it is out before `report.sent` |
| **Batch** (`src/main.py`, `run_tracker.py`) | `batch.run`, tracker | start, wait, finish, alarm | the chain, in process or over NATS | the exit code says what happened; a failure wins and is heard of |
| **Identity** (`web-api/identity/`) | append-only accounts, passwords, sessions, revocations, login events | log in, authenticate, revoke, disable, reset | REST, endpoint | a session lasts as long as documented and ends when it is told to |
| **Schema** (`migrations/`, `va-platform/db/ddl.py`, `src/db/migrate.py`) | tables, triggers, roles, rights | migrate, create a role, grant | all of them | no role may do more than documented, nothing stored is overwritten |
| Contracts, report texts, other pages, regression harness, deployment | – | mappings, rendering, tools | | |

Hard behaviours: at-least-once delivery with a duplicate window; handlers that commit before the
inbox does; two deliveries, drainers, fetches, tabs or web-api instances at once; crashes between any
two commits; `created_at` that is not the order of commits; decisions on rows read a moment before
(watchdog, profile versions, versioned values); events that overtake each other after a retry; a mail
that cannot be taken back; live events during a replay; bounded queues; a provider that answers
failures with nothing; roles that come before or after the tables. `PROJECT.json` lists them line by
line under `hazards`, each with the properties that would catch it.

## 2. Modules

| Module | Models | Composed with |
|---|---|---|
| `Faults` | the one budget of things that go wrong from outside | extended by most |
| `ReliableBus` | one durable consumer with inbox, outbox, redelivery, overlap, ageing | refines `ProcessOnce`; `MCReliableBus` gives it messages |
| `ProcessOnce` | abstract: each event chooses one handler run, only the chosen one's events are sent | |
| `ReliableBusProofs`, `RunLifecycleProofs`, `ScreeningProofs` | the theorems about these modules | |
| `PlatformProofs` | the theorems about `Identity`, `Schema`, `Outbox` and `Batch`, what services and users stand on | |
| `FetchProofs` | the theorems about `Versions`, `Yahoo`, `Universe`, `Figures` and `Rules`, the way of a title to its rank | |
| `PagesProofs` | the theorems about `Profiles`, `ReadModel` and `Realtime`, what pages show and hear of | |
| `ComponentsProofs` | the theorems about `Components`: the sum is faithful to its parts | |
| `Places` | parts of a list by their places, what a loop with `if` keeps | extended by `Universe` and `Realtime` |
| `Sums` | sums over finite sets | extended by `Rules` |
| `NumberLemmas` | least and greatest elements, sizes and places in sets of numbers, sums over finite sets | extended by four of the proof modules |
| `RunLifecycle` | runs in the web-api: creation, schedule, watchdog, projections, batch as second writer | |
| `Services` | stream, consumers, settle, failure and dead letter for the three services | base of the next three |
| `MarketData`, `Scoring`, `Notification` | the handlers of the services, step by step | `Screening` |
| `Screening` | the chain from `screening.run.requested` to the mail | extends all four |
| `Outbox` | the outbox table, transactions in flight, drainers, relay with back-off, duplicate window | `Components` |
| `Realtime` | event manager's announcements, hub, endpoint, replay, browser | `Components` |
| `ReadModel` | projections of snapshots and rankings beside the backfill, and the two pages that read them | `Components` |
| `Profiles` | versions and activations of a profile, requests, the editor of two tabs | `Components` |
| `Identity` | accounts, log-ins and sessions under interleaved requests | `Components` |
| `Versions` | the versioned series of a title under overlapping fetches | `Components` |
| `Universe` | the chain of sources of the titles, and their ISINs in the table | `Components` |
| `Yahoo` | the calls for a title: retries, rate limit, shared answers, currency rate | `Components` |
| `Figures` | the figures of a title in two currencies | `Components` |
| `Rules` | the scoring of a table: ranks, composites, order | `Components` |
| `Batch` | tracker, both buses, the wait, the end of the batch | `Components` |
| `Schema` | tables, triggers, roles and rights of all migrations | `Components` |
| `Components`, `MCComponents` | the last twelve side by side, and a small instance of each | |

**Components.** Twelve components share no variable. `part` says which one moves in a behaviour; the
others stay as they start. As none reads what another changes, each behaviour of a component is one
of these and conversely (the second half is the theorem `PartsBehave`), so this is a sum of the models, not an interleaving
of them, and one run checks them all. `VIEW Moving` keeps `part`, `faults` and the variables of the part that moves: the
others have one value for each part (`StartOfOthers`), so the view tells the same states apart as the
full state does. Components that do act on each other are in one module (`ReliableBus` with its outbox,
`RunLifecycle`, `Screening`).

**ReliableBus.** A message is an entry of the stream, and several may carry one event id. A *run* of
the handler is named by message and delivery; its follow-up events have fresh ids, so a row is a run
and a part. `Examine` is the age and inbox check, `Handle` the handler with its own commit, `Complete`
the transaction of `_deliver`, `ReadPending`/`Publish`/`Mark` the flush, `Ack`/`Nak`/`DeadLetter`/`Term`
the settling in `NatsBus._dispatch`. `AckWait` redelivers, even under a live worker unless
`KeepAlive`: the in-progress acks may get lost. `Crash` drops what a worker has in memory.

**Outbox.** `Begin` stamps the rows of a transaction (equal timestamps are possible), `Finish`
commits or rolls back, so that rows become visible behind a reader. A drainer reads a batch,
publishes a row and marks it, the relay backs off after `PublishFails`. `Forget` is the end of the
duplicate window.

**RunLifecycle.** `StartRead`/`ScheduleRead`/`CheckRead` are the queries under the advisory lock,
`Create`/`CheckFail` the rest of the transaction with its commit, `Abort` its roll-back. `Dispatch` is
`EventManager.dispatch` with `_update_run` and `close_run`. The services are the environment, which
may send each stage once after the one before, and a failure at any time after the request: a dead
letter may come on top of a success. Two simplifications: the consumer takes the stream in its order or hands an
event back, and `CheckFail` has the time of its commit, where the code takes it before the lock (`manager.py:130`); no
property compares the two.

**Screening.** `Settle` does in one step what `ReliableBus` needs many for; that this is sound (the
inbox entry and the follow-ups of one handler run get out together, once) is what the refinement of
`ProcessOnce` shows. The handlers keep their own commits as steps, because crashes between these are
what their locks are for. The bus of a run has some `max_deliver` up to `MaxDeliver`, and `Break` is a death or an exception:
below the limit the message comes again, at the limit the run is reported as failed (`DeadLetter`), or nobody says so (`lost`).

**Realtime.** One tab, one session, one topic; events are their sequence numbers. The callbacks of
`call_soon_threadsafe` are a queue, the endpoint is a phase, and the browser has `lastSeq`, a view
that is `dirty`, and what it has `shown` (the projections at its last reload). `got` remembers the
messages of the connection that have reached the tab, for `TabFollows`. `EndSession` stands for
whatever ends a session in `Identity`, with or without a word to the hub. Two simplifications: a message that the
sender is just sending counts as in the queue, so the code's limit may be one higher; and that the stream has
dropped what the tab missed (retention) is a fault of `ReadStream`, with the same answer, no replay.

**ReadModel.** A writer is the projection of an event or the backfill; each has a transaction that
inserts statement by statement. `Meets`/`WaitsFor` are PostgreSQL's wait for a key that another
transaction has inserted, `Deadlock` the abort of one of two that wait for each other. Rows are their
keys. `RankingPage`/`TitlePage` are the two pages from the read models, `TableRanking`/`TableTitle` the
same answers from the tables of market-data and scoring.

**Profiles.** A request is two steps, the one up to its last check and the rest with the commit
(READ COMMITTED); an answer may be lost (`TimesOut`), and the tab may send again. `Page` is the state of the
editor: the loaded version, the one the form started from, the form, the conflict and the flag of a reload.

**Identity.** A request takes the clock once, then each call of the store is a step: find the session,
accept and record it, check the lock-out, verify, set, revoke. Passwords are right or wrong.

**Versions.** A value of a day is the set of later splits or restatements it already has in it. A fetch reads
the state of the series (`ReadState`), loads from a day, compares with what counts and commits; two fetches
may be anywhere in between.

**Universe, Yahoo, Figures, Rules.** The way of a title: which titles there are (`Answer`, `GiveUpSource`,
`WriteIsin`), what Yahoo is asked (`Ask` and the way an answer is recorded), what is computed
(`Metrics`) and how it is ranked (`Score`). `Figures` computes with fractions; where the code takes a root
the figure is what the root is taken of. In `Yahoo`, `pressed` counts the kinds and series that are asked for behind a rate
limit; the exchange rate (`StatementFx`), which `_fx_rate` still asks for up to three times, is not one of them. `Rules` scores a
`Table`, the titles that are large enough with their figures, and nothing else; shares are counted in parts of `Whole`, a
composite is a weighted sum (`SumAt`), and a better figure counts only where its group has a weight. Both have one
action that changes the input in a way that must not matter, or must matter in one direction only.

**Batch.** The handlers of the services are taken and finished (their inside is `Screening`); in-process
the queue is in order, over NATS every consumer has its own place in the stream, which may begin with an event of another
run, of any kind in `OtherRuns`, with follow-ups of that run (`Answers`). `Look` is a look of `settle`, `GiveUp` a time-out,
`MainFails` anything raised while the bus is open, also a publish that NATS has stored and not answered;
`CloseBus` waits for the handlers, or cuts them off after its 30 seconds. `Handle` is publication, ack and end in one step,
since `settle` sees the consumer busy up to the ack.

**Schema.** One operator `M0001` … `M0016` per migration: the tables it makes, those of them it
protects, named as its `TABLES` has them, and what it grants to roles that exist; `Upgrade` applies them one after the other (`Migrated`). `CreateRole`/`GrantRole` are the two transactions of
`ensure_*`, which may come before, between or after the upgrades, or break off between the two. One row is watched:
`InsertRow`, `CloseRow`, `ChangeRow`, `DeleteRow` by whoever has the right, under the triggers.

## 3. Runs

| Run | Bounds | Shows |
|---|---|---|
| `reliable_overlap` | 1 event sent twice, 2 workers, 2 follow-ups, 2 deliveries, 2 faults, overlap allowed | types, `OneRunPerEvent`, `SentDataStored`, `SettledIsDone`, refinement of `ProcessOnce` |
| `reliable_live` | same, 3 deliveries, no overlap, fair | `FollowUpsBeforeAck`, `EventuallySent` |
| `reliable_ack_overlap` | 1 message, 2 workers | **violated**: `FollowUpsBeforeAck` with overlap |
| `runs_one` | 1 run, 2 instances, a slot, 5 events, 1 fault, fair | types, `TablesTell`, `NeverBack`, `EveryRunCloses` from every stage |
| `runs_two` | 2 runs, 2 instances, a slot, the batch, 2 events, 1 fault | `OneTimeout`, `OneFetchAtATime`, `BatchClosesItsRuns` |
| `runs_watchdog_race` | 1 run | **violated**: `WatchdogSparesResults` |
| `screening_chain` | 2 runs (one forced), 1 title, 2 days, 1 or 2 deliveries, 1 fault, fair | snapshot, scoring, report, mail, ping and log agree; the user hears of every run, also by a dead letter |
| `screening_two_mails` | 1 run, 1 fault | **violated**: `AtMostOneMail` |
| `components` | see below, fair | what each of the twelve components promises |
| `realtime_replay_overflow` | 3 events, queue of 2, replay of 3 | **violated**: `ResumeSucceeds` |
| `profiles_lost_update` | 2 tabs, 2 requests | **violated**: `SavedOnNewest` |
| `yahoo_rate` | 2 runs of 2 titles | **violated**: `RateOfThisRun` |

The parts of `components`, each with at most one fault:

| Part | Bounds | Properties |
|---|---|---|
| outbox | 2 transactions of 2 rows, relay and a caller, batches of 2 | `SentAsCommitted`, `EventuallySent` |
| realtime | 3 events, queue of 2, replay of 3 | `TabFollows`, `SessionEndsConnection` |
| readmodel | 2 titles, 1 fetch, 1 scoring, 2 backfills, 2 deliveries | `PagesAreTrue` |
| profiles | 2 tabs, 2 parameter sets, 2 requests | `AnswersAreTrue`, `FormIsOfItsVersion` |
| identity | an admin, a user, a new account, 2 requests, times 0–3, idle 2, absolute 3 | `SessionsEndAsSet`, `LockedForReason` |
| versions | 6 days, 2 fetches, an overlap of 1 day; prices, shares or statements | `NoGap`, `StoredSplitIsApplied` |
| batch | a universe of 2, either transport, before it nothing or a scored, reported or failed event of another run | `EndIsTrue` |
| rules | 3 titles, 3 factors, 5 lines of figures | `RankingIsFair` |
| yahoo | 2 runs of 2 titles, 2 kinds from a shared source | `ConsensusIsTrue` |
| universe | 2 symbols, 2 ISINs, answers of up to 2 rows, 3 runs | `UniverseFromOneSource`, `IsinsStay` |
| figures | one full statement and one for each figure missing, zero or negative; 3 rates, 2 further currencies | `UnitsDoNotMatter` |
| schema | 5 places an upgrade may end, 3 optional roles, every table as the watched one | `RightsAreAsDocumented`, `StoredStays` |

Some properties are conjunctions of named parts that belong together: `SentAsCommitted` (order and
completeness), `TabFollows` (nothing missed, nothing doubled or swapped), `TablesTell` (open and failed agree, and
the counters), `EventsAreBacked`, `EndIsTrue` (exit code and alarm), `SessionsEndAsSet` (as long as it should, and no
longer). Every property of a passing run has a mutant in `PROJECT.json`: an operator with the suffix
of a plausible bug (`Complete_WithoutClaim`, `CheckRead_NoLock`, …) under which TLC finds the property violated.

**Why these bounds are enough.** Two messages of one event and two workers are all that the races of
inbox and outbox need; two parts make a flush that breaks off in the middle. Two transactions of two
rows give every overtaking of commits, and a batch of two is smaller than what is pending. A second run
matters only for the lock, the slot and the batch, so `runs_two` keeps its stream short and `runs_one` the
stages of one run long, up to the limit for the report, with both instances: so it is where `EveryRunCloses` is checked. In `screening_chain` the second run forces a fetch of its own or lets the first reuse it,
on the same or the next day; the bus has `max_deliver` 1 or 2, so that one fault makes a redelivery or a dead letter. The
events of another run in `Batch` are one that starts a chain of its own, one that looks like this run's end and one that looks like its
failure; the theorem `EndTrue` has every kind. The limits that the code meets in the ratio 256 to 500 are 2 to 3 in `Realtime`.
Two requests, tabs or fetches at a time are what any of the races of `Profiles`, `Identity` and `Versions` needs;
the clock of `Identity` passes the idle and the absolute limit and the touch interval, one behind the other. Six days
put a split before, in and behind the window of a second fetch. Three titles make a tie, a better and a missing
one. Two indices and two sources make a source that fails at its second index, and three runs a title that changes
its symbol and comes back.
`MaxFaults` is the number of failures between which an interleaving is interesting; the safety theorems of
section 5 hold for any number. Deadlock is not checked in any run: every model ends when its bounded
events are done, and waiting for the next week is what this system does.

**Fairness.** Liveness assumes that a worker that can take its next step does (every NATS and SMTP call
and every statement has a time-out, then it raises, and the loops catch everything), that JetStream
redelivers after `ack_wait`, that the web-api's minute tick continues after a failing tick
(`main._keep_runs`), that the relay wakes up (`OutboxRelay.run`), that the tasks of the endpoint get their
turns in the event loop, and that a browser reconnects (`RealtimeService.closed`). Nothing is assumed of the
services in `EveryRunCloses`, nor of users. `UserHears` excepts a message that is lost without a trace (`lost`: the process
dies at its last delivery, or NATS refuses the failure event); such a run is ended by the watchdog only. `ComponentsFairness` has what the relay and the endpoint need;
`RealtimeFairSpec`, for `ResumeSucceeds`, adds the browser and strong fairness of the writer of a connection: reconnecting again
and again must not starve it in the model, otherwise the property would fail for a reason that is none.

## 4. Where the code and its documents disagree

Six runs show a disagreement (`findings` in `PROJECT.json` quotes the lines):

1. *Follow-ups before the ack.* A delivery that loses the claim returns without a flush, and its ack
   settles the message while the winner's follow-ups are still in the outbox.
2. *Watchdog and result.* `check` decides on what its query read; a result projected before the write
   is replaced by a time-out, `batch.run` says success and `run_status` failed.
3. *At most one report mail.* The lock is the log row, written after the mail.
4. *Replay longer than the queue.* A gap of 257 to 500 events closes the tab before it has got one of
   them; it reconnects with the same number, for ever.
5. *Lost update of a profile.* `save` checks `based_on`, then `write_profile_version` reads the newest version
   again; a save that commits between the two is not seen as a conflict, and its change is missing in the new version.
   One scoring instance serves the requests over NATS one after another, so this needs two instances or the
   caller in the same process (`LocalCaller`).
6. *The rate of an earlier run.* `_fx_rate` is cached for the life of the process, not "pro Run".

Also met while modelling, without a run of their own. Messages and runs:

- After `max_deliver`, `run_service` publishes `screening.run.failed` but writes no inbox entry
  (`events.md` says both); only the web-api's own consumer does.
- The services start no relay (`events.md` names one per service). What a flush leaves behind is sent by
  the redelivery, or by the next event of this service, but not if the message is too old by then:
  the age check comes first. Hence the exception in `EventuallySent`, and in `SettledIsDone`: what is dropped for its age is settled
  and not done. That such a run ends all the same is `EveryRunCloses`.
- `run_status` and `batch.run` agree on *open* and on *failed*, but a failure that follows a report
  turns `run_status` to failed and leaves `batch.run` a success, so "the same rules" holds the other
  way round only (`TablesAgree` states what does hold).
- `close_run` takes its counters from other events' projections. If `scoring.run.completed` was handed
  back and `report.sent` overtakes it, the run is a success whatever was scored; `CountsRight` has the
  condition.
- `RunTracker.on_dead_letter` does not look at the run: a dead letter of another run's event fails this batch
  without an alarm (`silent` in `Batch`).
- A fetch in which titles could not be stored is used again on the same day although less than four fifths of the
  titles may have a market cap: these titles leave the frame before the share is taken (`snapshot.py:72`, against
  `store.py:34`).

Pages:

- `hello` names the end of the stream, not of the projections. A tab whose connection breaks before it
  gets these events resumes behind them and shows an old state until the next event. The same happens to an
  event that is dispatched late after a retry, and before the first `subscribe`, which has no `resumeFrom`.
  `NothingMissed` is about what comes after `resumeFrom`.
- "Nichts doppelt" has an exception: the replay reads the stream, which may be ahead of the consumer, and
  the consumer announces the same events again later. That is fortunate, since the first
  announcement came before the projections did.
- The editor drops unsaved changes when it reloads a newer version; `forceReset` stays set after a reload that failed;
  a second save sent before the first one's reload is refused with 409; `profilesVersion` of the live store has
  no reader, so another tab's save is noticed at the conflict only.
- `ReadModel`: the `run_id` of a ranking that the backfill wrote while its run was going on stays empty; a fetch that is not
  finished may show its titles after a backfill; a live scoring that failed is "latest" for the tables at once, and
  for the read model only after a backfill, though `read_models.py` says the answers are the same. `PagesAreTrue` speaks
  of rankings the read model knows.

Accounts:

- Two admins may disable each other at once. A log-in that overlaps a disabling may open a session after
  `revoke_sessions`; it is refused while the account is disabled, and valid again when it is enabled.

market-data:

- Two fetches at once may store the same version twice, and a value that goes back to an earlier one may stay behind
  (`models.py:134`). A retry of `record_fundamentals` after a commit whose answer was lost fails at the primary key.
- `_recent` drops years that are missing, so the exponent of `cagr` may be too small; `_latest` takes each figure from its own
  latest year, so a ratio may mix two years.
- A title listed in DAX and MDAX at once (answers of different days) passes both counts and is then dropped once: the
  universe is smaller than expected.
- After a change of ticker the new symbol never gets its ISIN in the table, while the event carries it.

## 5. Proofs

`ReliableBusProofs` proves for any set of messages, events and workers, any `MaxDeliver` and `MaxFaults`,
from `BusAssumption` alone (`EventOf` is a function into `Event`, there is a part, the numbers are
naturals):

- `TypeCorrect`: `Spec => []TypeOK`.
- `OneRun`: `Spec => []OneRunPerEvent`.
- `SentStored`, `Settled`: `SentDataStored` and `SettledIsDone` are invariants.
- `AckAfterFollowUps`: with `KeepAlive`, `FollowUpsBeforeAck` is an invariant. Without it
  `reliable_ack_overlap` is the counterexample, so the assumption is needed.
- `Refinement`: `Spec => ImplementsProcessOnce`, by initial states, and each step a choice, a sending
  or a stutter of `ProcessOnce`.

The argument: the claim is the only way into the outbox, and it is refused when the inbox has the event.
So the inductive invariant says that every row of the outbox comes from a run whose event is in the
inbox and whose data are stored, that two runs of one event are never both there, that the rows
themselves come whole, that marked rows are in the stream and the stream is part of the outbox, and
what each worker knows at its label: at *complete* its data are stored; at *flush*, *publish* and *mark*
its event is in the inbox, and the rows in its hands are rows of the outbox. `OneRunPerEvent` alone is not
inductive: without the clause about the inbox a second claim could not be excluded. For
`AckAfterFollowUps` one adds that a message in flight has one worker and that a worker past its flush has left
no pending row of its own message.

`RunLifecycleProofs` proves for any number of runs, instances, slots and faults, any watchdog limits and any
length of the stream, from `LifecycleAssumption` (the numbers are naturals, slots are times):

- `RunTypes`, `TablesTellOfRuns`, `RunOneTimeout`, `RunOneFetch`: `TypeOK`, `TablesTell`, `OneTimeout` and
  `OneFetchAtATime` are invariants of `Spec`.
- `RunNeverBack`, `RunLeavesBatch`: `Spec => NeverBack` and `Spec => BatchClosesItsRuns`.

`RunInvariant` is the induction. Its invariant `IInv` adds four parts to these properties. `RunInv`: runs begin in the order of
their ids, and only runs that have begun are spoken of in the outbox and the stream; without it a new run
could have a failure waiting for it. `TimeoutInv`: a run with a timeout is closed, and its one
timeout is in the outbox or in the stream; as the watchdog takes open runs only, there is no second one. `LockInv`: one instance at a time is at work, and
what it has read before its last step still holds then. For a manual start this is that no run of the web-api is in its time: runs close
meanwhile, time passes, but nobody else creates one. For the watchdog it is only that the hanging runs are the
web-api's and have no timeout; that they are still open is *not* invariant, which is `runs_watchdog_race`.
`CountInv`: the counters of a run are those of its one `scored` event, which comes before `reported` in the
stream, as long as none of its events was handed back. `ToldItsOwn` and `TellKeepsStory` say what a set of
events does to a run, once for the consumer and for the watchdog; `StepCases` sorts the actions by what they change.

`PlatformProofs` proves for any number of transactions, rows, drainers and faults and any size of a batch, from
`OutboxAssumption`, that `SentAsCommitted` is an invariant of `OutboxSpec` (`OutboxSendsAsCommitted`). The
property speaks of the stream, the induction has to speak of what a drainer has in its hands: with each row it
holds also those that have to precede it (`MustPrecede`: of the same transaction with a smaller number, or of one that was
committed before this one began) and that are not in the stream yet (`BatchInv`), and what a
pass owes is in the stream or, in its last round, in the batch (`DueInv`). That a limited batch keeps
this is the lemma `Beginning`: it is a beginning of the pending rows in their order, and what has to precede a row comes before
it there. The first row of a set exists by the well-founded order of pairs of numbers (`FirstRow`, from
`WFLexPairOrdering` and `WFMin`), since a proof by induction on the size of the set is not possible here.

The same module proves for any number of titles and faults and both transports, from `BatchAssumption` (there is a title) and
`FaultsAssumption`, that `EndIsTrue` is an invariant of `BatchSpec` (`EndTrue`), whatever kinds of events of another run there may be. The
property has its limits: the exit code is claimed unless a wait ran into its time-out, NATS was lost or a handler was cut off at the close (`gaveUp`), and a failure
is heard unless it is a dead letter whose event NATS refuses or that is of another run (`silent`). It speaks of the end only; the induction has to
follow the chain. `ChainInv`: as long as the tracker has no result, some consumer has an event of the run before him that takes the chain on (`Onward`), so
a queue that is empty means a result. `TrackerInv`: the tracker has failed exactly when a dead letter or a failure event it has seen says so, and a success has
seen a report, behind a scoring (`OrderInv`: no report without its scoring before it, also among what is left in an outbox).
`QuietInv`: a consumer that settle found quiet stays quiet, because settle looks in the order of the chain and nobody sends what one before
him takes (`Behind`): so two quiet rounds mean that the tracker has seen everything, also a failure behind the success. What all handlers have in common, to be through with an event
and to send what their kind allows, is `Sends`; `SendsKeep` proves the invariant for it once.

`FetchProofs` proves for any number of days and fetches and any overlap of the windows, from `VersionsAssumption` (these are
naturals, there is a day), that `NoGap` and `StoredSplitIsApplied` are invariants of `VersionsSpec` (`VersionsHaveNoGap`,
`SplitsAreApplied`). Both follow from `TableInv`: each row is what the provider had on the day of its fetch; all days
that this fetch could see have a row that knows every change up to then; and the days *before* the row have
one even among the fetches up to this one, which is what makes the series true as of any earlier fetch. A
fetch at work has its own part (`FetchInv`): the days up to the last stored one know the changes up to it, what
was loaded or left by the comparison completes the series. The hard step is the comparison, which reads what counts now,
perhaps from a later fetch (`Overtaken`): if an earlier fetch leaves out a day because a later one has stored the
same value, while it keeps a day behind it, then a change lies between the two fetches, and this change would have changed the
value of the first day too.

The same module proves for any number of runs and titles, from `YahooAssumption`, that `ConsensusIsTrue` is an invariant of `YahooSpec` (`ConsensusTrue`).
During a title an entry may be false: yfinance answers the second kind of a shared response that failed as empty. So the induction says (`EntryInv`) that
an entry is true *or* an "empty" read from a failed response, while the title is not past the last kind, and (`FailedInv`) that in this case another entry names the
failed response, by which `_mark_follow_up_errors` knows; and that the guard of the rate limit is closed by this title's own limit, never by an earlier one's
(`LimitInv`). `RateOfThisRun` is no theorem: it is violated (`yahoo_rate`).

The third part proves, from `UniverseAssumption` (an index has a natural number of titles, the list by hand is a list of
tickers), that `UniverseFromOneSource` is an invariant of `UniverseSpec` (`UniverseOfOneSource`) and that each step has
`IsinsStay` (`IsinsNeverChange`). The property speaks of a universe that is there; the induction has to speak of a source that is being
asked (`AskInv`): those before it are given up, and it has all titles of each index answered and none of the others, so that
what an earlier source gave before it failed is gone (`IndexCount`: an answer adds to its index only). For
the ISINs, the table is unique (`TitlesInv`), and writing one title keeps it so (`WriteKeeps`). That
`WriteIsins`, a recursive function, is what it says for lists of any length is shown without induction: were there a first
title up to which no such function exists, the one before it could be extended by it (`WritesAre`); `AllWritesKeep` takes the first title
after which the table would not be unique.

`ScreeningProofs` proves for any runs, universes, titles, days, `MaxDeliver` and `MaxFaults`, from `ServicesAssumption`
(titles are numbers, the limits naturals), `MarketDataAssumption` (there is a day) and `FaultsAssumption`, that `TypeOK`, `EventsAreBacked`,
`ReportedIsMailed` and `PingsAreTrue` are invariants of `Spec` (`ScreeningTypes`, `EventsBacked`, `ReportsMailed`, `PingsTrue`)
and that `Spec => LoggedMailIsLast` (`LoggedIsLast`). The inductive invariant has a part for the message
at work (`JobInv`: one, of the stream, of a kind the service asked for), one for what each handler knows between its own commits
(`MarketDataInv`: the frame is stored, and the fetch is finished before it is announced; `ScoringInv`: the scoring at hand is of the
snapshot at work; `NotificationInv`: nothing is logged before the sending, and the mail is out behind it), and `Backed`
for every event of the stream. `EventsAreBacked` alone is not inductive: a snapshot event is true only because the handler
has closed the fetch in a commit of its own and keeps its number over the next steps. `LoggedMailIsLast` needs that the mail of a
scoring is sent only while none is logged for it, and this holds for the service at work because it takes one message at a time;
`screening_two_mails` is the mail that is sent before the log.

`PagesProofs` proves for any tabs, parameters and `MaxCalls`, from `ProfilesAssumption` (the start is a parameter set,
the bound a natural), that `ProfilesTypeOK`, `AnswersAreTrue` and `FormIsOfItsVersion` are invariants of `ProfilesSpec` (`ProfilesTypes`,
`AnswersTrue`, `FormOfItsVersion`). The types are the harder half: versions and times of activations are numbered by
what is stored already, so that they stay within their bound is a matter of counting (`NumbersInv`: no more versions than
saves that were answered ok, no time later than the number of requests that took one; lemma `CountedNumbers`).
`ActivationsInv` says that what is activated exists and the first version came with its activation, `CallInv` what a request knows
between its check and its commit, `PageInv` that the version of a page is stored with the parameters the form compares with,
also while an answer is under way.

`PagesProofs` also proves for any titles, fetches, scorings, starts of the backfill and `MaxTries`, from `ReadModelAssumption` (naturals;
an event is tried at least once, `bus.py:119`), that `PagesAreTrue` is an invariant of `ReadModelSpec` (`PagesTrue`). The
property speaks of the committed rows of `web`; the induction has to speak of the open transactions, since a commit brings in
rows that were chosen long before. So `ReadModelInv` says of each one (`Fits`): its rows are rows both
writers agree on, which are those of the tables (`AgreedRows`), none is committed by another, and no two transactions hold the same; of the projection of
a scoring that its rows are written or found before its run; of the backfill, which takes the runs *first*, that when it commits, the rows of every
run it has inserted are committed or with them (`BackfillFits`): its query for the rows came after that for the runs, and a scoring has
all its rows when it is stored. Then `RunsHaveRows` is inductive: the read model never knows a run without its rows, and both pages
follow from it. That transactions stay apart is the wait of `Insert`: it goes on only when nobody else holds one of its rows,
and leaves out what is committed by then.

`PagesProofs` proves third, for any `MaxSeq`, `QueueSize`, `ReplayLimit` and number of faults, from `RealtimeAssumption`
(naturals, the queue has a place), that `RealtimeTypeOK` and `TabFollows` are invariants of `RealtimeSpec` (`RealtimeTypes`,
`TabFollowsAll`). `TabFollows` speaks of what has reached the tab and what is in its queue; how that gets there
starts at the commit of a projection. So `RealtimeInv` follows an event all the way. `PipeInv`: an event is at most once on
its way from the commit to the hub, in `announcing` or among the callbacks, and not `Published` as long; `PipeOrder`,
as long as nothing was handed back: the callbacks are in the order of the stream and newer than all that is published. `HeldInv`, between replay and
live: what is held was published, each once and in order, and whatever is published and newer than the end the replay has read is held. That
is the sentence the code rests on (first hold, then subscribe, then read), and at `EndReplay` it gives both halves: the missed events up to
that end and the newer ones of those held are all that was published after `resumeFrom` (`ReplayIs`). `LiveInv`: a place in
what arrives is either the hub's publication of the event or the replay's, so that there are at most as many as `Published` and `early`
count together, and an event that the replay brought early has all before it there; without the second half the order would be lost
when the hub publishes the early event once more. TLC checked this invariant on the instance of section 4 first, with a second fault (875018 states).

`PlatformProofs` proves for any accounts, addresses, sessions and wrong log-ins before the start, any policies and
number of requests, from `IdentityAssumption`, that `IdentityTypeOK`, `SessionsEndAsSet` and `LockedForReason` are invariants of
`IdentitySpec` (`IdentityTypes`, `SessionsEndSet`, `LockedReason`). The assumption is what `settings.py:68` and `domain.py:185` give: the
idle time, the touch interval and the number of failures are positive; that the interval is the shorter one is
enforced nowhere and not needed. The property compares the clock with the uses of a session, the code with the latest `seen_at` only, which
requests write in any order and skip when it is recent. So the induction has to say (`SessionInv`) that `seen_at` is itself a use, that
every use is less than `TouchEvery` behind it, and that from one use to the next the session was never idle for too long. A request
between `find_session` and the recording carries its own part (`RequestInv`): what it has read was a use, not later than
what is recorded now, and its own time is within both limits of what it has read. For the ending: a request has in `there` the
sessions that were open when it began, and `Revoke` reads the sessions at its own time, which are at least these. `LockedForReason` is
inductive by itself, since rows are only appended (`ReasonStays`); the step is that the failures counted since the last success are some of
those in the window (`LockIsReason`).

`PlatformProofs` also proves for any revisions an upgrade may end at, roles that come early, late or not at all, and any watched tables, from
`SchemaAssumption` (revisions are numbers of migrations), that `RightsAreAsDocumented`, `StoredStays` and `SchemaTypeOK` are invariants of `SchemaSpec`
(`TheRightsAreAsDocumented`, `TheStoredStays`, `SchemaTypeIsOK`). The difficulty is that a grant reaches only the roles that exist, and a
default right only the tables that come after it. So `SchemaInv` speaks of the revision the database is at: its tables are those of the migrations so far, all
of them protected (`Reviewed`: each migration protects every table it makes, migration by migration); no role has a right that it is not `Entitled` to there; each has all of them, unless it was created
and not granted yet (`bare`); and its default rights are those that fit. `Entitled` never shrinks from one revision to the next;
a migration gives what becomes due with it (`DueIsGiven`) and only that (`GivenIsDue`), hence `MigrateFits`; `RoleIsGiven` is the same for a
role that comes late. An upgrade of any length follows by its least counterexample (`MigratedIs`, `MigratedFits`).

The fourth part of `FetchProofs` proves for any statements, market data, rates and units, from `FiguresAssumption` (figures are fractions or
unknown), that `UnitsDoNotMatter` is an invariant of `FiguresSpec` (`TheUnitsDoNotMatter`). The invariant is the type with one relation: a
company reports in another unit only if this is none of the currencies it is traded in. The rest is an argument through the whole
computation: each number of the statement is *k* times what it was or unknown both times (`Scaled`, `OptIn`), the conversion to the trading
currency takes the *k* away again, and what the code takes from the statement alone are quotients of two of its numbers, in which it
cancels. That holds because a missing rate makes a figure unknown: a rate of one by default would be the bug (`ToTrading_OneIfUnknown`).

The fifth part proves for any number of titles, any factors, figures, thresholds and weights, also weights of zero, from `RulesAssumption` (finitely
many factors, in groups without a common one; `Whole` can be divided by what it has to be; a figure is a number or missing),
`RulesSpec => RankingIsFair` and that `RulesTypeOK` is an invariant (`TheRankingIsFair`, `TheRankingIsOfTheTable`). Inductive is `RulesInv`:
the ranking is `Score` of the table, and the table is one of numbers. The first half of fairness, that order and small titles do not matter, is that `Score` reads
the table only (`ScoreReads`); that the ranking is a function of it needs that `Ahead` is a strict total order, so that places and titles are one to one
(`PlacesOfRanks`, `ScoreIs`). For the second half a percentile is counted: those below it (`Below`) and those not above it (`NotAbove`). Both sets
shrink or grow with the figure, so a percentile moves one way (`PercentilesMove`), a composite follows since a sum is compared member by
member (`SumsCompare`) and its division is exact, and a better composite among unchanged ones costs no place (`PlaceMoves`). A title
without composite is flagged as no value trap provided that `ValueTrap` is above zero and `QualityTrap` below `Whole`, as the settings have it.

`ComponentsProofs` proves of the sum that checks twelve components in one run that it is right to do so. `PartsBehave`: for any values of all constants, the part that moves is
a behaviour of its own specification, with its own faults, and the seven parts without faults always are. Hence `ComponentsTypes`
(`ComponentsSpec => []ComponentsTypeOK`), and `PromisesKept`: all safety properties of the run `components`, invariants and action properties, hold in each state of the sum, whichever
part moves. For the five parts that share the budget of faults this needs the parts at rest too, since another one may use the budget: they stay
where they start, and what is promised of them does not speak of `faults`. The converse, that every behaviour of a component is one of the
sum, needs a hiding of the other variables and stays an argument in words (section 2).

Model-checked only is liveness (`EventuallySent`, `EveryRunCloses`, `UserHears`, `SessionEndsConnection`),
since TLAPS does not treat fairness and `ENABLED` here; every safety property that a passing run checks is proved.
The theorems of induction take an operator as parameter and cannot be used with these provers; a
recursive *function* can still be reasoned about by its least counterexample, as `WritesAre`, `MigratedIs`, `TotalIs` and `SumsAre` do.

## 6. Not modelled

- *Contracts*: Pydantic models of events and RPCs; the modules have the kinds and the fields the handlers decide by.
- *Report texts and channels*: text and HTML; SMTP and health check succeed, fail, or succeed with a lost answer.
- *Pages other than editor, log-in, account and users*; the generated REST client.
- *Regression harness, tests, deployment*, except the second scoring of a stored table (`ScoreAgain` in `Rules`).
- *One-off import of the old database, downgrades, columns and indexes of the schema.*

Inside of modelled parts: progress events, log rows of pings and error mails, several topics per tab,
`unsubscribe` and `ping`, provisioning of streams, rescores (scorings without a run), the projections of
instruments and profiles, the announcements of profiles (no table and no page depends on them), hashing
of passwords, parsing of the providers' answers, rounding and overflow of floats.

## 7. What is left

1. An abstract specification of `Profiles`, a register with compare-and-set, once `save` reads the newest version
   once only: today the code does not implement it (`profiles_lost_update`).
2. `Identity` as the session of `Realtime`, in place of `EndSession`.
3. Rescores, and the report of a run that shows them.

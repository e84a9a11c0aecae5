# Verification of ITServiceHealth

ITServiceHealth ("Pulse") polls the public status pages of some fifty vendors,
keeps one row per service in SQLite, and tells operators in Slack when a
service changes.  It is one Python process (FastAPI and APScheduler on one
asyncio event loop) around **one** SQLite connection and **one** `asyncio.Lock`.
Nothing runs in parallel, but everything interleaves: at every `await` any
other coroutine may run, on the same open transaction.

This directory holds TLA+ modules translated from the source, TLC
configurations that check them on small instances, and TLAPS proofs of the
results that matter most.  Paths below are under `src/backend/app/` unless
they say otherwise.

Contents: [inventory](#inventory) - [modules](#the-modules-and-the-code) -
[runs](#the-runs) - [fairness](#fairness) - [proofs](#what-is-proved) -
[findings](#where-the-code-and-its-promises-disagree) -
[limits](#what-is-only-model-checked-what-is-left-out) -
[not modelled](#not-modelled) - [how to run](#how-to-run-it)

## Inventory

| Component | State | Operations | Where |
|---|---|---|---|
| Flap suppression and poller health (`poller/change_detector.py`) | per service: `current_status`, `pending_status/count/since`, `consecutive_failures`, `poller_health` | `_update_pending`, `_compute_new_health`, `detect_changes` | FlapSuppression, ConfirmedStatus, ChangeDetector |
| Status writers (`change_detector.py`, `router_webhooks.py`, `router_admin.py`, `database.py`) | the rows above, `status_events`, the write lock, the open transaction | `detect_changes`, `apply_manual_update`, `_apply_webhook_change`, commits | StatusPipeline |
| Alert engine and routing (`alerting/engine.py`, `alerting/routing.py`) | `alert_sent_log`, the locals of each running call | `process_changes`, `route_status_change`, `record_alert`, aggregation, batching; poller-health and burn-rate alerts | AlertEngine; PollCycle, ServiceHistory |
| Slack sender (`alerting/slack.py`, `templates.py`) | none | one POST per message, tried again once on a 429, never raises | `Post` in AlertEngine: accepted or not (partly) |
| Pollers and normalizer (`poller/*_poller.py`, `normalizer.py`) | none | one reader per `poll_type` | StatusPages |
| Fetch resilience (`poller/resilience.py`) | a circuit breaker per host | `resilient_fetch` | PollCycle |
| Scheduler (`poller/scheduler.py`) | the jobs | `run_poll_cycle`, `start_scheduler`, `stop_scheduler` | PollCycle, Lifecycle (partly) |
| Incident reports, postmortems (`reports.py`, `postmortems.py`) | `incident_reports`, files | `generate_incident_report`, `write_postmortem` | Uptime, ServiceHistory |
| SLO burn rate, uptime (`alerting/burn_rate.py`, `sla.py`) | alert rows | `compute_uptime`, the error budget, `run_slo_burn_rate_cycle` | Uptime, ServiceHistory; its commit in StatusPipeline |
| Acknowledgement (`router_slack.py`) | `acknowledged_at/by`, the buttons | `slack_interactivity`, `_update_ack` | ServiceHistory (partly) |
| Retention and backup (`retention.py`, `backup.py`) | the tables, the files `pulse-<date>.db` | `purge_old_rows`, `run_backup`, `cleanup_old_backups` | Housekeeping |
| Migrations, seeding (`database.py`, `seed.py`) | `PRAGMA user_version`, schema, `services`, `service_dependencies` | `run_migrations`, `seed_services`, `seed_dependencies` | Lifecycle |
| Heartbeat, health, startup (`observability/heartbeat.py`, `main.py`) | last beat | `heartbeat_tick`, lifespan, `/healthz`, `/api/health` | Lifecycle |
| WAL checkpoint, dependency graph, read API, configuration, auth, logging, metrics, frontend | none that a property is about | queries, presentation | [not modelled](#not-modelled) |

How they interact.  A start migrates, seeds and launches the jobs.  A poll
cycle fetches every group of services concurrently, each request past the
breaker of its host, reads the pages and hands the results to `detect_changes`,
which returns the confirmed `StatusChange`s after committing them; the cycle
passes the list to `process_changes` and then announces what became of the
pollers.  An admin `PUT` and a Statuspage webhook change one row and call
`process_changes` with one change.  `process_changes` writes an incident report
for each recovery.  The SLO cycle reads the same events and alerts on its own,
and the button of what it posts comes back as an interaction.  All of them,
retention and the backup meet in the connection and its lock.

What is hard, and the properties that make it correct:

* **Stale reads.**  `detect_changes`, `apply_manual_update` and the webhook read
  the row and the clock *before* they take the lock.  Do row and log still agree
  (`RowMatchesLog`), do transactions mix (`CommitsOwnWork`), does the damage
  last (`VendorIsBelieved`), does the operator keep the last word
  (`NextPollDefersToOperator`), and what is derived from events whose
  `previous_status` and `created_at` are old (`UptimeIsHonest`, `OutageBurns`,
  `ReportIsTrue`)?
* **Failure inside a transaction.**  `async with` gives the lock back, and
  nothing rolls back: the half-done statements wait for the next commit,
  whoever makes it.  Nobody may alert before its own commit, and the lock must
  not be lost (`NoAlertBeforeCommit`, `EveryoneFinishes`).
* **Reset rules.**  The pending buffer is cleared, restarted, kept or promoted
  in five places.  Do they amount to "n identical reports in a row, and for bad
  news long enough" (`ImplementsConfirmedStatus`)?
* **Announcements as deltas.**  A broken poller must be announced once, and its
  recovery too, although the cycle may end before it says so (`HealthIsTold`,
  `NewsIsNews`, `BlindnessIsTold`).
* **Check, then act, then tell.**  Dedup asks before the lock, records under it,
  sends after it (`RepeatsAreConcurrent`, `WriteAhead`, `FiredMeansSent`,
  `AuditTrail`, `BurnAlertsAreSpaced`).
* **Silencing.**  Aggregation, tiers, batching and dedup each take messages
  away: nothing may be silenced without a reason that is there
  (`SilencedHasHeadline`, `RecoveryIsTold`, `ToldOnce`).
* **Shared fate.** Requests of one host share a breaker, services of one poll
  type share a page or a loop, all share one detection that one bad record ends:
  the failure of one must not hide the others, nor hide itself
  (`OpensOnFailures`, `GroupsAreIsolated`, `VendorIsHeard`, `AbsenceIsNoticed`),
  and of several incidents the worst counts (`WorstIsRead`).
* **Histories read later.**  Uptime, burn rates and reports are computed from
  events that were filtered, joined and appended to since (the same three).
* **Clicks.**  Slack delivers twice and users race, and the row of a click is
  looked up before it is marked (`AcksAreEarned`, `ImplementsAcknowledgement`).
* **Kills between two statements.**  A script and its version stamp
  (`VersionIsBacked`, `CleanHistoryMigrates`), a seed over runtime state
  (`RestartKeepsStatus`), a process that must come up, be left alone while it
  works and be replaced when it does not (`ComesUp`, `AliveIsNotKilled`,
  `StandstillIsSeen`).
* **Jobs that fail quietly.**  Retention and backup log what they raise and try
  again a week or a day later (`OldRowsGo`, `ABackupRemains`, `DedupMemoryKept`,
  `RetentionRuns`).

`PROJECT.json` lists each hazard at its line.

## The modules and the code

```
FlapSuppression            pure decisions (no variables)
  +- ConfirmedStatus       abstract: what flap suppression promises
  +- ChangeDetector        one service, a poll or an override per step
  |    implements ConfirmedStatus
  +- StatusPipeline        all writers, a statement per step
  +- StatusPages           the readers of vendor pages (no variables)
       +- PollCycle        fetches, breakers, groups, health announcements
AlertEngine                process_changes, tasks interleaved
Uptime                     what a history of events says (no variables)
  +- ServiceHistory        reports, burn-rate alerts, acknowledgements
       implements Acknowledgement   abstract: what a click promises
Housekeeping               retention and backup beside the writers
Lifecycle                  migrations, seeding, jobs, heartbeat, restarts
MC*                        instances for TLC      *Proofs   theorems for TLAPS
Folding                    lemmas for the proofs: folds over finite sets
```

**FlapSuppression.**  `_update_pending` as the operator `UpdatePending`,
`_compute_new_health`, the failure counter and the two announcements.
A timestamp is only ever compared with "now", so times are ages; counters stop
at the largest value they are compared with (`CountCap`, `FailureCap`), which
changes no decision.

**ConfirmedStatus.**  The abstract specification: the committed status follows
the current *run* of identical reports when the run is long and old enough; an
override sets the status and forgets the run.  It has no buffer and no reset rule.

**ChangeDetector.**  The columns of one `services` row; `PollSucceeds`,
`PollFails`, `ManualUpdate`, `WebhookUpdate`, time, and the vendor's page.
`run` and `announced` are history variables.

**StatusPipeline.**  Opens the steps of ChangeDetector.  `db` is what the shared
connection sees, `disk` what is committed; a commit makes `disk` equal to `db`,
whoever wrote it.  `pc` says at which statement each coroutine stands:

| `pc` | poll cycle | request |
|---|---|---|
| `idle` | rows not read | not there |
| `wait` | rows read, decisions fixed (`plan`) | row read (`req`), at the lock |
| `batch`, `promote` | pending buffer, then status UPDATE per service | - |
| `event` | INSERT of the event | the row is updated, INSERT to come |
| `commit` | (commits from `batch` when `todo` is empty) | before the commit |
| `route` | in `process_changes` | in `process_changes` |

Taking the lock is one step with the holder's first statement.  Each of these
steps is what runs between two awaits that matter; computing a decision happens
with the read, because it uses nothing else but the clock, whose answer
(`dwelled`) is left open when there is a dwell.  `Fail` raises at any statement
inside the lock, `Crash` restarts from `disk`, `SloCommit` is the commit of
`run_slo_burn_rate_cycle`, which takes no lock.  `dirty` (whose statements are
uncommitted) and `since` (polls that read since the last manual update) are
history variables.

**StatusPages.**  For each `poll_type` the reader as an operator from an
abstract page to a status (`Reading`), and the reference it is compared with:
the set of statuses that the page's open items claim (`Claims`).  A page is what
its reader looks for: components, levels, incidents with their flags; the
keywords searched in a text are the text's value; a value the tables do not know
is `"novel"`; an unexpected JSON shape is `"other"`, and one the loop fails on
is `"broken"`.

**PollCycle.** `run_poll_cycle` from its SELECT to its last announcement, cycle
after cycle.  `setup` fixes the services' poll types, whether there is a
webhook, and whether statements, `process_changes` and posts may fail.  `fetch`
holds a request for each service that asks (`Asker`: services of one statuspage
URL are one request, a feed is one, every other service asks for itself):
retried, refused by the breaker, failed, or read; `breaker` is purgatory's
breaker per host, written as external definitions from how `resilience.py` uses
it.  `Group` is what shares one coroutine in the code, so one `"raises"` takes
its whole group out of the results (`Heard`).  `Detect` and `DetectRaises` are
the health half of `detect_changes` (its status half is StatusPipeline).  The
function goes through the results in their order (`Before`: by poll type, URL
and row) and raises at a malformed maintenance, after the rest of what it does
for that service (`Upset`), or at any statement if `setup.faults`: then the rows
of the services before keep what was written, the services behind get nothing,
and the health changes collected so far are lost with the return value
(`Missing`).  `told` is the last word the operators had on each poller, `streak`
a history variable.  Time is counted in cycles, the unit in which the breaker's
TTL matters.

**AlertEngine.** `process_changes` for several tasks at once.  A `StatusChange`
is an index into `events`; `pc` runs through the three loops of the function
(impact statements and reports; routing and recording; aggregated alerts) and
the sends.  A change's `from` is what its writer had read, which with requests
about may be any status the service had (`Seen`).  `log` is `alert_sent_log`
(fired, or why not), `messages` is what Slack accepted: which changes a message
is about, which dependents an aggregated one cites, and which services its
impact text names (`ImpactOn`: the declared dependents).  A read-decide and a
locked insert-and-commit are separate steps, as in the code.  The loops take
their changes in any order, where the code uses the batch's: the batch itself
comes in any order, so this adds none of interest.  Time is `Midnight` (the
dedup key's day), `Expire` (the oldest row leaves the window) and
`MaintenanceTurns`; `MaxClock` bounds the days and the expired rows.

**Uptime.**  Pure: `compute_uptime` with its filter of warm-up rows and its
clamped intervals (`Kept`, `Inside`), the rounding to two decimals as basis
points, the error budget, `evaluate_burn_rate`, and the walk of
`generate_incident_report` from the newest recovery back (`Incident`, `Peak`).

**ServiceHistory.** One service's events with what is derived from them while
others append.  A writer that confirms a change writes a `from` and an `at` that
it read before it waited for the lock (`Seen`, `Times`), so that rows need not
follow upon one another, and may be dated before they were written; they are
read in the order of `created_at` (`Insert`), which need not be that of writing.
A writer that confirms a recovery takes `resolved_at`, then walks and stores
(`StillOperational`, `Walk`); the burn-rate cycle evaluates, routes, records and
sends, each its own step; `Deliver`, `Select`, `Mark` and `Replace` are an
interaction from Slack to the message without its button, the middle two under
the write lock.  `past`, `dates` and `clicked` are history variables: what
really was, tick by tick; whether all rows so far were dated when they were
written (`exact`), before that (`early`), or before an earlier row
(`disordered`); and what was really clicked.  `bound` is rigid: each behaviour
is explored up to one of the combinations in `Bounds`.

**Acknowledgement.**  The abstract specification of the button: alerts are put on
record, and a click, in one step, acknowledges an open alert of its key, never one
that is older than another open one up to the message.  ServiceHistory maps the
log to its rows (`OnRecord`), and the interactions before their UPDATE to its
clicks (`InFlight`); `Mark` is the step in which a click has its effect.

**Housekeeping.**  The tables `events` and `alerts` with ages in days, the
foreign key between them, the connection's open transaction, the files of the
backup directory, and the two jobs' schedules.  Ages stop counting beyond
everything they are compared with (`EventCap`, `AlertCap`, `FileCap`).
`NextDay` requires the day's jobs to have run; `Restart` begins the retention
interval anew, as an APScheduler interval job without a job store does.

**Lifecycle.**  The process from start to stop, many times.  `pc` walks through
`lifespan`: `RunStatement` and `Stamp` for each pending script (every statement
durable at once, the version after the last), `SeedServices`,
`SeedDependencies` (which refuses edges to services it has not read), then `up`
with the jobs `poll`, `beat` and `retain`, where `due` counts down to each.
`Crash` may come between any two steps, `SchedulerDies` and a hung cycle leave
the server answering; `Healthz` and `ApiHealth` are the two endpoints and
`Supervise` restarts on a 503.  `Edit` rewrites the YAML files at any moment.
`torn` is a history variable.

Each module keeps next to a definition the *mutation* that `PROJECT.json` swaps
in for it: a plausible slip in that code which the property must notice.

## The runs

| Run | Instance and bounds | Distinct states | What it shows |
|---|---|---|---|
| `change_detector` | thresholds of `config.py` (3 to confirm, 2 to recover, 3 failures), dwell 2 ticks, all statuses | 3,576 | refinement of ConfirmedStatus, health and announcements agree, a settled vendor is believed |
| `pipeline` | 2 services, poller, 1 admin, 1 webhook, 2 statuses, crashes | 2,043,091 | `RowMatchesLog`, `CommitsOwnWork` |
| `pipeline_faults` | 1 service, 1 admin, raising statements, lock-less commits, crashes | 17,386 | `NoAlertBeforeCommit`, `EveryoneFinishes`, `VendorIsBelieved` |
| `poll_cycle` | 3 services on 2 URLs of one host, 6 configurations with every poll type, breaker at 2 failures, 2 attempts, malformed maintenances, raising detection | 32,382 | the worst is read, groups and breakers, blindness is told, vendors heard and missed |
| `alerts` | 3 services, 3 dependencies, 3 tiers, batches of up to 3, correlation threshold 1, 4 events, a maintenance window, Slack up | 488,780 | what is recorded, silenced, named and sent |
| `alerts_faults` | 1 service, the poll cycle and a request, failing posts and statements, crashes, a midnight or an expiry, 3 events | 1,283,264 | `AuditTrail`, `WriteAhead`, `RepeatsAreConcurrent` |
| `history` | 2 writers, 2 handlers, 2 users, windows of 1, 2, 3 and 5 ticks; four combinations of bounds | 485,330 | uptime, burn rates, reports and acknowledgements against what was |
| `housekeeping` | 2 events, windows 4 and 1 days, a pass every 2 days, failures, restarts | 679,500 | `OldRowsGo`, `ABackupRemains`, `DedupMemoryKept` |
| `lifecycle` | 2 migrations with 3 statements, 2 services, 4 states of the files, intervals 2, 1 and 3 | 128,984 | versions, restarts, health endpoints, coming up, retention |
| `next_poll`, `aggregation`, `retention` | one disagreement each | - | see below |

Why the bounds are enough.

* *Pipeline*: the hazards are pairwise (one stale reader against one writer) or
  need a third commit in between; three coroutines and two services give every
  such overlap, and services interact only through the batch.  Two statuses
  distinguish "changed", "changed back" and "same"; thresholds of 2 and 1 keep
  promotions from every buffer state.
* *Poll cycle*: sharing is what matters: two services of one URL, two URLs of
  one host, several services of one poll type, alone and mixed.  The pages hold
  the orders a loop can get wrong (worst first, last, in the middle, closed,
  novel).  Time to live 1 gives refused, probing and closed breakers.
* *Alerts*: outage, recovery and second outage of one service are three events;
  an upstream with two dependents in one batch is three and leaves one for what
  follows.  `BatchThreshold = 1` makes both the batch message and single
  messages occur.  A chain of dependencies (identity provider, mail, wiki) makes
  one service dependent and upstream in the same batch, which is how an
  aggregated alert gets out at all (see `aggregation`, where the threshold is
  2).  `alerts` keeps one day and no expiry; `alerts_faults` has one of either
  and three events, so that two tasks can repeat an alert whose first row is
  about to leave the window, or across midnight.  Both runs compare states by
  `Watched`, all variables but `impact` and `reports`: no step and none of their
  properties reads these two (the reports' own properties are ServiceHistory's).
* *History*: reports need long histories and no alerts, rows of stale dates a
  writer that waits, burn-rate cycles two rows, and racing clicks two rows of a
  key and a click more: `Explored` takes them in turn, instead of their product.
  A read one change behind and a clock one tick behind give a row that does not
  follow upon the one before it, one that passes for a warm-up, one dated early
  and one put before another.  The windows keep the order and
  overlap of 5m, 1h, 30m, 6h and 30d; an outage can fill each of them.
* *Housekeeping*: two rows show a refused and an accepted delete in one pass;
  the windows are the smallest that are `Staggered` (below), with passes before
  and after each boundary.
* *Lifecycle*: a script of one statement and one of two that adds a column
  first: killed before, inside and after both.  The four file states are a good
  list, one that lost a service, one with an edge to it, and an empty one.

Every bound is a constant in the `.cfg`; the counters' caps are named in the
modules.  The theorems remove the bounds for most of the safety part.

Deadlock is checked in every run.  In `AlertEngine`, whose events are bounded,
`Quiet` is the poll cycle that confirms nothing; it is enabled only when every
task is at rest, so a task that hangs in the middle is still reported.
`ServiceHistory` stops at its last tick (`TheEnd`) and nowhere else.

## Fairness

* `ChangeDetector`: polls that answer recur and time passes.  Failed polls and
  overrides may come in between in any number.
* `StatusPipeline`: the interval job fires for as long as the process lives and
  `max_instances=1` makes it one cycle at a time, so a complete read recurs
  (SF).  `asyncio.Lock` wakes waiters first in, first out, so who
  waits gets it (SF on the steps that take it); inside, a coroutine just runs on
  (WF).  `Fail`, `Crash` and new requests have no fairness.
* `PollCycle`: WF on its next step as a whole: the job fires again, and every
  request ends by answer or timeout.  Nothing is assumed of *which* outcome;
  that a host stops failing is a premise of the property that needs it.
* `Lifecycle`: WF on the start and on the running process, SF on `Supervise`: a
  supervisor asks `/healthz` again and again.  Kills, stops, edits and the
  scheduler's death have none.
* `AlertEngine`, `Housekeeping` and `ServiceHistory` have no liveness property:
  a task of the first is a loop over a finite list, and `OldRowsGo` bounds ages.

The liveness properties say what they presuppose: in ChangeDetector the vendor
settles and overrides cease; in StatusPipeline, from some time on nothing
arrives, raises or is killed (`<>[][Undisturbed]_vars`); in PollCycle the host
and the pages of the group stop failing, and detection no longer stops before it
comes to the service (`CutOff`: with one malformed record in every cycle, the
services behind it in the batch are never updated); in Lifecycle nobody kills,
edits or stops a healthy process any more.

## What is proved

For every value of the constants, by TLAPS, from the named assumptions next to
the CONSTANTS of each module: the bounds of `config.py`, "processes are
distinct", "sets of services, handlers are finite", and in Lifecycle that the
heartbeat is faster than its staleness limit (true of the defaults; no setting
is checked against another one).

**ChangeDetectorProofs** - for all thresholds and every dwell: `TypeCorrect`;
`BufferMirrorsRun` (`BufferIsRun` is inductive with the types);
`HealthIsAnnounced` (the two halves of `HealthIsTold` are
inductive only together); `NewsAlternates`; and `Refinement`: `Spec` implements
`ConfirmedStatus`, where each poll maps to a `Report`, failed polls stutter, and
the argument is that under `BufferIsRun` the code's count and dwell are the
run's.

**StatusPipelineProofs** - for any services, any number of admins and webhooks:

* `LockIsHeldInside` and `AlertsFollowCommits` hold with raising statements,
  the lock-less commit and crashes.
* `RowsMatchTheLog` is assumed of a system where statements do not raise and the
  SLO cycle is off (its flag's default).  `RowMatchesLog` is not inductive: in
  the middle of a change row and log differ.  `LogInv` adds where: only at the
  service of the coroutine standing before its INSERT, which is about
  to insert exactly what the row says (`Promised`), while the lock keeps others
  out and `disk` agrees throughout.
* `CommitsCarryOwnWork`, without raising statements.
* `TypeCorrect` needs `LocalsSet`: who is past its read has a job or a plan.

**PollCycleProofs** - for any services, hosts, pages, thresholds and attempts:

* `BlindnessIsKnown`: what is announced is a difference, so the invariant must
  say why nothing is missed between two cycles: `Known` (the last word is right
  for every service without news), `NewsIsToCome` (news is only there while a
  cycle is under way) and `BrokenHasFailed` (a broken poller has failed often
  enough, so that one more failure cannot make it merely degraded, which would
  be announced as nothing).  Where detection raises, `Known` survives because
  exactly the services whose health changed before it have their word missed.
* `BreakersOpenOnFailures`: `Counted`, a closed breaker has not counted more
  failures than there were in a row, however many requests share it.
* `OthersDoNotHide`: `Group` is inside `Kin`, whatever the configuration, and
  `Before` is a total order of the results, so a service that no malformed
  maintenance precedes is among those detection came to.
* `TypeCorrect`.
* `WorstIsAlwaysRead`: whatever page a poller could fetch and read, the status
  it reports is the worst one the page claims.  `Published` says that a page
  that was fetched is one of the type that asked for it; the rest is about the
  readers: the loop that keeps the worst (`Worse`) and the one that stops at the
  first major incident (`LoopStep`), for lists of any length.

**AlertEngineProofs** - for any services, dependencies, tiers, tasks and batches;
the base invariant `IInv` gives types to the locals of each task:

* `LogIsWrittenAhead` (`Ledger`: who is in a task's `sends` or `heads` has a
  fired row) and `InformationalIsNeverPaged`, with failures and kills;
* `EveryChangeIsAudited`: `Apart` (an event is in the batch of one task only),
  `Audit` (the rows of a batch are those of `batch` minus `todo`) and `Chosen`;
* `SilencedHaveHeadlines`, where statements do not raise, Slack takes every post
  and the main webhook is set (crashes and any number of requests included):
  `Headline`, from the grouping to the row, `Sent`, from a fired row to the
  message, and `Naming`, from the impact text to the message;
* `FiredIsSent` and `RecoveriesAreTold`, if Slack takes every post (the first
  with the main webhook configured: without it rows are fired and nothing is
  posted);
* `NobodyIsToldTwice`, while no day passes and no row expires
  (`MaxClock = 0`): the aggregated alert of an upstream is then a repeat if its
  own alert was sent, which is what keeps the two lists apart (`TwoLists`).
  Across a midnight it is not, see below;
* `WindowBlocksRepeats`, for any number of tasks, with failures, kills,
  midnights and expiries: `Few`, the fired rows of a key in the window and the
  tasks that hold a decision to fire for it (`Holders`) are together no more
  than the tasks.  A task decides to fire only while the window has none.

**ServiceHistoryProofs** - for any windows, bounds, writers, handlers and users:

* `UptimeIsAlwaysHonest`: `EventsInv` is inductive.  Its parts are `Sorted` and
  `Ends` (while no row is put before another, rows are in the order of their
  dates and the last one says the current status) and `Remembered` (while rows
  are dated when they are written, the status in a past tick is that of the last
  row before it).  No row need begin where the one before it ended.  From there
  no state is needed: the intervals that `compute_uptime` keeps are apart from
  each other (`PiecesApart`), no tick of an outage is in none (`OutageIsPiece`:
  the filter takes away `unknown` and operational time only), and the loop adds
  up their sizes (`TotalIsTicks`).  An interval that is not unknown has the
  status that was (`PieceWas`), unless a filtered row stood over another status
  (`StrayWarmUp`): then the status before it goes on, and as that makes downtime
  longer and uptime no longer, only the exactness of downtime is lost.  What
  follows for the budget is arithmetic on rounded quotients (`PercentGrows`,
  `BudgetGrows`).
* `OutagesAlwaysBurn`, by the same invariant.  Hypothesis: `OutagesCanBurn`, the
  threshold times the allowed failure rate is at most 100 %.  The defaults
  satisfy it (14.4 times 0.1 %), and `MCServiceHistory` assumes it of its instance;
  `config.py:37-40` also accepts a target of 90 % with the threshold 14.4, under
  which no outage can ever page.
* `ReportsAreTrue`: `ReportInv`.  Rows in order are only appended, so what a
  report tells of the rows from `i` to `j` stays true; the walk ends at the newest
  recovery and begins at the last row that left operational, and the fold over
  its rows finds their worst (`PeakIsWorst`).  Where each row begins where the one
  before it ended, nothing in between is operational.  `Waits`: a writer about to
  walk took `resolved_at` while the service was up, which places it between the
  recovery it reports and the next, if rows are dated in time.
* `HistoryHasTypes`: the type invariant needs most of the others: a report's
  peak is a status because the report is true, and the log stays in its bound
  because the rows still owed by the cycle are counted with it (`Owed`).
* `BurnRatesAreSpaced`: `Cold`, between a decision to fire and its record the
  alerts on record only get older.
* `AcknowledgementsAreFinal`: `Alone` and `Nobodys`, the handler about to mark
  is the only one and its row is nobody's.  (No run checks `AckIsFinal` by itself:
  `ImplementsAcknowledgement` implies it.)
* `AcknowledgementIsAtomic`: `Spec` implements Acknowledgement.  A row that is
  recorded is put, a delivery is a click, a SELECT that finds nothing is a miss,
  the UPDATE is the acknowledgement, and all else stutters.  `PromiseInv` adds to
  `Alone` and `Nobodys` that only fired rows have a button (`Posted`), and
  `Latest`: an open row newer than the one about to be marked was appended after
  the SELECT, so it is newer than the message that was clicked.
* `AcknowledgementsAreEarned`: `Earned` counts clicks: each acknowledged alert
  used one up, each handler on its way has one in hand.

**HousekeepingProofs** - for all windows, periods and rows:

* `RetentionKeepsUp`: if `Staggered` (alert rows go one period before their
  events are due: `AlertDays + Period < EventDays`, or events are kept for
  ever), then `OldRowsGo`, whatever fails and interleaves.  The strengthening:
  `OnSchedule` (no row is older than its window plus the days since the last
  pass) and `Linked` (an alert is at most a day younger than its event).
  Together they say that what the first DELETE takes is older than any
  alert left, so it is not refused (`PurgeIsNotRefused`), so the schedule is kept.
* `BackupsAreKept`, with failures and restarts.
* `DedupOutlivesRetention`: a retention window no shorter than the dedup window
  (or none) keeps `DedupMemoryKept`.
* `TypeCorrect`, including that ids stay unique as rows age.

**LifecycleProofs** - for any scripts, files and intervals:

* `VersionTellsTheTruth`: `Progress`, the statements done so far exist.
* `CleanHistoriesMigrate`: `NothingAhead`, unless a kill tore a script, nothing
  of a version that is not stamped exists but what this start has done.
* `AliveIsLeftAlone`: `BeatOnTime`, the age of the heartbeat and the time to the
  next one add up to no more than the interval.
* `GraphIsListed`, `RestartsKeepStatuses`, `TypeCorrect`.

**Folding** - induction over data.  The readers, the uptime sum and the peak of
an incident are loops, and in the modules folds over a finite set of positions.
The provers take no induction principle that has an operator as a parameter, so
Folding states its own with sets and tables: `Growing` (a family of sets that
has the empty one, and every subset of `S` that it has without some member, has
`S`), `FoldTable` (the recursive function that a fold chooses exists),
`SumOfSizes` (a sum of the sizes of sets that are apart is the size of their
union) and `Extremes`, all from the well-foundedness of strict inclusion.

Type invariants are proved in each `TypeCorrect` (ServiceHistory's in
`HistoryHasTypes`); only the last one is also checked by a run, `history`.

## Where the code and its promises disagree

Three disagreements are runs whose counterexample is the point:

* `next_poll` - a poll cycle decides on rows read before a manual update and
  then writes back the pending buffer that the update had just cleared; the next
  poll promotes over the operator, which a comment at
  `poller/change_detector.py:475` says the clear prevents.
* `aggregation` - the upstream's own alert is recorded first and then makes the
  aggregated alert a repeat of it (`engine.py:153-190`, `routing.py:170-182`):
  where `engine.py:59` promises one consolidated alert, operators get the
  upstream's own.  Its impact text does name the services that are declared to
  depend on it (`engine.py:84-89`, `templates.py:79-86`; `SilencedHasHeadline`
  relies on that), but not which of them went down.  The comment at
  `engine.py:193-197` calls it right to silence dependents under an upstream
  that is not worth alerting on; this one was alerted.  Only an upstream that is
  itself silenced under another one gets its aggregated alert out.
* `retention` - events are deleted before the alert rows that reference them.
  With equal windows (the default) the foreign key refuses the DELETE
  on every pass once an alerted event is old.  The test of both tables
  (`src/backend/tests/test_retention.py:176`) inserts an alert without an event id.

Others were met while reading and are visible in the modules, without a run.

Writing and alerting:

* `alerting/burn_rate.py:209` commits without the write lock, although
  `database.py:40` says the lock serializes writes: with `SloEnabled` a crash
  right after it may leave a status on disk without its event
  (`RowsMatchTheLog` has to assume it away).
* `apply_manual_update` compares with the status it read before the lock
  (`change_detector.py:474`), so of two admins who set the same status both
  report a change (`:457` promises None).
* Two tasks in `process_changes` may both find no recent alert and both send
  (`engine.py:153`; `src/PRODUCTION-ROADMAP.md:145` says "Dedup window blocks
  repeats"): one alert of each task that overlaps, and no more, is what
  `RepeatsAreConcurrent` says.
* If midnight or the window's end falls between an upstream's own alert and its
  aggregated one, the second is no repeat and the upstream is told twice.
* Rows are recorded as fired before the message is posted (`engine.py:159`) and
  stay so when the post fails or the process is killed: the outage is then
  suppressed for the window.  `FiredMeansSent` holds only while Slack answers.
* A statement that raises while routing ends `process_changes` with the rest of
  its changes, which get neither row nor message (`AuditTrail` is about tasks
  that ended).
* Individual and batch alerts go to the main webhook whatever
  `slack_channel_override` says (`engine.py:232`, against `routing.py:194`).
* A batch message has no `@here` for the critical changes in it
  (`engine.py:237`, against `routing.py:13`).
* `routing.py:10` says a repeat updates `last_updated_at` of the existing row;
  the code inserts another row.

Polling:

* Of the services with `current_status_api` only the first is polled
  (`scheduler.py:240`).
* A service-array page that is no list is read as operational
  (`service_array_poller.py:52`), so a vendor that changes its format is up.
* `process_changes` that raises also loses the poller-health announcements of
  that cycle, and no later cycle repeats them (`told = "missed"`).
* A maintenance record that `upsert_maintenances` cannot store
  (`change_detector.py:433-434`) ends detection: the health changes before it are
  never announced, and while the vendor publishes it, every service behind it in
  the batch, of whatever group, keeps its failures, health and status
  (`DetectRaises`).  `GroupsAreIsolated`, `BlindnessIsTold`, `VendorIsHeard` and
  `AbsenceIsNoticed` say what is left.

Histories and acknowledgements:

* Targets and thresholds are validated one by one (`config.py:37-40`): together
  they may ask for more failures than a window has (`OutagesCanBurn`).
* `reports.py` speaks of a five-minute cooldown in its docstring; there is none.
* `resolved_at` is taken before the walk, and the walk finds the newest
  recovery: two tasks may both report that one (`ReportIsTrue` allows it).
* `previous_status` and `created_at` are older than the lock
  (`change_detector.py:214-228`, `:379`, `:460-471`;
  `router_webhooks.py:244-254`), so rows of `status_events` need not follow upon
  one another.  A stale "unknown to operational" over an outage is filtered as
  the warm-up (`sla.py:84`), and the outage goes on in uptime and burn rates
  while the service is up: `UptimeIsHonest` and `OutageBurns` keep what stays
  true (no outage is missed, no uptime invented) and except the rest as
  `StrayWarmUp`.  A stale row after a recovery whose `previous_status` is not
  operational sends the walk past that recovery (`reports.py:70-83`), and two
  outages become one report: `ReportIsTrue` promises one outage only of rows
  that are `Linked`.
* A writer that waits for the lock dates its row earlier than it is written, and
  if another writer came between, before that one's row: readers order by
  `created_at`, so the newest row is not the current status, and downtime is
  moved.  The three properties say which of their parts need dates in time, and
  which only dates in order.
* A click delivered again acknowledges the next older unacknowledged row of its
  key (`router_slack.py:110`): one click each, but not of the row clicked.

Starting and running:

* A kill inside a script that adds columns makes every later start fail
  (`database.py:137`): `ComesUp` excepts it as `torn`.
* A database in which no service was ever polled is "healthy" for as long as
  that lasts (`main.py:209`); a cycle that hangs leaves `/healthz` at 200, and
  only `/api/health` tells.
* A service that leaves the YAML keeps its row and keeps being polled; an edge
  from a service to itself is accepted.
* An interval job starts its count at process start: a process restarted more
  often than every `RETENTION_INTERVAL_HOURS` never runs retention.
  `RetentionRuns` is about a process left alone, `OldRowsGo` about one that is
  not restarted (`steady`).

## What is only model-checked, what is left out

Every safety property of a passing run is also proved, under the hypotheses
named above.  Only model-checked is liveness (`VendorIsBelieved`,
`EveryoneFinishes`, `VendorIsHeard`, `AbsenceIsNoticed`, `ComesUp`,
`StandstillIsSeen`, `RetentionRuns`), which TLAPS does not do under fairness.

Left out of the modelled components: detail texts, timestamps beyond their
comparisons, message layout, logging and metrics; the table of scheduled
maintenances (it is written inside the same transaction and appears as a
statement that may raise, in StatusPipeline and in PollCycle); `slack_ts`;
signature checks of Slack and webhooks.  Vendor incident ids are part of
AlertEngine's keys but are empty in its runs.  A window of retention shorter
than the dedup window, which the settings allow, loses rows that dedup needs;
`DedupMemoryKept` is about windows at least as long.  How late a row may be
dated is bounded in the run of ServiceHistory (`behind`, `wait`) and not in its
proofs.  Reads of several rows in one SELECT are atomic, as SQLite makes them.
The connection's implicit `BEGIN` is not a step.  Runs that APScheduler drops as
misfires are left out of Housekeeping.  A start is assumed to take less than a
tick of the running process.

## Not modelled

* *WAL checkpoint*: moves committed pages between files; no state the program
  can observe.  Its interval is that of `Retain` in Lifecycle.
* *Dependency graph* (`dependencies/graph.py`) and *read API*: queries that
  change nothing; the edges are modelled where they are seeded and used, and
  what `get_downstream` finds is `ImpactOn`.
* *Slash command*: reads and answers.
* *Message builders*: which changes and which dependents a message carries is
  modelled, its wording and blocks are not.
* *Configuration, auth, logging, metrics*: settings are constants here; the rest
  changes no state a property is about.
* *Frontend*: presentation; its polling hook may show a slow response over a
  later one until the next, which is listed as a hazard.
* Scripts, diagrams and demo data of the repository are not part of the program.

## How to run it

```
tlc -workers 2 -config pipeline.cfg MCStatusPipeline      # likewise for each run
tlapm StatusPipelineProofs.tla                            # likewise for each *Proofs
```

`PROJECT.json` names the module of every run, the mutation for every property
and the source lines of every definition.

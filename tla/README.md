# Quorum: a verification project

Quorum watches n8n workflows from the outside. A workflow reports each run with a
signed heartbeat (or Quorum polls n8n for it), Quorum keeps what it knows about the
workflow, notices when reports stop or say something bad, opens incidents, and
delivers alerts through a durable outbox. It is one Node process over one SQLite
database, and it is built so that a second process on the same database, a crash or
a slow endpoint do no harm. That promise is what this project is about.

## Inventory

| Component | State it keeps | Operations | What is hard about it | What makes it correct |
|---|---|---|---|---|
| Notification outbox (`alerting/process-outbox.ts`, outbox half of `sqlite-alerting-repositories.ts`) | `notification_outbox` with a lease, attempt count and due time; the delivery attempts; channel health | `processBatch`, `processOne`, channel tests, claim, retry, settle | deliveries are awaited, so invocations overlap and outlive their lease; crashes between acceptance and record | leases exclude, retries are bounded, nothing settled comes back, nothing is called notified that nobody received, every row settles |
| Silence watchdog (`watcher/run-watcher.ts`) | `watcher_contract_claims`, `workflow_states.current_health` | `runTick`, `evaluateOne`, `tryClaim`, `releaseClaim` | check-then-write across processes, crash between opening and announcing, stale evaluation | one evaluator per contract, one announcement per incident, every silence announced, no alarm without silence |
| Incident store and API (`sqlite-alerting-repositories.ts`, `routes/incidents.ts`, `incidents/lifecycle.ts`) | `incidents` | open or observe, acknowledge, resolve, mark notified | status is read, then written unconditionally | resolved is final, one unresolved incident per problem |
| Heartbeat ingestion (`ingestion/*.ts`) | `heartbeat_events`, `workflow_states`, rate-limit counters | `ingestHeartbeat`, `ingestPolledEvidence` | retries and duplicates, old reports after new ones, several dimensions in one transaction | idempotent, state follows the last report, incidents match the state |
| Polling of n8n (`n8n/run-poll-scheduler.ts`, `n8n/poll-workflow.ts`) | `n8n_poll_claims`, `n8n_poll_checkpoints`, connector health | tick, claim, poll, ingest, checkpoint | awaits within a claim, partial pages, backoff, checkpoint after a crash | no execution is skipped, failures back off, one poller per workflow |
| n8n client (`n8n/n8n-api-client.ts`, `security/secure-outbound-http.ts`) | none | one GET with its redirects; test, executions, workflows | every hop is checked again, each failure stands for a health | what a test and a poll conclude of n8n, which ids a listing yields |
| Cadence (`domain/cadence/*.ts`, `domain/n8n/infer-cadence.ts`, `domain/health/evaluate-contract-health.ts`) | `workflow_contracts`, the schedule columns of `workflow_states` | infer, propose, validate, next deadline, health at an instant | slots before and after a report, quiet windows, rules that differ from place to place | overdue exactly after some missed deadline; what is activated can be evaluated |
| Volume evaluator (`volume/run-volume-evaluator.ts`, `domain/volume/*.ts`) | `volume_band_evaluations`, `volume_evaluation_claims` | tick, window computation, band evaluation | late data, grace, finalisation, reopening | each window gets one final verdict |
| Outcome reconciliation (`connectors/run-reconciliation.ts`, `domain/outcome/*.ts`) | `reconciliation_runs`, `reconciliation_items`, connector status, audit events and export tokens | run a window, match, probe, revoke, waive, export, purge | two runs of a window, awaits between reading and writing, crash between items, row and incidents, rows that others refer to | a run has the items it counted, what is missing is reported once and until it is delivered |
| Rate limiting (`domain/ingestion/rate-limit.ts`) | buckets per credential, emergency counters | check, record | window boundaries, resets | never more than the limit within a window |
| Process lifecycle (`main.ts`, `runtime/graceful-shutdown.ts`) | in-flight work, close hooks | track, shutdown | a second signal, work that fails | hooks run once and after the work |
| Authentication (`sqlite-auth-repositories.ts`, the guards of `routes/ui.ts`) | `setup_tokens`, `admin_users`, `admin_sessions`, `login_rate_limits` | set up, log in, log out, guard a page or form | first-run race, sessions that rotate, counts read before they are written | the setup page closes, changes are made under the last login only, guesses are bounded and lockouts end |
| Onboarding and protection (`routes/ui-onboarding-routes.ts`, `ui-product-routes.ts`, `ui-protect-compat-routes.ts`, `sqlite-core-repositories.ts`) | `onboarding_state`, clients, workflows, contracts, credentials, channels, routes, connectors | the wizard's steps, every page and form, removal | two tabs around awaits, a killed loop, stale forms | what the wizard activated is whole, what is removed is quiet |
| Catalog, reports, HTML (`catalog/*.ts`, `domain/catalog`, `domain/health`, `domain/evidence`, `presentation/**`) | none | rows, badges, order, summary, client status | many causes in one badge | nothing in trouble looks healthy, what is watched is on the board |
| Start-up and schema (`main.ts`, `db/sqlite-migrator.ts`, `db/migrations.ts`) | `__quorum_migrations`, `__quorum_migration_failure`, the tenant | migrate, check, create the tenant and a setup token | two processes that start together, a kill anywhere | no schema is half migrated, a restarted process comes up |
| Configuration, secrets | environment, key files | parse, encrypt | none for a model checker | correct parsing and cryptography |

How they interact: the HTTP routes call ingestion, the incident store and the
repositories directly; three timers in `main.ts` start watcher ticks, outbox batches
and poll ticks; all of them meet in the database. Code is synchronous between two
`await`s, so within a process only the outbox, the poller, reconciliation and the
request handlers interleave, at their awaits. Between processes every statement
interleaves, except inside the transactions of ingestion, of each migration and of the
first administrator, and a process may die between any two. A statement is therefore a step of
its own wherever a second process or a crash could come between it and the next one and be
seen. What is merged nevertheless is this: in `Reconciliation`, which has one process, the
UPDATE of the connector with the incident that follows it in a probe, the two UPDATEs that
resolve the incidents about missing records, and the deletions of a purge; in `Fleet`, the
statements of a page or form that awaits nothing; in `Polling`, reading the rows at the
beginning of a tick, and storing one execution, which is a transaction.

## Plan

Written, in the order of importance:

1. `Outbox`, `MCOutbox`, `OutboxProofs`.
2. `Incidents` (the rows and their statements, which every later module that opens
   incidents extends), `Watcher`, `MCWatcher`, `WatcherProofs`.
3. `Ingestion`, `MCIngestion`: pushed and polled reports; `IngestionProofs`.
4. `Polling`, `MCPolling` on top of `Outbound`, the requests of the n8n client;
   `PollingProofs`.
5. `Volume`, `MCVolume`, `VolumeProofs`.
6. `Shutdown`.
7. `Reconciliation`, `MCReconciliation`, with the catalog row of an outcome contract;
   `ReconciliationProofs`.
8. `Cadence`, `Discovery`, `Schedule`, `MCSchedule`, `ScheduleProofs`.
9. `Startup`, `Access`, and `MCServer`, which has them and `Shutdown` in one run.
10. `Fleet`, `Listing`, `Wizard`, `Board`, `Catalog`, composed in `MCFleet`, and the abstract
    specification `Roster` they implement.
11. `ServerProofs`, about what surrounds the jobs: `Startup` and `Access` (who gets in), `Fleet`,
    `Board` and `Catalog` (what the pages do), `Shutdown` (how it ends). The names of these
    modules are kept apart for that (`FleetSpec`, `ShutdownSpec`).

Left:

12. The emergency caps of the SaaS edition, the retainer report, export tokens being
    consumed, and the policy for public addresses of outbound requests.

## What is modelled

### Outbox

A *worker* is one invocation of `processBatch`: a timer tick, a "test channel"
request, or one of another process. `pc` says where it is in the code; `candidates` is the result
of the SELECT of `claimOutboxBatch`, `batch` the rows it claimed, and `snapshot`,
`todo`, `target`, `answer` and `results` are the local variables of `processOne`.
Each action is what the code does between two points where others may act: a
statement when another process may interleave, an `await` when the same process may.
`availIn` and `lease` hold the time *left* until the stored instants, so time needs no
bound.

### Incidents and Watcher

`Incidents` has the rows and the statements; `told` counts the outbox rows of each
event, up to two. `Watcher` runs the tick statement by statement. Its environment is
the rest of the program as far as it touches a silence: a report (one transaction,
which ends the silence and resolves its incident), the two incident routes (read,
write and enqueue as separate steps), the removal of a workflow, the health of an n8n
connector, deliveries of the outbox, crashes and time. `quiet` is the age of
`last_execution_at`; a report may announce an old execution, and nothing in the code
prevents `last_execution_at` from going back. The cadence is the fixed interval that
restarts with every report; the other cadences belong to `Schedule`.

### Ingestion

A request of a process is in `pc`: it passes the gates of `ingestHeartbeat` one after
the other (credential, limiter, earlier event with the same key), each of which reads
the database, and ends in `Write`, the one transaction of `applyHeartbeatState` (`WriteRefused` when
the unique key of the event throws). Two
processes interleave between the gates; one process does not interleave with itself,
since nothing there is awaited. The method of the contract says which path its reports
take, pushed or polled:
polled executions have no credential or limiter and treat a lost race for a key as a
copy. `state` is the row of `workflow_states`; `events` the stored reports; `agreement`
the contract, one of the set `Agreements` for a whole history.

The incident API and the tick of the watchdog write about the same incidents without a
transaction, so each of their statements is a step in `pc`: an acknowledgement reads the row,
updates it and enqueues (`AdminAcknowledge`, `WriteAck`, `TellHandler`), so does a resolution
(`AdminResolve`, `WriteResolve`, `TellHandler`), and a tick looks up twice, inserts and enqueues
(`LookBefore`, `FindExisting`, `InsertIncident`, `Announce`). `inc` is the incident they are about and
`read` what they found. The UPDATEs are as unconditional as in the code. Ticks keep each other out here;
that their claims do so, and for how long, is the subject of `Watcher`. `raced` is history: the
incidents that somebody wrote from a reading that no longer held.

### Outbound and Polling

`Outbound` is a request: which addresses `secureOutboundGet` accepts, hop by hop, what it
makes of redirects, bodies and silence, and the health that `validateN8nConnectorConnectivity`
(a test of the connector) and `listN8nExecutions` (a poll) conclude. A *site* is a way in
which the network may present n8n; `Appearances` are the pairs of health that sites lead
to, and `condition` in `Polling` is one of them at any time.

In `Polling`, `Step(p)` is what a process does between two points where others may act:
reading the rows, claiming, asking n8n, storing one execution, writing the checkpoint or
the failure, releasing. So is each statement behind an answer, be it of a poll or of a test of the
connector: the health is written, then the incidents of the connector are looked up, resolved
and announced, or one is opened or observed and announced. `task` says which of them is next,
for which connector and workflows and about which row. Between any two another process may
answer, the process may die, or a statement may throw. `doubt` is history: the connectors whose last
answer was not seen through without one of these. n8n (`condition`, `finished`) answers late, refuses or is down, and
lists at most `PageSize` executions, newest first. `left` and `owner` are
`n8n_poll_claims`; `age` is how long the tick of a process has been running, because
claims are stamped with the clock its tick began with. `queue` is the part of a page that the loop
has left; it takes the oldest, and executions of one millisecond in any order, since the code sorts by
time alone and keeps the order of n8n among those. The storing of one
execution is the polled path of `Ingestion`, here reduced to stored, refused or known.

### Volume

One rule and the ticks of several watchers, statement by statement. Calendars are
constants: `Midnights` are the instants at which local days begin, so that days of 23
or 25 hours are calendars like any other, while `DayLength` is the 24 hours the code
adds. `VolumeAssumption` asks of a calendar only that it begins a week and a month before the
clock and goes on behind it. `evaluations` are the verdicts by window, `claims` the leases on them;
`windowType` is fixed for a history and chosen from the types of a run. The row of a window keeps the
end it was inserted with; the history field `about` is the end of the window that was counted last.

### Shutdown

`left[w]` counts the awaits a batch or poll tick still has before it; `stage` follows
`shutdown` and then `main` from the signal to the exit code. A watcher tick awaits
nothing and is never in flight. Work may take arbitrarily long: nothing says that it
ends, the grace does.

### Reconciliation

`call[k]` is one invocation of `runWindow`. It can be overtaken at its two awaits, so
up to there each action is what runs between two awaits; behind the second await each
action is one statement (`insert`, `update`, `incidents`, `purge`, and the announcement of an
incident that was inserted), not because
another handler could come in between (`LoopFree`) but because the process may die
there. `telling` is the incident whose outbox row comes next; `cut` is history, the
incidents whose announcement a death has prevented. `delivered` is the destination as it really is; a call sees of it what
`DestinationReads` lists, and judges it later, when the answer has arrived. `items[w]` has one set for every execution of
`insertItems`, `referenced[w]` says that an audit event or export token has a foreign
key to the run. `contract` is one of the set `Contracts`
for a whole history, so that one run covers both modes.

The last section of the module is the catalog row of the contract, computed with the
operators of `Board`: what the pages show is compared with what was delivered.

### Cadence, Discovery and Schedule

`Cadence` has the pure functions: the occurrence that is expected, the slot a report
covers, the first one missed, `evaluateCadence`, the next deadline and
`validateWorkflowContract`. Which instants a cron expression names is the constant
`CronTicks`, a set of instants for each expression. `Discovery` reads a cadence from the
trigger nodes of a workflow and proposes settings as the wizard does. `Schedule` is one
workflow under all of that: it is selected, configured and activated, its contract is
edited by the forms, repaired at start-up, and its reports (late, early, or dated ahead)
and the watchdog write the row of `workflow_states` in turn. `edited` says that settings
were entered that no activation has checked, `stale` that the row is not about the
present contract and report; both are history.

### Startup and Access

`Startup` is `main.ts` up to the point where it serves: the migrator, statement by
statement with each migration as the transaction it is, the readiness check, the tenant,
the setup token. Two processes may run it at once and one may be killed anywhere.
`Access` adds the handlers of the setup page, the login, logout, pages and forms. A
setup or a login runs to its end within its process, so `request[p]` is the one a
process is in; between two processes every statement interleaves. A form is let in by one step
(`AskPost`, the guard) and makes its change by another (`Change`), since its handler may await
a delivery or n8n in between: `posts` are those under way, which die with their process. Times are
what is *left* of a token or session, or the *age* of a login window. `latest` and `age`
(each user's last login), `tried` (the passwords looked at since the last window ended, whatever
happened to the row that counts them) and `unaudited` are history. `follows` says whether a
behaviour begins with an empty database, and is about the setup, or with processes that serve.

`MCServer` has `Startup`, `Access` and `Shutdown` in one run, whose parts start differently and
exclude each other: the setup, sessions and forms, guesses at a password, and a shutdown. A part leaves
the variables of the others alone; each property is checked in all of them.

### Fleet, Wizard, Board, Catalog and Roster

`Fleet` keeps the tables an administrator changes as one record `db`; each SQL statement
is an operator from tables to tables, and each page or form an action. Forms may be sent
from pages that are out of date, so an action is guarded by nothing but the
handler's own checks. `Wizard` adds the draft of the onboarding, which is one row for all
tabs: three handlers read it, await n8n or a delivery, and write back what they read
(`tab[t]` is what a tab waits for). A form that activates may be killed at each statement of the
loop over the selected workflows and between the loop and the draft that closes the wizard, with or
without a channel to test, after which the process starts again and repairs. `news` is what the other parts
have written about a workflow, its health and its open incidents by kind and severity; an edit of the
contract starts the row of the workflow afresh and leaves the incidents open, as `upsertWorkflowState` does. What n8n
lists comes from `Listing`, the loop over pages of `listN8nWorkflows`.
`Board` has the pure functions of a catalog row (dimensions, badge, bucket,
needs-attention, evidence level, client status), `Catalog` the queries over `Fleet`. A row shows
one of the open incidents, by kind before severity (`IncidentOf`). A check counts as configured as long as
an incident of its kind is open; the summary of volume evaluations is left out.

`Roster` is the abstract specification: a workflow is watched, heard, or gone, and what
is gone is neither watched nor heard until an administrator takes it up again. `Fleet`
states the refinement mapping (`AbsRoster`), `WizardSpec` has the wizard and the pages side by
side, and `MCFleet` composes them with the catalog: *watched* is
`Watched` of `Fleet`, what the watchdog would evaluate; *heard* a credential that is good;
*gone* a removed workflow that nobody has taken up since (`revived`).

## Runs

| Run | Question | Bounds |
|---|---|---|
| `outbox_overlap` | What survives when deliveries outlive their leases, and does every row settle? | 2 workers, lease shorter than a batch, 1 crash, 3 attempts |
| `watcher_single` | Is every incident justified and told exactly once, and every lasting silence announced, crash or not? | 1 process, 1 contract whose connector may die, reports up to 2 units late, 1 report or resolution by hand, 1 crash |
| `watcher_pair` | Can two processes hold a contract at once, announce an incident twice, or leave one open that a stale tick opened? | 2 processes, stalls as long as the lease, 1 report or resolution, no crash (that is in `watcher_single` and in the proof of `ClaimExclusive`) |
| `ingestion_pair` | Do incidents, announcements and the streak of empty results agree with the stored events, is a copy answered as one, and has each problem one unresolved incident, announced once, whoever opens and ends it? | 2 processes, cap 1; either 3 events of 3 keys, copies and contradictions, pushed and polled, removal, and 1 intervention, or 2 events of 2 keys and 3 acknowledgements, resolutions or ticks of the watchdog |
| `polling_order` | Is anything lost or stored out of order, and do polls exclude? | 2 processes, 1 workflow, a page of 3, 2 executions, 1 crash, 1 change of n8n (up behind a redirect, down, a proxy's page) or of the contract, or a test, tick within lease |
| `polling_outage` | Is a healthy connector quiet once its last answer has been seen through? | 2 processes, 2 workflows of one connector, 2 changes of n8n or the contracts or tests of the connector, no executions, 1 crash |
| `volume_pair` | Is each verdict fair, final and matched by its incident? | 2 watchers, days, weeks and months around a day that is longer and begins a week, 2 reports (of 2 items or of none that count), 1 pause, 1 crash |
| `reconciliation_single` | Is what the catalog shows as delivered delivered, and what is missing reported? | 1 call, 2 windows, 2 emails of which one registers twice, both modes, 1 crash, 1 export, runs that expire |
| `reconciliation_pair` | Is an incident announced once, unless the process dies between its INSERT and that of the outbox row, and does a run that a crash left "running" end? | 2 calls, 1 window, 1 email, a probe, a revocation, a waiver, 1 crash |
| `server_life` | Is the schema whole and the setup page closed after two processes have started together, and does a process come up? Are forms let in under the last login only? Are guesses bounded, and does a lockout end? Is what is in flight at a shutdown given the grace, is an exit clean, and does one come? | 2 processes, 2 names, 2 browsers; setup: 2 migrations of which one may fail for a reason of its own, 1 kill; sessions: 2 logins, 1 form under way, no kill; guesses: 1 name, 2 attempts in a window of 1 unit, 1 kill; shutdown: 2 batches, 1 poll tick, 2 requests, grace 3, 1 signal, 1 failure |
| `fleet_pages` | Is what was removed quiet, what the wizard activated whole, and the board honest; do all pages implement `Roster`? | 1 client, 2 workflows, 1 connector, 1 channel, 2 tabs, sound and unsound settings, 4 sets of tidings, 5 requests (3 after a start with one workflow in watch), 1 kill in the activation |
| `schedule_life` | Are the verdicts about a cadence right, does a silence last, can what is activated be evaluated? | 11 sets of triggers, 4 choices in the forms, cron with gaps of 2 and 3, 9 minutes, 2 reports up to 2 late and 1 ahead, 3 forms |

The exact values are in the `.cfg` files. Two actors and one or two rows are enough
because every conflict in the code is between a holder and a taker of the same row; time
constants are chosen so that each order of lease, timeout, retry and delay that the
defaults allow occurs in some run. In `schedule_life` the intervals, gaps, allowances and
quiet windows are chosen so that the allowance is shorter and longer than what it is
added to, and the clock passes at least two slots of each. Some properties speak of a
part of the histories only, and say so in their comment: `ClaimExclusive` of the outbox of
a retry delay not shorter than the lease (the default has them equal), `AnnouncedExactly`
of the watcher of one process that has not crashed, `OpenedAnnouncedOnce` of workflows that
are still there, `IncidentsMatchVerdicts` of histories without a crash,
`AnnouncedOnceEach` (its announcements) and `IncidentsMatchEvidence` of incidents that nobody wrote from a
reading that no longer held (`raced`), `HealthyIsQuiet` of connectors whose last answer was seen through alone
(`doubt`), `AnnouncedOnce` of incidents whose announcement no death has prevented, of which there is
one per death at most (`cut`),
`MissingIsReported` of the latest run, `GateIsSound` up to the next edit,
`QuietOnceRemoved` until the workflow is taken up again. What happens outside is under
"What the code does not keep".

## Fairness

`Outbox` and `Watcher` assume that a process executes what it has begun (weak
fairness per process), that the interval timers keep firing, and that time
passes. In `Watcher` the clock needs strong fairness (`FairSpec`): a process in the middle
of its statements may hold the clock up (that is how stalls are bounded), but only for a
moment. `watcher_pair` assumes less (`TickingSpec`): its clock may stand still, because a
slot is long compared with a tick and a recovery has to be noticed within it. Crashes,
requests, reports and deliveries of the watcher's alerts are never assumed to happen.

`Shutdown` assumes that time passes, that the process executes `shutdown`, and that
requests are answered in the end (`app.close` waits for them without limit); it does not
assume that work in flight ends. `Reconciliation` assumes that fetches end one way or the
other (they have timeouts), that somebody keeps requesting each window (the only way a
run comes about: nothing reads `scheduleExpression`), and that emails are delivered
eventually. `Access` assumes that a process which is down is started again (the container's
restart policy), that it ends the handler it is in, and, because handlers hold the clock
up as the statements of `Watcher` do, strong fairness of the clock; nobody is assumed to
log in. `Ingestion`, `Polling`, `Volume`, `Fleet` and `Schedule` are checked for safety alone.

## What is proved

`OutboxProofs` proves for every number of workers, rows and channels and every lease,
timeout and retry limit: types (`TypeCorrect`); no settled row carries a lease
and `attempt_count` stays below the limit (`RowInvariant`); a
settled row is never put back (`SettledForGood`); an alert is given up only after enough
failed passes (`GivesUpLate`); an incident counts as notified only if an endpoint
received it (`NotifiedTruthful`). Most of these are not inductive
alone. `PassInv` ties each worker's stale `snapshot` to the number of passes that failed
so far: whatever older count is written back, it is at most that number. `SentInv`
follows a delivery from the endpoint's acceptance to the recorded attempt through the
workers' locals. The only assumption on the constants is `OutboxAssumption`.

`ClaimsExclude` is `ClaimExclusive` of the run for any number of invocations, under a
hypothesis about the history: `ClaimsUndisturbed`, no invocation ends a pass between the
SELECT and the UPDATEs of another one's `claimOutboxBatch`. Within a process that is so,
because the two are one stretch of synchronous code; between processes nothing enforces it,
and three invocations without it hold one row together (see below). The invariant (`HoldInv`)
says that a row in the batch of an invocation whose lease runs is leased for as long as that
invocation believes, and that what another has selected and not yet claimed is
due; ending a pass over a selected row would break the second part.

`WatcherProofs` proves `LeasesExclude`: two processes never evaluate one contract while
the leases of both run, for every number of processes and contracts, every lease and
every suspension (`watcher_pair` checks it as `ClaimExclusive`). The invariant,
`LeaseInv`, has the types of the claim variables and says of each process that holds a
monitored contract and has not stalled for longer than the lease that the row in
`watcher_contract_claims` names it and expires when it believes. The clock moves both
sides together, and a claim replaces a row only when its lease has run out. No type
invariant of the whole state is needed, only that of the claims.

The two results on announcements use `StoreInv`: what a process is about to write or
announce is a row there is, and one of its contract. `OpenedOnce`
(`OpenedAnnouncedOnce`) goes by `PairInv`: a process that saw no incident when it looked
meets none when it announces that has been announced since. The claim sees to that
(`LeaseInv`, with a suspension no longer than the lease), because only its holder opens or
announces. `ExactWhenAlone` (`AnnouncedExactly`) needs no lease: with one process, `SoloInv`
says that what was read is still so, and by the statement the process is at which
announcement is still to come. Both properties turned out too strong when they were to be
proved, and now say what they leave out (`Revived`, the removal of a workflow, a second
process).

`ServerProofs` proves of `Shutdown` (`ShutdownSpec`) its types (`DrainTypes`), and from `StageInv`, which ties the stages of
`shutdown` to what is still running, `GraceGranted` (work is cut off by a shutdown only
after the whole grace), for any number of signals and failures.
`ExitClean` holds under the assumption `MaxSignals <= 1`: a second signal exits at once
with 0.

`ScheduleProofs` proves three results for every set of triggers, answers, clocks and
cron expressions. `FixedRateVerdict`: the arithmetic of slots (anchor, lateness, the slot
a report covers) finds an observed contract overdue exactly when some slot after the
report has passed by more than the allowance; it rests on lemmas about division that
place an instant between two slots. `GateHolds`: what an activation lets pass can be
evaluated until a form changes it; the invariant (`GateInv`) adds that, as long as nothing
was entered since, the draft the contract came from is valid, because the repair and a
second activation write that draft again.
`SilenceIsOne`: a silence once found stays found, since the same instant, until there is
a report. The invariant (`RowInv`) says that an overdue row which is not stale is what the
evaluator found about the present contract and report at some earlier instant; the step
is then a fact about `Evaluation`: with contract and report fixed, the first occurrence
that was missed does not move with the clock. The assumption is `ScheduleAssumption`;
`SilenceIsOne` also assumes that a cron expression has an occurrence before and after
every instant (`CronGoesOn`), which the finite sets of the run stand for.

`PollingProofs` proves `PollsExclusive` (`PollsExclude`) for any number of processes,
workflows and executions, by the same argument as for the watcher with one difference: a
claim is stamped with the start of its tick, so `LeaseInv` says that it lasts a lease less
the age of the tick. `HealthyQuiet` (`HealthyIsQuiet`) is about an answer that is seen through statement by statement, with
whatever other processes do to other connectors in between. `QuietInv` says of each connector that is not in
`doubt` that one process at most is at work on its incidents (`Settled`), and by the statement it is at what it has
dealt with: a recovery has left no unresolved incident of the workflows behind it, but for the row in its hand,
and an outage is recorded of a connector that is not healthy (`Answered`). The hypothesis is in the property
itself, since the code does not exclude two answers at once.
`PolledInOrder` (`NothingLost`) has two hypotheses: no tick outlasts its lease, so that `PollsExclusive`
applies, and `PagesReachBack`, that a page lists what has finished since the checkpoint (the
code asks for one page). `BookOK` says of each workflow that what the checkpoint has passed is stored, refused
or overtaken in its millisecond, and that what may still be stored is not older than what is; `PageOK` and
`LoopOK` say of a poll that what its page lacks came later, and that what it has taken is accounted for although nothing
is saved yet. Each is a statement about sets, kept by one lemma per operation (`BookGrows`, `TakesOldest`, `SavesLatest`).

`ReconciliationProofs` proves `IncidentsAnnouncedOnce` (`AnnouncedOnce`) for any calls, overlapping ones
included, and any number of deaths: `IncidentsExact` says that every row has one announcement, but for the one that is due
next and those that were lost, and `LostBound` that a death loses one at most. `MissingReported` and `GreenDelivered` have the hypothesis `Apart`: no window is
served by two calls at the same time. The code does not see to that, it depends on who
requests runs, and `reconciliation_single` is an instance of it. The invariant has three parts.
`Base` are types. `RunsInv` says of a row that reads healthy, or has evidence of a high level, that it
misses nothing and that what had registered when it began has been delivered (`RunFair`), and
of a row without an error that its items are one set, and as many as it counts; and of a call what it
has read and judged by the statement it is at (`CallFair`), up to the statement that writes
it into the row. `AlarmInv` says that what the latest run misses is reported, but for the moment
between its row and its incidents. That the sizes of four disjoint sets of items are what the
match counted is by `FiniteSetTheorems`.

`ServerProofs` is also about the pages and forms (`FleetSpec`), for any number of clients, workflows,
connectors, channels and requests. `Sound` is the invariant of the tables: references lead to
rows, a workflow that does not exist has no traces, what is removed and was not taken up again is quiet
(no active contract, no route, no live key, no connector: `Quiet`), and every workflow of an archived
client is removed. One lemma per statement says what it does to tables that are sound; the
pages are their compositions. From it follow `RemovedStaysQuiet` (`QuietOnceRemoved`),
`BoardHonest` (`BoardIsHonest`, which also has to
compare rows in the order of the board) and `PagesKeepRoster`: every request, seen through
`AbsRoster`, is a step of `Roster` or a stutter.

The same three hold with the wizard beside the pages (`WizardSpec`: `RemovedQuietForAll`,
`BoardHonestForAll`, `AllKeepRoster`), and there `WizardWhole` proves `WizardIsWhole`, all for any
number of tabs, workflows, settings, requests and restarts. `WizardInv` adds to
the invariant of the tables that each draft, the saved one and those the tabs hold, speaks of rows there
are (`DraftSound`), that a tab that activates has a time of its own (`Own`), and `Kept`: a workflow has one
active contract at most, no contract is dated later than the last request, and a contract that is active since one of `Times`
belongs to a workflow with all that belongs to it (`Complete`). `Times` are those a draft says, or a
waiting form may yet come to say, that the wizard activated at. `WizardIsWhole` alone is
not inductive: it says nothing of the drafts that the tabs will write back, nor of what the
loop did under a time that is saved only behind it. A process that is killed in
the loop or behind it leaves contracts that are not complete, and they do no harm because their time dies
with the form. `StagesDo` follows one workflow through the statements of its activation; `Lasting` and
`Moves` say what a statement leaves alone, so that the eight stages compose. The loop is a recursive
function over the order in which the workflows come, and `ActivatedDoes` is by the same
`Induction` over a set of numbers. `FleetAssumption` says that the workflows are finitely many.

`IngestionProofs` proves, for any number of processes, keys, reports, agreements and caps,
`OneIncidentEach` (`AnnouncedOnceEach`), `EvidenceMatched` (`IncidentsMatchEvidence`) and
`CopiesAnswered` (`CopiesAreAccepted`). `RowsGood` says of the incidents that a problem has one
unresolved row and that each row that is not `raced` counts its announcements, but for those the handlers and ticks
are about to make (`HandlersGood`, by the statement they are at); every path of `Write`, which raises and
resolves up to four problems in a row, keeps it, and so does each statement of the watchdog and of the incident routes.
`EvidenceInv` is the property in five parts, of which the first is that the counter in `workflow_states`
is the size of a set of stored events (`Streak`): a report prolongs that set by one, empties it, or
leaves it, by `FiniteSetTheorems`. It needs the invariant of the rows because a problem is resolved
by its one unresolved row. An acknowledgement that was read before a report resolved the incident
makes it unresolved again; the row is then `raced`, and the property speaks of the others.

`VolumeProofs` proves `VerdictsFair` (`VerdictIsFair`) for any number of watchers, any calendar and any
reports, without a hypothesis: it takes no claim, only that a result is computed from reports read
behind the deadline, and that a later report is late for it (`FairInv`, kept by `FairGrows` and `FairRead`). The sums are
recursive functions: that more reports do not add up to less (`AddUpGrows`) is an induction, which
`Induction` derives from the well-founded order of the natural numbers as a statement about a set.
That the end of a window follows from its start (`WindowEnds`) is reasoned on the calendar. It also
proves `VerdictOnce` (`FinalForGood`) and `VerdictsMatched`
(`IncidentsMatchVerdicts`) under the hypothesis
`MaxStall <= ClaimTtl`: a tick takes no longer than its claim lasts. The code does not
enforce that: a tick that is suspended for longer than the 30 s of a claim may overwrite a verdict. The
invariant `WorkInv` says by the statement a tick is at that it works under its own claim, that
no other tick works on its window, and what it has found in the table is still there; `IncidentInv` says that each row is about a
verdict, and that a drift has its row or its tick is at the statements that look for it and open it.

`ServerProofs` proves five results about `Startup` and `Access`, for any number of processes that start, are
killed and start again, any journal of migrations, and any names and browsers.
`SchemaWhole` (`SchemaIsWhole`) rests on `SchemaInv`: what is applied is a beginning of the journal
and the next migration of a process is behind it. `CleanStart` (`CleanUnlessOverlapped`) counts who is
between two statements (`AloneInv`): without an overlap one process at a time is about to mark, to
create the tenant or to write a setup token. `SetupCloses` (`SetupClosesBehind`) follows each process
through the statements of the setup page. `GuessesFew` (`GuessesBounded`) is not
that guesses stay below the limit: each of *n* processes may have found no window before the window began, and when it
writes, the count begins anew. What holds is that at most *n* times the limit and *n*(*n* - 1)/2 more are looked at.
`GuessInv` says that a running window leaves one such round fewer than there are processes that
might still begin it (`Renewed`), and that its row leaves as much of the limit as those that are late, having judged an
older count, may still use, but for one each. `LastLoginOnly`
(`OnlyTheLastLogin`) is from `SessionInv`: a session is of its user's last login, and
the time it has left is its life less the age of that login, so a form is let in under that
login; what it does later is outside. `StartupAssumption` says that the processes are finitely many and at least
one, and that `Nobody` is none of the users.

Proved under a hypothesis on the history (`ClaimsExclude`, `MissingReported`, `GreenDelivered`,
`PolledInOrder`)
means: for every behaviour of `Spec` that satisfies it throughout. Each hypothesis is met by
the behaviours of one process, of one call per window, or of no more executions than a page holds.

Only model-checked: the liveness properties (`EveryRowSettles`, `SilenceIsAnnounced`,
`RecoveryClosesIncident`, `SignalEnds`, `EveryRunEnds`, `LockoutEnds`, `ComesUp`), which are out of the prover's reach. `VerdictIsRight` is proved for
fixed rates (`FixedRateVerdict`) and model-checked for the other cadences.

## What the code does not keep

The models show departures when a property is stated without the restriction it has
here. They are in the modules' behaviours, but no run is spent on them.

- Outbox: with a retry delay shorter than the lease, a stale invocation frees the lease of
  another one (`process-outbox.ts:272`). With three invocations the delay does not help: a
  stale one reschedules its row between the SELECT of a second and the UPDATE of that row,
  after a third has claimed it, and the second claims it as well. Both deliver it, while
  `docs/architecture.md:56` says that two processes cannot hold the same active claim while the
  time-to-live is valid. (`ClaimExclusive` with 3 workers and without `ClaimsUndisturbed`;
  with two workers, as in `outbox_overlap`, it holds.)
- Watcher and incidents: when a workflow is removed while a tick evaluates it, its claim goes
  with it, and with three processes two ticks may announce one incident as opened; renotifications pile up while alerts are undelivered
  (`run-watcher.ts:375`).
- Incidents: an acknowledgement that was read before another process's report or resolution makes the incident
  count as unresolved again (`sqlite-alerting-repositories.ts:722`, whose comment above says that
  recovered incidents stay resolved), against the stored evidence until it is resolved once more; two resolutions
  read at the same time both announce "resolved" (`incidents.ts:280`); and a tick that has seen an unresolved
  silence announces nothing when a report resolves that one and the tick then inserts another
  (`run-watcher.ts:343`). (`AnnouncedOnceEach` and `IncidentsMatchEvidence` without `raced`.)
- Ingestion: a pushed copy that loses the race for its key is answered with an error
  (`ingest-heartbeat.ts:167`); two processes together exceed the cap (`:239`); each stale
  report closes and reopens the incident about staleness (`:533`); a watermark that fell
  back advances again (`source-watermark.ts:199`); a report that arrives late overwrites
  the instant of a newer one (`apply-heartbeat-state.ts:63`).
- Polling: of two answers of one connector at the same time, in two processes, a failure may be written first, a success
  over it, which finds no incident to resolve, and then the first opens its incident: the connector reads
  healthy and its workflow has an unresolved incident until the next success
  (`poll-workflow.ts:343`), which `resolve-connector-incidents.ts:5` is there to prevent. A process that dies between
  writing the health and resolving the incidents leaves the same (`poll-workflow.ts:219`), and so does a lost
  race for a row, which throws. (`HealthyIsQuiet` without `doubt`.) A poll asks for one page of n8n (`poll-workflow.ts:203`), so that of more executions between two
  polls the oldest are lost (`NothingLost` with `PageSize` 1); a claim is stamped with the start of the tick, so a long tick holds short
  leases (`run-poll-scheduler.ts:108`); each failed poll announces "opened"
  (`poll-workflow.ts:359`); a workflow given up during an outage is not polled again
  although its connector is shown as healthy (`run-poll-scheduler.ts:167`).
- Outbound: the timer of a request is cleared when the headers are there, and the body is
  awaited without limit (`secure-outbound-http.ts:98`, `:124`); a test of the connector
  takes any page of status 2xx for n8n, which a poll then calls misconfigured
  (`n8n-api-client.ts:114`).
- Volume: the window of a week whose first day is longer or shorter than 24 hours has two ends, seven
  days from its first midnight while it lasts (`compute-window.ts:178`) and the next window's start afterwards
  (`:188`), and the row keeps the end it was inserted with (`sqlite-volume-repositories.ts:173`):
  the window shown need not be the one counted. (`VerdictIsFair` with `row.end` for `row.about`.)
  A window gets a verdict only if a tick falls on the very instant at which it
  ends, and with a grace not even then (`compute-window.ts:267`), while
  `docs/known-limitations.md:15` says that rules are evaluated; a crash between a verdict
  and its incident loses the incident (`run-volume-evaluator.ts:97`), nobody is sent an
  alert about drift, and the 25th hour of a day belongs to no window
  (`compute-window.ts:104`).
- Shutdown: `app.close` waits for requests without limit, so a request that is never answered keeps the process from
  ending (`main.ts:289`; `SignalEnds` without the fairness of `FinishRequest`); a second signal exits at once with 0, and a rejected batch ends the process
  (`graceful-shutdown.ts:64`, `:57`).
- Reconciliation: a second call resumes a live run and both insert items
  (`run-reconciliation.ts:225`), and because the second resets `started_at`, the first may pass
  what it had read before for healthy, so that an email that registered in between is
  missing from a row shown as green (`GreenIsDelivered` with two calls of a window); a process that dies between the INSERT of an incident and
  that of its outbox row leaves an incident that is never announced, as later runs find it there
  (`run-reconciliation.ts:600`; `AnnouncedOnce` without `cut`); a run revives a connector revoked meanwhile (`:315`); a
  re-run of a finished window changes nothing (`:213`); a run of another window ends the
  alarm (`:612`); an expired run that is referred to fails later runs
  (`sqlite-reconciliation-repositories.ts:331`); an email on time but behind the end of
  the window is missing (`zoom-webinar.ts:108`); duplicates alone are not reported
  (`outcome/incidents.ts:77`).
- Cadence: a contract that was never observed, at a fixed rate or by cron, with an
  allowance as long as its interval stays "unknown", or is overdue and unknown in turn
  with every slot (`evaluate-contract-health.ts:50`); an activation counts as a first
  occurrence, so that a daily contract is overdue before its first day is over; after the
  activation the forms switch the cadence without validation, and a contract without a
  quiet window or interval mode makes the evaluator throw, which ends the whole tick of
  the watchdog and refuses the reports of the workflow; quiet windows that round to zero
  minutes do the same; `next_expected_at` stays as it was when a form changes the cadence;
  an `executedAt` ahead of the clock silences the watchdog until then.
- Start-up and access: of two processes that start together the second fails a migration
  that the first has made, and leaves a failure row; both may let a first administrator in. With *n*
  processes nearly *n* times the limit of logins are looked at in a window, as each may begin it anew
  (`sqlite-auth-repositories.ts:268`). A form that was let in makes its change although its
  session has been replaced or ended, or its user become a viewer, while the handler waited
  (`ui.ts:920`). (`GuessesBounded` with the limit alone; `OnlyTheLastLogin` of `Change`.)
- Wizard and pages: answers of the other tab are lost when a handler writes back the draft
  it has read; the repair at start-up undoes settings changed after the onboarding
  (`ui-onboarding-routes.ts:157`, whose comment at `:131` says it avoids that); going back
  and activating again overwrites the contract of a workflow that is protected already; of
  several workflows some may fail, and the client is called protected all the same; a
  process killed in the loop may leave an active contract on a workflow that is not; the
  channel test of the wizard names its channel in a field that `process-outbox.ts:306` does
  not read, so that nothing is sent, and a test that failed, or a channel that is disabled,
  passes for tested; a removed workflow that is taken up again is watched and stays out of
  the catalog, and one of an archived client can be watched by way of `/protect`; a
  workflow that is not active shows as `monitor_unknown` while its connector is down; a row shows one open
  incident, by kind before severity, so that a critical silence behind a warning about a stale watermark
  does not lift the row (`query-catalog.ts:225`).

## What is not modelled

Cryptography, parsing and configuration, and the wire formats of HubSpot, Zoom, SMTP and
webhooks, are reduced to their outcomes, which the models take as choices of the
environment; so are public addresses in outbound requests. Of the pages, the HTML, the
filters and the retainer report keep no state and decide nothing. What a migration
contains, volume rules as rows, audit events, backups and metrics are data that no
property tells apart. The emergency caps belong to the SaaS edition, which has no process
here. The PostgreSQL schema and its migrator exist in the repository, but no process runs
on it. The scripts verify and build the product and are no part of it.

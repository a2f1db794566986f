# A verification of the jobshout agent platform in TLA+

jobshout runs AI agents for organisations. The Go server under
`server/` keeps everything in PostgreSQL; several API replicas run side by side
and, inside each, goroutines, tickers and HTTP handlers work on the same rows.
What makes the server hard to get right is not the data but this: no step holds a
lock across two statements, every replica runs every background loop, and a
goroutine may die, lose its database connection or be overtaken between any two
statements. This directory models the seven parts of the system where that
matters most, checks them with TLC and proves the core results with TLAPS.

Contents: [inventory](#1-inventory), [modules](#2-modules-and-code),
[runs](#3-runs), [fairness](#4-fairness), [proofs](#5-proofs),
[what the models show beyond the properties](#6-behaviour-worth-knowing),
[what is left out](#7-what-is-not-modelled) and [the plan](#8-plan).

All paths below are relative to `server/internal/` unless they start elsewhere.

## 1. Inventory

| Component | State | Operations | Hard behaviours | What makes it correct |
|---|---|---|---|---|
| Approvals (`service/approval_service.go`, `repository/approval_repository.go`, `executor/approvals.go`) | `approvals` rows: status, resume_state, resume_claimed_at, resumed_at | pause, decide, claim, resume, mark resumed, recovery every interval | two humans; decider goroutine against the recovery loops of all replicas; stale claims; crash in the middle | one decision wins; one live resume; a gated tool runs only when approved, and once per claim; a decided approval is resumed |
| Executions (`service/execution_service.go`, `repository/execution_repository.go`) | `agent_executions` rows | begin, mark started / completed / failed / awaiting / resuming, cancel | writes that do not look at the status they replace; cancel beside a running goroutine | a pause ends; a cancelled pause stays cancelled |
| Task runs and board (`service/task_run_service.go`) | `task_runs`, `tasks.status` | create, execute, sync from execution, sync the card | mirror of a mirror, read and written in separate statements | run and card follow the execution |
| Executor loop (`executor/executor.go`) | messages, iteration | one model call and its tool calls per iteration | limits across a pause | stops at `MaxIterations` |
| Workflow engine (`workflow/dag.go`, `service/workflow_service.go`) | `pending`, `ready`, `outputs`, `errs` in memory; `workflow_runs` rows | execute, start a step, store its output, unblock, collect, finish | a goroutine per step on shared maps; failing and pausing steps; cycles | steps wait for prerequisites and see their outputs; a run ends; completed means every step ran |
| Scheduler (`scheduler/runner.go`, `repository/scheduler_repository.go`, `handler/scheduler_handler.go`) | `scheduled_tasks` rows | tick, claim, run, count, pause, complete, reschedule; edit, delete | replicas list the same task; runs overlap; edits during a run; panics | dispatched only when due; never lost; one-shot and capped tasks stop |
| Webhook dispatcher (`webhook/dispatcher.go`, `repository/webhook_repository.go`) | `org_webhook_deliveries`, `org_webhook_endpoints` | emit, first attempt, claim due, attempt, record | leases that run out; lost records; edits of the endpoint | one worker at a time; bounded calls; success is final; every delivery ends |
| Pentest runs (`service/pentest_reconciler.go`, `service/pentest_service.go`, `repository/pentest_run_repository.go`) | `pentest_runs`, `pentest_findings`, the board card | claim due, start, poll, retry a hollow scan, runtime limit, finalise; cancel | lease against a slow batch; whole-row writes from stale copies; lost answers; a workstation that never answers | no reference buys two scans; findings stored once; a verdict stays; every run ends |
| Scan workstation (`strix-service/app/`) | registry of scans and its index by `run_ref`, on disk; queue, semaphore, cancelled set | start_scan, run, classify, cancel, drain, reload after a restart | an `await` between lookup and creation; refusal after registration; restart with scans in flight | the run_ref is an idempotency key; nothing is reported running for ever |
| Secrets rotation (`secretsrot/`, `service/secrets_rotation_service.go`) | versions in Vault; what every consumer holds; the run's row and memory | plan, rotate, rollback, verify; propagate to Secrets, ExternalSecrets, GitHub, rings; retire; cancel | partial propagation; overlapping runs; a crash between two consumers; rows written by run and canceller | the latest version is never retired; nobody is left with a retired value; success means every consumer is live |
| Mail Agent (`service/mail_service.go`, `repository/mail_repository.go`) | `mail_threads`, `mail_drafts` | sync, ingest, classify, draft, edit, approve and send, reject | overlapping syncs and requests, each storing the whole row it read; lost answers of Gmail; crash half-way | the record of what was sent is true; no conversation is left half-way |
| Review and blog reconcilers | their run rows | claim, start, poll, finalise | as pentest runs | planned |
| Task board, goals, multi-agent jobs, chat agent, marketing gate, governance and budgets, live events, authentication | see PROJECT.json | | | planned, section 8 |
| LLM clients, specialist agents, integrations, handlers, web, iOS, marketplace, Python services | | | mostly I/O, text and user interface | not modelled |

How the parts interact: a handler or the scheduler creates a task run, whose
goroutine begins an execution and enters the executor loop; a gated tool call
inserts an approval and ends the goroutine; a decision, or recovery, starts
another goroutine that continues the loop from the stored state and mirrors the
outcome onto the run and its card; the workflow engine calls the executor once
per step; finished runs emit webhook events. The specialist loops (pentest, mail,
rotation) are launched from tasks, work on rows of their own and move the card of
their task. All communication inside the server goes through rows; the pentest
reconciler talks to the workstation over HTTP with a run_ref as idempotency key.

PROJECT.json lists the main hazards of this code at the line where they bite, with
the properties that would catch them; section 6 adds those no property covers.

## 2. Modules and code

Each module models one row (and what hangs off it) with every actor that touches
it. A variable is a column or a local of a goroutine; an action is one SQL
statement with the local code up to the next one, so actors interleave exactly at
the database (or, in the engine, at the mutex). Payloads, prompts, costs and
messages are left out. Failures (a crash, a panic, a database error) may strike at
every statement, at most `MaxFailures` times in a behaviour. A failed statement
takes the branch the code takes: log and go on, return, or leave the claim behind.

**ApprovalFlow** — one execution launched as a task run. Threads: `Runner`
(`taskRunService.execute` → `executionService.begin` → loop → `persistOutcome` →
sync), `Workers` (`resumeInBackground` → `resumeDecided`), `Deciders`
(`Decide`: read, then conditional update), recovery (`recoverUnresumed`), a user
who cancels, and the clock. Time is relative: `claimAge` is the age of
`resume_claimed_at`, `left` the rest of a goroutine's context deadline. History
variables `toolRuns` and `abandoned` count executions of a gated tool and claims
left behind. Several gated calls of one native turn are a `Resume` that pauses
again. The four `Mark…` updates of the outcome are written as in the code, with
no look at the status they replace.

**WorkflowDag** — one run of a workflow with any dependency relation, which is
what `insertSteps` accepts. `main` is `Execute`/`runAsync`; each step has a
goroutine whose critical sections are actions. A step whose agent pauses on an
approval returns like one that completed, because `res.Err` is nil.

**Scheduler** — one scheduled task under several replicas: `ListDue`, `Claim`
(compare-and-set on `next_run_at`), `RunTask` (the run, its record and its count),
`PauseMisconfigured`, `ScheduleNext`, `Die`, and the handler's edits, where
`Update` writes the row and moves `next_run_at` in two statements. `snap` is the
row a run was started with, which is what `scheduleNext` uses. Instead of the
compared timestamp, `fresh` records whether it was written since the listing;
`Reschedule` allows a one-shot task to be moved back to the very time listed.
A schedule is usable, broken (no next run can be computed from it) or a cron
expression that parses and never fires: `sched.Next` then returns the zero time
without an error, which is always due, and which the compare-and-set finds unchanged
after it was written (`ZeroTime`).

**WebhookDelivery** — one delivery: `Emit` with its leased first attempt, the
pollers' `ClaimDue`, `GetEndpoint`, `Post`, `RecordAttempt`, and the edits of the
endpoint. The batch is modelled by its effect on one delivery: after the claim it
waits up to `QueueDelay` ticks for the others (one tick is 10 s, `Timeout`).

Two abstract specifications say what components promise, without how:

**LeasedJob** — what a lease is for: whoever takes a unit of work is alone with it
until it lets go, only its holder finishes it, and finished work is not taken up
again. It has no clock; an implementation has to show that its leases are long
enough. Three components do, each with an `INSTANCE` under its own refinement
mapping: the resumes of every approval (`Job(a)` in `ApprovalFlow`: new until it is
decided, done once `resumed_at` is set, held by the live goroutines with the claim),
a webhook delivery (open while pending, dropped with its endpoint), and a pentest run
(done with its verdict; a cancel that finds a replica at work takes effect when that
replica lets go).

**OrderedRun** — a partial order executed in order: a step begins once, after its
prerequisites have ended, ends with an output or an error, and the run gets one
outcome after the last step. `WorkflowDag` implements it: the steps begun are those
with a goroutine, the ended ones those whose goroutine has returned.

**StrixService** and **PentestRun** — the workstation service and, extending it, one
pentest run. `scan`, `refOf`, `byRef` and `stop` are `Store._runs`, `_by_ref` and
`Runner._cancelled`; `failed` scans are told apart by what a poll reads off them
(`hollow`: the target was not engaged, `busy`: refused by the queue). A replica
claims the row, keeps its `copy`, calls the workstation and writes the copy back:
`Update` and `Finalize` look at the id only, so a stale copy overwrites the row.
`start_scan` is two steps, because it awaits the scope check between the lookup of
the ref (`Known`) and the creation (`CreateScan`); the requests in between are `asks`.
A request is a thing of its own: a replica that times out (`GiveUp`) or dies leaves it
behind, and it goes on and creates its scan without another look at the ref
(`EnforcedAlone`). A scope check takes at most `ScopeTime` ticks. Every answer can be
lost. `found` says that a verdict came with a result, whose findings `Finalize` inserts
whatever its status is. As in `WebhookDelivery`, the rest of the batch is a delay of up
to `QueueDelay` ticks; the runtime limit is an age in the copy.

**SecretsRotation** — runs on one KV v2 path. `content` is the sequence of versions,
`deleted` the retired ones, `held` what each consumer has; a consumer is a Kubernetes
Secret, an ExternalSecret (which reads Vault itself), a set of GitHub Actions secrets,
or a ring of deployments that loads one of the Secrets (`Loads`) when it restarts. Every
call of a run is an action that may fail with or without its effect; effects are assumed
to land before the call returns. A version, and what a consumer holds, is a map from keys
to values. A rotation gives fresh values to its keys (those it was given, else all it
finds, else the defaults, and those of `new_secret_json`) and carries the others over; a
read that fails is taken for an empty path, and then there is nothing to carry over. A
rollback writes the whole version before. Each pushes only its keys (`Pushed`), Actions
secrets one after the other (`PartlyPushed`). A run is launched with any of the `Aims`,
no target at all among them. `crowded` records that two runs have overlapped, `bare` that
a run has retired a version without naming every target, and `served` the keys a run has
reported as propagated to every target. Dry runs are plan runs. A value given in
`new_secret_json` is taken to be new, and values that are not strings are not told apart
from those that are.

**MailAgent** — one conversation and its draft. Reconcilers and user requests are
processes with a program counter; each keeps the text of the draft it has read and
stores the whole row. The row of the connection is left out: its lease of two minutes
excludes nobody, since a sync has no deadline and `EnqueueSync` clears it, so syncs
overlap freely here. What is left of it is `connected`: Gmail answers, and the grant was
not revoked. `crowded` says that fifty other conversations were updated since this one,
which is then no longer on the page `processQueuedThreads` reads.

**…Proofs** modules hold the theorems of the component they extend, **MC…**
modules are what the runs instantiate. A definition marked "Mutant" is a plausible
bug of the definition below it; PROJECT.json says which property it breaks.

## 3. Runs

Runs that pass:

* `approval_flow` — two resume goroutines, a decider, two approvals, two
  iterations, one failure (2.5 million states up to symmetry of the goroutines).
  Two approvals make a resume pause again; two workers are enough for a takeover;
  `StaleAfter = ResumeTimeout + PersistTimeout` is the tightest ratio the
  assumption allows (the code has twice the resume timeout). A resume may take a tick
  here, and its writes none; `approval_live` gives both one. Checks
  `ResumesAreLeasedJobs` (the refinement of `LeasedJob`: a takeover never meets a live
  resume), `ToolNeedsApproval`, `ToolOncePerClaim` (each further execution of an
  approved tool is paid for by a claim left behind), `ResumedIsFinal`,
  `CancelledPauseIsFinal` (an execution cancelled while no goroutine writes it stays
  so, and no goroutine that could write it ever starts).
* `approval_live` — two racing deciders and two failures: `DecisionIsFinal`, and
  `DecidedIsResumed`: recovery picks up every lost resume.
* `workflow_dag` — all 512 dependency relations on three steps, every outcome of
  every step, one failure: `RunIsOrdered` (the refinement of `OrderedRun`),
  `PrereqOutputsSeen`, `StuckOnlyOnCycle`, `AcyclicRunFinishes`. Three steps
  give chains, forks, joins and cycles of every length up to three.
* `scheduler` — two replicas, two overlapping runs, cron, interval and one-shot tasks,
  `max_runs` absent or 2, an edit and a failure (346,919 states): `DispatchOnlyDue`
  (with the hold that puts the task off), `CompletedAtCap`, `DueIsTaken`, `BoundedStops`
  (one-shot and capped tasks stop). A cap of 2 is the smallest at which a run can count
  from a stale row. `DispatchOnlyDue` and `DueIsTaken` name one exception, the cron
  expression that never fires: its task is not put off and stays due.
* `webhook_delivery` — the code's 6 attempts and lease of six timeouts, with a
  batch that fits into it (`QueueDelay = 4`), two replicas, two failures, two
  edits: `DeliveryIsLeasedJob`, the refinement of `LeasedJob`, `PostsBounded`,
  `SucceededIsFinal`, `DeliveryEnds`.
* `pentest_run` — two replicas, one engagement retry (two refs), two scans, a lease
  longer than the batch (`Interval = 3`, `Timeout = 1`), a scope check of up to a tick and
  a backoff of two, two requests at a time, one crash or database error, one restart of
  the workstation, one cancellation, and any number of lost answers and of requests left
  behind (620,025 states): `OneScanPerRef`,
  `FindingsOnce`, `CompletedIsQuiet`, `VerdictIsFinal`, `RunIsLeasedJob` (the third
  refinement of `LeasedJob`), `RunEnds`. Two scans are
  exactly what two refs may use, so a duplicate leaves the second ref without one and
  is seen at once; one scan at a time makes scans queue.
* `secrets_rotation` — two runs in any modes, two keys, a list of one key or none, a
  given value for the other key or none, every target or none; a set of Actions secrets,
  one ExternalSecret with a ring behind it, two versions of which the first is retired,
  one cancellation, one crash or lost write (677,761 states): `RetiresOnlyReplaced`,
  `RollbackRestores` for overlapping runs too; `NoRetiredValueHeld` and
  `CompletedIsLive` for runs that do not overlap; `RunEnds`. Actions secrets stand for
  Kubernetes Secrets too: they are pushed in the same way, but can fail half-way. The path
  to be created is reached by a read that fails. Two runs give every pair of modes, among
  them verify after a propagation that failed half-way, and every pair of key lists.
* `mail_agent` — a replica, a user, two texts, any number of further mails, fifty newer
  conversations and disconnections, one failure (1,093,912 states): `SentRecordIsTrue`,
  `UnfinishedIsHandled`. A user who syncs beside the replica is the second sync; the proof
  of `SentRecordIsTrue` covers any number of either.

Runs in which TLC finds what a comment or document says violated; each is a
finding of PROJECT.json:

* `approval_pause` — `PauseIsNotTerminal`. The approval row is visible before the
  paused run has written its own status. A quick decision and its resume finish
  first, and the late `MarkAwaitingApproval` then leaves the execution awaiting an
  approval that is already resumed.
* `webhook_batch` — `SucceededIsFinal` with the default batch of 50: 49 deliveries
  of up to 10 s each outlast the lease of a minute, a second replica delivers, and
  the slower one overwrites the success. This is the same property that
  `webhook_delivery` shows, and the theorem proves, when the batch fits into the
  lease.
* `pentest_busy` — `BusyIsRetried`. The workstation registers a scan under its ref
  before its full queue refuses it. The reconciler keeps the run queued and retries,
  is answered with the refused scan, polls it and fails the run.
* `secrets_overlap` — `NoRetiredValueHeldEver`. Nothing keeps two runs on one path
  apart: one pushes the values it has in memory after the other has retired them. In the
  shortest trace a verify run has read the version that a rotation then retires.

Deadlock is checked for the approval flow, where the clock always runs, and for the
Mail Agent, whose syncs never stop. It is switched off in the others: a finished run,
a deleted task and an ended delivery are states in which the component really stops.

## 4. Fairness

Weak fairness only: of each goroutine's next step (the Go scheduler runs it), of
the tickers (`RunRecovery`, `Runner.Start`, `Dispatcher.Run`, the reconcilers), of
the clock and of a request handler that has begun. Nothing is assumed of the scan
workstation but that a scope check ends: `RunEnds` of `PentestRun` holds although no scan
ever ends. Of Gmail nothing is assumed: that it can be reached and no longer lists the
conversation (its query spans seven days) is a hypothesis inside `UnfinishedIsHandled`.
Humans, edits, cancellations, and failures owe nothing. For a step that calls a model or a receiver, fairness stands for the
timeout of that call. `Tick` never passes a deadline: this is the assumption that
every call on a context returns when its deadline is over. For the resume this is
`context.WithTimeout` in `resumeInBackground` and `persistTimeout` for the writes,
for a webhook the client's `Timeout`. A tool or driver that ignores its context
would break it, and with it `OneLiveResume` and `OneHolder`.

Failures are bounded, so that liveness says what happens after the last one.
`AcyclicRunFinishes` and `RunEnds` of `SecretsRotation` exclude behaviours with a
failure, because nothing picks up a workflow or a rotation whose process died.

## 5. Proofs

Every theorem holds for all values of the constants under the named assumptions
of its module; the inductive invariant `IndInv` is defined in each Proofs module.

* **ApprovalFlowProofs**: `TypeOK`, `OneLiveResume`, `ToolNeedsApproval`,
  `ToolOncePerClaim`, `DecisionIsFinal`, `ResumedIsFinal`. `OneLiveResume` is not
  inductive: nothing in it stops a takeover. The strengthening relates two clocks:
  for a goroutine that holds a claim, the age of the claim plus the time it has
  left is at most its budget (`ResumeTimeout`, with `PersistTimeout` on top), so
  with `StaleAssumption` a claim old enough to be taken has no live holder. For the
  tool, `ToolInv` counts: its executions are at most the claims left behind, plus
  one for a holder that has run it or for `resumed_at`. The same invariant gives the
  **refinement** `ResumesAreLeasedJobs`: what `Claimable` lets through has no holder
  (`ClaimableIsFree`), so every step is a step of the approval's `LeasedJob` or a
  stutter. `CancelledPauseIsFinal`, and from it `CancelledForever`, need `RowInv`:
  no goroutine works and nothing of the run exists before the execution's row does, and
  a goroutine in `SyncFromExecution` has its snapshot, one that persists a result its outcome.
* **WorkflowDagProofs**: `TypeOK`, `StepWaitsForPrereqs`, `PrereqOutputsSeen`,
  `CompletedRunIsWhole`, `StuckOnlyOnCycle`, for any finite set of steps and any
  dependency relation. The invariant says what the counters count: `pending[s]` is
  the number of prerequisites that have not returned, `remaining` the number of
  steps not yet taken, and a step is in the channel exactly when its count is zero
  and it was not taken. Cardinality comes from `FiniteSetTheorems`. With `MarkInv`
  (a step leaves its output or error only on its way to `unblock`, and only the last
  write settles the run) the engine **refines** `OrderedRun` (`RunIsOrdered`). Two
  theorems are the safety half of `AcyclicRunFinishes`: `AcyclicNeverStuck` (while
  steps are left, one is ready or a goroutine is at work) and `EveryStepAdvances`
  (every step raises a bounded rank). What is left to TLC is that fairness
  turns these into an end.
* **SchedulerProofs**: `TypeOK`, `DispatchOnlyDue`, `CompletedAtCap`, for any number
  of replicas and runs. `FreshIsDue`: a reading of `next_run_at` that is still current
  was made when the task was due, and it still is. `DispatchOnlyDue` names its exception:
  a run started from a cron expression that never fires. `CopiesLag`: the copies of
  `run_count` are never ahead of the row, and a run that has been counted is one more
  than its copy, unless a failure left it uncounted.
* **WebhookDeliveryProofs**: `TypeOK`, `OneHolder`, `PostsBounded`,
  `SucceededIsFinal`, each under `LeaseOutlastsBatch`
  (`QueueDelay + Timeout < Lease`). It is a hypothesis of the theorems and no
  assumption of the module, because the code's default batch breaks it
  (`webhook_batch`). `HolderLeased`: the time a holder has left is below the time
  its lease has left; `HolderCounts`: its copy of `attempts` is the row's, one more
  once it has posted; `RowCounts`: what was posted is what is counted plus failures.
  The **refinement** `DeliveryIsLeasedJob` follows: with `HolderLeased` a claim finds
  no holder, so each step is a step of `LeasedJob` or a stutter.
* **PentestRunProofs**: `TypeOK`, and under `LeaseOutlastsBatch`
  (`QueueDelay + Timeout + ScopeTime < Interval` and `ScopeTime < Backoff`)
  `OneScanPerRef`, `FindingsOnce`, `CompletedIsQuiet`, `VerdictIsFinal`, and the
  **refinement** `RunIsLeasedJob`. `LeaseInv` is the argument of `HolderLeased` again: one
  replica holds a live row, and the time it has left, with a scope check on top, is below
  the lease. `AskInv` is about the requests between lookup and creation: there is at most
  one, its ref is still free, and, whether its caller waits or is gone, the next claim of
  the run, and with it the next lookup, is further away than the end of its scope check.
  `Registry` says that index and registry agree, `ScanInv` that every scan belongs to the
  current retry or to an earlier one that is over, and that a result with findings is that
  of an ended scan. The hypothesis is no assumption of the module: the defaults break it
  (section 6).
* **SecretsRotationProofs**: `TypeOK`, `LatestReadable`, and the action properties
  `RollbackRestores` and `RetiresOnlyReplaced` from `VersionInv`, whose part `RunInv` ties
  a run to the version it has read and lets check-and-set do the rest: a rollback holds the
  whole version before the one it read; what a rotation writes carries over that version
  but for its keys, and is its successor. `NoRetiredValueHeld` and `CompletedIsLive` from
  `TargetInv`: while runs do not overlap, a run that has written has the latest values; if
  it is for every target, those it is done with have them too for its keys, and a ring is
  done with after its Secret. What was carried over need not be pushed: it is also in the
  version that stays.
* **MailAgentProofs**: `TypeOK`, `SentRecordIsTrue`. The strengthening is `MarkInv`,
  a request about to record a mail as sent has in its copy the text Gmail accepted,
  and `CarryInv`, a request that has read a draft carries a text, and only one behind
  `mark` closes the conversation as sent.
* **AbstractProofs**: what the abstract specifications promise, and their
  implementations inherit: a leased job is in one pair of hands and never retaken when
  it is over; an ordered run has its prerequisites in order and, with an outcome, is
  whole and final.

`OneLiveResume`, `OneHolder`, `StepWaitsForPrereqs`, `CompletedRunIsWhole` and
`LatestReadable` are proved and not listed in a run: `ResumesAreLeasedJobs`,
`DeliveryIsLeasedJob`, `RunIsOrdered` and `RetiresOnlyReplaced`, which are, imply them.

Only model-checked: liveness, because fairness and `ENABLED` are out of the prover's
reach: `DecidedIsResumed`, `AcyclicRunFinishes`, `DueIsTaken`, `BoundedStops`,
`DeliveryEnds`, `RunEnds` of `PentestRun` and of `SecretsRotation`, and
`UnfinishedIsHandled`.

## 6. Behaviour worth knowing

The models also exhibit the following, and reading the code shows a few more that
lie outside them. No property is stated for them: each is what the code does,
and no promise of the repository contradicts it sharply.

* Cancel does not stop a goroutine; what it writes afterwards replaces
  `cancelled` (`repository/execution_repository.go:75`). `CancelledPauseIsFinal` is
  the part that holds.
* Cancelling a paused execution leaves its task run `awaiting_approval`: the later
  decision finds nothing to resume and does not sync. A resume that finishes before
  the first run has stored `execution_id` does not find the run either.
* When `PersistResult` fails in a resume, the approval is marked resumed all the
  same and the execution stays `running`.
* A process that dies while a task run executes leaves the run, its execution and the
  card running (`service/task_run_service.go:145`). `syncBoardStatus` counts the active
  runs of a task and moves the card afterwards, so a run that starts in between has a
  card marked done (`:264`; two runs of one task are not modelled).
* A resumed run carries no `RunOptions`: cost and token caps end with the pause
  (`executor/executor.go:105`). A failed lookup of the approval rules lets the tool
  through (`service/approval_service.go:129`). Neither is in the model.
* Two steps of one workflow with the same name share a counter; one never runs and the
  engine waits for it (`workflow/dag.go:96`; excluded from the model).
* Nothing refuses a workflow with a cycle: the engine's `select` waits on a background
  context and the run stays `running` (`workflow/dag.go:131`); `StuckOnlyOnCycle`.
* A one-shot task has no next run, so `claim` holds it for one tick; a run that takes
  longer is dispatched a second time beside the first (`scheduler/runner.go:147`).
* A workflow step that pauses on an approval unblocks its dependents with an empty
  output, and the resumed answer reaches nobody.
* A cron expression that parses and never fires (`0 0 30 2 *`) is accepted; its next run
  is the zero time (`scheduler/runner.go:291`), so the task stays due, and every replica
  dispatches it at every tick until `max_runs` or an edit ends it.
* `RunPendingTool` of the model reads the decision off the live row, where the code has
  the row it was started with (`executor/approvals.go:371`). They agree because a decision
  is final, which `DecisionIsFinal` shows.
* Overlapping runs started from the same row pass `max_runs` by one; `BoundedStops`
  holds because the next run sees the new count.
* A run in flight during an edit writes the old schedule's next run over the edited one.
* Any error while the endpoint is read counts as "endpoint deleted" and fails the
  delivery without a retry (`webhook/dispatcher.go:207`).
* An event is lost when its endpoints cannot be listed or its delivery not inserted.
* The pentest lease is one poll interval, 15 s by default, while one call may take
  60 s (`strix/config.go:16`) and a batch has ten runs: two replicas can then hold one
  run, and `start_scan`, which awaits the scope check between lookup and creation, can
  start two scans for one ref. `OneScanPerRef` and its companions need a longer lease.
  So can a scope check slower than the retry: `start_scan` goes on when its caller has
  given up (`strix-service/app/main.py:303`) and creates its scan after the retry has
  looked the ref up in vain. A runtime limit of zero or less disables it
  (`service/pentest_reconciler.go:314`; not modelled).
* A reconciler that holds a copy of a run while an operator cancels it writes the copy
  back and the run lives on (`service/pentest_service.go:214` against
  `service/pentest_reconciler.go:258`); a Cancel that read the run while it was live
  replaces a verdict. A run cancelled before its remote id is stored leaves its scan
  running, and so does a lost answer to Start followed by a failure.
* The runtime limit counts the time a scan waits in the workstation's queue. A crash
  between `Finalize` and the board leaves the card in progress. A cancel between the
  start of `_execute` and the registration of its process stops nothing.
* `rotateKV2` takes any error of its first read for an empty path and then writes
  without check-and-set: a read that fails for another reason replaces the live secret
  by the rotated keys alone (`secretsrot/rotate.go:441`, `secretsrot/client.go:127`). It
  retires nothing then, so the other keys stay in the version before.
* A run pushes only its own keys (`secretsrot/rotate.go:331`, `392`, `539`), while a
  rollback writes all of the old version: a rollback for one key, or a rotation of one key
  after a failed one of another, completes and leaves its targets behind Vault for the
  other keys. A rotation launched without targets retires the old version and pushes
  nothing (`:535`).
* A rotation cancelled during the dual window ends `failed`, one cancelled elsewhere may show
  `running` again until its end, and `CancelRun` can replace `completed`. A request
  whose new_secret_json does not parse leaves a queued row for ever. A rollback after
  an ExternalSecret that never changed reports a failure (`secretsrot/propagate.go:576`).
* A draft approved twice, or again after a lost answer of Gmail, is sent twice. A
  Reject or a second sync that overlaps a send leaves a mail that went out recorded as
  rejected, or as a draft to be approved. A further mail in an answered conversation is
  skipped. A conversation left half-way waits until Gmail no longer lists it
  (`service/mail_service.go:583`, `681`); if fifty others are updated meanwhile it is off
  the page the queued pass reads (`:674`), nothing touches it, and it is never taken up.
* Outside the models: a failed sync or token refresh stores the whole connection it has
  read and restores the token of a mailbox disconnected meanwhile
  (`service/mail_service.go:524`); a second request for a pull request can set a finished
  review back to running (`service/review_service.go:76`), and a review whose sidecar
  stops answering is polled for ever (`service/review_reconciler.go:158`).

## 7. What is not modelled

Inside the modelled parts: approval rules and their lookup (whether a call is gated
is a free choice), costs and token caps, several runs of one task, CRUD and lists,
notifications, what a scheduled task does, an edit of `max_runs`, and `Ping`; report
versions and finding events of pentests, parsing of scan results, retention on the
workstation, a disabled runtime limit; the table of webhook backoffs and its index (one
delay); the source `github` and the engines `transit` and `database` of the
rotation, and values that are not strings; the mail connection (OAuth, tokens, watch
rules, lease) beyond whether Gmail can be reached, and the notes on the task that launched
a sync. Steps
of one workflow with the same name are excluded. Beyond them: the components
PROJECT.json marks `not_modelled`, with the reason.

## 8. Plan

In order of importance; each with its own MC module and run.

1. **ExecutorLoop** — iteration, cost and token caps, fallback, gated calls of one
   native turn, and what a resume carries over.
2. **TaskBoard** — two runs of one task against the card; composes with
   `ApprovalFlow`'s mirroring and with the specialists' `SyncBoard`.
3. **Reconcilers** for review and blog, which share the shape of `PentestRun`; a review
   poll has no limit, so its liveness differs.
4. **MailConnection** — tokens, revocation and the whole-row updates that can restore a
   disconnected mailbox.
5. **ChatConfirm**, **MarketingGate**, **LiveEvents** (bounded queues), **Auth**
   (refresh tokens).
6. Proofs: the safety halves of the other liveness properties, as for the workflow
   engine (a bounded rank, and no state in which nothing can move); the remaining
   claims as leased jobs.

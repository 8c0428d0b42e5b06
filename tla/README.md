# TLA+ models and proofs for buildd

buildd is a task queue for AI agents. People, missions, schedules and webhooks file *tasks*; runner
daemons *claim* them over HTTP, run an agent on each and report back. This directory models who works
on what (the lease a worker holds on a task and everything that can end it), what waits for what
(dependencies), what plans the work (missions and their schedules), what becomes of a pull request (reviews,
retries, automatic merge), who may refresh the credentials the agents run on, and the runner's side: how
it takes work, one worker with its sessions, and the queue of its reports. The models are checked with TLC on small instances;
every safety property the passing runs check, and the two refinements, are proved with TLAPS for every size; liveness is
model-checked.

Paths below are relative to `src/`.

## 1. The system

| Component | State it keeps | Operations | Talks to | What is hard | What makes it correct |
|---|---|---|---|---|---|
| Task claim (`apps/web/src/app/api/workers/claim/route.ts`) | `tasks.status`, `workers` rows, `accounts.activeSessions` | `POST /api/workers/claim` | runner (poll, push), clean-up (every claim begins with it) | a dozen SQL statements, each its own transaction; many runners at once; crashes in between | one worker per task; caps; nothing claimed is forgotten |
| Worker reports (`.../api/workers/[id]/route.ts`) | same rows, costs, milestones | `PATCH /api/workers/[id]` | runner, outbox replays | late, repeated and concurrent reports; hooks that run once | one outcome per worker; ended workers stay ended |
| Human overrides (`interrupt`, `reassign`, `recover`, `api/tasks/[id]`) | same rows | take over a review, force a task free, cancel, reopen, close, recover | UI, MCP | race with reports and claims | takeover excludes the report; cancelled stays cancelled |
| Clean-up (`lib/stale-workers.ts`, `api/tasks/cleanup`, offline check of `api/cron/schedules`) | same rows | expire silent workers, put tasks back, find orphans, expire stuck questions | claims, runners (every 30 min), cron | reads and writes minutes of work apart, writes by id | dead workers' tasks come back; live work is left alone |
| Runner outbox (`apps/runner/src/outbox.ts`) | queue in memory, mirror on disk, timer | enqueue, flush, clear, load | server | callbacks between the awaits of a flush; restarts | latest update per worker wins; queue drains |
| Dependencies (`lib/task-dependencies.ts`, `lib/claim-gates.ts`) | `tasks.dependsOn`, `parentTaskId` | resolve, wake dependents, cascade a failure, aggregate children | claim gate, mission loop | two children ending together; recursion; blind updates | no wake-up lost; one aggregation; only dependents of a failure fail |
| Mission loop (`lib/mission-run.ts`, `lib/mission-loop.ts`, `lib/approve-plan.ts`, `lib/mission-evaluation.ts`) | `missions`, cycle numbers in task contexts | run, retrigger, complete, reopen, approve a plan, evaluate | dependencies, cron, schedules | debounce, read-then-insert, several triggers | one planner at a time; no mission stalls silently; bounded cycles |
| Task loops (`lib/loop-dispatcher.ts`) | `loopState`, `loopIteration`, history | evaluate the exit condition, re-queue or stop | reports, GitHub webhook | evaluated once per iteration from two sides | at most `maxLoops` iterations |
| Schedules cron (`api/cron/schedules`) | `task_schedules` | create due tasks, defer, alert | missions, claims | overlapping runs, crash after the compare-and-set | at most one task per due time |
| Claim breaker (`apps/runner/src/claim-breaker.ts`, `workers.ts`) | pauses per credential context and global | poll, push, start, pause, resume, skip | server, Pusher, timers | slots read before the request; deadlines set by several paths | the limit on workers is kept; a pause is not lost |
| Runner workers (`apps/runner/src/workers.ts`, `worker-sync.ts`, `recovery.ts`, `worker-store.ts`) | local workers, disk copies | start, sync, probe, abort, restore, evict | server, agent SDK | restarts, aborts racing completions | every session is reported in the end |
| Agent back ends, hooks, prompts, worktrees | SDK sessions, git worktrees | run an agent | processes, git | external behaviour | not a protocol of this code |
| Credentials (`lib/*-credential.ts`, `lease-expiry-guard`, runner `broker.ts`) | encrypted tokens, `credential_leases` | lease, refresh, alert | OAuth servers | rotating refresh tokens used twice revoke each other | one refresher at a time |
| Budgets | monthly and mission costs, walls | charge, exhaust, fail over | claim, reports | compare-and-set under contention | no charge lost, alerts once |
| Reviews, CI and conflict retries | retry tasks, counters in contexts | spawn a follow-up | reports, webhooks | duplicate triggers | one follow-up per cause, bounded |
| Pull requests and release | PR state mirrored from GitHub | webhook, reconcile, auto-merge, release | GitHub | missed or repeated webhooks | mirror converges |
| Intake, knowledge, artifacts, auth, teams, connectors, UI | rows, documents | CRUD, matching | everything | — | not modelled: no protocol state |

Interaction is by shared rows in Postgres. The web server is stateless and uses the `neon-http`
driver, which has no interactive transactions: a request is a sequence of single-statement
transactions at READ COMMITTED, and any other request can run between two of them. A serverless
function can also be stopped between two statements. Runners learn of tasks by polling and Pusher, and
report by `PATCH`; what cannot be sent goes to the outbox.

`PROJECT.json` lists the hazards found in this code, each at its line, with the properties that
cover it or the reason why none does.

## 2. Modules

| Module | Models | Kind |
|---|---|---|
| `TaskLease.tla` | claim, report, override and clean-up routes over the rows of one account | specification, properties |
| `Lease.tla` | what anyone may rely on about who acts for a task | abstract specification |
| `MCTaskLease.tla` | instances and symmetry for TLC | model |
| `TaskLeaseProofs.tla` | type correctness, one outcome per worker, how far the worker cap can be overshot, a task has one holder, `TaskLease` implements `Lease`, seats go back | proofs |
| `Outbox.tla`, `MCOutbox.tla` | the runner's outbox | specification, properties, model |
| `OutboxProofs.tla` | type correctness, one PATCH per worker, no entry left behind | proofs |
| `TaskDeps.tla`, `MCTaskDeps.tla` | dependsOn gate, wake-up, failure cascade, pull requests | specification, properties, model |
| `TaskDepsProofs.tla` | type correctness, no lost wake-up, no task stranded behind a failure | proofs |
| `MissionLoop.tla`, `MCMissionLoop.tla` | one mission: planning loop, plan approval, aggregation, schedule cron | specification, properties, model |
| `MissionLoopProofs.tla` | type correctness, retries, no orphan work | proofs |
| `CredentialLease.tla`, `MCCredentialLease.tla` | one rotating OAuth credential, its lease and all its refreshers | specification, properties, model |
| `TokenChain.tla` | what a team may rely on for such a credential | abstract specification |
| `CredentialLeaseProofs.tla` | type correctness, the token chain, no false alarm, `CredentialLease` implements `TokenChain` | proofs |
| `RunnerWorker.tla`, `MCRunnerWorker.tla` | one worker inside a runner, with its sessions and its row on the server | specification, properties, model |
| `RunnerWorkerProofs.tla` | type correctness, errors are reported | proofs |
| `RunnerClaims.tla`, `MCRunnerClaims.tla` | how a runner takes work: polls, pushes, limit on workers, Codex one at a time, pauses after failures | specification, properties, model |
| `RunnerClaimsProofs.tla` | type correctness, the limit, Codex, pauses | proofs |
| `PullRequest.tla`, `MCPullRequest.tla` | one pull request: deliveries of GitHub, CI and conflict retries, reviews, automatic merge, reconciliation | specification, properties, model |
| `PullRequestProofs.tla` | type correctness, one follow-up per commit, merges that are allowed | proofs |

The modules meet where the components do. `TaskLease` writes task statuses statement by statement;
`TaskDeps` and `MissionLoop` take such a write as one action and model what it sets off. `TaskDeps` has the
dependsOn half of `resolveCompletedTask()`, `MissionLoop` the parent/child half. `RunnerWorker` sees the
server as one row that accepts or refuses a report (`Accept`, the head of the PATCH handler that
`TaskLease` models in full), `RunnerClaims` sees it as one that grants rows or none; `Outbox` has the reports that could not be sent at once. `TaskDeps` asks what the
end of a pull request does to the tasks that wait for it, `PullRequest` what happens until then.

### TaskLease and Lease

*State.* `task`, `status`, `of`, `seats` are the columns `tasks.status`, `workers.status`,
`workers.task_id` and `accounts.activeSessions`. `sealed[w]` abstracts `workers.error` to the one thing
the code asks of it: does it forbid reactivation ("expired", "timed out", "went offline", takeover)?
`quiet[w]` abstracts `workers.updatedAt`: it is older than the thresholds of the clean-ups. `known[w]`:
the runner has received the claim's answer, so it can report on `w`. `proc[p]` is a request in
progress: the statement it is about to run and what it has read. `granted`, `reopened` and
`disturbed` are auxiliary: they record history for the properties and no action reads them.

*Actions.* One action per SQL statement, or per read on which the handler branches, named after what
it does; `PROJECT.json` ("map") gives the lines of each.

- Claim: `ClaimBegin`, the sweep (below), `ClaimCount` (both limits), `ClaimSelect`, `ClaimTask`
  (compare-and-set, or skip, or fail a task pinned to a missing project), `InsertCount` and `InsertRow`,
  `Rollback`, `Sessions`.
- Report: `ReportRead` (409 for an ended worker unless it is reported running and its error allows
  it), `Reactivate`, `Reserve` (compare-and-set of a terminal status), `Outcome`, `Release`, `Write`
  (the final conditional UPDATE), `Seat`, `LateFail`.
- Overrides: `InterruptRead`, `Interrupt`, `Takeover`; `ReassignRead`, `Requeue`, `Evict`; `Cancel`,
  `Reopen`, `CloseRead`, `Close`; `Recover`.
- Clean-up: `SweepBegin`, `SweepRead`, `Expire`, `SweepSeats`, `SweepOthers`, `ResolveRead`, `Settle`;
  sections 1, 2, 4, 5 and the cron: `StalledRead`, `StalledFilter`, `Reset`; `OrphansRead`, `OrphanRead`,
  `Adopt`; `StuckRead`, `StuckWorker`, `StuckTask`, `StuckSeats`; `OfflineRead`, `ResetAll`.
- Environment: `Crash` ends a request between two statements; `Age` lets minutes pass for a silent
  worker. `Age` needs that no request concerned with the worker is in progress: thresholds are 10
  minutes and more, requests last seconds.

`InsertCount`/`InsertRow` split one SQL statement in two because under READ COMMITTED its `count(*)`
sees only what was committed when it began. Choices that depend on data left out (what the worker
delivered, retry counts, exit conditions, the result of a release, gates that defer a candidate) are
nondeterministic over the outcomes the code can write. Every terminal status of a report, `error` too, is followed
by the write of the task.

*Bounds.* `Workers` bounds the worker rows ever inserted and is the only bound in a guard (`RowsLeft`);
a claim needs a free row for each insertion under way. `Requests` selects which kinds of request
arrive in a run.

*Abstraction.* `Lease` knows neither rows nor statements: a task is open, held by one request or worker, closed, or
loose. A request takes it, hands it to the worker it starts, takes it back when that worker reports its end, and
settles it; only the one who has it in hand opens it again, and what is closed stays closed.
`TaskLease!Abstract` instantiates it with `LeaseOf`: loose is a `disturbed` task (below), of which nothing is
promised until it is taken anew; open is `pending`; held is any other task with holders; closed has none, because
it has ended or because its holder died. Where `OneLease` speaks of one state, the refinement speaks of
steps: a task does not go from one worker to another, nor from closed to open, without a disturbance in between.

### Outbox

An action is the code between two `await`s. The point of the module is array identity: `flush()` iterates
over the array `this.entries` named when it began; a `PATCH` enqueued meanwhile makes `this.entries` a new
array, a `POST` is pushed onto the old one; the flush ends by assigning what it kept. `shared` tracks
whether the two are still the same array. `Restart` reloads what was last saved. The filter of `enqueue()` is a recursive
function, so that it can be reasoned about. `MaxRequests` bounds the requests made in a behaviour.
A replay need not answer: it is a `fetch` without a timeout (`apps/runner/src/index.ts:580`), and while it hangs no timer is armed (`Wedged`).

### TaskDeps

*State.* `deps`, `status`, `loop` are `tasks.depends_on`, `status`, `loop_state`; `held`: a worker of the task
is still to report its end; `prs`: its pull requests, from open to merged on GitHub (`landed`) to stamped in
the worker row (`merged`). `work[p]` is a resolution in progress: its next statement, what it has read,
and the loops of the recursive cascade still to be continued (`stack`). `told` and `silent` are auxiliary:
a runner was told of the task while it could claim it; something wrote the task and resolved nothing.

*Actions.* Requests: `Create`, `Claim`, `Report`, `EditStatus`, `Reassign`, `CiExhausted`. Pull
requests: `OpenPr`, `MergeOnGitHub`, `Stamp` (our merge route), `Webhook` and `WebhookCompletes`, `Close`,
`Reconcile`. A resolution: `Resolve`, `Cascade`, `Fail` (one dependent, then its own resolution),
`LoopEnds` (the innermost loop is exhausted), `Dependents`, `States`, `Wake`; `AdvanceLoop` for a loop that waits for a merge.

*Silent requests.* PATCH of a task to completed or failed, exhausted CI, and the reconcile cron write
and resolve nothing, and the webhook looks at the dependents (`webhook/route.ts:682`) before it writes
'completed' (:698). The properties name them; the hourly poll of the runners is the only backstop.

### MissionLoop

*State.* `status`, `fresh` (`updatedAt` is younger than the debounce), `lastEval` are the mission's columns,
`sched` its schedule, `tasks` its rows with kind, parent, trigger chain, status and result. `jobs` is the list of
asynchronous functions in progress, one SQL statement or run of reads per step. `counted` and `raced` are
auxiliary. `requests` selects the outside requests of a behaviour.

*Actions.* Outside: `Report`, `File`, `Cancel`, `PatchMission`/`WriteMission`, `RaiseBudget`, `CronStart`,
`Tick` (ten seconds pass). After a task: `Resolve`, `InsertAggregation`, `Approve`, `InsertChild`. The loop:
`Debounce`, `Decide`, `Finish`, `Disable`, `CountFailures`, `Run`, `InsertPlanner` (under the unique index on open
planners), `Evaluate`, `InsertEval`, `MarkEval`, `Verdict`, `Reopen`, `Enable`. The cron: `CountSlots` and
`Defer` (a task of the schedule is still open, or no seat is free), `TakeSlot`, `Linked`, `CronInsert`, `CronCatch`. `Approve` may refuse
any plan, as the code does a circular one.

*Left out.* The mission plans by itself, depends on no other, has no `maxConcurrentTasks`; a failed task is not put back to pending
by the automatic retry of its report (section 5); failures fall within the hour they are
counted in; consecutive reads of a job are one step. Bounds: `MaxPlan` steps of a plan, `room` rows,
`MaxJobs` jobs started from outside.

### CredentialLease and TokenChain

*State.* The `secrets` row (`row`: id, refresh token, the lock that is `last_refreshed_at`, health), the
`credential_leases` row, each broker's `granted` answer and `managed` entry, `call[r]`, the refresh in progress
of a broker, the server or verify, `guard` (the expiry cron has read a lapsed lease), the
`auth.json` of Codex workers, and the provider: only the latest token, `issued`, can be redeemed. `lost` is auxiliary:
an issued token was never stored.

*Actions.* `Acquire`, `Manage`, `Heartbeat`, `Lapse`, `GuardRead`, `GuardDelete`; `BrokerLock`, `ServerLock`,
`VerifyRead`; `Redeem`, `RedeemUnheard`, `RedeemFails`, `Reject`; `Commit`, `CommitFails`, `Revoke`; `SeedHome`,
`CliRefresh`, `WriteBack`; `Store`, `Disconnect`, `EndSession`, `BrokerStops`, `ServerDies`. `LockOpens` (an hour passes, or a
quarter after a failure) needs that no refresh is in progress: requests last seconds. That assumption about time
carries the safety of the whole scheme, since nothing but the lock keeps two refreshers apart: the lease only says who tries.

`TokenChain` mentions no lease: the chain is none, whole, moving or broken, and an alarm is raised only when
it is broken. `CredentialLease!Abstract` instantiates it with the refinement mapping `Chain`, `Alarm`; a Codex
credential, for which the promise is false, is mapped to none.

### RunnerWorker

*State.* The worker's `status` in memory and on `disk`; `current`, the generation in the `sessions` map; `session[g]`, where each
session started for the worker is in `startSession()`; `starts`, callers about to call it; `inbox`, pushes
and abort answers under way; `remote`, the row on the server (`dropped`: it is live,
and the reconciliation has failed the worker here); `look`, what a look-up has answered; `subscribed`, the Pusher channel.

*Actions.* A step is the code between two awaits. Sessions: `EndFailed`, `EndWell`, `Complete`, `LeaveQuietly` (superseded),
`Throw`, `CatchCompleted`, `CatchFailed`, `Cleanup`, `DeleteEntry`, `Return` (with the fall-back of a failed
resume), `Ask`. Requests: `Claim`, `Defer`, `AbortRequest`, `Retry`, `Doctor`, `FollowUp`, `Answer`, `MarkDone`,
`StartSession`, `NoWorkspace`. Server: `AgentCompletes`, `ServerFails`, `Sync`, `AnswerFinished`,
`AnswerTerminated`, `PushCompleted`, `PushFailed`. Timers and faults: `CheckStale`; `LookUp` and, after
its await, `Reconcile` (the worker or its task has ended) or `ReconcileUnknown`; `Persist`, `RestartProcess`. `MaxSessions` bounds the sessions, `MaxFaults` restarts and failed
look-ups.

### RunnerClaims

*State.* `status` and `outcome` (what `worker.error` says, or that the credential has proved good) of the workers in memory;
`ending`, sessions between their end and the breaker at the end of the finally block; `labelled`, the keys of
`workerAuthContexts`; `request`, the claims under way, with the slots they asked for and the workers of the answer still to be started;
`claimsPaused`, `left` (of `claimsPausedUntil`), `quick`, `authFailures`, `contextLeft`: the breaker. `resumed`, `owed`, `shortened` and the field
`alone` are auxiliary. Deadlines are countdowns; `Tick` lets a unit of time pass.

*Actions.* Claims: `Poll`, `Push`, `Choose`; `Grant`, `Refuse`, `Exhausted`; `Start`, `Defer`, `Unresolved`, `Skip` for the next worker of an answer; `Abandon`, an
exception that ends the claim and leaves the rest of its answer neither started nor refused. Sessions:
`Ask`, `Resume` (an answer, a follow-up or a retry), `Clean`, `Complete`, `Fail`, `Purge`, `RateRejected`. Breaker: `SettleAuth`, `SettleContext`,
`SettleGlobal`, `SettleRapid`, `SettleOther`, `SettleDone` (which polls). A failure's class is a free choice of `Fail`: how a message is classified is text.
What is pushed carries no context (`task-dispatch.ts:168-183`), hence `Push` asks for a pause of the account.

*Left out.* Accepting remote tasks switched off, `maxConcurrent` changed, a restart (all pauses are forgotten), a worker marked done by hand, a
superseded session that ends after its successor began, a follow-up whose workspace is gone, several tenants. Bounds: a worker is
resumed once (`Resume`), `MaxPause`, `MaxFailures`.

### PullRequest

*State.* GitHub's side: `suites`, for each commit of the branch the states of its check suites; `dirty`, the head
conflicts with the base; `pr`. The server's side: `tasks`, the task that opened the pull request and every
follow-up, each with its one worker, the counters `iteration` and `conflictIteration` of its context, the commit
(`sha`) it is for and what its worker knows of the pull request (`owns`, `mergedAt`). Under way: `sent`, deliveries
and verdicts still to be handled, in any order; `merging`, automatic merges past their checks; `checking`,
reconciliations between read and write. `told`: commits a human was notified of. `setting` is what does not change: the policy,
the suites, `requiresReview`, and whether the task has a mission.

*Actions.* `Tell` is a notice to the mission, so without a mission it tells nobody; `Alert` goes to the operator in any case. GitHub and people: `SuiteEnds`, `BaseMoves`, `PersonEnds`, `Lose`. Deliveries, through `Deliver`: `Opened`,
`SuiteSucceeded`, `SuiteFailed`, `Closed`, and `Outcome` of a review. Any owner of the pull request may be the worker that is found, since
the look-up has no order. `TryMerge` and `ConflictRetry` are parts of these handlers; `Merge` is the call to GitHub,
some requests later than the checks; GitHub may refuse it, because of a conflict (which is retried) or for another reason (which is only logged). Workers of the follow-ups: `Push`, `Report`, `ReviewEnds`. Reconciliation: `Refresh`
(only stamps), `ReadState` and `WriteState` (write what was read).

*Left out.* Drafts, `prLifecycleStatus`, the size and path thresholds (a choice in `TryMerge`), GitHub calls that fail other
than the `Faults`, a delivery that overtakes the report of the number. The suites of a commit are known when the pull request is opened.
A person who merges through the server (`prs/[prNumber]/merge`, `github/pr`) is `PersonEnds` followed by `Refresh`; that
these routes, too, dispatch a conflict retry is left out because of the number of states.

## 3. Runs

Passing runs:

| Run | Instance | Shows |
|---|---|---|
| `lease` | 1 task, 2 workers, 2 requests; claim, report, edit, stuck questions (2.0 M states) | `OneLease`: at most one holder, none while pending; `OneOutcome`; `GrantedIsTerminal`; `SeatsReturned`: with no request in progress every taken seat is some live worker's |
| `override` | same size, a review task; claim, report, interrupt, reassign, recover (2.4 M) | takeover and report exclude each other; a forced reassign does not break `OneOutcome`; `KeepsLease` (refinement of `Lease`) |
| `cap` | 2 tasks, 3 workers, cap 1 (0.8 M) | `CapOvershoot`: the cap can be overshot by one worker less than there are concurrent requests, never more |
| `limbo` | 1 task, 1 worker, 2 requests; claim, report, sweep, every clean-up section, cron, crashes (0.2 M, liveness) | `NoLimbo`: an assigned task that nobody works on does not stay so |
| `outbox` | 1 worker, 1 save endpoint, 2 flushes, 3 requests (1.2 M, liveness) | `OnePatchPerWorker`, `Serviced` (always a timer, a flush or a start-up flush), `Drains`: the queue drains unless a replay never answers |
| `deps` | 3 tasks, a chain that is also a diamond and a cycle, 1 loop, 1 task with a pull request, 1 edit, 2 resolutions (0.4 M, liveness) | `NoLostWakeUp`: a claimable task was told to the runners; `NoStranded`: no task waits for a failed one; `ResolutionsEnd`, on cyclic graphs too |
| `missions` | a mission whose planner runs, or whose plan of two steps is approved; up to 2 more rows, 2 jobs from outside, 5 sets of clients (1.6 M, liveness) | `RetriesBounded`; `NoOrphanWork`: a completed mission has no open work that nobody reopens it for; `ScheduleSettles`: its schedule is switched off in the end, unless the schedule's own open task or missing seats put the cron off |
| `credentials` | 2 brokers, 1 Codex worker, 3 tokens, 2 log-ins (1.0 M, liveness, deadlock checked) | `TokenKept`, `RevokedIsDead`, `KeepsChain` (refinement of `TokenChain`), `OneManager`: brokers that lost the lease notice |
| `worker` | 3 sessions, 1 fault, Claude or Codex (1.4 M, liveness) | `NotForgotten`: what failed here has ended on the server, or the reconciliation dropped it; `NoZombie`: no worker stays working with nothing running; `Reconciled` |
| `claims` | 2 Codex workers, one of a tenant, 2 claims, limit 2, pauses of 1 and 2 (2.6 M, deadlock checked) | `TypeOK` with `HandedOK`: only an exception forgets a worker of an answer; `SlotsKept`: a claim that overlaps with no other keeps the limit; `OneCodex`; `BackoffKept`: the pause for auth failures is not lost |
| `pulls` | 2 commits, 4 tasks, limits of 1, 6 settings, with and without a mission, lost close deliveries, check runs that cannot be read (0.2 M, liveness) | `OneFollowUpPerCommit`; `MergeAllowed`: a merge under way is of a green or an approved commit; `GreenIsTried`: a green head is put to GitHub or the mission is told; `RedIsAnswered`; `MergeIsLearned`: every worker of a merged pull request is stamped in the end |

Runs that refute a statement of the repository (section "findings" of `PROJECT.json` has the quotes):

| Run | Property | What happens |
|---|---|---|
| `held` | `HeldForPeople` | CI of a task that requires review fails; the retry task does not inherit the requirement; its worker pushes and has the same pull request; the green suite finds that worker, whose task allows the automatic merge |

*Why these bounds.* Every step of a request concerns one task and one worker, so a conflict needs
two requests, and two workers show a task passing from one to the next while the first request is still
in progress. A third request adds interleavings of pairs already explored; the proofs below cover any
number. The cap needs two tasks and, to exceed a cap of one by two, three rows. Each run leaves out
kinds of request that another run has: together they have all of them, and every action fires. The clean-ups and crashes run
with one worker, in `limbo`; that they break neither `OneLease` nor `OneOutcome` is proved for any number.
`CHECK_DEADLOCK FALSE`: a finite supply of worker rows, all ended, and a finished task leave nothing to do.

For `deps` three tasks are the smallest graph with a join (two dependencies that end together) and with
a cascade of two levels; two resolutions race. `missions` starts from two stages of a mission instead of running one
through all of them, so one or two more rows suffice for every transition; with a retry limit, a cycle limit and a pause limit of
2 each limit is reached. In `credentials` a third token shows a successor of a successor stored late, a second row a
log-in under refreshes of the old row; two brokers and the server are three refreshers. In `worker` a third session
shows a retry of a retry while the first is still in its finally block. In `claims` two workers and two
claims overlap in every way a pair can; a pause of 2 can be overtaken by one of 1, and the second auth failure has the longest. In `pulls` one retry of each kind
reaches the limits; four tasks are the opener, a review and two follow-ups, so that two or three workers have the pull request; two suites
let one end while the other runs.

*OneLease and `disturbed`.* What the code guarantees of a task's single holder is weaker than one
would like: expiry by id, reassign, recover and reactivation write without looking. Such a step marks its
task `disturbed`, and the mark is cleared by a claim made while no worker is live on the task and no
other request is engaged with it. For tasks not so marked the lease is exclusive under any interleaving of
claims, reports, takeovers, cancellations and crashes. The exemption is needed: two sweeps
can expire the same worker, one put the task back, a runner claim it, and the other put it back again under the new worker.

*Fairness.* `TaskLease!LiveSpec`: a request that does not crash runs its next statement (weak fairness of
`Step(p)`). The runners call the clean-up every half hour for ever (`apps/runner/src/workers.ts:488`), so
the orphan check arrives again and again, finds, at some time, an orphan that was assigned two hours ago, and
at some time is not stopped before it has written (strong fairness of `OrphansRead`, `Adopting`,
`Adopted`). Crashes are not assumed to end. `Outbox!LiveSpec`: timers fire and a flush that has no
replay left ends; no replay need answer. `Drains` speaks of behaviours in which the runner stops making requests and restarting, and exempts
those in which a replay hangs for ever.
`TaskDeps!LiveSpec`: a resolution runs to its end. `MissionLoop!LiveSpec`: the oldest job goes on (no job waits
for another), and the cron, called every minute, finds the mission again and again (strong fairness of `CronStart`,
because other jobs may occupy the bound when it comes); `ScheduleSettles` assumes that, in the end, seats no longer put the cron off (`SeatsSuffice`). `CredentialLease!LiveSpec`: the heartbeat timer of a running
broker fires. `RunnerWorker!LiveSpec`: the reconcile timer fires, its look-up has an end (it has a timeout), and `checkStale()` finds a worker that is idle for
good; nothing is assumed of pushes, of the server or of the user. `PullRequest!LiveSpec`: a delivery that is not lost is
handled, a merge under way ends, and the daily reconciliation looks at every worker without a stamp; nothing is assumed of
CI, workers, reviewers or people. `GreenIsTried` and `RedIsAnswered` hold because only deliveries of the end of the pull request are
lost in this instance: nothing repairs a lost suite.

## 4. Proofs

Of `TaskLease`, for arbitrary `Tasks`, `Workers`, `Procs`, caps and kinds of request, from the assumption
`LeaseAssumption` alone (finite sets, natural limits, distinct names; the last theorem restricts the kinds of request):

- `TypeCorrect == Spec => []TypeOK`. `TypeOK` is inductive because it contains `Sound`, which ties what a
  request has read to the statement it is about to run: for example a request about to reserve has read
  a live status and carries a terminal one. Without it a status could be written that no column admits.
- `EndedStaysEnded == Spec => []GrantedIsTerminal` and `OutcomeOnce == Spec => []OneOutcome`. The
  strengthening says where the auxiliary `granted` is true: a request past the
  reservation belongs to a granted worker, and a granted worker is terminal. A second reservation needs the
  status it has read, a live one, and so fails.
- `CapBounded == Spec => []CapOvershoot`. With `TypeOK` the property is inductive. The number of live
  workers plus that of requests that have counted and not inserted grows only at the count, which
  requires fewer live workers than the cap; there are never more such requests than requests. Insertion moves
  one from the second set to the first; every other step shrinks both or sets `reopened`.
- `HeldByOne == Spec => []OneLease`. `OneLease` lacks three facts about requests in progress (`Fits`): a report's request
  names the task of its worker, whose row exists; a report about to make an ended worker live again has marked its
  task `disturbed`; a person's close writes an end, never `pending`. The holder of a task is handed on: from the claim that took it, to the
  row it inserts, to the report that ends that row. A step keeps the invariant if it only moves its request and takes nothing (`MoveKeeps`);
  the three steps that take a task, or put it from one hand into another, are `TakingKeeps`,
  `InsertionKeeps` and `ReservationKeeps`. A claim clears the mark only when nobody is engaged with the task, so what the mark
  excused is over by then.
- `LeaseKept == Spec => KeepsLease`, the refinement of `Lease`, with the same invariant. What is proved of each step in
  `HeldByOne`, that it keeps the invariant, says nothing of where the task came from; `LeaseMoves` and the four lemmas just named therefore
  show both at once, the invariant in the next state and a move of `Lease` for every task. A step that marks a task `disturbed` is
  `Loosen`, whatever else it writes.
- `SeatsGoBack == Spec => []SeatsReturned`, if the requests that arrive are among `Returning`: claims, reports, edits, recoveries, the
  sweep of silent workers, orphaned tasks and stuck questions. The hypothesis is needed: an interrupt, a forced reassign, the clean-up of stalled
  workers, the offline check, the cron and a crash end a worker and never release its seat. A seat is taken only when a claim counts its
  sessions, after the rows are in, and given back some statements after the worker ended, so the invariant says for whom each seat is still
  *owed* (`Books`: no more seats than workers in `Owing`): a worker the runner knows of that is live, or whose end a request in progress is still
  to release. `Delivery` and `Unheard` say that an inserted worker belongs to exactly one claim until its runner knows of it, so that it cannot
  be reported, or go silent, before its seat is counted; `Ledger` that what a request ends or releases is known. Two requests may be about
  to release the same seat (a sweep and a report): the bound stays true, the counter is clamped at zero, and the other direction
  (`seats` at least the live workers) does not hold.

Of `CredentialLease`, for arbitrary `Brokers`, `Workers`, `MaxTokens`, `MaxRows`, from `CredentialAssumption`:

- `TypeCorrect == Spec => []TypeOK`.
- `ChainKept == Spec => []TokenKept` and `NoFalseAlarm == Spec => []RevokedIsDead`. Neither is inductive.
  The strengthening says, for a Claude credential, that a refresh in progress on the stored row implies the
  lock is taken, that there is at most one such refresh, and what it holds: about to redeem, it has the
  stored token; about to commit, the stored token is the one it redeemed; about to revoke, the chain is
  broken or dead already. A late refresh of an older row is harmless because it names that row's id.
- `Implements == Spec => KeepsChain`. Every step is a step or a stutter of `TokenChain` under the mapping. The
  argument uses the same invariant and that a broken chain of a credential stays broken: its row keeps a token
  that is not the issued one and no refresh of it can be about to store the issued one.

Of `PullRequest`, for arbitrary `Starts`, `Conclusions`, `Faults`, limits and bounds, from `PullRequestAssumption`:

- `TypeCorrect == Spec => []TypeOK`: among others, no follow-up counts more attempts than the limits.
- `FollowedUpOnce == Spec => []OneFollowUpPerCommit`, which is inductive given the type.
- `MergesAllowed == Spec => []MergeAllowed`. A merge and its commit's state are apart in time: a green commit must stay
  green (a suite that has ended does not end again), and an approval must stay one. The latter needs two more facts: a verdict
  under way is that of a review that has it (`VerdictsOfReviews`), and a review never owns the pull request
  (`ReviewsOwnNothing`), so that neither `Closed` nor an exhausted CI overwrites its status. Every step is shown to be
  `Sound`, a step that only adds rows, keeps verdicts and allows what it adds to `merging`; `SoundStep` concludes.

Of `RunnerClaims`, for arbitrary `Rows`, `Requests`, limits and table `Backoff`, from `ClaimsAssumption`:

- `TypeCorrect == Spec => []TypeOK`, with `HandedOK`: a worker the server has handed out is in an answer that is being worked through, until it is
  started, refused, or abandoned by an exception or an answer without its task. What is abandoned stays live on the server until its clean-up finds it stale.
- `LimitKept == Spec => []SlotsKept`. Strengthened with `Lone`: a claim that is alone is the only one under way. Active workers plus those
  the claim may still start do not grow: an answer is no longer than the slots asked for, and starting a worker moves it from one to the other.
- `CodexSequential == Spec => []OneCodex`, inductive given the type.
- `AuthPauseLasts == Spec => []BackoffKept`, inductive given the type.

Of `TaskDeps`, for arbitrary `Tasks` (not empty), `Procs`, graphs, pull requests and bounds, from `DepsAssumption`; nothing is
assumed of the graph, which may be cyclic:

- `TypeCorrect == Spec => []TypeOK`.
- `WakeUps == Spec => []NoLostWakeUp`. The property speaks of moments when nothing is being resolved. `Awake` says what holds at every
  moment: a claimable task that was not told, and has no excuse, is one some resolution is going to tell (`Waking`: it resolves one of
  the task's dependencies, or has read the task among the dependents). The wake-up reads statuses and pull requests in several
  statements; what completes in between starts a resolution of its own, which takes over.
- `FailuresCascade == Spec => []NoStranded`. `Cascading` likewise: a task blocked by a failed dependency is queued in some loop of a
  cascade, at whatever depth of its stack, or the dependency's own resolution has yet to read its dependents. `Stacked` ties the
  stack to the statement, so that no loop is dropped when the inner one returns.

Of `MissionLoop`, for arbitrary stages `Starts`, clients, limits and bounds, from `MissionAssumption` (which states the shape of `Starts`):

- `TypeCorrect == Spec => []TypeOK`, with `Aimed`: the task a job reads is there.
- `FewRetries == Spec => []RetriesBounded`. Two failed planners can be counted by two jobs at once before either retry is inserted, and
  each sees the same number of failures. It does no harm because a failed planning task is a ticket for one retry: it is
  held by one job from its resolution to the insertion of the retry (`Tickets`: retries and held tickets together are no more than failures,
  and retries with granted ones less than the limit), so that a count of failures bounds the retries made and still to be made.
- `NoOrphans == Spec => []NoOrphanWork`. Strengthened with `Settled`: a job about to complete the mission because its work had ended
  still finds it so, or work was added since and `raced` says so.

Of `RunnerWorker`, for arbitrary `MaxSessions`, `MaxFaults`, from its assumption:

- `TypeCorrect == Spec => []TypeOK`. It needs `Budget`: sessions started, resumptions that may open a second session and
  starts that are due fit together under the bound, so that no session is ever started outside the map.
- `ErrorsReported == Spec => []NotForgotten`. `Reported` drops the premise that nothing is under way: without faults every path reports
  before it shows the error, or takes it from the server, or is the
  reconciliation, which reports nothing: it may end a worker whose row is live because the task has ended, or because the row was reactivated after
  the look-up. Such a worker is `dropped`, and the property says that no other path leaves a row behind.

Of `Outbox`, for arbitrary `Workers`, `Saves`, `Flushes`, limits and bounds, from `OutboxAssumption`:

- `TypeCorrect == Spec => []TypeOK`.
- `OnePatch == Spec => []OnePatchPerWorker`. A flush puts back what it kept in place of the queue, so each flush must hold something that
  could be a queue: `Mergeable` says that what it kept and what it has left are free of duplicates, and each other's. The deduplication is
  a recursive function; what it keeps of a queue of any length (`FilterKeeps`) is proved by a least counterexample, from
  the well-foundedness of the naturals, since the library's induction theorems cannot be used.
- `AlwaysServiced == Spec => []Serviced`, inductive given the type.

Only model-checked: the liveness properties (`NoLimbo`, `Drains`, `ResolutionsEnd`, `ScheduleSettles`, `OneManager`, `NoZombie`,
`Reconciled`, `GreenIsTried`, `RedIsAnswered`, `MergeIsLearned`), because liveness under fairness (and `ENABLED`) is out of reach of the
installed provers. No module with theorems uses a `RECURSIVE` operator.

## 5. Not modelled, and what that means

- Other writers of `tasks.status` in `TaskLease`: GitHub, Linear and loop webhooks, webhook ingest, approve-plan,
  subject intake, task dependencies. Like the overrides they write by id; they would mark a task disturbed.
- Other gates of a claim (roles, capabilities, budgets, path overlap, caps per mission and workspace, one Codex
  worker per workspace). They only defer candidates. Caps among them are read once per request and race as the
  worker cap does.
- More than one account; statuses `starting` (never written) and heartbeat rows.
- Missions that depend on others, that are planned by hand or limited in concurrency; schedules without a mission.
- Expiry times and encryption of credentials, the bootstrap answer of a broker, connector credentials.
- Eviction of a runner's workers; the settings of a runner changed while it runs; the poller for knowledge jobs.
- Release pull requests and their executor, drafts, checks that never report, the work tracker's view of a pull request.
- In `TaskDeps`: the edit of `dependsOn` (`tasks/[id]/route.ts:205-210`), the graph of a behaviour is constant; and that a report which puts its
  task back to pending also calls `resolveCompletedTask()` (`workers/[id]/route.ts:1388-1390`). Such a resolution could only tell runners of more
  tasks; the properties hold without its help.
- In `MissionLoop`: the automatic retry of a failed task (`workers/[id]/route.ts:1073-1090`, :1133), which puts the row back to pending. A planner so
  retried may be resolved twice, and `RetriesBounded` says nothing of that. Nor is there the early call for a schedule that its own cap deferred
  (`workers/[id]/route.ts:1392`); the cron comes again all the same.
- In `CredentialLease`: a call that lasts longer than the lock (section 2).
- Exit conditions of task loops; budgets; intake, knowledge, artifacts, authentication,
  teams, UI. `PROJECT.json` gives the reason for each component.

*Observed while modelling, without a run of their own.* These follow from the source and appear as behaviours of
the models; the statement they are at odds with, where there is one, is quoted.

- Lease. Two claims count before either inserts and exceed the cap (`claim/route.ts:1243` "This prevents the TOCTOU
  race"; `CapOvershoot` is what holds). A forced reassign keeps the seat of the worker it ends (`workers/[id]/route.ts:1711`
  "every path that moves a live worker to a terminal state must decrement it"). The sweep fails by id a worker reported completed
  since its read, and `resolveStaleTask()` re-queues a task cancelled since its read (`stale-workers.ts:36` "A cancelled task
  must never be re-queued"). Silent workers do not count towards the retry cap. The offline check fails workers of healthy
  runners of the account. Two sweeps expire the same worker and the later one resets the task by id under its
  new one (`docs/specs/mission-task-lifecycle.md:41-42` "A task with an active worker … MUST NOT be reset to `pending` while that
  worker is alive."). A reassign makes the task pending before it fails the old workers. The team's cost is dropped after five
  lost compare-and-sets (`workers/[id]/route.ts:939`). An evicted worker may be reactivated. `attemptStaleRecovery()` is not called.
- Outbox. `flush()` ends with `this.entries = remaining`: a `PATCH` queued meanwhile can be lost and an older one kept
  (`outbox.ts:79` "keep only latest"). A replay that hangs stops the queue until the runner is restarted (`buildd.ts:20-24` "a request hang forever", of
  requests that have a timeout; the replay has none).
- Dependencies. The claim gate looks at any pull request of a dependency, the wake-up at the latest. The claim gate
  does not ask about `loopState`. The cascade overwrites by id, so a live worker's report can revive what it failed.
- Missions. Two children that end within the debounce leave a mission without a schedule waiting; two that end together create two
  aggregations (`task-dependencies.ts:195` "Guards against duplicate creation"). The stale-aggregator branch is unreachable.
  The chain of planners that execution tasks set off starts anew, so the depth guard does not count them. An evaluation that ends before it is noted in
  the mission loses its verdict. Completion overwrites paused and archived. The cron's insertion fails on the unique index while
  a planner runs, which counts as a failure and pauses a healthy schedule.
  The cron defers a schedule before it looks at its mission, so that one whose planner never ends stays enabled behind a mission that is over. Raising a budget does not re-enable a schedule the cron disabled.
- Schedules and breaker. A cron that stops between taking a slot and inserting its task loses that occurrence. A claim pause is
  overwritten by a later, shorter one (`apps/runner/src/workers.ts:3311`, :3393). Lifting a pause resets the count of auth failures, so that pauses only grow
  for failures of workers that were running together (`credential-cache.ts:105-106` "Each consecutive auth failure doubles the pause window (capped), and a
  credential change / success resets it"). Pushed tasks of a tenant wait for the account's pause and not for the tenant's (`claim-breaker.ts:4-7`), polls ask
  neither. Claims that overlap exceed `maxConcurrent`. A role that cannot be downloaded ends
  the claim, and the other workers of the answer are abandoned (:966-980), live on the server until they are stale. The error of a session over its budget (`workers.ts:2911` "Budget limit exceeded") matches
  no pattern of `classifyClaimError()`. While the flag of a pause that is over still stands, a third rapid failure pauses nothing (:3322).
- Pull requests. The reviewer dispatch asks for the policy without the task, so `requiresReview` does not hold back a reviewer's
  approval (`merge-policy.md:680-681`). A last suite that is neutral or skipped triggers nothing, although
  `allCheckSuitesPassed()` accepts it; a lost suite delivery, or suites that cannot be read, are repaired by nothing. A follow-up's push is not
  reviewed again (`merge-policy.md:300-301` "new PR-opened event → new reviewer task"; only `opened` dispatches one). The merge names no
  commit, so a commit pushed after the checks is merged with them. A conflict retry starts the CI counter anew, and any of several workers may be found:
  `ci-retry.ts` "prevents infinite retry loops" holds per commit. A pull request without CI is not merged
  after a conflict retry. Refusals of GitHub other than conflicts are only logged, and notices of a task without a mission reach nobody: the green head then waits for a person who looks. The reconciliation may write an older, empty `mergedAt` over a stamp; the next one repairs it.
- Credentials. A Codex worker that never refreshed writes its spent token over the one another worker redeemed it for
  (`codex-credential.ts:524-525` "last write wins is fine since they all have fresh tokens"). The expiry cron deletes a lease by id although it was renewed since. A restarted broker cannot acquire
  its lease before the old one lapses unless it has the same runner id. The status of the runner's commit is not checked. Verify redeems without the
  lock. A rejection with an object-shaped error is not reported.
- Runner. A failed look-up counts as an unknown worker. The reconciliation ends a worker whose task has ended without a report: its row stays live. Aborting a resumed session starts another one. An abort during the set-up of the
  worktree is not honoured, an aborted Codex session ends as done, a second retry opens a second session. The finally block
  of a superseded session acts on its successor (`workers.ts:2842` "skip all post-loop cleanup to avoid overwriting the
  new session's state").

## 6. Plan

Next: **loops and releases**, that is the exit conditions of task loops (`loop-dispatcher.ts`), the release executor
(`release-executor.ts`), and the conflict retries of the server's own merge routes.

# GOrg-CloudTools in TLA+

GOrg-CloudTools pushes scripts to fleets of EC2 hosts through AWS Systems
Manager (SSM) and records in SQLite what became of them. The scripts patch,
reboot and reconfigure hosts, so what matters is that a script is not sent
twice, that nothing is sent without a trace, and that what the database says of
a host is what happened there - across restarts of the server, resumed jobs,
failing database statements and a second process on the same database file.

This directory holds TLA+ models of that program, the TLC configurations that
check them on small instances, and theorems that TLAPS proves for every size.

## 1. The system

| Component | State it keeps | Operations | Talks to |
|---|---|---|---|
| **Runner** (`internal/exec/runner.go`) | batch row (status, two counters), one executions row per instance, an in-memory execution per worker | `start`, `run`, `runOne`, `pollAndPersist`, `finalizeBatch`; `resume`, `resumeRun`, `resumeOne` | SSM, database |
| **Recovery** (`internal/exec/recovery.go`) | none | `RecoverOrphanedJobs`, at the start of the server and of the TUI | database |
| **SSM executor** (`internal/cloud/aws/ssm`) | deadline and interval of one wait | `Send`, `GetStatus`, `WaitForDone` | AWS |
| **OrgRunner** (`internal/exec/org.go`) | a batch whose total grows while regions report | `Start`, `run`, `execInRegion` per account and region | gorg-aws, SSM, database |
| **Job handlers** (`internal/api/exec.go`) | none beyond a request | execute, org execute, command status, resume, job listing | Runner, SSM, database |
| **Tools, scripts, sessions** (`internal/api/tools.go`, `scripts.go`, `sessions.go`) | tools, scripts (ephemeral ones too), execution sessions | CRUD, execute a tool: one batch per script | Runner, database |
| **Change management** (`changes.go`, `session_change.go`) | changes and their instances; the current change in the client's cookie | create, upload CSV, load, save, clear | database, cookie |
| **Compatibility endpoints** (`compat_exec.go`, `compat_tools.go`) | none | start tool-specific batches, derive progress and parse output | Runner, database |
| **Middleware** (`internal/api/middleware`) | token buckets per client; encrypted cookie | rate limiting, session load and save, CORS | - |
| **TUI** (`internal/tui`, `cmd/tui`) | screen, credentials per cloud environment, loaded lists | asynchronous commands whose messages arrive later | database, AWS |
| **Config, db, wiring** | environment; connection | parsing, opening, migration, routing | - |
| **Listings, stubs, front end** | none | EC2 and VPC reads; Azure and GCP packages without code; static assets | AWS |

Interaction. A handler creates a batch row and starts a goroutine that outlives
the request. From then on the batch is shared by that goroutine's workers, by
status-poll requests that write into the same executions rows, by resume
requests, and by the recovery of *any* process that starts on the database file.
Nothing is locked across two statements, there is no transaction in the
execution engine, and nearly every database error is only logged.

What is hard here: the crash points between `Send`, the save of the command ID,
the save of the outcome and the counter; check-then-write of the batch status;
two vocabularies (the runner's and SSM's) in one column; a recovery that cannot
tell a dead owner from a live one; counters that are compared with a total that
counts instances no row exists for. `PROJECT.json` lists each hazard at its line
with the properties that watch it.

What makes each component correct:

- *Runner*: at most one Send per instance; a row before the Send; counters equal
  to the rows' outcomes; a batch ends once, after its last worker; an outcome
  stored is final; resume takes each interrupted instance up once.
- *Recovery*: everything that was under way, and nothing else, becomes
  interrupted, and no batch stays running for ever.
- *SSM executor*: a terminal answer is reported at most one interval late, a wait
  ends soon after its deadline, a transient error does not end it.
- *OrgRunner*: no more instances counted than found; the batch ends after its
  last region; the counters tell success from failure.
- *Tools and script library*: a good answer names every batch that was started; an
  inline script belongs to one batch and is never in the library.
- *Change management*: the current change has a row; a batch of a change runs on
  instances of one save of it.
- *Sign-in and session*: key, environment and account are those STS confirmed
  together; without overlapping requests nothing the user was told is lost.
- *Result views*: the pages of a batch that ended agree with it and with each
  other; what was shown of an instance is not taken back.
- *Rate limiter*: never more than the burst plus the refill in any window; who
  waits as told is served.
- *TUI*: what is run is what was ticked, with credentials of that environment.

## 2. Modules

| Module | Models |
|---|---|
| `BatchRunner` | one batch: Runner, recovery of two processes, resume and status-poll handlers, SSM as environment |
| `JobLifecycle` | what a client polling a job is promised: the abstract specification of `BatchRunner` |
| `BatchProperties` | the properties of `BatchRunner`, the refinement mapping, fairness, the inductive invariants |
| `MCBatchRunner` | the instance for TLC (symmetry) |
| `OrgRunner` | one organisation-wide batch within one life of the server: regions and hosts side by side |
| `FanOut` | what a client is promised of such a batch: the abstract specification of `OrgRunner` |
| `MCOrgRunner` | the instance for TLC |
| `SsmPoll`, `MCSsmPoll` | one `WaitForDone` in discrete time |
| `CommandWait` | what a wait is to the runner: the abstract specification of `SsmPoll` |
| `ResultViews`, `MCResultViews` | what the result pages compute from the states of `BatchRunner`, and their parsers |
| `ChangeSession` | one browser's cookie, the credentials and change handlers |
| `Console`, `MCConsole` | on top of `ChangeSession`: the handlers that start batches, `Runner.start`, the script library |
| `RateLimiter`, `MCRateLimiter` | the per-client limiter with its configuration and clean-up |
| `TuiScreens`, `MCTuiScreens` | the terminal UI's event loop and its screens |
| `BatchSafetyProofs` | type correctness of `BatchRunner`, `SentOnce`, `SentIsRecorded`, `TalliedOnce`, proved |
| `BatchLifecycleProofs` | `SuccessIsReal`, `OutcomeSticks`, the refinement of `JobLifecycle`, proved |
| `BatchEndProofs` | `EndedRowsSettled`, `ExactTally`, and of the result pages `FinishedViewsAgree`, `ShownResultsStand`, proved |
| `ConsoleProofs`, `TuiProofs` | the six properties of `Console`, and the safety of `TuiScreens`, proved |
| `SsmPollProofs`, `RateLimiterProofs`, `OrgRunnerProofs` | the safety properties of these modules, proved |

How they fit together. `Console` ends where a batch row is created; from there
`BatchRunner` takes one batch through its life. `SsmPoll` is what
`BatchRunner` abstracts into one `WaitForDone` step, which does what `CommandWait`
calls `Return`: it may give up at any time, and reports a success only of a command
that has succeeded. `ResultViews` extends `BatchProperties`, so its pages are read in every
state that `BatchRunner` reaches. `OrgRunner` is the other way to a batch.
`RateLimiter` and `TuiScreens` share no state with the rest.

### BatchRunner, state and code

| Variable | In the code |
|---|---|
| `batch` | the `execution_batches` row: `status`, `completed_instances`, `failed_instances`; `"none"` before it exists. `total_instances` is `Total` |
| `row[s]` | the `executions` row of the request's s-th instance: `status`, and whether `command_id` is set |
| `phase[r]` | where the controlling goroutine of run `r` stands: `Start` is `Runner.run`, a member of `Resumes` is a resume request and its `resumeRun` |
| `pc[r][s]`, `mem[r][s]` | where the worker that owns the slot stands, and the `models.Execution` it holds in memory and writes back with `Save` |
| `verdict[r]` | `finalStatus` between `finalizeBatch`'s load and its update |
| `proc[p]` | the server or the TUI process: stopped, in recovery before its executions or its batch update, or past it |
| `poll[s]` | the answer a status-poll request holds and is about to write |
| `ssm[s]` | the SSM command (environment) |
| `sent`, `tallied`, `unsaved`, `used` | history and bounds; the code has no such state and no guard except of a bound reads them |

Slots are positions of the instance list, not instance IDs, so a list with a
duplicate is covered. One step is one database statement or one SSM call, with
the local computation that follows it. Hence `pollAndPersist` is
`WaitForDone`, `SaveOutcome`, `Tally`; `finalizeBatch` is `FinalizeLoad`,
`FinalizeStore`; `resume` is `ResumeCheck` (the batch, with its check),
`ResumeLoad` (the Preload of the executions) and `ResumeMark`; each orphaned
batch is `RecoverRows`, `RecoverBatch`. `Statement(ok)` makes each of them fail
in at most `MaxFaults` cases, with the code's reaction, which is mostly to go
on. `FailNoCommand` runs one slot after the other, before the pool opens, as
the loop does.

What is abstracted. SSM's words are three (`Failed` stands for Failed, TimedOut
and Cancelled, `InProgress` for Pending, InProgress, Delayed and Cancelling).
`WaitForDone` may give up at any time, for its deadline or an SSM error. Script
text, output, times and exit codes are left out. `models.ExecutionStatusPending`
is never written by this code and is left out. A Create of the batch that is
refused leaves nothing behind, so it is no step. A read that finds nothing to do
is no step. The handler's own check of the status before `Runner.resume` is
subsumed by the second one, which reads the row again. The TUI's start is a
process that recovers and then leaves the job tables alone; a TUI that dies
half way through is the same as one whose last statements never come.

### JobLifecycle

The three visible columns of a job: accepted, running, reported instance by
instance, perhaps interrupted and continued, finished once with a status that is
`failed` exactly when all instances failed, never reporting more instances than
the job has, and unchanged after the end. `LifecycleSpec` is this module under
the mapping `status <- batch.status`, `completed <- batch.completed`,
`failed <- batch.failed`. It holds with a sole owner and no failing statement,
whatever crashes come; with two owners it does not (see `two_resumes`).

### OrgRunner, state and code

| Variable | In the code |
|---|---|
| `batch` | the `execution_batches` row with its growing `total_instances` |
| `row[h]`, `mem[h]` | `status` of the host's `executions` row, and of the `models.Execution` its goroutine holds |
| `phase`, `verdict` | where `OrgRunner.run` stands, and the status it is about to write |
| `visit[g]`, `targets[g]` | where the `execInRegion` call of one account and region stands, and `targets` in it |
| `pc[h]` | where the goroutine of the host stands; `"queued"` is before the semaphore |
| `ssm[h]` | the SSM command (environment) |
| `faults` | bound on the statements that fail |

`CountRegion` is the update of the total with the launch of the goroutines,
`CreateRow` .. `Tally` are the goroutine's statements and SSM calls, `RegionDone`
is `wg.Wait`, and `FinalLoad`, `FinalStore` are the end of `run`. A goroutine
holds its place behind the semaphore until its counter is written. Two
properties of the code are kept that differ from `Runner`: SSM's own word becomes
the row's status, and whatever SSM answered counts as completed. So a batch all
of whose commands failed on their hosts ends as `completed`; only errors of the
insert, of `Send` or of the wait count as failed.

`VisitOrganization` belongs to gorg-aws and is external: it calls the region
visitor for regions side by side, in any order, may leave regions out when it
returns an error, and returns only when no call is under way. A host is found
in one region only. `Start` up to the insert of the batch only reads, and a
refused start leaves no batch, so `StartBatch` is that insert.

`FanOut` has the four visible columns: instances are found and reported while
the job runs, never more reported than found, and the job ends, once, when all
that were found are reported. `FanOutSpec` is its next-state relation for every
step of `OrgRunner` before the first failing statement; a lost update of the
total or of a counter does break the promise, as nothing in the code repairs it.

### SsmPoll, state and code

`now` is the clock and `deadline` the time at which the loop gives up;
`pc`, `interval`, `lastErr`, `result` are the locals of `pollUntilDone`,
`wake` its present sleep, `began` and `answer` the call under way. `command`
is SSM's state of the command: it may not be registered at first, and end at
any time or never. Time passes in a sleep and in a call, which takes at most
`MaxLatency`. `WaitForDone` gives up for the reasons modelled here and no
others: deadline, an error that is not transient, cancelling. `WaitSpec` is
`CommandWait` under the mapping `pollAndPersist` applies: SSM's `Success` is a
completion, any other word and any error a failure.

### ResultViews, state and code

No variables of its own. Each page is an operator over `row` and `batch`:
`QCResults`, `LatestStep1`, `PostResults`, `SFTBatchStatus`, `StatusCounts`,
`RHSAResults` and the two downloads; `ParseQC`, `ParseCompliance` and
`ValidationPassed` are the parsers, over lines reduced to their kind. The
`output` column is not state of `BatchRunner`: a completed row has its
host's report, a failed one has it or nothing (`Columns`).

Things the model shows of the pages that no property is about. Progress
counts rows, so it starts below the batch's total. `StatusCounts` does not know
SSM's own words, so after a status poll wrote `InProgress`, and while instances
have no row yet, the compliance page can say completed before the batch has
ended. `LatestStep1` offers the kernels of the group's first row, `QCResults`
those of all of them.

### ChangeSession and Console, state and code

| Variable | In the code |
|---|---|
| `cookie` | the `Session` in the browser's cookie: credentials, environment, account, current change |
| `changes` | the `changes` table with the instances of each change, in order |
| `requests[r]` | a request on its way: the session it was given, where its handler stands (`stage`), its locals, and the answer with the cookie it sets |
| `scripts`, `batches` | these tables; `live` is `deleted_at`, `ephemeral` the column |
| `used`, `saved`, `asked`, `orphans` | history and bounds |

A request carries the cookie of the moment it was sent; the handler works on that
copy; the browser takes the cookie that comes back. A handler is cut at its
statements: `StartOnChange`, `StartOnIds`, `StartDirect` and `LoadTool` are its
reads and checks, `SaveToLibrary`, `ResolveScript`, `CreateBatch` and `CleanUp` the
statements of `Runner.start`; other requests and a crash come in between. The
three saves of a change are transactions, so one step each. Credentials are
an opaque key; `CredentialEnv` and `AccountOf` are what STS knows of it. `Chosen`
and `Uniform` stand for `resolveChangeInstances` with its check for one account and
region. A tool's `plan` is the set of its scripts, turned to in the order of
their IDs (`Least`); `jobs` is the set of batches the answer will name.

What the code does here and no doc speaks of, kept as it is: of two overlapping
requests that set the cookie the later answer wins, so one update is lost, and a
sign-out is undone by a save that was under way. A change uploaded as CSV keeps
repeated instances, the one typed by hand does not. A script saved to the
library stays there when its start is refused. A tool refused half way leaves
the earlier jobs running and answers with an error. A crash between the inline
script and its batch leaves the script behind. Only the pages set `CallerKey`, so
batches of the API are not found by the pages. And `start` copies no region: the
client is built for the environment's home region (`batch.sentTo`), whatever
region the batch records.

### RateLimiter, state and code

`bucket[k]` is a `visitorState`, its tokens counted in time so that there are no
fractions; `live` are the keys of the map; `limit` comes from `ParseSpec`. `Grant`
and `Refuse` are `allow`, `Cleanup` is the ticker's function, which may come
late. Addresses are reduced to what `realIP` looks at (`Client`).

### TuiScreens, state and code

`screen`, `menu`, `modal`, `selector` are the root model and its children, `envs`
the credentials per environment, `flight` the Bubble Tea commands whose message
has not come back. A key is an action, and so is the delivery of each message, in
any order. A listing is a set of instances and its rows are that set in any order,
since EC2 promises none. Cursors of menus, where nothing depends on them, and drawing are
left out. `overtaken` is history: a second question was asked before the first was
answered. Then the late answer really is taken for the newer one: a listing
of the former environment fills the selector, a validation lands in the modal
that is open by now and is filed under its environment. The properties say that
nothing else can bring this about. `modal.filing` are the numbers of the commands
that file what was validated in this modal: each reads the modal's environment
when it runs, so a toggle after the answer may still change where they file
(`Refiled`).

## 3. Runs

All runs set `CHECK_DEADLOCK FALSE`: requests, crashes, faults, TUI launches and
the clock are bounded, a wait returns and the operator may quit, so every
behaviour comes to rest.

| Run | Instance | Shows |
|---|---|---|
| `recovery` | 3 slots, pool of 2, 2 resumes, 2 crashes, 1 fault, sole owner, no polls | `TypeOK`, `SentIsRecorded`, `TalliedOnce`, `OutcomeSticks` |
| `contended` | 2 slots, pool of 1, 2 overlapping resumes, 1 crash, 1 poll, 1 TUI launch | `SentOnce`, `SuccessIsReal` |
| `lifecycle` | 2 slots, pool of 1, 2 resumes, 2 crashes, no faults, sole owner; two different reports | `ExactTally`, `EndedRowsSettled`, `FinishedViewsAgree`, `LifecycleSpec`, `ShownResultsStand`, `JobSettles` |
| `verdict` | 2 slots, 1 crash, 1 resume | `CompletedHasSuccess` is violated |
| `unsent` | 1 slot, 1 crash, 1 resume | `NoCommandMeansUnsent` is violated |
| `children` | 1 slot, 1 poll, 1 crash | `RecoveredChildrenConsistent` is violated |
| `two_resumes` | 1 slot, 1 crash, 2 overlapping resumes | `OneResumeAtATime` is violated |
| `org_fanout` | 2 regions, 3 hosts in any distribution, 1 at a time per region, 1 fault | `TypeOK`, `SentIsRecorded`, `EndedMeansQuiet`, `FanOutSpec`, `OrgSettles` |
| `ssm_poll` | units of 2.5 s: intervals 2 to 12, timeouts -1, 1 and 28, calls of at most 1, clock to 45 | `TypeOK`, `EndsByDeadline`, `TimedOutMeansLate`, `QuickFeedback`, `WaitSpec`, `WaitEnds` |
| `rate_limiter` | a minute is 4 units; one limit per unit of time; 2 clients, 3 grants each, clock to 8 | `TypeOK`, `RateBound`, `ReturningClientServed` |
| `tui_screens` | 2 OS tools, 1 cloud tool, 2 environments, 2 commands under way | `TypeOK`, `NoRunWithoutCredentials`, `EnterRunsWhatWasTicked`, `ActiveMeansValidated`, `ScreensSettle` |
| `console` | a request of each kind; 3 requests, 2 at once, 2 faults or crashes; a new user and a returning one | `TypeOK`, `SessionIsWhole`, `CookieFollowsAnswers`, `TargetsOfOneSave`, `InlineScriptsAccounted`, `AnswersAreTrue` |

Why these bounds. Three slots on two workers is the least with one slot in each
of: queued, under way, finished - at the moment of a crash. Two crashes and two
resumes let an outcome of one life be met by two later ones, and a resume be cut
off itself. One fault can strike any single statement of any life. Three hosts
in two regions give a region with a queue behind its semaphore next to one that
reports, an empty region and a failing one. Overlap,
polling and a TUI start are put together in `contended`, each once: each pair of
them, and a crash, can interleave at every statement.

The intervals of `ssm_poll` keep the ratio of 5 s to 30 s; a timeout of 28 units is
past the point where the interval has reached its cap, and no wait gets to the
end of the clock. In `rate_limiter` the idle time lies between a minute and an
hour, as in the code, and the clock passes several clean-ups; the limit per hour
is there so that what is forgotten too early happens, and `KeptLongEnough`
excepts it. Two commands under way in `tui_screens` are the least that can come back
in the wrong order. In `console` two overlapping requests and a third one,
before or after, let each handler be met by each other between any two of its
statements; requests take the lowest free number, since numbers mean nothing.
Symmetry (slots, resume
requests) is used in the safety runs only.

### What the four violations say

- `verdict`: with one crash before the second instance had a row, and a failure
  of the first, the resumed batch has one failure of two and ends `completed`.
  The comment on `finalizeBatch` promises that only successes complete a batch.
- `unsent`: the server dies after SSM accepted the command and before the
  command ID was saved. Resume reports "command was not sent" for a script
  that runs.
- `children`: a status poll stored `InProgress`; the recovery after the crash
  selects `pending` and `running` only, and the execution stays behind for good.
- `two_resumes`: both requests read `interrupted` before either writes
  `running`; both poll and both count.

### Fairness

`JobSettles` assumes weak fairness of `Worker` (every goroutine of a job that
can run is run: the Go scheduler), of `Recovery` (a recovery that began goes on
to its end) and of `Boot("server")` (a server that died is started again). It
assumes nothing of SSM, since `WaitForDone` gives up at its deadline, and
nothing of requests: no user has to resume anything. The run has no failing
statements: with `finalizeBatch`'s load or update refused a batch does stay
`running` until the next restart.

`WaitEnds` assumes that time passes, that the loop runs when it can and that SSM
answers within `MaxLatency` (weak fairness of `Tick`, `Loop`, `Answer`); nothing of
the command, which may run for ever. `ScreensSettle` assumes that each command
comes back (weak fairness of `Deliver(n)`: database calls are local, calls of AWS
have a context with a deadline), and nothing of the operator. It covers every
screen that waits: the two menus of tools, the selector and the modal. That what
comes is the answer to the last question is not part of it, but of
`EnterRunsWhatWasTicked` and `ActiveMeansValidated`, as far as it is true.

`OrgSettles` assumes weak fairness of `Job`, the goroutines of one
organisation-wide job and the return of `VisitOrganization`, and again nothing of
SSM. It holds up to the first failing statement: when `FinalLoad` fails, the
update that follows has no primary key and gorm refuses it.

## 4. Proofs

Of `BatchRunner`, from `BatchAssumption` alone (a finite non-empty set of slots,
`Start` not a resume request, natural bounds): any number of slots, workers,
resumes, crashes, faults, polls and launches.

- `TypeCorrect`: `Spec => []TypeOK`. One lemma per group of actions; helpers
  give the type of an updated record, row or worker.
- `SentOnceCorrect`: `Spec => []SentOnce`, with no assumption of a sole owner.
  "At most one Send" is not inductive: nothing in it says that a worker about to
  send has not sent before. `SendInv` adds that before the Start run has begun
  its pool nothing was sent, and that a slot which is queued or about to be sent
  has not been sent. Only `MarkRunning` queues slots, it happens once, and resume
  runs never reach `send`.
- `SentIsRecordedCorrect`: `Spec => []SentIsRecorded`, from `RecordInv`: a row that
  is missing has no command, no worker about to send, no poll answer pending; and
  whatever a worker will write over a row is an execution.
- `TalliedOnceCorrect`: `Spec => []TalliedOnce`, for a sole owner. `OwnerInv` says
  that at most one run is active, none while the server is down or recovering,
  and that an active run's batch is not interrupted, so no second resume gets
  in. `SlotInv` says that a slot somebody works on is not counted yet, and that a
  slot counted, or about to be, has a row that nobody takes up again; a slot
  whose outcome the database refused is excepted, and really is counted twice
  then. The step of a worker is proved once for its slot (`SlotMoves`) and once
  for the rest of the state (`WorkerMoves`).
- `SuccessIsRealCorrect`: `Spec => []SuccessIsReal`, in full generality. The
  property speaks of rows and a counter; `SuccessInv` adds the places a success
  passes through on the way there - a worker's memory, the answer of a status
  poll - and that SSM has no command of a slot that was not sent, so that a
  Send never replaces a command that has succeeded.
- `OutcomeSticksCorrect`: `Spec => OutcomeSticks`, an action property, from
  `OutcomeInv`: up to the save of its outcome a worker has a row without one.
  Recovery touches none but such rows, and resume takes up none but those.
- `EndedRowsSettledCorrect`: `Spec => []EndedRowsSettled`. `JobInv`: up to the first
  failed statement the batch status tells where the sole owner stands.
  `WaitingInv`: each row that waits for something has a worker, a run that loaded
  it, a recovery under way, or the next resume; a batch that has ended has none
  of these.
- `ExactTallyCorrect`: `Spec => []ExactTally`, from `WholeInv`: without a crash the
  Start run alone brings every slot to its end, and each counter is the number
  of slots counted whose rows say so.
- `LifecycleCorrect`: `Spec => LifecycleSpec`, that is, `BatchRunner` implements
  `JobLifecycle`, under the assumptions `SoleOwner` and `MaxFaults = 0`. `JobInv`
  carries it: the counters are the slots counted, which are never more than all
  of them, and the verdict held between `finalizeBatch`'s two statements is still
  right when it is written.

Of `ResultViews`, from `BatchAssumption` and for whatever the scripts print; the
parsers stay folded, since nothing depends on what they find in a report:

- `FinishedViewsAgreeCorrect`: `Spec => []FinishedViewsAgree`. `WholeInv` gives every
  instance of an undisturbed batch that ended a row with an outcome; the rest is
  counting, as the parts of each page are disjoint and cover the rows.
- `ShownResultsStandCorrect`: `Spec => ShownResultsStand`, an action property. No step
  deletes a row (`RowsStay`), and `OutcomeInv` keeps the rows a page has read an
  outcome from, so that the sets each page is computed from only grow.

Of `SsmPoll`, from `PollAssumption` (`0 < pollIntervalMin <= pollIntervalMax`,
natural latency and horizon): `TypeOK`, `EndsByDeadline`, `TimedOutMeansLate`,
`QuickFeedback`, for every timeout. `ClockInv` says for each place of the loop how
far the clock is from the last call, which was made before the deadline, and that
the interval has grown no faster than the time slept; `SeenInv`, that a command
whose end no answer has told yet ended after that call was made; `LateInv`, that
the deadline is reported only behind it. `WaitCorrect`, that it implements
`CommandWait`, needs `TrueInv`: an answer that the command has ended stays true until
the loop takes it up.

Of `RateLimiter`, from `RateAssumption`: `TypeOK`, `RateBound`,
`ReturningClientServed`, for every configured limit, set of clients and clean-up
period. `CoverInv`: every stretch of grants that reaches up to now is paid for by
the capacity, the time gone by and what the bucket has left, a bucket that was
forgotten included, as it had filled up by then.

Of `OrgRunner`, from its assumptions alone: `TypeOK`, `SentIsRecorded`,
`EndedMeansQuiet`, and `FanOutCorrect`, that it implements `FanOut` before the
first failing statement. `QuietInv` says where the
regions and the hosts of each stand while `run` stands where it does; `CountInv`
that the counters are the hosts counted and the total the hosts found.

Of `Console`, for any set of requests, keys, changes and accounts and any number
of requests at once, from `SessionAssumption` and `ConsoleAssumption` (the names of
keys and changes are not the names of none, bounds are natural), `FirstAssumption`
(the cookies and changes to begin with are ones an earlier run could have left:
a cookie with a key has the environment and account of that key unless in
development mode, and its change exists) and `RequestsAssumption` (a request brings
the arguments of its kind, and nothing of what its handler computes):

- `ConsoleInvariant`: the type invariant with `RequestInv`, which says what a handler
  has when it stands at a certain place: a kind that starts batches, a script that
  was resolved, a change's number. Each action is first reduced to what it does to its
  own request (`Becomes`, `Handles`), so that the others need no case of their
  own. `TypeCorrect` is one half of it.
- `TargetsOfOneSaveCorrect`, from `TargetsInv`: from the check on, a handler's targets
  are of one save of its change, whatever is saved over it before the batch is
  created.
- `SessionIsWholeCorrect`, for `DevMode = FALSE`, where credentials are validated (in
  development mode STS may not be asked, and the run has it off too). `WholeInv`: not
  only the cookie but every session a request was sent with or brings back is
  whole, and a change that exists goes on existing.
- `CookieFollowsAnswersCorrect`, from `AskedInv`: until two requests that set the
  cookie overlap, the one under way works on the session there is.
- `InlineScriptsAccountedCorrect`, from `InlineInv`: an inline script has one batch or
  one request that is about to create it, never both.
- `AnswersAreTrueCorrect`, from `AnswersInv`: up to its answer a request has started the
  scripts of its plan in front of the one it has turned to, and no others.

Of `TuiScreens`, for any tools, instances, credentials and number of commands on
their way, from `TuiAssumption` (names apart, each environment's instances finite):

- `TypeCorrect`, with `FlightInv`: commands carry what their handlers rely on (a
  selector is opened for an OS tool only, nothing leads back to the modal), and no
  two have one number. `Steps` reduces the keys to a few kinds once for all the
  proofs; a counting lemma (`FreeNumber`) finds the number for a new command.
- `NoRunWithoutCredentialsCorrect`, from `FundedInv`: credentials are never lost, and
  what is being listed, what is in the rows and what is about to be run all had them.
- `EnterRunsWhatWasTickedCorrect`, from `SelectorInv`: until an answer is overtaken at
  most one listing is under way, it is the open selector's own, and there are no
  rows before it comes. Afterwards the rows are distinct, of the tool's platform and
  of the environment shown, so a position and an instance go together.
- `ActiveMeansValidatedCorrect`, from `ValidatedInv`: until an answer is overtaken, the
  question under way is about the environment the modal shows.

TLC checked every one of these invariants on the instances of the runs before it
was proved. Two had to grow to become inductive: `FundedInv` by the fact that a cloud
tool about to be run belongs to an environment the TUI has, and `SelectorInv` by
the rows being distinct, without which a tick taken back could leave the instance
ticked by another row.

Only model-checked: the liveness properties `JobSettles`, `OrgSettles`, `WaitEnds`
and `ScreensSettle`, which rest on fairness and are out of the prover's reach. Every
safety property a passing run checks is a theorem. The properties of the four
other runs are violated, so there is nothing to prove of them.

## 5. Not modelled, and what is left

Not modelled because it is I/O, assets or has no state of its own: EC2 and VPC
listings (an arbitrary list for `OrgRunner` and `TuiScreens`), database opening and
migration (that a statement may fail is the `Statement` operator of each module),
configuration, routing, cryptography of the cookie, CORS, the front end, the
Azure and GCP packages.

Not modelled because nothing can be said of it that would not restate it:
`sessions.go` (a label on batches that no other code reads), the read-only
listings and status pages, `handleUpdateChange` and `handleUpdateScript` (columns
and text no modelled code depends on), disk reconnaissance, the connectivity test
and script validation (single commands without a batch), the parsing of CSV and
of output texts beyond what the pages tell apart.

Not modelled, and worth it:

1. Recovery and resume of an organisation-wide batch by `Runner`, on top of
   `OrgRunner`: after a crash the total lacks the regions that had not been
   listed, and resume polls with one client for hosts of many accounts.
2. An abstract specification of `Console`'s starts: which batches a user's requests
   may bring about, apart from the statements of the handlers.

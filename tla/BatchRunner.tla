---------------------------- MODULE BatchRunner ----------------------------
(***************************************************************************)
(* One execution batch: Runner (internal/exec/runner.go), startup recovery *)
(* (internal/exec/recovery.go) and the two HTTP handlers that touch a job  *)
(* that is under way (internal/api/exec.go).                               *)
(*                                                                         *)
(* The grain is one database statement or one SSM call per step.  Between  *)
(* two steps of a goroutine anything else may happen: another goroutine, a *)
(* handler, the TUI process starting on the same database, or a crash.     *)
(*                                                                         *)
(* A "run" is one goroutine tree that works on the batch: Start is the one *)
(* Runner.start launches, each member of Resumes is one resume request.    *)
(* A slot is one position of ScriptRequest.InstanceIDs.                    *)
(***************************************************************************)
EXTENDS Integers, FiniteSets

CONSTANTS
  Slots,          \* positions of the request's instance list
  MaxConcurrent,  \* the maxConcurrent argument of New
  Start,          \* the run Runner.start launches
  Resumes,        \* the resume requests the users make
  Overlap,        \* may two resume requests be in their handlers at once?
  MaxCrashes,     \* bound: times the server process dies
  MaxFaults,      \* bound: database statements that return an error
  MaxPolls,       \* bound: status-poll requests
  MaxLaunches     \* bound: times the TUI is launched beside the server

ASSUME BatchAssumption ==
  /\ IsFiniteSet(Slots) /\ Slots # {}
  /\ Start \notin Resumes
  /\ MaxConcurrent \in Int
  /\ Overlap \in BOOLEAN
  /\ {MaxCrashes, MaxFaults, MaxPolls, MaxLaunches} \subseteq Nat

VARIABLES
  batch,    \* the execution_batches row: status and the two counters
  row,      \* slot -> its executions row
  ssm,      \* slot -> state of its SSM command (external)
  sent,     \* history: slot -> number of Send calls made for it
  phase,    \* run -> where its controlling goroutine stands
  pc,       \* run -> slot -> where the worker that owns the slot stands
  mem,      \* run -> slot -> the in-memory models.Execution of that worker
  verdict,  \* run -> status finalizeBatch computed and is about to write
  proc,     \* process -> where its startup recovery stands
  poll,     \* slot -> SSM's word that a status-poll request is about to write
  tallied,  \* history: slot -> times it was added to a counter
  unsaved,  \* history: slots whose outcome the database refused to store
  used      \* how much of each bound is used up

dbVars   == <<batch, row>>
ssmVars  == <<ssm, sent>>
memVars  == <<phase, pc, mem, verdict>>
histVars == <<tallied, unsaved>>
vars     == <<dbVars, ssmVars, memVars, proc, poll, histVars, used>>

Runs  == Resumes \cup {Start}
Procs == {"server", "tui"}
Total == Cardinality(Slots)

\* New clamps a non-positive pool size to one.
Workers == IF MaxConcurrent <= 0 THEN 1 ELSE MaxConcurrent

ExecutionStatus == {"running", "completed", "failed", "interrupted"}
BatchStatus     == {"none", "pending", "running", "completed", "failed", "interrupted"}
Terminal        == {"completed", "failed"}
Job             == [status : BatchStatus, completed : Nat, failed : Nat]
Budget          == [crashes : Nat, faults : Nat, polls : Nat, launches : Nat]

\* SSM's own words; "Failed" stands for Failed, TimedOut and Cancelled.
Invocation == {"InProgress", "Success", "Failed"}

\* A models.Execution: its status and whether command_id is set.  The row in
\* the database can also hold one of SSM's words (see CheckWrite).
RowStatus == ExecutionStatus \cup Invocation \cup {"none"}
Row       == [status : RowStatus, cmd : BOOLEAN]
Held      == [status : ExecutionStatus \cup {"none"}, cmd : BOOLEAN]
NoRow     == [status |-> "none", cmd |-> FALSE]

Steps   == {"none", "noCmd", "queued", "send", "saveCmd", "poll", "save", "tally", "done"}
Phases  == {"idle", "load", "mark", "partition", "pool", "store", "done"}

TypeOK ==
  /\ batch \in Job
  /\ row \in [Slots -> Row]
  /\ ssm \in [Slots -> Invocation \cup {"none"}]
  /\ sent \in [Slots -> Nat]
  /\ phase \in [Runs -> Phases]
  /\ pc \in [Runs -> [Slots -> Steps]]
  /\ mem \in [Runs -> [Slots -> Held]]
  /\ verdict \in [Runs -> Terminal \cup {"none"}]
  /\ proc \in [Procs -> {"stopped", "rows", "batch", "ready"}]
  /\ poll \in [Slots -> Invocation \cup {"none"}]
  /\ tallied \in [Slots -> Nat]
  /\ unsaved \subseteq Slots
  /\ used \in Budget

Init ==
  /\ batch = [status |-> "none", completed |-> 0, failed |-> 0]
  /\ row = [s \in Slots |-> NoRow]
  /\ ssm = [s \in Slots |-> "none"]
  /\ sent = [s \in Slots |-> 0]
  /\ phase = [r \in Runs |-> "idle"]
  /\ pc = [r \in Runs |-> [s \in Slots |-> "none"]]
  /\ mem = [r \in Runs |-> [s \in Slots |-> NoRow]]
  /\ verdict = [r \in Runs |-> "none"]
  /\ proc = [p \in Procs |-> IF p = "server" THEN "ready" ELSE "stopped"]
  /\ poll = [s \in Slots |-> "none"]
  /\ tallied = [s \in Slots |-> 0]
  /\ unsaved = {}
  /\ used = [crashes |-> 0, faults |-> 0, polls |-> 0, launches |-> 0]

(***************************************************************************)
(* Every database statement may fail: the file is shared by connections    *)
(* and processes with no busy timeout.  The code logs most errors and goes *)
(* on.                                                                     *)
(***************************************************************************)
Statement(ok) ==
  \/ ok /\ UNCHANGED used
  \/ ~ok /\ used.faults < MaxFaults /\ used' = [used EXCEPT !.faults = @ + 1]

Serving == proc["server"] = "ready"

-----------------------------------------------------------------------------
(* Runner.start and Runner.run: a new batch.                               *)

\* Create the batch row, then "go r.run".  (A refused Create leaves no batch.)
StartBatch ==
  /\ Serving
  /\ phase[Start] = "idle"
  /\ batch' = [status |-> "pending", completed |-> 0, failed |-> 0]
  /\ phase' = [phase EXCEPT ![Start] = "mark"]
  /\ UNCHANGED <<row, ssmVars, pc, mem, verdict, proc, poll, histVars, used>>

\* Mark the batch running, an error is only logged, and queue every instance.
MarkRunning ==
  /\ phase[Start] = "mark"
  /\ \E ok \in BOOLEAN :
       /\ Statement(ok)
       /\ batch' = IF ok THEN [batch EXCEPT !.status = "running"] ELSE batch
  /\ phase' = [phase EXCEPT ![Start] = "pool"]
  /\ pc' = [pc EXCEPT ![Start] = [s \in Slots |-> "queued"]]
  /\ UNCHANGED <<row, ssmVars, mem, verdict, proc, poll, histVars>>

-----------------------------------------------------------------------------
(* Runner.runOne: one worker of the pool, from taking an instance off the  *)
(* channel to the return of pollAndPersist.                                *)

Busy(r) == {s \in Slots : pc[r][s] \in {"send", "saveCmd", "poll", "save", "tally"}}

WorkerFree(r) == phase[r] = "pool" /\ Cardinality(Busy(r)) < Workers

\* The worker that owns slot s in run r goes on to step, holding execution ex.
Goto(r, s, step, ex) ==
  /\ pc' = [pc EXCEPT ![r][s] = step]
  /\ mem' = [mem EXCEPT ![r][s] = ex]

\* Mutant of CreateRow: a refused insert is logged and the script sent anyway.
CreateRowOrNot(s) ==
  /\ WorkerFree(Start)
  /\ pc[Start][s] = "queued"
  /\ LET ex == [status |-> "running", cmd |-> FALSE] IN
       /\ \E ok \in BOOLEAN :
            /\ Statement(ok)
            /\ row' = IF ok THEN [row EXCEPT ![s] = ex] ELSE row
       /\ Goto(Start, s, "send", ex)
  /\ UNCHANGED <<batch, ssmVars, phase, verdict, proc, poll, histVars>>

\* Insert the executions row; without it nothing is sent and the slot fails.
CreateRow(s) ==
  /\ WorkerFree(Start)
  /\ pc[Start][s] = "queued"
  /\ LET ex == [status |-> "running", cmd |-> FALSE] IN
       \/ /\ Statement(TRUE)
          /\ row' = [row EXCEPT ![s] = ex]
          /\ Goto(Start, s, "send", ex)
       \/ /\ Statement(FALSE)
          /\ Goto(Start, s, "tally", [ex EXCEPT !.status = "failed"])
          /\ UNCHANGED row
  /\ UNCHANGED <<batch, ssmVars, phase, verdict, proc, poll, histVars>>

\* Call SSM SendCommand.  It is accepted; or it fails and SSM never had it; or
\* SSM took it and the answer was lost.
Send(s) ==
  /\ pc[Start][s] = "send"
  /\ sent' = [sent EXCEPT ![s] = @ + 1]
  /\ \/ /\ ssm' = [ssm EXCEPT ![s] = "InProgress"]
        /\ Goto(Start, s, "saveCmd", [mem[Start][s] EXCEPT !.cmd = TRUE])
     \/ /\ \E st \in {"none", "InProgress"} : ssm' = [ssm EXCEPT ![s] = st]
        /\ Goto(Start, s, "save", [mem[Start][s] EXCEPT !.status = "failed"])
  /\ UNCHANGED <<dbVars, phase, verdict, proc, poll, histVars, used>>

\* Save the command ID before polling; if that is refused the slot is abandoned.
SaveCommand(s) ==
  /\ pc[Start][s] = "saveCmd"
  /\ \/ /\ Statement(TRUE)
        /\ row' = [row EXCEPT ![s] = mem[Start][s]]
        /\ Goto(Start, s, "poll", mem[Start][s])
     \/ /\ Statement(FALSE)
        /\ Goto(Start, s, "save", [mem[Start][s] EXCEPT !.status = "failed"])
        /\ UNCHANGED row
  /\ UNCHANGED <<batch, ssmVars, phase, verdict, proc, poll, histVars>>

\* Mutants of WaitForDone: SSM's word goes into the execution as it is; every
\* end of the command is a completion.
WaitForDoneRaw(r, s) ==
  /\ pc[r][s] = "poll"
  /\ ssm[s] # "InProgress"
  /\ Goto(r, s, "save", [mem[r][s] EXCEPT !.status = ssm[s]])
  /\ UNCHANGED <<dbVars, ssmVars, phase, verdict, proc, poll, histVars, used>>

WaitForDoneAnyEnd(r, s) ==
  /\ pc[r][s] = "poll"
  /\ \E st \in Terminal :
       /\ st = "completed" => ssm[s] # "InProgress"
       /\ Goto(r, s, "save", [mem[r][s] EXCEPT !.status = st])
  /\ UNCHANGED <<dbVars, ssmVars, phase, verdict, proc, poll, histVars, used>>

\* WaitForDone returns a terminal state, or an error (deadline, SSM error) that
\* counts as a failure whatever became of the command.
WaitForDone(r, s) ==
  /\ pc[r][s] = "poll"
  /\ \E st \in Terminal :
       /\ st = "completed" => ssm[s] = "Success"
       /\ Goto(r, s, "save", [mem[r][s] EXCEPT !.status = st])
  /\ UNCHANGED <<dbVars, ssmVars, phase, verdict, proc, poll, histVars, used>>

\* Save the whole in-memory execution over the row; an error is only logged.
SaveOutcome(r, s) ==
  /\ pc[r][s] = "save"
  /\ \E ok \in BOOLEAN :
       /\ Statement(ok)
       /\ row' = IF ok THEN [row EXCEPT ![s] = mem[r][s]] ELSE row
       /\ unsaved' = IF ok THEN unsaved ELSE unsaved \cup {s}
  /\ Goto(r, s, "tally", mem[r][s])
  /\ UNCHANGED <<batch, ssmVars, phase, verdict, proc, poll, tallied>>

\* completed_instances + 1 or failed_instances + 1; an error is only logged.
Tally(r, s) ==
  /\ pc[r][s] = "tally"
  /\ \/ /\ Statement(TRUE)
        /\ batch' = IF mem[r][s].status = "completed"
                    THEN [batch EXCEPT !.completed = @ + 1]
                    ELSE [batch EXCEPT !.failed = @ + 1]
        /\ tallied' = [tallied EXCEPT ![s] = @ + 1]
     \/ Statement(FALSE) /\ UNCHANGED <<batch, tallied>>
  /\ Goto(r, s, "done", NoRow)
  /\ UNCHANGED <<row, ssmVars, phase, verdict, proc, poll, unsaved>>

\* Mutants of FinalizeLoad: the run does not wait for its last workers; the
\* verdict is failed whenever nothing was completed.
FinalizeEarly(r) ==
  /\ phase[r] = "pool"
  /\ \A s \in Slots : pc[r][s] # "queued"
  /\ Statement(TRUE)
  /\ verdict' = [verdict EXCEPT ![r] = IF batch.failed = Total THEN "failed" ELSE "completed"]
  /\ phase' = [phase EXCEPT ![r] = "store"]
  /\ UNCHANGED <<dbVars, ssmVars, pc, mem, proc, poll, histVars>>

FinalizeByCompleted(r) ==
  /\ phase[r] = "pool"
  /\ \A s \in Slots : pc[r][s] \in {"none", "done"}
  /\ Statement(TRUE)
  /\ verdict' = [verdict EXCEPT ![r] = IF batch.completed = 0 THEN "failed" ELSE "completed"]
  /\ phase' = [phase EXCEPT ![r] = "store"]
  /\ UNCHANGED <<dbVars, ssmVars, pc, mem, proc, poll, histVars>>

-----------------------------------------------------------------------------
(* finalizeBatch, once every worker of the run has returned: load the      *)
(* counters, then write the status they give.                              *)

FinalizeLoad(r) ==
  /\ phase[r] = "pool"
  /\ \A s \in Slots : pc[r][s] \in {"none", "done"}
  /\ \/ /\ Statement(TRUE)
        /\ verdict' = [verdict EXCEPT ![r] =
                         IF batch.failed = Total THEN "failed" ELSE "completed"]
        /\ phase' = [phase EXCEPT ![r] = "store"]
     \/ /\ Statement(FALSE)
        /\ phase' = [phase EXCEPT ![r] = "done"]
        /\ UNCHANGED verdict
  /\ UNCHANGED <<dbVars, ssmVars, pc, mem, proc, poll, histVars>>

FinalizeStore(r) ==
  /\ phase[r] = "store"
  /\ \E ok \in BOOLEAN :
       /\ Statement(ok)
       /\ batch' = IF ok THEN [batch EXCEPT !.status = verdict[r]] ELSE batch
  /\ phase' = [phase EXCEPT ![r] = "done"]
  /\ UNCHANGED <<row, ssmVars, pc, mem, verdict, proc, poll, histVars>>
-----------------------------------------------------------------------------
(* Runner.resume and Runner.resumeRun: re-attach to an interrupted batch.  *)

\* Mutants of ResumeStep: executions of any status are resumed; those without
\* a command ID are left as they are.
ResumeStepAny(s) ==
  IF row[s].status = "none" THEN "none"
  ELSE IF row[s].cmd THEN "queued" ELSE "noCmd"

ResumeStepSent(s) ==
  IF row[s].status = "interrupted" /\ row[s].cmd THEN "queued" ELSE "none"

\* The partition by the rows as they were loaded: only interrupted executions
\* are taken up, and those with a command ID are polled again.
ResumeStep(s) ==
  IF row[s].status # "interrupted" THEN "none"
  ELSE IF row[s].cmd THEN "queued" ELSE "noCmd"

\* The batch is loaded and checked: unless it is interrupted the request is
\* refused.
ResumeCheck(r) ==
  /\ Serving
  /\ phase[r] = "idle"
  /\ Overlap \/ \A q \in Resumes : phase[q] \notin {"load", "mark"}
  /\ batch.status = "interrupted"
  /\ phase' = [phase EXCEPT ![r] = "load"]
  /\ UNCHANGED <<dbVars, ssmVars, pc, mem, verdict, proc, poll, histVars, used>>

\* Its executions are loaded by a statement of their own; resumeRun works on
\* the rows read here.  An error ends the request.
ResumeLoad(r) ==
  /\ r \in Resumes /\ phase[r] = "load"
  /\ \/ /\ Statement(TRUE)
        /\ phase' = [phase EXCEPT ![r] = "mark"]
        /\ pc' = [pc EXCEPT ![r] = [s \in Slots |-> ResumeStep(s)]]
        /\ mem' = [mem EXCEPT ![r] =
             [s \in Slots |-> IF ResumeStep(s) = "none" THEN NoRow ELSE row[s]]]
     \/ /\ Statement(FALSE)
        /\ phase' = [phase EXCEPT ![r] = "done"]
        /\ UNCHANGED <<pc, mem>>
  /\ UNCHANGED <<dbVars, ssmVars, verdict, proc, poll, histVars>>

\* The status is written whatever it is by now; if that fails so does the request.
ResumeMark(r) ==
  /\ r \in Resumes /\ phase[r] = "mark"
  /\ \/ /\ Statement(TRUE)
        /\ batch' = [batch EXCEPT !.status = "running"]
        /\ phase' = [phase EXCEPT ![r] = "partition"]
        /\ UNCHANGED <<pc, mem>>
     \/ /\ Statement(FALSE)
        /\ phase' = [phase EXCEPT ![r] = "done"]
        /\ pc' = [pc EXCEPT ![r] = [s \in Slots |-> "none"]]
        /\ mem' = [mem EXCEPT ![r] = [s \in Slots |-> NoRow]]
        /\ UNCHANGED batch
  /\ UNCHANGED <<row, ssmVars, verdict, proc, poll, histVars>>

\* Mutant of FailNoCommand: the script of such an execution is sent again.
ResendNoCommand(r, s) ==
  /\ phase[r] = "partition"
  /\ pc[r][s] = "noCmd"
  /\ sent' = [sent EXCEPT ![s] = @ + 1]
  /\ ssm' = [ssm EXCEPT ![s] = "InProgress"]
  /\ Goto(r, s, "queued", [mem[r][s] EXCEPT !.cmd = TRUE])
  /\ UNCHANGED <<dbVars, phase, verdict, proc, poll, histVars, used>>

\* An execution without a command ID is failed at once, one after the other.
FailNoCommand(r, s) ==
  /\ phase[r] = "partition"
  /\ pc[r][s] = "noCmd" /\ Busy(r) = {}
  /\ \E ok \in BOOLEAN :
       /\ Statement(ok)
       /\ row' = IF ok THEN [row EXCEPT ![s].status = "failed"] ELSE row
       /\ unsaved' = IF ok THEN unsaved ELSE unsaved \cup {s}
  /\ Goto(r, s, "tally", [mem[r][s] EXCEPT !.status = "failed"])
  /\ UNCHANGED <<batch, ssmVars, phase, verdict, proc, poll, tallied>>

\* Mutant of OpenPool: with nothing left to poll the run returns at once.
OpenPoolOrReturn(r) ==
  /\ phase[r] = "partition"
  /\ \A s \in Slots : pc[r][s] \in {"none", "queued", "done"}
  /\ phase' = [phase EXCEPT ![r] =
                 IF \E s \in Slots : pc[r][s] = "queued" THEN "pool" ELSE "done"]
  /\ UNCHANGED <<dbVars, ssmVars, pc, mem, verdict, proc, poll, histVars, used>>

\* When the partition is over the worker pool starts on the others.
OpenPool(r) ==
  /\ phase[r] = "partition"
  /\ \A s \in Slots : pc[r][s] \in {"none", "queued", "done"}
  /\ phase' = [phase EXCEPT ![r] = "pool"]
  /\ UNCHANGED <<dbVars, ssmVars, pc, mem, verdict, proc, poll, histVars, used>>

\* Mark the execution running again, an error is only logged, and poll.
ResumeOne(r, s) ==
  /\ r \in Resumes /\ WorkerFree(r)
  /\ pc[r][s] = "queued"
  /\ \E ok \in BOOLEAN :
       /\ Statement(ok)
       /\ row' = IF ok THEN [row EXCEPT ![s].status = "running"] ELSE row
  /\ Goto(r, s, "poll", [mem[r][s] EXCEPT !.status = "running"])
  /\ UNCHANGED <<batch, ssmVars, phase, verdict, proc, poll, histVars>>

-----------------------------------------------------------------------------
(* Crashes, and RecoverOrphanedJobs at the start of each process.          *)

\* The server process dies, by a signal or its own exit: main does not wait
\* for job goroutines.  Requests not yet made can still be made after a restart.
Crash ==
  /\ proc["server"] # "stopped"
  /\ used.crashes < MaxCrashes
  /\ used' = [used EXCEPT !.crashes = @ + 1]
  /\ proc' = [proc EXCEPT !["server"] = "stopped"]
  /\ phase' = [r \in Runs |-> IF phase[r] = "idle" THEN "idle" ELSE "done"]
  /\ pc' = [r \in Runs |-> [s \in Slots |-> "none"]]
  /\ mem' = [r \in Runs |-> [s \in Slots |-> NoRow]]
  /\ verdict' = [r \in Runs |-> "none"]
  /\ poll' = [s \in Slots |-> "none"]
  /\ UNCHANGED <<dbVars, ssmVars, histVars>>

\* The server goes on to serve; the TUI touches the job tables no more.
AfterRecovery(p) == IF p = "server" THEN "ready" ELSE "stopped"

\* Query for pending or running batches; an error skips the whole recovery.
Boot(p) ==
  /\ proc[p] = "stopped"
  /\ IF p = "tui" THEN used.launches < MaxLaunches ELSE TRUE
  /\ \/ /\ proc' = [proc EXCEPT ![p] =
                      IF batch.status \in {"pending", "running"}
                      THEN "rows" ELSE AfterRecovery(p)]
        /\ used' = IF p = "tui" THEN [used EXCEPT !.launches = @ + 1] ELSE used
     \/ /\ p = "server"
        /\ Statement(FALSE)
        /\ proc' = [proc EXCEPT ![p] = AfterRecovery(p)]
  /\ UNCHANGED <<dbVars, ssmVars, memVars, poll, histVars>>

\* Mutant of RecoverRows: every execution of the batch is marked interrupted.
RecoverAllRows(p) ==
  /\ proc[p] = "rows"
  /\ Statement(TRUE)
  /\ row' = [s \in Slots |-> IF row[s].status = "none" THEN row[s]
                             ELSE [row[s] EXCEPT !.status = "interrupted"]]
  /\ proc' = [proc EXCEPT ![p] = "batch"]
  /\ UNCHANGED <<batch, ssmVars, memVars, poll, histVars>>

\* The executions first: pending or running becomes interrupted.
RecoverRows(p) ==
  /\ proc[p] = "rows"
  /\ \E ok \in BOOLEAN :
       /\ Statement(ok)
       /\ row' = IF ok THEN [s \in Slots |->
                              IF row[s].status = "running"
                              THEN [row[s] EXCEPT !.status = "interrupted"] ELSE row[s]]
                       ELSE row
  /\ proc' = [proc EXCEPT ![p] = "batch"]
  /\ UNCHANGED <<batch, ssmVars, memVars, poll, histVars>>

\* Then the batch, whatever its status is by now.
RecoverBatch(p) ==
  /\ proc[p] = "batch"
  /\ \E ok \in BOOLEAN :
       /\ Statement(ok)
       /\ batch' = IF ok THEN [batch EXCEPT !.status = "interrupted"] ELSE batch
  /\ proc' = [proc EXCEPT ![p] = AfterRecovery(p)]
  /\ UNCHANGED <<row, ssmVars, memVars, poll, histVars>>

-----------------------------------------------------------------------------
(* handleGetCommandStatus: read the row, ask SSM, write SSM's word back.   *)

\* The row is found by its command ID and SSM is asked.  Its word is to be
\* written when it differs from the row's status or when output arrived; a
\* request that writes nothing (an SSM error, no change) is no step here.
CheckAsk(s) ==
  /\ Serving
  /\ row[s].cmd /\ poll[s] = "none"
  /\ used.polls < MaxPolls
  /\ used' = [used EXCEPT !.polls = @ + 1]
  /\ poll' = [poll EXCEPT ![s] = ssm[s]]
  /\ UNCHANGED <<dbVars, ssmVars, memVars, proc, histVars>>

CheckWrite(s) ==
  /\ poll[s] # "none"
  /\ \E ok \in BOOLEAN :
       /\ Statement(ok)
       /\ row' = IF ok THEN [row EXCEPT ![s].status = poll[s]] ELSE row
  /\ poll' = [poll EXCEPT ![s] = "none"]
  /\ UNCHANGED <<batch, ssmVars, memVars, proc, histVars>>

-----------------------------------------------------------------------------
\* SSM (external): a command runs and ends, by itself.
SsmEnds(s) ==
  /\ ssm[s] = "InProgress"
  /\ \E st \in {"Success", "Failed"} : ssm' = [ssm EXCEPT ![s] = st]
  /\ UNCHANGED <<dbVars, sent, memVars, proc, poll, histVars, used>>

Worker ==
  \/ MarkRunning
  \/ \E s \in Slots : CreateRow(s) \/ Send(s) \/ SaveCommand(s)
  \/ \E r \in Runs :
       \/ ResumeLoad(r) \/ ResumeMark(r) \/ OpenPool(r) \/ FinalizeLoad(r) \/ FinalizeStore(r)
       \/ \E s \in Slots :
            \/ FailNoCommand(r, s) \/ ResumeOne(r, s)
            \/ WaitForDone(r, s) \/ SaveOutcome(r, s) \/ Tally(r, s)

Recovery == \E p \in Procs : RecoverRows(p) \/ RecoverBatch(p)

Next ==
  \/ StartBatch
  \/ \E r \in Resumes : ResumeCheck(r)
  \/ Worker
  \/ Crash
  \/ \E p \in Procs : Boot(p)
  \/ Recovery
  \/ \E s \in Slots : CheckAsk(s) \/ CheckWrite(s)
  \/ \E s \in Slots : SsmEnds(s)

Spec == Init /\ [][Next]_vars
=============================================================================

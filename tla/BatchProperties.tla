-------------------------- MODULE BatchProperties --------------------------
(***************************************************************************)
(* What BatchRunner guarantees, what the source's comments say of it, and  *)
(* the invariants its proofs rest on.                                      *)
(***************************************************************************)
EXTENDS BatchRunner

\* A script is sent to an instance of the request at most once, whatever
\* crashes, resumes, failing statements or second processes come between:
\* scripts patch and reboot hosts, and resume only ever polls.
SentOnce == \A s \in Slots : sent[s] <= 1

\* No script reaches SSM without an executions row that tells of it: runOne
\* inserts the row first and skips the Send when that is refused.
SentIsRecorded == \A s \in Slots : ssm[s] # "none" => row[s].status # "none"

\* A row says completed only if SSM said Success of that very command, and the
\* batch counts a completion only if some command succeeded: no interleaving of
\* workers, resumes, recoveries and status polls makes a success up.
SuccessIsReal ==
  /\ \A s \in Slots : row[s].status \in {"completed", "Success"} => ssm[s] = "Success"
  /\ batch.completed > 0 => \E s \in Slots : ssm[s] = "Success"

\* Nobody else works on the batch: one resume request at a time and no TUI
\* start while the server runs.
SoleOwner == ~Overlap /\ MaxLaunches = 0

\* ... and nobody polls the status of a command through the API.
Unpolled == SoleOwner /\ MaxPolls = 0

\* Under a sole owner an instance is added to the batch counters at most once
\* over all runs of the batch, across any crashes and resumes, unless the
\* database refused its outcome: the row is stored before the counter moves.
TalliedOnce == SoleOwner => \A s \in Slots : s \notin unsaved => tallied[s] <= 1

\* Such a batch that has ended with no failed statement leaves no executions row
\* behind in a state that waits for something, whatever crashes it went through.
EndedRowsSettled ==
  Unpolled /\ batch.status \in Terminal /\ used.faults = 0
    => \A s \in Slots : row[s].status \in Terminal \cup {"none"}

\* An undisturbed batch ends only when every instance is accounted for: each
\* row has its outcome and the counters are exactly the rows' outcomes.
ExactTally ==
  Unpolled /\ batch.status \in Terminal /\ used.crashes = 0 /\ used.faults = 0
    => /\ batch.completed = Cardinality({s \in Slots : row[s].status = "completed"})
       /\ batch.failed = Cardinality({s \in Slots : row[s].status = "failed"})
       /\ batch.completed + batch.failed = Total

\* Under a sole owner and without status polls an outcome that is stored is
\* never taken back: resume works on interrupted rows only and recovery leaves
\* the terminal ones alone.
OutcomeSticks ==
  [][Unpolled => \A s \in Slots : row[s].status \in Terminal => row'[s] = row[s]]_vars

\* runner.go:377: "All-failed -> BatchStatusFailed; any successes ->
\* BatchStatusCompleted."  A batch that ended as completed has a success.
CompletedHasSuccess ==
  batch.status = "completed" => \E s \in Slots : row[s].status = "completed"

\* runner.go:269: of an execution without a command_id "SSM never received the
\* Send", so resumeRun fails it at once.
NoCommandMeansUnsent ==
  \A r \in Resumes, s \in Slots : pc[r][s] = "noCmd" => ssm[s] = "none"

\* recovery.go:39: "Mark non-terminal executions interrupted first so the batch
\* row is only updated after its children are consistent."  When a recovery
\* without a failed statement turns to the batch no execution is under way.
RecoveredChildrenConsistent ==
  proc["server"] = "batch" /\ used.faults = 0
    => \A s \in Slots : row[s].status \notin {"running", "InProgress"}

\* runner.go:257: a batch that is not interrupted "cannot be resumed", nor is
\* it (resume_test.go, TestResume_NotInterrupted_ReturnsError): a resume that
\* is under way keeps a second one out.
OneResumeAtATime ==
  \A q, r \in Resumes :
    {phase[q], phase[r]} \subseteq {"partition", "pool", "store"} => q = r

\* What the batch row shows is a JobLifecycle: with a sole owner and no failed
\* statement the runs, crashes, recoveries and resumes implement it.
Lifecycle == INSTANCE JobLifecycle WITH
  status <- batch.status, completed <- batch.completed, failed <- batch.failed

LifecycleSpec == Lifecycle!Spec

\* The Go scheduler runs every goroutine that can run, a server that died is
\* started again, and recovery, once begun, runs to its end.  No fairness for
\* SSM or for any request: WaitForDone gives up at its deadline by itself.
Fairness == WF_vars(Worker) /\ WF_vars(Recovery) /\ WF_vars(Boot("server"))

FairSpec == Spec /\ Fairness

\* A batch under way ends or is marked interrupted: it does not stay pending or
\* running for ever, the reason RecoverOrphanedJobs is there.
JobSettles ==
  batch.status \in {"pending", "running"}
    ~> batch.status \in Terminal \cup {"interrupted"}

(***************************************************************************)
(* Inductive invariants.                                                   *)
(***************************************************************************)

\* Sends are made by the Start run alone, one per slot that has not been sent:
\* the run begins once, and no slot of it goes back to queued.
SendInv ==
  \A s \in Slots :
    /\ sent[s] \in {0, 1}
    /\ phase[Start] \in {"idle", "mark"} => sent[s] = 0
    /\ pc[Start][s] \in {"queued", "send"} => sent[s] = 0 /\ phase[Start] = "pool"

\* What a worker is about to write over a row is an execution; the row is there
\* before the Send, and before anything that comes of it.
RecordInv ==
  /\ \A r \in Runs, s \in Slots :
       pc[r][s] \in {"send", "saveCmd", "poll", "save"} => mem[r][s].status # "none"
  /\ \A s \in Slots :
       row[s].status = "none" =>
         ssm[s] = "none" /\ pc[Start][s] # "send" /\ poll[s] = "none" /\ ~row[s].cmd

Active(r) == phase[r] \notin {"idle", "done"}

\* Under a sole owner at most one run is active, none while the server is down
\* or recovering, and the batch is not marked interrupted under an active run
\* except during a resume request.
OwnerInv ==
  /\ proc["tui"] = "stopped"
  /\ proc["server"] # "ready" => \A r \in Runs : ~Active(r)
  /\ proc["server"] \in {"rows", "batch"} => phase[Start] # "idle"
  /\ \A q, r \in Runs : Active(q) /\ Active(r) => q = r
  /\ \A r \in Runs : Active(r) /\ (r = Start \/ phase[r] \notin {"load", "mark"})
                       => batch.status # "interrupted"
  /\ phase[Start] = "idle" => batch.status = "none" /\ \A r \in Runs : ~Active(r)
  /\ \A r \in Runs, s \in Slots :
       pc[r][s] \notin {"none", "done"} => phase[r] \in {"mark", "partition", "pool"}

\* An execution in one of these states is, or will be, taken up by somebody.
Reopenable == {"running", "interrupted"}

\* A slot that a run still works on is not in the counters yet; one that is, or
\* is about to be, has a row that nobody takes up again.  A slot whose outcome
\* could not be stored is excepted.
SlotInv ==
  /\ \A s \in Slots \ unsaved :
       /\ tallied[s] <= 1
       /\ tallied[s] > 0 => row[s].status \notin Reopenable
       /\ \A r \in Runs :
            /\ pc[r][s] \notin {"none", "done"} => tallied[s] = 0
            /\ pc[r][s] = "tally" => row[s].status \notin Reopenable
  /\ \A s \in Slots :
       /\ pc[Start][s] = "queued" => row[s].status = "none"
       /\ phase[Start] \in {"idle", "mark"} =>
            row[s].status = "none" /\ tallied[s] = 0 /\ pc[Start][s] = "none"
  /\ \A r \in Runs, s \in Slots : pc[r][s] = "save" => mem[r][s].status \in Terminal

TallyInv == OwnerInv /\ SlotInv

\* The words of the two vocabularies that tell of a success.
Good == {"completed", "Success"}

\* Wherever a success is held - in a row, in a worker, in the answer of a status
\* poll, in the counter - SSM said it; and SSM has commands of slots sent only.
SuccessInv ==
  /\ \A s \in Slots :
       /\ row[s].status \in Good => ssm[s] = "Success"
       /\ poll[s] = "Success" => ssm[s] = "Success"
       /\ \A r \in Runs : mem[r][s].status = "completed" => ssm[s] = "Success"
       /\ sent[s] = 0 => ssm[s] = "none"
  /\ batch.completed > 0 => \E s \in Slots : ssm[s] = "Success"

\* Up to the save of its outcome a worker has a row without an outcome, and what
\* it will save before then is none either.
OutcomeInv ==
  /\ \A s \in Slots : poll[s] = "none"
  /\ \A r \in Runs, s \in Slots :
       /\ pc[r][s] \in {"noCmd", "queued", "send", "saveCmd", "poll", "save"}
            => row[s].status \notin Terminal
       /\ pc[r][s] \in {"send", "saveCmd"} => mem[r][s].status = "running"

\* The steps at which a worker has its row marked running.
Working == {"send", "saveCmd", "poll", "save"}

Counted == {s \in Slots : tallied[s] > 0}

\* Up to the first failed statement the batch status tells where the sole owner
\* stands, its counters are the slots counted, and a verdict stays right until
\* it is written.
JobInv ==
  used.faults = 0 =>
    /\ unsaved = {}
    /\ batch.completed + batch.failed = Cardinality(Counted)
    /\ phase[Start] = "mark" => batch.status = "pending"
    /\ \A r \in Resumes : phase[r] \in {"load", "mark"} => batch.status = "interrupted"
    /\ \A r \in Runs :
         /\ phase[r] \in {"partition", "pool", "store"} => batch.status = "running"
         /\ phase[r] = "store" =>
              verdict[r] = IF batch.failed = Total THEN "failed" ELSE "completed"
         /\ \A s \in Slots :
              pc[r][s] \in Working \cup {"tally"} => phase[r] \in {"partition", "pool"}
    /\ proc["server"] \in {"rows", "batch"} => batch.status \in {"pending", "running"}

\* Until then, too, each row that waits for something has somebody who will see
\* to it: a worker, a run that loaded it, a recovery, or the next resume.
WaitingInv ==
  used.faults = 0 =>
    \A s \in Slots :
      /\ row[s].status \in {"none"} \cup Reopenable \cup Terminal
      /\ row[s].status = "running" =>
           /\ batch.status = "running"
           /\ \/ proc["server"] \in {"stopped", "rows"}
              \/ \E r \in Runs : pc[r][s] \in Working
      /\ row[s].status = "interrupted" =>
           \/ batch.status = "interrupted"
           \/ /\ batch.status = "running"
              /\ \/ proc["server"] \in {"stopped", "rows", "batch"}
                 \/ \E r \in Runs : pc[r][s] \in {"noCmd", "queued"}
      /\ \A r \in Resumes :
           phase[r] = "mark" /\ row[s].status = "interrupted" => pc[r][s] \in {"noCmd", "queued"}

\* Without a crash either, the Start run alone brings every slot to its end, and
\* each counter is the slots counted whose rows say so.
WholeInv ==
  used.faults = 0 /\ used.crashes = 0 =>
    /\ proc["server"] = "ready" /\ batch.status # "interrupted"
    /\ \A r \in Resumes : phase[r] = "idle"
    /\ phase[Start] \in {"idle", "mark", "pool", "store", "done"}
    /\ \A s \in Slots :
         /\ s \in Counted => row[s].status \in Terminal
         /\ pc[Start][s] = "tally" =>
              row[s].status \in Terminal /\ mem[Start][s].status = row[s].status
         /\ pc[Start][s] = "done" => s \in Counted
         /\ phase[Start] = "pool" => pc[Start][s] # "none"
         /\ phase[Start] \in {"store", "done"} => pc[Start][s] = "done"
    /\ batch.completed = Cardinality({s \in Counted : row[s].status = "completed"})
    /\ batch.failed = Cardinality({s \in Counted : row[s].status = "failed"})
    /\ batch.status \in Terminal => phase[Start] = "done"
=============================================================================

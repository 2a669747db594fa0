---------------------------- MODULE ResultViews ----------------------------
(***************************************************************************)
(* What the pages of the tools show of a batch: the result handlers of     *)
(* internal/api/compat_tools.go and compat_exec.go, and the parsers of the *)
(* scripts' output they use.                                               *)
(*                                                                         *)
(* A view is a function of the executions rows of this moment and of the   *)
(* batch row: rows appear as workers reach their instances, so a view may  *)
(* know of fewer instances than the batch has.  The output column is not   *)
(* in BatchRunner; it goes with a row's terminal status (see Columns).     *)
(*                                                                         *)
(* A line of output is a record whose field "is" tells its kind.           *)
(***************************************************************************)
EXTENDS BatchProperties, Sequences, FiniteSetsExt

CONSTANTS
  QCReport,    \* slot -> the lines LinuxPatcher prints there
  PostReport,  \* slot -> the lines of the post-patch validation
  RHSAReport   \* slot -> the lines of the compliance check

-----------------------------------------------------------------------------
(* The parsers.                                                            *)

Indices(lines, kind) == {i \in DOMAIN lines : lines[i].is = kind}

\* The last line of a kind is the one that counts; without any, the default.
LastOf(lines, kind, default) ==
  IF Indices(lines, kind) = {} THEN default ELSE lines[Max(Indices(lines, kind))].value

\* Lines of a QC report that begin with a parenthesis.
Titles == {"kernel", "available", "test", "disk", "other"}

\* The packages listed under the heading at line i: up to the next title, or to
\* a blank line once some package has been found, here or under a heading above.
Listed(lines, i, some) ==
  LET Found(j) == \E k \in i + 1 .. j - 1 : lines[k].is = "package"
      ends == {j \in i + 1 .. Len(lines) :
                 \/ lines[j].is \in Titles
                 \/ lines[j].is = "blank" /\ (some \/ Found(j))}
      last == IF ends = {} THEN Len(lines) ELSE Min(ends) - 1
  IN  {lines[j].value : j \in Indices(lines, "package") \cap (i + 1 .. last)}

AvailableKernels(lines) ==
  LET heads == Indices(lines, "available")
      Above(i) == \E h \in heads : h < i /\ Listed(lines, h, FALSE) # {}
  IN  UNION {Listed(lines, i, Above(i)) : i \in heads}

\* parseQCOutput.  A distribution that is not recognised leaves the one of an
\* earlier kernel line in place.
ParseQC(lines) ==
  LET known == {i \in Indices(lines, "kernel") : lines[i].value.distro # ""}
  IN  [current  |-> LastOf(lines, "kernel", [distro |-> "", base |-> ""]).base,
       distro   |-> IF known = {} THEN "" ELSE lines[Max(known)].value.distro,
       kernels  |-> AvailableKernels(lines),
       QCPassed |-> LastOf(lines, "test", FALSE) /\ LastOf(lines, "disk", FALSE)]

\* parseComplianceOutput: the last line that decodes as JSON decides.
ParseCompliance(lines) ==
  LET json == {i \in Indices(lines, "json") : lines[i].value.decodes}
      found == lines[Max(json)].value
      missing == {a \in DOMAIN found.results : found.results[a] = "MISSING"}
  IN  IF json = {} THEN [status |-> "UNKNOWN", missing |-> {}]
      ELSE IF found.error THEN [status |-> "ERROR", missing |-> {}]
      ELSE [status |-> IF missing = {} THEN "COMPLIANT" ELSE "NON_COMPLIANT",
            missing |-> missing]

\* parsePostPatchOutput: a line that says the kernel is the target, anywhere.
ValidationPassed(lines) == Indices(lines, "kernelPass") # {}

-----------------------------------------------------------------------------
(* The rows a handler loads.                                               *)

\* loadToolBatch preloads the rows there are; queued instances have none yet.
Executions == {s \in Slots : row[s].status # "none"}

WithStatus(st) == {s \in Executions : row[s].status = st}

\* Mutant of Settled: failed executions are not counted as done.
SettledCompleted == WithStatus("completed")

Settled == WithStatus("completed") \cup WithStatus("failed")

\* What the output column can hold: the report of a completed execution; of a
\* failed one the report or nothing, as it failed on the host or before.
Columns(report) ==
  {[s \in Slots |-> IF s \in WithStatus("completed") \cup printed THEN report[s] ELSE <<>>] :
     printed \in SUBSET WithStatus("failed")}

-----------------------------------------------------------------------------
(* The views.                                                              *)

\* Instances that step 2 may be run on, and the group each belongs to.
Ready(output) ==
  {s \in WithStatus("completed") :
     LET info == ParseQC(output[s])
     IN  info.QCPassed /\ info.current # "" /\ info.distro # ""}

GroupKey(lines) == <<ParseQC(lines).distro, ParseQC(lines).current>>

Members(output, key) == {s \in Ready(output) : GroupKey(output[s]) = key}

\* handleQCResults merges the kernels of all the instances of a group.
QCResults(output) ==
  [total     |-> Cardinality(Executions),
   completed |-> Cardinality(Settled),
   groups    |-> [key \in {GroupKey(output[s]) : s \in Ready(output)} |->
                    [instances |-> Members(output, key),
                     kernels   |-> UNION {ParseQC(output[s]).kernels :
                                            s \in Members(output, key)}]]]

\* handleQCLatestStep1Results keeps those of the row that was inserted first.
LatestStep1(output, first) ==
  [key \in {GroupKey(output[s]) : s \in Ready(output)} |->
     [instances |-> Members(output, key),
      kernels   |-> ParseQC(output[first[key]]).kernels]]

\* handleLinuxQCPostResults sorts the completed ones by what was validated.
PostResults(output) ==
  LET passed == {s \in WithStatus("completed") : ValidationPassed(output[s])}
  IN  [total |-> Cardinality(Executions), completed |-> Cardinality(Settled),
       passed |-> passed, failed |-> WithStatus("completed") \ passed]

\* handleSFTBatchStatus: the batch's own status, and the rows'; a row that is
\* neither completed nor failed is running.
SFTBatchStatus ==
  [status |-> batch.status, completed |-> Cardinality(Settled),
   total |-> Cardinality(Executions),
   results |-> [s \in Executions |-> CASE row[s].status = "completed" -> "success"
                                       [] row[s].status = "failed" -> "failed"
                                       [] OTHER -> "running"]]

\* handleScriptRunnerResults: rows by status.  SSM's own words are not counted.
StatusCounts ==
  [st \in {"pending", "running", "completed", "failed", "interrupted"} |->
     Cardinality(WithStatus(st))]

\* handleRHSAResults: the status of the batch is made up from the rows.  (The
\* override for a non-zero exit code never applies: a status is always there.)
RHSAResults(output) ==
  [status |-> IF StatusCounts["pending"] + StatusCounts["running"] > 0 THEN "running"
              ELSE IF StatusCounts["failed"] > 0 THEN "completed_with_errors"
              ELSE "completed",
   compliance |-> [s \in Settled |-> ParseCompliance(output[s])]]

\* handleRHSADownload and handleDownloadResults: one line for each row.
RHSADownload(output) == [s \in Executions |-> <<row[s].status, ParseCompliance(output[s])>>]
ScriptDownload == [s \in Executions |-> row[s].status]

-----------------------------------------------------------------------------
(* Properties.                                                             *)

\* When an undisturbed batch has ended every page agrees with it and with the
\* others, although each computes its answer from other columns: all instances
\* are listed, as many are done as the batch counted, nothing is shown as still
\* running, the lists by outcome split what the batch counted as completed, the
\* download repeats the page, and the page that is loaded again groups the
\* instances as the page that polled.
FinishedViewsAgree ==
  Unpolled /\ batch.status \in Terminal /\ used.crashes = 0 /\ used.faults = 0 =>
    /\ \A o \in Columns(QCReport) :
         /\ QCResults(o).total = Total
         /\ QCResults(o).completed = batch.completed + batch.failed
         /\ \A first \in [DOMAIN QCResults(o).groups -> Slots] :
              \A key \in DOMAIN QCResults(o).groups :
                LET page == QCResults(o).groups[key]  again == LatestStep1(o, first)[key]
                IN  /\ again.instances = page.instances
                    /\ first[key] \in page.instances => again.kernels \subseteq page.kernels
    /\ \A o \in Columns(PostReport) :
         Cardinality(PostResults(o).passed) + Cardinality(PostResults(o).failed)
           = batch.completed
    /\ \A o \in Columns(RHSAReport) :
         /\ RHSAResults(o).status = IF batch.failed > 0 THEN "completed_with_errors"
                                    ELSE "completed"
         /\ \A s \in Slots :
              RHSADownload(o)[s] = <<ScriptDownload[s], RHSAResults(o).compliance[s]>>
    /\ SFTBatchStatus.completed = Total
    /\ \A s \in Slots : SFTBatchStatus.results[s] # "running"
    /\ StatusCounts["completed"] = batch.completed /\ StatusCounts["failed"] = batch.failed

\* Every group stays, with its instances and the kernels on offer, and as many
\* instances are listed and done as before.
Grown(page, next) ==
  /\ page.total <= next.total /\ page.completed <= next.completed
  /\ \A key \in DOMAIN page.groups :
       /\ key \in DOMAIN next.groups
       /\ page.groups[key].instances \subseteq next.groups[key].instances
       /\ page.groups[key].kernels \subseteq next.groups[key].kernels

\* What a page has once shown of an instance stands, through crashes, recovery
\* and resumes: an instance offered for step 2 stays in its group, a validation
\* result is not taken back, and no count of finished instances goes down.
ShownResultsStand ==
  [][Unpolled /\ row' # row =>
       /\ Grown(QCResults(QCReport), QCResults(QCReport)')
       /\ PostResults(PostReport).passed \subseteq PostResults(PostReport)'.passed
       /\ PostResults(PostReport).failed \subseteq PostResults(PostReport)'.failed]_vars
=============================================================================

----------------------------- MODULE OrgRunner -----------------------------
(***************************************************************************)
(* One organisation-wide batch: OrgRunner (internal/exec/org.go).          *)
(*                                                                         *)
(* VisitOrganization (gorg-aws, external) calls execInRegion for the       *)
(* regions of all accounts, side by side.  Each call lists its hosts, adds *)
(* their number to the batch's total and runs one goroutine per host, of   *)
(* which MaxPerRegion are past the semaphore.  As in BatchRunner a step is *)
(* one database statement or one call of AWS.  Here no error of a          *)
(* statement, except that of the executions insert, is even looked at.     *)
(*                                                                         *)
(* A "region" is one account in one region.  The module covers the batch   *)
(* within one life of the server.                                          *)
(***************************************************************************)
EXTENDS Integers, FiniteSets

CONSTANTS
  Regions,       \* the account and region pairs in scope
  Hosts,         \* the instances that may be found
  MaxPerRegion,  \* maxConcPerRegion
  MaxFaults      \* bound: database statements that return an error

ASSUME OrgAssumption ==
  /\ IsFiniteSet(Regions) /\ IsFiniteSet(Hosts)
  /\ MaxPerRegion \in Nat \ {0}
  /\ MaxFaults \in Nat

VARIABLES
  batch,    \* the execution_batches row
  row,      \* host -> status of its executions row
  ssm,      \* host -> state of its SSM command (external)
  phase,    \* where OrgRunner.run stands
  visit,    \* region -> where its execInRegion call stands
  targets,  \* region -> the hosts it found
  pc,       \* host -> where its goroutine stands
  mem,      \* host -> the status in that goroutine's models.Execution
  verdict,  \* the status run is about to write
  faults    \* statements that have failed

hostVars == <<row, ssm, pc, mem>>
runVars  == <<phase, visit, targets, verdict>>
vars     == <<batch, hostVars, runVars, faults>>

Terminal   == {"completed", "failed"}
Ended      == {"Success", "Failed"}
RowStatus  == {"none", "running", "failed"} \cup Ended
OrgBatch   == [status : {"none", "pending", "running"} \cup Terminal,
               total : Nat, completed : Nat, failed : Nat]
Steps      == {"none", "queued", "send", "saveCmd", "wait", "save", "tally", "done"}
Found      == UNION {targets[g] : g \in Regions}

TypeOK ==
  /\ batch \in OrgBatch
  /\ row \in [Hosts -> RowStatus]
  /\ ssm \in [Hosts -> {"none", "InProgress"} \cup Ended]
  /\ phase \in {"idle", "mark", "visit", "abort", "load", "store", "done"}
  /\ visit \in [Regions -> {"waiting", "found", "fan", "done"}]
  /\ targets \in [Regions -> SUBSET Hosts]
  /\ pc \in [Hosts -> Steps]
  /\ mem \in [Hosts -> RowStatus]
  /\ verdict \in Terminal \cup {"none"}
  /\ faults \in 0 .. MaxFaults

Init ==
  /\ batch = [status |-> "none", total |-> 0, completed |-> 0, failed |-> 0]
  /\ row = [h \in Hosts |-> "none"]
  /\ ssm = [h \in Hosts |-> "none"]
  /\ phase = "idle"
  /\ visit = [g \in Regions |-> "waiting"]
  /\ targets = [g \in Regions |-> {}]
  /\ pc = [h \in Hosts |-> "none"]
  /\ mem = [h \in Hosts |-> "none"]
  /\ verdict = "none"
  /\ faults = 0

Statement(ok) ==
  \/ ok /\ UNCHANGED faults
  \/ ~ok /\ faults < MaxFaults /\ faults' = faults + 1

-----------------------------------------------------------------------------
(* OrgRunner.Start and the head of OrgRunner.run.                          *)

StartBatch ==
  /\ phase = "idle"
  /\ phase' = "mark"
  /\ batch' = [batch EXCEPT !.status = "pending"]
  /\ UNCHANGED <<hostVars, visit, targets, verdict, faults>>

MarkRunning ==
  /\ phase = "mark"
  /\ phase' = "visit"
  /\ \E ok \in BOOLEAN :
       /\ Statement(ok)
       /\ batch' = IF ok THEN [batch EXCEPT !.status = "running"] ELSE batch
  /\ UNCHANGED <<hostVars, visit, targets, verdict>>

-----------------------------------------------------------------------------
(* execInRegion.                                                           *)

\* List the running hosts and keep those of the platform.  The call is over
\* when the listing fails or nothing is left.
ListRegion(g) ==
  /\ phase = "visit" /\ visit[g] = "waiting"
  /\ \/ visit' = [visit EXCEPT ![g] = "done"] /\ UNCHANGED targets
     \/ \E hs \in (SUBSET (Hosts \ Found)) \ {{}} :
          /\ targets' = [targets EXCEPT ![g] = hs]
          /\ visit' = [visit EXCEPT ![g] = "found"]
  /\ UNCHANGED <<batch, hostVars, phase, verdict, faults>>

\* Mutant of CountRegion: the region counts as one.
CountRegionOnce(g) ==
  /\ visit[g] = "found"
  /\ Statement(TRUE)
  /\ batch' = [batch EXCEPT !.total = @ + 1]
  /\ visit' = [visit EXCEPT ![g] = "fan"]
  /\ pc' = [h \in Hosts |-> IF h \in targets[g] THEN "queued" ELSE pc[h]]
  /\ UNCHANGED <<row, ssm, mem, phase, targets, verdict>>

\* Add the hosts to the total, then launch a goroutine for each.
CountRegion(g) ==
  /\ visit[g] = "found"
  /\ \E ok \in BOOLEAN :
       /\ Statement(ok)
       /\ batch' = IF ok THEN [batch EXCEPT !.total = @ + Cardinality(targets[g])] ELSE batch
  /\ visit' = [visit EXCEPT ![g] = "fan"]
  /\ pc' = [h \in Hosts |-> IF h \in targets[g] THEN "queued" ELSE pc[h]]
  /\ UNCHANGED <<row, ssm, mem, phase, targets, verdict>>

Busy(g) == {h \in targets[g] : pc[h] \notin {"queued", "done"}}

\* The goroutine of host h goes on to step with status st in memory.
Goto(h, step, st) ==
  /\ pc' = [pc EXCEPT ![h] = step]
  /\ mem' = [mem EXCEPT ![h] = st]

\* Mutant of CreateRow: the refused insert does not end the goroutine.
CreateRowOrNot(g, h) ==
  /\ h \in targets[g] /\ pc[h] = "queued"
  /\ Cardinality(Busy(g)) < MaxPerRegion
  /\ \E ok \in BOOLEAN :
       /\ Statement(ok)
       /\ row' = IF ok THEN [row EXCEPT ![h] = "running"] ELSE row
  /\ Goto(h, "send", "running")
  /\ UNCHANGED <<batch, ssm, runVars>>

\* Past the semaphore: insert the row; without it nothing is sent.
CreateRow(g, h) ==
  /\ h \in targets[g] /\ pc[h] = "queued"
  /\ Cardinality(Busy(g)) < MaxPerRegion
  /\ \/ /\ Statement(TRUE)
        /\ row' = [row EXCEPT ![h] = "running"]
        /\ Goto(h, "send", "running")
     \/ /\ Statement(FALSE)
        /\ Goto(h, "tally", "failed")
        /\ UNCHANGED row
  /\ UNCHANGED <<batch, ssm, runVars>>

\* SendCommand is accepted, refused, or accepted with its answer lost.
Send(h) ==
  /\ pc[h] = "send"
  /\ \/ ssm' = [ssm EXCEPT ![h] = "InProgress"] /\ Goto(h, "saveCmd", mem[h])
     \/ /\ \E st \in {"none", "InProgress"} : ssm' = [ssm EXCEPT ![h] = st]
        /\ Goto(h, "save", "failed")
  /\ UNCHANGED <<batch, row, runVars, faults>>

\* The command ID is saved; a refusal changes nothing in what follows.
SaveCommand(h) ==
  /\ pc[h] = "saveCmd"
  /\ \E ok \in BOOLEAN : Statement(ok) /\ row' = IF ok THEN [row EXCEPT ![h] = mem[h]] ELSE row
  /\ Goto(h, "wait", mem[h])
  /\ UNCHANGED <<batch, ssm, runVars>>

\* Mutant of WaitForDone: the answer is taken before the command has ended.
WaitForDoneRaw(h) ==
  /\ pc[h] = "wait"
  /\ Goto(h, "save", ssm[h])
  /\ UNCHANGED <<batch, row, ssm, runVars, faults>>

\* WaitForDone gives up, or SSM's own word becomes the execution's status.
WaitForDone(h) ==
  /\ pc[h] = "wait"
  /\ \/ Goto(h, "save", "failed")
     \/ ssm[h] \in Ended /\ Goto(h, "save", ssm[h])
  /\ UNCHANGED <<batch, row, ssm, runVars, faults>>

SaveOutcome(h) ==
  /\ pc[h] = "save"
  /\ \E ok \in BOOLEAN : Statement(ok) /\ row' = IF ok THEN [row EXCEPT ![h] = mem[h]] ELSE row
  /\ Goto(h, "tally", mem[h])
  /\ UNCHANGED <<batch, ssm, runVars>>

\* Whatever SSM answered, Failed too, counts as completed; an error as failed.
Tally(h) ==
  /\ pc[h] = "tally"
  /\ \E ok \in BOOLEAN :
       /\ Statement(ok)
       /\ batch' = IF ~ok THEN batch
                   ELSE IF mem[h] = "failed" THEN [batch EXCEPT !.failed = @ + 1]
                   ELSE [batch EXCEPT !.completed = @ + 1]
  /\ Goto(h, "done", "none")
  /\ UNCHANGED <<row, ssm, runVars>>

\* Mutant of RegionDone: the call waits only for hosts that were started.
RegionDoneEarly(g) ==
  /\ visit[g] = "fan" /\ Busy(g) = {}
  /\ visit' = [visit EXCEPT ![g] = "done"]
  /\ UNCHANGED <<batch, hostVars, phase, targets, verdict, faults>>

\* wg.Wait, and the call returns.
RegionDone(g) ==
  /\ visit[g] = "fan" /\ \A h \in targets[g] : pc[h] = "done"
  /\ visit' = [visit EXCEPT ![g] = "done"]
  /\ UNCHANGED <<batch, hostVars, phase, targets, verdict, faults>>

-----------------------------------------------------------------------------
(* The end of OrgRunner.run.                                               *)

\* VisitOrganization (external) returns: with every region done, or with an
\* error and no call of a region under way.
VisitEnds ==
  /\ phase = "visit"
  /\ \/ (\A g \in Regions : visit[g] = "done") /\ phase' = "load"
     \/ (\A g \in Regions : visit[g] \in {"waiting", "done"}) /\ phase' = "abort"
  /\ UNCHANGED <<batch, hostVars, visit, targets, verdict, faults>>

Abort ==
  /\ phase = "abort"
  /\ phase' = "done"
  /\ \E ok \in BOOLEAN :
       /\ Statement(ok)
       /\ batch' = IF ok THEN [batch EXCEPT !.status = "failed"] ELSE batch
  /\ UNCHANGED <<hostVars, visit, targets, verdict>>

\* Mutant of FinalLoad: a job that found no host is left as it is.
FinalLoadNonEmpty ==
  /\ phase = "load" /\ Statement(TRUE)
  /\ phase' = IF batch.total = 0 THEN "done" ELSE "store"
  /\ verdict' = IF batch.failed = batch.total THEN "failed" ELSE "completed"
  /\ UNCHANGED <<batch, hostVars, visit, targets>>

\* Load the counters.  If that fails the update that follows has no row to
\* update, and the batch keeps its status.
FinalLoad ==
  /\ phase = "load"
  /\ \/ /\ Statement(TRUE)
        /\ phase' = "store"
        /\ verdict' = IF batch.failed = batch.total /\ batch.total > 0
                      THEN "failed" ELSE "completed"
     \/ Statement(FALSE) /\ phase' = "done" /\ UNCHANGED verdict
  /\ UNCHANGED <<batch, hostVars, visit, targets>>

FinalStore ==
  /\ phase = "store"
  /\ phase' = "done"
  /\ \E ok \in BOOLEAN :
       /\ Statement(ok)
       /\ batch' = IF ok THEN [batch EXCEPT !.status = verdict] ELSE batch
  /\ UNCHANGED <<hostVars, visit, targets, verdict>>

\* SSM (external): a command ends, by itself.
SsmEnds(h) ==
  /\ ssm[h] = "InProgress"
  /\ \E st \in Ended : ssm' = [ssm EXCEPT ![h] = st]
  /\ UNCHANGED <<batch, row, pc, mem, runVars, faults>>

Job ==
  \/ MarkRunning \/ VisitEnds \/ Abort \/ FinalLoad \/ FinalStore
  \/ \E g \in Regions :
       \/ ListRegion(g) \/ CountRegion(g) \/ RegionDone(g)
       \/ \E h \in Hosts : CreateRow(g, h)
  \/ \E h \in Hosts : Send(h) \/ SaveCommand(h) \/ WaitForDone(h) \/ SaveOutcome(h) \/ Tally(h)

Next == StartBatch \/ Job \/ \E h \in Hosts : SsmEnds(h)

Spec == Init /\ [][Next]_vars

-----------------------------------------------------------------------------
(* Properties.                                                             *)

\* No command runs on a host without an executions row that tells of it, also
\* when statements fail: the goroutine ends when the insert is refused.
SentIsRecorded == \A h \in Hosts : ssm[h] # "none" => row[h] # "none"

\* A batch that has ended waits for no host in any region, and as long as every
\* statement succeeded each host found has a row that no goroutine will touch.
EndedMeansQuiet ==
  batch.status \in Terminal =>
    /\ \A g \in Regions : visit[g] \in {"waiting", "done"}
    /\ \A h \in Found : pc[h] = "done" /\ (faults = 0 => row[h] \notin {"none", "running"})

\* As long as no statement failed, the batch row goes through a FanOut: regions
\* that report at different times never show more results than instances, and
\* the end comes when all are in.
Client == INSTANCE FanOut WITH
  Limit <- Cardinality(Hosts), status <- batch.status, total <- batch.total,
  completed <- batch.completed, failed <- batch.failed

FanOutSpec == Client!Init /\ [][faults' = 0 => Client!Next]_batch

\* Every goroutine of the job that can run is run.  Nothing is assumed of SSM.
FairSpec == Spec /\ WF_vars(Job)

\* An organisation-wide job ends, unless a statement of it failed: no region, an
\* empty or failing one either, and no host behind the semaphore holds it up.
OrgSettles ==
  batch.status \in {"pending", "running"} ~> batch.status \in Terminal \/ faults > 0
=============================================================================

-------------------------- MODULE BatchEndProofs --------------------------
(***************************************************************************)
(* What is true of a batch of BatchRunner that has ended: no row is left   *)
(* waiting, without a crash its counters are the rows' outcomes, and the   *)
(* result pages of ResultViews agree with them and with each other.        *)
(***************************************************************************)
EXTENDS BatchLifecycleProofs, ResultViews

USE DEF dbVars, ssmVars, memVars, histVars

-----------------------------------------------------------------------------
(* Each row that waits has somebody who sees to it.                        *)

\* What a worker's step leaves in its row.
LEMMA WaitingMoves ==
  ASSUME TypeOK, SlotInv, OutcomeInv, used'.faults = 0,
         NEW r \in Runs, NEW s \in Slots, WorkerStep(r, s)
  PROVE  \/ row'[s].status \in Terminal
         \/ row'[s].status = "running" /\ pc'[r][s] \in Working
         \/ row'[s] = row[s] /\ pc[r][s] \in Working /\ pc'[r][s] \in Working
         \/ row'[s] = row[s] /\ pc[r][s] = "tally"
  <1> /\ pc \in [Runs -> [Slots -> Steps]] /\ mem \in [Runs -> [Slots -> Held]]
      /\ row \in [Slots -> Row] /\ Start \in Runs
    BY Shapes
  <1> DEFINE to(step) == pc'[r][s] = step
  <1>0. ASSUME NEW step, NEW ex, Goto(r, s, step, ex) PROVE to(step)
    BY <1>0 DEF Goto
  <1>1. CASE r = Start /\ CreateRow(s)
    <2>1. /\ Goto(r, s, "send", [status |-> "running", cmd |-> FALSE])
          /\ row' = [row EXCEPT ![s] = [status |-> "running", cmd |-> FALSE]]
      BY <1>1, Unfailing DEF CreateRow
    <2> QED
      BY <1>0, <2>1 DEF Working
  <1>2. CASE r = Start /\ Send(s)
    BY <1>0, <1>2 DEF Send, Working
  <1>3. CASE r = Start /\ SaveCommand(s)
    <2>1. Goto(r, s, "poll", mem[r][s]) /\ row' = [row EXCEPT ![s] = mem[r][s]]
      BY <1>3, Unfailing DEF SaveCommand
    <2>2. mem[r][s].status = "running"
      BY <1>3 DEF SaveCommand, OutcomeInv
    <2> QED
      BY <1>0, <2>1, <2>2 DEF Working
  <1>4. CASE FailNoCommand(r, s)
    <2>1. row' = [row EXCEPT ![s].status = "failed"]
      BY <1>4, Unfailing DEF FailNoCommand
    <2>2. row'[s].status = "failed"
      BY <2>1 DEF Row
    <2> QED
      BY <2>2 DEF Terminal
  <1>5. CASE ResumeOne(r, s)
    <2>1. row' = [row EXCEPT ![s].status = "running"] /\ to("poll")
      BY <1>0, <1>5, Unfailing DEF ResumeOne
    <2>2. row'[s].status = "running"
      BY <2>1 DEF Row
    <2> QED
      BY <2>1, <2>2 DEF Working
  <1>6. CASE WaitForDone(r, s)
    BY <1>0, <1>6 DEF WaitForDone, Working
  <1>7. CASE SaveOutcome(r, s)
    <2>1. row' = [row EXCEPT ![s] = mem[r][s]]
      BY <1>7, Unfailing DEF SaveOutcome
    <2>2. mem[r][s].status \in Terminal
      BY <1>7 DEF SaveOutcome, SlotInv
    <2> QED
      BY <2>1, <2>2
  <1>8. CASE Tally(r, s)
    BY <1>8 DEF Tally
  <1> QED
    BY <1>1, <1>2, <1>3, <1>4, <1>5, <1>6, <1>7, <1>8 DEF WorkerStep

\* While a run is in its pool or partition only its own workers see to rows.
LEMMA WaitingAtWork ==
  ASSUME TypeOK, OwnerInv, JobInv, WaitingInv, used.faults = 0,
         NEW r \in Runs, phase[r] \in {"partition", "pool", "store"}, NEW s \in Slots
  PROVE  /\ batch.status = "running" /\ proc["server"] = "ready"
         /\ row[s].status = "running" => pc[r][s] \in Working
         /\ row[s].status = "interrupted" => pc[r][s] \in {"noCmd", "queued"}
  <1>1. Active(r)
    BY DEF Active
  <1>2. /\ \A q \in Runs : q # r => pc[q][s] \in {"none", "done"}
        /\ proc["server"] = "ready"
    BY <1>1, Alone
  <1>3. batch.status = "running"
    BY DEF JobInv
  <1> QED
    BY <1>2, <1>3 DEF WaitingInv, Working

LEMMA WaitingWorker ==
  ASSUME TypeOK, OwnerInv, SlotInv, OutcomeInv, JobInv, WaitingInv,
         used.faults = 0, used'.faults = 0,
         NEW r \in Runs, NEW s \in Slots, WorkerStep(r, s)
  PROVE  WaitingInv'
  <1> row \in [Slots -> Row] /\ pc \in [Runs -> [Slots -> Steps]] /\ Resumes \subseteq Runs
    BY Shapes
  <1>1. /\ phase' = phase /\ proc' = proc /\ batch'.status = batch.status
        /\ pc[r][s] \notin {"none", "done"}
        /\ \A q \in Runs, x \in Slots : q # r \/ x # s => pc'[q][x] = pc[q][x]
        /\ \A x \in Slots : x # s => row'[x] = row[x]
    BY WorkerMoves
  <1>2. phase[r] \in {"partition", "pool"} /\ Active(r)
    <2>1. CASE pc[r][s] \in Working \cup {"tally"}
      BY <2>1 DEF JobInv, Active
    <2>2. CASE (r = Start /\ CreateRow(s)) \/ FailNoCommand(r, s) \/ ResumeOne(r, s)
      BY <2>2 DEF CreateRow, FailNoCommand, ResumeOne, WorkerFree, Active
    <2> QED
      BY <2>1, <2>2
      DEF WorkerStep, Send, SaveCommand, WaitForDone, SaveOutcome, Tally, Working
  <1>3. batch.status = "running"
    BY <1>2 DEF JobInv
  <1>4. \A q \in Resumes : phase[q] # "mark"
    BY <1>2, Alone
  <1>5. ASSUME NEW x \in Slots
        PROVE  /\ row'[x].status \in {"none"} \cup Reopenable \cup Terminal
               /\ row'[x].status = "running" => \E q \in Runs : pc'[q][x] \in Working
               /\ row'[x].status = "interrupted" =>
                    \E q \in Runs : pc'[q][x] \in {"noCmd", "queued"}
    <2>0. /\ row[x].status = "running" => pc[r][x] \in Working
          /\ row[x].status = "interrupted" => pc[r][x] \in {"noCmd", "queued"}
          /\ row[x].status \in {"none"} \cup Reopenable \cup Terminal
      BY <1>2, WaitingAtWork DEF WaitingInv
    <2>1. CASE x # s
      BY <1>1, <2>0, <2>1
    <2>2. CASE x = s
      <3>1. \/ row'[s].status \in Terminal
            \/ row'[s].status = "running" /\ pc'[r][s] \in Working
            \/ row'[s] = row[s] /\ pc[r][s] \in Working /\ pc'[r][s] \in Working
            \/ row'[s] = row[s] /\ pc[r][s] = "tally"
        BY WaitingMoves
      <3> QED
        BY <2>0, <2>2, <3>1 DEF Working, Terminal, Reopenable
    <2> QED
      BY <2>1, <2>2
  <1> QED
    BY <1>1, <1>3, <1>4, <1>5 DEF WaitingInv

LEMMA WaitingRun ==
  ASSUME TypeOK, OwnerInv, SlotInv, JobInv, WaitingInv, used.faults = 0, used'.faults = 0,
         NEW r \in Runs,
         \/ r = Start /\ (StartBatch \/ MarkRunning)
         \/ r \in Resumes /\ (ResumeCheck(r) \/ ResumeLoad(r) \/ ResumeMark(r))
         \/ OpenPool(r) \/ FinalizeLoad(r) \/ FinalizeStore(r)
  PROVE  WaitingInv'
  <1> /\ phase \in [Runs -> Phases] /\ pc \in [Runs -> [Slots -> Steps]]
      /\ row \in [Slots -> Row] /\ Start \in Runs /\ Resumes \subseteq Runs
    BY Shapes
  <1>1. row' = row /\ proc' = proc
    BY DEF StartBatch, MarkRunning, ResumeCheck, ResumeLoad, ResumeMark, OpenPool, FinalizeLoad,
           FinalizeStore
  <1>2. \A q \in Runs : q # r => phase'[q] = phase[q] /\ pc'[q] = pc[q]
    <2>1. \A q \in Runs : q # r => phase'[q] = phase[q]
      BY DEF StartBatch, MarkRunning, ResumeCheck, ResumeLoad, ResumeMark, OpenPool,
             FinalizeLoad, FinalizeStore
    <2>2. \A q \in Runs : q # r => pc'[q] = pc[q]
      BY DEF StartBatch, MarkRunning, ResumeCheck, ResumeLoad, ResumeMark, OpenPool,
             FinalizeLoad, FinalizeStore
    <2> QED
      BY <2>1, <2>2
  <1>3. CASE r = Start /\ (StartBatch \/ MarkRunning)
    <2>1. \A s \in Slots : row'[s].status = "none"
      BY <1>1, <1>3 DEF StartBatch, MarkRunning, SlotInv
    <2> QED
      BY <2>1 DEF WaitingInv
  <1>4. CASE r \in Resumes /\ ResumeCheck(r)
    <2>1. pc' = pc /\ batch' = batch /\ phase'[r] = "load"
      BY <1>4 DEF ResumeCheck
    <2> QED
      BY <1>1, <1>2, <2>1 DEF WaitingInv
  <1>5. CASE r \in Resumes /\ ResumeLoad(r)
    <2>1. batch' = batch /\ phase[r] = "load"
          /\ pc' = [pc EXCEPT ![r] = [s \in Slots |-> ResumeStep(s)]]
      BY <1>5, Unfailing DEF ResumeLoad
    <2>2. batch.status = "interrupted"
      BY <1>5, <2>1 DEF JobInv
    <2>3. \A s \in Slots : row[s].status = "interrupted" => pc'[r][s] \in {"noCmd", "queued"}
      BY <2>1 DEF ResumeStep
    <2> QED
      BY <1>1, <1>2, <2>1, <2>2, <2>3 DEF WaitingInv
  <1>6. CASE r \in Resumes /\ ResumeMark(r)
    <2>1. /\ batch' = [batch EXCEPT !.status = "running"] /\ pc' = pc
          /\ phase[r] = "mark" /\ phase'[r] = "partition"
      BY <1>6, Unfailing DEF ResumeMark
    <2>2. batch.status = "interrupted" /\ batch'.status = "running"
      BY <1>6, <2>1, JobFields DEF JobInv
    <2> QED
      BY <1>1, <1>2, <1>6, <2>1, <2>2 DEF WaitingInv
  <1>7. CASE OpenPool(r) \/ FinalizeLoad(r)
    <2>1. pc' = pc /\ batch' = batch /\ phase'[r] # "mark"
      BY <1>7 DEF OpenPool, FinalizeLoad
    <2> QED
      BY <1>1, <1>2, <2>1 DEF WaitingInv
  <1>8. CASE FinalizeStore(r)
    <2>1. phase[r] = "store" /\ phase'[r] = "done"
      BY <1>8 DEF FinalizeStore
    <2>2. \A s \in Slots : pc[r][s] \in {"none", "done"}
      BY <2>1 DEF OwnerInv
    <2>3. \A s \in Slots : row[s].status \notin Reopenable
      BY <2>1, <2>2, WaitingAtWork DEF Reopenable, Working
    <2> QED
      BY <1>1, <2>3 DEF WaitingInv, Reopenable
  <1> QED
    BY <1>3, <1>4, <1>5, <1>6, <1>7, <1>8

LEMMA WaitingWorld ==
  ASSUME Unpolled, TypeOK, OwnerInv, JobInv, WaitingInv, used.faults = 0, used'.faults = 0,
         \/ Crash \/ UNCHANGED vars
         \/ \E p \in Procs : Boot(p) \/ RecoverRows(p) \/ RecoverBatch(p)
         \/ \E s \in Slots : SsmEnds(s)
  PROVE  WaitingInv'
  <1> /\ phase \in [Runs -> Phases] /\ pc \in [Runs -> [Slots -> Steps]]
      /\ row \in [Slots -> Row] /\ proc \in [Procs -> {"stopped", "rows", "batch", "ready"}]
      /\ Resumes \subseteq Runs /\ {"server", "tui"} = Procs
    BY Shapes DEF TypeOK, Procs
  <1>1. CASE UNCHANGED vars \/ \E s \in Slots : SsmEnds(s)
    <2>1. batch' = batch /\ row' = row /\ proc' = proc /\ phase' = phase /\ pc' = pc
      BY <1>1 DEF vars, SsmEnds
    <2> QED
      BY <2>1 DEF WaitingInv
  <1>2. CASE Crash
    <2>1. /\ batch' = batch /\ row' = row /\ proc'["server"] = "stopped"
          /\ \A r \in Runs : phase'[r] # "mark"
      BY <1>2 DEF Crash
    <2> QED
      BY <2>1 DEF WaitingInv
  <1>3. ASSUME NEW p \in Procs, Boot(p) \/ RecoverRows(p) \/ RecoverBatch(p)
        PROVE  WaitingInv'
    <2>1. p = "server"
      <3>1. used.launches \in Nat /\ MaxLaunches = 0
        BY DEF TypeOK, Budget, Unpolled, SoleOwner
      <3>2. CASE Boot(p)
        BY <3>1, <3>2 DEF Boot, Procs
      <3>3. CASE RecoverRows(p) \/ RecoverBatch(p)
        BY <3>3 DEF RecoverRows, RecoverBatch, OwnerInv, Procs
      <3> QED
        BY <1>3, <3>2, <3>3
    <2>2. /\ phase' = phase /\ pc' = pc /\ proc["server"] # "ready"
          /\ \A r \in Runs : phase[r] \in {"idle", "done"}
      BY <1>3, <2>1 DEF Boot, RecoverRows, RecoverBatch, OwnerInv, Active
    <2>3. \A r \in Runs, s \in Slots : pc[r][s] \in {"none", "done"}
      BY <2>2 DEF OwnerInv
    <2>4. CASE Boot(p)
      <3>1. batch' = batch /\ row' = row /\ proc["server"] = "stopped"
        BY <2>1, <2>4 DEF Boot
      <3>2. batch.status \in {"pending", "running"} => proc'["server"] = "rows"
        BY <2>1, <2>4, Unfailing DEF Boot
      <3> QED
        BY <2>2, <3>1, <3>2 DEF WaitingInv
    <2>5. CASE RecoverRows(p)
      <3>1. /\ batch' = batch /\ proc'["server"] = "batch"
            /\ row' = [s \in Slots |->
                         IF row[s].status = "running"
                         THEN [row[s] EXCEPT !.status = "interrupted"] ELSE row[s]]
        BY <2>1, <2>5, Unfailing DEF RecoverRows
      <3>2. \A s \in Slots :
              \/ row[s].status # "running" /\ row'[s] = row[s]
              \/ row[s].status = "running" /\ row'[s].status = "interrupted"
        BY <3>1 DEF Row
      <3> QED
        BY <2>2, <3>1, <3>2 DEF WaitingInv, Reopenable
    <2>6. CASE RecoverBatch(p)
      <3>1. row' = row /\ batch' = [batch EXCEPT !.status = "interrupted"]
            /\ proc["server"] = "batch"
        BY <2>1, <2>6, Unfailing DEF RecoverBatch
      <3>2. batch'.status = "interrupted"
        BY <3>1, JobFields
      <3>3. \A s \in Slots : row[s].status # "running"
        BY <2>3, <3>1 DEF WaitingInv, Working
      <3> QED
        BY <2>2, <3>1, <3>2, <3>3 DEF WaitingInv
    <2> QED
      BY <1>3, <2>4, <2>5, <2>6
  <1> QED
    BY <1>1, <1>2, <1>3

LEMMA WaitingStep ==
  ASSUME Unpolled, TypeOK, TallyInv, OutcomeInv, JobInv, WaitingInv, [Next]_vars
  PROVE  WaitingInv'
  <1> OwnerInv /\ SlotInv /\ Start \in Runs /\ Resumes \subseteq Runs
    BY DEF TallyInv, Runs
  <1>1. CASE used'.faults # 0
    BY <1>1 DEF WaitingInv
  <1>2. CASE used'.faults = 0
    <2>1. used.faults = 0
      BY <1>2, UsedStays
    <2>2. ASSUME NEW r \in Runs, NEW s \in Slots, WorkerStep(r, s)
          PROVE  WaitingInv'
      BY <1>2, <2>1, <2>2, WaitingWorker
    <2>3. ASSUME NEW r \in Runs,
                 \/ r = Start /\ (StartBatch \/ MarkRunning)
                 \/ r \in Resumes /\ (ResumeCheck(r) \/ ResumeLoad(r) \/ ResumeMark(r))
                 \/ OpenPool(r) \/ FinalizeLoad(r) \/ FinalizeStore(r)
          PROVE  WaitingInv'
      BY <1>2, <2>1, <2>3, WaitingRun
    <2>4. CASE \/ Crash \/ UNCHANGED vars
               \/ \E p \in Procs : Boot(p) \/ RecoverRows(p) \/ RecoverBatch(p)
               \/ \E s \in Slots : SsmEnds(s)
      BY <1>2, <2>1, <2>4, WaitingWorld
    <2> QED
      BY <2>2, <2>3, <2>4, NoPolls
      DEF Next, Worker, Recovery, WorkerStep, ResumeLoad, ResumeMark, ResumeOne
  <1> QED
    BY <1>1, <1>2

LEMMA UnpolledInvariant ==
  ASSUME Unpolled
  PROVE  Spec => [](TypeOK /\ TallyInv /\ JobInv /\ OutcomeInv /\ WaitingInv)
  <1>1. SoleOwner
    BY DEF Unpolled
  <1>2. Init => OutcomeInv /\ WaitingInv
    BY OwnerInit DEF Init, WaitingInv, NoRow, Runs
  <1>3. TypeOK /\ TallyInv /\ JobInv /\ OutcomeInv /\ WaitingInv /\ [Next]_vars =>
          OutcomeInv' /\ WaitingInv'
    BY OutcomeStep, WaitingStep
  <1>4. Spec => [](TypeOK /\ RecordInv /\ TallyInv /\ JobInv)
    BY <1>1, OwnerInvariant
  <1> QED
    BY <1>2, <1>3, <1>4, PTL DEF Spec

\* A batch that has ended with no failed statement leaves no executions row in a
\* state that waits for something, whatever crashes and resumes it went through:
\* with a sole owner and no status polls, for any size of the instance.
THEOREM EndedRowsSettledCorrect == Spec => []EndedRowsSettled
  <1>1. CASE Unpolled
    <2>1. TypeOK /\ TallyInv /\ JobInv /\ OutcomeInv /\ WaitingInv => EndedRowsSettled
      <3> SUFFICES ASSUME TypeOK, TallyInv, JobInv, WaitingInv, batch.status \in Terminal,
                          used.faults = 0, NEW s \in Slots
                   PROVE  row[s].status \in Terminal \cup {"none"}
        BY DEF EndedRowsSettled
      <3> QED
        BY DEF WaitingInv, Reopenable, Terminal
    <2> QED
      BY <1>1, <2>1, UnpolledInvariant, PTL
  <1>2. CASE ~Unpolled
    <2>1. EndedRowsSettled
      BY <1>2 DEF EndedRowsSettled
    <2> QED
      BY <2>1, PTL
  <1> QED
    BY <1>1, <1>2

-----------------------------------------------------------------------------
(* Without a crash the Start run does all of the work, and counts it.      *)

Counting(st) == {s \in Counted : row[s].status = st}

LEMMA CountingFinite ==
  ASSUME NEW st
  PROVE  Counting(st) \subseteq Counted /\ IsFiniteSet(Counting(st))
         /\ Cardinality(Counting(st)) \in Nat
  <1>1. Counting(st) \subseteq Counted
    BY DEF Counting
  <1> QED
    BY <1>1, CountedFinite, FS_Subset, FS_CardinalityType

\* Without a crash there is nobody but the Start run.
LEMMA OnlyStart ==
  ASSUME Unpolled, TypeOK, OwnerInv, WholeInv, used.faults = 0, used.crashes = 0, [Next]_vars,
         ~Crash
  PROVE  \/ \E s \in Slots : WorkerStep(Start, s)
         \/ StartBatch \/ MarkRunning \/ FinalizeLoad(Start) \/ FinalizeStore(Start)
         \/ UNCHANGED vars \/ \E s \in Slots : CheckAsk(s) \/ CheckWrite(s) \/ SsmEnds(s)
  <1>1. \A r \in Resumes : phase[r] = "idle"
    BY DEF WholeInv
  <1>2. ~\E p \in Procs : Boot(p) \/ RecoverRows(p) \/ RecoverBatch(p)
    <2> SUFFICES ASSUME NEW p \in Procs, Boot(p) \/ RecoverRows(p) \/ RecoverBatch(p)
                 PROVE  FALSE
      OBVIOUS
    <2>1. used.launches \in Nat /\ MaxLaunches = 0
      BY DEF TypeOK, Budget, Unpolled, SoleOwner
    <2>2. proc["server"] = "ready" /\ proc["tui"] = "stopped"
      BY DEF WholeInv, OwnerInv
    <2>3. ~Boot(p)
      <3>1. CASE p = "server"
        BY <2>2, <3>1 DEF Boot
      <3>2. CASE p = "tui"
        <4>1. Boot(p) => used.launches < MaxLaunches
          BY <3>2 DEF Boot
        <4> QED
          BY <2>1, <4>1
      <3> QED
        BY <3>1, <3>2 DEF Procs
    <2>4. ~RecoverRows(p) /\ ~RecoverBatch(p)
      BY <2>2 DEF RecoverRows, RecoverBatch, Procs
    <2> QED
      BY <2>3, <2>4
  <1>3. ~\E r \in Resumes : ResumeCheck(r) \/ ResumeLoad(r) \/ ResumeMark(r)
    BY <1>1 DEF ResumeCheck, ResumeLoad, ResumeMark, WholeInv
  <1>4. ASSUME NEW r \in Runs, OpenPool(r) PROVE FALSE
    BY <1>1, <1>4 DEF OpenPool, WholeInv, Runs
  <1>5. ASSUME NEW r \in Resumes, FinalizeLoad(r) \/ FinalizeStore(r) PROVE FALSE
    BY <1>1, <1>5 DEF FinalizeLoad, FinalizeStore
  <1>6. ASSUME NEW r \in Resumes, NEW s \in Slots, WorkerStep(r, s) PROVE FALSE
    <2>1. pc[r][s] \notin {"none", "done"} /\ r \in Runs
      BY <1>6, WorkerMoves DEF Runs
    <2> QED
      BY <1>1, <2>1 DEF OwnerInv
  <1> QED
    BY <1>2, <1>3, <1>4, <1>5, <1>6
    DEF Next, Worker, Recovery, WorkerStep, ResumeLoad, ResumeMark, ResumeOne, Runs

\* The Start run's worker: it counts its slot by the outcome in the slot's row.
LEMMA WholeWorker ==
  ASSUME Unpolled, TypeOK, OwnerInv, SlotInv, OutcomeInv, JobInv, WholeInv,
         used.faults = 0, used'.faults = 0, used.crashes = 0,
         NEW s \in Slots, WorkerStep(Start, s)
  PROVE  WholeInv'
  <1> /\ phase \in [Runs -> Phases] /\ pc \in [Runs -> [Slots -> Steps]]
      /\ mem \in [Runs -> [Slots -> Held]] /\ row \in [Slots -> Row]
      /\ tallied \in [Slots -> Nat] /\ Start \in Runs /\ Resumes \subseteq Runs
    BY Shapes
  <1>1. /\ phase' = phase /\ proc' = proc /\ batch'.status = batch.status
        /\ pc[Start][s] \notin {"none", "done"}
        /\ \A x \in Slots : x # s =>
             /\ pc'[Start][x] = pc[Start][x] /\ mem'[Start][x] = mem[Start][x]
             /\ row'[x] = row[x] /\ tallied'[x] = tallied[x]
    BY WorkerMoves
  <1>2. pc'[Start][s] \notin {"none", "noCmd", "queued"}
    BY SlotMoves
  <1>3. row[s].status \in Terminal => row'[s] = row[s]
    BY OutcomeMoves
  <1>4. unsaved = {} /\ phase[Start] \in {"idle", "mark", "pool", "store", "done"}
    BY DEF JobInv, WholeInv
  <1>5. phase[Start] = "pool"
    <2>1. phase[Start] \notin {"idle", "done", "store"}
      BY <1>1 DEF OwnerInv
    <2>2. phase[Start] # "mark"
      BY <1>1 DEF SlotInv
    <2> QED
      BY <1>4, <2>1, <2>2
  <1>6. s \notin Counted
    BY <1>1, <1>4 DEF SlotInv, Counted
  <1>7. CASE ~Tally(Start, s)
    <2>1. batch' = batch /\ tallied' = tallied
      BY <1>7
      DEF WorkerStep, CreateRow, Send, SaveCommand, FailNoCommand, ResumeOne, WaitForDone,
          SaveOutcome
    <2>2. Counted' = Counted
      BY <2>1 DEF Counted
    <2>3. ASSUME NEW st PROVE Counting(st)' = Counting(st)
      <3>1. \A x \in Counted : x \in Slots /\ x # s
        BY <1>6 DEF Counted
      <3>2. \A x \in Counted : row'[x] = row[x]
        BY <1>1, <3>1
      <3> QED
        BY <2>2, <3>2 DEF Counting
    <2>4. pc'[Start][s] # "done"
      BY <1>7, <2>1, SlotMoves DEF WorkerStep, CreateRow, Send, SaveCommand, FailNoCommand,
         ResumeOne, WaitForDone, SaveOutcome, Goto
    <2>5. pc'[Start][s] = "tally" =>
            row'[s].status \in Terminal /\ mem'[Start][s].status = row'[s].status
      <3> SUFFICES ASSUME pc'[Start][s] = "tally" PROVE
                     row'[s].status \in Terminal /\ mem'[Start][s].status = row'[s].status
        OBVIOUS
      <3>1. SaveOutcome(Start, s)
        <4>1. ~CreateRow(s)
          <5> SUFFICES ASSUME CreateRow(s) PROVE FALSE
            OBVIOUS
          <5>1. Goto(Start, s, "send", [status |-> "running", cmd |-> FALSE])
            BY Unfailing DEF CreateRow
          <5> QED
            BY <5>1 DEF Goto
        <4>2. ~FailNoCommand(Start, s)
          BY <1>5 DEF FailNoCommand
        <4> QED
          BY <1>7, <4>1, <4>2
          DEF WorkerStep, Send, SaveCommand, ResumeOne, WaitForDone, Goto
      <3>2. /\ row' = [row EXCEPT ![s] = mem[Start][s]]
            /\ Goto(Start, s, "tally", mem[Start][s]) /\ pc[Start][s] = "save"
        BY <3>1, Unfailing DEF SaveOutcome
      <3>3. mem[Start][s].status \in Terminal
        BY <3>2 DEF SlotInv
      <3> QED
        BY <3>2, <3>3 DEF Goto
    <2>6. /\ batch'.completed = Cardinality(Counting("completed")')
          /\ batch'.failed = Cardinality(Counting("failed")')
      BY <2>1, <2>3 DEF WholeInv, Counting
    <2> QED
      BY <1>1, <1>2, <1>5, <1>6, <2>1, <2>2, <2>4, <2>5, <2>6 DEF WholeInv, Counting
  <1>8. CASE Tally(Start, s)
    <2>1. /\ batch' = IF mem[Start][s].status = "completed"
                      THEN [batch EXCEPT !.completed = @ + 1]
                      ELSE [batch EXCEPT !.failed = @ + 1]
          /\ tallied' = [tallied EXCEPT ![s] = @ + 1]
          /\ row' = row /\ pc[Start][s] = "tally"
      BY <1>8, Unfailing DEF Tally
    <2>2. pc'[Start][s] = "done"
      BY <1>8 DEF Tally, Goto
    <2>3. row[s].status \in Terminal /\ mem[Start][s].status = row[s].status
      BY <2>1 DEF WholeInv
    <2>4. tallied[s] = 0
      BY <1>6 DEF Counted
    <2>5. Counted' = Counted \cup {s}
      BY <2>1, <2>4 DEF Counted
    <2>6. \A st : Counting(st)' = IF row[s].status = st THEN Counting(st) \cup {s}
                                                        ELSE Counting(st)
      BY <2>1, <2>5 DEF Counting
    <2>7. \A st : s \notin Counting(st)
      BY <1>6 DEF Counting
    <2>8. \A st : Cardinality(Counting(st) \cup {s}) = Cardinality(Counting(st)) + 1
      BY <2>7, CountingFinite, FS_AddElement
    <2>9. /\ batch.completed = Cardinality(Counting("completed"))
          /\ batch.failed = Cardinality(Counting("failed"))
      BY DEF WholeInv, Counting
    <2>10. \/ /\ row[s].status = "completed"
              /\ batch'.completed = batch.completed + 1 /\ batch'.failed = batch.failed
           \/ /\ row[s].status = "failed"
              /\ batch'.failed = batch.failed + 1 /\ batch'.completed = batch.completed
      BY <2>1, <2>3 DEF TypeOK, Job, Terminal
    <2>11. /\ batch'.completed = Cardinality(Counting("completed")')
           /\ batch'.failed = Cardinality(Counting("failed")')
      BY <2>6, <2>8, <2>9, <2>10
    <2>12. \A x \in Slots : x \in Counted' => row'[x].status \in Terminal
      BY <2>1, <2>3, <2>5 DEF WholeInv
    <2> QED
      BY <1>1, <1>5, <2>1, <2>2, <2>5, <2>11, <2>12 DEF WholeInv, Counting
  <1> QED
    BY <1>7, <1>8

LEMMA WholeRun ==
  ASSUME Unpolled, TypeOK, OwnerInv, SlotInv, JobInv, OutcomeInv, WholeInv,
         used.faults = 0, used'.faults = 0, used.crashes = 0,
         \/ StartBatch \/ MarkRunning \/ FinalizeLoad(Start) \/ FinalizeStore(Start)
         \/ UNCHANGED vars \/ \E s \in Slots : SsmEnds(s)
  PROVE  WholeInv'
  <1> /\ phase \in [Runs -> Phases] /\ pc \in [Runs -> [Slots -> Steps]]
      /\ verdict \in [Runs -> Terminal \cup {"none"}]
      /\ Start \in Runs /\ Resumes \subseteq Runs
    BY Shapes DEF TypeOK
  <1>1. row' = row /\ tallied' = tallied /\ proc' = proc /\ mem' = mem
    BY DEF StartBatch, MarkRunning, FinalizeLoad, FinalizeStore, vars, SsmEnds
  <1>2. Counted' = Counted /\ \A st : Counting(st)' = Counting(st)
    BY <1>1 DEF Counted, Counting
  <1>3. \A r \in Resumes : phase'[r] = phase[r]
    BY BatchAssumption DEF StartBatch, MarkRunning, FinalizeLoad, FinalizeStore, vars, SsmEnds
  <1>4. /\ batch.completed = Cardinality(Counting("completed"))
        /\ batch.failed = Cardinality(Counting("failed"))
    BY DEF WholeInv, Counting
  <1>5. CASE StartBatch
    <2>1. /\ batch' = [status |-> "pending", completed |-> 0, failed |-> 0] /\ pc' = pc
          /\ phase'[Start] = "mark" /\ phase[Start] = "idle"
      BY <1>5 DEF StartBatch
    <2>2. \A s \in Slots : pc[Start][s] = "none" /\ s \notin Counted
      BY <2>1 DEF SlotInv, Counted
    <2>3. \A st : Counting(st) = {}
      BY <2>2 DEF Counting, Counted
    <2>4. \A st : Cardinality(Counting(st)') = 0
      BY <1>2, <2>3, FS_EmptySet
    <2>5. batch'.completed = Cardinality(Counting("completed")')
          /\ batch'.failed = Cardinality(Counting("failed")')
      BY <2>1, <2>4
    <2> QED
      BY <1>1, <1>2, <1>3, <2>1, <2>2, <2>5 DEF WholeInv, Counting, Terminal
  <1>6. CASE MarkRunning
    <2>1. /\ batch' = [batch EXCEPT !.status = "running"]
          /\ phase'[Start] = "pool" /\ \A s \in Slots : pc'[Start][s] = "queued"
      BY <1>6, Unfailing DEF MarkRunning
    <2>2. /\ batch'.status = "running" /\ batch'.completed = batch.completed
          /\ batch'.failed = batch.failed
      BY <2>1, JobFields
    <2> QED
      BY <1>1, <1>2, <1>3, <1>4, <2>1, <2>2 DEF WholeInv, Counting, Terminal
  <1>7. CASE FinalizeLoad(Start)
    <2>1. /\ batch' = batch /\ pc' = pc /\ phase[Start] = "pool" /\ phase'[Start] = "store"
          /\ \A s \in Slots : pc[Start][s] \in {"none", "done"}
      BY <1>7, Unfailing DEF FinalizeLoad
    <2>2. batch.status = "running"
      BY <2>1 DEF JobInv
    <2> QED
      BY <1>1, <1>2, <1>3, <1>4, <2>1, <2>2 DEF WholeInv, Counting, Terminal
  <1>8. CASE FinalizeStore(Start)
    <2>1. /\ batch' = [batch EXCEPT !.status = verdict[Start]] /\ pc' = pc
          /\ phase[Start] = "store" /\ phase'[Start] = "done"
      BY <1>8, Unfailing DEF FinalizeStore
    <2>2. batch'.status # "interrupted" /\ batch'.completed = batch.completed
          /\ batch'.failed = batch.failed
      BY <2>1, JobFields DEF Terminal
    <2> QED
      BY <1>1, <1>2, <1>3, <1>4, <2>1, <2>2 DEF WholeInv, Counting
  <1>9. CASE UNCHANGED vars \/ \E s \in Slots : SsmEnds(s)
    <2>1. batch' = batch /\ pc' = pc /\ phase' = phase
      BY <1>9 DEF vars, SsmEnds
    <2> QED
      BY <1>1, <1>2, <1>4, <2>1 DEF WholeInv, Counting
  <1> QED
    BY <1>5, <1>6, <1>7, <1>8, <1>9

LEMMA WholeStep ==
  ASSUME Unpolled, TypeOK, TallyInv, OutcomeInv, JobInv, WholeInv, [Next]_vars
  PROVE  WholeInv'
  <1> OwnerInv /\ SlotInv
    BY DEF TallyInv
  <1>1. CASE used'.faults # 0 \/ used'.crashes # 0
    BY <1>1 DEF WholeInv
  <1>2. CASE used'.faults = 0 /\ used'.crashes = 0
    <2>1. used.faults = 0 /\ used.crashes = 0 /\ ~Crash
      BY <1>2, UsedStays
    <2> QED
      BY <1>2, <2>1, OnlyStart, NoPolls, WholeWorker, WholeRun
  <1> QED
    BY <1>1, <1>2

LEMMA WholeInvariant ==
  ASSUME Unpolled
  PROVE  Spec => [](TypeOK /\ JobInv /\ WholeInv)
  <1>1. Init => WholeInv
    <2> SUFFICES ASSUME Init PROVE WholeInv
      OBVIOUS
    <2>1. \A st : Counting(st) = {}
      BY DEF Init, Counting, Counted
    <2>2. \A st : Cardinality(Counting(st)) = 0
      BY <2>1, FS_EmptySet
    <2>3. 0 = Cardinality(Counting("completed")) /\ 0 = Cardinality(Counting("failed"))
      BY <2>2
    <2> QED
      BY <2>3 DEF Init, WholeInv, Counting, Counted, Runs, Procs, Terminal
  <1>2. TypeOK /\ TallyInv /\ OutcomeInv /\ JobInv /\ WholeInv /\ [Next]_vars => WholeInv'
    BY WholeStep
  <1>3. Spec => [](TypeOK /\ TallyInv /\ JobInv /\ OutcomeInv /\ WaitingInv)
    BY UnpolledInvariant
  <1> QED
    BY <1>1, <1>2, <1>3, PTL DEF Spec

\* At the end of an undisturbed batch every slot has been counted, so the two
\* counters are the rows of either outcome.
LEMMA AllCounted ==
  ASSUME TypeOK, JobInv, WholeInv, batch.status \in Terminal,
         used.crashes = 0, used.faults = 0
  PROVE  /\ \A s \in Slots : row[s].status \in Terminal
         /\ batch.completed = Cardinality({s \in Slots : row[s].status = "completed"})
         /\ batch.failed = Cardinality({s \in Slots : row[s].status = "failed"})
         /\ batch.completed + batch.failed = Total
  <1>1. \A s \in Slots : s \in Counted
    BY DEF WholeInv
  <1>2. Counted = Slots
    BY <1>1 DEF Counted
  <1> QED
    BY <1>1, <1>2 DEF WholeInv, JobInv, Total

\* A batch without a crash and without a failed statement ends only when every
\* instance is accounted for, and its counters are exactly the rows' outcomes:
\* with a sole owner and no status polls, for any number of slots and workers.
THEOREM ExactTallyCorrect == Spec => []ExactTally
  <1>1. CASE Unpolled
    <2>1. TypeOK /\ JobInv /\ WholeInv => ExactTally
      BY AllCounted DEF ExactTally
    <2>2. Spec => [](TypeOK /\ JobInv /\ WholeInv)
      BY <1>1, WholeInvariant
    <2> QED
      BY <2>1, <2>2, PTL
  <1>2. CASE ~Unpolled
    <2>1. ExactTally
      BY <1>2 DEF ExactTally
    <2> QED
      BY <2>1, PTL
  <1> QED
    BY <1>1, <1>2

-----------------------------------------------------------------------------
(* The pages.  The parsers stay folded: nothing here depends on what they  *)
(* find in a report.                                                       *)

\* The rows a page of a finished batch loads.
LEMMA FinishedRows ==
  ASSUME TypeOK, JobInv, WholeInv, batch.status \in Terminal,
         used.crashes = 0, used.faults = 0
  PROVE  /\ Executions = Slots /\ Settled = Slots
         /\ batch.completed = Cardinality(WithStatus("completed"))
         /\ batch.failed = Cardinality(WithStatus("failed"))
         /\ batch.completed + batch.failed = Total
         /\ WithStatus("pending") = {} /\ WithStatus("running") = {}
  <1>1. \A s \in Slots : row[s].status \in Terminal
    BY AllCounted
  <1>2. Executions = Slots
    BY <1>1 DEF Executions, Terminal
  <1>3. WithStatus("completed") = {s \in Slots : row[s].status = "completed"}
    BY <1>2 DEF WithStatus
  <1>4. WithStatus("failed") = {s \in Slots : row[s].status = "failed"}
    BY <1>2 DEF WithStatus
  <1>5. Settled = Slots
    BY <1>1, <1>3, <1>4 DEF Settled, Terminal
  <1>6. WithStatus("pending") = {} /\ WithStatus("running") = {}
    BY <1>1, <1>2 DEF WithStatus, Terminal
  <1> QED
    BY <1>2, <1>3, <1>4, <1>5, <1>6, AllCounted

\* The QC page and the page that is loaded again: same groups, and no kernel on
\* the second that is not on the first.
LEMMA QCPagesAgree ==
  ASSUME NEW o, NEW first, NEW key \in DOMAIN QCResults(o).groups
  PROVE  LET page == QCResults(o).groups[key]  again == LatestStep1(o, first)[key]
         IN  /\ again.instances = page.instances
             /\ first[key] \in page.instances => again.kernels \subseteq page.kernels
  <1>1. DOMAIN QCResults(o).groups = {GroupKey(o[s]) : s \in Ready(o)}
    BY DEF QCResults
  <1>2. QCResults(o).groups[key] =
          [instances |-> Members(o, key),
           kernels |-> UNION {ParseQC(o[s]).kernels : s \in Members(o, key)}]
    BY <1>1 DEF QCResults
  <1>3. LatestStep1(o, first)[key] =
          [instances |-> Members(o, key), kernels |-> ParseQC(o[first[key]]).kernels]
    BY <1>1 DEF LatestStep1
  <1> QED
    BY <1>2, <1>3

\* The completed executions are split in two.
LEMMA PostSplit ==
  ASSUME TypeOK, NEW o
  PROVE  Cardinality(PostResults(o).passed) + Cardinality(PostResults(o).failed)
           = Cardinality(WithStatus("completed"))
  <1> DEFINE C == WithStatus("completed")
             p == {s \in C : ValidationPassed(o[s])}
  <1>1. PostResults(o).passed = p /\ PostResults(o).failed = C \ p
    BY DEF PostResults
  <1>2. IsFiniteSet(C)
    <2>1. C \in SUBSET Slots
      BY DEF WithStatus, Executions
    <2> QED
      BY <2>1, BatchAssumption, FS_Subset
  <1> HIDE DEF C
  <1>3. p \in SUBSET C
    OBVIOUS
  <1>4. C \cap p = p
    BY <1>3
  <1> HIDE DEF p
  <1>5. IsFiniteSet(p)
    BY <1>2, <1>3, FS_Subset
  <1>6. Cardinality(C \ p) = Cardinality(C) - Cardinality(C \cap p)
    BY <1>2, <1>5, FS_Difference
  <1>7. Cardinality(C) \in Nat /\ Cardinality(p) \in Nat
    BY <1>2, <1>5, FS_CardinalityType
  <1> QED
    BY <1>1, <1>4, <1>6, <1>7 DEF C

\* The compliance page of a finished batch.
LEMMA RHSAPagesAgree ==
  ASSUME TypeOK, JobInv, WholeInv, batch.status \in Terminal,
         used.crashes = 0, used.faults = 0, NEW o
  PROVE  /\ StatusCounts["completed"] = batch.completed
         /\ StatusCounts["failed"] = batch.failed
         /\ RHSAResults(o).status = IF batch.failed > 0 THEN "completed_with_errors"
                                    ELSE "completed"
         /\ \A s \in Slots :
              RHSADownload(o)[s] = <<ScriptDownload[s], RHSAResults(o).compliance[s]>>
  <1>1. /\ StatusCounts["pending"] = Cardinality(WithStatus("pending"))
        /\ StatusCounts["running"] = Cardinality(WithStatus("running"))
        /\ StatusCounts["completed"] = Cardinality(WithStatus("completed"))
        /\ StatusCounts["failed"] = Cardinality(WithStatus("failed"))
    BY DEF StatusCounts
  <1>2. StatusCounts["pending"] = 0 /\ StatusCounts["running"] = 0
    BY <1>1, FinishedRows, FS_EmptySet
  <1>3. StatusCounts["completed"] = batch.completed /\ StatusCounts["failed"] = batch.failed
    BY <1>1, FinishedRows
  <1>4. RHSAResults(o).status = IF batch.failed > 0 THEN "completed_with_errors" ELSE "completed"
    BY <1>2, <1>3 DEF RHSAResults
  <1>5. \A s \in Slots : RHSAResults(o).compliance[s] = ParseCompliance(o[s])
    BY FinishedRows DEF RHSAResults
  <1>6. \A s \in Slots : RHSADownload(o)[s] = <<row[s].status, ParseCompliance(o[s])>>
    BY FinishedRows DEF RHSADownload
  <1>7. \A s \in Slots : ScriptDownload[s] = row[s].status
    BY FinishedRows DEF ScriptDownload
  <1> QED
    BY <1>3, <1>4, <1>5, <1>6, <1>7

\* When an undisturbed batch has ended the pages list all of its instances, agree
\* with its counters and with one another: for any number of slots and workers,
\* and whatever the scripts print.
THEOREM FinishedViewsAgreeCorrect == Spec => []FinishedViewsAgree
  <1>1. CASE Unpolled
    <2>1. TypeOK /\ JobInv /\ WholeInv => FinishedViewsAgree
      <3> SUFFICES ASSUME TypeOK, JobInv, WholeInv, batch.status \in Terminal,
                          used.crashes = 0, used.faults = 0
                   PROVE  FinishedViewsAgree
        BY DEF FinishedViewsAgree
      <3>1. \A o : /\ QCResults(o).total = Total
                   /\ QCResults(o).completed = batch.completed + batch.failed
        BY FinishedRows DEF QCResults, Total
      <3>2. \A o : /\ PostResults(o).total = Total
                   /\ Cardinality(PostResults(o).passed) + Cardinality(PostResults(o).failed)
                        = batch.completed
        BY FinishedRows, PostSplit DEF PostResults, Total
      <3>3. SFTBatchStatus.completed = Total
        BY FinishedRows DEF SFTBatchStatus, Total
      <3>4. \A s \in Slots : SFTBatchStatus.results[s] # "running"
        <4> SUFFICES ASSUME NEW s \in Slots PROVE SFTBatchStatus.results[s] # "running"
          OBVIOUS
        <4>1. row[s].status \in Terminal /\ s \in Executions
          BY AllCounted, FinishedRows
        <4> QED
          BY <4>1 DEF SFTBatchStatus, Terminal
      <3> QED
        BY <3>1, <3>2, <3>3, <3>4, QCPagesAgree, RHSAPagesAgree DEF FinishedViewsAgree
    <2>2. Spec => [](TypeOK /\ JobInv /\ WholeInv)
      BY <1>1, WholeInvariant
    <2> QED
      BY <2>1, <2>2, PTL
  <1>2. CASE ~Unpolled
    <2>1. FinishedViewsAgree
      BY <1>2 DEF FinishedViewsAgree
    <2> QED
      BY <2>1, PTL
  <1> QED
    BY <1>1, <1>2

-----------------------------------------------------------------------------
(* While the batch goes on: rows are added, and terminal ones stay.        *)

\* An executions row is never deleted.
LEMMA RowsStay ==
  ASSUME TypeOK, RecordInv, [Next]_vars, NEW s \in Slots, row[s].status # "none"
  PROVE  row'[s].status # "none"
  <1> row \in [Slots -> Row] /\ mem \in [Runs -> [Slots -> Held]] /\ Start \in Runs
    BY Shapes
  <1> DEFINE Stays == row'[s].status # "none"
  <1>1. CASE row' = row
    BY <1>1
  <1>2. ASSUME NEW p \in Procs, RecoverRows(p) PROVE Stays
    <2>1. row'[s] = row[s] \/ row'[s] = [row[s] EXCEPT !.status = "interrupted"]
      BY <1>2 DEF RecoverRows
    <2> QED
      BY <2>1 DEF Row
  <1>3. ASSUME NEW x \in Slots, CheckWrite(x) PROVE Stays
    BY <1>3 DEF CheckWrite, Row
  <1>4. ASSUME NEW x \in Slots, CreateRow(x) PROVE Stays
    <2>1. row' = row \/ row' = [row EXCEPT ![x] = [status |-> "running", cmd |-> FALSE]]
      BY <1>4 DEF CreateRow
    <2> QED
      BY <2>1
  <1>5. ASSUME NEW r \in Runs, NEW x \in Slots,
               FailNoCommand(r, x) \/ ResumeOne(r, x) PROVE Stays
    <2>1. \/ row' = row
          \/ row' = [row EXCEPT ![x].status = "failed"]
          \/ row' = [row EXCEPT ![x].status = "running"]
      BY <1>5 DEF FailNoCommand, ResumeOne
    <2> QED
      BY <2>1 DEF Row
  <1>6. ASSUME NEW r \in Runs, NEW x \in Slots,
               SaveOutcome(r, x) \/ (r = Start /\ SaveCommand(x)) PROVE Stays
    <2>1. row' = row \/ row' = [row EXCEPT ![x] = mem[r][x]]
      BY <1>6 DEF SaveOutcome, SaveCommand
    <2>2. mem[r][x].status # "none"
      BY <1>6 DEF SaveOutcome, SaveCommand, RecordInv
    <2> QED
      BY <2>1, <2>2
  <1>7. CASE UNCHANGED vars \/ StartBatch \/ Crash \/ MarkRunning
             \/ (\E p \in Procs : Boot(p) \/ RecoverBatch(p))
             \/ (\E q \in Resumes : ResumeCheck(q))
             \/ (\E x \in Slots : CheckAsk(x) \/ SsmEnds(x) \/ Send(x))
             \/ (\E r \in Runs :
                   \/ ResumeLoad(r) \/ ResumeMark(r) \/ OpenPool(r)
                   \/ FinalizeLoad(r) \/ FinalizeStore(r)
                   \/ \E x \in Slots : WaitForDone(r, x) \/ Tally(r, x))
    <2>1. row' = row
      BY <1>7 DEF vars, StartBatch, Crash, MarkRunning, Boot, RecoverBatch, ResumeCheck, CheckAsk,
                  SsmEnds, Send, ResumeLoad, ResumeMark, OpenPool, FinalizeLoad, FinalizeStore,
                  WaitForDone, Tally
    <2> QED
      BY <1>1, <2>1
  <1> QED
    BY <1>2, <1>3, <1>4, <1>5, <1>6, <1>7 DEF Next, Worker, Recovery

\* So the sets a page is computed from only grow, as far as the outcomes stay.
LEMMA LoadedGrow ==
  ASSUME TypeOK, RecordInv, [Next]_vars,
         \A s \in Slots : row[s].status \in Terminal => row'[s] = row[s]
  PROVE  /\ Executions \subseteq Executions'
         /\ \A st \in Terminal : WithStatus(st) \subseteq WithStatus(st)'
         /\ Settled \subseteq Settled'
         /\ Cardinality(Executions) <= Cardinality(Executions')
         /\ Cardinality(Settled) <= Cardinality(Settled')
  <1>1. Executions \subseteq Executions'
    BY RowsStay DEF Executions
  <1>2. \A st \in Terminal : WithStatus(st) \subseteq WithStatus(st)'
    BY <1>1 DEF WithStatus, Executions
  <1>3. Settled \subseteq Settled'
    BY <1>2 DEF Settled, Terminal
  <1>4. Executions' \in SUBSET Slots /\ Settled' \in SUBSET Slots
    BY DEF Executions, Settled, WithStatus
  <1>5. IsFiniteSet(Executions') /\ IsFiniteSet(Settled')
    BY <1>4, BatchAssumption, FS_Subset
  <1>6. Cardinality(Executions) <= Cardinality(Executions')
    BY <1>1, <1>5, FS_Subset
  <1>7. Cardinality(Settled) <= Cardinality(Settled')
    BY <1>3, <1>5, FS_Subset
  <1> QED
    BY <1>1, <1>2, <1>3, <1>6, <1>7

\* With them the groups of the QC page.
LEMMA QCPageGrows ==
  ASSUME TypeOK, RecordInv, [Next]_vars,
         \A s \in Slots : row[s].status \in Terminal => row'[s] = row[s]
  PROVE  Grown(QCResults(QCReport), QCResults(QCReport)')
  <1> DEFINE page == QCResults(QCReport)  next == QCResults(QCReport)'
             Key(s) == GroupKey(QCReport[s])
  <1>1. WithStatus("completed") \subseteq WithStatus("completed")'
    BY LoadedGrow DEF Terminal
  <1>2. Ready(QCReport) \subseteq Ready(QCReport)'
    BY <1>1 DEF Ready
  <1>3. \A key : Members(QCReport, key) \subseteq Members(QCReport, key)'
    BY <1>2 DEF Members
  <1>4. page.total <= next.total /\ page.completed <= next.completed
    BY LoadedGrow DEF QCResults
  <1>5. DOMAIN page.groups = {Key(s) : s \in Ready(QCReport)}
        /\ DOMAIN next.groups = {Key(s) : s \in Ready(QCReport)'}
    BY DEF QCResults
  <1>6. \A key \in DOMAIN page.groups : key \in DOMAIN next.groups
    BY <1>2, <1>5
  <1>7. ASSUME NEW key \in DOMAIN page.groups
        PROVE  /\ page.groups[key].instances \subseteq next.groups[key].instances
               /\ page.groups[key].kernels \subseteq next.groups[key].kernels
    <2>1. page.groups[key] =
            [instances |-> Members(QCReport, key),
             kernels |-> UNION {ParseQC(QCReport[s]).kernels : s \in Members(QCReport, key)}]
      BY <1>5, <1>7 DEF QCResults
    <2>2. next.groups[key] =
            [instances |-> Members(QCReport, key)',
             kernels |-> UNION {ParseQC(QCReport[s]).kernels : s \in Members(QCReport, key)'}]
      BY <1>5, <1>6, <1>7 DEF QCResults
    <2> QED
      BY <1>3, <2>1, <2>2
  <1> QED
    BY <1>4, <1>6, <1>7 DEF Grown

\* ... and the two lists of the validation page.
LEMMA PostPageGrows ==
  ASSUME TypeOK, RecordInv, [Next]_vars,
         \A s \in Slots : row[s].status \in Terminal => row'[s] = row[s]
  PROVE  /\ PostResults(PostReport).passed \subseteq PostResults(PostReport)'.passed
         /\ PostResults(PostReport).failed \subseteq PostResults(PostReport)'.failed
  <1>1. WithStatus("completed") \subseteq WithStatus("completed")'
    BY LoadedGrow DEF Terminal
  <1> QED
    BY <1>1 DEF PostResults

\* What a page has shown of an instance stands through crashes, recovery, resumes
\* and failing statements: with a sole owner and no status polls, for any number
\* of slots and whatever the scripts print.
THEOREM ShownResultsStandCorrect == Spec => ShownResultsStand
  <1> DEFINE Stand == /\ Grown(QCResults(QCReport), QCResults(QCReport)')
                      /\ PostResults(PostReport).passed \subseteq PostResults(PostReport)'.passed
                      /\ PostResults(PostReport).failed \subseteq PostResults(PostReport)'.failed
  <1>1. CASE Unpolled
    <2>1. TypeOK /\ RecordInv /\ TallyInv /\ OutcomeInv /\ [Next]_vars =>
            [Unpolled /\ row' # row => Stand]_vars
      BY <1>1, OutcomeStep, QCPageGrows, PostPageGrows
    <2>2. Spec => [](TypeOK /\ RecordInv /\ TallyInv /\ JobInv)
      BY <1>1, OwnerInvariant DEF Unpolled
    <2>3. Spec => [](TypeOK /\ TallyInv /\ JobInv /\ OutcomeInv /\ WaitingInv)
      BY <1>1, UnpolledInvariant
    <2> QED
      BY <2>1, <2>2, <2>3, PTL DEF Spec, ShownResultsStand
  <1>2. CASE ~Unpolled
    <2>1. [Unpolled /\ row' # row => Stand]_vars
      BY <1>2
    <2> QED
      BY <2>1, PTL DEF ShownResultsStand
  <1> QED
    BY <1>1, <1>2

=============================================================================

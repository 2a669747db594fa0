-------------------------- MODULE BatchSafetyProofs --------------------------
(***************************************************************************)
(* The type and safety theorems about BatchRunner, for every set of slots, *)
(* every number of resume requests and every bound.  Each safety theorem   *)
(* is proved from an inductive invariant of BatchProperties.               *)
(***************************************************************************)
EXTENDS BatchProperties, TLAPS

USE DEF dbVars, ssmVars, memVars, histVars

-----------------------------------------------------------------------------
(* Type correctness.                                                       *)

LEMMA TypeInit == Init => TypeOK
  <1> SUFFICES ASSUME Init PROVE TypeOK
    OBVIOUS
  <1>1. batch \in Job /\ used \in Budget
    BY DEF Init, Job, Budget, BatchStatus
  <1>2. NoRow \in Row /\ NoRow \in Held
    BY DEF NoRow, Row, Held, RowStatus
  <1> QED
    BY <1>1, <1>2 DEF Init, TypeOK, Phases, Steps, Procs

\* What one assignment to a well-typed record, row or counter gives.
LEMMA JobType ==
  ASSUME TypeOK
  PROVE  /\ [batch EXCEPT !.completed = @ + 1] \in Job
         /\ [batch EXCEPT !.failed = @ + 1] \in Job
         /\ \A st \in BatchStatus : [batch EXCEPT !.status = st] \in Job
  <1>1. batch \in Job
    BY DEF TypeOK
  <1> QED
    BY <1>1 DEF Job

LEMMA HeldType ==
  ASSUME TypeOK, NEW r \in Runs, NEW s \in Slots
  PROVE  /\ mem[r][s] \in Held /\ mem[r][s] \in Row
         /\ \A st \in ExecutionStatus : [mem[r][s] EXCEPT !.status = st] \in Held
         /\ [mem[r][s] EXCEPT !.cmd = TRUE] \in Held
  <1>1. mem[r][s] \in Held
    BY DEF TypeOK
  <1> QED
    BY <1>1 DEF Held, Row, RowStatus

LEMMA RowType ==
  ASSUME TypeOK, NEW s \in Slots
  PROVE  /\ \A ex \in Row : [row EXCEPT ![s] = ex] \in [Slots -> Row]
         /\ \A st \in RowStatus : /\ [row EXCEPT ![s].status = st] \in [Slots -> Row]
                                  /\ [row[s] EXCEPT !.status = st] \in Row
  <1>1. row \in [Slots -> Row]
    BY DEF TypeOK
  <1> QED
    BY <1>1 DEF Row

\* A statement, failed or not, keeps the type of the spent bounds.
LEMMA StatementType ==
  ASSUME TypeOK, NEW ok \in BOOLEAN, Statement(ok)
  PROVE  used' \in Budget
  BY DEF TypeOK, Statement, Budget

\* Goto leaves a well-typed worker when the step and the execution are.
LEMMA GotoType ==
  ASSUME TypeOK, NEW r \in Runs, NEW s \in Slots, NEW step \in Steps, NEW ex \in Held,
         Goto(r, s, step, ex)
  PROVE  /\ pc' \in [Runs -> [Slots -> Steps]]
         /\ mem' \in [Runs -> [Slots -> Held]]
  BY DEF TypeOK, Goto

\* The steps of a new batch and of runOne keep the types.
LEMMA StartTypes ==
  ASSUME TypeOK, NEW s \in Slots,
         StartBatch \/ MarkRunning \/ CreateRow(s) \/ Send(s) \/ SaveCommand(s)
  PROVE  TypeOK'
  <1> USE DEF Runs
  <1>1. CASE StartBatch
    BY <1>1 DEF TypeOK, StartBatch, Job, BatchStatus, Phases
  <1>2. CASE MarkRunning
    <2>1. PICK ok \in BOOLEAN :
            Statement(ok) /\ batch' = IF ok THEN [batch EXCEPT !.status = "running"] ELSE batch
      BY <1>2 DEF MarkRunning
    <2>2. used' \in Budget /\ batch' \in Job
      BY <2>1, StatementType, JobType DEF TypeOK, BatchStatus
    <2>3. phase' \in [Runs -> Phases] /\ pc' \in [Runs -> [Slots -> Steps]]
      BY <1>2 DEF TypeOK, MarkRunning, Phases, Steps
    <2> QED
      BY <1>2, <2>2, <2>3 DEF TypeOK, MarkRunning
  <1>3. CASE CreateRow(s)
    <2> DEFINE ex == [status |-> "running", cmd |-> FALSE]
    <2>1. ex \in Row /\ ex \in Held /\ [ex EXCEPT !.status = "failed"] \in Held
      BY DEF Row, Held, RowStatus, ExecutionStatus
    <2>2. used' \in Budget /\ row' \in [Slots -> Row]
      BY <1>3, <2>1, StatementType, RowType DEF TypeOK, CreateRow
    <2>3. pc' \in [Runs -> [Slots -> Steps]] /\ mem' \in [Runs -> [Slots -> Held]]
      BY <1>3, <2>1, GotoType DEF CreateRow, Steps
    <2> QED
      BY <1>3, <2>2, <2>3 DEF TypeOK, CreateRow
  <1>4. CASE Send(s)
    <2>1. sent \in [Slots -> Nat]
      BY DEF TypeOK
    <2>2. sent' \in [Slots -> Nat]
      BY <1>4, <2>1 DEF Send
    <2>3. ssm' \in [Slots -> Invocation \cup {"none"}]
      BY <1>4 DEF TypeOK, Send, Invocation
    <2>4. pc' \in [Runs -> [Slots -> Steps]] /\ mem' \in [Runs -> [Slots -> Held]]
      BY <1>4, GotoType, HeldType DEF Send, Steps, ExecutionStatus
    <2> QED
      BY <1>4, <2>2, <2>3, <2>4 DEF TypeOK, Send
  <1>5. CASE SaveCommand(s)
    <2>1. used' \in Budget
      BY <1>5, StatementType DEF SaveCommand
    <2>2. row' \in [Slots -> Row]
      <3>1. row' = [row EXCEPT ![s] = mem[Start][s]] \/ row' = row
        BY <1>5 DEF SaveCommand
      <3>2. mem[Start][s] \in Row /\ row \in [Slots -> Row]
        BY HeldType DEF TypeOK
      <3> QED
        BY <3>1, <3>2
    <2>3. pc' \in [Runs -> [Slots -> Steps]] /\ mem' \in [Runs -> [Slots -> Held]]
      BY <1>5, GotoType, HeldType DEF SaveCommand, Steps, ExecutionStatus
    <2> QED
      BY <1>5, <2>1, <2>2, <2>3 DEF TypeOK, SaveCommand
  <1> QED
    BY <1>1, <1>2, <1>3, <1>4, <1>5

\* The steps of pollAndPersist and finalizeBatch, in any run, keep the types.
LEMMA FinishTypes ==
  ASSUME TypeOK, NEW r \in Runs, NEW s \in Slots,
         \/ WaitForDone(r, s) \/ SaveOutcome(r, s) \/ Tally(r, s)
         \/ FinalizeLoad(r) \/ FinalizeStore(r)
  PROVE  TypeOK'
  <1>1. CASE WaitForDone(r, s)
    <2>1. pc' \in [Runs -> [Slots -> Steps]] /\ mem' \in [Runs -> [Slots -> Held]]
      BY <1>1, GotoType, HeldType DEF WaitForDone, Steps, ExecutionStatus, Terminal
    <2> QED
      BY <1>1, <2>1 DEF TypeOK, WaitForDone
  <1>2. CASE SaveOutcome(r, s)
    <2>1. PICK ok \in BOOLEAN :
            /\ Statement(ok)
            /\ row' = IF ok THEN [row EXCEPT ![s] = mem[r][s]] ELSE row
            /\ unsaved' = IF ok THEN unsaved ELSE unsaved \cup {s}
      BY <1>2 DEF SaveOutcome
    <2>2. used' \in Budget /\ row' \in [Slots -> Row] /\ unsaved' \subseteq Slots
      BY <2>1, StatementType, HeldType, RowType DEF TypeOK
    <2>3. pc' \in [Runs -> [Slots -> Steps]] /\ mem' \in [Runs -> [Slots -> Held]]
      BY <1>2, GotoType, HeldType DEF SaveOutcome, Steps
    <2> QED
      BY <1>2, <2>2, <2>3 DEF TypeOK, SaveOutcome
  <1>3. CASE Tally(r, s)
    <2>1. [tallied EXCEPT ![s] = @ + 1] \in [Slots -> Nat]
      <3>1. tallied \in [Slots -> Nat]
        BY DEF TypeOK
      <3> QED
        BY <3>1
    <2>2. tallied' \in [Slots -> Nat]
      BY <1>3, <2>1 DEF TypeOK, Tally
    <2>3. used' \in Budget /\ batch' \in Job
      BY <1>3, StatementType, JobType DEF TypeOK, Tally
    <2>4. NoRow \in Held
      BY DEF NoRow, Held
    <2>5. pc' \in [Runs -> [Slots -> Steps]] /\ mem' \in [Runs -> [Slots -> Held]]
      BY <1>3, <2>4, GotoType DEF Tally, Steps
    <2> QED
      BY <1>3, <2>2, <2>3, <2>5 DEF TypeOK, Tally
  <1>4. CASE FinalizeLoad(r)
    <2>1. used' \in Budget
      BY <1>4, StatementType DEF FinalizeLoad
    <2>2. verdict' \in [Runs -> Terminal \cup {"none"}]
      BY <1>4 DEF TypeOK, FinalizeLoad, Terminal
    <2>3. phase' \in [Runs -> Phases]
      <3>1. PICK ph \in {"store", "done"} : phase' = [phase EXCEPT ![r] = ph]
        BY <1>4 DEF FinalizeLoad
      <3>2. phase \in [Runs -> Phases] /\ ph \in Phases
        BY DEF TypeOK, Phases
      <3> QED
        BY <3>1, <3>2
    <2> QED
      BY <1>4, <2>1, <2>2, <2>3 DEF TypeOK, FinalizeLoad
  <1>5. CASE FinalizeStore(r)
    <2>1. PICK ok \in BOOLEAN :
            Statement(ok) /\ batch' = IF ok THEN [batch EXCEPT !.status = verdict[r]] ELSE batch
      BY <1>5 DEF FinalizeStore
    <2>2. verdict[r] \in BatchStatus
      BY DEF TypeOK, Terminal, BatchStatus
    <2>3. used' \in Budget /\ batch' \in Job
      BY <2>1, <2>2, StatementType, JobType DEF TypeOK
    <2>4. phase' \in [Runs -> Phases]
      BY <1>5 DEF TypeOK, FinalizeStore, Phases
    <2> QED
      BY <1>5, <2>3, <2>4 DEF TypeOK, FinalizeStore
  <1> QED
    BY <1>1, <1>2, <1>3, <1>4, <1>5

\* The steps of a resume request and of resumeRun keep the types.
LEMMA ResumeTypes ==
  ASSUME TypeOK, NEW r \in Resumes, NEW s \in Slots,
         ResumeCheck(r) \/ ResumeLoad(r) \/ ResumeMark(r) \/ ResumeOne(r, s)
  PROVE  TypeOK'
  <1>1. r \in Runs
    BY DEF Runs
  <1>2. NoRow \in Held
    BY DEF NoRow, Held
  <1>3. CASE ResumeLoad(r)
    <2>1. \A x \in Slots : ResumeStep(x) \in Steps
      BY DEF ResumeStep, Steps
    <2>2. \A x \in Slots : (IF ResumeStep(x) = "none" THEN NoRow ELSE row[x]) \in Held
      <3> SUFFICES ASSUME NEW x \in Slots, ResumeStep(x) # "none" PROVE row[x] \in Held
        BY <1>2
      <3>1. row[x].status = "interrupted"
        BY DEF ResumeStep
      <3>2. row[x] \in Row
        BY DEF TypeOK
      <3> QED
        BY <3>1, <3>2 DEF Row, Held, ExecutionStatus
    <2>3. phase' \in [Runs -> Phases]
      BY <1>1, <1>3, ZenonT(60) DEF TypeOK, ResumeLoad, Phases
    <2>4. used' \in Budget
      BY <1>3, StatementType DEF ResumeLoad
    <2>5. pc' \in [Runs -> [Slots -> Steps]]
      <3>1. pc \in [Runs -> [Slots -> Steps]]
        BY DEF TypeOK
      <3>2. pc' = pc \/ pc' = [pc EXCEPT ![r] = [x \in Slots |-> ResumeStep(x)]]
        BY <1>3 DEF ResumeLoad
      <3>3. [x \in Slots |-> ResumeStep(x)] \in [Slots -> Steps]
        BY <2>1
      <3> QED
        BY <1>1, <3>1, <3>2, <3>3
    <2>6. mem' \in [Runs -> [Slots -> Held]]
      <3> DEFINE held(x) == IF ResumeStep(x) = "none" THEN NoRow ELSE row[x]
      <3>1. mem \in [Runs -> [Slots -> Held]]
        BY DEF TypeOK
      <3>2. mem' = mem \/ mem' = [mem EXCEPT ![r] = [x \in Slots |-> held(x)]]
        BY <1>3 DEF ResumeLoad
      <3>3. [x \in Slots |-> held(x)] \in [Slots -> Held]
        BY <2>2
      <3> QED
        BY <1>1, <3>1, <3>2, <3>3
    <2> QED
      BY <1>3, <2>3, <2>4, <2>5, <2>6 DEF TypeOK, ResumeLoad
  <1>4. CASE ResumeMark(r)
    <2>1. used' \in Budget
      BY <1>4, StatementType DEF ResumeMark
    <2>2. batch' \in Job
      BY <1>4, JobType DEF TypeOK, ResumeMark, BatchStatus
    <2>3. PICK ph \in {"partition", "done"} : phase' = [phase EXCEPT ![r] = ph]
      BY <1>4 DEF ResumeMark
    <2>4. phase' \in [Runs -> Phases]
      BY <1>1, <2>3 DEF TypeOK, Phases
    <2>5. \/ pc' = pc /\ mem' = mem
          \/ /\ pc' = [pc EXCEPT ![r] = [x \in Slots |-> "none"]]
             /\ mem' = [mem EXCEPT ![r] = [x \in Slots |-> NoRow]]
      BY <1>4 DEF ResumeMark
    <2>6. pc' \in [Runs -> [Slots -> Steps]] /\ mem' \in [Runs -> [Slots -> Held]]
      <3>1. pc \in [Runs -> [Slots -> Steps]] /\ mem \in [Runs -> [Slots -> Held]]
        BY DEF TypeOK
      <3>2. [x \in Slots |-> "none"] \in [Slots -> Steps]
        BY DEF Steps
      <3>3. [x \in Slots |-> NoRow] \in [Slots -> Held]
        BY <1>2
      <3> QED
        BY <1>1, <2>5, <3>1, <3>2, <3>3
    <2> QED
      BY <1>4, <2>1, <2>2, <2>4, <2>6 DEF TypeOK, ResumeMark
  <1>5. CASE ResumeOne(r, s)
    <2>1. PICK ok \in BOOLEAN :
            Statement(ok) /\ row' = IF ok THEN [row EXCEPT ![s].status = "running"] ELSE row
      BY <1>5 DEF ResumeOne
    <2>2. used' \in Budget /\ row' \in [Slots -> Row]
      BY <2>1, StatementType, RowType DEF TypeOK, RowStatus, ExecutionStatus
    <2>3. pc' \in [Runs -> [Slots -> Steps]] /\ mem' \in [Runs -> [Slots -> Held]]
      BY <1>1, <1>5, GotoType, HeldType DEF ResumeOne, Steps, ExecutionStatus
    <2> QED
      BY <1>5, <2>2, <2>3 DEF TypeOK, ResumeOne
  <1>6. CASE ResumeCheck(r)
    <2>1. phase' \in [Runs -> Phases]
      BY <1>1, <1>6 DEF TypeOK, ResumeCheck, Phases
    <2> QED
      BY <1>6, <2>1 DEF TypeOK, ResumeCheck
  <1> QED
    BY <1>3, <1>4, <1>5, <1>6

\* So do the partition and the start of the pool.
LEMMA PartitionTypes ==
  ASSUME TypeOK, NEW r \in Runs, NEW s \in Slots, FailNoCommand(r, s) \/ OpenPool(r)
  PROVE  TypeOK'
  <1>1. CASE FailNoCommand(r, s)
    <2>1. PICK ok \in BOOLEAN :
            /\ Statement(ok)
            /\ row' = IF ok THEN [row EXCEPT ![s].status = "failed"] ELSE row
            /\ unsaved' = IF ok THEN unsaved ELSE unsaved \cup {s}
      BY <1>1 DEF FailNoCommand
    <2>2. used' \in Budget /\ row' \in [Slots -> Row] /\ unsaved' \subseteq Slots
      BY <2>1, StatementType, RowType DEF TypeOK, RowStatus, ExecutionStatus
    <2>3. pc' \in [Runs -> [Slots -> Steps]] /\ mem' \in [Runs -> [Slots -> Held]]
      BY <1>1, GotoType, HeldType DEF FailNoCommand, Steps, ExecutionStatus
    <2> QED
      BY <1>1, <2>2, <2>3 DEF TypeOK, FailNoCommand
  <1>2. CASE OpenPool(r)
    BY <1>2 DEF TypeOK, OpenPool, Phases
  <1> QED
    BY <1>1, <1>2

\* Crashes, recovery, status polls and SSM keep the types.
LEMMA WorldTypes ==
  ASSUME TypeOK, NEW p \in Procs, NEW s \in Slots,
         \/ Crash \/ Boot(p) \/ RecoverRows(p) \/ RecoverBatch(p)
         \/ CheckAsk(s) \/ CheckWrite(s) \/ SsmEnds(s)
  PROVE  TypeOK'
  <1>1. CASE Crash
    <2>1. NoRow \in Held
      BY DEF NoRow, Held
    <2>2. used' \in Budget
      <3>1. used \in Budget
        BY DEF TypeOK
      <3> QED
        BY <1>1, <3>1 DEF Crash, Budget
    <2>3. phase' \in [Runs -> Phases]
      BY <1>1 DEF TypeOK, Crash, Phases
    <2>4. proc' \in [Procs -> {"stopped", "rows", "batch", "ready"}]
      BY <1>1 DEF TypeOK, Crash
    <2> QED
      BY <1>1, <2>1, <2>2, <2>3, <2>4 DEF TypeOK, Crash, Steps
  <1>2. CASE Boot(p)
    <2>1. [used EXCEPT !.launches = @ + 1] \in Budget
      <3>1. used \in Budget
        BY DEF TypeOK
      <3> QED
        BY <3>1 DEF Budget
    <2>2. used' \in Budget
      BY <1>2, <2>1, StatementType DEF TypeOK, Boot
    <2>3. proc' \in [Procs -> {"stopped", "rows", "batch", "ready"}]
      BY <1>2 DEF TypeOK, Boot, AfterRecovery
    <2> QED
      BY <1>2, <2>2, <2>3 DEF TypeOK, Boot
  <1>3. CASE RecoverRows(p)
    <2>1. used' \in Budget
      BY <1>3, StatementType DEF RecoverRows
    <2>2. \A x \in Slots : row[x] \in Row /\ [row[x] EXCEPT !.status = "interrupted"] \in Row
      BY RowType DEF TypeOK, RowStatus, ExecutionStatus
    <2>3. row' \in [Slots -> Row]
      BY <1>3, <2>2 DEF TypeOK, RecoverRows
    <2>4. proc' \in [Procs -> {"stopped", "rows", "batch", "ready"}]
      BY <1>3 DEF TypeOK, RecoverRows
    <2> QED
      BY <1>3, <2>1, <2>3, <2>4 DEF TypeOK, RecoverRows
  <1>4. CASE RecoverBatch(p)
    <2>1. used' \in Budget
      BY <1>4, StatementType DEF RecoverBatch
    <2>2. batch' \in Job
      BY <1>4, JobType DEF TypeOK, RecoverBatch, BatchStatus
    <2>3. proc' \in [Procs -> {"stopped", "rows", "batch", "ready"}]
      BY <1>4 DEF TypeOK, RecoverBatch, AfterRecovery
    <2> QED
      BY <1>4, <2>1, <2>2, <2>3 DEF TypeOK, RecoverBatch
  <1>5. CASE CheckAsk(s)
    <2>1. used' \in Budget
      BY <1>5, SMTT(30) DEF TypeOK, CheckAsk, Budget
    <2>2. poll' \in [Slots -> Invocation \cup {"none"}]
      BY <1>5 DEF TypeOK, CheckAsk
    <2> QED
      BY <1>5, <2>1, <2>2 DEF TypeOK, CheckAsk
  <1>6. CASE CheckWrite(s)
    <2>1. used' \in Budget
      BY <1>6, StatementType DEF CheckWrite
    <2>2. poll[s] \in RowStatus
      BY DEF TypeOK, RowStatus
    <2>3. row' \in [Slots -> Row]
      BY <1>6, <2>2, RowType DEF TypeOK, CheckWrite
    <2>4. poll' \in [Slots -> Invocation \cup {"none"}]
      BY <1>6 DEF TypeOK, CheckWrite
    <2> QED
      BY <1>6, <2>1, <2>3, <2>4 DEF TypeOK, CheckWrite
  <1>7. CASE SsmEnds(s)
    BY <1>7 DEF TypeOK, SsmEnds, Invocation
  <1> QED
    BY <1>1, <1>2, <1>3, <1>4, <1>5, <1>6, <1>7

LEMMA TypeStep == TypeOK /\ [Next]_vars => TypeOK'
  <1> SUFFICES ASSUME TypeOK, [Next]_vars PROVE TypeOK'
    OBVIOUS
  <1>1. CASE UNCHANGED vars
    BY <1>1 DEF vars, TypeOK
  <1>2. PICK s \in Slots : TRUE
    BY BatchAssumption
  <1>3. PICK p \in Procs : TRUE
    BY DEF Procs
  <1>4. CASE StartBatch \/ Crash \/ (\E q \in Procs : Boot(q)) \/ Recovery
    BY <1>2, <1>3, <1>4, StartTypes, WorldTypes DEF Recovery
  <1>5. CASE \E r \in Resumes : ResumeCheck(r)
    BY <1>2, <1>5, ResumeTypes
  <1>6. CASE Worker
    <2>1. CASE MarkRunning \/ \E x \in Slots : CreateRow(x) \/ Send(x) \/ SaveCommand(x)
      BY <1>2, <2>1, StartTypes
    <2>2. ASSUME NEW r \in Runs,
                 \/ ResumeLoad(r) \/ ResumeMark(r) \/ OpenPool(r)
                 \/ FinalizeLoad(r) \/ FinalizeStore(r)
          PROVE  TypeOK'
      <3>1. CASE ResumeLoad(r) \/ ResumeMark(r)
        BY <1>2, <3>1, ResumeTypes DEF ResumeLoad, ResumeMark
      <3> QED
        BY <1>2, <2>2, <3>1, PartitionTypes, FinishTypes
    <2>3. ASSUME NEW r \in Runs, NEW x \in Slots,
                 \/ FailNoCommand(r, x) \/ ResumeOne(r, x)
                 \/ WaitForDone(r, x) \/ SaveOutcome(r, x) \/ Tally(r, x)
          PROVE  TypeOK'
      <3>1. CASE ResumeOne(r, x)
        BY <3>1, ResumeTypes DEF ResumeOne
      <3> QED
        BY <2>3, <3>1, PartitionTypes, FinishTypes
    <2> QED
      BY <1>6, <2>1, <2>2, <2>3 DEF Worker
  <1>7. CASE \E x \in Slots : CheckAsk(x) \/ CheckWrite(x) \/ SsmEnds(x)
    BY <1>3, <1>7, WorldTypes
  <1> QED
    BY <1>1, <1>4, <1>5, <1>6, <1>7 DEF Next

\* Every variable keeps its type, in every behaviour of every instance.
THEOREM TypeCorrect == Spec => []TypeOK
  BY TypeInit, TypeStep, PTL DEF Spec

-----------------------------------------------------------------------------
(* At most one Send per slot, whatever the environment does.               *)

\* The functions the send argument looks at.
LEMMA Shapes ==
  ASSUME TypeOK
  PROVE  /\ phase \in [Runs -> Phases] /\ pc \in [Runs -> [Slots -> Steps]]
         /\ mem \in [Runs -> [Slots -> Held]] /\ row \in [Slots -> Row]
         /\ sent \in [Slots -> Nat] /\ tallied \in [Slots -> Nat]
         /\ ssm \in [Slots -> Invocation \cup {"none"}]
         /\ poll \in [Slots -> Invocation \cup {"none"}]
         /\ Start \in Runs /\ Resumes \subseteq Runs
  BY DEF TypeOK, Runs

\* A resume request either takes up the slots the rows tell it to, or none.
LEMMA LoadTakes ==
  ASSUME TypeOK, NEW r \in Resumes, ResumeLoad(r)
  PROVE  \/ pc' = pc /\ mem' = mem
         \/ \A s \in Slots : pc'[r][s] = ResumeStep(s)
  <1>1. pc \in [Runs -> [Slots -> Steps]] /\ r \in Runs
    BY Shapes
  <1>2. \/ pc' = pc /\ mem' = mem
        \/ pc' = [pc EXCEPT ![r] = [s \in Slots |-> ResumeStep(s)]]
    BY DEF ResumeLoad
  <1> QED
    BY <1>1, <1>2

\* Steps that send nothing and neither start the batch nor put a slot of it back.
LEMMA SendQuiet ==
  ASSUME TypeOK, SendInv, sent' = sent,
         phase'[Start] \in {"idle", "mark"} => phase[Start] \in {"idle", "mark"},
         \A s \in Slots : pc'[Start][s] \in {"queued", "send"} =>
           /\ phase'[Start] = "pool"
           /\ pc[Start][s] \in {"queued", "send"} \/ phase[Start] = "mark"
  PROVE  SendInv'
  BY DEF SendInv

LEMMA SendStep == TypeOK /\ SendInv /\ [Next]_vars => SendInv'
  <1> SUFFICES ASSUME TypeOK, SendInv, [Next]_vars PROVE SendInv'
    OBVIOUS
  <1> phase \in [Runs -> Phases] /\ pc \in [Runs -> [Slots -> Steps]] /\ Start \in Runs
    BY Shapes
  <1> sent \in [Slots -> Nat]
    BY Shapes
  <1>1. CASE StartBatch \/ Crash \/ (\E p \in Procs : Boot(p)) \/ Recovery \/ UNCHANGED vars
    <2>1. sent' = sent
      BY <1>1 DEF StartBatch, Crash, Boot, Recovery, RecoverRows, RecoverBatch, vars
    <2>2. phase'[Start] \in {"idle", "mark"} => phase[Start] \in {"idle", "mark"}
      BY <1>1 DEF StartBatch, Crash, Boot, Recovery, RecoverRows, RecoverBatch, vars
    <2>3. ASSUME NEW s \in Slots, pc'[Start][s] \in {"queued", "send"}
          PROVE  phase'[Start] = "pool" /\ pc[Start][s] \in {"queued", "send"}
      BY <1>1, <2>3
      DEF StartBatch, Crash, Boot, Recovery, RecoverRows, RecoverBatch, vars, SendInv
    <2> QED
      BY <2>1, <2>2, <2>3, SendQuiet
  <1>2. CASE \E r \in Resumes : ResumeCheck(r) \/ ResumeLoad(r)
    <2>1. /\ sent' = sent
          /\ pc'[Start] = pc[Start] /\ phase'[Start] = phase[Start]
      BY <1>2, BatchAssumption DEF ResumeCheck, ResumeLoad
    <2> QED
      BY <2>1 DEF SendInv
  <1>3. CASE MarkRunning
    BY <1>3, SendQuiet DEF MarkRunning
  <1>4. ASSUME NEW s \in Slots, CreateRow(s) PROVE SendInv'
    <2>1. sent' = sent /\ phase' = phase /\ phase[Start] = "pool" /\ pc[Start][s] = "queued"
      BY <1>4 DEF CreateRow, WorkerFree
    <2>2. \A x \in Slots : x # s => pc'[Start][x] = pc[Start][x]
      BY <1>4, ZenonT(60) DEF CreateRow, Goto
    <2> QED
      BY <2>1, <2>2 DEF SendInv
  <1>5. ASSUME NEW s \in Slots, Send(s) PROVE SendInv'
    <2>0. sent[s] = 0
      BY <1>5 DEF Send, SendInv
    <2>1. sent' = [sent EXCEPT ![s] = 1] /\ phase' = phase
      BY <1>5, <2>0 DEF Send
    <2>2. \A x \in Slots : pc'[Start][x] = IF x = s THEN pc'[Start][s] ELSE pc[Start][x]
      BY <1>5 DEF Send, Goto
    <2>3. pc[Start][s] = "send" /\ pc'[Start][s] \in {"saveCmd", "save"}
      BY <1>5 DEF Send, Goto
    <2> QED
      BY <2>0, <2>1, <2>2, <2>3 DEF SendInv
  <1>6. ASSUME NEW r \in Runs,
               ResumeMark(r) \/ OpenPool(r) \/ FinalizeLoad(r) \/ FinalizeStore(r)
        PROVE  SendInv'
    <2>1. sent' = sent
      BY <1>6 DEF ResumeMark, OpenPool, FinalizeLoad, FinalizeStore
    <2>2. phase'[Start] \in {"idle", "mark"} => phase[Start] \in {"idle", "mark"}
      BY <1>6, BatchAssumption DEF ResumeMark, OpenPool, FinalizeLoad, FinalizeStore
    <2>3. ASSUME NEW s \in Slots, pc'[Start][s] \in {"queued", "send"}
          PROVE  phase'[Start] = "pool" /\ pc[Start][s] \in {"queued", "send"}
      <3>1. pc'[Start] = pc[Start]
        BY <1>6, BatchAssumption DEF ResumeMark, OpenPool, FinalizeLoad, FinalizeStore
      <3>2. phase[Start] = "pool"
        BY <2>3, <3>1 DEF SendInv
      <3>3. phase'[Start] = "pool"
        BY <1>6, <2>3, <3>1, <3>2, BatchAssumption
        DEF ResumeMark, OpenPool, FinalizeLoad, FinalizeStore
      <3> QED
        BY <2>3, <3>1, <3>3
    <2> QED
      BY <2>1, <2>2, <2>3, SendQuiet
  <1>7. ASSUME NEW r \in Runs, NEW s \in Slots,
               \/ SaveCommand(s) \/ FailNoCommand(r, s) \/ ResumeOne(r, s)
               \/ WaitForDone(r, s) \/ SaveOutcome(r, s) \/ Tally(r, s)
        PROVE  SendInv'
    <2>1. sent' = sent /\ phase' = phase
      BY <1>7 DEF SaveCommand, FailNoCommand, ResumeOne, WaitForDone, SaveOutcome, Tally
    <2>2. PICK q, step, ex : /\ q \in Runs /\ step \in {"poll", "save", "tally", "done"}
                             /\ Goto(q, s, step, ex)
      BY <1>7 DEF SaveCommand, FailNoCommand, ResumeOne, WaitForDone, SaveOutcome, Tally
    <2>3. \A x \in Slots : pc'[Start][x] = pc[Start][x] \/ pc'[Start][x] = step
      BY <2>2 DEF Goto
    <2> QED
      BY <2>1, <2>2, <2>3 DEF SendInv
  <1>8. CASE \E s \in Slots : CheckAsk(s) \/ CheckWrite(s) \/ SsmEnds(s)
    <2>1. phase' = phase /\ pc' = pc /\ sent' = sent
      BY <1>8 DEF CheckAsk, CheckWrite, SsmEnds
    <2> QED
      BY <2>1 DEF SendInv
  <1> QED
    BY <1>1, <1>2, <1>3, <1>4, <1>5, <1>6, <1>7, <1>8 DEF Next, Worker, ResumeLoad

\* A script is sent to an instance of a batch at most once: for any number of
\* slots, crashes, resumes (overlapping or not), failing statements, status
\* polls and TUI starts.
THEOREM SentOnceCorrect == Spec => []SentOnce
  <1>1. Init => SendInv
    BY DEF Init, SendInv, Runs
  <1>2. SendInv => SentOnce
    BY DEF SendInv, SentOnce
  <1> QED
    BY <1>1, <1>2, SendStep, TypeCorrect, PTL DEF Spec

-----------------------------------------------------------------------------
(* A command has an executions row before it is sent.                      *)

LEMMA RecordStep ==
  ASSUME TypeOK, RecordInv, [Next]_vars
  PROVE  RecordInv'
  <1> /\ pc \in [Runs -> [Slots -> Steps]] /\ mem \in [Runs -> [Slots -> Held]]
      /\ row \in [Slots -> Row] /\ ssm \in [Slots -> Invocation \cup {"none"}]
      /\ poll \in [Slots -> Invocation \cup {"none"}] /\ Start \in Runs
    BY Shapes
  <1>1. CASE UNCHANGED <<pc, mem, row, ssm, poll>>
    BY <1>1 DEF RecordInv
  <1>2. CASE \/ StartBatch \/ (\E r \in Resumes : ResumeCheck(r)) \/ UNCHANGED vars
             \/ \E p \in Procs : Boot(p) \/ RecoverBatch(p)
    BY <1>1, <1>2 DEF StartBatch, ResumeCheck, Boot, RecoverBatch, vars
  <1>3. ASSUME NEW p \in Procs, RecoverRows(p) PROVE RecordInv'
    <2>1. pc' = pc /\ mem' = mem /\ ssm' = ssm /\ poll' = poll
      BY <1>3 DEF RecoverRows
    <2>2. \A s \in Slots : \/ row'[s] = row[s]
                           \/ row'[s] = [row[s] EXCEPT !.status = "interrupted"]
      BY <1>3 DEF RecoverRows
    <2>3. \A s \in Slots : row'[s].cmd = row[s].cmd
                           /\ (row'[s].status = "none" => row[s].status = "none")
      BY <2>2, ZenonT(60) DEF Row
    <2> QED
      BY <2>1, <2>3 DEF RecordInv
  <1>4. CASE Crash
    BY <1>4 DEF Crash, RecordInv
  <1>5. CASE MarkRunning \/ \E r \in Resumes : ResumeLoad(r)
    <2>1. /\ row' = row /\ ssm' = ssm /\ poll' = poll
          /\ \A q \in Runs, s \in Slots :
               pc'[q][s] \in {"send", "saveCmd", "poll", "save"}
                 => pc'[q][s] = pc[q][s] /\ mem'[q][s] = mem[q][s]
      <3>1. CASE MarkRunning
        <4>1. row' = row /\ ssm' = ssm /\ poll' = poll /\ mem' = mem
          BY <3>1 DEF MarkRunning
        <4>2. pc' = [pc EXCEPT ![Start] = [s \in Slots |-> "queued"]]
          BY <3>1 DEF MarkRunning
        <4> QED
          BY <4>1, <4>2
      <3>2. ASSUME NEW r \in Resumes, ResumeLoad(r)
            PROVE  /\ row' = row /\ ssm' = ssm /\ poll' = poll
                   /\ \A q \in Runs, s \in Slots :
                        pc'[q][s] \in {"send", "saveCmd", "poll", "save"}
                          => pc'[q][s] = pc[q][s] /\ mem'[q][s] = mem[q][s]
        <4>1. row' = row /\ ssm' = ssm /\ poll' = poll
          BY <3>2 DEF ResumeLoad
        <4>2. \A q \in Runs : q # r => pc'[q] = pc[q] /\ mem'[q] = mem[q]
          BY <3>2 DEF ResumeLoad
        <4>3. \/ pc' = pc /\ mem' = mem
              \/ \A s \in Slots : pc'[r][s] = ResumeStep(s)
          BY <3>2, LoadTakes
        <4>4. \A s \in Slots : ResumeStep(s) \in {"none", "noCmd", "queued"}
          BY DEF ResumeStep
        <4> QED
          BY <4>1, <4>2, <4>3, <4>4
      <3> QED
        BY <1>5, <3>1, <3>2
    <2> QED
      BY <2>1 DEF RecordInv
  <1>6. ASSUME NEW r \in Runs,
               ResumeMark(r) \/ OpenPool(r) \/ FinalizeLoad(r) \/ FinalizeStore(r)
        PROVE  RecordInv'
    <2>1. /\ row' = row /\ ssm' = ssm /\ poll' = poll
          /\ \A q \in Runs, s \in Slots :
               pc'[q][s] # "none" => pc'[q][s] = pc[q][s] /\ mem'[q][s] = mem[q][s]
      <3>1. row' = row /\ ssm' = ssm /\ poll' = poll
        BY <1>6 DEF ResumeMark, OpenPool, FinalizeLoad, FinalizeStore
      <3>2. \/ pc' = pc /\ mem' = mem
            \/ /\ pc' = [pc EXCEPT ![r] = [s \in Slots |-> "none"]]
               /\ mem' = [mem EXCEPT ![r] = [s \in Slots |-> NoRow]]
        BY <1>6 DEF ResumeMark, OpenPool, FinalizeLoad, FinalizeStore
      <3> QED
        BY <3>1, <3>2
    <2> QED
      BY <2>1, ZenonT(60) DEF RecordInv
  <1>7. ASSUME NEW s \in Slots, CreateRow(s) PROVE RecordInv'
    <2> DEFINE fresh == [status |-> "running", cmd |-> FALSE]
    <2>1. ssm' = ssm /\ poll' = poll
      BY <1>7 DEF CreateRow
    <2>2. CASE row' = [row EXCEPT ![s] = fresh] /\ Goto(Start, s, "send", fresh)
      <3>1. \A x \in Slots : row'[x].status = "none" => x # s /\ row'[x] = row[x]
        BY <2>2
      <3>2. \A q \in Runs, x \in Slots :
              \/ pc'[q][x] = pc[q][x] /\ mem'[q][x] = mem[q][x]
              \/ q = Start /\ x = s /\ mem'[q][x].status = "running"
        BY <2>2 DEF Goto
      <3> QED
        BY <2>1, <3>1, <3>2 DEF RecordInv
    <2>3. CASE row' = row /\ \E ex : Goto(Start, s, "tally", ex)
      <3>1. \A q \in Runs, x \in Slots :
              pc'[q][x] = "tally" \/ (pc'[q][x] = pc[q][x] /\ mem'[q][x] = mem[q][x])
        BY <2>3 DEF Goto
      <3> QED
        BY <2>1, <2>3, <3>1, ZenonT(60) DEF RecordInv
    <2> QED
      BY <1>7, <2>2, <2>3 DEF CreateRow
  <1>8. ASSUME NEW s \in Slots, Send(s) PROVE RecordInv'
    <2>1. /\ row' = row /\ poll' = poll /\ pc[Start][s] = "send"
          /\ \A x \in Slots : x # s => ssm'[x] = ssm[x]
      BY <1>8 DEF Send
    <2>2. PICK step \in {"saveCmd", "save"},
               ex \in {[mem[Start][s] EXCEPT !.cmd = TRUE],
                       [mem[Start][s] EXCEPT !.status = "failed"]} : Goto(Start, s, step, ex)
      <3>1. \/ Goto(Start, s, "saveCmd", [mem[Start][s] EXCEPT !.cmd = TRUE])
            \/ Goto(Start, s, "save", [mem[Start][s] EXCEPT !.status = "failed"])
        BY <1>8 DEF Send
      <3> QED
        BY <3>1
    <2>3. ex.status # "none"
      <3>1. mem[Start][s].status # "none"
        BY <2>1 DEF RecordInv
      <3>2. mem[Start][s] \in Held
        BY HeldType
      <3> QED
        BY <2>2, <3>1, <3>2 DEF Held
    <2>4. \A q \in Runs, x \in Slots :
            \/ pc'[q][x] = pc[q][x] /\ mem'[q][x] = mem[q][x]
            \/ q = Start /\ x = s /\ pc'[q][x] = step /\ mem'[q][x] = ex
      BY <2>2 DEF Goto
    <2>5. \A x \in Slots : row[x].status = "none" => x # s
      BY <2>1 DEF RecordInv
    <2> QED
      BY <2>1, <2>3, <2>4, <2>5 DEF RecordInv
  <1>9. ASSUME NEW s \in Slots, SaveCommand(s) PROVE RecordInv'
    <2>1. /\ ssm' = ssm /\ poll' = poll /\ pc[Start][s] = "saveCmd"
          /\ row' = row \/ row' = [row EXCEPT ![s] = mem[Start][s]]
      BY <1>9 DEF SaveCommand
    <2>2. PICK step \in {"poll", "save"},
               ex \in {mem[Start][s], [mem[Start][s] EXCEPT !.status = "failed"]} :
            Goto(Start, s, step, ex)
      BY <1>9 DEF SaveCommand
    <2>3. mem[Start][s].status # "none" /\ ex.status # "none"
      BY <2>1, HeldType DEF RecordInv, Held
    <2> QED
      BY <2>1, <2>2, <2>3 DEF RecordInv, Goto
  <1>10. ASSUME NEW r \in Runs, NEW s \in Slots,
                \/ FailNoCommand(r, s) \/ ResumeOne(r, s)
                \/ WaitForDone(r, s) \/ SaveOutcome(r, s) \/ Tally(r, s)
         PROVE  RecordInv'
    <2>1. ssm' = ssm /\ poll' = poll
      BY <1>10 DEF FailNoCommand, ResumeOne, WaitForDone, SaveOutcome, Tally
    <2>2. \A q \in Runs, x \in Slots :
            \/ pc'[q][x] = pc[q][x] /\ mem'[q][x] = mem[q][x]
            \/ pc'[q][x] \in {"tally", "done"}
            \/ pc'[q][x] \in {"poll", "save"} /\ mem'[q][x].status # "none"
      <3> DEFINE Moved == \A q \in Runs, x \in Slots :
                            \/ pc'[q][x] = pc[q][x] /\ mem'[q][x] = mem[q][x]
                            \/ pc'[q][x] \in {"tally", "done"}
                            \/ pc'[q][x] \in {"poll", "save"} /\ mem'[q][x].status # "none"
      <3>1. ASSUME NEW ex, Goto(r, s, "tally", ex) \/ Goto(r, s, "done", ex) PROVE Moved
        BY <3>1 DEF Goto
      <3>2. ASSUME NEW ex, Goto(r, s, "poll", ex) \/ Goto(r, s, "save", ex), ex.status # "none"
            PROVE  Moved
        BY <3>2 DEF Goto
      <3>3. \A st \in ExecutionStatus : [mem[r][s] EXCEPT !.status = st].status # "none"
        <4>1. mem[r][s] \in Held
          BY HeldType
        <4> QED
          BY <4>1 DEF Held, ExecutionStatus
      <3>4. CASE FailNoCommand(r, s)
        BY <3>1, <3>4 DEF FailNoCommand
      <3>5. CASE SaveOutcome(r, s)
        BY <3>1, <3>5 DEF SaveOutcome
      <3>6. CASE Tally(r, s)
        BY <3>1, <3>6 DEF Tally
      <3>7. CASE ResumeOne(r, s)
        BY <3>2, <3>3, <3>7 DEF ResumeOne, ExecutionStatus
      <3>8. CASE WaitForDone(r, s)
        BY <3>2, <3>3, <3>8 DEF WaitForDone, ExecutionStatus, Terminal
      <3> QED
        BY <1>10, <3>4, <3>5, <3>6, <3>7, <3>8
    <2>4. \A x \in Slots : \/ row'[x] = row[x]
                           \/ row'[x] = [row[x] EXCEPT !.status = "failed"]
                           \/ row'[x] = [row[x] EXCEPT !.status = "running"]
                           \/ row'[x] = mem[r][x] /\ pc[r][x] = "save"
      BY <1>10 DEF FailNoCommand, ResumeOne, WaitForDone, SaveOutcome, Tally
    <2>5. \A x \in Slots : row'[x].status = "none" => row[x].status = "none" /\ ~row'[x].cmd
      BY <2>4 DEF RecordInv, Row
    <2>6. ASSUME NEW x \in Slots, row'[x].status = "none"
          PROVE  ssm'[x] = "none" /\ pc'[Start][x] # "send" /\ poll'[x] = "none" /\ ~row'[x].cmd
      <3>1. row[x].status = "none"
        BY <2>5, <2>6
      <3> QED
        BY <2>1, <2>2, <2>5, <2>6, <3>1 DEF RecordInv
    <2> QED
      BY <2>2, <2>6 DEF RecordInv
  <1>11. ASSUME NEW s \in Slots, CheckAsk(s) \/ CheckWrite(s) PROVE RecordInv'
    <2>1. pc' = pc /\ mem' = mem /\ ssm' = ssm
      BY <1>11 DEF CheckAsk, CheckWrite
    <2>2. CASE CheckAsk(s)
      BY <2>1, <2>2 DEF CheckAsk, RecordInv
    <2>3. CASE CheckWrite(s)
      <3>1. /\ poll[s] # "none"
            /\ row' = row \/ row' = [row EXCEPT ![s].status = poll[s]]
            /\ \A x \in Slots : poll'[x] # "none" => poll[x] # "none"
        BY <2>3 DEF CheckWrite
      <3>2. \A x \in Slots : /\ row'[x].status = "none" => row[x].status = "none"
                             /\ row'[x].cmd = row[x].cmd
        BY <3>1 DEF Row
      <3> QED
        BY <2>1, <3>1, <3>2 DEF RecordInv
    <2> QED
      BY <1>11, <2>2, <2>3
  <1>12. ASSUME NEW s \in Slots, SsmEnds(s) PROVE RecordInv'
    BY <1>12 DEF SsmEnds, RecordInv
  <1> QED
    BY <1>2, <1>3, <1>4, <1>5, <1>6, <1>7, <1>8, <1>9, <1>10, <1>11, <1>12
    DEF Next, Worker, Recovery, ResumeLoad

\* No command runs on a host without an executions row that tells of it, in
\* any instance and whatever the environment does.
THEOREM SentIsRecordedCorrect == Spec => []SentIsRecorded
  <1>1. Init => RecordInv
    BY DEF Init, RecordInv, Runs, NoRow
  <1>2. RecordInv => SentIsRecorded
    BY DEF RecordInv, SentIsRecorded
  <1>3. TypeOK /\ RecordInv /\ [Next]_vars => RecordInv'
    BY RecordStep
  <1> QED
    BY <1>1, <1>2, <1>3, TypeCorrect, PTL DEF Spec

-----------------------------------------------------------------------------
(* Under a sole owner each slot is tallied at most once.                   *)

\* A step of one worker: the runs and processes stay where they are.
LEMMA OwnerQuiet ==
  ASSUME TypeOK, OwnerInv, phase' = phase, proc' = proc, batch'.status = batch.status,
         \A r \in Runs, s \in Slots :
           pc'[r][s] \notin {"none", "done"} => pc[r][s] \notin {"none", "done"}
  PROVE  OwnerInv'
  BY DEF OwnerInv, Active

\* The steps a worker takes from one statement or call to the next.
WorkerStep(r, s) ==
  \/ r = Start /\ (CreateRow(s) \/ Send(s) \/ SaveCommand(s))
  \/ FailNoCommand(r, s) \/ ResumeOne(r, s)
  \/ WaitForDone(r, s) \/ SaveOutcome(r, s) \/ Tally(r, s)

\* They move only the worker they belong to, which was at work before.
LEMMA WorkerMoves ==
  ASSUME TypeOK, NEW r \in Runs, NEW s \in Slots, WorkerStep(r, s)
  PROVE  /\ phase' = phase /\ proc' = proc /\ batch'.status = batch.status
         /\ pc[r][s] \notin {"none", "done"}
         /\ \A q \in Runs, x \in Slots : q # r \/ x # s =>
              /\ pc'[q][x] = pc[q][x] /\ mem'[q][x] = mem[q][x]
         /\ \A x \in Slots : x # s => row'[x] = row[x] /\ tallied'[x] = tallied[x]
         /\ \A x \in Slots : x # s => x \in unsaved <=> x \in unsaved'
         /\ unsaved \subseteq unsaved'
  <1> /\ phase \in [Runs -> Phases] /\ pc \in [Runs -> [Slots -> Steps]] /\ Start \in Runs
      /\ mem \in [Runs -> [Slots -> Held]] /\ row \in [Slots -> Row]
      /\ tallied \in [Slots -> Nat]
    BY Shapes
  <1>1. phase' = phase /\ proc' = proc /\ pc[r][s] \notin {"none", "done"}
    BY DEF WorkerStep, CreateRow, Send, SaveCommand, FailNoCommand, ResumeOne, WaitForDone,
           SaveOutcome, Tally
  <1>2. PICK step, ex : Goto(r, s, step, ex)
    <2>1. CASE r = Start /\ CreateRow(s)
      BY <2>1 DEF CreateRow
    <2>2. CASE r = Start /\ (Send(s) \/ SaveCommand(s))
      BY <2>2 DEF Send, SaveCommand
    <2> QED
      BY <2>1, <2>2 DEF WorkerStep, FailNoCommand, ResumeOne, WaitForDone, SaveOutcome, Tally
  <1>3. \A q \in Runs, x \in Slots : q # r \/ x # s =>
          pc'[q][x] = pc[q][x] /\ mem'[q][x] = mem[q][x]
    BY <1>2 DEF Goto
  <1>4. batch'.status = batch.status
    <2>1. CASE Tally(r, s)
      <3>1. batch \in Job
        BY DEF TypeOK
      <3> QED
        BY <2>1, <3>1 DEF Tally, Job
    <2> QED
      BY <2>1 DEF WorkerStep, CreateRow, Send, SaveCommand, FailNoCommand, ResumeOne,
                  WaitForDone, SaveOutcome
  <1>5. \A x \in Slots : x # s => row'[x] = row[x]
    BY DEF WorkerStep, CreateRow, Send, SaveCommand, FailNoCommand, ResumeOne, WaitForDone,
           SaveOutcome, Tally
  <1>6. \A x \in Slots : x # s => tallied'[x] = tallied[x]
    BY DEF WorkerStep, CreateRow, Send, SaveCommand, FailNoCommand, ResumeOne, WaitForDone,
           SaveOutcome, Tally
  <1>7. unsaved' = unsaved \/ unsaved' = unsaved \cup {s}
    BY DEF WorkerStep, CreateRow, Send, SaveCommand, FailNoCommand, ResumeOne, WaitForDone,
           SaveOutcome, Tally
  <1> QED
    BY <1>1, <1>3, <1>4, <1>5, <1>6, <1>7

LEMMA OwnerStep ==
  ASSUME SoleOwner, TypeOK, OwnerInv, [Next]_vars
  PROVE  OwnerInv'
  <1> /\ phase \in [Runs -> Phases] /\ pc \in [Runs -> [Slots -> Steps]] /\ Start \in Runs
      /\ Resumes \subseteq Runs
    BY Shapes
  <1>1. CASE UNCHANGED vars
    BY <1>1, OwnerQuiet DEF vars
  <1>2. ASSUME NEW r \in Runs, NEW s \in Slots, WorkerStep(r, s) PROVE OwnerInv'
    BY <1>2, WorkerMoves, OwnerQuiet
  <1>3. CASE \E s \in Slots : CheckAsk(s) \/ CheckWrite(s) \/ SsmEnds(s)
    <2>1. phase' = phase /\ pc' = pc /\ proc' = proc /\ batch' = batch
      BY <1>3 DEF CheckAsk, CheckWrite, SsmEnds
    <2> QED
      BY <2>1, OwnerQuiet
  <1>4. CASE StartBatch
    <2>1. batch'.status = "pending" /\ pc' = pc /\ proc' = proc /\ proc["server"] = "ready"
      BY <1>4 DEF StartBatch, Serving
    <2>2. \A r \in Runs : phase'[r] = IF r = Start THEN "mark" ELSE phase[r]
      BY <1>4 DEF StartBatch
    <2>3. phase[Start] = "idle"
      BY <1>4 DEF StartBatch
    <2> QED
      BY <2>1, <2>2, <2>3 DEF OwnerInv, Active
  <1>5. CASE MarkRunning
    <2>1. /\ batch'.status \in {batch.status, "running"} /\ proc' = proc
          /\ phase[Start] = "mark"
      BY <1>5 DEF MarkRunning, TypeOK, Job
    <2>2. \A r \in Runs : phase'[r] = IF r = Start THEN "pool" ELSE phase[r]
      BY <1>5 DEF MarkRunning
    <2>3. \A r \in Runs : r # Start => pc'[r] = pc[r]
      BY <1>5 DEF MarkRunning
    <2> QED
      BY <2>1, <2>2, <2>3 DEF OwnerInv, Active
  <1>6. ASSUME NEW r \in Resumes, ResumeCheck(r) PROVE OwnerInv'
    <2>1. /\ batch' = batch /\ proc' = proc /\ proc["server"] = "ready" /\ pc' = pc
          /\ batch.status = "interrupted" /\ phase[r] = "idle" /\ r # Start
      BY <1>6, BatchAssumption DEF ResumeCheck, Serving
    <2>2. \A q \in Runs : phase'[q] = IF q = r THEN "load" ELSE phase[q]
      BY <1>6 DEF ResumeCheck
    <2>3. \A q \in Runs : ~Active(q)
      <3> SUFFICES ASSUME NEW q \in Runs, Active(q) PROVE FALSE
        OBVIOUS
      <3>1. q # Start /\ phase[q] \in {"load", "mark"}
        BY <2>1 DEF OwnerInv
      <3> QED
        BY <1>6, <3>1 DEF ResumeCheck, SoleOwner, Runs
    <2> QED
      BY <2>1, <2>2, <2>3 DEF OwnerInv, Active
  <1>7. ASSUME NEW r \in Resumes, ResumeLoad(r) PROVE OwnerInv'
    <2>1. batch' = batch /\ proc' = proc /\ phase[r] = "load" /\ r # Start /\ Active(r)
      BY <1>7, BatchAssumption DEF ResumeLoad, Active
    <2>2. PICK ph \in {"mark", "done"} : phase' = [phase EXCEPT ![r] = ph]
      BY <1>7 DEF ResumeLoad
    <2>3. \A q \in Runs : q # r => ~Active(q) /\ phase'[q] = phase[q] /\ pc'[q] = pc[q]
      BY <1>7, <2>1 DEF ResumeLoad, OwnerInv
    <2>4. ph = "done" => \A s \in Slots : pc'[r][s] = pc[r][s]
      BY <1>7, <2>1, <2>2 DEF ResumeLoad
    <2>5. \A s \in Slots : pc[r][s] \in {"none", "done"}
      BY <2>1 DEF OwnerInv
    <2>6. phase[Start] # "idle"
      BY <2>1 DEF OwnerInv
    <2> QED
      BY <2>1, <2>2, <2>3, <2>4, <2>5, <2>6 DEF OwnerInv, Active
  <1>8. ASSUME NEW r \in Runs,
               ResumeMark(r) \/ OpenPool(r) \/ FinalizeLoad(r) \/ FinalizeStore(r)
        PROVE  OwnerInv'
    <2>1. PICK ph \in {"partition", "pool", "store", "done"} :
            phase' = [phase EXCEPT ![r] = ph]
      BY <1>8 DEF ResumeMark, OpenPool, FinalizeLoad, FinalizeStore
    <2>2. Active(r) /\ proc' = proc
      BY <1>8 DEF ResumeMark, OpenPool, FinalizeLoad, FinalizeStore, Active
    <2>3. \A q \in Runs : q # r => ~Active(q) /\ phase'[q] = phase[q]
      BY <2>1, <2>2 DEF OwnerInv
    <2>4. \A q \in Runs, s \in Slots :
            pc'[q][s] \notin {"none", "done"} => pc[q][s] \notin {"none", "done"}
      BY <1>8 DEF ResumeMark, OpenPool, FinalizeLoad, FinalizeStore
    <2>5. ph \in {"store", "done"} => \A s \in Slots : pc'[r][s] \in {"none", "done"}
      <3>1. CASE ResumeMark(r) \/ OpenPool(r)
        <4>1. phase'[r] = ph
          BY <2>1
        <4>2. \/ phase' = [phase EXCEPT ![r] = "partition"]
              \/ phase' = [phase EXCEPT ![r] = "pool"]
              \/ pc' = [pc EXCEPT ![r] = [s \in Slots |-> "none"]]
          BY <3>1 DEF ResumeMark, OpenPool
        <4> QED
          BY <4>1, <4>2
      <3>2. CASE FinalizeLoad(r) \/ FinalizeStore(r)
        BY <3>2 DEF FinalizeLoad, FinalizeStore, OwnerInv
      <3> QED
        BY <1>8, <3>1, <3>2
    <2>6. ph # "done" => batch'.status # "interrupted"
      <3>1. CASE ResumeMark(r)
        BY <2>1, <3>1 DEF ResumeMark, TypeOK, Job
      <3>2. CASE OpenPool(r) \/ FinalizeLoad(r)
        BY <2>2, <3>2 DEF OpenPool, FinalizeLoad, OwnerInv
      <3>3. CASE FinalizeStore(r)
        BY <2>1, <3>3 DEF FinalizeStore
      <3> QED
        BY <1>8, <3>1, <3>2, <3>3
    <2>7. r = Start \/ phase[Start] # "idle"
      BY <2>2 DEF OwnerInv
    <2> QED
      BY <2>1, <2>2, <2>3, <2>4, <2>5, <2>6, <2>7 DEF OwnerInv, Active
  <1>9. CASE Crash
    <2>1. /\ \A r \in Runs : ~Active(r)'
          /\ \A r \in Runs, s \in Slots : pc'[r][s] = "none"
          /\ phase'[Start] = "idle" <=> phase[Start] = "idle"
          /\ batch' = batch
      BY <1>9 DEF Crash, Active
    <2>2. proc'["tui"] = proc["tui"] /\ proc'["server"] = "stopped"
      BY <1>9 DEF Crash, TypeOK, Procs
    <2> QED
      BY <2>1, <2>2 DEF OwnerInv
  <1>10. ASSUME NEW p \in Procs, Boot(p) \/ RecoverRows(p) \/ RecoverBatch(p)
        PROVE  OwnerInv'
    <2>1. p = "server"
      <3>1. used.launches \in Nat /\ MaxLaunches = 0
        BY DEF TypeOK, Budget, SoleOwner
      <3>2. CASE Boot(p)
        BY <3>1, <3>2 DEF Boot, Procs
      <3>3. CASE RecoverRows(p) \/ RecoverBatch(p)
        BY <3>3 DEF RecoverRows, RecoverBatch, OwnerInv, Procs
      <3> QED
        BY <1>10, <3>2, <3>3
    <2>2. phase' = phase /\ pc' = pc /\ \A r \in Runs : ~Active(r)
      BY <1>10, <2>1 DEF Boot, RecoverRows, RecoverBatch, OwnerInv
    <2>3. proc'["tui"] = proc["tui"]
      BY <1>10, <2>1 DEF Boot, RecoverRows, RecoverBatch, TypeOK, Procs
    <2>4. proc'["server"] \in {"rows", "batch"} => phase[Start] # "idle"
      BY <1>10, <2>1 DEF Boot, RecoverRows, RecoverBatch, AfterRecovery, TypeOK, Procs, OwnerInv
    <2>5. phase[Start] = "idle" => batch' = batch
      BY <1>10, <2>1 DEF Boot, RecoverRows, RecoverBatch, OwnerInv
    <2> QED
      BY <2>2, <2>3, <2>4, <2>5 DEF OwnerInv, Active
  <1> QED
    BY <1>1, <1>2, <1>3, <1>4, <1>5, <1>6, <1>8, <1>9, <1>10, <1>7
    DEF Next, Worker, Recovery, WorkerStep, ResumeLoad

\* Steps that count nothing, put no slot of a run to work and give no row up.
LEMMA SlotQuiet ==
  ASSUME TypeOK, SlotInv, tallied' = tallied, unsaved' = unsaved,
         phase'[Start] \in {"idle", "mark"} => phase[Start] \in {"idle", "mark"},
         \A q \in Runs, s \in Slots :
           pc'[q][s] = "none" \/ (pc'[q][s] = pc[q][s] /\ mem'[q][s] = mem[q][s]),
         \A s \in Slots :
           /\ row[s].status = "none" => row'[s].status = "none"
           /\ row'[s].status \in Reopenable => row[s].status \in Reopenable
  PROVE  SlotInv'
  <1> Start \in Runs
    BY Shapes
  <1> QED
    BY DEF SlotInv

\* What a worker's step does to its slot.
LEMMA SlotMoves ==
  ASSUME TypeOK, SlotInv, NEW r \in Runs, NEW s \in Slots, WorkerStep(r, s)
  PROVE  /\ pc'[r][s] \notin {"none", "noCmd", "queued"}
         /\ pc'[r][s] = "save" => mem'[r][s].status \in Terminal
         /\ pc'[r][s] # "done" => tallied'[s] = tallied[s]
         /\ pc'[r][s] = "tally" => s \in unsaved' \/ row'[s].status \notin Reopenable
         /\ pc'[r][s] = "done" => /\ pc[r][s] = "tally" /\ row'[s] = row[s]
                                  /\ tallied'[s] \in {tallied[s], tallied[s] + 1}
  <1> /\ pc \in [Runs -> [Slots -> Steps]] /\ mem \in [Runs -> [Slots -> Held]]
      /\ row \in [Slots -> Row] /\ tallied \in [Slots -> Nat] /\ Start \in Runs
    BY Shapes
  <1> mem[r][s] \in Held
    BY HeldType
  <1> DEFINE to(step) == pc'[r][s] = step
  <1>0. ASSUME NEW step, NEW ex, Goto(r, s, step, ex)
        PROVE  to(step) /\ mem'[r][s] = ex
    BY <1>0 DEF Goto
  <1>1. CASE r = Start /\ CreateRow(s)
    <2>1. tallied' = tallied /\ row[s].status = "none"
      BY <1>1 DEF CreateRow, SlotInv
    <2>2. to("send") \/ (to("tally") /\ row' = row)
      BY <1>1, <1>0 DEF CreateRow
    <2> QED
      BY <2>1, <2>2 DEF Reopenable
  <1>2. CASE r = Start /\ Send(s)
    <2>1. tallied' = tallied
      BY <1>2 DEF Send
    <2>2. to("saveCmd") \/ (to("save") /\ mem'[r][s] = [mem[r][s] EXCEPT !.status = "failed"])
      BY <1>2, <1>0 DEF Send
    <2>3. [mem[r][s] EXCEPT !.status = "failed"].status \in Terminal
      BY DEF Held, Terminal
    <2> QED
      BY <2>1, <2>2, <2>3
  <1>3. CASE r = Start /\ SaveCommand(s)
    <2>1. tallied' = tallied
      BY <1>3 DEF SaveCommand
    <2>2. to("poll") \/ (to("save") /\ mem'[r][s] = [mem[r][s] EXCEPT !.status = "failed"])
      BY <1>3, <1>0 DEF SaveCommand
    <2>3. [mem[r][s] EXCEPT !.status = "failed"].status \in Terminal
      BY DEF Held, Terminal
    <2> QED
      BY <2>1, <2>2, <2>3
  <1>4. CASE FailNoCommand(r, s)
    <2>1. tallied' = tallied /\ to("tally")
      BY <1>4, <1>0 DEF FailNoCommand
    <2>2. s \in unsaved' \/ row' = [row EXCEPT ![s].status = "failed"]
      BY <1>4 DEF FailNoCommand
    <2>3. row' = [row EXCEPT ![s].status = "failed"] => row'[s].status = "failed"
      BY DEF Row
    <2> QED
      BY <2>1, <2>2, <2>3 DEF Reopenable
  <1>5. CASE ResumeOne(r, s)
    <2>1. tallied' = tallied /\ to("poll")
      BY <1>5, <1>0 DEF ResumeOne
    <2> QED
      BY <2>1
  <1>6. CASE WaitForDone(r, s)
    <2>1. PICK st \in Terminal : Goto(r, s, "save", [mem[r][s] EXCEPT !.status = st])
      BY <1>6 DEF WaitForDone
    <2>2. [mem[r][s] EXCEPT !.status = st].status = st
      BY DEF Held
    <2>3. tallied' = tallied /\ to("save") /\ mem'[r][s] = [mem[r][s] EXCEPT !.status = st]
      BY <1>6, <1>0, <2>1 DEF WaitForDone
    <2> QED
      BY <2>2, <2>3
  <1>7. CASE SaveOutcome(r, s)
    <2>1. tallied' = tallied /\ to("tally")
      BY <1>7, <1>0 DEF SaveOutcome
    <2>2. s \in unsaved' \/ row' = [row EXCEPT ![s] = mem[r][s]]
      BY <1>7 DEF SaveOutcome
    <2>3. mem[r][s].status \in Terminal
      BY <1>7 DEF SaveOutcome, SlotInv
    <2> QED
      BY <2>1, <2>2, <2>3 DEF Reopenable, Terminal
  <1>8. CASE Tally(r, s)
    <2>1. to("done") /\ pc[r][s] = "tally" /\ row' = row
      BY <1>8, <1>0 DEF Tally
    <2>2. tallied' = tallied \/ tallied' = [tallied EXCEPT ![s] = @ + 1]
      BY <1>8 DEF Tally
    <2> QED
      BY <2>1, <2>2
  <1> QED
    BY <1>1, <1>2, <1>3, <1>4, <1>5, <1>6, <1>7, <1>8 DEF WorkerStep

LEMMA SlotStep ==
  ASSUME SoleOwner, TypeOK, RecordInv, TallyInv, [Next]_vars
  PROVE  SlotInv'
  <1> /\ phase \in [Runs -> Phases] /\ pc \in [Runs -> [Slots -> Steps]]
      /\ mem \in [Runs -> [Slots -> Held]] /\ row \in [Slots -> Row]
      /\ tallied \in [Slots -> Nat] /\ Start \in Runs /\ Resumes \subseteq Runs
    BY Shapes
  <1> OwnerInv /\ SlotInv
    BY DEF TallyInv
  <1>1. CASE \/ StartBatch \/ (\E r \in Resumes : ResumeCheck(r)) \/ UNCHANGED vars
             \/ \E p \in Procs : Boot(p) \/ RecoverBatch(p)
             \/ \E s \in Slots : CheckAsk(s) \/ SsmEnds(s)
    <2>1. tallied' = tallied /\ unsaved' = unsaved /\ pc' = pc /\ mem' = mem /\ row' = row
      BY <1>1 DEF StartBatch, ResumeCheck, Boot, RecoverBatch, CheckAsk, SsmEnds, vars
    <2>2. phase'[Start] \in {"idle", "mark"} => phase[Start] \in {"idle", "mark"}
      BY <1>1, BatchAssumption
      DEF StartBatch, ResumeCheck, Boot, RecoverBatch, CheckAsk, SsmEnds, vars
    <2> QED
      BY <2>1, <2>2, SlotQuiet
  <1>2. CASE Crash
    <2>1. /\ tallied' = tallied /\ unsaved' = unsaved /\ row' = row
          /\ \A q \in Runs, s \in Slots : pc'[q][s] = "none"
          /\ phase'[Start] \in {"idle", "mark"} => phase[Start] \in {"idle", "mark"}
      BY <1>2 DEF Crash
    <2> QED
      BY <2>1, SlotQuiet
  <1>3. ASSUME NEW p \in Procs, RecoverRows(p) PROVE SlotInv'
    <2>1. tallied' = tallied /\ unsaved' = unsaved /\ pc' = pc /\ mem' = mem /\ phase' = phase
      BY <1>3 DEF RecoverRows
    <2>2. \A s \in Slots :
            \/ row'[s] = row[s]
            \/ /\ row[s].status = "running"
               /\ row'[s] = [row[s] EXCEPT !.status = "interrupted"]
      BY <1>3 DEF RecoverRows
    <2>3. \A s \in Slots : /\ row[s].status = "none" => row'[s].status = "none"
                           /\ row'[s].status \in Reopenable => row[s].status \in Reopenable
      BY <2>2 DEF Row, Reopenable
    <2> QED
      BY <2>1, <2>3, SlotQuiet
  <1>4. ASSUME NEW s \in Slots, CheckWrite(s) PROVE SlotInv'
    <2>1. tallied' = tallied /\ unsaved' = unsaved /\ pc' = pc /\ mem' = mem /\ phase' = phase
      BY <1>4 DEF CheckWrite
    <2>2. /\ poll[s] # "none"
          /\ row' = row \/ row' = [row EXCEPT ![s].status = poll[s]]
      BY <1>4 DEF CheckWrite
    <2>3. row[s].status # "none" /\ poll[s] \notin Reopenable
      BY <2>2, Shapes DEF RecordInv, Invocation, Reopenable
    <2>4. \A x \in Slots : row'[x] = row[x] \/ (x = s /\ row'[x].status = poll[s])
      BY <2>2 DEF Row
    <2>5. \A x \in Slots : /\ row[x].status = "none" => row'[x].status = "none"
                           /\ row'[x].status \in Reopenable => row[x].status \in Reopenable
      BY <2>3, <2>4
    <2> QED
      BY <2>1, <2>5, SlotQuiet
  <1>5. CASE MarkRunning
    <2>1. /\ tallied' = tallied /\ unsaved' = unsaved /\ mem' = mem /\ row' = row
          /\ phase[Start] = "mark"
      BY <1>5 DEF MarkRunning
    <2>2. phase'[Start] = "pool"
      BY <1>5 DEF MarkRunning
    <2>3. \A q \in Runs, s \in Slots :
            pc'[q][s] = IF q = Start THEN "queued" ELSE pc[q][s]
      BY <1>5 DEF MarkRunning
    <2> QED
      BY <2>1, <2>2, <2>3 DEF SlotInv
  <1>6. ASSUME NEW r \in Resumes, ResumeLoad(r) PROVE SlotInv'
    <2>1. tallied' = tallied /\ unsaved' = unsaved /\ row' = row /\ r # Start
      BY <1>6, BatchAssumption DEF ResumeLoad
    <2>2. phase'[Start] = phase[Start]
      BY <1>6, <2>1 DEF ResumeLoad
    <2>0. CASE pc' = pc /\ mem' = mem
      BY <2>0, <2>1, <2>2, SlotQuiet
    <2> SUFFICES ASSUME ~(pc' = pc /\ mem' = mem) PROVE SlotInv'
      BY <2>0
    <2>3. \A q \in Runs, s \in Slots :
            q # r => pc'[q][s] = pc[q][s] /\ mem'[q][s] = mem[q][s]
      BY <1>6 DEF ResumeLoad
    <2>4. \A s \in Slots : pc'[r][s] = ResumeStep(s)
      BY <1>6, LoadTakes
    <2>5. \A s \in Slots :
            \/ pc'[r][s] = "none"
            \/ row[s].status \in Reopenable /\ pc'[r][s] \in {"noCmd", "queued"}
      BY <2>4 DEF ResumeStep, Reopenable
    <2>6. \A s \in Slots \ unsaved : pc'[r][s] # "none" => tallied[s] = 0
      BY <2>5 DEF SlotInv
    <2>7. ASSUME NEW s \in Slots \ unsaved
          PROVE  /\ tallied[s] <= 1
                 /\ tallied[s] > 0 => row[s].status \notin Reopenable
                 /\ \A q \in Runs :
                      /\ pc'[q][s] \notin {"none", "done"} => tallied[s] = 0
                      /\ pc'[q][s] = "tally" => row[s].status \notin Reopenable
      <3>1. ASSUME NEW q \in Runs
            PROVE  /\ pc'[q][s] \notin {"none", "done"} => tallied[s] = 0
                   /\ pc'[q][s] = "tally" => row[s].status \notin Reopenable
        <4>1. CASE q = r
          BY <2>5, <2>6, <4>1
        <4>2. CASE q # r
          BY <2>3, <4>2 DEF SlotInv
        <4> QED
          BY <4>1, <4>2
      <3> QED
        BY <3>1 DEF SlotInv
    <2>8. \A q \in Runs, s \in Slots : pc'[q][s] = "save" => mem'[q][s].status \in Terminal
      <3>1. \A s \in Slots : pc'[r][s] # "save"
        BY <2>5
      <3>2. ASSUME NEW q \in Runs, NEW s \in Slots, q # r, pc'[q][s] = "save"
            PROVE  mem'[q][s].status \in Terminal
        <4>1. pc[q][s] = "save" /\ mem'[q][s] = mem[q][s]
          BY <2>3, <3>2
        <4> QED
          BY <4>1 DEF SlotInv
      <3> QED
        BY <3>1, <3>2
    <2>9. \A s \in Slots : pc'[Start][s] = pc[Start][s]
      BY <2>1, <2>3
    <2> QED
      BY <2>1, <2>2, <2>7, <2>8, <2>9 DEF SlotInv
  <1>7. ASSUME NEW r \in Runs,
               ResumeMark(r) \/ OpenPool(r) \/ FinalizeLoad(r) \/ FinalizeStore(r)
        PROVE  SlotInv'
    <2>1. tallied' = tallied /\ unsaved' = unsaved /\ row' = row
      BY <1>7 DEF ResumeMark, OpenPool, FinalizeLoad, FinalizeStore
    <2>2. \/ pc' = pc /\ mem' = mem
          \/ pc' = [pc EXCEPT ![r] = [s \in Slots |-> "none"]]
             /\ mem' = [mem EXCEPT ![r] = [s \in Slots |-> NoRow]]
      BY <1>7 DEF ResumeMark, OpenPool, FinalizeLoad, FinalizeStore
    <2>3. \A q \in Runs, s \in Slots :
            pc'[q][s] = "none" \/ (pc'[q][s] = pc[q][s] /\ mem'[q][s] = mem[q][s])
      BY <2>2
    <2>4. phase'[Start] \in {"idle", "mark"} => phase[Start] \in {"idle", "mark"}
      BY <1>7, BatchAssumption DEF ResumeMark, OpenPool, FinalizeLoad, FinalizeStore
    <2> QED
      BY <2>1, <2>3, <2>4, SlotQuiet
  <1>8. ASSUME NEW r \in Runs, NEW s \in Slots, WorkerStep(r, s) PROVE SlotInv'
    <2>1. /\ phase' = phase /\ pc[r][s] \notin {"none", "done"}
          /\ \A q \in Runs, x \in Slots : q # r \/ x # s =>
               pc'[q][x] = pc[q][x] /\ mem'[q][x] = mem[q][x]
          /\ \A x \in Slots : x # s => row'[x] = row[x] /\ tallied'[x] = tallied[x]
          /\ \A x \in Slots : x # s => x \in unsaved <=> x \in unsaved'
          /\ unsaved \subseteq unsaved'
      BY <1>8, WorkerMoves
    <2>2. /\ pc'[r][s] \notin {"none", "noCmd", "queued"}
          /\ pc'[r][s] = "save" => mem'[r][s].status \in Terminal
          /\ pc'[r][s] # "done" => tallied'[s] = tallied[s]
          /\ pc'[r][s] = "tally" => s \in unsaved' \/ row'[s].status \notin Reopenable
          /\ pc'[r][s] = "done" => /\ pc[r][s] = "tally" /\ row'[s] = row[s]
                                   /\ tallied'[s] \in {tallied[s], tallied[s] + 1}
      BY <1>8, SlotMoves
    <2>3. Active(r) /\ phase[Start] \notin {"idle", "mark"}
      <3>1. Active(r)
        BY <2>1 DEF OwnerInv, Active
      <3>2. phase[Start] # "idle"
        BY <3>1 DEF OwnerInv
      <3>3. phase[Start] = "mark" => r = Start /\ pc[Start][s] = "none"
        BY <3>1 DEF OwnerInv, SlotInv, Active
      <3> QED
        BY <2>1, <3>1, <3>2, <3>3
    <2>4. \A q \in Runs, x \in Slots : q # r => pc[q][x] \in {"none", "done"}
      BY <2>3 DEF OwnerInv, Active
    <2>5. ASSUME NEW x \in Slots, x \notin unsaved'
          PROVE  /\ tallied'[x] <= 1
                 /\ tallied'[x] > 0 => row'[x].status \notin Reopenable
                 /\ \A q \in Runs :
                      /\ pc'[q][x] \notin {"none", "done"} => tallied'[x] = 0
                      /\ pc'[q][x] = "tally" => row'[x].status \notin Reopenable
      <3>1. CASE x # s
        BY <2>1, <2>5, <3>1 DEF SlotInv
      <3>2. CASE x = s
        <4>1. s \notin unsaved /\ tallied[s] = 0
          BY <2>1, <2>5, <3>2 DEF SlotInv
        <4>2. \A q \in Runs : pc'[q][s] \notin {"none", "done"} => q = r
          BY <2>1, <2>4
        <4>3. pc[r][s] = "tally" => row[s].status \notin Reopenable
          BY <4>1 DEF SlotInv
        <4> QED
          BY <2>2, <2>5, <3>2, <4>1, <4>2, <4>3
      <3> QED
        BY <3>1, <3>2
    <2>6. ASSUME NEW x \in Slots, pc'[Start][x] = "queued"
          PROVE  row'[x].status = "none"
      <3>1. x # s
        BY <2>1, <2>2, <2>4, <2>6
      <3> QED
        BY <2>1, <2>6, <3>1 DEF SlotInv
    <2>7. \A q \in Runs, x \in Slots : pc'[q][x] = "save" => mem'[q][x].status \in Terminal
      BY <2>1, <2>2 DEF SlotInv
    <2> QED
      BY <2>1, <2>3, <2>5, <2>6, <2>7 DEF SlotInv
  <1> QED
    BY <1>1, <1>2, <1>3, <1>4, <1>5, <1>6, <1>7, <1>8
    DEF Next, Worker, Recovery, WorkerStep, ResumeLoad

\* With a sole owner no instance is counted twice over all the runs of a batch,
\* for any number of slots, crashes, resumes, failing statements and status
\* polls; only an outcome the database refused to store may be counted again.
THEOREM TalliedOnceCorrect == Spec => []TalliedOnce
  <1>1. Init => TallyInv
    BY DEF Init, TallyInv, OwnerInv, SlotInv, Active, Runs, Procs, NoRow
  <1>2. SoleOwner /\ TypeOK /\ RecordInv /\ TallyInv /\ [Next]_vars => TallyInv'
    BY OwnerStep, SlotStep DEF TallyInv
  <1>3. TallyInv => TalliedOnce
    BY DEF TallyInv, SlotInv, TalliedOnce
  <1>4. Init => RecordInv
    BY DEF Init, RecordInv, Runs, NoRow
  <1>5. CASE SoleOwner
    <2>1. TypeOK /\ RecordInv /\ TallyInv /\ [Next]_vars => TallyInv'
      BY <1>2, <1>5
    <2> QED
      BY <1>1, <1>3, <1>4, <2>1, RecordStep, TypeCorrect, PTL DEF Spec
  <1>6. CASE ~SoleOwner
    <2>1. TalliedOnce
      BY <1>6 DEF TalliedOnce
    <2> QED
      BY <2>1, PTL
  <1> QED
    BY <1>5, <1>6
=============================================================================

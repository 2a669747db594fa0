------------------------- MODULE BatchLifecycleProofs -------------------------
(***************************************************************************)
(* What BatchRunner says of an outcome is true and stays, and the batch row *)
(* keeps the promise of JobLifecycle: with a sole owner and up to the first *)
(* failed statement.                                                       *)
(***************************************************************************)
EXTENDS BatchSafetyProofs, FiniteSetTheorems

USE DEF dbVars, ssmVars, memVars, histVars

-----------------------------------------------------------------------------
(* No success is made up.  Each place that can hold one takes it from      *)
(* another that held it before, and the first is SSM.                      *)

\* Where a row's success comes from.
LEMMA RowSources ==
  ASSUME TypeOK, [Next]_vars, NEW s \in Slots, row'[s].status \in Good
  PROVE  \/ row[s].status \in Good
         \/ poll[s] = "Success"
         \/ \E r \in Runs : mem[r][s].status = "completed"
  <1> row \in [Slots -> Row] /\ mem \in [Runs -> [Slots -> Held]] /\ Start \in Runs
    BY Shapes
  <1> DEFINE Source == \/ row[s].status \in Good
                       \/ poll[s] = "Success"
                       \/ \E r \in Runs : mem[r][s].status = "completed"
  <1>1. CASE row' = row
    BY <1>1
  <1>2. ASSUME NEW p \in Procs, RecoverRows(p) PROVE Source
    <2>1. row'[s] = row[s] \/ row'[s] = [row[s] EXCEPT !.status = "interrupted"]
      BY <1>2 DEF RecoverRows
    <2> QED
      BY <2>1 DEF Row, Good
  <1>3. ASSUME NEW x \in Slots, CheckWrite(x) PROVE Source
    <2>1. row' = row \/ row' = [row EXCEPT ![x].status = poll[x]]
      BY <1>3 DEF CheckWrite
    <2>2. row'[s] = row[s] \/ (x = s /\ row'[s].status = poll[x])
      BY <2>1 DEF Row
    <2>3. poll[s] \in Invocation \cup {"none"}
      BY Shapes
    <2> QED
      BY <2>2, <2>3 DEF Good, Invocation
  <1>4. ASSUME NEW x \in Slots, CreateRow(x) PROVE Source
    <2>1. row' = row \/ row' = [row EXCEPT ![x] = [status |-> "running", cmd |-> FALSE]]
      BY <1>4 DEF CreateRow
    <2>2. row'[s] = row[s] \/ row'[s].status = "running"
      BY <2>1
    <2> QED
      BY <2>2 DEF Good
  <1>5. ASSUME NEW r \in Runs, NEW x \in Slots,
               FailNoCommand(r, x) \/ ResumeOne(r, x) PROVE Source
    <2>1. \/ row' = row
          \/ row' = [row EXCEPT ![x].status = "failed"]
          \/ row' = [row EXCEPT ![x].status = "running"]
      BY <1>5 DEF FailNoCommand, ResumeOne
    <2>2. row'[s] = row[s] \/ row'[s].status \in {"failed", "running"}
      BY <2>1 DEF Row
    <2> QED
      BY <2>2 DEF Good
  <1>6. ASSUME NEW r \in Runs, NEW x \in Slots,
               SaveOutcome(r, x) \/ (r = Start /\ SaveCommand(x)) PROVE Source
    <2>1. row' = row \/ row' = [row EXCEPT ![x] = mem[r][x]]
      BY <1>6 DEF SaveOutcome, SaveCommand
    <2>2. row'[s] = row[s] \/ row'[s] = mem[r][s]
      BY <2>1
    <2>3. mem[r][s].status # "Success"
      <3>1. mem[r][s] \in Held
        BY HeldType
      <3> QED
        BY <3>1 DEF Held, ExecutionStatus
    <2> QED
      BY <2>2, <2>3 DEF Good
  <1>7. CASE \/ StartBatch \/ MarkRunning \/ Crash \/ UNCHANGED vars
             \/ \E p \in Procs : Boot(p) \/ RecoverBatch(p)
             \/ \E r \in Resumes : ResumeCheck(r) \/ ResumeLoad(r)
             \/ \E r \in Runs : \/ ResumeMark(r) \/ OpenPool(r)
                                \/ FinalizeLoad(r) \/ FinalizeStore(r)
    <2>1. row' = row
      BY <1>7
      DEF StartBatch, MarkRunning, Crash, vars, Boot, RecoverBatch, ResumeCheck, ResumeLoad,
          ResumeMark, OpenPool, FinalizeLoad, FinalizeStore
    <2> QED
      BY <1>1, <2>1
  <1>8. CASE \/ \E x \in Slots : Send(x) \/ CheckAsk(x) \/ SsmEnds(x)
             \/ \E r \in Runs, x \in Slots : WaitForDone(r, x) \/ Tally(r, x)
    <2>1. row' = row
      BY <1>8 DEF Send, CheckAsk, SsmEnds, WaitForDone, Tally
    <2> QED
      BY <1>1, <2>1
  <1> QED
    BY <1>2, <1>3, <1>4, <1>5, <1>6, <1>7, <1>8 DEF Next, Worker, Recovery, ResumeLoad

\* Where a worker's success comes from.
LEMMA WorkerSources ==
  ASSUME TypeOK, [Next]_vars, NEW r \in Runs, NEW s \in Slots, mem'[r][s].status = "completed"
  PROVE  mem[r][s].status = "completed" \/ row[s].status = "completed" \/ ssm[s] = "Success"
  <1> mem \in [Runs -> [Slots -> Held]] /\ row \in [Slots -> Row] /\ Start \in Runs
      /\ Resumes \subseteq Runs
    BY Shapes
  <1> DEFINE Source == \/ mem[r][s].status = "completed"
                       \/ row[s].status = "completed"
                       \/ ssm[s] = "Success"
  <1>0. NoRow.status # "completed"
    BY DEF NoRow
  <1>1. CASE mem' = mem
    BY <1>1
  <1>2. CASE \/ StartBatch \/ MarkRunning \/ UNCHANGED vars \/ Recovery
             \/ \E p \in Procs : Boot(p)
             \/ \E q \in Resumes : ResumeCheck(q)
             \/ \E q \in Runs : OpenPool(q) \/ FinalizeLoad(q) \/ FinalizeStore(q)
             \/ \E x \in Slots : CheckAsk(x) \/ CheckWrite(x) \/ SsmEnds(x)
    <2>1. mem' = mem
      BY <1>2
      DEF StartBatch, MarkRunning, vars, Recovery, RecoverRows, RecoverBatch, Boot, ResumeCheck,
          OpenPool, FinalizeLoad, FinalizeStore, CheckAsk, CheckWrite, SsmEnds
    <2> QED
      BY <1>1, <2>1
  <1>3. CASE Crash
    <2>1. mem'[r][s] = NoRow
      BY <1>3 DEF Crash
    <2> QED
      BY <1>0, <2>1
  <1>4. ASSUME NEW q \in Resumes, ResumeLoad(q) \/ ResumeMark(q) PROVE Source
    <2>1. \/ mem' = mem
          \/ mem' = [mem EXCEPT ![q] = [x \in Slots |-> NoRow]]
          \/ mem' = [mem EXCEPT ![q] =
               [x \in Slots |-> IF ResumeStep(x) = "none" THEN NoRow ELSE row[x]]]
      BY <1>4 DEF ResumeLoad, ResumeMark
    <2>2. mem'[r][s] \in {mem[r][s], NoRow, row[s]}
      BY <2>1
    <2> QED
      BY <1>0, <2>2
  <1>5. ASSUME NEW q \in Runs, NEW x \in Slots, WorkerStep(q, x) PROVE Source
    <2>0. mem[q][x] \in Held
      BY HeldType
    <2>1. CASE q # r \/ x # s
      BY <1>1, <1>5, <2>1, WorkerMoves
    <2>2. CASE WaitForDone(r, s)
      <3>1. PICK st \in Terminal : /\ st = "completed" => ssm[s] = "Success"
                                   /\ Goto(r, s, "save", [mem[r][s] EXCEPT !.status = st])
        BY <2>2 DEF WaitForDone
      <3>2. mem'[r][s] = [mem[r][s] EXCEPT !.status = st]
        BY <3>1 DEF Goto
      <3>3. mem[r][s] \in Held
        BY HeldType
      <3> QED
        BY <3>1, <3>2, <3>3 DEF Held
    <2>3. CASE q = r /\ x = s /\ ~WaitForDone(r, s)
      <3>1. PICK step, ex : /\ Goto(r, s, step, ex)
                            /\ \/ ex \in {mem[r][s], NoRow}
                               \/ \E st \in {"failed", "running"} :
                                    ex = [mem[r][s] EXCEPT !.status = st]
                               \/ ex = [mem[r][s] EXCEPT !.cmd = TRUE]
                               \/ ex.status \in {"failed", "running"}
        <4>1. CASE r = Start /\ CreateRow(s)
          <5> DEFINE fresh == [status |-> "running", cmd |-> FALSE]
          <5>1. /\ fresh.status = "running"
                /\ [fresh EXCEPT !.status = "failed"].status = "failed"
            OBVIOUS
          <5>2. \/ Goto(r, s, "send", fresh)
                \/ Goto(r, s, "tally", [fresh EXCEPT !.status = "failed"])
            BY <4>1 DEF CreateRow
          <5> HIDE DEF fresh
          <5> QED
            BY <5>1, <5>2
        <4>2. CASE r = Start /\ Send(s)
          BY <4>2 DEF Send
        <4>3. CASE r = Start /\ SaveCommand(s)
          BY <4>3 DEF SaveCommand
        <4>4. CASE FailNoCommand(r, s) \/ ResumeOne(r, s)
          BY <4>4 DEF FailNoCommand, ResumeOne
        <4>5. CASE SaveOutcome(r, s) \/ Tally(r, s)
          BY <4>5 DEF SaveOutcome, Tally
        <4> QED
          BY <1>5, <2>3, <4>1, <4>2, <4>3, <4>4, <4>5 DEF WorkerStep
      <3>2. mem'[r][s] = ex
        BY <3>1 DEF Goto
      <3>3. mem[r][s] \in Held
        BY HeldType
      <3> QED
        BY <1>0, <3>1, <3>2, <3>3 DEF Held
    <2> QED
      BY <1>5, <2>1, <2>2, <2>3
  <1> QED
    BY <1>2, <1>3, <1>4, <1>5 DEF Next, Worker, WorkerStep, ResumeLoad, ResumeMark

\* Where the answer of a status poll, and the counter of successes, come from.
LEMMA PollSources ==
  ASSUME TypeOK, [Next]_vars, NEW s \in Slots, poll'[s] = "Success"
  PROVE  poll[s] = "Success" \/ ssm[s] = "Success"
  <1> poll \in [Slots -> Invocation \cup {"none"}]
    BY Shapes
  <1>1. CASE poll' = poll
    BY <1>1
  <1>2. ASSUME NEW x \in Slots, CheckAsk(x) \/ CheckWrite(x)
        PROVE  poll[s] = "Success" \/ ssm[s] = "Success"
    BY <1>2 DEF CheckAsk, CheckWrite
  <1>3. CASE Crash
    BY <1>3 DEF Crash
  <1>4. CASE \/ StartBatch \/ UNCHANGED vars \/ Recovery \/ Worker
             \/ \E p \in Procs : Boot(p)
             \/ \E q \in Resumes : ResumeCheck(q)
             \/ \E x \in Slots : SsmEnds(x)
    <2>1. CASE Worker
      BY <1>1, <2>1
      DEF Worker, MarkRunning, CreateRow, Send, SaveCommand, ResumeLoad, ResumeMark, OpenPool,
          FinalizeLoad, FinalizeStore, FailNoCommand, ResumeOne, WaitForDone, SaveOutcome, Tally
    <2>2. CASE ~Worker
      BY <1>1, <1>4, <2>2
      DEF StartBatch, vars, Recovery, RecoverRows, RecoverBatch, Boot, ResumeCheck, SsmEnds
    <2> QED
      BY <2>1, <2>2
  <1> QED
    BY <1>2, <1>3, <1>4 DEF Next

LEMMA CounterSources ==
  ASSUME TypeOK, [Next]_vars, batch'.completed > 0
  PROVE  \/ batch.completed > 0
         \/ \E r \in Runs, s \in Slots : mem[r][s].status = "completed"
  <1> batch \in Job
    BY DEF TypeOK
  <1>1. CASE batch'.completed = batch.completed
    BY <1>1
  <1>2. ASSUME NEW r \in Runs, NEW s \in Slots, Tally(r, s)
        PROVE  \/ batch.completed > 0
               \/ \E q \in Runs, x \in Slots : mem[q][x].status = "completed"
    <2>1. CASE mem[r][s].status = "completed"
      BY <2>1
    <2>2. CASE mem[r][s].status # "completed"
      BY <1>1, <1>2, <2>2 DEF Tally, Job
    <2> QED
      BY <2>1, <2>2
  <1>3. CASE StartBatch
    BY <1>3 DEF StartBatch
  <1>4. CASE \/ Crash \/ UNCHANGED vars \/ Recovery
             \/ \E p \in Procs : Boot(p)
             \/ \E q \in Resumes : ResumeCheck(q)
             \/ \E x \in Slots : CheckAsk(x) \/ CheckWrite(x) \/ SsmEnds(x)
    BY <1>1, <1>4
    DEF Crash, vars, Recovery, RecoverRows, RecoverBatch, Boot, ResumeCheck, CheckAsk,
        CheckWrite, SsmEnds, Job
  <1>5. CASE \/ MarkRunning
             \/ \E r \in Runs : \/ ResumeLoad(r) \/ ResumeMark(r) \/ OpenPool(r)
                                \/ FinalizeLoad(r) \/ FinalizeStore(r)
    BY <1>1, <1>5
    DEF MarkRunning, ResumeLoad, ResumeMark, OpenPool, FinalizeLoad, FinalizeStore, Job
  <1>6. CASE \/ \E s \in Slots : CreateRow(s) \/ Send(s) \/ SaveCommand(s)
             \/ \E r \in Runs, s \in Slots :
                  \/ FailNoCommand(r, s) \/ ResumeOne(r, s)
                  \/ WaitForDone(r, s) \/ SaveOutcome(r, s)
    BY <1>1, <1>6
    DEF CreateRow, Send, SaveCommand, FailNoCommand, ResumeOne, WaitForDone, SaveOutcome
  <1> QED
    BY <1>2, <1>3, <1>4, <1>5, <1>6 DEF Next, Worker

\* SSM takes no success back: a command that has ended is not sent again.
LEMMA SuccessStays ==
  ASSUME TypeOK, SendInv, SuccessInv, [Next]_vars, NEW s \in Slots
  PROVE  /\ ssm[s] = "Success" => ssm'[s] = "Success"
         /\ sent'[s] = 0 => ssm'[s] = "none"
  <1> /\ sent \in [Slots -> Nat] /\ ssm \in [Slots -> Invocation \cup {"none"}]
      /\ pc \in [Runs -> [Slots -> Steps]] /\ Start \in Runs
    BY Shapes
  <1> DEFINE Goal == /\ ssm[s] = "Success" => ssm'[s] = "Success"
                     /\ sent'[s] = 0 => ssm'[s] = "none"
  <1>1. CASE ssm' = ssm /\ sent' = sent
    BY <1>1 DEF SuccessInv
  <1>2. ASSUME NEW x \in Slots, Send(x) PROVE Goal
    <2>1. sent[x] = 0 /\ ssm[x] = "none"
      BY <1>2 DEF Send, SendInv, SuccessInv
    <2>2. sent' = [sent EXCEPT ![x] = 1]
      BY <1>2, <2>1 DEF Send
    <2>3. \A y \in Slots : y # x => ssm'[y] = ssm[y]
      BY <1>2 DEF Send
    <2> QED
      BY <2>1, <2>2, <2>3 DEF SuccessInv
  <1>3. ASSUME NEW x \in Slots, SsmEnds(x) PROVE Goal
    <2>1. sent' = sent /\ ssm[x] = "InProgress" /\ \A y \in Slots : y # x => ssm'[y] = ssm[y]
      BY <1>3 DEF SsmEnds
    <2> QED
      BY <2>1 DEF SuccessInv
  <1>4. CASE \/ StartBatch \/ UNCHANGED vars \/ Recovery \/ Crash
             \/ \E p \in Procs : Boot(p)
             \/ \E q \in Resumes : ResumeCheck(q)
             \/ \E x \in Slots : CheckAsk(x) \/ CheckWrite(x)
    BY <1>1, <1>4
    DEF StartBatch, vars, Recovery, RecoverRows, RecoverBatch, Crash, Boot, ResumeCheck,
        CheckAsk, CheckWrite
  <1>5. CASE Worker /\ ~\E x \in Slots : Send(x)
    BY <1>1, <1>5
    DEF Worker, MarkRunning, CreateRow, SaveCommand, ResumeLoad, ResumeMark, OpenPool,
        FinalizeLoad, FinalizeStore, FailNoCommand, ResumeOne, WaitForDone, SaveOutcome, Tally
  <1> QED
    BY <1>2, <1>3, <1>4, <1>5 DEF Next

LEMMA SuccessStep ==
  ASSUME TypeOK, SendInv, SuccessInv, [Next]_vars
  PROVE  SuccessInv'
  <1>1. ASSUME NEW s \in Slots
        PROVE  /\ row'[s].status \in Good => ssm'[s] = "Success"
               /\ poll'[s] = "Success" => ssm'[s] = "Success"
               /\ \A r \in Runs : mem'[r][s].status = "completed" => ssm'[s] = "Success"
               /\ sent'[s] = 0 => ssm'[s] = "none"
    <2>1. row'[s].status \in Good => ssm[s] = "Success"
      BY RowSources DEF SuccessInv
    <2>2. poll'[s] = "Success" => ssm[s] = "Success"
      BY PollSources DEF SuccessInv
    <2>3. \A r \in Runs : mem'[r][s].status = "completed" => ssm[s] = "Success"
      BY WorkerSources DEF SuccessInv, Good
    <2> QED
      BY <2>1, <2>2, <2>3, SuccessStays
  <1>2. batch'.completed > 0 => \E s \in Slots : ssm'[s] = "Success"
    <2>1. batch'.completed > 0 => \E s \in Slots : ssm[s] = "Success"
      BY CounterSources DEF SuccessInv
    <2> QED
      BY <2>1, SuccessStays
  <1> QED
    BY <1>1, <1>2 DEF SuccessInv

\* A row says completed, and the batch counts a completion, only if SSM said
\* Success: for any number of slots, crashes, overlapping resumes, second
\* processes, failing statements and status polls.
THEOREM SuccessIsRealCorrect == Spec => []SuccessIsReal
  <1>1. Init => SuccessInv /\ SendInv
    BY DEF Init, SuccessInv, SendInv, Good, NoRow, Runs
  <1>2. SuccessInv => SuccessIsReal
    BY DEF SuccessInv, SuccessIsReal, Good
  <1>3. TypeOK /\ SendInv /\ SuccessInv /\ [Next]_vars => SuccessInv'
    BY SuccessStep
  <1> QED
    BY <1>1, <1>2, <1>3, SendStep, TypeCorrect, PTL DEF Spec
-----------------------------------------------------------------------------
(* An outcome stays: with one owner and no status polls.                   *)

\* What a worker's step does to its slot before the outcome is saved.
LEMMA OutcomeMoves ==
  ASSUME TypeOK, OutcomeInv, NEW r \in Runs, NEW s \in Slots, WorkerStep(r, s)
  PROVE  /\ pc'[r][s] \in {"send", "saveCmd", "poll", "save", "tally", "done"}
         /\ pc'[r][s] \in {"send", "saveCmd", "poll", "save"} => row'[s].status \notin Terminal
         /\ pc'[r][s] \in {"send", "saveCmd"} => mem'[r][s].status = "running"
         /\ row[s].status \in Terminal => row'[s] = row[s]
  <1> /\ pc \in [Runs -> [Slots -> Steps]] /\ mem \in [Runs -> [Slots -> Held]]
      /\ row \in [Slots -> Row] /\ Start \in Runs
    BY Shapes
  <1> mem[r][s] \in Held
    BY HeldType
  <1> DEFINE fresh == [status |-> "running", cmd |-> FALSE]
  <1> DEFINE to(step) == pc'[r][s] = step
  <1>0. ASSUME NEW step, NEW ex, Goto(r, s, step, ex)
        PROVE  to(step) /\ mem'[r][s] = ex
    BY <1>0 DEF Goto
  <1>1. ASSUME pc[r][s] \in {"noCmd", "queued", "send", "saveCmd", "poll", "save"}
        PROVE  row[s].status \notin Terminal
    BY <1>1 DEF OutcomeInv
  <1>2. CASE r = Start /\ CreateRow(s)
    <2>1. row[s].status \notin Terminal
      BY <1>1, <1>2 DEF CreateRow
    <2>2. \/ Goto(r, s, "send", fresh) /\ row' = [row EXCEPT ![s] = fresh]
          \/ \E ex : Goto(r, s, "tally", ex)
      BY <1>2 DEF CreateRow
    <2>3. fresh.status = "running"
      OBVIOUS
    <2> HIDE DEF fresh
    <2>4. \/ to("send") /\ mem'[r][s] = fresh /\ row'[s] = fresh
          \/ to("tally")
      BY <1>0, <2>2
    <2> QED
      BY <2>1, <2>3, <2>4 DEF Terminal
  <1>3. CASE r = Start /\ Send(s)
    <2>1. row' = row /\ row[s].status \notin Terminal /\ mem[r][s].status = "running"
      BY <1>1, <1>3 DEF Send, OutcomeInv
    <2>2. \/ to("saveCmd") /\ mem'[r][s] = [mem[r][s] EXCEPT !.cmd = TRUE]
          \/ to("save")
      BY <1>0, <1>3 DEF Send
    <2>3. [mem[r][s] EXCEPT !.cmd = TRUE].status = mem[r][s].status
      BY DEF Held
    <2> QED
      BY <2>1, <2>2, <2>3
  <1>4. CASE r = Start /\ SaveCommand(s)
    <2>1. row[s].status \notin Terminal /\ mem[r][s].status = "running"
      BY <1>1, <1>4 DEF SaveCommand, OutcomeInv
    <2>2. \/ to("poll") /\ row' = [row EXCEPT ![s] = mem[r][s]]
          \/ to("save") /\ row' = row
      BY <1>0, <1>4 DEF SaveCommand
    <2> QED
      BY <2>1, <2>2 DEF Terminal
  <1>5. CASE FailNoCommand(r, s) \/ SaveOutcome(r, s)
    BY <1>0, <1>1, <1>5 DEF FailNoCommand, SaveOutcome
  <1>6. CASE ResumeOne(r, s)
    <2>1. to("poll") /\ row[s].status \notin Terminal
      BY <1>0, <1>1, <1>6 DEF ResumeOne
    <2>2. row' = row \/ row' = [row EXCEPT ![s].status = "running"]
      BY <1>6 DEF ResumeOne
    <2>3. row'[s] = row[s] \/ row'[s].status = "running"
      BY <2>2 DEF Row
    <2> QED
      BY <2>1, <2>3 DEF Terminal
  <1>7. CASE WaitForDone(r, s)
    BY <1>0, <1>1, <1>7 DEF WaitForDone
  <1>8. CASE Tally(r, s)
    BY <1>0, <1>8 DEF Tally
  <1> QED
    BY <1>2, <1>3, <1>4, <1>5, <1>6, <1>7, <1>8 DEF WorkerStep

\* Nobody polls when no poll is allowed.
LEMMA NoPolls ==
  ASSUME Unpolled, TypeOK, OutcomeInv, [Next]_vars
  PROVE  /\ \A s \in Slots : poll'[s] = "none"
         /\ \A s \in Slots : ~CheckAsk(s) /\ ~CheckWrite(s)
  <1>1. used.polls \in Nat
    BY DEF TypeOK, Budget
  <1>2. \A s \in Slots : ~CheckAsk(s) /\ ~CheckWrite(s)
    BY <1>1 DEF CheckAsk, CheckWrite, OutcomeInv, Unpolled
  <1>3. CASE poll' = poll
    BY <1>2, <1>3 DEF OutcomeInv
  <1>4. CASE Crash
    BY <1>2, <1>4 DEF Crash
  <1>5. CASE Worker
    BY <1>3, <1>5
    DEF Worker, MarkRunning, CreateRow, Send, SaveCommand, ResumeLoad, ResumeMark, OpenPool,
        FinalizeLoad, FinalizeStore, FailNoCommand, ResumeOne, WaitForDone, SaveOutcome, Tally
  <1>6. CASE \/ StartBatch \/ UNCHANGED vars \/ Recovery
             \/ \E p \in Procs : Boot(p)
             \/ \E q \in Resumes : ResumeCheck(q)
             \/ \E x \in Slots : SsmEnds(x)
    BY <1>3, <1>6
    DEF StartBatch, vars, Recovery, RecoverRows, RecoverBatch, Boot, ResumeCheck, SsmEnds
  <1>7. \A s \in Slots : poll'[s] = "none"
    BY <1>2, <1>4, <1>5, <1>6 DEF Next
  <1> QED
    BY <1>2, <1>7

\* Steps that give no run anything to do and leave the outcomes alone.
LEMMA OutcomeQuiet ==
  ASSUME OutcomeInv,
         \A s \in Slots : poll'[s] = "none",
         \A q \in Runs, s \in Slots :
           pc'[q][s] = "none" \/ (pc'[q][s] = pc[q][s] /\ mem'[q][s] = mem[q][s]),
         \A s \in Slots : row'[s].status \in Terminal => row[s].status \in Terminal
  PROVE  OutcomeInv'
  BY DEF OutcomeInv

LEMMA OutcomeStep ==
  ASSUME Unpolled, TypeOK, TallyInv, OutcomeInv, [Next]_vars
  PROVE  OutcomeInv' /\ \A s \in Slots : row[s].status \in Terminal => row'[s] = row[s]
  <1> /\ phase \in [Runs -> Phases] /\ pc \in [Runs -> [Slots -> Steps]]
      /\ mem \in [Runs -> [Slots -> Held]] /\ row \in [Slots -> Row]
      /\ Start \in Runs /\ Resumes \subseteq Runs
    BY Shapes
  <1> OwnerInv /\ SlotInv
    BY DEF TallyInv
  <1> \A s \in Slots : poll'[s] = "none"
    BY NoPolls
  <1> DEFINE Sticks == \A s \in Slots : row[s].status \in Terminal => row'[s] = row[s]
  <1>1. CASE \/ StartBatch \/ UNCHANGED vars
             \/ \E p \in Procs : Boot(p) \/ RecoverBatch(p)
             \/ \E q \in Resumes : ResumeCheck(q)
             \/ \E x \in Slots : SsmEnds(x)
    <2>1. pc' = pc /\ mem' = mem /\ row' = row
      BY <1>1 DEF StartBatch, vars, Boot, RecoverBatch, ResumeCheck, SsmEnds
    <2> QED
      BY <2>1, OutcomeQuiet
  <1>2. CASE Crash
    <2>1. row' = row /\ \A q \in Runs, s \in Slots : pc'[q][s] = "none"
      BY <1>2 DEF Crash
    <2> QED
      BY <2>1, OutcomeQuiet
  <1>3. ASSUME NEW p \in Procs, RecoverRows(p) PROVE OutcomeInv' /\ Sticks
    <2>1. pc' = pc /\ mem' = mem
      BY <1>3 DEF RecoverRows
    <2>2. \A s \in Slots : \/ row'[s] = row[s]
                           \/ /\ row[s].status = "running"
                              /\ row'[s] = [row[s] EXCEPT !.status = "interrupted"]
      BY <1>3 DEF RecoverRows
    <2>3. \A s \in Slots : /\ row'[s].status \in Terminal => row[s].status \in Terminal
                           /\ row[s].status \in Terminal => row'[s] = row[s]
      BY <2>2 DEF Row, Terminal
    <2> QED
      BY <2>1, <2>3, OutcomeQuiet
  <1>4. CASE MarkRunning
    <2>1. /\ mem' = mem /\ row' = row
          /\ \A q \in Runs, s \in Slots : pc'[q][s] = IF q = Start THEN "queued" ELSE pc[q][s]
      BY <1>4 DEF MarkRunning
    <2>2. \A s \in Slots : row[s].status = "none"
      BY <1>4 DEF MarkRunning, SlotInv
    <2> QED
      BY <2>1, <2>2 DEF OutcomeInv, Terminal
  <1>5. ASSUME NEW r \in Resumes, ResumeLoad(r) PROVE OutcomeInv' /\ Sticks
    <2>1. row' = row /\ \A q \in Runs : q # r => pc'[q] = pc[q] /\ mem'[q] = mem[q]
      BY <1>5 DEF ResumeLoad
    <2>2. CASE pc' = pc /\ mem' = mem
      BY <2>1, <2>2, OutcomeQuiet
    <2>3. CASE \A s \in Slots : pc'[r][s] = ResumeStep(s)
      <3>1. \A s \in Slots : \/ pc'[r][s] = "none"
                             \/ /\ pc'[r][s] \in {"noCmd", "queued"}
                                /\ row[s].status \notin Terminal
        BY <2>3 DEF ResumeStep, Terminal
      <3> QED
        BY <2>1, <3>1 DEF OutcomeInv
    <2> QED
      BY <1>5, <2>2, <2>3, LoadTakes
  <1>6. ASSUME NEW r \in Runs,
               ResumeMark(r) \/ OpenPool(r) \/ FinalizeLoad(r) \/ FinalizeStore(r)
        PROVE  OutcomeInv' /\ Sticks
    <2>1. row' = row
      BY <1>6 DEF ResumeMark, OpenPool, FinalizeLoad, FinalizeStore
    <2>2. \/ pc' = pc /\ mem' = mem
          \/ /\ pc' = [pc EXCEPT ![r] = [s \in Slots |-> "none"]]
             /\ mem' = [mem EXCEPT ![r] = [s \in Slots |-> NoRow]]
      BY <1>6 DEF ResumeMark, OpenPool, FinalizeLoad, FinalizeStore
    <2>3. \A q \in Runs, s \in Slots :
            pc'[q][s] = "none" \/ (pc'[q][s] = pc[q][s] /\ mem'[q][s] = mem[q][s])
      BY <2>2
    <2> QED
      BY <2>1, <2>3, OutcomeQuiet
  <1>7. ASSUME NEW r \in Runs, NEW s \in Slots, WorkerStep(r, s)
        PROVE  OutcomeInv' /\ Sticks
    <2>1. /\ pc[r][s] \notin {"none", "done"}
          /\ \A q \in Runs, x \in Slots : q # r \/ x # s =>
               pc'[q][x] = pc[q][x] /\ mem'[q][x] = mem[q][x]
          /\ \A x \in Slots : x # s => row'[x] = row[x]
      BY <1>7, WorkerMoves
    <2>2. /\ pc'[r][s] \in {"send", "saveCmd", "poll", "save", "tally", "done"}
          /\ pc'[r][s] \in {"send", "saveCmd", "poll", "save"} => row'[s].status \notin Terminal
          /\ pc'[r][s] \in {"send", "saveCmd"} => mem'[r][s].status = "running"
          /\ row[s].status \in Terminal => row'[s] = row[s]
      BY <1>7, OutcomeMoves
    <2>3. \A q \in Runs : q # r => pc[q][s] \in {"none", "done"}
      <3>1. Active(r)
        BY <2>1 DEF OwnerInv, Active
      <3> QED
        BY <3>1 DEF OwnerInv, Active
    <2>4. Sticks
      BY <2>1, <2>2
    <2>5. ASSUME NEW q \in Runs, NEW x \in Slots
          PROVE  /\ pc'[q][x] \in {"noCmd", "queued", "send", "saveCmd", "poll", "save"}
                      => row'[x].status \notin Terminal
                 /\ pc'[q][x] \in {"send", "saveCmd"} => mem'[q][x].status = "running"
      <3>1. CASE x # s
        BY <2>1, <3>1 DEF OutcomeInv
      <3>2. CASE x = s /\ q # r
        BY <2>1, <2>3, <3>2
      <3>3. CASE x = s /\ q = r
        BY <2>2, <3>3
      <3> QED
        BY <3>1, <3>2, <3>3
    <2> QED
      BY <2>4, <2>5 DEF OutcomeInv
  <1> QED
    BY <1>1, <1>2, <1>3, <1>4, <1>5, <1>6, <1>7, NoPolls
    DEF Next, Worker, Recovery, WorkerStep, ResumeLoad

\* With a sole owner and no status polls an outcome that is stored is never
\* taken back, for any number of slots, crashes, resumes and failing statements.
THEOREM OutcomeSticksCorrect == Spec => OutcomeSticks
  <1>1. CASE Unpolled
    <2>1. SoleOwner
      BY <1>1 DEF Unpolled
    <2>2. Init => TallyInv /\ OutcomeInv /\ RecordInv
      BY DEF Init, TallyInv, OwnerInv, SlotInv, RecordInv, OutcomeInv, Active, Runs, Procs,
             NoRow, Terminal
    <2>3. TypeOK /\ RecordInv /\ TallyInv /\ [Next]_vars => TallyInv'
      BY <2>1, OwnerStep, SlotStep DEF TallyInv
    <2>4. TypeOK /\ TallyInv /\ OutcomeInv /\ [Next]_vars =>
            /\ OutcomeInv'
            /\ [Unpolled => \A s \in Slots : row[s].status \in Terminal => row'[s] = row[s]]_vars
      BY <1>1, OutcomeStep
    <2>5. TypeOK /\ RecordInv /\ [Next]_vars => RecordInv'
      BY RecordStep
    <2> QED
      BY <2>2, <2>3, <2>4, <2>5, TypeCorrect, PTL DEF Spec, OutcomeSticks
  <1>2. CASE ~Unpolled
    <2>1. [Unpolled => \A s \in Slots : row[s].status \in Terminal => row'[s] = row[s]]_vars
      BY <1>2
    <2> QED
      BY <2>1, PTL DEF OutcomeSticks
  <1> QED
    BY <1>1, <1>2

-----------------------------------------------------------------------------
(* Statements that did not fail.                                           *)

LEMMA Unfailing ==
  ASSUME TypeOK, NEW ok \in BOOLEAN, Statement(ok), used'.faults = 0
  PROVE  ok /\ used' = used
  BY DEF TypeOK, Statement, Budget

\* Faults and crashes are never forgotten.
LEMMA UsedStays ==
  ASSUME TypeOK, [Next]_vars
  PROVE  /\ used'.faults = 0 => used.faults = 0
         /\ used'.crashes = 0 => used.crashes = 0 /\ ~Crash
  <1> used \in Budget
    BY DEF TypeOK
  <1> DEFINE Goal == /\ used'.faults = 0 => used.faults = 0
                     /\ used'.crashes = 0 => used.crashes = 0 /\ ~Crash
  <1>0. Crash => used'.crashes # 0
    BY DEF Crash, Budget
  <1>1. CASE used' = used
    BY <1>0, <1>1
  <1>2. ASSUME NEW ok \in BOOLEAN, Statement(ok) PROVE Goal
    BY <1>0, <1>2 DEF Statement, Budget
  <1>3. CASE Crash
    BY <1>0, <1>3 DEF Crash, Budget
  <1>4. ASSUME NEW p \in Procs, Boot(p) PROVE Goal
    BY <1>0, <1>1, <1>2, <1>4 DEF Boot, Budget
  <1>5. ASSUME NEW s \in Slots, CheckAsk(s) \/ CheckWrite(s) \/ SsmEnds(s) PROVE Goal
    BY <1>0, <1>1, <1>2, <1>5 DEF CheckAsk, CheckWrite, SsmEnds, Budget
  <1>6. CASE Recovery
    BY <1>2, <1>6 DEF Recovery, RecoverRows, RecoverBatch
  <1>7. CASE Worker
    <2>1. ASSUME NEW s \in Slots, CreateRow(s) \/ Send(s) \/ SaveCommand(s) PROVE Goal
      BY <1>1, <1>2, <2>1 DEF CreateRow, Send, SaveCommand
    <2>2. ASSUME NEW r \in Runs,
                 \/ ResumeLoad(r) \/ ResumeMark(r) \/ OpenPool(r)
                 \/ FinalizeLoad(r) \/ FinalizeStore(r)
          PROVE  Goal
      BY <1>1, <1>2, <2>2 DEF ResumeLoad, ResumeMark, OpenPool, FinalizeLoad, FinalizeStore
    <2>3. ASSUME NEW r \in Runs, NEW s \in Slots,
                 \/ FailNoCommand(r, s) \/ ResumeOne(r, s)
                 \/ WaitForDone(r, s) \/ SaveOutcome(r, s) \/ Tally(r, s)
          PROVE  Goal
      BY <1>1, <1>2, <2>3 DEF FailNoCommand, ResumeOne, WaitForDone, SaveOutcome, Tally
    <2>4. CASE MarkRunning
      BY <1>2, <2>4 DEF MarkRunning
    <2> QED
      BY <1>7, <2>1, <2>2, <2>3, <2>4 DEF Worker
  <1>8. CASE StartBatch \/ UNCHANGED vars \/ \E r \in Resumes : ResumeCheck(r)
    BY <1>1, <1>8 DEF StartBatch, vars, ResumeCheck
  <1> QED
    BY <1>3, <1>4, <1>5, <1>6, <1>7, <1>8 DEF Next

-----------------------------------------------------------------------------
(* The refinement of JobLifecycle.                                         *)

LEMMA JobFields ==
  ASSUME TypeOK
  PROVE  /\ batch.status \in BatchStatus /\ batch.completed \in Nat /\ batch.failed \in Nat
         /\ \A st : LET b == [batch EXCEPT !.status = st]
                    IN  b.status = st /\ b.completed = batch.completed /\ b.failed = batch.failed
  BY DEF TypeOK, Job

LEMMA CountedFinite ==
  /\ Counted \subseteq Slots /\ IsFiniteSet(Counted)
  /\ Cardinality(Counted) \in Nat /\ Total \in Nat
  <1>1. Counted \subseteq Slots /\ IsFiniteSet(Slots)
    BY BatchAssumption DEF Counted
  <1> QED
    BY <1>1, FS_Subset, FS_CardinalityType DEF Total

\* The sole owner is the only run at work.
LEMMA Alone ==
  ASSUME TypeOK, OwnerInv, NEW r \in Runs, Active(r)
  PROVE  /\ \A q \in Runs : q # r => phase[q] \in {"idle", "done"}
         /\ \A q \in Runs, s \in Slots : q # r => pc[q][s] \in {"none", "done"}
         /\ proc["server"] = "ready"
  <1>1. \A q \in Runs : q # r => ~Active(q)
    BY DEF OwnerInv
  <1> QED
    BY <1>1 DEF OwnerInv, Active

\* Steps that leave the batch and the runs where they are.
LEMMA JobQuiet ==
  ASSUME JobInv, used.faults = 0, batch' = batch, tallied' = tallied, unsaved' = unsaved,
         \A r \in Runs :
           \/ phase'[r] \in {"idle", "done"} /\ \A s \in Slots : pc'[r][s] \in {"none", "done"}
           \/ phase'[r] = phase[r] /\ verdict'[r] = verdict[r] /\ pc'[r] = pc[r],
         proc'["server"] \in {"rows", "batch"} => batch.status \in {"pending", "running"}
  PROVE  JobInv'
  <1>1. Counted' = Counted
    BY DEF Counted
  <1>2. Start \in Runs /\ Resumes \subseteq Runs
    BY DEF Runs
  <1> QED
    BY <1>1, <1>2 DEF JobInv, Working

\* A worker's step: a report when it counts, invisible otherwise.
LEMMA JobWorker ==
  ASSUME TypeOK, OwnerInv, SlotInv, JobInv, used.faults = 0, used'.faults = 0,
         NEW r \in Runs, NEW s \in Slots, WorkerStep(r, s)
  PROVE  JobInv' /\ (Lifecycle!Next \/ UNCHANGED Lifecycle!vars)
  <1> /\ phase \in [Runs -> Phases] /\ pc \in [Runs -> [Slots -> Steps]]
      /\ tallied \in [Slots -> Nat] /\ Start \in Runs /\ Resumes \subseteq Runs
    BY Shapes
  <1>1. /\ phase' = phase /\ proc' = proc /\ batch'.status = batch.status
        /\ pc[r][s] \notin {"none", "done"}
        /\ \A q \in Runs, x \in Slots : q # r \/ x # s => pc'[q][x] = pc[q][x]
    BY WorkerMoves
  <1>2. unsaved = {} /\ unsaved' = {} /\ verdict' = verdict
    <2>1. unsaved' = unsaved /\ verdict' = verdict
      BY Unfailing
      DEF WorkerStep, CreateRow, Send, SaveCommand, FailNoCommand, ResumeOne, WaitForDone,
          SaveOutcome, Tally
    <2> QED
      BY <2>1 DEF JobInv
  <1>3. phase[r] \in {"partition", "pool"} /\ Active(r)
    <2>1. CASE pc[r][s] \in Working \cup {"tally"}
      BY <2>1 DEF JobInv, Active
    <2>2. CASE (r = Start /\ CreateRow(s)) \/ FailNoCommand(r, s) \/ ResumeOne(r, s)
      BY <2>2 DEF CreateRow, FailNoCommand, ResumeOne, WorkerFree, Active
    <2> QED
      BY <2>1, <2>2
      DEF WorkerStep, Send, SaveCommand, WaitForDone, SaveOutcome, Tally, Working
  <1>4. batch.status = "running"
    BY <1>3 DEF JobInv
  <1>5. \A q \in Runs : q # r => phase[q] \in {"idle", "done"}
    BY <1>3, Alone
  <1>6. \A q \in Runs, x \in Slots :
          pc'[q][x] \in Working \cup {"tally"} => phase'[q] \in {"partition", "pool"}
    BY <1>1, <1>3 DEF JobInv
  <1>7. CASE ~Tally(r, s)
    <2>1. batch' = batch /\ tallied' = tallied
      BY <1>7
      DEF WorkerStep, CreateRow, Send, SaveCommand, FailNoCommand, ResumeOne, WaitForDone,
          SaveOutcome
    <2>2. Counted' = Counted
      BY <2>1 DEF Counted
    <2>3. JobInv'
      BY <1>1, <1>2, <1>6, <2>1, <2>2 DEF JobInv
    <2> QED
      BY <2>1, <2>3 DEF Lifecycle!vars
  <1>8. CASE Tally(r, s)
    <2>1. /\ batch' = IF mem[r][s].status = "completed"
                      THEN [batch EXCEPT !.completed = @ + 1]
                      ELSE [batch EXCEPT !.failed = @ + 1]
          /\ tallied' = [tallied EXCEPT ![s] = @ + 1]
      BY <1>8, Unfailing DEF Tally
    <2>2. \/ batch'.completed = batch.completed + 1 /\ batch'.failed = batch.failed
          \/ batch'.failed = batch.failed + 1 /\ batch'.completed = batch.completed
      BY <2>1 DEF TypeOK, Job
    <2>3. tallied[s] = 0
      BY <1>1, <1>2 DEF SlotInv
    <2>4. Counted' = Counted \cup {s} /\ s \notin Counted
      BY <2>1, <2>3 DEF Counted
    <2>5. Cardinality(Counted') = Cardinality(Counted) + 1
      BY <2>4, CountedFinite, FS_AddElement
    <2>6. Cardinality(Counted') <= Total
      <3>1. Counted' \subseteq Slots /\ IsFiniteSet(Slots)
        BY <2>4, CountedFinite, BatchAssumption
      <3> QED
        BY <3>1, FS_Subset DEF Total
    <2>7. batch.completed + batch.failed = Cardinality(Counted)
      BY DEF JobInv
    <2>8. batch.completed \in Nat /\ batch.failed \in Nat
      BY JobFields
    <2>9. Lifecycle!Report
      BY <1>1, <1>4, <2>2, <2>5, <2>6, <2>7, <2>8, CountedFinite DEF Lifecycle!Report
    <2>10. batch'.completed + batch'.failed = Cardinality(Counted')
      BY <2>2, <2>5, <2>7, <2>8
    <2>11. \A q \in Runs : phase'[q] # "store"
      BY <1>1, <1>3, <1>5
    <2>12. JobInv'
      BY <1>1, <1>2, <1>6, <2>10, <2>11 DEF JobInv
    <2> QED
      BY <2>9, <2>12 DEF Lifecycle!Next
  <1> QED
    BY <1>7, <1>8

\* The steps of a run's controlling goroutine.
LEMMA JobRun ==
  ASSUME SoleOwner, TypeOK, OwnerInv, SlotInv, JobInv, used.faults = 0, used'.faults = 0,
         NEW r \in Runs,
         \/ r = Start /\ (StartBatch \/ MarkRunning)
         \/ r \in Resumes /\ (ResumeCheck(r) \/ ResumeLoad(r) \/ ResumeMark(r))
         \/ OpenPool(r) \/ FinalizeLoad(r) \/ FinalizeStore(r)
  PROVE  JobInv' /\ (Lifecycle!Next \/ UNCHANGED Lifecycle!vars)
  <1> /\ phase \in [Runs -> Phases] /\ pc \in [Runs -> [Slots -> Steps]]
      /\ verdict \in [Runs -> Terminal \cup {"none"}]
      /\ tallied \in [Slots -> Nat] /\ Start \in Runs /\ Resumes \subseteq Runs
    BY Shapes DEF TypeOK
  <1>1. tallied' = tallied /\ unsaved' = unsaved /\ proc' = proc
    BY DEF StartBatch, MarkRunning, ResumeCheck, ResumeLoad, ResumeMark, OpenPool, FinalizeLoad,
           FinalizeStore
  <1>2. Counted' = Counted
    BY <1>1 DEF Counted
  <1>3. \A q \in Runs : q # r => phase[q] \in {"idle", "done"}
    <2>1. CASE Active(r)
      BY <2>1, Alone
    <2>2. CASE StartBatch
      BY <2>2 DEF StartBatch, OwnerInv, Active
    <2>3. CASE r \in Resumes /\ ResumeCheck(r)
      <3> SUFFICES ASSUME NEW q \in Runs, Active(q) PROVE FALSE
        BY DEF Active
      <3>1. q # Start /\ phase[q] \in {"load", "mark"}
        BY <2>3 DEF ResumeCheck, OwnerInv
      <3> QED
        BY <2>3, <3>1 DEF ResumeCheck, SoleOwner, Runs
    <2>4. CASE \/ r = Start /\ MarkRunning
               \/ r \in Resumes /\ (ResumeLoad(r) \/ ResumeMark(r))
               \/ OpenPool(r) \/ FinalizeLoad(r) \/ FinalizeStore(r)
      <3>1. Active(r)
        BY <2>4
        DEF MarkRunning, ResumeLoad, ResumeMark, OpenPool, FinalizeLoad, FinalizeStore, Active
      <3> QED
        BY <2>1, <3>1
    <2> QED
      BY <2>2, <2>3, <2>4
  <1>4. \A q \in Runs : q # r => phase'[q] = phase[q] /\ pc'[q] = pc[q] /\ verdict'[q] = verdict[q]
    <2>1. \A q \in Runs : q # r => phase'[q] = phase[q]
      BY DEF StartBatch, MarkRunning, ResumeCheck, ResumeLoad, ResumeMark, OpenPool,
             FinalizeLoad, FinalizeStore
    <2>2. \A q \in Runs : q # r => pc'[q] = pc[q]
      BY DEF StartBatch, MarkRunning, ResumeCheck, ResumeLoad, ResumeMark, OpenPool,
             FinalizeLoad, FinalizeStore
    <2>3. verdict' = verdict \/ \E st : verdict' = [verdict EXCEPT ![r] = st]
      BY DEF StartBatch, MarkRunning, ResumeCheck, ResumeLoad, ResumeMark, OpenPool,
             FinalizeLoad, FinalizeStore
    <2> QED
      BY <2>1, <2>2, <2>3
  <1>5. /\ batch.status \in BatchStatus /\ batch.completed \in Nat /\ batch.failed \in Nat
        /\ \A st : LET b == [batch EXCEPT !.status = st]
                   IN  b.status = st /\ b.completed = batch.completed /\ b.failed = batch.failed
    BY JobFields
  <1>6. proc["server"] \in {"rows", "batch"} => ~Active(r)
    BY DEF OwnerInv
  <1> DEFINE Sum == batch.completed + batch.failed = Cardinality(Counted)
  <1>7. unsaved = {} /\ Sum
    BY DEF JobInv
  \* What is left to show of the run that moves.
  <1> DEFINE Kept ==
        /\ batch'.completed + batch'.failed = Cardinality(Counted)
        /\ r = Start /\ phase'[r] = "mark" => batch'.status = "pending"
        /\ r \in Resumes /\ phase'[r] \in {"load", "mark"} => batch'.status = "interrupted"
        /\ phase'[r] \in {"partition", "pool", "store"} => batch'.status = "running"
        /\ phase'[r] = "store" =>
             verdict'[r] = IF batch'.failed = Total THEN "failed" ELSE "completed"
        /\ \A s \in Slots :
             pc'[r][s] \in Working \cup {"tally"} => phase'[r] \in {"partition", "pool"}
        /\ proc["server"] \notin {"rows", "batch"}
  <1>8. ASSUME Kept PROVE JobInv'
    <2>1. \A q \in Runs : q # r =>
            /\ phase'[q] \in {"idle", "done"}
            /\ \A s \in Slots : pc'[q][s] \notin Working \cup {"tally"}
      BY <1>3, <1>4 DEF JobInv
    <2>2. unsaved' = {} /\ batch'.completed + batch'.failed = Cardinality(Counted')
      BY <1>1, <1>2, <1>7, <1>8
    <2> QED
      BY <1>1, <1>8, <2>1, <2>2 DEF JobInv
  <1>9. CASE r = Start /\ StartBatch
    <2>1. /\ batch' = [status |-> "pending", completed |-> 0, failed |-> 0]
          /\ phase' = [phase EXCEPT ![Start] = "mark"] /\ pc' = pc
          /\ phase[Start] = "idle" /\ proc["server"] = "ready"
      BY <1>9 DEF StartBatch, Serving
    <2>2. Counted = {}
      BY <2>1 DEF SlotInv, Counted
    <2>3. Cardinality(Counted) = 0
      BY <2>2, FS_EmptySet
    <2>4. batch.status = "none" /\ batch.completed = 0 /\ batch.failed = 0
      BY <1>5, <1>7, <2>1, <2>3 DEF OwnerInv
    <2>5. Lifecycle!Accept
      BY <2>1, <2>4 DEF Lifecycle!Accept
    <2>6. \A s \in Slots : pc'[Start][s] \notin Working \cup {"tally"}
      BY <2>1 DEF JobInv
    <2>7. Kept
      BY <1>9, <2>1, <2>3, <2>6, BatchAssumption
    <2> QED
      BY <1>8, <2>5, <2>7 DEF Lifecycle!Next
  <1>10. CASE r = Start /\ MarkRunning
    <2>1. batch' = [batch EXCEPT !.status = "running"]
      BY <1>10, Unfailing DEF MarkRunning
    <2>2. /\ phase[r] = "mark" /\ phase'[r] = "pool" /\ Active(r)
          /\ pc' = [pc EXCEPT ![Start] = [s \in Slots |-> "queued"]]
      BY <1>10 DEF MarkRunning, Active
    <2>3. \A s \in Slots : pc'[r][s] \notin Working \cup {"tally"}
      BY <1>10, <2>2 DEF Working
    <2>4. batch.status = "pending"
      BY <1>10, <2>2 DEF JobInv
    <2>5. Lifecycle!Begin
      BY <1>5, <2>1, <2>4 DEF Lifecycle!Begin
    <2>6. Kept
      BY <1>5, <1>6, <1>7, <2>1, <2>2, <2>3
    <2> QED
      BY <1>8, <2>5, <2>6 DEF Lifecycle!Next
  <1>11. CASE r \in Resumes /\ ResumeCheck(r)
    <2>1. /\ batch' = batch /\ pc' = pc /\ phase[r] = "idle" /\ phase'[r] = "load"
          /\ batch.status = "interrupted" /\ proc["server"] = "ready"
      BY <1>11 DEF ResumeCheck, Serving
    <2>2. \A s \in Slots : pc'[r][s] \notin Working \cup {"tally"}
      BY <2>1 DEF JobInv
    <2>3. Kept
      BY <1>7, <2>1, <2>2
    <2> QED
      BY <1>8, <2>1, <2>3 DEF Lifecycle!vars
  <1>12. CASE r \in Resumes /\ ResumeLoad(r)
    <2>1. /\ batch' = batch /\ phase[r] = "load" /\ phase'[r] = "mark" /\ Active(r)
          /\ pc' = [pc EXCEPT ![r] = [s \in Slots |-> ResumeStep(s)]]
      BY <1>12, Unfailing DEF ResumeLoad, Active
    <2>2. \A s \in Slots : pc'[r][s] \notin Working \cup {"tally"}
      BY <2>1 DEF ResumeStep, Working
    <2>3. batch.status = "interrupted" /\ r # Start
      BY <1>12, <2>1, BatchAssumption DEF JobInv
    <2>4. Kept
      BY <1>6, <1>7, <2>1, <2>2, <2>3
    <2> QED
      BY <1>8, <2>1, <2>4 DEF Lifecycle!vars
  <1>13. CASE r \in Resumes /\ ResumeMark(r)
    <2>1. /\ batch' = [batch EXCEPT !.status = "running"] /\ pc' = pc
          /\ phase[r] = "mark" /\ phase'[r] = "partition" /\ Active(r)
      BY <1>13, Unfailing DEF ResumeMark, Active
    <2>2. batch.status = "interrupted"
      BY <1>13, <2>1 DEF JobInv
    <2>3. Lifecycle!Continue
      BY <1>5, <2>1, <2>2 DEF Lifecycle!Continue
    <2>4. \A s \in Slots : pc'[r][s] \notin Working \cup {"tally"}
      BY <2>1 DEF JobInv
    <2>5. Kept
      BY <1>5, <1>6, <1>7, <2>1, <2>4
    <2> QED
      BY <1>8, <2>3, <2>5 DEF Lifecycle!Next
  <1>14. CASE OpenPool(r)
    <2>1. /\ batch' = batch /\ pc' = pc /\ Active(r)
          /\ phase[r] = "partition" /\ phase'[r] = "pool"
      BY <1>14 DEF OpenPool, Active
    <2>2. batch.status = "running"
      BY <2>1 DEF JobInv
    <2>3. Kept
      BY <1>6, <1>7, <2>1, <2>2
    <2> QED
      BY <1>8, <2>1, <2>3 DEF Lifecycle!vars
  <1>15. CASE FinalizeLoad(r)
    <2>1. /\ batch' = batch /\ pc' = pc /\ phase[r] = "pool" /\ Active(r)
          /\ \A s \in Slots : pc[r][s] \in {"none", "done"}
      BY <1>15 DEF FinalizeLoad, Active
    <2>2. /\ phase'[r] = "store"
          /\ verdict'[r] = IF batch.failed = Total THEN "failed" ELSE "completed"
      BY <1>15, Unfailing DEF FinalizeLoad
    <2>3. batch.status = "running"
      BY <2>1 DEF JobInv
    <2>4. Kept
      BY <1>6, <1>7, <2>1, <2>2, <2>3 DEF Working
    <2> QED
      BY <1>8, <2>1, <2>4 DEF Lifecycle!vars
  <1>16. CASE FinalizeStore(r)
    <2>1. /\ batch' = [batch EXCEPT !.status = verdict[r]] /\ pc' = pc
          /\ phase[r] = "store" /\ phase'[r] = "done" /\ Active(r)
      BY <1>16, Unfailing DEF FinalizeStore, Active
    <2>2. /\ batch.status = "running"
          /\ verdict[r] = IF batch.failed = Total THEN "failed" ELSE "completed"
      BY <2>1 DEF JobInv
    <2>3. Lifecycle!Finish
      BY <1>5, <2>1, <2>2 DEF Lifecycle!Finish
    <2>4. \A s \in Slots : pc'[r][s] \notin Working \cup {"tally"}
      BY <2>1 DEF JobInv
    <2>5. Kept
      BY <1>5, <1>6, <1>7, <2>1, <2>4
    <2> QED
      BY <1>8, <2>3, <2>5 DEF Lifecycle!Next
  <1> QED
    BY <1>9, <1>10, <1>11, <1>12, <1>13, <1>14, <1>15, <1>16

\* The rest of the world: crashes, recoveries, status polls, SSM.
LEMMA JobWorld ==
  ASSUME SoleOwner, TypeOK, OwnerInv, JobInv, used.faults = 0, used'.faults = 0,
         \/ Crash \/ UNCHANGED vars
         \/ \E p \in Procs : Boot(p) \/ RecoverRows(p) \/ RecoverBatch(p)
         \/ \E s \in Slots : CheckAsk(s) \/ CheckWrite(s) \/ SsmEnds(s)
  PROVE  JobInv' /\ (Lifecycle!Next \/ UNCHANGED Lifecycle!vars)
  <1> /\ phase \in [Runs -> Phases] /\ pc \in [Runs -> [Slots -> Steps]]
      /\ proc \in [Procs -> {"stopped", "rows", "batch", "ready"}]
      /\ Start \in Runs /\ Resumes \subseteq Runs /\ {"server", "tui"} = Procs
    BY Shapes DEF TypeOK, Procs
  <1>1. CASE UNCHANGED vars \/ \E s \in Slots : CheckAsk(s) \/ CheckWrite(s) \/ SsmEnds(s)
    <2>1. /\ batch' = batch /\ tallied' = tallied /\ unsaved' = unsaved /\ proc' = proc
          /\ phase' = phase /\ verdict' = verdict /\ pc' = pc
      BY <1>1 DEF vars, CheckAsk, CheckWrite, SsmEnds
    <2>2. proc'["server"] \in {"rows", "batch"} => batch.status \in {"pending", "running"}
      BY <2>1 DEF JobInv
    <2> QED
      BY <2>1, <2>2, JobQuiet DEF Lifecycle!vars
  <1>2. CASE Crash
    <2>1. /\ batch' = batch /\ tallied' = tallied /\ unsaved' = unsaved
          /\ \A r \in Runs : /\ phase'[r] \in {"idle", "done"}
                             /\ \A s \in Slots : pc'[r][s] = "none"
          /\ proc'["server"] = "stopped"
      BY <1>2 DEF Crash
    <2> QED
      BY <2>1, JobQuiet DEF Lifecycle!vars
  <1>3. ASSUME NEW p \in Procs, Boot(p) \/ RecoverRows(p) \/ RecoverBatch(p)
        PROVE  JobInv' /\ (Lifecycle!Next \/ UNCHANGED Lifecycle!vars)
    <2>1. p = "server"
      <3>1. used.launches \in Nat /\ MaxLaunches = 0
        BY DEF TypeOK, Budget, SoleOwner
      <3>2. CASE Boot(p)
        BY <3>1, <3>2 DEF Boot, Procs
      <3>3. CASE RecoverRows(p) \/ RecoverBatch(p)
        BY <3>3 DEF RecoverRows, RecoverBatch, OwnerInv, Procs
      <3> QED
        BY <1>3, <3>2, <3>3
    <2>2. /\ tallied' = tallied /\ unsaved' = unsaved
          /\ phase' = phase /\ verdict' = verdict /\ pc' = pc
      BY <1>3 DEF Boot, RecoverRows, RecoverBatch
    <2>3. CASE Boot(p)
      <3>1. batch' = batch
        BY <2>3 DEF Boot
      <3>2. proc'["server"] \in {"rows", "batch"} => batch.status \in {"pending", "running"}
        BY <2>1, <2>3 DEF Boot, AfterRecovery
      <3> QED
        BY <2>2, <3>1, <3>2, JobQuiet DEF Lifecycle!vars
    <2>4. CASE RecoverRows(p)
      <3>1. batch' = batch /\ proc[p] = "rows"
        BY <2>4 DEF RecoverRows
      <3>2. batch.status \in {"pending", "running"}
        BY <2>1, <3>1 DEF JobInv
      <3> QED
        BY <2>2, <3>1, <3>2, JobQuiet DEF Lifecycle!vars
    <2>5. CASE RecoverBatch(p)
      <3>1. /\ batch' = [batch EXCEPT !.status = "interrupted"] /\ proc["server"] = "batch"
            /\ proc'["server"] = "ready"
        BY <2>1, <2>5, Unfailing DEF RecoverBatch, AfterRecovery
      <3>2. /\ batch'.status = "interrupted" /\ batch'.completed = batch.completed
            /\ batch'.failed = batch.failed /\ batch.status \in {"pending", "running"}
        BY <3>1, JobFields DEF JobInv
      <3>3. Lifecycle!Interrupt
        BY <3>2 DEF Lifecycle!Interrupt
      <3>4. \A r \in Runs : phase'[r] \in {"idle", "done"}
        BY <2>2, <3>1 DEF OwnerInv, Active
      <3>5. \A r \in Runs, s \in Slots : pc'[r][s] \notin Working \cup {"tally"}
        BY <2>2, <3>4 DEF JobInv
      <3>6. Counted' = Counted
        BY <2>2 DEF Counted
      <3>7. JobInv'
        BY <2>2, <3>1, <3>2, <3>4, <3>5, <3>6 DEF JobInv
      <3> QED
        BY <3>3, <3>7 DEF Lifecycle!Next
    <2> QED
      BY <1>3, <2>3, <2>4, <2>5
  <1> QED
    BY <1>1, <1>2, <1>3

LEMMA JobStep ==
  ASSUME SoleOwner, TypeOK, TallyInv, JobInv, [Next]_vars
  PROVE  /\ JobInv'
         /\ used'.faults = 0 => Lifecycle!Next \/ UNCHANGED Lifecycle!vars
  <1> OwnerInv /\ SlotInv /\ Start \in Runs /\ Resumes \subseteq Runs
    BY DEF TallyInv, Runs
  <1>1. CASE used'.faults # 0
    BY <1>1 DEF JobInv
  <1>2. CASE used'.faults = 0
    <2>1. used.faults = 0
      BY <1>2, UsedStays
    <2>2. ASSUME NEW r \in Runs, NEW s \in Slots, WorkerStep(r, s)
          PROVE  JobInv' /\ (Lifecycle!Next \/ UNCHANGED Lifecycle!vars)
      BY <1>2, <2>1, <2>2, JobWorker
    <2>3. ASSUME NEW r \in Runs,
                 \/ r = Start /\ (StartBatch \/ MarkRunning)
                 \/ r \in Resumes /\ (ResumeCheck(r) \/ ResumeLoad(r) \/ ResumeMark(r))
                 \/ OpenPool(r) \/ FinalizeLoad(r) \/ FinalizeStore(r)
          PROVE  JobInv' /\ (Lifecycle!Next \/ UNCHANGED Lifecycle!vars)
      BY <1>2, <2>1, <2>3, JobRun
    <2>4. CASE \/ Crash \/ UNCHANGED vars
               \/ \E p \in Procs : Boot(p) \/ RecoverRows(p) \/ RecoverBatch(p)
               \/ \E s \in Slots : CheckAsk(s) \/ CheckWrite(s) \/ SsmEnds(s)
      BY <1>2, <2>1, <2>4, JobWorld
    <2> QED
      BY <2>2, <2>3, <2>4
      DEF Next, Worker, Recovery, WorkerStep, ResumeLoad, ResumeMark, ResumeOne
  <1> QED
    BY <1>1, <1>2

LEMMA JobInit == Init => JobInv /\ Lifecycle!Init
  <1> SUFFICES ASSUME Init PROVE JobInv /\ Lifecycle!Init
    OBVIOUS
  <1>1. Counted = {}
    BY DEF Init, Counted
  <1>2. Cardinality(Counted) = 0
    BY <1>1, FS_EmptySet
  <1> QED
    BY <1>2 DEF Init, JobInv, Lifecycle!Init, Runs, Procs, Working

LEMMA OwnerInit == Init => TallyInv /\ RecordInv /\ OutcomeInv
  BY DEF Init, TallyInv, OwnerInv, SlotInv, RecordInv, OutcomeInv, Active, Runs, Procs, NoRow,
         Terminal

\* Under a sole owner the invariants hold together.
LEMMA OwnerInvariant ==
  ASSUME SoleOwner
  PROVE  Spec => [](TypeOK /\ RecordInv /\ TallyInv /\ JobInv)
  <1>1. Init => TypeOK /\ RecordInv /\ TallyInv /\ JobInv
    BY TypeInit, OwnerInit, JobInit
  <1>2. TypeOK /\ RecordInv /\ TallyInv /\ JobInv /\ [Next]_vars =>
          (TypeOK /\ RecordInv /\ TallyInv /\ JobInv)'
    BY TypeStep, RecordStep, OwnerStep, SlotStep, JobStep DEF TallyInv
  <1> QED
    BY <1>1, <1>2, PTL DEF Spec

\* What a client sees of a batch is a JobLifecycle, for any number of slots,
\* workers, crashes and resumes: with a sole owner and no failing statement.
THEOREM LifecycleCorrect ==
  ASSUME SoleOwner, MaxFaults = 0
  PROVE  Spec => LifecycleSpec
  <1>1. Init => Lifecycle!Init /\ used.faults = 0
    BY JobInit DEF Init
  <1>2. TypeOK /\ used.faults = 0 /\ [Next]_vars => (used.faults = 0)'
    <2> SUFFICES ASSUME TypeOK, used.faults = 0, [Next]_vars PROVE (used.faults = 0)'
      OBVIOUS
    <2>0. used \in Budget
      BY DEF TypeOK
    <2>1. \A ok \in BOOLEAN : Statement(ok) => used' = used
      BY <2>0 DEF Statement, Budget
    <2>2. CASE \/ Crash \/ UNCHANGED vars \/ StartBatch \/ MarkRunning
               \/ \E p \in Procs : Boot(p) \/ RecoverRows(p) \/ RecoverBatch(p)
               \/ \E s \in Slots : CheckAsk(s) \/ CheckWrite(s) \/ SsmEnds(s)
               \/ \E r \in Resumes : ResumeCheck(r)
      BY <2>0, <2>1, <2>2
      DEF Crash, vars, StartBatch, MarkRunning, Boot, RecoverRows, RecoverBatch, CheckAsk,
          CheckWrite, SsmEnds, ResumeCheck, Budget
    <2>3. CASE \/ \E s \in Slots : CreateRow(s) \/ Send(s) \/ SaveCommand(s)
               \/ \E r \in Runs, s \in Slots :
                    \/ FailNoCommand(r, s) \/ ResumeOne(r, s)
                    \/ WaitForDone(r, s) \/ SaveOutcome(r, s) \/ Tally(r, s)
      BY <2>1, <2>3
      DEF CreateRow, Send, SaveCommand, FailNoCommand, ResumeOne, WaitForDone, SaveOutcome, Tally
    <2>4. CASE \E r \in Runs : \/ ResumeLoad(r) \/ ResumeMark(r) \/ OpenPool(r)
                               \/ FinalizeLoad(r) \/ FinalizeStore(r)
      BY <2>1, <2>4 DEF ResumeLoad, ResumeMark, OpenPool, FinalizeLoad, FinalizeStore
    <2> QED
      BY <2>2, <2>3, <2>4 DEF Next, Worker, Recovery
  <1>3. TypeOK /\ TallyInv /\ JobInv /\ used.faults = 0 /\ [Next]_vars =>
          [Lifecycle!Next]_Lifecycle!vars
    BY <1>2, JobStep
  <1>4. Spec => [](TypeOK /\ RecordInv /\ TallyInv /\ JobInv)
    BY OwnerInvariant
  <1>5. Spec => Lifecycle!Init /\ [][Lifecycle!Next]_Lifecycle!vars
    BY <1>1, <1>2, <1>3, <1>4, PTL DEF Spec
  <1> QED
    BY <1>5 DEF LifecycleSpec, Lifecycle!Spec
=============================================================================

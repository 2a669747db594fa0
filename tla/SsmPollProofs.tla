--------------------------- MODULE SsmPollProofs ---------------------------
(***************************************************************************)
(* Theorems about SsmPoll, for every timeout, every pair of intervals and  *)
(* every latency of SSM.                                                   *)
(***************************************************************************)
EXTENDS SsmPoll, TLAPS

LEMMA ConstantTypes ==
  /\ pollIntervalMin \in Nat /\ pollIntervalMax \in Nat /\ MaxLatency \in Nat
  /\ 0 < pollIntervalMin /\ pollIntervalMin <= pollIntervalMax
  BY PollAssumption DEF PollAssumption

\* The interval is doubled at most, and stays within its bounds.
LEMMA BackOffBounds ==
  ASSUME NEW i \in pollIntervalMin .. pollIntervalMax
  PROVE  /\ BackOff(i) \in pollIntervalMin .. pollIntervalMax
         /\ BackOff(i) <= 2 * i
         /\ i \in Nat
  BY ConstantTypes DEF BackOff

-----------------------------------------------------------------------------
(* Type correctness.                                                       *)

LEMMA Sums ==
  ASSUME NEW a \in Nat, NEW b \in Nat
  PROVE  a + b \in Nat
  OBVIOUS

\* One case for each action.
LEMMA TypeNext == TypeOK /\ [Next]_vars => TypeOK'
  <1> SUFFICES ASSUME TypeOK, [Next]_vars PROVE TypeOK'
    OBVIOUS
  <1> USE ConstantTypes DEF TypeOK, loopVars, ssmVars, Answers, Results, States,
        Terminal, Transient, Refused
  <1>1. CASE Expire
    BY <1>1 DEF Expire, Return
  <1>2. CASE GetStatus
    BY <1>2 DEF GetStatus
  <1>3. CASE Retry
    <2>1. now + pollIntervalMin \in Nat
      BY Sums
    <2> QED
      BY <1>3, <2>1, Zenon DEF Retry, Sleep
  <1>4. CASE Finish
    BY <1>4 DEF Finish, Return
  <1>5. CASE StillRunning
    <2>1. BackOff(interval) \in pollIntervalMin .. pollIntervalMax
      BY BackOffBounds
    <2>2. interval \in Nat
      BY BackOffBounds
    <2>3. now + interval \in Nat
      BY <2>2, Sums
    <2>4. interval' = BackOff(interval) /\ wake' = now + interval
      BY <1>5 DEF StillRunning, Sleep
    <2>5. interval' \in pollIntervalMin .. pollIntervalMax /\ wake' \in Nat
      BY <2>1, <2>3, <2>4
    <2>6. pc' = "sleep" /\ UNCHANGED <<now, timeout, began, lastErr, result, ssmVars>>
      BY <1>5 DEF StillRunning, Sleep
    <2> QED
      BY <2>5, <2>6
  <1>6. CASE Wake
    BY <1>6 DEF Wake
  <1>7. CASE Cancel
    BY <1>7 DEF Cancel, Return
  <1>8. CASE Register
    BY <1>8 DEF Register
  <1>9. CASE End
    BY <1>9 DEF End
  <1>10. CASE Answer
    BY <1>10 DEF Answer
  <1>11. CASE Tick
    <2>1. now + 1 \in Nat
      BY Sums
    <2> QED
      BY <1>11, <2>1 DEF Tick
  <1>12. CASE UNCHANGED vars
    BY <1>12 DEF vars
  <1> QED
    BY <1>1, <1>2, <1>3, <1>4, <1>5, <1>6, <1>7, <1>8, <1>9, <1>10, <1>11, <1>12
    DEF Next, Loop

LEMMA TypeInit == Init => TypeOK
  <1> SUFFICES ASSUME Init PROVE TypeOK
    OBVIOUS
  <1>1. timeout \in Nat \ {0}
    <2>1. PICK secs \in Timeouts : timeout = Clamped(secs)
      BY DEF Init
    <2>2. secs \in Int
      BY <2>1, PollAssumption DEF PollAssumption
    <2> QED
      BY <2>1, <2>2 DEF Clamped
  <1>2. pollIntervalMin \in pollIntervalMin .. pollIntervalMax
    BY ConstantTypes
  <1> QED
    BY <1>1, <1>2 DEF Init, TypeOK, Answers, Results, States

\* Every variable of a wait keeps its type; the interval stays within its bounds.
THEOREM PollTypeCorrect == Spec => []TypeOK
  BY TypeInit, TypeNext, PTL DEF Spec

-----------------------------------------------------------------------------
(* How far the clock is when the loop comes to a step.                     *)

\* A call is made before the deadline.  While it lasts, and during the sleep that
\* follows it, the clock is near it: by the cap of the interval, and by the time
\* of the call itself, since the interval has grown with the time slept.
ClockInv ==
  /\ began <= now /\ began <= deadline
  /\ pc = "check" => /\ interval <= now + pollIntervalMin
                     /\ now <= began + MaxLatency + pollIntervalMax
                     /\ now <= 2 * began + MaxLatency + pollIntervalMin
  /\ pc = "call"  => /\ interval <= began + pollIntervalMin
                     /\ now <= began + MaxLatency
  /\ pc = "sleep" => /\ interval <= wake + pollIntervalMin
                     /\ now <= wake
                     /\ wake <= began + MaxLatency + pollIntervalMax
                     /\ wake <= 2 * began + MaxLatency + pollIntervalMin

\* What the loop has seen of a command that has ended without an error between:
\* its last answer came before the end, and the call under way was made soon
\* after it.
SeenInv ==
  /\ command \in Terminal <=> endedAt >= 0
  /\ endedAt <= now
  /\ endedAt >= 0 /\ ~hidden =>
       /\ pc \in {"check", "sleep"} => began <= endedAt
       /\ pc = "call" /\ answer \notin Terminal \cup {"none"} => began <= endedAt
       /\ pc = "call" => began <= 2 * endedAt + MaxLatency + pollIntervalMin

\* The verdict is reached after the deadline only.
LateInv ==
  /\ result \in {"timed out", "timed out after error"} => pc = "returned" /\ now > deadline
  /\ TimedOutMeansLate

WaitInv == ClockInv /\ SeenInv /\ LateInv

LEMMA WaitInit == Init => WaitInv
  <1> SUFFICES ASSUME Init PROVE WaitInv
    OBVIOUS
  <1>1. timeout \in Nat
    BY TypeInit DEF TypeOK
  <1> QED
    BY <1>1, ConstantTypes
    DEF Init, WaitInv, ClockInv, SeenInv, LateInv, TimedOutMeansLate, deadline, Terminal

LEMMA ClockNext == TypeOK /\ ClockInv /\ [Next]_vars => ClockInv'
  <1> SUFFICES ASSUME TypeOK, ClockInv, [Next]_vars PROVE ClockInv'
    OBVIOUS
  <1> USE ConstantTypes DEF TypeOK, ClockInv, deadline, loopVars, ssmVars
  <1>1. CASE Expire \/ Finish \/ Cancel
    BY <1>1 DEF Expire, Finish, Cancel, Return
  <1>2. CASE GetStatus
    BY <1>2 DEF GetStatus
  <1>3. CASE Retry
    BY <1>3 DEF Retry, Sleep
  <1>4. CASE StillRunning
    BY <1>4, BackOffBounds DEF StillRunning, Sleep
  <1>5. CASE Wake
    BY <1>5 DEF Wake
  <1>6. CASE Register \/ End \/ Answer
    BY <1>6 DEF Register, End, Answer
  <1>7. CASE Tick
    BY <1>7 DEF Tick
  <1>8. CASE UNCHANGED vars
    BY <1>8 DEF vars
  <1> QED
    BY <1>1, <1>2, <1>3, <1>4, <1>5, <1>6, <1>7, <1>8 DEF Next, Loop

LEMMA SeenNext == TypeOK /\ ClockInv /\ SeenInv /\ [Next]_vars => SeenInv'
  <1> SUFFICES ASSUME TypeOK, ClockInv, SeenInv, [Next]_vars PROVE SeenInv'
    OBVIOUS
  <1> USE ConstantTypes DEF TypeOK, SeenInv, loopVars, ssmVars, Terminal, Transient, Refused
  <1>1. CASE Expire \/ Finish \/ Cancel
    BY <1>1 DEF Expire, Finish, Cancel, Return
  <1>2. CASE GetStatus
    BY <1>2 DEF GetStatus, ClockInv
  <1>3. CASE Retry
    BY <1>3 DEF Retry, Sleep
  <1>4. CASE StillRunning
    BY <1>4 DEF StillRunning, Sleep
  <1>5. CASE Wake
    BY <1>5 DEF Wake
  <1>6. CASE Register
    BY <1>6 DEF Register, States
  <1>7. CASE End
    BY <1>7 DEF End, ClockInv
  <1>8. CASE Answer
    BY <1>8 DEF Answer
  <1>9. CASE Tick
    BY <1>9 DEF Tick
  <1>10. CASE UNCHANGED vars
    BY <1>10 DEF vars
  <1> QED
    BY <1>1, <1>2, <1>3, <1>4, <1>5, <1>6, <1>7, <1>8, <1>9, <1>10 DEF Next, Loop

LEMMA LateNext == TypeOK /\ WaitInv /\ [Next]_vars => LateInv'
  <1> SUFFICES ASSUME TypeOK, WaitInv, [Next]_vars PROVE LateInv'
    OBVIOUS
  <1> USE ConstantTypes DEF TypeOK, LateInv, TimedOutMeansLate, deadline, loopVars, ssmVars
  <1>1. CASE Expire
    <2>1. pc = "check" /\ now > timeout /\ UNCHANGED <<now, timeout, endedAt, hidden>>
      BY <1>1 DEF Expire
    <2>2. now <= began + MaxLatency + pollIntervalMax
      BY <2>1 DEF WaitInv, ClockInv
    <2>3. pc' = "returned"
      BY <1>1 DEF Expire, Return
    <2>4. ASSUME endedAt >= 0, ~hidden PROVE began <= endedAt
      BY <2>1, <2>4 DEF WaitInv, SeenInv
    <2>5. ASSUME began <= endedAt PROVE endedAt > timeout - MaxLatency - pollIntervalMax
      BY <2>1, <2>2, <2>5
    <2> QED
      BY <2>1, <2>3, <2>4, <2>5
  <1>2. CASE GetStatus \/ Retry \/ StillRunning \/ Wake
    BY <1>2 DEF GetStatus, Retry, StillRunning, Wake, Sleep, WaitInv
  <1>3. CASE Finish \/ Cancel
    BY <1>3 DEF Finish, Cancel, Return, Refused, Terminal, Transient, WaitInv
  <1>4. CASE Register \/ Tick
    BY <1>4 DEF Register, Tick, WaitInv
  <1>5. CASE End
    <2>1. endedAt' = now /\ UNCHANGED <<now, timeout, pc, result>>
      BY <1>5 DEF End
    <2>2. ASSUME now > timeout PROVE now > timeout - MaxLatency - pollIntervalMax
      BY <2>2
    <2> QED
      BY <2>1, <2>2 DEF WaitInv
  <1>6. CASE Answer
    BY <1>6 DEF Answer, WaitInv
  <1>7. CASE UNCHANGED vars
    BY <1>7 DEF vars, WaitInv
  <1> QED
    BY <1>1, <1>2, <1>3, <1>4, <1>5, <1>6, <1>7 DEF Next, Loop

LEMMA WaitInvariant == Spec => [](TypeOK /\ WaitInv)
  <1>1. Init => TypeOK /\ WaitInv
    BY TypeInit, WaitInit
  <1>2. TypeOK /\ WaitInv /\ [Next]_vars => TypeOK' /\ WaitInv'
    BY TypeNext, ClockNext, SeenNext, LateNext DEF WaitInv
  <1> QED
    BY <1>1, <1>2, PTL DEF Spec

-----------------------------------------------------------------------------
(* The theorems.                                                           *)

\* A wait lasts no longer than its timeout, one call and one interval.
THEOREM EndsByDeadlineCorrect == Spec => []EndsByDeadline
  <1>1. TypeOK /\ WaitInv => EndsByDeadline
    BY ConstantTypes DEF TypeOK, WaitInv, ClockInv, EndsByDeadline, deadline
  <1> QED
    BY <1>1, WaitInvariant, PTL

\* A command is given up as timed out only when it ended late or not at all.
THEOREM TimedOutMeansLateCorrect == Spec => []TimedOutMeansLate
  <1>1. WaitInv => TimedOutMeansLate
    BY DEF WaitInv, LateInv
  <1> QED
    BY <1>1, WaitInvariant, PTL

\* The end of a command is noticed after about as long as it ran.
THEOREM QuickFeedbackCorrect == Spec => []QuickFeedback
  <1>1. TypeOK /\ WaitInv => QuickFeedback
    BY ConstantTypes DEF TypeOK, WaitInv, ClockInv, SeenInv, QuickFeedback
  <1> QED
    BY <1>1, WaitInvariant, PTL
-----------------------------------------------------------------------------
(* What the wait is to the runner.                                         *)

\* An answer that a command has ended stays true, and nothing is reported before
\* the loop is left.
TrueInv ==
  /\ answer \in Terminal => command = answer
  /\ pc # "returned" => result = "none"

LEMMA TrueStep == ASSUME TypeOK, TrueInv, [Next]_vars PROVE TrueInv'
  <1> USE DEF TrueInv, loopVars, ssmVars, Terminal
  <1>1. CASE Expire \/ Finish \/ Cancel
    BY <1>1 DEF Expire, Finish, Cancel, Return
  <1>2. CASE GetStatus \/ Retry \/ StillRunning \/ Wake
    BY <1>2 DEF GetStatus, Retry, StillRunning, Wake, Sleep
  <1>3. CASE Register \/ End
    BY <1>3 DEF Register, End
  <1>4. CASE Answer
    BY <1>4 DEF Answer, Refused
  <1>5. CASE Tick \/ UNCHANGED vars
    BY <1>5 DEF Tick, vars
  <1> QED
    BY <1>1, <1>2, <1>3, <1>4, <1>5 DEF Next, Loop

\* Each step is one of CommandWait, or nothing the runner sees of it.
LEMMA WaitStep ==
  ASSUME TypeOK, TrueInv, [Next]_vars
  PROVE  [Wait!Next]_<<Known, Outcome>>
  <1>1. CASE Expire \/ Finish \/ Cancel
    <2>1. pc # "returned" /\ result = "none" /\ UNCHANGED command
      BY <1>1 DEF Expire, Finish, Cancel, TrueInv, ssmVars
    <2>2. \/ result' \in {"timed out", "timed out after error", "error", "cancelled", "Failed"}
          \/ result' = "Success" /\ command = "Success"
      BY <1>1 DEF Expire, Finish, Cancel, Return, TrueInv, Refused, Terminal
    <2>3. Outcome = "none" /\ UNCHANGED Known
      BY <2>1 DEF Outcome, Known
    <2>4. Outcome' \in {"completed", "failed"} /\ (Outcome' = "completed" => Known = "Success")
      BY <2>2 DEF Outcome, Known
    <2> QED
      BY <2>3, <2>4 DEF Wait!Next, Wait!Return
  <1>2. CASE GetStatus \/ Retry \/ StillRunning \/ Wake \/ Answer \/ Tick \/ UNCHANGED vars
    <2>1. UNCHANGED <<command, result>>
      BY <1>2 DEF GetStatus, Retry, StillRunning, Wake, Answer, Tick, vars, loopVars, ssmVars
    <2> QED
      BY <2>1 DEF Known, Outcome
  <1>3. CASE Register
    BY <1>3 DEF Register, loopVars, Known, Outcome
  <1>4. CASE End
    <2>1. Known = "InProgress" /\ Known' \in {"Success", "Failed"} /\ UNCHANGED Outcome
      BY <1>4 DEF End, loopVars, Known, Outcome, Terminal
    <2> QED
      BY <2>1 DEF Wait!Next, Wait!End
  <1> QED
    BY <1>1, <1>2, <1>3, <1>4 DEF Next, Loop

\* The polling loop implements CommandWait: it reports once, and a success only of
\* a command that has succeeded.
THEOREM WaitCorrect == Spec => WaitSpec
  <1>1. Init => TrueInv /\ Wait!Init
    BY DEF Init, TrueInv, Terminal, Wait!Init, Known, Outcome
  <1>2. TypeOK /\ TrueInv /\ [Next]_vars => TrueInv'
    BY TrueStep
  <1>3. TypeOK /\ TrueInv /\ [Next]_vars => [Wait!Next]_<<Known, Outcome>>
    BY WaitStep
  <1> QED
    BY <1>1, <1>2, <1>3, PollTypeCorrect, PTL DEF Spec, WaitSpec, Wait!Spec
=============================================================================

------------------------------ MODULE SsmPoll ------------------------------
(***************************************************************************)
(* One wait for an SSM command: WaitForDone, that is pollUntilDone, of     *)
(* internal/cloud/aws/ssm/executor.go, with the clock it reads.            *)
(*                                                                         *)
(* Time is discrete and may pass whenever the loop is asleep or waits for  *)
(* an answer of SSM; the loop's own computing takes none.                  *)
(***************************************************************************)
EXTENDS Integers

CONSTANTS
  Timeouts,         \* timeoutSecs arguments of New
  pollIntervalMin,
  pollIntervalMax,
  MaxLatency,       \* the longest a GetCommandInvocation call takes
  Horizon           \* bound: the clock stops here

ASSUME PollAssumption ==
  /\ Timeouts \subseteq Int
  /\ {pollIntervalMin, pollIntervalMax, MaxLatency, Horizon} \subseteq Nat
  /\ 0 < pollIntervalMin /\ pollIntervalMin <= pollIntervalMax

VARIABLES
  now,       \* the clock, 0 when the wait begins
  timeout,   \* Executor.timeout
  pc,        \* where the loop stands
  interval,  \* the next wait after "still running"
  wake,      \* when the present sleep ends
  began,     \* when the present call was made
  answer,    \* what SSM has answered to it, not yet received
  lastErr,   \* has a transient error been remembered?
  result,    \* what pollUntilDone returned
  command,   \* SSM's state of the command (external)
  endedAt,   \* history: when the command ended, -1 before
  hidden     \* history: an error came between the end and the loop

loopVars == <<pc, interval, wake, began, lastErr, result>>
ssmVars  == <<answer, command, endedAt, hidden>>
vars     == <<now, timeout, loopVars, ssmVars>>

Terminal  == {"Success", "Failed"}   \* Failed, TimedOut and Cancelled are one
Transient == {"InvocationDoesNotExist", "Throttled"}
Refused   == {"AccessDenied"}
States    == {"unregistered", "InProgress"} \cup Terminal
Answers   == {"none", "InProgress"} \cup Terminal \cup Transient \cup Refused
Results   == {"none", "timed out", "timed out after error", "error", "cancelled"} \cup Terminal

deadline == timeout

\* What the interval can be: the doublings of the minimum, then the maximum.
TypeOK ==
  /\ now \in Nat /\ wake \in Nat /\ began \in Nat
  /\ timeout \in Nat \ {0}
  /\ pc \in {"check", "call", "sleep", "returned"}
  /\ interval \in pollIntervalMin .. pollIntervalMax
  /\ answer \in Answers
  /\ lastErr \in BOOLEAN /\ hidden \in BOOLEAN
  /\ result \in Results
  /\ command \in States
  /\ endedAt \in Nat \cup {-1}

\* New clamps a timeout that is not positive to one second.
Clamped(secs) == IF secs <= 0 THEN 1 ELSE secs

Init ==
  /\ now = 0 /\ wake = 0 /\ began = 0
  /\ timeout \in {Clamped(secs) : secs \in Timeouts}
  /\ pc = "check" /\ interval = pollIntervalMin
  /\ answer = "none" /\ lastErr = FALSE /\ result = "none"
  /\ command = "unregistered" /\ endedAt = -1 /\ hidden = FALSE

Return(res) == pc' = "returned" /\ result' = res

-----------------------------------------------------------------------------
(* The loop.                                                               *)

\* Past the deadline the wait is given up, and the error names the last one.
Expire ==
  /\ pc = "check" /\ now > deadline
  /\ Return(IF lastErr THEN "timed out after error" ELSE "timed out")
  /\ UNCHANGED <<now, timeout, interval, wake, began, lastErr, ssmVars>>

\* Otherwise, at the deadline itself too, SSM is asked.
GetStatus ==
  /\ pc = "check" /\ now <= deadline
  /\ pc' = "call" /\ began' = now /\ answer' = "none"
  /\ UNCHANGED <<now, timeout, interval, wake, lastErr, result, command, endedAt, hidden>>

Sleep(time) == pc' = "sleep" /\ wake' = now + time

\* Mutants of Retry: the back-off is applied on this path too; the loop goes
\* straight to the next call.
RetryBackingOff ==
  /\ pc = "call" /\ answer \in Transient
  /\ lastErr' = TRUE
  /\ Sleep(pollIntervalMin)
  /\ interval' = IF 2 * interval > pollIntervalMax THEN pollIntervalMax ELSE 2 * interval
  /\ UNCHANGED <<now, timeout, began, result, ssmVars>>

RetryAtOnce ==
  /\ pc = "call" /\ answer \in Transient
  /\ lastErr' = TRUE
  /\ began' = now
  /\ answer' = "none"
  /\ UNCHANGED <<now, timeout, pc, interval, wake, result, command, endedAt, hidden>>

\* A transient error is tried again after the minimum, whatever the interval.
Retry ==
  /\ pc = "call" /\ answer \in Transient
  /\ lastErr' = TRUE
  /\ Sleep(pollIntervalMin)
  /\ UNCHANGED <<now, timeout, interval, began, result, ssmVars>>

\* Mutant of Finish: whatever is done has succeeded.
FinishDone ==
  /\ pc = "call" /\ answer \in Refused \cup Terminal
  /\ Return(IF answer \in Refused THEN "error" ELSE "Success")
  /\ UNCHANGED <<now, timeout, interval, wake, began, lastErr, ssmVars>>

\* Any other error ends the wait, and so does a terminal state.
Finish ==
  /\ pc = "call" /\ answer \in Refused \cup Terminal
  /\ Return(IF answer \in Refused THEN "error" ELSE answer)
  /\ UNCHANGED <<now, timeout, interval, wake, began, lastErr, ssmVars>>

\* Mutant of BackOff: the interval is doubled without a cap.
BackOffUncapped(i) == IF i < pollIntervalMax THEN 2 * i ELSE i + pollIntervalMin

\* The interval doubles up to its cap.
BackOff(i) ==
  IF i < pollIntervalMax
  THEN IF 2 * i > pollIntervalMax THEN pollIntervalMax ELSE 2 * i
  ELSE i

\* Still running: sleep for the interval, which then grows.
StillRunning ==
  /\ pc = "call" /\ answer = "InProgress"
  /\ Sleep(interval)
  /\ interval' = BackOff(interval)
  /\ UNCHANGED <<now, timeout, began, lastErr, result, ssmVars>>

Wake ==
  /\ pc = "sleep" /\ now >= wake
  /\ pc' = "check"
  /\ UNCHANGED <<now, timeout, interval, wake, began, lastErr, result, ssmVars>>

\* The context may be cancelled during a sleep.
Cancel ==
  /\ pc = "sleep"
  /\ Return("cancelled")
  /\ UNCHANGED <<now, timeout, interval, wake, began, lastErr, ssmVars>>

-----------------------------------------------------------------------------
(* SSM and time (external).                                                *)

\* The command is registered some time after Send, runs, and ends.
Register ==
  /\ command = "unregistered"
  /\ command' = "InProgress"
  /\ UNCHANGED <<now, timeout, loopVars, answer, endedAt, hidden>>

End ==
  /\ command = "InProgress"
  /\ command' \in Terminal
  /\ endedAt' = now
  /\ UNCHANGED <<now, timeout, loopVars, answer, hidden>>

\* SSM answers a call with the state the command is in then, or with an error.
Answer ==
  /\ pc = "call" /\ answer = "none"
  /\ answer' \in {"Throttled"} \cup Refused
                  \cup {IF command = "unregistered" THEN "InvocationDoesNotExist" ELSE command}
  /\ hidden' = (hidden \/ (command \in Terminal /\ answer' \notin Terminal))
  /\ UNCHANGED <<now, timeout, loopVars, command, endedAt>>

\* Time passes while the loop sleeps or waits for SSM, which answers in time.
Tick ==
  /\ now < Horizon
  /\ \/ pc = "sleep" /\ now < wake
     \/ pc = "call" /\ now < began + MaxLatency
  /\ now' = now + 1
  /\ UNCHANGED <<timeout, loopVars, ssmVars>>

Loop == Expire \/ GetStatus \/ Retry \/ Finish \/ StillRunning \/ Wake

Next == Loop \/ Cancel \/ Register \/ End \/ Answer \/ Tick

Spec == Init /\ [][Next]_vars

-----------------------------------------------------------------------------
(* Properties.                                                             *)

\* The wait is over soon after the deadline: the one call and the one sleep
\* that began before it are let run out, then the loop stops.
EndsByDeadline ==
  pc # "returned" => now <= deadline + MaxLatency + pollIntervalMax

\* A command that has ended is not reported as timed out, and so as failed,
\* unless it ended within the last sleep before the deadline or an SSM error
\* stood between its end and the loop.
TimedOutMeansLate ==
  result \in {"timed out", "timed out after error"} /\ endedAt >= 0 /\ ~hidden
    => endedAt > deadline - MaxLatency - pollIntervalMax

\* executor.go:23 and 145: quick scripts get fast feedback, whatever transient
\* errors came before.  While the loop waits, the time since the command ended
\* is at most about the time it ran.
QuickFeedback ==
  pc # "returned" /\ endedAt >= 0 /\ ~hidden
    => now <= 2 * endedAt + pollIntervalMin + 2 * MaxLatency

\* What the runner makes of a wait: pollAndPersist takes an error and any word of
\* SSM but Success for a failure.
Known   == IF command = "unregistered" THEN "InProgress" ELSE command
Outcome == CASE result = "none"    -> "none"
             [] result = "Success" -> "completed"
             [] OTHER              -> "failed"

Wait == INSTANCE CommandWait WITH command <- Known, outcome <- Outcome

\* A wait never reports the success of a command that has not succeeded, whatever
\* the answers, their order and the clock, and never two things.
WaitSpec == Wait!Spec

\* Time passes, the loop runs when it can and SSM answers within MaxLatency.
\* No fairness for the command: it may run for ever.
FairSpec == Spec /\ WF_vars(Loop) /\ WF_vars(Tick) /\ WF_vars(Answer)

\* The wait ends even for a command that never does, or of which SSM never
\* knows: the batch is not held up by one instance.
WaitEnds == <>(pc = "returned")
=============================================================================

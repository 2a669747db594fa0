---------------------------- MODULE CommandWait ----------------------------
(***************************************************************************)
(* What a wait for one SSM command is to the runner: it ends once, with a  *)
(* success only of a command that has succeeded, and with a failure at any *)
(* time, whatever becomes of the command.  SsmPoll implements it; Return   *)
(* is what the WaitForDone step of BatchRunner does.                       *)
(***************************************************************************)

VARIABLES
  command,   \* SSM's state of the command
  outcome    \* what the wait came to

\* A resumed wait may find the command ended.
Init == command \in {"InProgress", "Success", "Failed"} /\ outcome = "none"

End ==
  /\ command = "InProgress"
  /\ command' \in {"Success", "Failed"}
  /\ UNCHANGED outcome

Return ==
  /\ outcome = "none"
  /\ outcome' \in {"completed", "failed"}
  /\ outcome' = "completed" => command = "Success"
  /\ UNCHANGED command

Next == End \/ Return

Spec == Init /\ [][Next]_<<command, outcome>>
=============================================================================

--------------------------- MODULE JobLifecycle ---------------------------
(***************************************************************************)
(* What a client that polls GET /api/exec/jobs/{id} is promised about one  *)
(* batch: its three visible columns and the order they may change in.      *)
(* Nothing is said of workers, rows, commands or restarts; BatchRunner is  *)
(* shown to implement this module.                                         *)
(***************************************************************************)
EXTENDS Integers

CONSTANT Total          \* total_instances, a positive number

VARIABLES status, completed, failed

vars == <<status, completed, failed>>

Init == status = "none" /\ completed = 0 /\ failed = 0

Accept ==
  /\ status = "none"
  /\ status' = "pending"
  /\ UNCHANGED <<completed, failed>>

Begin ==
  /\ status = "pending"
  /\ status' = "running"
  /\ UNCHANGED <<completed, failed>>

\* One instance is reported, and never more instances than the job has.
Report ==
  /\ status = "running"
  /\ completed + failed < Total
  /\ \/ completed' = completed + 1 /\ UNCHANGED failed
     \/ failed' = failed + 1 /\ UNCHANGED completed
  /\ UNCHANGED status

\* A restart is visible as an interruption, a resume as running again.
Interrupt ==
  /\ status \in {"pending", "running"}
  /\ status' = "interrupted"
  /\ UNCHANGED <<completed, failed>>

Continue ==
  /\ status = "interrupted"
  /\ status' = "running"
  /\ UNCHANGED <<completed, failed>>

\* A finished job has no further step: its status and counters are final.
Finish ==
  /\ status = "running"
  /\ status' = IF failed = Total THEN "failed" ELSE "completed"
  /\ UNCHANGED <<completed, failed>>

Next == Accept \/ Begin \/ Report \/ Interrupt \/ Continue \/ Finish

Spec == Init /\ [][Next]_vars
=============================================================================

------------------------------- MODULE FanOut -------------------------------
(***************************************************************************)
(* What a client is promised about an organisation-wide job: the instances *)
(* are found while it runs, so its total grows, but at every moment at     *)
(* most the instances found are reported, and the job ends when all that   *)
(* were found are.  OrgRunner is shown to implement this module.           *)
(***************************************************************************)
EXTENDS Integers

CONSTANT Limit          \* more instances than this are never found

VARIABLES status, total, completed, failed

vars == <<status, total, completed, failed>>

Init == status = "none" /\ total = 0 /\ completed = 0 /\ failed = 0

AllReported == completed + failed = total

Accept ==
  /\ status = "none"
  /\ status' = "pending"
  /\ UNCHANGED <<total, completed, failed>>

Begin ==
  /\ status = "pending"
  /\ status' = "running"
  /\ UNCHANGED <<total, completed, failed>>

Discover ==
  /\ status = "running"
  /\ \E n \in 1 .. Limit - total : total' = total + n
  /\ UNCHANGED <<status, completed, failed>>

Report ==
  /\ status = "running" /\ ~AllReported
  /\ \/ completed' = completed + 1 /\ UNCHANGED failed
     \/ failed' = failed + 1 /\ UNCHANGED completed
  /\ UNCHANGED <<status, total>>

\* The traversal of the organisation may fail; the job is then failed, but not
\* while a command of it is still awaited.
Finish ==
  /\ status = "running" /\ AllReported
  /\ \/ status' = IF failed = total /\ total > 0 THEN "failed" ELSE "completed"
     \/ status' = "failed"
  /\ UNCHANGED <<total, completed, failed>>

Next == Accept \/ Begin \/ Discover \/ Report \/ Finish

Spec == Init /\ [][Next]_vars
=============================================================================

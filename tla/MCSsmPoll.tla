----------------------------- MODULE MCSsmPoll -----------------------------
(***************************************************************************)
(* Instances of SsmPoll for TLC.                                           *)
(***************************************************************************)
EXTENDS SsmPoll

\* In units of 2.5 seconds: a timeout that is clamped, one shorter than the
\* first sleep, and one after the interval has reached its cap.
MCTimeouts == {-1, 1, 28}
=============================================================================

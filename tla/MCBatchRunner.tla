--------------------------- MODULE MCBatchRunner ---------------------------
(***************************************************************************)
(* Instances of BatchRunner for TLC.                                       *)
(***************************************************************************)
EXTENDS BatchProperties, TLC

CONSTANTS s1, s2, s3, r0, r1, r2

\* Slots are interchangeable, and so are resume requests.
MCSymmetry == Permutations(Slots) \cup Permutations(Resumes)
=============================================================================

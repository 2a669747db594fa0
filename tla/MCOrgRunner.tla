---------------------------- MODULE MCOrgRunner ----------------------------
(***************************************************************************)
(* Instances of OrgRunner for TLC.                                         *)
(***************************************************************************)
EXTENDS OrgRunner, TLC

CONSTANTS g1, g2, h1, h2, h3
=============================================================================

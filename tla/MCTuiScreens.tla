---------------------------- MODULE MCTuiScreens ----------------------------
(***************************************************************************)
(* Instances of TuiScreens for TLC.                                        *)
(***************************************************************************)
EXTENDS TuiScreens

\* A tool for Linux and one for any platform; a cloud tool of GOV.
MCPlatform == [qc |-> "linux", recon |-> AnyPlatform]
MCProviderEnv == [vpc |-> "gov"]

\* COM lists two instances of different platforms, GOV a single one.
MCRunning ==
  [com |-> {[id |-> "i1", platform |-> "windows"], [id |-> "i2", platform |-> "linux"]},
   gov |-> {[id |-> "i3", platform |-> "linux"]}]

\* One key for each environment.
MCCredentialEnv == [AKIAcom |-> "com", ASIAgov |-> "gov"]
=============================================================================

\* Two OS tools, one cloud tool, both environments, two commands on their way.
SPECIFICATION FairSpec
CONSTANTS
  OsTools = {"qc", "recon"}
  CloudTools = {"vpc"}
  Platform <- MCPlatform
  ProviderEnv <- MCProviderEnv
  Running <- MCRunning
  CredentialEnv <- MCCredentialEnv
  MaxInFlight = 2
INVARIANTS
  TypeOK
  NoRunWithoutCredentials
  EnterRunsWhatWasTicked
  ActiveMeansValidated
PROPERTIES
  ScreensSettle
\* The operator may quit.
CHECK_DEADLOCK FALSE

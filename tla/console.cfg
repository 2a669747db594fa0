\* Three requests, two of them on their way at once, two refused
\* statements, or crashes.
SPECIFICATION Spec
CONSTANTS
  Keys = {"c1", "c2"}
  CredentialEnv <- MCCredentialEnv
  AccountOf <- MCAccountOf
  Numbers = {"CHG1", "CHG2"}
  Requests <- MCRequests
  FirstCookies <- MCFirstCookies
  FirstChanges <- MCFirstChanges
  DevMode = FALSE
  MaxInFlight = 2
  MaxRequests = 3
  MaxFaults = 2
  Inventory <- MCInventory
  SafeNumbers = {"CHG1"}
  ToolScripts = 2
INVARIANTS
  TypeOK
  SessionIsWhole
  CookieFollowsAnswers
  TargetsOfOneSave
  InlineScriptsAccounted
  AnswersAreTrue
\* No more than the bounded number of requests is made.
CHECK_DEADLOCK FALSE

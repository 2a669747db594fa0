\* Two regions, three hosts, one at a time in each region, one failing statement.
SPECIFICATION FairSpec
CONSTANTS
  g1 = g1
  g2 = g2
  h1 = h1
  h2 = h2
  h3 = h3
  Regions = {g1, g2}
  Hosts = {h1, h2, h3}
  MaxPerRegion = 1
  MaxFaults = 1
INVARIANTS
  TypeOK
  SentIsRecorded
  EndedMeansQuiet
PROPERTIES
  FanOutSpec
  OrgSettles
CHECK_DEADLOCK FALSE

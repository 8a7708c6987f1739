CONSTANTS
  Checker = checker
  NoFile = nofile
  Junk = junk
  None = none
  UpToDate = uptodate
  Failed = failed
  Sessions = {s1, s2}
  MaxVersion = 3
SPECIFICATION FairSpec
INVARIANTS
  TypeOK
  ExeNeverOlder
  SomeBuildSurvives
  InstalledIsOnDisk
  ActiveCounts
  RestartRunsNewer
PROPERTIES
  UpdateTakesEffect

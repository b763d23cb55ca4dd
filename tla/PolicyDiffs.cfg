SPECIFICATION Spec
CONSTANTS
  Configs <- SomeConfigs
  AllowedPaths <- Allowed
  BlockedPaths <- Blocked
  Existing <- Files
  ReproductionTest <- Repro
  Sections <- SomeSections
  Malformed <- NoDiffs
  MaxSections = 2
CHECK_DEADLOCK FALSE
INVARIANTS
  TypeOK
  
  OnlyMalformedIsRetried
  SummaryIsTheDiff

SPECIFICATION FairSpec
CONSTANTS
  Default = Default
  P250 = P250
  P280 = P280
  OnRP2350 = FALSE
  HasLed = TRUE
  AllowReset = TRUE
  Ports = {cdc0, cdc1}
  RebootDelay = 2
INVARIANTS
  CompletedMeansStored
  NoEraseUnderSession
  NothingBlocks
PROPERTIES
  SavedProfileBoots
  StartAfterFailure
  SaveResolves
  RebootHappens
  HangRecovers

SPECIFICATION FairSpec
CONSTANTS
  f8N1 = f8N1
  f7E1 = f7E1
  Formats <- MCFormats
  BootFormat = f8N1
  NoFormat = NoFormat
  MaxGen = 3
  MaxTx = 1
  MaxOut = 1
  MaxMounts = 1
  RecloseDuringStop = FALSE
INVARIANTS
  CoresNeverBlock
PROPERTIES
  StopCompletes
  ApplyResolves
  OpenResolves

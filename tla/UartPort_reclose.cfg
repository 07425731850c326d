SPECIFICATION Spec
CONSTANTS
  f8N1 = f8N1
  f7E1 = f7E1
  Formats <- MCFormats
  BootFormat = f8N1
  NoFormat = NoFormat
  MaxGen = 4
  MaxTx = 2
  MaxOut = 1
  MaxMounts = 1
  RecloseDuringStop = TRUE
PROPERTIES
  ClosedBytesDiscarded

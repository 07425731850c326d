SPECIFICATION HostSpec
CONSTANTS
  Counters = {"uart"}
  N = 1
  Interval = 1
  FaultInterval = 1
  RawModulus = 3
  SeqModulus = 4
  ClockModulus = 5
  CounterMax = 2
  PollGap = 1
  Busy = {0}
  MaxBytes = 4
  MaxOverruns = 0
  StaleAfter = 3
  Reconnects = FALSE
  MaxGaps = 1
  NoRate = NoRate
PROPERTIES
  RateExact

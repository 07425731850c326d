SPECIFICATION Spec
CONSTANTS
  h1 = h1
  h2 = h2
  p1 = p1
  c1 = c1
  c2 = c2
  c3 = c3
  c4 = c4
  c5 = c5
  c6 = c6
  s1 = s1
  s2 = s2
  HwPorts = {h1, h2}
  PioPorts = {p1}
  Channels = {c1, c2, c3, c4, c5, c6}
  Machines = {s1, s2}
  TxSm <- MCTxSm
  RxSm <- MCRxSm
  None = None
SYMMETRY MCSymmetry
INVARIANTS
  NoLeak
  ChannelsOwned
  CapacityProven

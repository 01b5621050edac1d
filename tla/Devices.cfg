SPECIFICATION MCSpec
CONSTANTS
  Sectors = 3
  Data = {d1, d2}
  Counts <- MCCounts
  TIMEOUT = 2
  Width = 4
  Height = 4
  StartX = 2
  StartY = 2
  Packets <- MCMovements
INVARIANTS
  QuietPacketSettles
PROPERTIES
  BlockDeviceSpec
  EveryCallReturns
  StaysInStep
  FollowsHand

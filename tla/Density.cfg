SPECIFICATION Spec
CONSTANTS
  Rules = {1, 2, 3, 4}
  Category <- MCCategory
  Confidence <- MCConfidence
  Priority <- MCPriority
  Peripherals = {p1, p2}
  AdvertiserLimit = 1
  MaxUncounted = 1
  TicksPerSecond = 2
  MaxClock = 1
  MaxInterruptions = 2
  p1 = p1
  p2 = p2
SYMMETRY PeripheralSymmetry
INVARIANTS
  ControllerHonest
  VerdictOfAllHeard
  ExportsSound

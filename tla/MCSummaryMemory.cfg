SPECIFICATION Spec
CONSTANTS
  Readers = {r1, r2}
  Writers = {w1, w2}
  MaxRaw = 2
  KeepRecent = 1
  MaxMessages = 4
  MaxClock = 4
SYMMETRY CoroutineSymmetry
INVARIANT TypeOK
PROPERTIES
  RetryKeepsPlace
  TellsTwiceForMissed
  LosesForNewer

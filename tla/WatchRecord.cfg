SPECIFICATION Spec
CONSTANTS
  m1 = m1
  m2 = m2
  w1 = w1
  w2 = w2
  NoOne = NoOne
  Prober = Prober
  Msgs = {m1, m2}
  To <- DirectAndChannel
  Urgent = {}
  MustRead = {}
  Native = {}
  NotifyOn = "direct"
  TrustWake = FALSE
  Watches = {w1, w2}
  Modes = {"oneshot"}
  ExplicitId = FALSE
  Capped = FALSE
  MaxBlocks = 2
  MaxFaults = 2
CHECK_DEADLOCK FALSE
INVARIANTS
  NeverStuckUnheard
  NeverParksDeaf
  RecordIsTold

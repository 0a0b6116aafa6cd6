SPECIFICATION FairSpec
CONSTANTS
  N = 2
  Window = 5
  Cooldown = 2
  StartTimeout = 1
  MaxFailures = 2
  MaxStarts = 2
  MaxConcurrent = 1
INVARIANTS
  ConcurrencyCap
  HourlyCeiling
  SlotsExpire
PROPERTIES
  CooldownKept
  MailAnswered

SPECIFICATION Spec
CONSTANTS
  Horizon = 5
  MaxRequests = 2
  Window = 3
  MinInterval = 1
  Threads = {t1, t2}
  Exports = {"rosters"}
  NeedAuth = {"rosters"}
  Ttl = 2
  MaxRetries = 2
  InitialBackoff = 1
  MaxBackoff = 2
  RetryAfter = {3}
  MaxVersion = 2
SYMMETRY Perms
INVARIANT SpacingHolds
INVARIANT CeilingHolds
INVARIANT AnswersAreRecent
INVARIANT ForcedAnswersAreFresh
INVARIANT NeverAnonymous
CHECK_DEADLOCK FALSE

SPECIFICATION FairSpec
CONSTANTS
  a = a
  b = b
  NRecs = 2
  Payloads <- OnePayload
  NPresses = 2
  OutboxSize = 2
  DrainLimit = 1
  MaxChanges = 3
  MaxFaults = 1
INVARIANT NoCardWithoutCause
INVARIANT OrphansAreFaults
PROPERTY RecordsCatchUp
PROPERTY EveryPendingGetsACard
PROPERTY NoticesReachTheOwner

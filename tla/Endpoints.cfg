SPECIFICATION Spec
SYMMETRY ProcSymmetry
CONSTANTS
  Procs = {dashboard, command}
  dashboard = dashboard
  command = command
  Params = {"W", "WEEK", "STARTERS", "TRADE_ID"}
  Fields <- MCFields
  Obvious <- MCObvious
  Pages <- MCPages
  Own <- MCOwn
  Shipped <- MCShipped
  MaxChanges = 1
  MaxCrashes = 1
INVARIANT PostsAreVouchedFor
PROPERTY VerifyKeepsWhatIsPinned

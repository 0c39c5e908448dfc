SPECIFICATION Spec
CONSTANTS
  Syncers = {"scheduler", "dashboard"}
  Cases <- MCCases
  Limits <- MCLimits
INVARIANT LineupIsRight
INVARIANT SilenceIsRight
INVARIANT NoSwapIsMissed
INVARIANT BidsFitTheBudget
INVARIANT TradesCostNoStarter
INVARIANT AdviceHasItsFacts
INVARIANT GatesFollowSettings

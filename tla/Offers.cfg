SPECIFICATION FairSpec
CONSTANTS
  Actors = {scheduler, dashboard}
  Offers = {1, 2}
  MaxFaults = 1
  MaxCauses = 1
INVARIANT DuplicatesAreBounded
INVARIANT HeldOffersAreReported
PROPERTY OpenOffersAreJudged
CHECK_DEADLOCK FALSE

SPECIFICATION Spec
CONSTANTS
  r1 = r1
  f1 = f1
  f2 = f2
  a = a
  b = b
  s1 = s1
  s2 = s2
  Recs <- OneRec
  Fields <- OneField
  Values <- TwoValues
  Submitters <- TwoSubmitters
  TTL = 1
  Lifetime = 2
  MaxTime = 3
  MaxTokens = 2
INVARIANT OneWritePerRecommendation
CHECK_DEADLOCK FALSE

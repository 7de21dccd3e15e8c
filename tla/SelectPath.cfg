SPECIFICATION Spec
CONSTANTS
  k1 = k1
  Keys = {k1}
  MaxRatio = 3
  MaxBackends = 4
  MaxInt = 48
  MaxPicks = 24
  RatioLists <- AllRatioLists
INVARIANT CreditConserved
INVARIANT CreditIsBalance
INVARIANT FairShare

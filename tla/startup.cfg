SPECIFICATION LoginFairSpec
CONSTANTS
  Keys = {k1, k2}
  MaxEdits = 2
INVARIANTS
  PublickeyOnlyHasKeys
  BannerExit
  LoginJustified
PROPERTIES
  RotationTakesEffect
CHECK_DEADLOCK FALSE

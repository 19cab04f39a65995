SPECIFICATION UFairSpec
CONSTANTS
  Stations <- MCStations2
  NumIds = 2
  TListen = 2
  TProbe = 1
  NProbe = 2
  TBeacon = 1
  TExpire = 3
  TRetry = 4
  LateHitIds <- MCNoIds
  MaxTroubles = 3
INVARIANTS UTypeOK HeldIsPersisted
PROPERTIES YieldsToSmaller SmallestHolderKeeps NoReclaim Settles

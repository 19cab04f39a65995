SPECIFICATION HomeSpec
CONSTANTS
  Stations <- MCStations3
  NumIds = 3
  TListen = 2
  TProbe = 1
  NProbe = 1
  TBeacon = 1
  TExpire = 2
  TRetry = 3
  LateHitIds <- MCNoIds
INVARIANTS AtHome HeldIsHome

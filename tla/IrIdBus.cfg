SPECIFICATION Spec
CONSTANTS
  Stations <- MCStations3
  NumIds = 2
  TListen = 2
  TProbe = 1
  NProbe = 2
  TBeacon = 1
  TExpire = 3
  TRetry = 4
  LateHitIds <- MCNoIds
CONSTRAINT FactoryNew
INVARIANTS TypeOK IInv UniqueIds
PROPERTIES HeldIsKept AllocationSpec

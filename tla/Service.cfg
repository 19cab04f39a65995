SPECIFICATION Spec
CONSTANTS
    Macs <- MCMacs
    Senders <- MCSenders
    Received <- MCReceived
    RX_RING = 3
    MAX_PEERS = 2
    Wrap = 3
    MaxTime = 4
INVARIANTS TypeOK DataStaysData PeersMatchDriver
PROPERTIES RingIsQueue EvictsOldest
CHECK_DEADLOCK FALSE

SPECIFICATION FairSpec
CONSTANTS
    Clients <- MCClients
    Files <- MCFiles
    Chunks = 2
    Hosts <- MCHosts
    ApIp <- MCApIp
    Grace = 1
INVARIANTS TypeOK WebInv AnswerIsTrue NothingLeftOpen BootIsVetted ServedSoon
PROPERTIES NothingDropped Answered
CHECK_DEADLOCK FALSE

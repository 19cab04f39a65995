------------------------------ MODULE MCService ------------------------------
EXTENDS EspNowService
MCMacs == {"a", "b", "c"}
MCSenders == {"a"}
\* Packets of our version and another's, rescue messages, a packet that was
\* damaged, and raw frames of both lengths.
MCReceived ==
    {[len |-> 36, version |-> 3, type |-> 16, crcOk |-> TRUE],
     [len |-> 36, version |-> 3, type |-> 244, crcOk |-> FALSE],
     [len |-> 36, version |-> 4, type |-> 242, crcOk |-> TRUE],
     [len |-> 36, version |-> 4, type |-> 16, crcOk |-> TRUE],
     [len |-> 36, version |-> 73, type |-> 78, crcOk |-> TRUE],
     [len |-> 250, version |-> 73, type |-> 78, crcOk |-> FALSE]}
=============================================================================

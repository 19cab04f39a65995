----------------------------- MODULE MCPushLossy -----------------------------
EXTENDS EspNowPushLossy
MCFrames == [A |-> 5]
MCOneBox == {"box"}
MCNoFaults == {}
=============================================================================

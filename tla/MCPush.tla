-------------------------------- MODULE MCPush --------------------------------
EXTENDS EspNowPush
MCFrames == [A |-> 3, B |-> 2]
MCFramesFull == [A |-> 4]
MCFramesMixed == [A |-> 3, B |-> 1]
MCFramesSmall == [A |-> 2, B |-> 1]
MCOneBox == {"box"}
MCTwoBoxes == {"box", "rival"}
MCFaults == {"read", "begin", "write", "end"}
MCNoFaults == {}
MCWriteFaults == {"write"}
MCBeginFaults == {"begin"}
=============================================================================

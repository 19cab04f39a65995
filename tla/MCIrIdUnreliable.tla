--------------------------- MODULE MCIrIdUnreliable ---------------------------
EXTENDS IrIdUnreliable
MCStations2 == {2, 4}
MCNoIds == {}
=============================================================================

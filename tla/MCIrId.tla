-------------------------------- MODULE MCIrId --------------------------------
EXTENDS IrIdNegotiator
\* MACs 4, 2 and 3 modulo 256; with two ids the bases are 1, 1 and 2.
MCStations3 == {2, 4, 259}
MCNoIds == {}
FactoryNew == \A s \in Stations : nvs[s] = 0
=============================================================================

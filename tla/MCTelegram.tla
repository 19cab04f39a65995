------------------------------ MODULE MCTelegram ------------------------------
EXTENDS IrTelegram
\* Bits of every kind; damage 0 is raised to 1.
MCShots == {[shooterId |-> 11, damage |-> 3], [shooterId |-> 4, damage |-> 0]}
\* The largest skews the windows tolerate, on both sides.
MCSkews == {-299, 300}
\* Remote controls have a longer header (NEC), as had the old 5-ms burst.
MCAmbient ==
    {<<Mark(9000), Space(4500), Mark(560), Space(1690)>>, <<Mark(5000), Space(100000)>>,
     <<Mark(2500), Space(5000)>>}
=============================================================================

----------------------------- MODULE MCWebUpdate -----------------------------
EXTENDS WebUpdate
MCClients == {"a", "b"}
\* The right file, a broken one, and another device's.
MCFiles ==
    {[named |-> TRUE, valid |-> TRUE], [named |-> TRUE, valid |-> FALSE],
     [named |-> FALSE, valid |-> TRUE]}
MCApIp == <<"1", "2">>
\* None, ours, ours with a port, a longer and a foreign one.
MCHosts ==
    {<<>>, MCApIp, <<"1", "2", ":">>, <<"1", "2", "0">>, <<"x">>}
=============================================================================

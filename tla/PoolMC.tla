------------------------------- MODULE PoolMC -------------------------------
(* Two servers of one permit that two requests and two connectors share; *)
(* operators reach the second, and may raise its capacity to two.        *)
EXTENDS Pool, TLC

CONSTANTS small, large, any, named

MCServers == {small, large}

MCRequests == {any, named}

MCConfigured == [s \in MCServers |-> 1]

MCAsk == [r \in MCRequests |-> IF r = any THEN MCServers ELSE {small}]

Symmetric == Permutations(Connectors)

=============================================================================

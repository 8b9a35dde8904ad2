---------------------------- MODULE MCProxyPool ----------------------------
EXTENDS ProxyPool

CONSTANTS l1, r1, r2

OnTheFirst == [k \in Keys |-> 1]
=============================================================================

----------------------------- MODULE MCKeyStore -----------------------------
(* A small instance of KeyStore for TLC: two nodes with an address and a    *)
(* subnet each, packets to the first node's address (two) and its subnet.   *)
EXTENDS KeyStore, TLC

CONSTANTS k1, k2, addr1, net1, addr2, net2, m1, m2, m3

MCDestsOf == (k1 :> {addr1, net1}) @@ (k2 :> {addr2, net2})
MCDst == (m1 :> addr1) @@ (m2 :> addr1) @@ (m3 :> net1)
=============================================================================

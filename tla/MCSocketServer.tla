--------------------------- MODULE MCSocketServer ---------------------------
(* Small instances of SocketServer for TLC.                                *)
EXTENDS SocketServer, TLC

CONSTANTS c1, c2, ip1, ip2

Symmetric == Permutations(Descriptors)

OneAddress == [c \in Clients |-> ip1]
TwoAddresses == (c1 :> ip1) @@ (c2 :> ip2)

ThreeEach == [c \in Clients |-> 3]
TwoAndOne == (c1 :> 2) @@ (c2 :> 1)
OneEach == [c \in Clients |-> 1]

=============================================================================

--------------------------- MODULE MCRemoteCalls ---------------------------
(* Instances of RemoteCalls for TLC. *)
EXTENDS RemoteCallsInv, TLC

CONSTANTS c1, c2, p1, p2

\* Peers are interchangeable; used where no liveness is checked.
PeerSymmetry == Permutations(Peers)

OneSlot == [p \in Peers |-> 1]

=============================================================================

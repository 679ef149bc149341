------------------------- MODULE MCServiceRegistry -------------------------
(* Instances of ServiceRegistry for TLC. *)
EXTENDS ServiceRegistryInv, TLC

CONSTANTS n1, n2, a, b, c

\* Two executors of one node and one of the other.
TwoAndOne == (a :> n1) @@ (b :> n2) @@ (c :> n1)
BothAtOne == (n1 :> <<a, c>>) @@ (n2 :> <<>>)

=============================================================================

----------------------------- MODULE MCNetwork -----------------------------
(* Two nodes connect to a third, which then connects back to the first; or *)
(* two nodes connect to each other at the same time.                       *)
EXTENDS Network, TLC

CONSTANTS n1, n2, n3, a1, a2, a3

StarFrom == a1 :> n1 @@ a2 :> n3 @@ a3 :> n2
StarTo == a1 :> n2 @@ a2 :> n2 @@ a3 :> n1
StarAfter == a1 :> {} @@ a2 :> {} @@ a3 :> {a1}
CrossFrom == a1 :> n1 @@ a2 :> n2
CrossTo == a1 :> n2 @@ a2 :> n1
CrossAfter == a1 :> {} @@ a2 :> {}
=============================================================================

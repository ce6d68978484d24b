---------------------------- MODULE MCBroadcast -----------------------------
(***************************************************************************)
(* Instances of Broadcast for TLC: two clients, with one live id each or   *)
(* with two for the first.                                                 *)
(***************************************************************************)
EXTENDS Broadcast, TLC

CONSTANTS a, b, l1, l2, l3, r1, r2, q1, q2, q3, q4

OwnerOf == [l \in LiveID |-> IF l \in {l1, l2} THEN a ELSE b]
Alike   == Permutations(Request) \cup Permutations(Proc)
=============================================================================

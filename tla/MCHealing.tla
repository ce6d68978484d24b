----------------------------- MODULE MCHealing ------------------------------
(***************************************************************************)
(* Instance of Healing for TLC: one or two positions and one scene, both    *)
(* persisted.                                                               *)
(***************************************************************************)
EXTENDS Healing, TLC

CONSTANTS p1, s1, n1

OnePosition == {(p1 :> n1)}
OneScene    == {(s1 :> [name |-> n1, ids |-> {p1}])}
Alike       == Permutations(Request) \cup Permutations(Camera)
=============================================================================

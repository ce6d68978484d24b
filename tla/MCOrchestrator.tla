--------------------------- MODULE MCOrchestrator ---------------------------
(***************************************************************************)
(* Instances of Orchestrator for TLC.  What the store files hold at boot   *)
(* is a set of definitions per question.                                   *)
(***************************************************************************)
EXTENDS Orchestrator, TLC

CONSTANTS p1, p2, s1, s2, n1, n2, r1, r2

\* With nothing persisted, ids, names, scenes and cameras are alike, too.
AllAlike == Permutations(Request) \cup Permutations(Position) \cup Permutations(Name)
            \cup Permutations(Scene) \cup Permutations(Camera)

\* Positions, and a scene with the first of them, persisted.
OneScene1    == {[s \in Scene |-> IF s = s1 THEN [name |-> n1, ids |-> {p1}] ELSE NoScene]}
OnePosition  == {(p1 :> n1)}
TwoPositions == {(p1 :> n1) @@ (p2 :> n2)}

\* First start: nothing persisted.
NoPositions == {[p \in Position |-> None]}
NoScenes    == {[s \in Scene |-> NoScene]}

\* All but what OBS shows, plays and lets through.  With ObsFaults = FALSE the answer
\* to a call depends on the inputs OBS has and on nothing else of it, so that the
\* program reaches the same states whatever the rest of obs is.
ButThePicture == <<obs.inputs, mediaVars, camVars, posVars, sceneDef, liveVars,
                   diskVars, issued, th>>
=============================================================================

------------------------------ MODULE Healing -------------------------------
(***************************************************************************)
(* What overlapping operations of two operators leave behind, and how far   *)
(* a later operation that runs alone puts it right.                         *)
(*                                                                         *)
(* The orchestrator holds no lock across the sections of an operation, so   *)
(* two Cuts, or two AssignCameras of one position, may reach OBS in one     *)
(* order and commit in the other.  This module is Orchestrator with history *)
(* variables: they record overlaps and restrict nothing.                    *)
(***************************************************************************)
EXTENDS Orchestrator

VARIABLES solo,     \* the request inside an operation that nothing has overlapped
          mixed,    \* overlaps may have left OBS showing something else than live
          suspect   \* positions whose source overlaps may have left wrong

history  == <<solo, mixed, suspect>>
healVars == <<vars, history>>

Step(t) == \/ SyncFetch(t) \/ SyncStep(t) \/ HiddenStep(t)
           \/ PositionStep(t) \/ AssignStep(t) \/ SceneStep(t) \/ LiveStep(t)

\* The positions whose source the step of t, in an operation alone, sets for good.
Repaired(t) == CASE At(t, "assign_commit") -> {th[t].pos}
                 [] At(t, "cut_commit") /\ th[t].sel \in Camera -> {simple}
                 [] OTHER -> {}

Overlaps(t) == \E u \in Request \ {t} : ~At(u, "idle")

\* An overlap makes everything doubtful.  The doubt ends with an operation alone
\* that puts things right, or with the last operation if nothing is wrong then.
Playing(p) == cameraID[p] # None => obs.source[p] = cameraID[p]

Note(t) ==
    IF Overlaps(t)
    THEN solo' = {} /\ mixed' = TRUE /\ suspect' = AllPos
    ELSE LET last == At(t, "idle")' IN
         /\ solo' = IF last THEN {} ELSE IF At(t, "idle") THEN {t} ELSE solo
         /\ mixed' = (mixed /\ ~(t \in solo /\ At(t, "cut_commit")) /\ ~(last /\ OnAirMatchesLive'))
         /\ suspect' = {p \in suspect : ~(t \in solo /\ p \in Repaired(t)) /\ ~(last /\ Playing(p)')}

HealInit == /\ Init
            /\ solo = {} /\ mixed = FALSE /\ suspect = {}

HealNext == \/ \E t \in Request : Step(t) /\ Note(t)
            \/ (Step(Ticker) \/ RunStart \/ Environment) /\ UNCHANGED history

HealSpec == HealInit /\ [][HealNext]_healVars

-----------------------------------------------------------------------------
\* Properties.

\* One Cut that runs alone takes everything off the program that is not in the
\* selection on air, whatever two Cuts at once had left there.
OnAirHeals == mixed \/ OnAirMatchesLive

\* One AssignCamera (or Cut to a camera) that runs alone makes the input play the
\* camera of the position again, whatever two at once had left there.
SourceHeals ==
    OperatorsIdle => \A p \in AllPos \ suspect : Playing(p)
=============================================================================

----------------------------- MODULE ObsProgram -----------------------------
(***************************************************************************)
(* The program scene of OBS as the back end drives it: one input (and one  *)
(* scene item) per position, through the five position methods of          *)
(* obs.ObsController (backend/internal/obs/obs.go).                        *)
(*                                                                         *)
(* Every method of the controller is one remote call that the caller makes *)
(* WITHOUT holding a lock of its own.  Here it is an operator that gives    *)
(* the states OBS may be in afterwards, as a function of the error the      *)
(* method returned: Reply(ok, accepted, done).  OBS refuses a call on an    *)
(* input it does not have; when the connection breaks (ObsFaults) the call  *)
(* returns an error whether or not OBS has carried it out.                  *)
(***************************************************************************)

CONSTANTS Position,   \* ids that positions.NewID can return
          simple,     \* simplePositionID, the reserved hidden position
          Camera,     \* stream names of the media server
          None,       \* the empty string of the Go code
          ObsFaults   \* TRUE: the connection to OBS can break during a call

ASSUME ObsAssumption ==
    /\ simple \notin Position
    /\ None \notin Position \cup {simple} \cup Camera
    /\ ObsFaults \in BOOLEAN

VARIABLE obs          \* the program scene

AllPos == Position \cup {simple}

ObsType == [inputs  : SUBSET AllPos,              \* inputs OBS has
            enabled : SUBSET AllPos,              \* scene items that are visible
            unmuted : SUBSET AllPos,              \* inputs heard in the mix
            source  : [AllPos -> Camera \cup {None}]]  \* URL an input plays

\* What OBS may hold after a call that returned ok (no error) or an error,
\* when OBS accepts the call (accepted) and carries it out as done.
Reply(ok, accepted, done) ==
    {o \in {obs, done} :
        \/ ok /\ accepted /\ o = done
        \/ ~ok /\ ~accepted /\ o = obs
        \/ ~ok /\ accepted /\ ObsFaults}

\* A new input is disabled, plays nothing, and is audible as OBS creates it.
CreatePositionInput(p, ok) ==
    obs' \in Reply(ok, p \notin obs.inputs,
                   [inputs  |-> obs.inputs \cup {p},
                    enabled |-> obs.enabled \ {p},
                    unmuted |-> obs.unmuted \cup {p},
                    source  |-> [obs.source EXCEPT ![p] = None]])

\* (variant: an input that already plays something is left alone)
VariantUpdatePositionSource(p, c, ok) ==
    obs' \in Reply(ok, p \in obs.inputs,
                   IF obs.source[p] = None THEN [obs EXCEPT !.source[p] = c] ELSE obs)

UpdatePositionSource(p, c, ok) ==
    obs' \in Reply(ok, p \in obs.inputs, [obs EXCEPT !.source[p] = c])

RemoveInput(p, ok) ==
    obs' \in Reply(ok, p \in obs.inputs,
                   [inputs  |-> obs.inputs \ {p},
                    enabled |-> obs.enabled \ {p},
                    unmuted |-> obs.unmuted \ {p},
                    source  |-> [obs.source EXCEPT ![p] = None]])

SetPositionEnabled(p, on, ok) ==
    obs' \in Reply(ok, p \in obs.inputs,
                   [obs EXCEPT !.enabled = IF on THEN @ \cup {p} ELSE @ \ {p}])

SetInputAudioMuted(p, muted, ok) ==
    obs' \in Reply(ok, p \in obs.inputs,
                   [obs EXCEPT !.unmuted = IF muted THEN @ \ {p} ELSE @ \cup {p}])
=============================================================================

---------------------------- MODULE HealingProofs ----------------------------
(***************************************************************************)
(* Theorems about Healing: what one operation that runs alone puts right,  *)
(* for any number of positions, cameras, scenes and requests and whatever  *)
(* overlapping operations have left behind.  The conditions are those of   *)
(* InputsAndPositionsAgree: OBS answers, files can be saved, no restart.   *)
(***************************************************************************)
EXTENDS Healing, OrchestratorThreads

Calm == ~ObsFaults /\ ~SaveFaults /\ "Restart" \notin Ops

\* What OrchestratorProofs and OrchestratorThreads prove of every state, as far as it is needed here.
Base == TypeInv /\ TickerKept /\ ExclusiveInv /\ AudioInv /\ InputsInv

-----------------------------------------------------------------------------
(* The invariant.                                                          *)

AudioSteps == {"autoaudio_read", "autoaudio_mute", "autoaudio_unmute", "autoaudio_commit"}
VisLabels  == {"vis_read", "vis_set", "cut_commit"} \cup AudioSteps

\* What the visibility loop of t is to leave visible: the hidden position, which
\* plays the camera already, the positions of a scene, or those of the scene on air.
Target(t) ==
    \/ /\ th[t].sel \in Camera /\ th[t].ids = {simple}
       /\ simple \in Positions /\ obs.source[simple] = th[t].sel
    \/ th[t].sel \in Scene /\ th[t].ids = EnableIDs(th[t].sel)
    \/ th[t].sel = None /\ live \in Scene /\ th[t].ids = EnableIDs(live)

\* How far t has come, when nothing has overlapped its operation.
Doing(t) ==
    /\ At(t, "cut_source") => th[t].sel \in Camera /\ th[t].ids = {simple}
    /\ th[t].pc \in VisLabels => Target(t)
    /\ At(t, "vis_set") => th[t].todo \subseteq Positions /\ obs.enabled \subseteq th[t].ids \cup th[t].todo
    /\ th[t].pc \in AudioSteps \cup {"cut_commit"} => obs.enabled \subseteq th[t].ids /\ th[t].sel # None
    /\ At(t, "assign_commit") => obs.source[th[t].pos] = th[t].sel

\* Between these labels OBS may show a mixture, and input p may play something else
\* than what the position says.
Showing(t) == \/ th[t].pc \in AudioSteps \cup {"vis_set", "cut_commit"}
              \/ At(t, "vis_read") /\ th[t].sel = None
Busy(t, p) == \/ At(t, "assign_commit") /\ th[t].pos = p
              \/ th[t].pc \in VisLabels /\ th[t].sel \in Camera /\ p = simple
              \/ At(t, "delete_commit") /\ th[t].pos = p

Matches == live # None => obs.enabled \subseteq OnAir(live)

Lone(t) == \A u \in Request \ {t} : At(u, "idle")

\* What OBS shows, it has; and what is visible or about to be is no ghost of the
\* hidden position.
Shown ==
    /\ obs.enabled \subseteq obs.inputs
    /\ simple \in obs.enabled => simple \in Positions
    /\ \A t \in Thread : At(t, "vis_set") /\ simple \in th[t].todo => simple \in Positions
    /\ Scenes \subseteq issued

SoloInv ==
    /\ solo \subseteq Request
    /\ \A t \in solo : ~At(t, "idle") /\ Lone(t) /\ Doing(t)
    /\ ~mixed \/ suspect # AllPos => \A t \in Request \ solo : At(t, "idle")

DoubtInv ==
    /\ mixed \/ Matches \/ \E t \in solo : Showing(t)
    /\ \A p \in AllPos \ suspect : Playing(p) \/ \E t \in solo : Busy(t, p)

HealInv == Shown /\ SoloInv /\ DoubtInv

-----------------------------------------------------------------------------
(* The calls and the frames.                                               *)

\* What a call that OBS answers leaves of what is visible and what plays where.
LEMMA CallsShow ==
    ASSUME obs \in ObsType, ~ObsFaults, NEW p \in AllPos, NEW ok \in BOOLEAN
    PROVE  /\ CreatePositionInput(p, ok) =>
                 /\ obs'.enabled \subseteq obs.enabled
                 /\ \A q \in AllPos : q # p => obs'.source[q] = obs.source[q]
                 /\ p \in obs.inputs => obs' = obs
           /\ RemoveInput(p, ok) =>
                 /\ obs'.enabled \subseteq obs.enabled
                 /\ p \in obs.inputs => p \notin obs'.enabled
                 /\ \A q \in AllPos : q # p => obs'.source[q] = obs.source[q]
           /\ \A c \in Camera : UpdatePositionSource(p, c, ok) =>
                 /\ obs'.enabled = obs.enabled
                 /\ ok <=> p \in obs.inputs
                 /\ IF ok THEN obs'.source = [obs.source EXCEPT ![p] = c] ELSE obs' = obs
           /\ \A on \in BOOLEAN : SetPositionEnabled(p, on, ok) =>
                 /\ obs'.source = obs.source
                 /\ ok <=> p \in obs.inputs
                 /\ obs'.enabled = IF ~ok THEN obs.enabled
                                   ELSE IF on THEN obs.enabled \cup {p} ELSE obs.enabled \ {p}
           /\ \A muted : SetInputAudioMuted(p, muted, ok) =>
                 /\ obs'.source = obs.source
                 /\ obs'.enabled = obs.enabled
<1>1. CreatePositionInput(p, ok) =>
         /\ obs'.enabled \subseteq obs.enabled
         /\ \A q \in AllPos : q # p => obs'.source[q] = obs.source[q]
         /\ p \in obs.inputs => obs' = obs
  BY DEF ObsType, CreatePositionInput, Reply
<1>2. RemoveInput(p, ok) =>
         /\ obs'.enabled \subseteq obs.enabled
         /\ p \in obs.inputs => p \notin obs'.enabled
         /\ \A q \in AllPos : q # p => obs'.source[q] = obs.source[q]
  BY DEF ObsType, RemoveInput, Reply
<1>3. \A c \in Camera : UpdatePositionSource(p, c, ok) =>
         /\ obs'.enabled = obs.enabled
         /\ ok <=> p \in obs.inputs
         /\ IF ok THEN obs'.source = [obs.source EXCEPT ![p] = c] ELSE obs' = obs
  BY DEF ObsType, UpdatePositionSource, Reply
<1>4. \A on \in BOOLEAN : SetPositionEnabled(p, on, ok) =>
         /\ obs'.source = obs.source
         /\ ok <=> p \in obs.inputs
         /\ obs'.enabled = IF ~ok THEN obs.enabled
                           ELSE IF on THEN obs.enabled \cup {p} ELSE obs.enabled \ {p}
  BY DEF ObsType, SetPositionEnabled, Reply
<1>5. \A muted : SetInputAudioMuted(p, muted, ok) =>
         /\ obs'.source = obs.source
         /\ obs'.enabled = obs.enabled
  BY DEF ObsType, SetInputAudioMuted, Reply
<1> QED
  BY <1>1, <1>2, <1>3, <1>4, <1>5

\* The steps the invariant speaks of.
DoingStep(t) ==
    \/ UpdateScenePositions(t) \/ CutRead(t) \/ CutSource(t) \/ VisRead(t) \/ VisSet(t)
    \/ AutoAudioRead(t) \/ AutoAudioMute(t) \/ AutoAudioUnmute(t) \/ AutoAudioCommit(t) \/ CutCommit(t)
    \/ AssignObs(t) \/ AssignCommit(t) \/ DeleteRemove(t) \/ DeleteCommit(t)

DoingLabels == VisLabels \cup {"cut_source", "assign_commit", "delete_commit"}

\* No other step is one of a thread at these labels ...
LEMMA DoingBefore ==
    ASSUME NEW t \in Thread, StepOf(t), ~DoingStep(t)
    PROVE  th[t].pc \notin DoingLabels
<1> SUFFICES ASSUME th[t].pc \in DoingLabels PROVE FALSE
  OBVIOUS
<1>1. /\ \A l \in {"idle", "run", "hidden_obs", "hidden_reg", "sync_apply", "sync_fail", "off", "off_mute",
                   "prune", "create_obs", "create_commit", "create_undo", "delete_disable", "delete_mute",
                   "assign_obs", "unassign_obs", "unassign_commit", "audio_mute", "audio_unmute",
                   "audio_commit", "cut_ok"} : ~At(t, l)
      /\ \A op : ~Calls(t, op)
  BY DEF DoingLabels, VisLabels, AudioSteps, At, Calls
<1>2. ~SyncFetch(t) /\ ~SyncStep(t) /\ ~HiddenStep(t) /\ ~(t = Ticker /\ RunStart)
  BY <1>1 DEF SyncFetch, SyncStep, SyncFail, SyncReconcile, OffDisable, OffMute, Prune, RunStart,
     HiddenStep, HiddenCreateInput, HiddenRegister
<1>3. ~PositionStep(t)
  BY <1>1 DEF PositionStep, DoingStep, CreatePosition, CreateObs, CreateCommit, CreateConflict, CreateUndo,
     RenamePosition, DeletePosition, DeleteDisable, DeleteMute
<1>4. ~AssignStep(t)
  BY <1>1 DEF AssignStep, DoingStep, AssignCamera, UnassignPosition, UnassignObs,
     UnassignCommit, SetAudioPosition, AudioMutePrev, AudioUnmute, AudioCommit
<1>5. ~SceneStep(t)
  BY <1>1 DEF SceneStep, DoingStep, CreateScene, RenameScene, DeleteScene
<1>6. ~LiveStep(t)
  BY <1>1 DEF LiveStep, DoingStep, SetPreviewCamera, SetPreviewScene, Cut, CutReply
<1> QED
  BY <1>2, <1>3, <1>4, <1>5, <1>6 DEF StepOf

\* ... nor leads to them.
LEMMA DoingAfter ==
    ASSUME TypeInv, NEW t \in Thread, StepOf(t), ~DoingStep(t)
    PROVE  th'[t].pc \notin DoingLabels
<1>0. /\ th[t] \in Frame
      /\ \A f : Become(t, f) => th'[t] = f
      /\ \A l : Goto(t, l) => th'[t].pc = l
      /\ Return(t) => th'[t].pc = "idle"
  BY DEF TypeInv, TypeOK, Become, Goto, Return, Idle, Frame
<1>1. ASSUME th'[t].pc \in {"idle", "run", "hidden_obs", "hidden_reg", "sync_apply", "sync_fail", "off",
                            "off_mute", "prune", "create_obs", "create_commit", "create_undo",
                            "delete_disable", "delete_mute", "delete_remove", "assign_obs", "unassign_obs",
                            "unassign_commit", "audio_mute", "audio_unmute", "audio_commit", "cut_read",
                            "cut_ok"}
      PROVE  th'[t].pc \notin DoingLabels
  BY <1>1 DEF DoingLabels, VisLabels, AudioSteps
<1>2. CASE th'[t] = th[t]
  BY <1>2, DoingBefore
<1>3. CASE SyncFetch(t) \/ SyncFail(t) \/ Prune(t) \/ HiddenCreateInput(t)
  <2>1. CASE SyncFetch(t)
    BY <1>0, <1>1, <2>1 DEF SyncFetch, Idle
  <2>2. CASE SyncFail(t) \/ Prune(t) \/ HiddenCreateInput(t)
    BY <1>0, <1>1, <2>2 DEF SyncFail, Prune, HiddenCreateInput
  <2> QED
    BY <1>3, <2>1, <2>2
<1>4. CASE SyncReconcile(t)
  <2>1. PICK cleared \in SUBSET Positions :
           Become(t, Rest([Idle EXCEPT !.ids = cleared, !.todo = cleared \cap isAudio,
                                       !.cams = ToPrune(th[t].cams)]))
    BY <1>4 DEF SyncReconcile, ClearedFor
  <2> DEFINE f == [Idle EXCEPT !.ids = cleared, !.todo = cleared \cap isAudio,
                               !.cams = ToPrune(th[t].cams)]
  <2>2. f \in Frame
    BY IdleTyped DEF TypeInv, TypeOK, Frame, ToPrune, Positions
  <2>3. th'[t] = Rest(f)
    BY <1>0, <2>1
  <2> HIDE DEF f
  <2> QED
    BY <1>1, <2>2, <2>3, RestFrame
<1>5. CASE OffDisable(t)
  <2> DEFINE Left(p) == [th[t] EXCEPT !.ids = @ \ {p}, !.pos = p]
  <2>1. PICK p \in th[t].ids :
           Become(t, IF p \in Left(p).todo THEN [Left(p) EXCEPT !.pc = "off_mute"] ELSE Rest(Left(p)))
    BY <1>5 DEF OffDisable
  <2>2. Left(p) \in Frame
    BY <1>0 DEF Frame
  <2> HIDE DEF Left
  <2>3. [Left(p) EXCEPT !.pc = "off_mute"].pc = "off_mute"
    BY <2>2 DEF Frame
  <2> QED
    BY <1>0, <1>1, <2>1, <2>2, <2>3, RestFrame
<1>6. CASE OffMute(t)
  BY <1>0, <1>1, <1>6, RestFrame DEF OffMute
<1>7. CASE HiddenRegister(t) \/ Cut(t) \/ (t = Ticker /\ RunStart)
  <2>1. Become(t, AfterHidden(t)) \/ Become(t, EnsureHidden(t))
    BY <1>7 DEF HiddenRegister, Cut, RunStart
  <2>2. th'[t] \in {Idle, [Idle EXCEPT !.pc = "cut_read"], [Idle EXCEPT !.pc = "hidden_obs"]}
    BY <1>0, <2>1 DEF AfterHidden, EnsureHidden
  <2>3. th'[t].pc \in {"idle", "cut_read", "hidden_obs"}
    BY <2>2 DEF Idle
  <2> QED
    BY <1>1, <2>3
<1>8. CASE CreatePosition(t) \/ DeletePosition(t)
  <2>1. CASE CreatePosition(t)
    BY <1>0, <1>1, <2>1 DEF CreatePosition, Idle
  <2>2. CASE DeletePosition(t)
    <3>1. th'[t].pc \in {"delete_disable", "delete_mute", "delete_remove"}
      BY <1>0, <2>2 DEF DeletePosition, Idle
    <3> QED
      BY <1>1, <3>1
  <2> QED
    BY <1>8, <2>1, <2>2
<1>9. CASE CreateObs(t) \/ CreateCommit(t) \/ CreateConflict(t) \/ CreateUndo(t)
           \/ DeleteDisable(t) \/ DeleteMute(t)
  BY <1>0, <1>1, <1>9 DEF CreateObs, CreateCommit, CreateConflict, CreateUndo, DeleteDisable, DeleteMute
<1>10. CASE RenamePosition(t) \/ CreateScene(t) \/ RenameScene(t) \/ DeleteScene(t)
            \/ SetPreviewCamera(t) \/ SetPreviewScene(t)
  BY <1>2, <1>10 DEF RenamePosition, CreateScene, RenameScene, DeleteScene, SetPreviewCamera, SetPreviewScene
<1>11. CASE AssignCamera(t) \/ UnassignPosition(t)
  <2>1. th'[t].pc \in {"assign_obs", "unassign_obs"}
    BY <1>0, <1>11 DEF AssignCamera, UnassignPosition, Idle
  <2> QED
    BY <1>1, <2>1
<1>12. CASE UnassignObs(t) \/ UnassignCommit(t) \/ AudioMutePrev(t) \/ AudioUnmute(t) \/ AudioCommit(t)
            \/ CutReply(t)
  BY <1>0, <1>1, <1>12 DEF UnassignObs, UnassignCommit, AudioMutePrev, AudioUnmute, AudioCommit, CutReply
<1>13. CASE SetAudioPosition(t)
  <2>1. th'[t].pc \in {"audio_mute", "audio_unmute"}
    BY <1>0, <1>13 DEF SetAudioPosition, Idle
  <2> QED
    BY <1>1, <2>1
<1> QED
  BY <1>3, <1>4, <1>5, <1>6, <1>7, <1>8, <1>9, <1>10, <1>11, <1>12, <1>13
  DEF StepOf, DoingStep, SyncStep, HiddenStep, PositionStep, AssignStep, SceneStep, LiveStep

\* Where the visibility loop goes on.
LEMMA LoopFrame ==
    ASSUME NEW f \in Frame
    PROVE  LET g == VisibilityLoop(f) IN
           \/ g = Idle /\ f.todo = {} /\ f.sel = None
           \/ /\ g = [f EXCEPT !.pc = g.pc]
              /\ \/ f.todo # {} /\ g.pc = "vis_set"
                 \/ f.todo = {} /\ f.sel \in Camera /\ g.pc = "autoaudio_read"
                 \/ f.todo = {} /\ f.sel \in Scene /\ g.pc = "cut_commit"
<1>1. \A l : [f EXCEPT !.pc = l].pc = l
  BY DEF Frame
<1>2. f.sel \in Camera \cup Scene \cup {None} /\ Camera \cap Scene = {}
      /\ None \notin Camera /\ None \notin Scene
  BY OrchAssumption, ObsAssumption DEF Frame, Selection
<1>3. CASE f.todo # {}
  BY <1>1, <1>3 DEF VisibilityLoop
<1>4. CASE f.todo = {} /\ f.sel \in Camera
  BY <1>1, <1>4 DEF VisibilityLoop, AfterVisibility
<1>5. CASE f.todo = {} /\ f.sel \in Scene
  BY <1>1, <1>2, <1>5 DEF VisibilityLoop, AfterVisibility
<1>6. CASE f.todo = {} /\ f.sel = None
  BY <1>2, <1>6 DEF VisibilityLoop, AfterVisibility
<1> QED
  BY <1>2, <1>3, <1>4, <1>5, <1>6

\* What a step does to OBS, in the shape the calls above give it.
Creates(t)  == HiddenCreateInput(t) \/ CreateObs(t)
Removes(t)  == CreateUndo(t) \/ DeleteRemove(t)
Plays(t)    == AssignObs(t) \/ CutSource(t)
Disables(t) == OffDisable(t) \/ DeleteDisable(t) \/ UnassignObs(t)
Mixes(t)    == OffMute(t) \/ DeleteMute(t) \/ AudioMutePrev(t) \/ AudioUnmute(t) \/ AutoAudioMute(t)
               \/ AutoAudioUnmute(t)

LEMMA ObsOnlyBy ==
    ASSUME NEW t \in Thread, StepOf(t)
    PROVE  \/ UNCHANGED obs
           \/ Creates(t) \/ Removes(t) \/ Plays(t) \/ Disables(t) \/ Mixes(t) \/ VisSet(t)
<1> USE DEF Creates, Removes, Plays, Disables, Mixes
<1>1. CASE SyncFetch(t) \/ SyncStep(t) \/ HiddenStep(t) \/ (t = Ticker /\ RunStart)
  BY <1>1 DEF SyncFetch, SyncStep, SyncFail, SyncReconcile, Prune, HiddenStep, HiddenRegister, RunStart
<1>2. CASE PositionStep(t)
  BY <1>2 DEF PositionStep, CreatePosition, CreateCommit, CreateConflict, RenamePosition, DeletePosition,
     DeleteCommit
<1>3. CASE AssignStep(t)
  BY <1>3 DEF AssignStep, AssignCamera, AssignCommit, UnassignPosition, UnassignCommit, SetAudioPosition,
     AudioCommit
<1>4. CASE SceneStep(t)
  BY <1>4 DEF SceneStep, CreateScene, RenameScene, UpdateScenePositions, DeleteScene
<1>5. CASE LiveStep(t)
  BY <1>5 DEF LiveStep, SetPreviewCamera, SetPreviewScene, Cut, CutRead, VisRead, AutoAudioRead,
     AutoAudioCommit, CutCommit, CutReply
<1> QED
  BY <1>1, <1>2, <1>3, <1>4, <1>5 DEF StepOf

LEMMA ObsAfter ==
    ASSUME TypeInv, ~ObsFaults, NEW t \in Thread, StepOf(t)
    PROVE  /\ VisSet(t) \/ obs'.enabled \subseteq obs.enabled
           /\ obs.enabled \subseteq obs.inputs => obs'.enabled \subseteq obs'.inputs
           /\ HiddenCreateInput(t) =>
                 /\ \A q \in Position : obs'.source[q] = obs.source[q]
                 /\ simple \in obs.inputs => obs' = obs
           /\ CreateObs(t) \/ Removes(t) =>
                 \A q \in AllPos : q # th[t].pos => obs'.source[q] = obs.source[q]
           /\ Plays(t) \/ Creates(t) \/ Removes(t) \/ obs'.source = obs.source
<1>0. /\ obs \in ObsType /\ th[t] \in Frame /\ FrameAt(th[t].pc, th[t])
      /\ Position \subseteq AllPos /\ simple \in AllPos /\ simple \notin Position
      /\ th[t].ids \subseteq AllPos /\ th[t].todo \subseteq AllPos
  BY ObsAssumption DEF TypeInv, TypeOK, TypedFrame, Frame, AllPos
<1>1. /\ At(t, "create_obs") \/ At(t, "create_undo") \/ At(t, "delete_disable") \/ At(t, "delete_mute")
            \/ At(t, "delete_remove") \/ At(t, "assign_obs") \/ At(t, "unassign_obs")
            \/ At(t, "audio_unmute") => th[t].pos \in AllPos
      /\ At(t, "off_mute") => th[t].pos \in AllPos
      /\ At(t, "audio_mute") \/ At(t, "autoaudio_mute") => th[t].prev \in AllPos
      /\ At(t, "assign_obs") \/ At(t, "cut_source") => th[t].sel \in Camera
  BY <1>0 DEF At, FrameAt
<1>2. CASE UNCHANGED obs
  BY <1>2
<1>3. CASE Creates(t)
  <2>1. PICK p \in AllPos, ok \in BOOLEAN :
           /\ CreatePositionInput(p, ok)
           /\ p = IF HiddenCreateInput(t) THEN simple ELSE th[t].pos
    <3>1. CASE HiddenCreateInput(t)
      BY <1>0, <3>1 DEF HiddenCreateInput
    <3>2. CASE CreateObs(t) /\ ~HiddenCreateInput(t)
      BY <1>1, <3>2 DEF CreateObs
    <3> QED
      BY <1>3, <3>1, <3>2 DEF Creates
  <2>2. /\ obs'.enabled \subseteq obs.enabled
        /\ obs'.inputs = obs.inputs \cup {p}
        /\ \A q \in AllPos : q # p => obs'.source[q] = obs.source[q]
        /\ p \in obs.inputs => obs' = obs
    <3>1. CreatePositionInput(p, ok)
      BY <2>1
    <3> QED
      BY <1>0, <3>1, CallsShow, CallsDone
  <2>3. ~(CreateObs(t) /\ HiddenCreateInput(t)) /\ ~(Removes(t) /\ Creates(t))
    BY DEF CreateObs, HiddenCreateInput, Removes, Creates, CreateUndo, DeleteRemove, At
  <2> QED
    BY <1>0, <1>3, <2>1, <2>2, <2>3
<1>4. CASE Removes(t)
  <2>0. th[t].pos \in AllPos
    BY <1>1, <1>4 DEF Removes, CreateUndo, DeleteRemove
  <2>1. PICK ok \in BOOLEAN : RemoveInput(th[t].pos, ok)
    BY <1>4 DEF Removes, CreateUndo, DeleteRemove
  <2>2. /\ obs'.enabled \subseteq obs.enabled
        /\ obs.enabled \subseteq obs.inputs => obs'.enabled \subseteq obs'.inputs
        /\ \A q \in AllPos : q # th[t].pos => obs'.source[q] = obs.source[q]
    <3>1. PICK p \in AllPos : p = th[t].pos /\ RemoveInput(p, ok)
      BY <2>0, <2>1
    <3>2. /\ obs'.enabled \subseteq obs.enabled
          /\ p \in obs.inputs => p \notin obs'.enabled
          /\ obs'.inputs = obs.inputs \ {p}
          /\ \A q \in AllPos : q # p => obs'.source[q] = obs.source[q]
      <4>1. RemoveInput(p, ok)
        BY <3>1
      <4>2. obs'.inputs = obs.inputs \ {p}
        BY <1>0, <4>1, CallsDone
      <4> QED
        BY <1>0, <4>1, <4>2, CallsShow
    <3>3. \A q \in AllPos : q # th[t].pos => obs'.source[q] = obs.source[q]
      BY <3>1, <3>2
    <3> QED
      BY <3>2, <3>3
  <2>3. ~HiddenCreateInput(t)
    BY <1>4 DEF HiddenCreateInput, Removes, CreateUndo, DeleteRemove, At
  <2> QED
    BY <1>4, <2>2, <2>3
<1>5. CASE Plays(t)
  <2>1. \E p \in AllPos, c \in Camera, ok \in BOOLEAN : UpdatePositionSource(p, c, ok)
    BY <1>0, <1>1, <1>5 DEF Plays, AssignObs, CutSource
  <2>2. obs'.enabled = obs.enabled /\ obs'.inputs = obs.inputs
    BY <1>0, <2>1, CallsShow, CallsDone
  <2>3. ~HiddenCreateInput(t) /\ ~CreateObs(t) /\ ~Removes(t)
    BY <1>5 DEF HiddenCreateInput, CreateObs, Removes, CreateUndo, DeleteRemove, Plays, AssignObs,
       CutSource, At
  <2> QED
    BY <1>5, <2>2, <2>3
<1>6. CASE Disables(t) \/ Mixes(t) \/ VisSet(t)
  <2>1. ~Creates(t) /\ ~Removes(t)
    <3>1. /\ Creates(t) \/ Removes(t) => th[t].pc \in {"hidden_obs", "create_obs", "create_undo", "delete_remove"}
          /\ Disables(t) \/ VisSet(t) => th[t].pc \in {"off", "delete_disable", "unassign_obs", "vis_set"}
          /\ Mixes(t) => th[t].pc \in {"off_mute", "delete_mute", "audio_mute", "audio_unmute",
                                       "autoaudio_mute", "autoaudio_unmute"}
      BY DEF Creates, Removes, Disables, Mixes, HiddenCreateInput, CreateObs, CreateUndo, DeleteRemove,
         OffDisable, DeleteDisable, UnassignObs, VisSet, OffMute, DeleteMute, AudioMutePrev, AudioUnmute,
         AutoAudioMute, AutoAudioUnmute, At
    <3> QED
      BY <1>6, <3>1
  <2>2. CASE Disables(t)
    <3>1. \E p \in AllPos, ok \in BOOLEAN : SetPositionEnabled(p, FALSE, ok)
      BY <1>0, <1>1, <2>2 DEF Disables, OffDisable, DeleteDisable, UnassignObs
    <3>2. /\ obs'.source = obs.source /\ obs'.enabled \subseteq obs.enabled /\ obs'.inputs = obs.inputs
      BY <1>0, <3>1, CallsShow, CallsDone
    <3> QED
      BY <2>1, <3>2 DEF Creates
  <2>3. CASE Mixes(t)
    <3>1. \E p \in AllPos, muted, ok \in BOOLEAN : SetInputAudioMuted(p, muted, ok)
      BY <1>0, <1>1, <2>3 DEF Mixes, OffMute, DeleteMute, AudioMutePrev, AudioUnmute, AutoAudioMute,
         AutoAudioUnmute
    <3>2. /\ obs'.source = obs.source /\ obs'.enabled = obs.enabled /\ obs'.inputs = obs.inputs
      BY <1>0, <3>1, CallsShow, CallsDone
    <3> QED
      BY <2>1, <3>2 DEF Creates
  <2>4. CASE VisSet(t)
    <3>1. PICK p \in th[t].todo, ok \in BOOLEAN : SetPositionEnabled(p, p \in th[t].ids, ok)
      BY <2>4 DEF VisSet
    <3>2. /\ obs'.source = obs.source /\ obs'.inputs = obs.inputs
          /\ obs' = obs \/ (p \in obs.inputs /\ obs'.enabled \subseteq obs.enabled \cup {p})
      BY <1>0, <3>1 DEF SetPositionEnabled, Reply, ObsType
    <3> QED
      BY <2>1, <2>4, <3>2 DEF Creates
  <2> QED
    BY <1>6, <2>2, <2>3, <2>4
<1> QED
  BY <1>2, <1>3, <1>4, <1>5, <1>6, ObsOnlyBy

-----------------------------------------------------------------------------
(* What holds of every state.                                              *)

LEMMA StepsNext ==
    ASSUME HealNext
    PROVE  /\ Next
           /\ \/ \E t \in Request : StepOf(t) /\ Note(t)
              \/ (StepOf(Ticker) \/ Environment) /\ UNCHANGED history
BY OrchAssumption DEF HealNext, Step, StepOf, Next, Thread

\* The inputs of the positions, as far as the others are idle.
LEMMA InputsThere ==
    ASSUME Base
    PROVE  /\ simple \in Positions => simple \in obs.inputs
           /\ \A t \in Request : Lone(t) /\ ~At(t, "delete_commit") => Positions \subseteq obs.inputs
           /\ \A t \in Request : Shown /\ Lone(t) /\ th[t].pc \notin CreateLabels => obs.enabled \subseteq Positions
<1>0. /\ \A u \in Thread : FrameAt(th[u].pc, th[u])
      /\ simple \notin Position
      /\ \A p \in Positions \ obs.inputs : \E u \in Thread : th[u].pos = p /\ th[u].pc = "delete_commit"
      /\ \A p \in obs.inputs \ Positions : \/ \E u \in Thread : th[u].pos = p /\ th[u].pc \in CreateLabels
                                           \/ p = simple
      /\ Thread = Request \cup {Ticker}
  BY ObsAssumption DEF Base, TypeInv, TypedFrame, InputsInv, InputsMatchPositions, Pending, CreateLabels, Thread
<1>1. th[Ticker].pc \notin CreateLabels \cup {"delete_commit"}
  BY DEF Base, TickerKept, TickerLabels, CreateLabels
<1>2. simple \in Positions => simple \in obs.inputs
  BY <1>0 DEF FrameAt
<1>3. ASSUME NEW t \in Request, Lone(t)
      PROVE  \A u \in Thread \ {t} : th[u].pc \notin CreateLabels \cup {"delete_commit"}
  BY <1>0, <1>1, <1>3 DEF Lone, At, CreateLabels
<1>4. ASSUME NEW t \in Request, Lone(t), ~At(t, "delete_commit") PROVE Positions \subseteq obs.inputs
  BY <1>0, <1>3, <1>4 DEF At
<1>5. ASSUME NEW t \in Request, Shown, Lone(t), th[t].pc \notin CreateLabels PROVE obs.enabled \subseteq Positions
  BY <1>0, <1>3, <1>5 DEF Shown
<1> QED
  BY <1>2, <1>4, <1>5

\* The steps that change positions, their cameras, the scenes, or what is on air.
LEMMA OnlyBy ==
    ASSUME NEW t \in Thread, StepOf(t)
    PROVE  /\ \/ UNCHANGED posName
              \/ HiddenRegister(t) \/ CreateCommit(t) \/ RenamePosition(t) \/ DeleteCommit(t)
           /\ \/ UNCHANGED cameraID
              \/ SyncReconcile(t) \/ AssignCommit(t) \/ UnassignCommit(t) \/ DeleteCommit(t) \/ CutCommit(t)
           /\ \/ UNCHANGED sceneDef
              \/ CreateScene(t) \/ RenameScene(t) \/ UpdateScenePositions(t) \/ DeleteScene(t)
           /\ UNCHANGED live \/ CutCommit(t)
           /\ UNCHANGED issued \/ CreatePosition(t) \/ CreateScene(t)
<1> USE DEF posVars, liveVars
<1>1. CASE SyncFetch(t) \/ SyncStep(t) \/ HiddenStep(t) \/ (t = Ticker /\ RunStart)
  BY <1>1 DEF SyncFetch, SyncStep, SyncFail, SyncReconcile, OffDisable, OffMute, Prune, HiddenStep,
     HiddenCreateInput, HiddenRegister, RunStart
<1>2. CASE PositionStep(t)
  BY <1>2 DEF PositionStep, CreatePosition, CreateObs, CreateCommit, CreateConflict, CreateUndo,
     RenamePosition, DeletePosition, DeleteDisable, DeleteMute, DeleteRemove, DeleteCommit
<1>3. CASE AssignStep(t)
  BY <1>3 DEF AssignStep, AssignCamera, AssignObs, AssignCommit, UnassignPosition, UnassignObs,
     UnassignCommit, SetAudioPosition, AudioMutePrev, AudioUnmute, AudioCommit
<1>4. CASE SceneStep(t)
  BY <1>4 DEF SceneStep, CreateScene, RenameScene, UpdateScenePositions, DeleteScene
<1>5. CASE LiveStep(t)
  BY <1>5 DEF LiveStep, SetPreviewCamera, SetPreviewScene, Cut, CutRead, CutSource, VisRead, VisSet,
     AutoAudioRead, AutoAudioMute, AutoAudioUnmute, AutoAudioCommit, CutCommit, CutReply
<1> QED
  BY <1>1, <1>2, <1>3, <1>4, <1>5 DEF StepOf

\* Which positions and scenes there are afterwards.
LEMMA PositionsAfter ==
    ASSUME Calm, Base, NEW t \in Thread, StepOf(t)
    PROVE  /\ DeleteCommit(t) \/ Positions \subseteq Positions'
           /\ DeleteCommit(t) => Positions' = Positions \ {th[t].pos} /\ th[t].pos \notin obs.inputs
           /\ HiddenRegister(t) \/ CreateCommit(t) \/ Positions' \subseteq Positions
           /\ HiddenRegister(t) => Positions' \subseteq Positions \cup {simple}
<1>0. /\ posName \in [AllPos -> Name \cup {None, simple}] /\ NamesTyped
      /\ FrameAt(th[t].pc, th[t]) /\ Position \subseteq AllPos /\ simple \in AllPos /\ simple \notin Position
      /\ None \notin Name /\ None # simple
  BY ObsAssumption, OrchAssumption DEF Base, TypeInv, TypeOK, TypedFrame, AllPos
<1>1. CASE UNCHANGED posName
  <2>1. Positions' = Positions
    BY <1>1 DEF Positions
  <2>2. DeleteCommit(t) => th[t].pos \notin Positions
    BY <1>0, <1>1 DEF DeleteCommit, Positions
  <2>3. DeleteCommit(t) => th[t].pos \notin obs.inputs
    BY DEF Base, InputsInv, CallsStand, DeleteCommit, At
  <2> QED
    BY <2>1, <2>2, <2>3
<1>2. CASE HiddenRegister(t)
  <2>1. posName' = [posName EXCEPT ![simple] = simple]
    BY <1>2 DEF HiddenRegister
  <2>2. ~DeleteCommit(t)
    BY <1>2 DEF HiddenRegister, DeleteCommit, At
  <2> QED
    BY <1>0, <1>2, <2>1, <2>2 DEF Positions
<1>3. CASE CreateCommit(t)
  <2>1. ~DeleteCommit(t) /\ ~HiddenRegister(t) /\ th[t].pos \in Position /\ th[t].name \in Name
    BY <1>0, <1>3 DEF CreateCommit, DeleteCommit, HiddenRegister, At, FrameAt
  <2>2. posName' = posName \/ posName' = [posName EXCEPT ![th[t].pos] = th[t].name]
    BY <1>3 DEF CreateCommit
  <2> QED
    BY <1>0, <1>3, <2>1, <2>2 DEF Positions
<1>4. CASE RenamePosition(t)
  <2>1. PICK p \in Positions, n \in Name : posName' = [posName EXCEPT ![p] = n]
    BY <1>4 DEF RenamePosition
  <2>2. Positions' = Positions
    BY <1>0, <2>1 DEF Positions
  <2>3. ~DeleteCommit(t)
    BY <1>4 DEF RenamePosition, DeleteCommit, At, Calls
  <2> QED
    BY <2>2, <2>3
<1>5. CASE DeleteCommit(t)
  <2>1. th[t].pos \notin obs.inputs /\ th[t].pos \in AllPos
    BY <1>0, <1>5 DEF Base, InputsInv, CallsStand, DeleteCommit, At, FrameAt
  <2>2. Positions' = Positions \ {th[t].pos}
    <3>1. CASE th[t].pos \in Positions
      BY <1>0, <1>5, <2>1, <3>1 DEF DeleteCommit, Positions
    <3>2. CASE th[t].pos \notin Positions
      BY <1>5, <3>2 DEF DeleteCommit, Positions
    <3> QED
      BY <3>1, <3>2
  <2>3. ~HiddenRegister(t)
    BY <1>5 DEF HiddenRegister, DeleteCommit, At
  <2> QED
    BY <1>5, <2>1, <2>2, <2>3
<1> QED
  BY <1>1, <1>2, <1>3, <1>4, <1>5, OnlyBy

\* What Cut goes on with.
LEMMA CutPlans ==
    ASSUME TypeInv
    PROVE  \/ CutPlan = Idle
           \/ CutPlan = [Idle EXCEPT !.pc = "cut_ok", !.sel = preview]
           \/ preview \in Camera /\ CutPlan = [Idle EXCEPT !.pc = "cut_source", !.sel = preview, !.ids = {simple}]
           \/ /\ preview \in Scene
              /\ CutPlan = [Idle EXCEPT !.pc = "vis_read", !.sel = preview, !.ids = EnableIDs(preview)]
<1>1. preview \in Camera \cup Scene \cup {None} /\ Camera \cap Scene = {}
      /\ None \notin Camera /\ None \notin Scene
  BY OrchAssumption, ObsAssumption DEF TypeInv, TypeOK, Selection
<1> QED
  BY <1>1 DEF CutPlan

\* Where the visibility loop is afterwards.
LEMMA LoopAfter ==
    ASSUME TypeInv, NEW t \in Thread, StepOf(t), th'[t].pc = "vis_set"
    PROVE  \/ VisRead(t) /\ th'[t].todo = Positions
           \/ VisSet(t) /\ th'[t].todo \subseteq th[t].todo
<1>0. /\ th[t] \in Frame /\ Idle \in Frame
      /\ \A f : Become(t, f) => th'[t] = f
      /\ \A l : Goto(t, l) => th'[t].pc = l
      /\ Return(t) => th'[t].pc = "idle"
      /\ Positions \subseteq AllPos
  BY IdleTyped DEF TypeInv, TypeOK, Become, Goto, Return, Idle, Frame, Positions
<1>1. DoingStep(t)
  BY DoingAfter DEF DoingLabels, VisLabels
<1>2. CASE VisRead(t)
  <2> DEFINE f == [th[t] EXCEPT !.todo = Positions]
  <2>1. f \in Frame /\ f.todo = Positions
    BY <1>0 DEF Frame
  <2>2. th'[t] = VisibilityLoop(f)
    BY <1>0, <1>2 DEF VisRead
  <2> HIDE DEF f
  <2>3. th'[t] = Idle \/ th'[t] = [f EXCEPT !.pc = th'[t].pc]
    BY <2>1, <2>2, LoopFrame
  <2> QED
    BY <1>0, <1>2, <2>1, <2>3 DEF Idle, Frame
<1>3. CASE VisSet(t)
  <2>1. PICK p \in th[t].todo : \/ Become(t, VisibilityLoop([th[t] EXCEPT !.todo = @ \ {p}]))
                                \/ Return(t)
    BY <1>3 DEF VisSet
  <2> DEFINE f == [th[t] EXCEPT !.todo = @ \ {p}]
  <2>2. f \in Frame /\ f.todo \subseteq th[t].todo
    BY <1>0 DEF Frame
  <2>3. th'[t] = VisibilityLoop(f)
    BY <1>0, <2>1
  <2> HIDE DEF f
  <2>4. th'[t] = Idle \/ th'[t] = [f EXCEPT !.pc = th'[t].pc]
    BY <2>2, <2>3, LoopFrame
  <2> QED
    BY <1>0, <1>3, <2>2, <2>4 DEF Idle, Frame
<1>4. CASE UpdateScenePositions(t)
  <2>1. At(t, "idle") /\ (th' = th \/ \E ids : Become(t, [Idle EXCEPT !.pc = "vis_read", !.ids = ids]))
    BY <1>4 DEF UpdateScenePositions, Calls
  <2>2. th'[t].pc \in {"idle", "vis_read"}
    BY <1>0, <2>1 DEF At, Idle
  <2> QED
    BY <2>2
<1>5. CASE CutRead(t)
  <2>1. th'[t] = CutPlan
    BY <1>0, <1>5 DEF CutRead
  <2>2. CutPlan.pc \in {"idle", "cut_ok", "cut_source", "vis_read"}
    <3>1. /\ Idle.pc = "idle"
          /\ [Idle EXCEPT !.pc = "cut_ok", !.sel = preview].pc = "cut_ok"
          /\ [Idle EXCEPT !.pc = "cut_source", !.sel = preview, !.ids = {simple}].pc = "cut_source"
          /\ [Idle EXCEPT !.pc = "vis_read", !.sel = preview, !.ids = EnableIDs(preview)].pc = "vis_read"
      BY DEF Idle
    <3> QED
      BY <3>1, CutPlans
  <2> QED
    BY <2>1, <2>2
<1>6. CASE AssignCommit(t)
  <2>1. CASE Return(t)
    BY <1>0, <2>1
  <2>2. CASE \E f \in Frame : Become(t, Rest(f))
    <3>1. PICK f \in Frame : th'[t] = Rest(f)
      BY <1>0, <2>2
    <3> QED
      BY <3>1, RestFrame
  <2>3. Return(t) \/ \E f \in Frame : Become(t, Rest(f))
    <3>1. \A b \in SUBSET AllPos : [Idle EXCEPT !.ids = b, !.todo = b \cap isAudio] \in Frame
      BY <1>0 DEF Frame
    <3>2. Bumped(th[t].pos, th[t].sel) \subseteq SUBSET AllPos
      BY DEF Bumped, Holders, Positions
    <3> QED
      BY <1>6, <3>1, <3>2 DEF AssignCommit
  <2> QED
    BY <2>1, <2>2, <2>3
<1>7. CASE CutCommit(t)
  <2>1. th'[t] = [Idle EXCEPT !.pc = "cut_ok", !.sel = th[t].sel]
    BY <1>0, <1>7 DEF CutCommit
  <2>2. th'[t].pc = "cut_ok"
    BY <2>1 DEF Idle
  <2> QED
    BY <2>2
<1>8. CASE AutoAudioRead(t)
  <2>1. th'[t].pc \in {"autoaudio_mute", "autoaudio_unmute"}
    <3>1. PICK l \in {"autoaudio_mute", "autoaudio_unmute"} :
             th'[t] = [th[t] EXCEPT !.prev = audioPositionID, !.pc = l]
      BY <1>0, <1>8 DEF AutoAudioRead
    <3> QED
      BY <1>0, <3>1 DEF Frame
  <2> QED
    BY <2>1
<1>9. CASE CutSource(t) \/ AutoAudioMute(t) \/ AutoAudioUnmute(t) \/ AutoAudioCommit(t)
           \/ AssignObs(t) \/ DeleteRemove(t) \/ DeleteCommit(t)
  <2>1. Return(t) \/ \E l \in {"vis_read", "autoaudio_unmute", "autoaudio_commit", "cut_commit",
                               "assign_commit", "delete_commit"} : Goto(t, l)
    BY <1>9 DEF CutSource, AutoAudioMute, AutoAudioUnmute, AutoAudioCommit, AssignObs, DeleteRemove,
       DeleteCommit
  <2> QED
    BY <1>0, <2>1
<1> QED
  BY <1>1, <1>2, <1>3, <1>4, <1>5, <1>6, <1>7, <1>8, <1>9 DEF DoingStep

\* What an idle request that calls UpdateScenePositions does.
LEMMA UpdateAfter ==
    ASSUME Calm, TypeInv, NEW t \in Thread, UpdateScenePositions(t)
    PROVE  \E s \in Scenes, ids \in PublicIDs :
              /\ sceneDef' = [sceneDef EXCEPT ![s].ids = ids]
              /\ IF live = s THEN /\ th'[t] = [Idle EXCEPT !.pc = "vis_read", !.ids = ids]
                                  /\ th'[t].pc = "vis_read" /\ th'[t].sel = None /\ th'[t].ids = ids
                             ELSE th' = th
              /\ UNCHANGED <<obs, posName, cameraID, live>>
<1>1. PICK s \in Scenes, ids \in PublicIDs :
         /\ sceneDef' = [sceneDef EXCEPT ![s].ids = ids]
         /\ IF live = s THEN Become(t, [Idle EXCEPT !.pc = "vis_read", !.ids = ids])
                        ELSE UNCHANGED th
  BY DEF UpdateScenePositions, SaveResult, Calm
<1>2. live = s => th'[t] = [Idle EXCEPT !.pc = "vis_read", !.ids = ids]
  BY <1>1 DEF Become, TypeInv, TypeOK
<1>3. live = s => th'[t].pc = "vis_read" /\ th'[t].sel = None /\ th'[t].ids = ids
  BY <1>2 DEF Idle
<1>4. UNCHANGED <<obs, posName, cameraID, live>>
  BY DEF UpdateScenePositions, posVars, liveVars
<1> QED
  BY <1>1, <1>2, <1>3, <1>4

\* The scene on air loses no position but by UpdateScenePositions.
LEMMA LiveIds ==
    ASSUME Calm, Base, Shown, NEW t \in Thread, StepOf(t), live \in Scene
    PROVE  \/ sceneDef[live].ids \subseteq sceneDef'[live].ids
           \/ UpdateScenePositions(t) /\ th'[t].pc = "vis_read" /\ th'[t].sel = None
<1>0. sceneDef \in [Scene -> SceneDef \cup {NoScene}] /\ TypeInv
  BY DEF Base, TypeInv, TypeOK
<1>1. CASE UNCHANGED sceneDef
  BY <1>1
<1>2. CASE CreateScene(t)
  <2>1. PICK s \in Scene \ issued, n \in Name, ids \in PublicIDs :
           sceneDef' = [sceneDef EXCEPT ![s] = [name |-> n, ids |-> ids]] \/ sceneDef' = sceneDef
    BY <1>2 DEF CreateScene
  <2>2. CASE s = live
    <3>1. sceneDef[live] = NoScene
      BY <2>2 DEF Shown, Scenes
    <3> QED
      BY <3>1 DEF NoScene
  <2>3. CASE s # live
    BY <1>0, <2>1, <2>3
  <2> QED
    BY <2>2, <2>3
<1>3. CASE RenameScene(t)
  <2>1. PICK s \in Scenes, n \in Name : sceneDef' = [sceneDef EXCEPT ![s].name = n]
    BY <1>3 DEF RenameScene
  <2>2. sceneDef[s] \in SceneDef /\ s \in Scene
    BY <1>0 DEF Scenes
  <2> QED
    BY <1>0, <2>1, <2>2 DEF SceneDef
<1>4. CASE DeleteScene(t)
  <2>1. PICK s \in Scenes : live # s /\ sceneDef' = [sceneDef EXCEPT ![s] = NoScene]
    BY <1>4 DEF DeleteScene
  <2> QED
    BY <1>0, <2>1
<1>5. CASE UpdateScenePositions(t)
  <2>1. PICK s \in Scenes, ids \in PublicIDs :
           /\ sceneDef' = [sceneDef EXCEPT ![s].ids = ids]
           /\ live = s => th'[t].pc = "vis_read" /\ th'[t].sel = None
    BY <1>0, <1>5, UpdateAfter
  <2> QED
    BY <1>0, <1>5, <2>1
<1> QED
  BY <1>1, <1>2, <1>3, <1>4, <1>5, OnlyBy

\* What is visible still belongs to what is on air.
LEMMA MatchesKept ==
    ASSUME Calm, Base, Shown, NEW t \in Thread, StepOf(t), ~VisSet(t), ~CutCommit(t), Matches
    PROVE  Matches' \/ (UpdateScenePositions(t) /\ th'[t].pc = "vis_read" /\ th'[t].sel = None)
<1>1. live' = live
  BY OnlyBy
<1>2. obs'.enabled \subseteq obs.enabled /\ obs'.enabled \subseteq obs'.inputs
  BY ObsAfter DEF Base, Calm, Shown
<1>3. CASE live = None
  BY <1>1, <1>3 DEF Matches
<1>4. CASE live \in Camera
  <2>1. None \notin Camera
    BY ObsAssumption
  <2> QED
    BY <1>1, <1>2, <1>4, <2>1 DEF Matches, OnAir
<1>5. CASE live \in Scene
  <2>1. live \notin Camera /\ live # None
    BY <1>5, OrchAssumption
  <2>2. obs.enabled \subseteq (sceneDef[live].ids \cap Positions) \ {simple}
    BY <2>1 DEF Matches, OnAir, EnableIDs
  <2>3. CASE sceneDef[live].ids \subseteq sceneDef'[live].ids
    <3>1. obs'.enabled \subseteq Positions'
      <4>1. CASE Positions \subseteq Positions'
        BY <1>2, <2>2, <4>1
      <4>2. CASE DeleteCommit(t)
        <5>1. Positions' = Positions \ {th[t].pos} /\ th[t].pos \notin obs.inputs
          BY <4>2, PositionsAfter
        <5>2. obs'.enabled \subseteq obs.inputs
          BY <1>2 DEF Shown
        <5> QED
          BY <1>2, <2>2, <5>1, <5>2
      <4> QED
        BY <4>1, <4>2, PositionsAfter
    <3> QED
      BY <1>1, <1>2, <2>1, <2>2, <2>3, <3>1 DEF Matches, OnAir, EnableIDs
  <2> QED
    BY <1>5, <2>3, LiveIds
<1> QED
  BY <1>3, <1>4, <1>5 DEF Base, TypeInv, TypeOK, Selection

LEMMA ShownStep ==
    ASSUME Calm, Base, Shown, Next
    PROVE  Shown'
<1>0. /\ \A u \in Thread : th[u] \in Frame
      /\ sceneDef \in [Scene -> SceneDef \cup {NoScene}] /\ TypeInv
      /\ simple \in Positions => simple \in Positions'
      /\ Thread = Request \cup {Ticker}
  BY HiddenStays DEF Base, TypeInv, TypeOK, Calm, Restart, Thread
<1>1. ASSUME NEW t \in Thread, StepOf(t) PROVE Shown'
  <2>1. obs'.enabled \subseteq obs'.inputs
    BY <1>0, <1>1, ObsAfter DEF Calm, Shown
  <2>2. simple \in obs'.enabled => simple \in Positions'
    <3>1. CASE ~VisSet(t)
      BY <1>0, <1>1, <3>1, ObsAfter DEF Calm, Shown
    <3>2. CASE VisSet(t)
      <4>1. PICK p \in th[t].todo, ok \in BOOLEAN : SetPositionEnabled(p, p \in th[t].ids, ok)
        BY <3>2 DEF VisSet
      <4>2. obs'.enabled \subseteq obs.enabled \cup {p}
        BY <1>0, <4>1 DEF SetPositionEnabled, Reply, ObsType, TypeInv, TypeOK
      <4>3. At(t, "vis_set")
        BY <3>2 DEF VisSet
      <4> QED
        BY <1>0, <4>1, <4>2, <4>3 DEF Shown
    <3> QED
      BY <3>1, <3>2
  <2>3. \A u \in Thread : th'[u].pc = "vis_set" /\ simple \in th'[u].todo => simple \in Positions'
    <3>1. ASSUME NEW u \in Thread \ {t}, th'[u].pc = "vis_set", simple \in th'[u].todo
          PROVE  simple \in Positions'
      <4>1. th'[u] = th[u]
        BY <1>0, <1>1, <3>1, OthersStay
      <4> QED
        BY <1>0, <3>1, <4>1 DEF Shown, At
    <3>2. ASSUME th'[t].pc = "vis_set", simple \in th'[t].todo PROVE simple \in Positions'
      <4>1. CASE VisRead(t) /\ th'[t].todo = Positions
        BY <1>0, <3>2, <4>1
      <4>2. CASE VisSet(t) /\ th'[t].todo \subseteq th[t].todo
        BY <1>0, <3>2, <4>2 DEF VisSet, Shown
      <4> QED
        BY <1>0, <1>1, <3>2, <4>1, <4>2, LoopAfter
    <3> QED
      BY <3>1, <3>2
  <2>4. Scenes' \subseteq issued'
    <3>1. issued \subseteq issued'
      BY <1>1, OnlyBy DEF CreatePosition, CreateScene
    <3>2. CASE CreateScene(t)
      <4>1. PICK s \in Scene \ issued, n \in Name, ids \in PublicIDs :
               /\ sceneDef' = [sceneDef EXCEPT ![s] = [name |-> n, ids |-> ids]] \/ sceneDef' = sceneDef
               /\ issued' = issued \cup {s}
        BY <3>2 DEF CreateScene
      <4> QED
        BY <1>0, <4>1 DEF Shown, Scenes
    <3>3. CASE ~CreateScene(t)
      <4>1. Scenes' \subseteq Scenes
        <5>1. CASE UNCHANGED sceneDef
          BY <5>1 DEF Scenes
        <5>2. CASE RenameScene(t) \/ UpdateScenePositions(t)
          <6>1. \E s \in Scenes : \A r \in Scene \ {s} : sceneDef'[r] = sceneDef[r]
            BY <1>0, <5>2 DEF RenameScene, UpdateScenePositions
          <6> QED
            BY <6>1 DEF Scenes
        <5>3. CASE DeleteScene(t)
          BY <1>0, <5>3 DEF DeleteScene, Scenes
        <5> QED
          BY <1>1, <3>3, <5>1, <5>2, <5>3, OnlyBy
      <4> QED
        BY <3>1, <4>1 DEF Shown
    <3> QED
      BY <3>2, <3>3
  <2> QED
    BY <2>1, <2>2, <2>3, <2>4 DEF Shown, At
<1>2. CASE Environment
  <2>1. UNCHANGED <<obs, th, posName, sceneDef, issued>>
    BY <1>2 DEF Environment, MediaChange, StreamChange, Expire, Calm, Restart, posVars
  <2> QED
    BY <2>1 DEF Shown, At, Positions, Scenes
<1> QED
  BY <1>1, <1>2, StepsOf

\* A thread that stays in its frame, at another label.
LEMMA Moved ==
    ASSUME TypeInv, NEW t \in Thread, NEW l \in Pcs, Goto(t, l)
    PROVE  /\ th'[t].pc = l /\ th'[t].pos = th[t].pos /\ th'[t].sel = th[t].sel
           /\ th'[t].ids = th[t].ids /\ th'[t].todo = th[t].todo
BY DEF TypeInv, TypeOK, Goto, Become, Frame

LEMMA Returned ==
    ASSUME TypeInv, NEW t \in Thread, Return(t)
    PROVE  th'[t].pc = "idle"
BY DEF TypeInv, TypeOK, Return, Become, Idle

\* A source is set, and the frame goes on with it, or nothing happens.
LEMMA PlaysAfter ==
    ASSUME Calm, TypeInv, NEW t \in Thread
    PROVE  /\ AssignObs(t) =>
                 \/ obs' = obs /\ th'[t].pc = "idle"
                 \/ /\ obs'.source = [obs.source EXCEPT ![th[t].pos] = th[t].sel]
                    /\ th'[t].pc = "assign_commit" /\ th'[t].pos = th[t].pos /\ th'[t].sel = th[t].sel
           /\ CutSource(t) =>
                 \/ obs' = obs /\ th'[t].pc = "idle"
                 \/ /\ obs'.source = [obs.source EXCEPT ![simple] = th[t].sel]
                    /\ th'[t].pc = "vis_read" /\ th'[t].sel = th[t].sel /\ th'[t].ids = th[t].ids
<1>0. /\ obs \in ObsType /\ FrameAt(th[t].pc, th[t]) /\ ~ObsFaults
      /\ Position \subseteq AllPos /\ simple \in AllPos
      /\ "assign_commit" \in Pcs /\ "vis_read" \in Pcs
  BY DEF Calm, TypeInv, TypeOK, TypedFrame, AllPos, Pcs
<1>1. ASSUME NEW p \in AllPos, NEW c \in Camera, NEW ok \in BOOLEAN, UpdatePositionSource(p, c, ok)
      PROVE  IF ok THEN obs'.source = [obs.source EXCEPT ![p] = c] ELSE obs' = obs
  BY <1>0, <1>1, CallsShow
<1>2. ASSUME AssignObs(t)
      PROVE  \/ obs' = obs /\ th'[t].pc = "idle"
             \/ /\ obs'.source = [obs.source EXCEPT ![th[t].pos] = th[t].sel]
                /\ th'[t].pc = "assign_commit" /\ th'[t].pos = th[t].pos /\ th'[t].sel = th[t].sel
  <2>1. PICK p \in AllPos, c \in Camera : p = th[t].pos /\ c = th[t].sel
    BY <1>0, <1>2 DEF AssignObs, At, FrameAt
  <2>2. PICK ok \in BOOLEAN : /\ UpdatePositionSource(p, c, ok)
                              /\ IF ok THEN Goto(t, "assign_commit") ELSE Return(t)
    BY <1>2, <2>1 DEF AssignObs
  <2>3. IF ok THEN obs'.source = [obs.source EXCEPT ![p] = c] ELSE obs' = obs
    <3>1. UpdatePositionSource(p, c, ok)
      BY <2>2
    <3> QED
      BY <1>1, <3>1
  <2> QED
    BY <1>0, <2>1, <2>2, <2>3, Moved, Returned
<1>3. ASSUME CutSource(t)
      PROVE  \/ obs' = obs /\ th'[t].pc = "idle"
             \/ /\ obs'.source = [obs.source EXCEPT ![simple] = th[t].sel]
                /\ th'[t].pc = "vis_read" /\ th'[t].sel = th[t].sel /\ th'[t].ids = th[t].ids
  <2>1. PICK c \in Camera : c = th[t].sel
    BY <1>0, <1>3 DEF CutSource, At, FrameAt
  <2>2. PICK ok \in BOOLEAN : /\ UpdatePositionSource(simple, c, ok)
                              /\ IF ok THEN Goto(t, "vis_read") ELSE Return(t)
    BY <1>3, <2>1 DEF CutSource
  <2>3. IF ok THEN obs'.source = [obs.source EXCEPT ![simple] = c] ELSE obs' = obs
    <3>1. UpdatePositionSource(simple, c, ok)
      BY <2>2
    <3> QED
      BY <1>0, <1>1, <3>1
  <2> QED
    BY <1>0, <2>1, <2>2, <2>3, Moved, Returned
<1> QED
  BY <1>2, <1>3

\* A camera leaves its position, if anything, but by the two commits.
LEMMA CamerasOnlyLeave ==
    ASSUME TypeInv, NEW t \in Thread, StepOf(t), ~AssignCommit(t), ~CutCommit(t), NEW p \in AllPos
    PROVE  cameraID'[p] \in {cameraID[p], None}
<1>0. cameraID \in [AllPos -> Camera \cup {None}]
  BY DEF TypeInv, TypeOK
<1> QED
  BY <1>0, OnlyBy DEF SyncReconcile, UnassignCommit, DeleteCommit

\* The input of a position goes on playing its camera.
LEMMA PlayingKept ==
    ASSUME Calm, Base, NEW t \in Thread, StepOf(t), ~AssignCommit(t), ~CutCommit(t),
           NEW p \in AllPos, Playing(p)
    PROVE  Playing(p)' \/ Busy(t, p)'
<1>0. /\ obs \in ObsType /\ TypeInv /\ ~ObsFaults
      /\ FrameAt(th[t].pc, th[t]) /\ Position \subseteq AllPos /\ simple \in AllPos /\ simple \notin Position
  BY ObsAssumption DEF Calm, Base, TypeInv, TypeOK, TypedFrame, AllPos
<1>1. cameraID'[p] \in {cameraID[p], None}
  BY <1>0, CamerasOnlyLeave
<1>2. p \notin Positions => cameraID[p] = None
  BY DEF Base, ExclusiveInv, CamerasInPositions
<1>3. CASE obs'.source[p] = obs.source[p] \/ p \notin Positions
  BY <1>1, <1>2, <1>3 DEF Playing
<1>4. CASE AssignObs(t)
  <2>1. CASE obs' = obs
    BY <1>3, <2>1
  <2>2. CASE /\ obs'.source = [obs.source EXCEPT ![th[t].pos] = th[t].sel]
             /\ th'[t].pc = "assign_commit" /\ th'[t].pos = th[t].pos
    <3>1. CASE p = th[t].pos
      BY <2>2, <3>1 DEF Busy, At
    <3>2. CASE p # th[t].pos
      BY <1>0, <1>3, <2>2, <3>2 DEF ObsType
    <3> QED
      BY <3>1, <3>2
  <2> QED
    BY <1>0, <1>4, <2>1, <2>2, PlaysAfter
<1>5. CASE CutSource(t)
  <2>0. th[t].sel \in Camera
    BY <1>0, <1>5 DEF CutSource, At, FrameAt
  <2>1. CASE obs' = obs
    BY <1>3, <2>1
  <2>2. CASE /\ obs'.source = [obs.source EXCEPT ![simple] = th[t].sel]
             /\ th'[t].pc = "vis_read" /\ th'[t].sel = th[t].sel
    <3>1. CASE p = simple
      BY <2>0, <2>2, <3>1 DEF Busy, VisLabels
    <3>2. CASE p # simple
      BY <1>0, <1>3, <2>2, <3>2 DEF ObsType
    <3> QED
      BY <3>1, <3>2
  <2> QED
    BY <1>0, <1>5, <2>1, <2>2, PlaysAfter
<1>6. CASE HiddenCreateInput(t)
  <2>1. \A q \in Position : obs'.source[q] = obs.source[q]
    BY <1>0, <1>6, ObsAfter
  <2>2. simple \in obs.inputs => obs' = obs
    BY <1>0, <1>6, ObsAfter
  <2>3. simple \in Positions => simple \in obs.inputs
    BY InputsThere
  <2> QED
    BY <1>3, <2>1, <2>2, <2>3 DEF AllPos
<1>7. CASE CreateObs(t) \/ CreateUndo(t)
  <2>1. th[t].pos \notin Positions
    BY <1>7 DEF CreateObs, CreateUndo, At, Base, InputsInv, CreatorsAlone, CreateLabels
  <2>2. p # th[t].pos => obs'.source[p] = obs.source[p]
    BY <1>0, <1>7, ObsAfter DEF Removes
  <2> QED
    BY <1>3, <2>1, <2>2
<1>8. CASE DeleteRemove(t)
  <2>1. p # th[t].pos => obs'.source[p] = obs.source[p]
    BY <1>0, <1>8, ObsAfter DEF Removes
  <2>2. th'[t].pc = "delete_commit" /\ th'[t].pos = th[t].pos
    BY <1>0, <1>8, Moved DEF DeleteRemove, Pcs
  <2> QED
    BY <1>3, <2>1, <2>2 DEF Busy, At
<1>9. CASE ~Plays(t) /\ ~Creates(t) /\ ~Removes(t)
  BY <1>0, <1>3, <1>9, ObsAfter
<1> QED
  BY <1>4, <1>5, <1>6, <1>7, <1>8, <1>9 DEF Plays, Creates, Removes

-----------------------------------------------------------------------------
(* An operation alone.                                                     *)

LEMMA TargetKept ==
    ASSUME NEW t, Target(t), th'[t].sel = th[t].sel, th'[t].ids = th[t].ids,
           UNCHANGED <<posName, sceneDef, live>>, obs'.source = obs.source
    PROVE  Target(t)'
BY DEF Target, EnableIDs, Positions

\* Where the loop goes on from frame f, with OBS showing S.
LEMMA Onward ==
    ASSUME NEW f \in Frame, NEW S, S \subseteq f.ids \cup f.todo
    PROVE  LET g == VisibilityLoop(f) IN
           \/ /\ g.pc \in {"vis_set", "autoaudio_read", "cut_commit"}
              /\ g.sel = f.sel /\ g.ids = f.ids /\ g.todo = f.todo
              /\ g.pc # "vis_set" => S \subseteq f.ids /\ f.sel # None
           \/ g.pc = "idle" /\ f.sel = None /\ S \subseteq f.ids
<1> DEFINE g == VisibilityLoop(f)
<1>1. None \notin Camera /\ None \notin Scene
  BY ObsAssumption, OrchAssumption
<1>2. CASE g = Idle /\ f.todo = {} /\ f.sel = None
  <2>1. g.pc = "idle"
    BY <1>2 DEF Idle
  <2> QED
    BY <1>2, <2>1
<1>3. CASE /\ g = [f EXCEPT !.pc = g.pc]
           /\ \/ f.todo # {} /\ g.pc = "vis_set"
              \/ f.todo = {} /\ f.sel \in Camera /\ g.pc = "autoaudio_read"
              \/ f.todo = {} /\ f.sel \in Scene /\ g.pc = "cut_commit"
  <2>1. g.sel = f.sel /\ g.ids = f.ids /\ g.todo = f.todo
    BY <1>3 DEF Frame
  <2> HIDE DEF g
  <2>2. \/ g.pc = "vis_set"
        \/ g.pc \in {"autoaudio_read", "cut_commit"} /\ f.todo = {} /\ f.sel # None
    BY <1>1, <1>3
  <2>3. g.pc # "vis_set" => S \subseteq f.ids /\ f.sel # None
    BY <2>2
  <2> USE DEF g
  <2> QED
    BY <2>1, <2>2, <2>3
<1> QED
  BY <1>2, <1>3, LoopFrame

\* One step of the visibility loop: it never fails, and leaves visible what is in ids
\* or still to come.
LEMMA VisAfter ==
    ASSUME Calm, Base, Shown, NEW t \in Request, Lone(t), Doing(t), VisRead(t) \/ VisSet(t)
    PROVE  /\ obs'.source = obs.source
           /\ \/ /\ th'[t].pc \in {"vis_set", "autoaudio_read", "cut_commit"}
                 /\ th'[t].sel = th[t].sel /\ th'[t].ids = th[t].ids
                 /\ th'[t].todo \subseteq Positions
                 /\ obs'.enabled \subseteq th[t].ids \cup th'[t].todo
                 /\ th'[t].pc # "vis_set" => obs'.enabled \subseteq th[t].ids /\ th[t].sel # None
              \/ th'[t].pc = "idle" /\ th[t].sel = None /\ obs'.enabled \subseteq th[t].ids
<1>0. /\ t \in Thread /\ th[t] \in Frame /\ obs \in ObsType /\ ~ObsFaults
      /\ \A f : Become(t, f) => th'[t] = f
      /\ th[t].pc \in {"vis_read", "vis_set"}
  BY DEF Calm, Base, TypeInv, TypeOK, Thread, Become, VisRead, VisSet, At
<1>1. Positions \subseteq obs.inputs /\ obs.enabled \subseteq Positions /\ Positions \subseteq AllPos
  <2>1. ~At(t, "delete_commit") /\ th[t].pc \notin CreateLabels
    BY <1>0 DEF At, CreateLabels
  <2> QED
    BY <2>1, InputsThere DEF Positions
<1>2. \E f \in Frame : /\ th'[t] = VisibilityLoop(f)
                       /\ f.sel = th[t].sel /\ f.ids = th[t].ids /\ f.todo \subseteq Positions
                       /\ obs'.source = obs.source
                       /\ obs'.enabled \subseteq f.ids \cup f.todo
  <2>1. CASE VisRead(t)
    <3> DEFINE f == [th[t] EXCEPT !.todo = Positions]
    <3>1. f \in Frame /\ f.sel = th[t].sel /\ f.ids = th[t].ids /\ f.todo = Positions
      BY <1>0, <1>1 DEF Frame
    <3>2. th'[t] = VisibilityLoop(f) /\ obs' = obs
      BY <1>0, <2>1 DEF VisRead
    <3> HIDE DEF f
    <3> QED
      BY <1>1, <3>1, <3>2
  <2>2. CASE VisSet(t)
    <3>0. /\ th[t].todo \subseteq Positions
          /\ obs.enabled \subseteq th[t].ids \cup th[t].todo
      BY <2>2 DEF Doing, VisSet
    <3>1. PICK p \in th[t].todo, ok \in BOOLEAN :
             /\ SetPositionEnabled(p, p \in th[t].ids, ok)
             /\ IF ok THEN Become(t, VisibilityLoop([th[t] EXCEPT !.todo = @ \ {p}])) ELSE Return(t)
      BY <2>2 DEF VisSet
    <3>2. p \in obs.inputs
      BY <1>1, <3>0
    <3>3. /\ ok = TRUE /\ obs'.source = obs.source
          /\ obs'.enabled = IF p \in th[t].ids THEN obs.enabled \cup {p} ELSE obs.enabled \ {p}
      BY <1>0, <3>1, <3>2 DEF SetPositionEnabled, Reply, ObsType
    <3> DEFINE f == [th[t] EXCEPT !.todo = @ \ {p}]
    <3>4. f \in Frame /\ f.sel = th[t].sel /\ f.ids = th[t].ids /\ f.todo = th[t].todo \ {p}
      BY <1>0 DEF Frame
    <3>5. th'[t] = VisibilityLoop(f)
      BY <1>0, <3>1, <3>3
    <3> HIDE DEF f
    <3>6. obs'.enabled \subseteq f.ids \cup f.todo
      BY <3>0, <3>3, <3>4
    <3> QED
      BY <3>0, <3>3, <3>4, <3>5, <3>6
  <2> QED
    BY <2>1, <2>2
<1>3. PICK f \in Frame : /\ th'[t] = VisibilityLoop(f)
                         /\ f.sel = th[t].sel /\ f.ids = th[t].ids /\ f.todo \subseteq Positions
                         /\ obs'.source = obs.source
                         /\ obs'.enabled \subseteq f.ids \cup f.todo
  BY <1>2
<1>4. \/ /\ th'[t].pc \in {"vis_set", "autoaudio_read", "cut_commit"}
         /\ th'[t].sel = f.sel /\ th'[t].ids = f.ids /\ th'[t].todo = f.todo
         /\ th'[t].pc # "vis_set" => obs'.enabled \subseteq f.ids /\ f.sel # None
      \/ th'[t].pc = "idle" /\ f.sel = None /\ obs'.enabled \subseteq f.ids
  <2>1. PICK S : S = obs'.enabled
    OBVIOUS
  <2>2. S \subseteq f.ids \cup f.todo
    BY <1>3, <2>1
  <2> QED
    BY <1>3, <2>1, <2>2, Onward
<1> QED
  BY <1>3, <1>4

\* The audio steps of a Cut to a camera.
AudioStepOf(t) == AutoAudioRead(t) \/ AutoAudioMute(t) \/ AutoAudioUnmute(t) \/ AutoAudioCommit(t)

LEMMA AudioAfter ==
    ASSUME Calm, Base, NEW t \in Thread, AudioStepOf(t)
    PROVE  /\ obs'.source = obs.source /\ obs'.enabled \subseteq obs.enabled
           /\ th'[t].pc \in AudioSteps \cup {"cut_commit"}
           /\ th'[t].sel = th[t].sel /\ th'[t].ids = th[t].ids
           /\ th[t].pc \in AudioSteps
           /\ UNCHANGED <<posName, cameraID, sceneDef, live>>
<1>0. th[t] \in Frame /\ th \in [Thread -> Frame] /\ TypeInv /\ StepOf(t) /\ ~ObsFaults
  BY DEF Base, TypeInv, TypeOK, StepOf, LiveStep, AudioStepOf, Calm
<1>1. th[t].pc \in AudioSteps /\ UNCHANGED <<posName, cameraID, sceneDef, live>>
  BY DEF AudioStepOf, AutoAudioRead, AutoAudioMute, AutoAudioUnmute, AutoAudioCommit, AudioSteps, At,
     posVars, liveVars
<1>2. obs'.source = obs.source /\ obs'.enabled \subseteq obs.enabled
  <2>1. ~VisSet(t) /\ ~Plays(t) /\ ~Creates(t) /\ ~Removes(t)
    BY <1>1 DEF VisSet, Plays, AssignObs, CutSource, Creates, HiddenCreateInput, CreateObs, Removes,
       CreateUndo, DeleteRemove, AudioSteps, At
  <2> QED
    BY <1>0, <2>1, ObsAfter
<1>3. th'[t].pc \in AudioSteps \cup {"cut_commit"} /\ th'[t].sel = th[t].sel /\ th'[t].ids = th[t].ids
  <2>1. CASE AutoAudioRead(t)
    <3>1. PICK l \in {"autoaudio_mute", "autoaudio_unmute"} :
             th'[t] = [th[t] EXCEPT !.prev = audioPositionID, !.pc = l]
      BY <1>0, <2>1 DEF AutoAudioRead, Become
    <3> QED
      BY <1>0, <3>1 DEF Frame, AudioSteps
  <2>2. CASE AutoAudioMute(t) \/ AutoAudioUnmute(t) \/ AutoAudioCommit(t)
    <3>1. \E l \in {"autoaudio_unmute", "autoaudio_commit", "cut_commit"} : Goto(t, l)
      BY <2>2 DEF AutoAudioMute, AutoAudioUnmute, AutoAudioCommit
    <3>2. {"autoaudio_unmute", "autoaudio_commit", "cut_commit"} \subseteq Pcs \cap (AudioSteps \cup {"cut_commit"})
      BY DEF Pcs, AudioSteps
    <3> QED
      BY <1>0, <3>1, <3>2, Moved
  <2> QED
    BY <2>1, <2>2 DEF AudioStepOf
<1> QED
  BY <1>1, <1>2, <1>3

\* How far t has come, after its next step.
LEMMA DoingKept ==
    ASSUME Calm, Base, Shown, NEW t \in Request, StepOf(t), Lone(t), Doing(t)
    PROVE  Doing(t)'
<1>0. /\ t \in Thread /\ th[t] \in Frame /\ TypeInv /\ FrameAt(th[t].pc, th[t])
      /\ \A f : Become(t, f) => th'[t] = f
      /\ simple \in AllPos /\ obs \in ObsType
  BY DEF Base, TypeInv, TypeOK, TypedFrame, Thread, Become, AllPos
<1>1. ASSUME th'[t].pc \in Pcs \ (VisLabels \cup {"cut_source", "assign_commit"}) PROVE Doing(t)'
  BY <1>1 DEF Doing, VisLabels, AudioSteps, At
<1>2. CASE ~DoingStep(t)
  <2>1. th'[t].pc \notin DoingLabels
    BY <1>0, <1>2, DoingAfter
  <2> QED
    BY <2>1 DEF Doing, DoingLabels, VisLabels, AudioSteps, At
<1>3. CASE UpdateScenePositions(t)
  <2>1. PICK s \in Scenes, ids \in PublicIDs :
           /\ sceneDef' = [sceneDef EXCEPT ![s].ids = ids]
           /\ IF live = s THEN /\ th'[t] = [Idle EXCEPT !.pc = "vis_read", !.ids = ids]
                               /\ th'[t].pc = "vis_read" /\ th'[t].sel = None /\ th'[t].ids = ids
                          ELSE th' = th
           /\ UNCHANGED <<obs, posName, cameraID, live>>
    BY <1>0, <1>3, UpdateAfter
  <2>2. CASE live # s
    <3>1. th'[t].pc = "idle"
      BY <1>3, <2>1, <2>2 DEF UpdateScenePositions, Calls, At
    <3> QED
      BY <1>1, <3>1 DEF Pcs, VisLabels, AudioSteps
  <2>3. CASE live = s
    <3>1. sceneDef \in [Scene -> SceneDef \cup {NoScene}] /\ s \in Scene /\ sceneDef[s] \in SceneDef
      BY <1>0 DEF TypeInv, TypeOK, Scenes
    <3>2. sceneDef'[live].ids = ids
      BY <2>1, <2>3, <3>1 DEF SceneDef
    <3>3. Positions' = Positions
      BY <2>1 DEF Positions
    <3>4. live' = live /\ EnableIDs(live)' = ids
      BY <2>1, <3>2, <3>3 DEF EnableIDs, PublicIDs
    <3>5. Target(t)'
      BY <2>1, <2>3, <3>1, <3>4 DEF Target
    <3>6. th'[t].pc = "vis_read"
      BY <2>1, <2>3
    <3> QED
      BY <3>5, <3>6 DEF Doing, VisLabels, AudioSteps, At
  <2> QED
    BY <2>2, <2>3
<1>4. CASE CutRead(t)
  <2>1. th'[t] = CutPlan /\ UNCHANGED <<posName, sceneDef, live>>
    BY <1>0, <1>4 DEF CutRead, posVars, liveVars
  <2>2. CASE CutPlan = Idle \/ CutPlan = [Idle EXCEPT !.pc = "cut_ok", !.sel = preview]
    <3>1. th'[t].pc \in {"idle", "cut_ok"}
      <4>1. Idle.pc = "idle" /\ [Idle EXCEPT !.pc = "cut_ok", !.sel = preview].pc = "cut_ok"
        BY DEF Idle
      <4> QED
        BY <2>1, <2>2, <4>1
    <3> QED
      BY <1>1, <3>1 DEF Pcs, VisLabels, AudioSteps
  <2>3. CASE preview \in Camera /\ CutPlan = [Idle EXCEPT !.pc = "cut_source", !.sel = preview, !.ids = {simple}]
    <3>1. th'[t].pc = "cut_source" /\ th'[t].sel \in Camera /\ th'[t].ids = {simple}
      BY <2>1, <2>3 DEF Idle
    <3> QED
      BY <3>1 DEF Doing, VisLabels, AudioSteps, At
  <2>4. CASE /\ preview \in Scene
             /\ CutPlan = [Idle EXCEPT !.pc = "vis_read", !.sel = preview, !.ids = EnableIDs(preview)]
    <3>1. th'[t].pc = "vis_read" /\ th'[t].sel = preview /\ th'[t].ids = EnableIDs(preview)
      BY <2>1, <2>4 DEF Idle
    <3>2. \A s : EnableIDs(s)' = EnableIDs(s)
      BY <2>1 DEF EnableIDs, Positions
    <3>3. Target(t)'
      BY <2>4, <3>1, <3>2 DEF Target
    <3> QED
      BY <3>1, <3>3 DEF Doing, VisLabels, AudioSteps, At
  <2> QED
    BY <1>0, <2>2, <2>3, <2>4, CutPlans
<1>5. CASE CutSource(t)
  <2>1. /\ th[t].sel \in Camera /\ th[t].ids = {simple} /\ simple \in Positions
        /\ UNCHANGED <<posName, sceneDef, live>>
    BY <1>5, <1>0 DEF CutSource, Doing, Base, AudioInv, HiddenKept, HiddenUser, HiddenPcs, At, posVars, liveVars
  <2>2. CASE th'[t].pc = "idle"
    BY <1>1, <2>2 DEF Pcs, VisLabels, AudioSteps
  <2>3. CASE /\ obs'.source = [obs.source EXCEPT ![simple] = th[t].sel]
             /\ th'[t].pc = "vis_read" /\ th'[t].sel = th[t].sel /\ th'[t].ids = th[t].ids
    <3>1. obs'.source[simple] = th'[t].sel /\ simple \in Positions'
      BY <1>0, <2>1, <2>3 DEF ObsType, Positions
    <3>2. Target(t)'
      BY <2>1, <2>3, <3>1 DEF Target
    <3> QED
      BY <2>3, <3>2 DEF Doing, VisLabels, AudioSteps, At
  <2> QED
    BY <1>0, <1>5, <2>2, <2>3, PlaysAfter
<1>6. CASE VisRead(t) \/ VisSet(t)
  <2>1. /\ Target(t)
        /\ UNCHANGED <<posName, sceneDef, live>>
    BY <1>6 DEF VisRead, VisSet, Doing, VisLabels, At, posVars, liveVars
  <2>2. CASE th'[t].pc = "idle"
    BY <1>1, <2>2 DEF Pcs, VisLabels, AudioSteps
  <2>3. CASE /\ th'[t].pc \in {"vis_set", "autoaudio_read", "cut_commit"}
             /\ th'[t].sel = th[t].sel /\ th'[t].ids = th[t].ids
             /\ th'[t].todo \subseteq Positions
             /\ obs'.enabled \subseteq th[t].ids \cup th'[t].todo
             /\ th'[t].pc # "vis_set" => obs'.enabled \subseteq th[t].ids /\ th[t].sel # None
             /\ obs'.source = obs.source
    <3>1. Target(t)'
      BY <2>1, <2>3, TargetKept
    <3>2. Positions' = Positions
      BY <2>1 DEF Positions
    <3> QED
      BY <2>3, <3>1, <3>2 DEF Doing, VisLabels, AudioSteps, At
  <2> QED
    BY <1>6, <2>2, <2>3, VisAfter
<1>7. CASE AudioStepOf(t)
  <2>1. /\ obs'.source = obs.source /\ obs'.enabled \subseteq obs.enabled
        /\ th'[t].pc \in AudioSteps \cup {"cut_commit"}
        /\ th'[t].sel = th[t].sel /\ th'[t].ids = th[t].ids
        /\ th[t].pc \in AudioSteps
        /\ UNCHANGED <<posName, sceneDef, live>>
    BY <1>0, <1>7, AudioAfter
  <2>2. Target(t) /\ obs.enabled \subseteq th[t].ids /\ th[t].sel # None
    BY <2>1 DEF Doing, VisLabels
  <2>3. Target(t)'
    BY <2>1, <2>2, TargetKept
  <2> QED
    BY <2>1, <2>2, <2>3 DEF Doing, VisLabels, AudioSteps, At
<1>8. CASE CutCommit(t)
  <2>1. th'[t].pc = "cut_ok"
    BY <1>0, <1>8 DEF CutCommit, Idle
  <2> QED
    BY <1>1, <2>1 DEF Pcs, VisLabels, AudioSteps
<1>9. CASE AssignObs(t)
  <2>1. CASE th'[t].pc = "idle"
    BY <1>1, <2>1 DEF Pcs, VisLabels, AudioSteps
  <2>2. CASE /\ obs'.source = [obs.source EXCEPT ![th[t].pos] = th[t].sel]
             /\ th'[t].pc = "assign_commit" /\ th'[t].pos = th[t].pos /\ th'[t].sel = th[t].sel
    <3>1. th[t].pos \in AllPos
      BY <1>0, <1>9 DEF AssignObs, At, FrameAt, AllPos
    <3>2. obs'.source[th'[t].pos] = th'[t].sel
      BY <1>0, <2>2, <3>1 DEF ObsType
    <3> QED
      BY <2>2, <3>2 DEF Doing, VisLabels, AudioSteps, At
  <2> QED
    BY <1>0, <1>9, <2>1, <2>2, PlaysAfter
<1>10. CASE AssignCommit(t)
  <2>1. \E f \in Frame : th'[t] = Rest(f) \/ th'[t] = Idle
    <3>1. \A b \in SUBSET AllPos : [Idle EXCEPT !.ids = b, !.todo = b \cap isAudio] \in Frame
      BY IdleTyped DEF Frame
    <3>2. Bumped(th[t].pos, th[t].sel) \subseteq SUBSET AllPos
      BY DEF Bumped, Holders, Positions
    <3> QED
      BY <1>0, <1>10, <3>1, <3>2 DEF AssignCommit, Return
  <2>2. th'[t].pc \in {"idle", "off", "prune"}
    BY <2>1, RestFrame DEF Idle
  <2> QED
    BY <1>1, <2>2 DEF Pcs, VisLabels, AudioSteps
<1>11. CASE DeleteRemove(t) \/ DeleteCommit(t)
  <2>1. th'[t].pc \in {"idle", "delete_commit"}
    BY <1>0, <1>11, Moved, Returned DEF DeleteRemove, DeleteCommit, Pcs
  <2> QED
    BY <1>1, <2>1 DEF Pcs, VisLabels, AudioSteps
<1> QED
  BY <1>2, <1>3, <1>4, <1>5, <1>6, <1>7, <1>8, <1>9, <1>10, <1>11 DEF DoingStep, AudioStepOf

\* OBS shows what is on air, or t is about to make it.
LEMMA LoneShowing ==
    ASSUME Calm, Base, Shown, NEW t \in Request, StepOf(t), Lone(t), Doing(t), Matches \/ Showing(t)
    PROVE  Matches' \/ Showing(t)'
<1>0. t \in Thread /\ th[t] \in Frame /\ TypeInv
  BY DEF Base, TypeInv, TypeOK, Thread
<1>1. CASE VisRead(t) \/ VisSet(t)
  <2>1. CASE th'[t].pc \in {"vis_set", "autoaudio_read", "cut_commit"}
    BY <2>1 DEF Showing, AudioSteps
  <2>2. CASE th[t].sel = None /\ obs'.enabled \subseteq th[t].ids
    <3>1. None \notin Camera /\ None \notin Scene /\ Camera \cap Scene = {}
      BY ObsAssumption, OrchAssumption
    <3>2. live \in Scene /\ th[t].ids = EnableIDs(live)
      BY <1>1, <2>2, <3>1 DEF VisRead, VisSet, Doing, VisLabels, At, Target
    <3>3. live' = live /\ EnableIDs(live)' = EnableIDs(live)
      BY <1>1 DEF VisRead, VisSet, EnableIDs, Positions, posVars, liveVars
    <3> QED
      BY <2>2, <3>1, <3>2, <3>3 DEF Matches, OnAir
  <2> QED
    BY <1>1, <2>1, <2>2, VisAfter
<1>2. CASE AudioStepOf(t)
  BY <1>0, <1>2, AudioAfter DEF Showing
<1>3. CASE CutCommit(t)
  <2>1. /\ live' = th[t].sel /\ UNCHANGED <<obs, posName, sceneDef>>
        /\ obs.enabled \subseteq th[t].ids /\ th[t].sel # None /\ Target(t)
    BY <1>3 DEF CutCommit, Doing, VisLabels, At
  <2>2. \A s : OnAir(s)' = OnAir(s)
    BY <2>1 DEF OnAir, EnableIDs, Positions
  <2>3. th[t].ids = OnAir(th[t].sel)
    BY <2>1, OrchAssumption DEF Target, OnAir
  <2> QED
    BY <2>1, <2>2, <2>3 DEF Matches
<1>4. CASE ~VisRead(t) /\ ~VisSet(t) /\ ~AudioStepOf(t) /\ ~CutCommit(t)
  <2>1. ~Showing(t)
    <3>1. CASE ~DoingStep(t)
      <4>1. th[t].pc \notin DoingLabels
        BY <1>0, <3>1, DoingBefore
      <4> QED
        BY <4>1 DEF Showing, DoingLabels, VisLabels, At
    <3>2. CASE DoingStep(t)
      <4>1. th[t].pc \in {"idle", "cut_read", "cut_source", "assign_obs", "assign_commit", "delete_remove",
                          "delete_commit"}
        BY <1>4, <3>2 DEF DoingStep, AudioStepOf, UpdateScenePositions, CutRead, CutSource, AssignObs,
           AssignCommit, DeleteRemove, DeleteCommit, Calls, At
      <4> QED
        BY <4>1 DEF Showing, AudioSteps, At
    <3> QED
      BY <3>1, <3>2
  <2>2. Matches' \/ (th'[t].pc = "vis_read" /\ th'[t].sel = None)
    BY <1>0, <1>4, <2>1, MatchesKept
  <2> QED
    BY <2>2 DEF Showing, At
<1> QED
  BY <1>1, <1>2, <1>3, <1>4

\* The input of a position plays its camera, or t is about to make it.
LEMMA LonePlaying ==
    ASSUME Calm, Base, Shown, NEW t \in Request, StepOf(t), Lone(t), Doing(t),
           NEW p \in AllPos, Playing(p) \/ Busy(t, p)
    PROVE  Playing(p)' \/ Busy(t, p)'
<1>0. /\ t \in Thread /\ TypeInv /\ cameraID \in [AllPos -> Camera \cup {None}]
      /\ simple \in AllPos /\ None \notin Camera /\ None \notin Scene /\ Camera \cap Scene = {}
  BY ObsAssumption, OrchAssumption DEF Base, TypeInv, TypeOK, Thread, AllPos
<1>1. p \notin Positions => cameraID[p] = None
  BY DEF Base, ExclusiveInv, CamerasInPositions
<1>2. CASE Playing(p) /\ ~AssignCommit(t) /\ ~CutCommit(t)
  BY <1>0, <1>2, PlayingKept DEF Base
<1>3. CASE AssignCommit(t)
  <2>1. obs' = obs /\ (At(t, "assign_commit") /\ obs.source[th[t].pos] = th[t].sel)
    BY <1>3 DEF AssignCommit, Doing
  <2>2. CASE p = th[t].pos /\ p \in Positions
    <3>1. cameraID'[p] = th[t].sel
      BY <1>3, <2>2 DEF AssignCommit
    <3> QED
      BY <2>1, <2>2, <3>1 DEF Playing
  <2>3. CASE p = th[t].pos /\ p \notin Positions
    <3>1. cameraID' = cameraID
      BY <1>3, <2>3 DEF AssignCommit
    <3> QED
      BY <1>1, <2>3, <3>1 DEF Playing
  <2>4. CASE p # th[t].pos
    <3>1. cameraID'[p] \in {cameraID[p], None}
      BY <1>3, <2>4 DEF AssignCommit
    <3>2. Playing(p)
      BY <2>1, <2>4 DEF Busy, VisLabels, AudioSteps, At
    <3> QED
      BY <2>1, <3>1, <3>2 DEF Playing
  <2> QED
    BY <2>2, <2>3, <2>4
<1>4. CASE CutCommit(t)
  <2>1. obs' = obs /\ At(t, "cut_commit") /\ Target(t)
    BY <1>4 DEF CutCommit, Doing, VisLabels, At
  <2>2. CASE th[t].sel \in Camera
    <3>1. simple \in Positions /\ obs.source[simple] = th[t].sel
      BY <1>0, <2>1, <2>2 DEF Target
    <3>2. cameraID' = [q \in AllPos |-> IF q = simple THEN th[t].sel
                                        ELSE IF cameraID[q] = th[t].sel THEN None ELSE cameraID[q]]
      BY <1>4, <2>2, <3>1 DEF CutCommit, TakeCamera
    <3>3. CASE p = simple
      BY <2>1, <3>1, <3>2, <3>3 DEF Playing
    <3>4. CASE p # simple
      <4>1. Playing(p)
        BY <2>1, <3>4 DEF Busy, At
      <4> QED
        BY <2>1, <3>2, <3>4, <4>1 DEF Playing
    <3> QED
      BY <3>3, <3>4
  <2>3. CASE th[t].sel \notin Camera
    <3>1. cameraID' = cameraID
      BY <1>4, <2>3 DEF CutCommit
    <3>2. Playing(p)
      BY <2>1, <2>3 DEF Busy, At
    <3> QED
      BY <2>1, <3>1, <3>2 DEF Playing
  <2> QED
    BY <2>2, <2>3
<1>5. CASE Busy(t, p) /\ ~AssignCommit(t) /\ ~CutCommit(t)
  <2>1. th[t].pc \in DoingLabels
    BY <1>5 DEF Busy, DoingLabels, At
  <2>2. DoingStep(t)
    BY <1>0, <2>1, DoingBefore
  <2>3. CASE VisRead(t) \/ VisSet(t)
    <3>1. th[t].sel \in Camera /\ p = simple
      BY <1>5, <2>3 DEF Busy, VisRead, VisSet, At
    <3> QED
      BY <1>0, <2>3, <3>1, VisAfter DEF Busy, VisLabels, AudioSteps
  <2>4. CASE AudioStepOf(t)
    <3>1. th[t].pc \in AudioSteps /\ th'[t].pc \in AudioSteps \cup {"cut_commit"} /\ th'[t].sel = th[t].sel
      BY <1>0, <2>4, AudioAfter
    <3>2. th[t].sel \in Camera /\ p = simple
      BY <1>5, <3>1 DEF Busy, AudioSteps, At
    <3> QED
      BY <3>1, <3>2 DEF Busy, VisLabels
  <2>5. CASE DeleteCommit(t)
    <3>1. p = th[t].pos
      BY <1>5, <2>5 DEF Busy, DeleteCommit, VisLabels, AudioSteps, At
    <3>2. cameraID'[p] = None
      BY <1>0, <1>1, <2>5, <3>1 DEF DeleteCommit
    <3> QED
      BY <3>2 DEF Playing
  <2>6. CASE UpdateScenePositions(t) \/ CutRead(t) \/ CutSource(t) \/ AssignObs(t) \/ DeleteRemove(t)
    <3>1. th[t].pc \in {"idle", "cut_read", "cut_source", "assign_obs", "delete_remove"}
      BY <2>6 DEF UpdateScenePositions, CutRead, CutSource, AssignObs, DeleteRemove, Calls, At
    <3> QED
      BY <1>5, <3>1 DEF Busy, VisLabels, AudioSteps, At
  <2> QED
    BY <1>5, <2>2, <2>3, <2>4, <2>5, <2>6 DEF DoingStep, AudioStepOf
<1> QED
  BY <1>2, <1>3, <1>4, <1>5

\* What the ticker and the environment do to an operation alone: nothing.
LEMMA OutsideKeeps ==
    ASSUME Calm, Base, Shown, StepOf(Ticker) \/ Environment
    PROVE  /\ \A u \in Request : th'[u] = th[u]
           /\ \A u \in Request : Doing(u) => Doing(u)'
           /\ Matches => Matches'
           /\ \A p \in AllPos : Playing(p) => Playing(p)'
<1>0. /\ TypeInv /\ ~ObsFaults /\ Ticker \in Thread /\ Ticker \notin Request
      /\ Request \subseteq Thread /\ simple \notin Position
      /\ \A u \in Thread : FrameAt(th[u].pc, th[u])
  BY OrchAssumption, ObsAssumption DEF Calm, Base, TypeInv, TypedFrame, Thread
<1>1. CASE Environment
  <2>1. UNCHANGED <<obs, th, posName, cameraID, sceneDef, live>>
    BY <1>1 DEF Environment, MediaChange, StreamChange, Expire, Calm, Restart, posVars, liveVars
  <2> QED
    BY <2>1 DEF Doing, Target, EnableIDs, Positions, At, Matches, OnAir, Playing
<1>2. CASE StepOf(Ticker)
  <2>1. \A u \in Request : th'[u] = th[u]
    BY <1>0, <1>2, OthersStay
  <2>2. th[Ticker].pc \in TickerLabels /\ th'[Ticker].pc \in TickerLabels
    BY <1>0, <1>2, TickerFrame DEF Base, TickerKept
  <2>3. /\ ~DoingStep(Ticker) /\ ~CreateCommit(Ticker) /\ ~CreateObs(Ticker) /\ ~Removes(Ticker)
        /\ ~SceneStep(Ticker)
    BY <1>0, <2>2 DEF TickerLabels, DoingStep, UpdateScenePositions, CutRead, CutSource, VisRead, VisSet,
       AutoAudioRead, AutoAudioMute, AutoAudioUnmute, AutoAudioCommit, CutCommit, AssignObs, AssignCommit,
       DeleteRemove, DeleteCommit, CreateCommit, CreateObs, Removes, CreateUndo, SceneStep, CreateScene,
       RenameScene, DeleteScene, Calls, At
  <2>4. UNCHANGED <<sceneDef, live>>
    BY <1>0, <1>2, <2>3, OnlyBy DEF DoingStep, SceneStep
  <2>5. Positions \subseteq Positions' /\ Positions' \subseteq Positions \cup {simple}
    BY <1>0, <1>2, <2>3, PositionsAfter DEF DoingStep
  <2>6. \A s : EnableIDs(s)' = EnableIDs(s)
    BY <2>4, <2>5 DEF EnableIDs
  <2>7. obs'.enabled \subseteq obs.enabled
    BY <1>0, <1>2, <2>3, ObsAfter DEF DoingStep
  <2>8. \A q \in AllPos : obs'.source[q] = obs.source[q] \/ (q = simple /\ simple \notin Positions)
    <3>1. CASE HiddenCreateInput(Ticker)
      <4>1. \A q \in Position : obs'.source[q] = obs.source[q]
        BY <1>0, <1>2, <3>1, ObsAfter
      <4>2. simple \in obs.inputs => obs' = obs
        BY <1>0, <1>2, <3>1, ObsAfter
      <4>3. simple \in Positions => simple \in obs.inputs
        BY InputsThere
      <4> QED
        BY <4>1, <4>2, <4>3 DEF AllPos
    <3>2. CASE ~HiddenCreateInput(Ticker)
      <4>1. ~Plays(Ticker) /\ ~Creates(Ticker)
        BY <2>3, <3>2 DEF Plays, Creates, DoingStep
      <4>2. obs'.source = obs.source
        BY <1>0, <1>2, <2>3, <4>1, ObsAfter
      <4> QED
        BY <4>2
    <3> QED
      BY <3>1, <3>2
  <2>9. ASSUME NEW u \in Request, Doing(u) PROVE Doing(u)'
    <3>1. th'[u] = th[u]
      BY <2>1
    <3>2. Target(u) => Target(u)'
      BY <2>4, <2>5, <2>6, <2>8, <3>1 DEF Target, AllPos
    <3>3. At(u, "assign_commit") => th[u].pos \in Position
      BY <1>0, <2>9 DEF FrameAt, At
    <3>4. At(u, "assign_commit") => obs'.source[th[u].pos] = obs.source[th[u].pos]
      BY <1>0, <2>8, <3>3 DEF AllPos
    <3> QED
      BY <2>5, <2>7, <2>9, <3>1, <3>2, <3>4 DEF Doing, At
  <2>10. Matches => Matches'
    BY <2>4, <2>6, <2>7 DEF Matches, OnAir
  <2>11. ASSUME NEW p \in AllPos, Playing(p) PROVE Playing(p)'
    <3>1. cameraID'[p] \in {cameraID[p], None}
      BY <1>0, <1>2, <2>3, CamerasOnlyLeave DEF DoingStep
    <3>2. p \notin Positions => cameraID[p] = None
      BY DEF Base, ExclusiveInv, CamerasInPositions
    <3> QED
      BY <2>8, <2>11, <3>1, <3>2 DEF Playing
  <2> QED
    BY <2>1, <2>9, <2>10, <2>11
<1> QED
  BY <1>1, <1>2

-----------------------------------------------------------------------------
(* The invariant is kept.                                                  *)

\* A step of a request that overlaps no other.
LEMMA LoneStep ==
    ASSUME Calm, Base, Shown, SoloInv, DoubtInv, NEW t \in Request, StepOf(t), Note(t), ~Overlaps(t)
    PROVE  SoloInv' /\ DoubtInv'
<1>0. /\ TypeInv /\ t \in Thread /\ Lone(t) /\ \A u \in Request \ {t} : u \in Thread \ {t}
      /\ Ticker \notin Request
  BY OrchAssumption DEF Base, Overlaps, Lone, Thread, At
<1>1. \A u \in Request \ {t} : th[u].pc = "idle" /\ th'[u].pc = "idle"
  BY <1>0, OthersStay DEF Lone, At
<1>2. Lone(t)'
  BY <1>1 DEF Lone, At
<1>3. solo \subseteq {t} /\ (t \in solo => th[t].pc # "idle" /\ Doing(t))
  BY <1>1 DEF SoloInv, At
<1>4. /\ solo' = IF th'[t].pc = "idle" THEN {} ELSE IF At(t, "idle") THEN {t} ELSE solo
      /\ mixed' = (mixed /\ ~(t \in solo /\ At(t, "cut_commit"))
                         /\ ~(th'[t].pc = "idle" /\ OnAirMatchesLive'))
      /\ suspect' = {p \in suspect : /\ ~(t \in solo /\ p \in Repaired(t))
                                     /\ ~(th'[t].pc = "idle" /\ Playing(p)')}
  BY DEF Note, Overlaps, At
<1>5. th'[t].pc = "idle" => OperatorsIdle' /\ (OnAirMatchesLive' <=> Matches') /\ ~Showing(t)'
                            /\ \A p : ~Busy(t, p)'
  BY <1>1 DEF OperatorsIdle, OnAirMatchesLive, Matches, Showing, Busy, VisLabels, AudioSteps, At
<1>6. CASE At(t, "idle") \/ t \in solo
  <2>1. Doing(t)
    BY <1>3, <1>6 DEF Doing, VisLabels, AudioSteps, At
  <2>2. solo' = IF th'[t].pc = "idle" THEN {} ELSE {t}
    BY <1>3, <1>4, <1>6
  <2>3. Doing(t)'
    BY <1>0, <2>1, DoingKept
  <2>4. SoloInv'
    BY <1>1, <1>2, <2>2, <2>3 DEF SoloInv, At
  <2>5. mixed' \/ Matches' \/ (th'[t].pc # "idle" /\ Showing(t)')
    <3>1. CASE mixed /\ ~(t \in solo /\ At(t, "cut_commit"))
      BY <1>4, <1>5, <3>1
    <3>2. CASE Matches \/ Showing(t)
      <4>1. Matches' \/ Showing(t)'
        BY <1>0, <2>1, <3>2, LoneShowing
      <4> QED
        BY <1>5, <4>1
    <3>3. CASE At(t, "cut_commit")
      BY <3>2, <3>3 DEF Showing, At
    <3> QED
      BY <1>3, <3>1, <3>2, <3>3 DEF DoubtInv
  <2>6. ASSUME NEW p \in AllPos, p \notin suspect'
        PROVE  Playing(p)' \/ (th'[t].pc # "idle" /\ Busy(t, p)')
    <3>1. CASE p \in suspect /\ ~(t \in solo /\ p \in Repaired(t))
      BY <1>4, <2>6, <3>1
    <3>2. CASE Playing(p) \/ Busy(t, p)
      <4>1. Playing(p)' \/ Busy(t, p)'
        BY <1>0, <2>1, <3>2, LonePlaying
      <4> QED
        BY <1>5, <4>1
    <3>3. CASE p \in Repaired(t)
      <4>1. Busy(t, p)
        BY <3>3 DEF Repaired, Busy, VisLabels, At
      <4> QED
        BY <3>2, <4>1
    <3> QED
      BY <1>3, <2>6, <3>1, <3>2, <3>3 DEF DoubtInv
  <2>7. DoubtInv'
    BY <2>2, <2>5, <2>6 DEF DoubtInv
  <2> QED
    BY <2>4, <2>7
<1>7. CASE ~At(t, "idle") /\ t \notin solo
  <2>1. solo = {} /\ mixed = TRUE /\ suspect = AllPos
    BY <1>3, <1>7 DEF SoloInv
  <2>2. solo' = {}
    BY <1>4, <1>7, <2>1
  <2>3. CASE th'[t].pc = "idle"
    <3>1. mixed' \/ Matches'
      BY <1>4, <1>5, <2>1, <2>3
    <3>2. \A p \in AllPos \ suspect' : Playing(p)'
      BY <1>4, <2>1, <2>3
    <3>3. \A u \in Request : th'[u].pc = "idle"
      BY <1>1, <2>3
    <3> QED
      BY <2>2, <3>1, <3>2, <3>3 DEF SoloInv, DoubtInv, At
  <2>4. CASE th'[t].pc # "idle"
    <3>1. mixed' = TRUE /\ suspect' = AllPos
      BY <1>4, <2>1, <2>4
    <3> QED
      BY <2>2, <3>1 DEF SoloInv, DoubtInv
  <2> QED
    BY <2>3, <2>4
<1> QED
  BY <1>6, <1>7

LEMMA HealStep ==
    ASSUME Calm, Base, HealInv, [HealNext]_healVars
    PROVE  HealInv'
<1>1. CASE UNCHANGED healVars
  <2>1. UNCHANGED <<obs, posName, cameraID, sceneDef, live, issued, th, solo, mixed, suspect>>
    BY <1>1 DEF healVars, history, vars, posVars, liveVars
  <2> QED
    BY <2>1 DEF HealInv, Shown, SoloInv, DoubtInv, Lone, Doing, Target, Matches, OnAir, EnableIDs, Showing,
       Busy, Playing, Positions, Scenes, At
<1>2. ASSUME HealNext PROVE HealInv'
  <2>0. Shown /\ SoloInv /\ DoubtInv
    BY DEF HealInv
  <2>1. Shown'
    BY <1>2, <2>0, ShownStep, StepsNext
  <2>2. ASSUME NEW t \in Request, StepOf(t), Note(t) PROVE SoloInv' /\ DoubtInv'
    <3>1. CASE Overlaps(t)
      <4>1. solo' = {} /\ mixed' = TRUE /\ suspect' = AllPos
        BY <2>2, <3>1 DEF Note
      <4> QED
        BY <4>1 DEF SoloInv, DoubtInv
    <3>2. CASE ~Overlaps(t)
      BY <2>0, <2>2, <3>2, LoneStep
    <3> QED
      BY <3>1, <3>2
  <2>3. ASSUME StepOf(Ticker) \/ Environment, UNCHANGED history PROVE SoloInv' /\ DoubtInv'
    <3>0. UNCHANGED <<solo, mixed, suspect>>
      BY <2>3 DEF history
    <3>1. /\ \A u \in Request : th'[u] = th[u]
          /\ \A u \in Request : Doing(u) => Doing(u)'
          /\ Matches => Matches'
          /\ \A p \in AllPos : Playing(p) => Playing(p)'
      BY <2>0, <2>3, OutsideKeeps
    <3>2. SoloInv'
      BY <2>0, <3>0, <3>1 DEF SoloInv, Lone, At
    <3>3. solo \subseteq Request
      BY <2>0 DEF SoloInv
    <3>4. \A u \in solo : Showing(u) => Showing(u)'
      BY <3>1, <3>3 DEF Showing, At
    <3>5. \A u \in solo, p \in AllPos : Busy(u, p) => Busy(u, p)'
      BY <3>1, <3>3 DEF Busy, At
    <3>6. DoubtInv'
      BY <2>0, <3>0, <3>1, <3>4, <3>5 DEF DoubtInv
    <3> QED
      BY <3>2, <3>6
  <2> QED
    BY <1>2, <2>1, <2>2, <2>3, StepsNext DEF HealInv
<1> QED
  BY <1>1, <1>2

LEMMA HealInvariant ==
    ASSUME Calm
    PROVE  HealSpec => [](Base /\ HealInv)
<1>1. HealSpec => Spec
  <2>1. HealInit => Init
    BY DEF HealInit
  <2>2. [HealNext]_healVars => [Next]_vars
    BY StepsNext DEF healVars
  <2> QED
    BY <2>1, <2>2, PTL DEF HealSpec, Spec
<1>2. Spec => []Base
  <2>1. Spec => []InputsInv
    BY InputsInvariant DEF Calm
  <2> QED
    BY <2>1, TypeInvariant, TickerInvariant, ExclusiveInvariant, AudioInvariant, PTL DEF Base
<1>3. HealInit => HealInv
  <2> SUFFICES ASSUME HealInit PROVE HealInv
    OBVIOUS
  <2>1. /\ obs.enabled = {} /\ live = None /\ \A p \in AllPos : cameraID[p] = None
        /\ Scenes \subseteq issued
    BY DEF HealInit, Init, Scenes
  <2>2. \A t \in Thread : th[t].pc \in {"run", "idle"}
    BY InitFrames DEF HealInit
  <2>3. \A t \in Request : th[t].pc = "idle"
    BY OrchAssumption DEF HealInit, Init, BootFrames, Idle, Thread
  <2> QED
    BY <2>1, <2>2, <2>3 DEF HealInit, HealInv, Shown, SoloInv, DoubtInv, Matches, Playing, At
<1>4. Base /\ HealInv /\ [HealNext]_healVars => HealInv'
  BY HealStep
<1> QED
  BY <1>1, <1>2, <1>3, <1>4, PTL DEF HealSpec

\* One Cut that runs alone takes everything off the program that the selection on
\* air does not have, whatever the order in which overlapping calls of Cut and of
\* UpdateScenePositions reached OBS and committed before it; then the program stays
\* right until the next overlap.
THEOREM OneCutHeals ==
    ASSUME ~ObsFaults, ~SaveFaults, "Restart" \notin Ops
    PROVE  HealSpec => []OnAirHeals
<1>1. HealInv => OnAirHeals
  <2> SUFFICES ASSUME HealInv PROVE OnAirHeals
    OBVIOUS
  <2>1. OperatorsIdle => solo = {}
    BY DEF HealInv, SoloInv, OperatorsIdle
  <2> QED
    BY <2>1 DEF HealInv, DoubtInv, Matches, OnAirHeals, OnAirMatchesLive
<1>2. HealSpec => []HealInv
  BY HealInvariant, PTL DEF Calm
<1> QED
  BY <1>1, <1>2, PTL

\* One AssignCamera that runs alone, or one Cut to a camera, makes the input of its
\* position play the camera that the position says, whatever the order in which
\* overlapping ones set the source in OBS and committed the camera.
THEOREM OneAssignHeals ==
    ASSUME ~ObsFaults, ~SaveFaults, "Restart" \notin Ops
    PROVE  HealSpec => []SourceHeals
<1>1. HealInv => SourceHeals
  <2> SUFFICES ASSUME HealInv, OperatorsIdle PROVE \A p \in AllPos \ suspect : Playing(p)
    BY DEF SourceHeals
  <2>1. solo = {}
    BY DEF HealInv, SoloInv, OperatorsIdle
  <2> QED
    BY <2>1 DEF HealInv, DoubtInv
<1>2. HealSpec => []HealInv
  BY HealInvariant, PTL DEF Calm
<1> QED
  BY <1>1, <1>2, PTL
=============================================================================

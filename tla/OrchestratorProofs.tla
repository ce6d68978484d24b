------------------------- MODULE OrchestratorProofs -------------------------
(***************************************************************************)
(* Theorems about Orchestrator, for every set of positions, cameras,       *)
(* scenes, names and requests and every choice of operations and faults.   *)
(***************************************************************************)
EXTENDS Orchestrator, TLAPS

(***************************************************************************)
(* Types.  TypeOK is not inductive: what a step does with the local        *)
(* variables of its thread needs to know what they hold at that label, and *)
(* saving the positions needs their names not to be the reserved one.      *)
(***************************************************************************)
FrameAt(label, f) ==     \* what frame f must hold at label
    /\ label \in {"create_obs", "create_commit", "create_undo", "delete_disable", "delete_mute",
                  "delete_remove", "delete_commit", "assign_obs", "assign_commit", "unassign_obs",
                  "unassign_commit", "audio_mute", "audio_unmute", "audio_commit"} => f.pos \in Position
    /\ label = "off_mute" => f.pos \in AllPos
    /\ label \in {"assign_obs", "assign_commit", "cut_source", "autoaudio_read", "autoaudio_mute",
                  "autoaudio_unmute", "autoaudio_commit"} => f.sel \in Camera
    /\ label \in {"create_obs", "create_commit", "create_undo"} => f.name \in Name
    /\ label \in {"audio_mute", "autoaudio_mute"} => f.prev \in AllPos

TypedFrame == {f \in Frame : FrameAt(f.pc, f)}

NamesTyped == /\ \A p \in Position : posName[p] \in Name \cup {None}
              /\ posName[simple] \in {None, simple}

TypeInv == TypeOK /\ NamesTyped /\ th \in [Thread -> TypedFrame]

\* Every call leaves OBS in a state of its type, whatever it returns.
LEMMA ObsCalls ==
    ASSUME obs \in ObsType, NEW p \in AllPos, NEW ok
    PROVE  /\ CreatePositionInput(p, ok) => obs' \in ObsType
           /\ \A c \in Camera : UpdatePositionSource(p, c, ok) => obs' \in ObsType
           /\ RemoveInput(p, ok) => obs' \in ObsType
           /\ \A on : SetPositionEnabled(p, on, ok) => obs' \in ObsType
           /\ \A muted : SetInputAudioMuted(p, muted, ok) => obs' \in ObsType
<1>1. CreatePositionInput(p, ok) => obs' \in ObsType
  BY DEF ObsType, CreatePositionInput, Reply
<1>2. ASSUME NEW c \in Camera, UpdatePositionSource(p, c, ok) PROVE obs' \in ObsType
  BY <1>2 DEF ObsType, UpdatePositionSource, Reply
<1>3. RemoveInput(p, ok) => obs' \in ObsType
  BY DEF ObsType, RemoveInput, Reply
<1>4. ASSUME NEW on, SetPositionEnabled(p, on, ok) PROVE obs' \in ObsType
  <2>1. CASE on
    BY <1>4, <2>1 DEF ObsType, SetPositionEnabled, Reply
  <2>2. CASE ~on
    BY <1>4, <2>2 DEF ObsType, SetPositionEnabled, Reply
  <2>3. QED
    BY <2>1, <2>2
<1>5. ASSUME NEW muted, SetInputAudioMuted(p, muted, ok) PROVE obs' \in ObsType
  <2>1. CASE muted
    BY <1>5, <2>1 DEF ObsType, SetInputAudioMuted, Reply
  <2>2. CASE ~muted
    BY <1>5, <2>2 DEF ObsType, SetInputAudioMuted, Reply
  <2>3. QED
    BY <2>1, <2>2
<1>6. QED
  BY <1>1, <1>2, <1>3, <1>4, <1>5

LEMMA IdleTyped == Idle \in TypedFrame /\ Idle \in Frame
BY DEF Idle, TypedFrame, Frame, FrameAt, Pcs, Selection

\* A thread that goes on with a well-typed frame keeps all frames well typed.
LEMMA FrameStep ==
    ASSUME th \in [Thread -> TypedFrame], NEW t \in Thread, NEW f \in TypedFrame, Become(t, f)
    PROVE  th' \in [Thread -> TypedFrame]
BY DEF Become

LEMMA ReturnStep ==
    ASSUME th \in [Thread -> TypedFrame], NEW t \in Thread, Return(t)
    PROVE  th' \in [Thread -> TypedFrame]
BY FrameStep, IdleTyped DEF Return

\* The same frame at another label: it must hold what that label needs.
LEMMA MovedTyped ==
    ASSUME NEW f \in Frame, NEW label \in Pcs, FrameAt(label, f)
    PROVE  [f EXCEPT !.pc = label] \in TypedFrame
BY DEF Frame, FrameAt, TypedFrame

LEMMA GotoStep ==
    ASSUME th \in [Thread -> TypedFrame], NEW t \in Thread, NEW label \in Pcs,
           FrameAt(label, th[t]), Goto(t, label)
    PROVE  th' \in [Thread -> TypedFrame]
<1>1. [th[t] EXCEPT !.pc = label] \in TypedFrame
  BY MovedTyped DEF TypedFrame
<1>2. QED
  BY <1>1, FrameStep DEF Goto

LEMMA InitTypes == Init => TypeInv
<1> SUFFICES ASSUME Init PROVE TypeInv
  OBVIOUS
<1> USE OrchAssumption, ObsAssumption
<1>1. posName \in [AllPos -> Name \cup {None, simple}] /\ NamesTyped
  BY DEF Init, LoadedNames, NamesTyped, AllPos
<1>2. th \in [Thread -> TypedFrame]
  BY DEF Init, BootFrames, Idle, TypedFrame, Frame, FrameAt, Pcs, Selection
<1>3. obs \in ObsType
  BY DEF Init, ObsType, AllPos
<1>4. TypeOK
  BY <1>1, <1>2, <1>3 DEF Init, TypeOK, TypedFrame, Selection, Status, Since
<1>5. QED
  BY <1>1, <1>2, <1>4 DEF TypeInv

(***************************************************************************)
(* Which steps change what: one lemma per part of the state.  Everything   *)
(* else about a part is then a matter of these few steps.                  *)
(***************************************************************************)
\* The names of the positions, in memory and on disk.
LEMMA ChangesNames ==
    ASSUME Next
    PROVE  \/ UNCHANGED <<posName, diskPositions>>
           \/ \E t \in Thread : HiddenRegister(t) \/ CreateCommit(t) \/ RenamePosition(t)
                                \/ DeleteCommit(t)
           \/ Restart
<1>1. ASSUME NEW t \in Thread, SyncFail(t) \/ SyncReconcile(t) \/ OffDisable(t)
                               \/ OffMute(t) \/ Prune(t)
     PROVE  UNCHANGED <<posName, diskPositions>>
  BY <1>1 DEF SyncFail, SyncReconcile, OffDisable, OffMute, Prune, posVars, diskVars
<1>2. ASSUME NEW t \in Thread, HiddenCreateInput(t)
     PROVE  UNCHANGED <<posName, diskPositions>>
  BY <1>2 DEF HiddenCreateInput, posVars, diskVars
<1>3. ASSUME NEW t \in Thread, CreatePosition(t) \/ CreateObs(t) \/ CreateConflict(t)
                               \/ CreateUndo(t) \/ DeletePosition(t) \/ DeleteDisable(t)
                               \/ DeleteMute(t) \/ DeleteRemove(t)
     PROVE  UNCHANGED <<posName, diskPositions>>
  BY <1>3 DEF CreatePosition, CreateObs, CreateConflict, CreateUndo, DeletePosition, DeleteDisable,
         DeleteMute, DeleteRemove, posVars, diskVars
<1>4. ASSUME NEW t \in Thread, AssignCamera(t) \/ AssignObs(t) \/ AssignCommit(t)
                               \/ UnassignPosition(t) \/ UnassignObs(t) \/ UnassignCommit(t)
                               \/ SetAudioPosition(t) \/ AudioMutePrev(t) \/ AudioUnmute(t)
                               \/ AudioCommit(t)
     PROVE  UNCHANGED <<posName, diskPositions>>
  BY <1>4 DEF AssignCamera, AssignObs, AssignCommit, UnassignPosition, UnassignObs, UnassignCommit,
         SetAudioPosition, AudioMutePrev, AudioUnmute, AudioCommit, posVars, diskVars
<1>5. ASSUME NEW t \in Thread, CreateScene(t) \/ RenameScene(t) \/ UpdateScenePositions(t)
                               \/ DeleteScene(t)
     PROVE  UNCHANGED <<posName, diskPositions>>
  BY <1>5 DEF CreateScene, RenameScene, UpdateScenePositions, DeleteScene, posVars, diskVars
<1>6. ASSUME NEW t \in Thread, SetPreviewCamera(t) \/ SetPreviewScene(t) \/ Cut(t)
                               \/ CutRead(t) \/ CutSource(t) \/ VisRead(t) \/ VisSet(t)
                               \/ AutoAudioRead(t) \/ AutoAudioMute(t) \/ AutoAudioUnmute(t)
                               \/ AutoAudioCommit(t) \/ CutCommit(t) \/ CutReply(t)
     PROVE  UNCHANGED <<posName, diskPositions>>
  BY <1>6 DEF SetPreviewCamera, SetPreviewScene, Cut, CutRead, CutSource, VisRead, VisSet,
         AutoAudioRead, AutoAudioMute, AutoAudioUnmute, AutoAudioCommit, CutCommit, CutReply,
         posVars, diskVars
<1>7. ASSUME (\E t \in Thread : SyncFetch(t)) \/ RunStart \/ MediaChange
             \/ (\E c \in Camera : StreamChange(c)) \/ (\E c \in Camera : Expire(c))
     PROVE  UNCHANGED <<posName, diskPositions>>
  BY <1>7 DEF SyncFetch, RunStart, MediaChange, StreamChange, Expire, posVars, diskVars
<1>8. QED
  BY <1>1, <1>2, <1>3, <1>4, <1>5, <1>6, <1>7 DEF Next, SyncStep, HiddenStep, PositionStep, AssignStep, SceneStep, LiveStep, Environment

\* Which camera is in which position, and the audio source.
LEMMA ChangesAssignment ==
    ASSUME Next
    PROVE  \/ UNCHANGED <<cameraID, isAudio, audioPositionID>>
           \/ \E t \in Thread : SyncReconcile(t) \/ DeleteCommit(t) \/ AssignCommit(t)
                                \/ UnassignCommit(t) \/ AudioCommit(t) \/ AutoAudioCommit(t)
                                \/ CutCommit(t)
           \/ Restart
<1>1. ASSUME NEW t \in Thread, SyncFail(t) \/ OffDisable(t) \/ OffMute(t) \/ Prune(t)
     PROVE  UNCHANGED <<cameraID, isAudio, audioPositionID>>
  BY <1>1 DEF SyncFail, OffDisable, OffMute, Prune, posVars, audioVars
<1>2. ASSUME NEW t \in Thread, HiddenCreateInput(t) \/ HiddenRegister(t)
     PROVE  UNCHANGED <<cameraID, isAudio, audioPositionID>>
  BY <1>2 DEF HiddenCreateInput, HiddenRegister, posVars, audioVars
<1>3. ASSUME NEW t \in Thread, CreatePosition(t) \/ CreateObs(t) \/ CreateCommit(t)
                               \/ CreateConflict(t) \/ CreateUndo(t) \/ RenamePosition(t)
                               \/ DeletePosition(t) \/ DeleteDisable(t) \/ DeleteMute(t)
                               \/ DeleteRemove(t)
     PROVE  UNCHANGED <<cameraID, isAudio, audioPositionID>>
  BY <1>3 DEF CreatePosition, CreateObs, CreateCommit, CreateConflict, CreateUndo, RenamePosition,
         DeletePosition, DeleteDisable, DeleteMute, DeleteRemove, posVars, audioVars
<1>4. ASSUME NEW t \in Thread, AssignCamera(t) \/ AssignObs(t) \/ UnassignPosition(t)
                               \/ UnassignObs(t) \/ SetAudioPosition(t) \/ AudioMutePrev(t)
                               \/ AudioUnmute(t)
     PROVE  UNCHANGED <<cameraID, isAudio, audioPositionID>>
  BY <1>4 DEF AssignCamera, AssignObs, UnassignPosition, UnassignObs, SetAudioPosition,
         AudioMutePrev, AudioUnmute, posVars, audioVars
<1>5. ASSUME NEW t \in Thread, CreateScene(t) \/ RenameScene(t) \/ UpdateScenePositions(t)
                               \/ DeleteScene(t)
     PROVE  UNCHANGED <<cameraID, isAudio, audioPositionID>>
  BY <1>5 DEF CreateScene, RenameScene, UpdateScenePositions, DeleteScene, posVars, audioVars
<1>6. ASSUME NEW t \in Thread, SetPreviewCamera(t) \/ SetPreviewScene(t) \/ Cut(t)
                               \/ CutRead(t) \/ CutSource(t) \/ VisRead(t) \/ VisSet(t)
                               \/ AutoAudioRead(t) \/ AutoAudioMute(t) \/ AutoAudioUnmute(t)
                               \/ CutReply(t)
     PROVE  UNCHANGED <<cameraID, isAudio, audioPositionID>>
  BY <1>6 DEF SetPreviewCamera, SetPreviewScene, Cut, CutRead, CutSource, VisRead, VisSet,
         AutoAudioRead, AutoAudioMute, AutoAudioUnmute, CutReply, posVars, audioVars
<1>7. ASSUME (\E t \in Thread : SyncFetch(t)) \/ RunStart \/ MediaChange
             \/ (\E c \in Camera : StreamChange(c)) \/ (\E c \in Camera : Expire(c))
     PROVE  UNCHANGED <<cameraID, isAudio, audioPositionID>>
  BY <1>7 DEF SyncFetch, RunStart, MediaChange, StreamChange, Expire, posVars, audioVars
<1>8. QED
  BY <1>1, <1>2, <1>3, <1>4, <1>5, <1>6, <1>7 DEF Next, SyncStep, HiddenStep, PositionStep, AssignStep, SceneStep, LiveStep, Environment

\* The cameras and the moments they went offline.
LEMMA ChangesCameras ==
    ASSUME Next
    PROVE  \/ UNCHANGED <<status, offlineSince>>
           \/ \E t \in Thread : SyncReconcile(t) \/ Prune(t)
           \/ \E c \in Camera : Expire(c)
           \/ Restart
<1>1. ASSUME NEW t \in Thread, SyncFail(t) \/ OffDisable(t) \/ OffMute(t)
     PROVE  UNCHANGED <<status, offlineSince>>
  BY <1>1 DEF SyncFail, OffDisable, OffMute, camVars
<1>2. ASSUME NEW t \in Thread, HiddenCreateInput(t) \/ HiddenRegister(t)
     PROVE  UNCHANGED <<status, offlineSince>>
  BY <1>2 DEF HiddenCreateInput, HiddenRegister, camVars
<1>3. ASSUME NEW t \in Thread, CreatePosition(t) \/ CreateObs(t) \/ CreateCommit(t)
                               \/ CreateConflict(t) \/ CreateUndo(t) \/ RenamePosition(t)
                               \/ DeletePosition(t) \/ DeleteDisable(t) \/ DeleteMute(t)
                               \/ DeleteRemove(t) \/ DeleteCommit(t)
     PROVE  UNCHANGED <<status, offlineSince>>
  BY <1>3 DEF CreatePosition, CreateObs, CreateCommit, CreateConflict, CreateUndo, RenamePosition,
         DeletePosition, DeleteDisable, DeleteMute, DeleteRemove, DeleteCommit, camVars
<1>4. ASSUME NEW t \in Thread, AssignCamera(t) \/ AssignObs(t) \/ AssignCommit(t)
                               \/ UnassignPosition(t) \/ UnassignObs(t) \/ UnassignCommit(t)
                               \/ SetAudioPosition(t) \/ AudioMutePrev(t) \/ AudioUnmute(t)
                               \/ AudioCommit(t)
     PROVE  UNCHANGED <<status, offlineSince>>
  BY <1>4 DEF AssignCamera, AssignObs, AssignCommit, UnassignPosition, UnassignObs, UnassignCommit,
         SetAudioPosition, AudioMutePrev, AudioUnmute, AudioCommit, camVars
<1>5. ASSUME NEW t \in Thread, CreateScene(t) \/ RenameScene(t) \/ UpdateScenePositions(t)
                               \/ DeleteScene(t)
     PROVE  UNCHANGED <<status, offlineSince>>
  BY <1>5 DEF CreateScene, RenameScene, UpdateScenePositions, DeleteScene, camVars
<1>6. ASSUME NEW t \in Thread, SetPreviewCamera(t) \/ SetPreviewScene(t) \/ Cut(t)
                               \/ CutRead(t) \/ CutSource(t) \/ VisRead(t) \/ VisSet(t)
                               \/ AutoAudioRead(t) \/ AutoAudioMute(t) \/ AutoAudioUnmute(t)
                               \/ AutoAudioCommit(t) \/ CutCommit(t) \/ CutReply(t)
     PROVE  UNCHANGED <<status, offlineSince>>
  BY <1>6 DEF SetPreviewCamera, SetPreviewScene, Cut, CutRead, CutSource, VisRead, VisSet,
         AutoAudioRead, AutoAudioMute, AutoAudioUnmute, AutoAudioCommit, CutCommit, CutReply,
         camVars
<1>7. ASSUME (\E t \in Thread : SyncFetch(t)) \/ RunStart \/ MediaChange
             \/ (\E c \in Camera : StreamChange(c))
     PROVE  UNCHANGED <<status, offlineSince>>
  BY <1>7 DEF SyncFetch, RunStart, MediaChange, StreamChange, camVars
<1>8. QED
  BY <1>1, <1>2, <1>3, <1>4, <1>5, <1>6, <1>7 DEF Next, SyncStep, HiddenStep, PositionStep, AssignStep, SceneStep, LiveStep, Environment

\* The scenes, in memory and on disk, and the preview.
LEMMA ChangesScenes ==
    ASSUME Next
    PROVE  \/ UNCHANGED <<sceneDef, diskScenes, preview>>
           \/ \E t \in Thread : CreateScene(t) \/ RenameScene(t) \/ UpdateScenePositions(t)
                                \/ DeleteScene(t) \/ SetPreviewCamera(t)
                                \/ SetPreviewScene(t)
           \/ Restart
<1>1. ASSUME NEW t \in Thread, SyncFail(t) \/ SyncReconcile(t) \/ OffDisable(t)
                               \/ OffMute(t) \/ Prune(t)
     PROVE  UNCHANGED <<sceneDef, diskScenes, preview>>
  BY <1>1 DEF SyncFail, SyncReconcile, OffDisable, OffMute, Prune, diskVars, liveVars
<1>2. ASSUME NEW t \in Thread, HiddenCreateInput(t) \/ HiddenRegister(t)
     PROVE  UNCHANGED <<sceneDef, diskScenes, preview>>
  BY <1>2 DEF HiddenCreateInput, HiddenRegister, diskVars, liveVars
<1>3. ASSUME NEW t \in Thread, CreatePosition(t) \/ CreateObs(t) \/ CreateCommit(t)
                               \/ CreateConflict(t) \/ CreateUndo(t) \/ RenamePosition(t)
                               \/ DeletePosition(t) \/ DeleteDisable(t) \/ DeleteMute(t)
                               \/ DeleteRemove(t) \/ DeleteCommit(t)
     PROVE  UNCHANGED <<sceneDef, diskScenes, preview>>
  BY <1>3 DEF CreatePosition, CreateObs, CreateCommit, CreateConflict, CreateUndo, RenamePosition,
         DeletePosition, DeleteDisable, DeleteMute, DeleteRemove, DeleteCommit, diskVars,
         liveVars
<1>4. ASSUME NEW t \in Thread, AssignCamera(t) \/ AssignObs(t) \/ AssignCommit(t)
                               \/ UnassignPosition(t) \/ UnassignObs(t) \/ UnassignCommit(t)
                               \/ SetAudioPosition(t) \/ AudioMutePrev(t) \/ AudioUnmute(t)
                               \/ AudioCommit(t)
     PROVE  UNCHANGED <<sceneDef, diskScenes, preview>>
  BY <1>4 DEF AssignCamera, AssignObs, AssignCommit, UnassignPosition, UnassignObs, UnassignCommit,
         SetAudioPosition, AudioMutePrev, AudioUnmute, AudioCommit, diskVars, liveVars
<1>5. ASSUME NEW t \in Thread, Cut(t) \/ CutRead(t) \/ CutSource(t) \/ VisRead(t)
                               \/ VisSet(t) \/ AutoAudioRead(t) \/ AutoAudioMute(t)
                               \/ AutoAudioUnmute(t) \/ AutoAudioCommit(t) \/ CutCommit(t)
                               \/ CutReply(t)
     PROVE  UNCHANGED <<sceneDef, diskScenes, preview>>
  BY <1>5 DEF Cut, CutRead, CutSource, VisRead, VisSet, AutoAudioRead, AutoAudioMute,
         AutoAudioUnmute, AutoAudioCommit, CutCommit, CutReply, diskVars, liveVars
<1>6. ASSUME (\E t \in Thread : SyncFetch(t)) \/ RunStart \/ MediaChange
             \/ (\E c \in Camera : StreamChange(c)) \/ (\E c \in Camera : Expire(c))
     PROVE  UNCHANGED <<sceneDef, diskScenes, preview>>
  BY <1>6 DEF SyncFetch, RunStart, MediaChange, StreamChange, Expire, diskVars, liveVars
<1>7. QED
  BY <1>1, <1>2, <1>3, <1>4, <1>5, <1>6 DEF Next, SyncStep, HiddenStep, PositionStep, AssignStep, SceneStep, LiveStep, Environment

\* What OBS holds.
LEMMA ChangesObs ==
    ASSUME Next
    PROVE  \/ UNCHANGED <<obs>>
           \/ \E t \in Thread : OffDisable(t) \/ OffMute(t) \/ HiddenCreateInput(t)
                                \/ CreateObs(t) \/ CreateUndo(t) \/ DeleteDisable(t)
                                \/ DeleteMute(t) \/ DeleteRemove(t) \/ AssignObs(t)
                                \/ UnassignObs(t) \/ AudioMutePrev(t) \/ AudioUnmute(t)
                                \/ CutSource(t) \/ VisSet(t) \/ AutoAudioMute(t)
                                \/ AutoAudioUnmute(t)
<1>1. ASSUME NEW t \in Thread, SyncFail(t) \/ SyncReconcile(t) \/ Prune(t)
     PROVE  UNCHANGED <<obs>>
  BY <1>1 DEF SyncFail, SyncReconcile, Prune
<1>2. ASSUME NEW t \in Thread, HiddenRegister(t)
     PROVE  UNCHANGED <<obs>>
  BY <1>2 DEF HiddenRegister
<1>3. ASSUME NEW t \in Thread, CreatePosition(t) \/ CreateCommit(t) \/ CreateConflict(t)
                               \/ RenamePosition(t) \/ DeletePosition(t) \/ DeleteCommit(t)
     PROVE  UNCHANGED <<obs>>
  BY <1>3 DEF CreatePosition, CreateCommit, CreateConflict, RenamePosition, DeletePosition,
         DeleteCommit
<1>4. ASSUME NEW t \in Thread, AssignCamera(t) \/ AssignCommit(t) \/ UnassignPosition(t)
                               \/ UnassignCommit(t) \/ SetAudioPosition(t) \/ AudioCommit(t)
     PROVE  UNCHANGED <<obs>>
  BY <1>4 DEF AssignCamera, AssignCommit, UnassignPosition, UnassignCommit, SetAudioPosition,
         AudioCommit
<1>5. ASSUME NEW t \in Thread, CreateScene(t) \/ RenameScene(t) \/ UpdateScenePositions(t)
                               \/ DeleteScene(t)
     PROVE  UNCHANGED <<obs>>
  BY <1>5 DEF CreateScene, RenameScene, UpdateScenePositions, DeleteScene
<1>6. ASSUME NEW t \in Thread, SetPreviewCamera(t) \/ SetPreviewScene(t) \/ Cut(t)
                               \/ CutRead(t) \/ VisRead(t) \/ AutoAudioRead(t)
                               \/ AutoAudioCommit(t) \/ CutCommit(t) \/ CutReply(t)
     PROVE  UNCHANGED <<obs>>
  BY <1>6 DEF SetPreviewCamera, SetPreviewScene, Cut, CutRead, VisRead, AutoAudioRead,
         AutoAudioCommit, CutCommit, CutReply
<1>7. ASSUME (\E t \in Thread : SyncFetch(t)) \/ RunStart \/ MediaChange
             \/ (\E c \in Camera : StreamChange(c)) \/ (\E c \in Camera : Expire(c))
             \/ Restart
     PROVE  UNCHANGED <<obs>>
  BY <1>7 DEF SyncFetch, RunStart, MediaChange, StreamChange, Expire, Restart
<1>8. QED
  BY <1>1, <1>2, <1>3, <1>4, <1>5, <1>6, <1>7 DEF Next, SyncStep, HiddenStep, PositionStep, AssignStep, SceneStep, LiveStep, Environment


\* The rest: the media server, the flags, what is on air and the ids handed out.
LEMMA ChangesRest ==
    ASSUME Next
    PROVE  \/ UNCHANGED <<streams, mediaUp, mediaConnected, hiddenReady, live, issued>>
           \/ \E t \in Thread : SyncFail(t) \/ SyncReconcile(t) \/ HiddenRegister(t)
                                \/ CreatePosition(t) \/ CreateScene(t) \/ CutCommit(t)
           \/ MediaChange
           \/ \E c \in Camera : StreamChange(c)
           \/ Restart
<1>1. ASSUME NEW t \in Thread, OffDisable(t) \/ OffMute(t) \/ Prune(t)
     PROVE  UNCHANGED <<streams, mediaUp, mediaConnected, hiddenReady, live, issued>>
  BY <1>1 DEF OffDisable, OffMute, Prune, mediaVars, camVars, posVars, liveVars
<1>2. ASSUME NEW t \in Thread, HiddenCreateInput(t)
     PROVE  UNCHANGED <<streams, mediaUp, mediaConnected, hiddenReady, live, issued>>
  BY <1>2 DEF HiddenCreateInput, mediaVars, camVars, posVars, liveVars
<1>3. ASSUME NEW t \in Thread, CreateObs(t) \/ CreateCommit(t) \/ CreateConflict(t)
                               \/ CreateUndo(t) \/ RenamePosition(t) \/ DeletePosition(t)
                               \/ DeleteDisable(t) \/ DeleteMute(t) \/ DeleteRemove(t)
                               \/ DeleteCommit(t)
     PROVE  UNCHANGED <<streams, mediaUp, mediaConnected, hiddenReady, live, issued>>
  BY <1>3 DEF CreateObs, CreateCommit, CreateConflict, CreateUndo, RenamePosition,
         DeletePosition, DeleteDisable, DeleteMute, DeleteRemove, DeleteCommit, mediaVars,
         camVars, posVars, liveVars
<1>4. ASSUME NEW t \in Thread, AssignCamera(t) \/ AssignObs(t) \/ AssignCommit(t)
                               \/ UnassignPosition(t) \/ UnassignObs(t)
                               \/ UnassignCommit(t) \/ SetAudioPosition(t)
                               \/ AudioMutePrev(t) \/ AudioUnmute(t) \/ AudioCommit(t)
     PROVE  UNCHANGED <<streams, mediaUp, mediaConnected, hiddenReady, live, issued>>
  BY <1>4 DEF AssignCamera, AssignObs, AssignCommit, UnassignPosition, UnassignObs,
         UnassignCommit, SetAudioPosition, AudioMutePrev, AudioUnmute, AudioCommit,
         mediaVars, camVars, posVars, liveVars
<1>5. ASSUME NEW t \in Thread, RenameScene(t) \/ UpdateScenePositions(t)
                               \/ DeleteScene(t)
     PROVE  UNCHANGED <<streams, mediaUp, mediaConnected, hiddenReady, live, issued>>
  BY <1>5 DEF RenameScene, UpdateScenePositions, DeleteScene, mediaVars, camVars, posVars,
         liveVars
<1>6. ASSUME NEW t \in Thread, SetPreviewCamera(t) \/ SetPreviewScene(t) \/ Cut(t)
                               \/ CutRead(t) \/ CutSource(t) \/ VisRead(t) \/ VisSet(t)
                               \/ AutoAudioRead(t) \/ AutoAudioMute(t)
                               \/ AutoAudioUnmute(t) \/ AutoAudioCommit(t) \/ CutReply(t)
     PROVE  UNCHANGED <<streams, mediaUp, mediaConnected, hiddenReady, live, issued>>
  BY <1>6 DEF SetPreviewCamera, SetPreviewScene, Cut, CutRead, CutSource, VisRead, VisSet,
         AutoAudioRead, AutoAudioMute, AutoAudioUnmute, AutoAudioCommit, CutReply,
         mediaVars, camVars, posVars, liveVars
<1>7. ASSUME (\E t \in Thread : SyncFetch(t)) \/ RunStart \/ (\E c \in Camera : Expire(c))
     PROVE  UNCHANGED <<streams, mediaUp, mediaConnected, hiddenReady, live, issued>>
  BY <1>7 DEF SyncFetch, RunStart, Expire, mediaVars, camVars, posVars, liveVars
<1>8. QED
  BY <1>1, <1>2, <1>3, <1>4, <1>5, <1>6, <1>7
  DEF Next, SyncStep, HiddenStep, PositionStep, AssignStep, SceneStep, LiveStep, Environment

\* OBS keeps its type: each step that calls it calls it once, for a position.
LEMMA ObsTypeStep ==
    ASSUME TypeInv, Next
    PROVE  obs' \in ObsType
<1>0. /\ obs \in ObsType
      /\ \A t \in Thread : th[t] \in TypedFrame
      /\ simple \in AllPos /\ Position \subseteq AllPos
  BY DEF TypeInv, TypeOK, AllPos
<1>1. ASSUME NEW t \in Thread, OffDisable(t) PROVE obs' \in ObsType
  BY <1>0, <1>1, ObsCalls DEF OffDisable, At, TypedFrame, Frame, FrameAt
<1>2. ASSUME NEW t \in Thread, OffMute(t) PROVE obs' \in ObsType
  BY <1>0, <1>2, ObsCalls DEF OffMute, At, TypedFrame, Frame, FrameAt
<1>3. ASSUME NEW t \in Thread, HiddenCreateInput(t) PROVE obs' \in ObsType
  BY <1>0, <1>3, ObsCalls DEF HiddenCreateInput, At, TypedFrame, Frame, FrameAt
<1>4. ASSUME NEW t \in Thread, CreateObs(t) PROVE obs' \in ObsType
  BY <1>0, <1>4, ObsCalls DEF CreateObs, At, TypedFrame, Frame, FrameAt
<1>5. ASSUME NEW t \in Thread, CreateUndo(t) PROVE obs' \in ObsType
  BY <1>0, <1>5, ObsCalls DEF CreateUndo, At, TypedFrame, Frame, FrameAt
<1>6. ASSUME NEW t \in Thread, DeleteDisable(t) PROVE obs' \in ObsType
  BY <1>0, <1>6, ObsCalls DEF DeleteDisable, At, TypedFrame, Frame, FrameAt
<1>7. ASSUME NEW t \in Thread, DeleteMute(t) PROVE obs' \in ObsType
  BY <1>0, <1>7, ObsCalls DEF DeleteMute, At, TypedFrame, Frame, FrameAt
<1>8. ASSUME NEW t \in Thread, DeleteRemove(t) PROVE obs' \in ObsType
  BY <1>0, <1>8, ObsCalls DEF DeleteRemove, At, TypedFrame, Frame, FrameAt
<1>9. ASSUME NEW t \in Thread, AssignObs(t) PROVE obs' \in ObsType
  BY <1>0, <1>9, ObsCalls DEF AssignObs, At, TypedFrame, Frame, FrameAt
<1>10. ASSUME NEW t \in Thread, UnassignObs(t) PROVE obs' \in ObsType
  BY <1>0, <1>10, ObsCalls DEF UnassignObs, At, TypedFrame, Frame, FrameAt
<1>11. ASSUME NEW t \in Thread, AudioMutePrev(t) PROVE obs' \in ObsType
  BY <1>0, <1>11, ObsCalls DEF AudioMutePrev, At, TypedFrame, Frame, FrameAt
<1>12. ASSUME NEW t \in Thread, AudioUnmute(t) PROVE obs' \in ObsType
  BY <1>0, <1>12, ObsCalls DEF AudioUnmute, At, TypedFrame, Frame, FrameAt
<1>13. ASSUME NEW t \in Thread, CutSource(t) PROVE obs' \in ObsType
  BY <1>0, <1>13, ObsCalls DEF CutSource, At, TypedFrame, Frame, FrameAt
<1>14. ASSUME NEW t \in Thread, VisSet(t) PROVE obs' \in ObsType
  BY <1>0, <1>14, ObsCalls DEF VisSet, At, TypedFrame, Frame, FrameAt
<1>15. ASSUME NEW t \in Thread, AutoAudioMute(t) PROVE obs' \in ObsType
  BY <1>0, <1>15, ObsCalls DEF AutoAudioMute, At, TypedFrame, Frame, FrameAt
<1>16. ASSUME NEW t \in Thread, AutoAudioUnmute(t) PROVE obs' \in ObsType
  BY <1>0, <1>16, ObsCalls DEF AutoAudioUnmute, At, TypedFrame, Frame, FrameAt
<1>17. QED
  BY <1>0, <1>1, <1>2, <1>3, <1>4, <1>5, <1>6, <1>7, <1>8, <1>9, <1>10, <1>11, <1>12, <1>13, <1>14, <1>15, <1>16, ChangesObs

\* Frames: the steps that return.
LEMMA ReturnFrames ==
    ASSUME TypeInv, NEW t \in Thread,
           SyncFail(t) \/ Prune(t) \/ CreateCommit(t) \/ CreateUndo(t)
           \/ DeleteCommit(t) \/ AudioCommit(t) \/ CutReply(t)
    PROVE  th' \in [Thread -> TypedFrame]
BY ReturnStep DEF TypeInv, SyncFail, Prune, CreateCommit, CreateUndo, DeleteCommit, AudioCommit, CutReply

\* Frames: the steps that keep their frame and go to another label, or return.
LEMMA GotoFrames ==
    ASSUME TypeInv, NEW t \in Thread,
           CreateObs(t) \/ CreateConflict(t) \/ DeleteDisable(t) \/ DeleteMute(t)
           \/ DeleteRemove(t) \/ AssignObs(t) \/ UnassignObs(t) \/ AudioMutePrev(t)
           \/ AudioUnmute(t) \/ HiddenCreateInput(t) \/ CutSource(t) \/ AutoAudioMute(t)
           \/ AutoAudioUnmute(t) \/ AutoAudioCommit(t) \/ UnassignCommit(t)
    PROVE  th' \in [Thread -> TypedFrame]
<1>0. /\ th \in [Thread -> TypedFrame]
      /\ FrameAt(th[t].pc, th[t])
  BY DEF TypeInv, TypedFrame
<1>1. CASE CreateObs(t)
  BY <1>0, <1>1, GotoStep, ReturnStep DEF CreateObs, At, FrameAt, Pcs, AllPos
<1>2. CASE CreateConflict(t)
  BY <1>0, <1>2, GotoStep, ReturnStep DEF CreateConflict, At, FrameAt, Pcs, AllPos
<1>3. CASE DeleteDisable(t)
  BY <1>0, <1>3, GotoStep, ReturnStep DEF DeleteDisable, At, FrameAt, Pcs, AllPos
<1>4. CASE DeleteMute(t)
  BY <1>0, <1>4, GotoStep, ReturnStep DEF DeleteMute, At, FrameAt, Pcs, AllPos
<1>5. CASE DeleteRemove(t)
  BY <1>0, <1>5, GotoStep, ReturnStep DEF DeleteRemove, At, FrameAt, Pcs, AllPos
<1>6. CASE AssignObs(t)
  BY <1>0, <1>6, GotoStep, ReturnStep DEF AssignObs, At, FrameAt, Pcs, AllPos
<1>7. CASE UnassignObs(t)
  BY <1>0, <1>7, GotoStep, ReturnStep DEF UnassignObs, At, FrameAt, Pcs, AllPos
<1>8. CASE AudioMutePrev(t)
  BY <1>0, <1>8, GotoStep, ReturnStep DEF AudioMutePrev, At, FrameAt, Pcs, AllPos
<1>9. CASE AudioUnmute(t)
  BY <1>0, <1>9, GotoStep, ReturnStep DEF AudioUnmute, At, FrameAt, Pcs, AllPos
<1>10. CASE HiddenCreateInput(t)
  BY <1>0, <1>10, GotoStep, ReturnStep DEF HiddenCreateInput, At, FrameAt, Pcs, AllPos
<1>11. CASE CutSource(t)
  BY <1>0, <1>11, GotoStep, ReturnStep DEF CutSource, At, FrameAt, Pcs, AllPos
<1>12. CASE AutoAudioMute(t)
  BY <1>0, <1>12, GotoStep, ReturnStep DEF AutoAudioMute, At, FrameAt, Pcs, AllPos
<1>13. CASE AutoAudioUnmute(t)
  BY <1>0, <1>13, GotoStep, ReturnStep DEF AutoAudioUnmute, At, FrameAt, Pcs, AllPos
<1>14. CASE AutoAudioCommit(t)
  BY <1>0, <1>14, GotoStep, ReturnStep DEF AutoAudioCommit, At, FrameAt, Pcs, AllPos
<1>15. CASE UnassignCommit(t)
  BY <1>0, <1>15, GotoStep, ReturnStep DEF UnassignCommit, At, FrameAt, Pcs, AllPos
<1>16. QED
  BY <1>1, <1>2, <1>3, <1>4, <1>5, <1>6, <1>7, <1>8, <1>9, <1>10, <1>11, <1>12, <1>13, <1>14, <1>15

\* Frames: those that calls start with, or go on with.
LEMMA FreshPos ==
    ASSUME NEW p \in Position, NEW ids \in SUBSET AllPos,
           NEW label \in {"delete_disable", "delete_mute", "delete_remove", "unassign_obs"}
    PROVE  [Idle EXCEPT !.pc = label, !.pos = p, !.todo = ids] \in TypedFrame
<1> DEFINE f == [Idle EXCEPT !.pc = label, !.pos = p, !.todo = ids]
<1>1. f \in Frame /\ f.pc = label /\ f.pos = p
  BY IdleTyped DEF Frame, Pcs, AllPos
<1> HIDE DEF f
<1>2. FrameAt(f.pc, f)
  BY <1>1 DEF FrameAt, AllPos
<1>3. QED
  BY <1>1, <1>2 DEF TypedFrame, f

LEMMA FreshUnassign ==
    ASSUME NEW p \in Position
    PROVE  [Idle EXCEPT !.pc = "unassign_obs", !.pos = p] \in TypedFrame
<1> DEFINE f == [Idle EXCEPT !.pc = "unassign_obs", !.pos = p]
<1>1. f \in Frame /\ f.pc = "unassign_obs" /\ f.pos = p
  BY IdleTyped DEF Frame, Pcs, AllPos
<1> HIDE DEF f
<1>2. FrameAt(f.pc, f)
  BY <1>1 DEF FrameAt, AllPos
<1>3. QED
  BY <1>1, <1>2 DEF TypedFrame, f

LEMMA FreshCreate ==
    ASSUME NEW p \in Position, NEW n \in Name
    PROVE  [Idle EXCEPT !.pc = "create_obs", !.pos = p, !.name = n] \in TypedFrame
<1> DEFINE f == [Idle EXCEPT !.pc = "create_obs", !.pos = p, !.name = n]
<1>1. f \in Frame /\ f.pc = "create_obs" /\ f.pos = p /\ f.name = n
  BY IdleTyped DEF Frame, Pcs, AllPos
<1> HIDE DEF f
<1>2. FrameAt(f.pc, f)
  BY <1>1 DEF FrameAt, AllPos
<1>3. QED
  BY <1>1, <1>2 DEF TypedFrame, f

LEMMA FreshAssign ==
    ASSUME NEW p \in Position, NEW c \in Camera
    PROVE  [Idle EXCEPT !.pc = "assign_obs", !.pos = p, !.sel = c] \in TypedFrame
<1> DEFINE f == [Idle EXCEPT !.pc = "assign_obs", !.pos = p, !.sel = c]
<1>1. f \in Frame /\ f.pc = "assign_obs" /\ f.pos = p /\ f.sel = c
  BY IdleTyped DEF Frame, Pcs, AllPos, Selection
<1> HIDE DEF f
<1>2. FrameAt(f.pc, f)
  BY <1>1 DEF FrameAt, AllPos
<1>3. QED
  BY <1>1, <1>2 DEF TypedFrame, f

LEMMA FreshAudio ==
    ASSUME NEW p \in Position, NEW prev \in AllPos \cup {None},
           NEW label \in {"audio_mute", "audio_unmute"},
           label = "audio_mute" => prev \in AllPos
    PROVE  [Idle EXCEPT !.pos = p, !.prev = prev, !.pc = label] \in TypedFrame
<1> DEFINE f == [Idle EXCEPT !.pos = p, !.prev = prev, !.pc = label]
<1>1. f \in Frame /\ f.pc = label /\ f.pos = p /\ f.prev = prev
  BY IdleTyped DEF Frame, Pcs, AllPos
<1> HIDE DEF f
<1>2. FrameAt(f.pc, f)
  BY <1>1 DEF FrameAt, AllPos
<1>3. QED
  BY <1>1, <1>2 DEF TypedFrame, f

LEMMA FreshSel ==
    ASSUME NEW sel \in Selection
    PROVE  [Idle EXCEPT !.pc = "cut_ok", !.sel = sel] \in TypedFrame
<1> DEFINE f == [Idle EXCEPT !.pc = "cut_ok", !.sel = sel]
<1>1. f \in Frame /\ f.pc = "cut_ok" /\ f.sel = sel
  BY IdleTyped DEF Frame, Pcs
<1> HIDE DEF f
<1>2. FrameAt(f.pc, f)
  BY <1>1 DEF FrameAt, AllPos
<1>3. QED
  BY <1>1, <1>2 DEF TypedFrame, f

LEMMA FreshIds ==
    ASSUME NEW sel \in Selection, NEW ids \in SUBSET AllPos,
           NEW label \in {"vis_read", "cut_source"},
           label = "cut_source" => sel \in Camera
    PROVE  [Idle EXCEPT !.pc = label, !.sel = sel, !.ids = ids] \in TypedFrame
<1> DEFINE f == [Idle EXCEPT !.pc = label, !.sel = sel, !.ids = ids]
<1>1. f \in Frame /\ f.pc = label /\ f.sel = sel
  BY IdleTyped DEF Frame, Pcs
<1> HIDE DEF f
<1>2. FrameAt(f.pc, f)
  BY <1>1 DEF FrameAt, AllPos
<1>3. QED
  BY <1>1, <1>2 DEF TypedFrame, f

LEMMA FreshVisibility ==
    ASSUME NEW ids \in SUBSET AllPos
    PROVE  [Idle EXCEPT !.pc = "vis_read", !.ids = ids] \in TypedFrame
<1> DEFINE f == [Idle EXCEPT !.pc = "vis_read", !.ids = ids]
<1>1. f \in Frame /\ f.pc = "vis_read"
  BY IdleTyped DEF Frame, Pcs
<1> HIDE DEF f
<1>2. FrameAt(f.pc, f)
  BY <1>1 DEF FrameAt, AllPos
<1>3. QED
  BY <1>1, <1>2 DEF TypedFrame, f

LEMMA FreshSync ==
    ASSUME NEW cams \in SUBSET Camera
    PROVE  [Idle EXCEPT !.pc = "sync_apply", !.cams = cams] \in TypedFrame
<1> DEFINE f == [Idle EXCEPT !.pc = "sync_apply", !.cams = cams]
<1>1. f \in Frame /\ f.pc = "sync_apply"
  BY IdleTyped DEF Frame, Pcs
<1> HIDE DEF f
<1>2. FrameAt(f.pc, f)
  BY <1>1 DEF FrameAt, AllPos
<1>3. QED
  BY <1>1, <1>2 DEF TypedFrame, f

\* Frames: what the operators that choose the next label return.
LEMMA RestTyped ==
    ASSUME NEW f \in Frame
    PROVE  Rest(f) \in TypedFrame
<1>1. [f EXCEPT !.pc = "off"] \in TypedFrame /\ [f EXCEPT !.pc = "prune"] \in TypedFrame
  BY MovedTyped DEF FrameAt, Pcs
<1>2. CASE f.ids # {}
  BY <1>1, <1>2 DEF Rest
<1>3. CASE f.ids = {} /\ f.cams # {}
  BY <1>1, <1>3 DEF Rest
<1>4. CASE f.ids = {} /\ f.cams = {}
  BY <1>4, IdleTyped DEF Rest
<1>5. QED
  BY <1>2, <1>3, <1>4

LEMMA VisibilityTyped ==
    ASSUME NEW f \in Frame
    PROVE  VisibilityLoop(f) \in TypedFrame
<1>1. [f EXCEPT !.pc = "vis_set"] \in TypedFrame /\ [f EXCEPT !.pc = "cut_commit"] \in TypedFrame
  BY MovedTyped DEF FrameAt, Pcs
<1>2. f.sel \in Camera => [f EXCEPT !.pc = "autoaudio_read"] \in TypedFrame
  BY MovedTyped DEF FrameAt, Pcs
<1>3. CASE f.todo # {}
  BY <1>1, <1>3 DEF VisibilityLoop
<1>4. CASE f.todo = {} /\ f.sel \in Camera
  BY <1>2, <1>4, OrchAssumption DEF VisibilityLoop, AfterVisibility
<1>5. CASE f.todo = {} /\ f.sel \notin Camera /\ f.sel \in Scene
  BY <1>1, <1>5, OrchAssumption DEF VisibilityLoop, AfterVisibility
<1>6. CASE f.todo = {} /\ f.sel \notin Camera /\ f.sel \notin Scene
  BY <1>6, IdleTyped DEF VisibilityLoop, AfterVisibility
<1>7. QED
  BY <1>3, <1>4, <1>5, <1>6

LEMMA HiddenTyped ==
    ASSUME NEW t \in Thread
    PROVE  AfterHidden(t) \in TypedFrame /\ EnsureHidden(t) \in TypedFrame
<1>1. [Idle EXCEPT !.pc = "cut_read"] \in TypedFrame /\ [Idle EXCEPT !.pc = "hidden_obs"] \in TypedFrame
  BY MovedTyped, IdleTyped DEF FrameAt, Pcs
<1>2. QED
  BY <1>1, IdleTyped DEF AfterHidden, EnsureHidden

LEMMA CutPlanTyped ==
    ASSUME TypeInv
    PROVE  CutPlan \in TypedFrame
<1> USE OrchAssumption, ObsAssumption
<1>0. preview \in Selection
  BY DEF TypeInv, TypeOK
<1>1. [Idle EXCEPT !.pc = "cut_ok", !.sel = preview] \in TypedFrame
  BY <1>0, FreshSel DEF Pcs
<1>2. [Idle EXCEPT !.pc = "vis_read", !.sel = preview, !.ids = EnableIDs(preview)] \in TypedFrame
  <2>1. EnableIDs(preview) \subseteq AllPos
    BY DEF EnableIDs, Positions
  <2>2. QED
    BY <1>0, <2>1, FreshIds DEF Pcs
<1>3. preview \in Camera => [Idle EXCEPT !.pc = "cut_source", !.sel = preview, !.ids = {simple}] \in TypedFrame
  BY <1>0, FreshIds DEF Pcs, AllPos
<1>4. CASE preview = None
  BY <1>4, IdleTyped DEF CutPlan
<1>5. CASE preview # None /\ live = preview
  BY <1>1, <1>5 DEF CutPlan
<1>6. CASE preview \in Camera /\ live # preview
  BY <1>3, <1>6, IdleTyped DEF CutPlan
<1>7. CASE preview \in Scene /\ live # preview
  BY <1>2, <1>7, IdleTyped DEF CutPlan
<1>8. QED
  BY <1>0, <1>4, <1>5, <1>6, <1>7 DEF Selection

\* Frames: the steps that build the frame of their thread.
LEMMA NewFrames ==
    ASSUME TypeInv, NEW t \in Thread,
           \/ SyncFetch(t) \/ SyncReconcile(t) \/ OffDisable(t) \/ OffMute(t) \/ HiddenRegister(t)
           \/ CreatePosition(t) \/ DeletePosition(t) \/ AssignCamera(t) \/ AssignCommit(t)
           \/ UnassignPosition(t) \/ SetAudioPosition(t) \/ UpdateScenePositions(t)
           \/ Cut(t) \/ CutRead(t) \/ VisRead(t) \/ VisSet(t) \/ AutoAudioRead(t) \/ CutCommit(t)
    PROVE  th' \in [Thread -> TypedFrame]
<1>0. /\ th \in [Thread -> TypedFrame] /\ th[t] \in Frame
      /\ FrameAt(th[t].pc, th[t])
  BY DEF TypeInv, TypedFrame
<1>1. CASE SyncFetch(t)
  <2>1. /\ [Idle EXCEPT !.pc = "sync_apply", !.cams = streams] \in TypedFrame
        /\ [Idle EXCEPT !.pc = "sync_fail"] \in TypedFrame
    BY FreshSync, MovedTyped, IdleTyped DEF TypeInv, TypeOK, FrameAt, Pcs
  <2>2. QED
    BY <1>0, <1>1, <2>1, FrameStep DEF SyncFetch
<1>2. CASE SyncReconcile(t)
  <2>1. PICK cleared \in SUBSET Positions :
           Become(t, Rest([Idle EXCEPT !.ids = cleared, !.todo = cleared \cap isAudio,
                                       !.cams = ToPrune(th[t].cams)]))
    BY <1>2 DEF SyncReconcile, ClearedFor
  <2>2. [Idle EXCEPT !.ids = cleared, !.todo = cleared \cap isAudio,
                     !.cams = ToPrune(th[t].cams)] \in Frame
    BY IdleTyped DEF TypeInv, TypeOK, Frame, ToPrune, Positions
  <2>3. QED
    BY <1>0, <2>1, <2>2, RestTyped, FrameStep
<1>3. CASE OffDisable(t)
  <2> DEFINE Left(p) == [th[t] EXCEPT !.ids = @ \ {p}, !.pos = p]
  <2>1. PICK p \in th[t].ids :
           Become(t, IF p \in Left(p).todo THEN [Left(p) EXCEPT !.pc = "off_mute"] ELSE Rest(Left(p)))
    BY <1>3 DEF OffDisable
  <2>2. p \in AllPos /\ Left(p) \in Frame /\ Left(p).pos = p
    BY <1>0 DEF Frame
  <2> HIDE DEF Left
  <2>3. [Left(p) EXCEPT !.pc = "off_mute"] \in TypedFrame
    BY <2>2, MovedTyped DEF FrameAt, Pcs
  <2>4. QED
    BY <1>0, <2>1, <2>2, <2>3, RestTyped, FrameStep
<1>4. CASE OffMute(t)
  BY <1>0, <1>4, RestTyped, FrameStep DEF OffMute
<1>5. CASE HiddenRegister(t)
  BY <1>0, <1>5, HiddenTyped, FrameStep DEF HiddenRegister
<1>6. CASE CreatePosition(t)
  <2>1. PICK n \in Name, p \in Position :
           Become(t, [Idle EXCEPT !.pc = "create_obs", !.pos = p, !.name = n])
    BY <1>6 DEF CreatePosition
  <2>2. [Idle EXCEPT !.pc = "create_obs", !.pos = p, !.name = n] \in TypedFrame
    BY FreshCreate
  <2>3. QED
    BY <1>0, <2>1, <2>2, FrameStep
<1>7. CASE DeletePosition(t)
  <2>1. PICK p \in Positions \ {simple}, l \in {"delete_disable", "delete_mute", "delete_remove"} :
           Become(t, [Idle EXCEPT !.pc = l, !.pos = p, !.todo = {p} \cap isAudio])
    BY <1>7 DEF DeletePosition
  <2>2. p \in Position /\ p \in AllPos
    BY DEF Positions, AllPos
  <2>3. [Idle EXCEPT !.pc = l, !.pos = p, !.todo = {p} \cap isAudio] \in TypedFrame
    BY <2>2, FreshPos
  <2>4. QED
    BY <1>0, <2>1, <2>3, FrameStep
<1>8. CASE AssignCamera(t)
  <2>1. PICK p \in Positions \ {simple}, c \in Camera :
           Become(t, [Idle EXCEPT !.pc = "assign_obs", !.pos = p, !.sel = c])
    BY <1>8 DEF AssignCamera
  <2>2. p \in Position /\ p \in AllPos /\ c \in Selection
    BY DEF Positions, AllPos, Selection
  <2>3. [Idle EXCEPT !.pc = "assign_obs", !.pos = p, !.sel = c] \in TypedFrame
    BY <2>2, FreshAssign
  <2>4. QED
    BY <1>0, <2>1, <2>3, FrameStep
<1>9. CASE AssignCommit(t)
  <2>1. CASE Return(t)
    BY <1>0, <2>1, ReturnStep
  <2>2. ASSUME NEW bumped \in SUBSET AllPos,
               Become(t, Rest([Idle EXCEPT !.ids = bumped, !.todo = bumped \cap isAudio]))
        PROVE  th' \in [Thread -> TypedFrame]
    <3>1. [Idle EXCEPT !.ids = bumped, !.todo = bumped \cap isAudio] \in Frame
      BY IdleTyped DEF Frame
    <3>2. QED
      BY <1>0, <2>2, <3>1, RestTyped, FrameStep
  <2>3. Bumped(th[t].pos, th[t].sel) \subseteq SUBSET AllPos
    BY DEF Bumped, Holders, Positions
  <2>4. QED
    BY <1>9, <2>1, <2>2, <2>3 DEF AssignCommit
<1>10. CASE UnassignPosition(t)
  <2>1. PICK p \in Positions \ {simple} : Become(t, [Idle EXCEPT !.pc = "unassign_obs", !.pos = p])
    BY <1>10 DEF UnassignPosition
  <2>2. p \in Position /\ p \in AllPos
    BY DEF Positions, AllPos
  <2>3. [Idle EXCEPT !.pc = "unassign_obs", !.pos = p] \in TypedFrame
    BY <2>2, FreshUnassign
  <2>4. QED
    BY <1>0, <2>1, <2>3, FrameStep
<1>11. CASE SetAudioPosition(t)
  <2>1. PICK p \in Positions \ {simple} :
           Become(t, [Idle EXCEPT !.pos = p, !.prev = audioPositionID,
                        !.pc = IF FirstAudioStep(p) = "mute" THEN "audio_mute" ELSE "audio_unmute"])
    BY <1>11 DEF SetAudioPosition
  <2>2. p \in Position /\ p \in AllPos /\ audioPositionID \in AllPos \cup {None}
    BY DEF Positions, AllPos, TypeInv, TypeOK
  <2>3. FirstAudioStep(p) = "mute" => audioPositionID \in AllPos
    BY <2>2 DEF FirstAudioStep
  <2>4. [Idle EXCEPT !.pos = p, !.prev = audioPositionID,
           !.pc = IF FirstAudioStep(p) = "mute" THEN "audio_mute" ELSE "audio_unmute"] \in TypedFrame
    BY <2>2, <2>3, FreshAudio
  <2>5. QED
    BY <1>0, <2>1, <2>4, FrameStep
<1>12. CASE UpdateScenePositions(t)
  <2>1. CASE UNCHANGED th
    BY <1>0, <2>1
  <2>2. ASSUME NEW ids \in SUBSET AllPos, Become(t, [Idle EXCEPT !.pc = "vis_read", !.ids = ids])
        PROVE  th' \in [Thread -> TypedFrame]
    <3>1. [Idle EXCEPT !.pc = "vis_read", !.ids = ids] \in TypedFrame
      BY FreshVisibility
    <3>2. QED
      BY <1>0, <2>2, <3>1, FrameStep
  <2>3. QED
    BY <1>12, <2>1, <2>2 DEF UpdateScenePositions, PublicIDs, Positions
<1>13. CASE Cut(t)
  BY <1>0, <1>13, HiddenTyped, FrameStep DEF Cut
<1>14. CASE CutRead(t)
  BY <1>0, <1>14, CutPlanTyped, FrameStep DEF CutRead
<1>15. CASE VisRead(t)
  <2>1. [th[t] EXCEPT !.todo = Positions] \in Frame
    BY <1>0 DEF Frame, Positions
  <2>2. QED
    BY <1>0, <1>15, <2>1, VisibilityTyped, FrameStep DEF VisRead
<1>16. CASE VisSet(t)
  <2>1. \A p : [th[t] EXCEPT !.todo = @ \ {p}] \in Frame
    BY <1>0 DEF Frame
  <2>2. QED
    BY <1>0, <1>16, <2>1, VisibilityTyped, FrameStep, ReturnStep DEF VisSet
<1>17. CASE AutoAudioRead(t)
  <2>1. /\ audioPositionID \in AllPos \cup {None}
        /\ FirstAudioStep(simple) = "mute" => audioPositionID \in AllPos
    BY DEF TypeInv, TypeOK, FirstAudioStep
  <2>2. th[t].sel \in Camera
    BY <1>0, <1>17 DEF AutoAudioRead, At, FrameAt
  <2> DEFINE f == [th[t] EXCEPT !.prev = audioPositionID]
             label == IF FirstAudioStep(simple) = "mute" THEN "autoaudio_mute" ELSE "autoaudio_unmute"
  <2>3. f \in Frame /\ f.prev = audioPositionID /\ f.sel \in Camera
    BY <1>0, <2>1, <2>2 DEF Frame
  <2>4. Become(t, [f EXCEPT !.pc = label])
    BY <1>17 DEF AutoAudioRead
  <2> HIDE DEF f
  <2>5. label \in Pcs /\ FrameAt(label, f)
    BY <2>1, <2>3 DEF Pcs, FrameAt
  <2>6. QED
    BY <1>0, <2>3, <2>4, <2>5, MovedTyped, FrameStep
<1>18. CASE CutCommit(t)
  <2>1. [Idle EXCEPT !.pc = "cut_ok", !.sel = th[t].sel] \in TypedFrame
    BY <1>0, FreshSel DEF Frame
  <2>2. QED
    BY <1>0, <1>18, <2>1, FrameStep DEF CutCommit
<1>19. QED
  BY <1>1, <1>2, <1>3, <1>4, <1>5, <1>6, <1>7, <1>8, <1>9, <1>10, <1>11, <1>12, <1>13, <1>14, <1>15, <1>16, <1>17, <1>18

LEMMA FramesTypeStep ==
    ASSUME TypeInv, Next
    PROVE  th' \in [Thread -> TypedFrame]
<1>0. th \in [Thread -> TypedFrame]
  BY DEF TypeInv
<1>1. ASSUME NEW t \in Thread,
             RenamePosition(t) \/ CreateScene(t) \/ RenameScene(t) \/ DeleteScene(t)
             \/ SetPreviewCamera(t) \/ SetPreviewScene(t)
      PROVE  th' = th
  BY <1>1 DEF RenamePosition, CreateScene, RenameScene, DeleteScene, SetPreviewCamera, SetPreviewScene
<1>2. ASSUME RunStart PROVE th' \in [Thread -> TypedFrame]
  BY <1>0, <1>2, HiddenTyped, FrameStep DEF RunStart, Thread
<1>3. ASSUME Restart PROVE th' \in [Thread -> TypedFrame]
  <2>1. [Idle EXCEPT !.pc = "run"] \in TypedFrame /\ [Idle EXCEPT !.pc = "idle"] \in TypedFrame
    BY MovedTyped, IdleTyped DEF FrameAt, Pcs
  <2>2. QED
    BY <1>3, <2>1 DEF Restart, BootFrames
<1>4. ASSUME MediaChange \/ (\E c \in Camera : StreamChange(c) \/ Expire(c)) PROVE th' = th
  BY <1>4 DEF MediaChange, StreamChange, Expire
<1>5. QED
  BY <1>0, <1>1, <1>2, <1>3, <1>4, ReturnFrames, GotoFrames, NewFrames
  DEF Next, SyncStep, HiddenStep, PositionStep, AssignStep, SceneStep, LiveStep, Environment

\* The names keep their types, on disk as well.
LEMMA NamesTypeStep ==
    ASSUME TypeInv, Next
    PROVE  /\ NamesTyped' /\ posName' \in [AllPos -> Name \cup {None, simple}]
           /\ diskPositions' \in [Position -> Name \cup {None}]
<1> DEFINE Goal == /\ NamesTyped' /\ posName' \in [AllPos -> Name \cup {None, simple}]
                   /\ diskPositions' \in [Position -> Name \cup {None}]
<1>0. /\ NamesTyped /\ posName \in [AllPos -> Name \cup {None, simple}]
      /\ diskPositions \in [Position -> Name \cup {None}]
      /\ \A t \in Thread : FrameAt(th[t].pc, th[t])
      /\ simple \notin Position
  BY ObsAssumption DEF TypeInv, TypeOK, TypedFrame
<1>1. CASE UNCHANGED <<posName, diskPositions>>
  BY <1>0, <1>1 DEF NamesTyped
<1>2. ASSUME NEW t \in Thread, HiddenRegister(t) PROVE Goal
  BY <1>0, <1>2 DEF HiddenRegister, diskVars, NamesTyped, AllPos
<1>3. ASSUME NEW t \in Thread, CreateCommit(t) PROVE Goal
  <2>1. th[t].pos \in Position /\ th[t].name \in Name
    BY <1>0, <1>3 DEF CreateCommit, At, FrameAt
  <2>2. QED
    BY <1>0, <1>3, <2>1 DEF CreateCommit, PersistPositions, NamesTyped, AllPos
<1>4. ASSUME NEW t \in Thread, RenamePosition(t) PROVE Goal
  <2>1. PICK p \in Position, n \in Name : /\ posName' = [posName EXCEPT ![p] = n]
                                         /\ \E ok : PersistPositions(ok, posName')
    BY <1>4 DEF RenamePosition, Positions, AllPos
  <2>2. QED
    BY <1>0, <2>1 DEF PersistPositions, NamesTyped, AllPos
<1>5. ASSUME NEW t \in Thread, DeleteCommit(t) PROVE Goal
  <2>1. th[t].pos \in Position
    BY <1>0, <1>5 DEF DeleteCommit, At, FrameAt
  <2>2. QED
    BY <1>0, <1>5, <2>1 DEF DeleteCommit, PersistPositions, NamesTyped, AllPos
<1>6. CASE Restart
  BY <1>0, <1>6 DEF Restart, LoadPositions, LoadedNames, diskVars, NamesTyped, AllPos
<1>7. QED
  BY <1>1, <1>2, <1>3, <1>4, <1>5, <1>6, ChangesNames

\* So do the assignment of the cameras and the audio source.
LEMMA AssignmentTypeStep ==
    ASSUME TypeInv, Next
    PROVE  /\ cameraID' \in [AllPos -> Camera \cup {None}]
           /\ isAudio' \subseteq AllPos /\ audioPositionID' \in AllPos \cup {None}
<1> DEFINE Goal == /\ cameraID' \in [AllPos -> Camera \cup {None}]
                   /\ isAudio' \subseteq AllPos /\ audioPositionID' \in AllPos \cup {None}
<1>0. /\ cameraID \in [AllPos -> Camera \cup {None}]
      /\ isAudio \subseteq AllPos /\ audioPositionID \in AllPos \cup {None}
      /\ \A t \in Thread : FrameAt(th[t].pc, th[t])
  BY DEF TypeInv, TypeOK, TypedFrame
<1>1. CASE UNCHANGED <<cameraID, isAudio, audioPositionID>>
  BY <1>0, <1>1
<1>2. ASSUME NEW t \in Thread, SyncReconcile(t) PROVE Goal
  BY <1>0, <1>2 DEF SyncReconcile, PointerWithout
<1>3. ASSUME NEW t \in Thread, DeleteCommit(t) PROVE Goal
  BY <1>0, <1>3 DEF DeleteCommit, audioVars
<1>4. ASSUME NEW t \in Thread, AssignCommit(t) PROVE Goal
  <2>1. th[t].sel \in Camera
    BY <1>0, <1>4 DEF AssignCommit, At, FrameAt
  <2>2. QED
    BY <1>0, <1>4, <2>1 DEF AssignCommit, PointerWithout, audioVars
<1>5. ASSUME NEW t \in Thread, UnassignCommit(t) PROVE Goal
  BY <1>0, <1>5 DEF UnassignCommit, PointerWithout, audioVars
<1>6. ASSUME NEW t \in Thread, AudioCommit(t) PROVE Goal
  BY <1>0, <1>6 DEF AudioCommit, MarkAudio, audioVars, Positions
<1>7. ASSUME NEW t \in Thread, AutoAudioCommit(t) PROVE Goal
  BY <1>0, <1>7 DEF AutoAudioCommit, Positions, AllPos
<1>8. ASSUME NEW t \in Thread, CutCommit(t) PROVE Goal
  BY <1>0, <1>8 DEF CutCommit, TakeCamera, audioVars
<1>9. CASE Restart
  BY <1>9 DEF Restart
<1>10. QED
  BY <1>1, <1>2, <1>3, <1>4, <1>5, <1>6, <1>7, <1>8, <1>9, ChangesAssignment

\* And the cameras.
LEMMA CamerasTypeStep ==
    ASSUME TypeInv, Next
    PROVE  status' \in [Camera -> Status] /\ offlineSince' \in [Camera -> Since]
<1>0. status \in [Camera -> Status] /\ offlineSince \in [Camera -> Since]
  BY DEF TypeInv, TypeOK
<1>1. ASSUME NEW t \in Thread, SyncReconcile(t)
      PROVE  status' \in [Camera -> Status] /\ offlineSince' \in [Camera -> Since]
  BY <1>0, <1>1 DEF SyncReconcile, ReconciledStatus, ReconciledSince, Status, Since
<1>2. ASSUME NEW t \in Thread, Prune(t)
      PROVE  status' \in [Camera -> Status] /\ offlineSince' \in [Camera -> Since]
  BY <1>0, <1>2 DEF Prune, Status, Since
<1>3. ASSUME NEW c \in Camera, Expire(c)
      PROVE  status' \in [Camera -> Status] /\ offlineSince' \in [Camera -> Since]
  BY <1>0, <1>3 DEF Expire, Since
<1>4. CASE Restart
  BY <1>4 DEF Restart, Status, Since
<1>5. QED
  BY <1>0, <1>1, <1>2, <1>3, <1>4, ChangesCameras

\* And the scenes, on disk as well, with the preview.
LEMMA ScenesTypeStep ==
    ASSUME TypeInv, Next
    PROVE  /\ sceneDef' \in [Scene -> SceneDef \cup {NoScene}]
           /\ diskScenes' \in [Scene -> SceneDef \cup {NoScene}]
           /\ preview' \in Selection
<1> DEFINE Defs == [Scene -> SceneDef \cup {NoScene}]
           Goal == sceneDef' \in Defs /\ diskScenes' \in Defs /\ preview' \in Selection
<1>0. sceneDef \in Defs /\ diskScenes \in Defs /\ preview \in Selection
  BY DEF TypeInv, TypeOK
<1>1. PublicIDs \subseteq SUBSET Position
  BY DEF PublicIDs, Positions, AllPos
<1>2. ASSUME NEW t \in Thread, CreateScene(t) PROVE Goal
  BY <1>0, <1>1, <1>2 DEF CreateScene, PersistScenes, SceneDef, liveVars
<1>3. ASSUME NEW t \in Thread, RenameScene(t) PROVE Goal
  <2>1. PICK s \in Scenes, n \in Name : /\ sceneDef' = [sceneDef EXCEPT ![s].name = n]
                                       /\ \E ok : PersistScenes(ok, sceneDef')
    BY <1>3 DEF RenameScene
  <2>2. s \in Scene /\ sceneDef[s] \in SceneDef
    BY <1>0 DEF Scenes
  <2>3. sceneDef' \in Defs
    BY <1>0, <2>1, <2>2 DEF SceneDef
  <2>4. QED
    BY <1>0, <1>3, <2>1, <2>3 DEF PersistScenes, RenameScene, liveVars
<1>4. ASSUME NEW t \in Thread, UpdateScenePositions(t) PROVE Goal
  <2>1. PICK s \in Scenes, ids \in PublicIDs : /\ sceneDef' = [sceneDef EXCEPT ![s].ids = ids]
                                              /\ \E ok : PersistScenes(ok, sceneDef')
    BY <1>4 DEF UpdateScenePositions
  <2>2. s \in Scene /\ sceneDef[s] \in SceneDef
    BY <1>0 DEF Scenes
  <2>3. sceneDef' \in Defs
    BY <1>0, <1>1, <2>1, <2>2 DEF SceneDef
  <2>4. QED
    BY <1>0, <1>4, <2>1, <2>3 DEF PersistScenes, UpdateScenePositions, liveVars
<1>5. ASSUME NEW t \in Thread, DeleteScene(t) PROVE Goal
  BY <1>0, <1>5 DEF DeleteScene, PersistScenes, Scenes, Selection
<1>6. ASSUME NEW t \in Thread, SetPreviewCamera(t) \/ SetPreviewScene(t) PROVE Goal
  BY <1>0, <1>6 DEF SetPreviewCamera, SetPreviewScene, diskVars, Selection, Scenes
<1>7. CASE Restart
  BY <1>0, <1>7 DEF Restart, LoadScenes, NoScene, SceneDef, diskVars, Selection
<1>8. QED
  BY <1>0, <1>2, <1>3, <1>4, <1>5, <1>6, <1>7, ChangesScenes

\* And the rest.
LEMMA RestTypeStep ==
    ASSUME TypeInv, Next
    PROVE  /\ streams' \subseteq Camera /\ mediaUp' \in BOOLEAN /\ mediaConnected' \in BOOLEAN
           /\ hiddenReady' \in BOOLEAN /\ live' \in Selection /\ issued' \subseteq Position \cup Scene
<1> DEFINE Goal ==
           /\ streams' \subseteq Camera /\ mediaUp' \in BOOLEAN /\ mediaConnected' \in BOOLEAN
           /\ hiddenReady' \in BOOLEAN /\ live' \in Selection /\ issued' \subseteq Position \cup Scene
<1>0. /\ streams \subseteq Camera /\ mediaUp \in BOOLEAN /\ mediaConnected \in BOOLEAN
      /\ hiddenReady \in BOOLEAN /\ live \in Selection /\ issued \subseteq Position \cup Scene
      /\ \A t \in Thread : th[t].sel \in Selection
  BY DEF TypeInv, TypeOK, Frame
<1>1. ASSUME NEW t \in Thread, SyncFail(t) \/ SyncReconcile(t) PROVE Goal
  BY <1>0, <1>1 DEF SyncFail, SyncReconcile, mediaVars, posVars, liveVars
<1>2. ASSUME NEW t \in Thread, HiddenRegister(t) PROVE Goal
  BY <1>0, <1>2 DEF HiddenRegister, mediaVars, camVars, liveVars
<1>3. ASSUME NEW t \in Thread, CreatePosition(t) \/ CreateScene(t) PROVE Goal
  BY <1>0, <1>3 DEF CreatePosition, CreateScene, mediaVars, camVars, posVars, liveVars
<1>4. ASSUME NEW t \in Thread, CutCommit(t) PROVE Goal
  BY <1>0, <1>4 DEF CutCommit, mediaVars, camVars
<1>5. CASE MediaChange
  BY <1>0, <1>5 DEF MediaChange, camVars, posVars, liveVars
<1>6. ASSUME NEW c \in Camera, StreamChange(c) PROVE Goal
  BY <1>0, <1>6 DEF StreamChange, camVars, posVars, liveVars
<1>7. CASE Restart
  BY <1>0, <1>7 DEF Restart, mediaVars, Selection
<1>8. QED
  BY <1>0, <1>1, <1>2, <1>3, <1>4, <1>5, <1>6, <1>7, ChangesRest

LEMMA TypeStep == TypeInv /\ [Next]_vars => TypeInv'
<1>1. ASSUME TypeInv, Next PROVE TypeInv'
  <2>1. th' \in [Thread -> Frame]
    BY <1>1, FramesTypeStep DEF TypedFrame
  <2>2. QED
    BY <1>1, <2>1, ObsTypeStep, FramesTypeStep, NamesTypeStep, AssignmentTypeStep, CamerasTypeStep,
       ScenesTypeStep, RestTypeStep DEF TypeInv, TypeOK
<1>2. ASSUME TypeInv, UNCHANGED vars PROVE TypeInv'
  BY <1>2 DEF TypeInv, TypeOK, NamesTyped, vars, mediaVars, camVars, posVars, audioVars, liveVars, diskVars
<1>3. QED
  BY <1>1, <1>2

LEMMA TypeInvariant == Spec => []TypeInv
BY InitTypes, TypeStep, PTL DEF Spec

\* Every variable keeps its type, and every thread holds in its frame what its
\* next step uses, whatever the operations and faults do to each other.
THEOREM TypeCorrect == Spec => []TypeOK
<1>1. TypeInv => TypeOK
  BY DEF TypeInv
<1>2. QED
  BY TypeInvariant, <1>1, PTL

-----------------------------------------------------------------------------
(***************************************************************************)
(* Safety: each theorem from an inductive invariant on top of the types.   *)
(***************************************************************************)

(***************************************************************************)
(* A camera is in at most one position.  Steps look for the holder of a    *)
(* camera among the positions there are, so the induction also needs that  *)
(* no camera is left behind on a position that is gone.                    *)
(***************************************************************************)
CamerasInPositions == \A p \in AllPos : cameraID[p] # None => p \in Positions

ExclusiveInv == CameraExclusive /\ CamerasInPositions

\* Taking cameras away, and only that, breaks neither part.
LEMMA ClearingKeepsExclusive ==
    ASSUME ExclusiveInv, Positions \subseteq Positions',
           \A p \in AllPos : cameraID'[p] = cameraID[p] \/ cameraID'[p] = None
    PROVE  ExclusiveInv'
<1>1. CameraExclusive'
  BY DEF ExclusiveInv, CameraExclusive
<1>2. CamerasInPositions'
  BY DEF ExclusiveInv, CamerasInPositions
<1>3. QED
  BY <1>1, <1>2 DEF ExclusiveInv

LEMMA ExclusiveStep ==
    ASSUME TypeInv, ExclusiveInv, Next
    PROVE  ExclusiveInv'
<1>0. /\ cameraID \in [AllPos -> Camera \cup {None}]
      /\ posName \in [AllPos -> Name \cup {None, simple}] /\ NamesTyped
      /\ \A t \in Thread : FrameAt(th[t].pc, th[t])
      /\ simple \in AllPos /\ Position \subseteq AllPos /\ simple \notin Position
      /\ None \notin Name /\ None # simple /\ None \notin Camera
  BY ObsAssumption, OrchAssumption DEF TypeInv, TypeOK, TypedFrame, AllPos
<1>1. ASSUME UNCHANGED cameraID, Positions \subseteq Positions' PROVE ExclusiveInv'
  BY <1>1, ClearingKeepsExclusive
<1>2. CASE UNCHANGED <<posName, diskPositions>> /\ UNCHANGED <<cameraID, isAudio, audioPositionID>>
  BY <1>1, <1>2 DEF Positions
<1>3. ASSUME NEW t \in Thread, HiddenRegister(t) PROVE ExclusiveInv'
  BY <1>0, <1>1, <1>3 DEF HiddenRegister, Positions
<1>4. ASSUME NEW t \in Thread, CreateCommit(t) PROVE ExclusiveInv'
  <2>1. th[t].name \in Name /\ th[t].pos \in Position
    BY <1>0, <1>4 DEF CreateCommit, At, FrameAt
  <2>2. QED
    BY <1>0, <1>1, <1>4, <2>1 DEF CreateCommit, Positions
<1>5. ASSUME NEW t \in Thread, RenamePosition(t) PROVE ExclusiveInv'
  BY <1>0, <1>1, <1>5 DEF RenamePosition, Positions
<1>6. ASSUME NEW t \in Thread, DeleteCommit(t) PROVE ExclusiveInv'
  <2>1. th[t].pos \in Position
    BY <1>0, <1>6 DEF DeleteCommit, At, FrameAt
  <2>2. CASE th[t].pos \notin Positions
    BY <1>1, <1>6, <2>2 DEF DeleteCommit, Positions
  <2>3. CASE th[t].pos \in Positions
    <3>1. /\ posName' = [posName EXCEPT ![th[t].pos] = None]
          /\ cameraID' = [cameraID EXCEPT ![th[t].pos] = None]
      BY <1>6, <2>3 DEF DeleteCommit
    <3>2. CameraExclusive'
      BY <1>0, <2>1, <3>1 DEF ExclusiveInv, CameraExclusive
    <3>3. CamerasInPositions'
      BY <1>0, <2>1, <3>1 DEF ExclusiveInv, CamerasInPositions, Positions
    <3>4. QED
      BY <3>2, <3>3 DEF ExclusiveInv
  <2>4. QED
    BY <2>2, <2>3
<1>7. ASSUME NEW t \in Thread, SyncReconcile(t) PROVE ExclusiveInv'
  <2>1. \A p \in AllPos : cameraID'[p] = cameraID[p] \/ cameraID'[p] = None
    BY <1>7 DEF SyncReconcile
  <2>2. QED
    BY <1>7, <2>1, ClearingKeepsExclusive DEF SyncReconcile, Positions
<1>8. ASSUME NEW t \in Thread, AssignCommit(t) PROVE ExclusiveInv'
  <2>1. CASE th[t].pos \notin Positions
    BY <1>1, <1>8, <2>1 DEF AssignCommit, Positions
  <2>2. CASE th[t].pos \in Positions
    <3> DEFINE p == th[t].pos
               c == th[t].sel
    <3>1. PICK bumped \in Bumped(p, c) :
             cameraID' = [q \in AllPos |-> IF q = p THEN c
                                           ELSE IF q \in bumped THEN None ELSE cameraID[q]]
      BY <1>8, <2>2 DEF AssignCommit
    <3>2. c \in Camera /\ p \in AllPos
      BY <1>0, <1>8, <2>2 DEF AssignCommit, At, FrameAt, Positions
    <3>3. \A q \in AllPos \ {p} : cameraID[q] = c => q \in bumped
      BY <1>0, <3>2 DEF Bumped, Holders, ExclusiveInv, CameraExclusive, CamerasInPositions, Positions
    <3>4. CameraExclusive'
      BY <3>1, <3>2, <3>3 DEF ExclusiveInv, CameraExclusive
    <3>5. CamerasInPositions'
      BY <1>8, <2>2, <3>1, <3>2 DEF ExclusiveInv, CamerasInPositions, AssignCommit, Positions
    <3>6. QED
      BY <3>4, <3>5 DEF ExclusiveInv
  <2>3. QED
    BY <2>1, <2>2
<1>9. ASSUME NEW t \in Thread, UnassignCommit(t) PROVE ExclusiveInv'
  <2>1. \A p \in AllPos : cameraID'[p] = cameraID[p] \/ cameraID'[p] = None
    BY <1>0, <1>9 DEF UnassignCommit
  <2>2. QED
    BY <1>9, <2>1, ClearingKeepsExclusive DEF UnassignCommit, Positions
<1>10. ASSUME NEW t \in Thread, AudioCommit(t) \/ AutoAudioCommit(t) PROVE ExclusiveInv'
  BY <1>1, <1>10 DEF AudioCommit, AutoAudioCommit, Positions
<1>11. ASSUME NEW t \in Thread, CutCommit(t) PROVE ExclusiveInv'
  <2>1. CASE UNCHANGED cameraID
    BY <1>1, <1>11, <2>1 DEF CutCommit, Positions
  <2>2. CASE th[t].sel \in Camera /\ simple \in Positions
    <3>1. cameraID' = [p \in AllPos |-> IF p = simple THEN th[t].sel
                                       ELSE IF cameraID[p] = th[t].sel THEN None ELSE cameraID[p]]
      BY <1>11, <2>2 DEF CutCommit, TakeCamera
    <3>2. CameraExclusive'
      BY <2>2, <3>1 DEF ExclusiveInv, CameraExclusive
    <3>3. CamerasInPositions'
      BY <1>11, <2>2, <3>1 DEF ExclusiveInv, CamerasInPositions, CutCommit, Positions
    <3>4. QED
      BY <3>2, <3>3 DEF ExclusiveInv
  <2>3. QED
    BY <1>11, <2>1, <2>2 DEF CutCommit, TakeCamera
<1>12. CASE Restart
  BY <1>12 DEF Restart, ExclusiveInv, CameraExclusive, CamerasInPositions
<1>13. QED
  BY <1>2, <1>3, <1>4, <1>5, <1>6, <1>7, <1>8, <1>9, <1>10, <1>11, <1>12,
     ChangesNames, ChangesAssignment

LEMMA ExclusiveInvariant == Spec => []ExclusiveInv
<1>1. Init => ExclusiveInv
  BY DEF Init, ExclusiveInv, CameraExclusive, CamerasInPositions
<1>2. TypeInv /\ ExclusiveInv /\ [Next]_vars => ExclusiveInv'
  <2>1. ASSUME ExclusiveInv, UNCHANGED vars PROVE ExclusiveInv'
    BY <2>1 DEF ExclusiveInv, CameraExclusive, CamerasInPositions, Positions, vars, posVars
  <2>2. QED
    BY <2>1, ExclusiveStep
<1>3. QED
  BY <1>1, <1>2, TypeInvariant, PTL DEF Spec

\* A camera is never in two positions, whatever AssignCamera, Cut,
\* UnassignPosition, DeletePosition and SyncOnce do to each other.
THEOREM CameraNeverTwice == Spec => []CameraExclusive
<1>1. ExclusiveInv => CameraExclusive
  BY DEF ExclusiveInv
<1>2. QED
  BY <1>1, ExclusiveInvariant, PTL

(***************************************************************************)
(* The record of the moment a camera went offline.                         *)
(***************************************************************************)
LEMMA OfflineStep ==
    ASSUME TypeInv, OfflineTracked, Next
    PROVE  OfflineTracked'
<1>0. status \in [Camera -> Status] /\ offlineSince \in [Camera -> Since]
  BY DEF TypeInv, TypeOK
<1>1. CASE UNCHANGED <<status, offlineSince>>
  BY <1>1 DEF OfflineTracked
<1>2. ASSUME NEW t \in Thread, SyncReconcile(t) PROVE OfflineTracked'
  BY <1>0, <1>2 DEF SyncReconcile, ReconciledStatus, ReconciledSince, OfflineTracked, Status, Since
<1>3. ASSUME NEW t \in Thread, Prune(t) PROVE OfflineTracked'
  BY <1>0, <1>3 DEF Prune, OfflineTracked
<1>4. ASSUME NEW c \in Camera, Expire(c) PROVE OfflineTracked'
  BY <1>0, <1>4 DEF Expire, OfflineTracked
<1>5. CASE Restart
  BY <1>5 DEF Restart, OfflineTracked
<1>6. QED
  BY <1>1, <1>2, <1>3, <1>4, <1>5, ChangesCameras

\* A camera is offline exactly while the moment it went offline is recorded,
\* whichever answers of the media server concurrent syncs apply, in any order.
THEOREM OfflineAlwaysTracked == Spec => []OfflineTracked
<1>1. Init => OfflineTracked
  BY DEF Init, OfflineTracked
<1>2. TypeInv /\ OfflineTracked /\ [Next]_vars => OfflineTracked'
  <2>1. ASSUME OfflineTracked, UNCHANGED vars PROVE OfflineTracked'
    BY <2>1 DEF OfflineTracked, vars, camVars
  <2>2. QED
    BY <2>1, OfflineStep
<1>3. QED
  BY <1>1, <1>2, TypeInvariant, PTL DEF Spec

(***************************************************************************)
(* Names.  A failed save leaves memory and file different, so both have to *)
(* be free of duplicates for the induction to go through a restart.        *)
(***************************************************************************)
LEMMA PositionNamesStep ==
    ASSUME TypeInv, PositionNamesUnique, Next
    PROVE  PositionNamesUnique'
<1>0. /\ posName \in [AllPos -> Name \cup {None, simple}]
      /\ diskPositions \in [Position -> Name \cup {None}]
      /\ \A t \in Thread : FrameAt(th[t].pc, th[t])
      /\ Position \subseteq AllPos /\ simple \notin Position
  BY ObsAssumption DEF TypeInv, TypeOK, TypedFrame, AllPos
<1>1. CASE UNCHANGED <<posName, diskPositions>>
  BY <1>1 DEF PositionNamesUnique, NamesUnique
<1>2. ASSUME NEW names \in [AllPos -> Name \cup {None, simple}], NamesUnique(names), NEW ok,
             PersistPositions(ok, names), posName' = names \/ posName' = posName
      PROVE  PositionNamesUnique'
  BY <1>0, <1>2 DEF PersistPositions, PositionNamesUnique, NamesUnique
<1>3. ASSUME NEW p \in Position, NEW n \in Name, NameFree(n)
      PROVE  /\ [posName EXCEPT ![p] = n] \in [AllPos -> Name \cup {None, simple}]
             /\ NamesUnique([posName EXCEPT ![p] = n])
  BY <1>0, <1>3 DEF NameFree, PositionNamesUnique, NamesUnique
<1>4. ASSUME NEW t \in Thread, HiddenRegister(t) PROVE PositionNamesUnique'
  BY <1>0, <1>4 DEF HiddenRegister, diskVars, PositionNamesUnique, NamesUnique
<1>5. ASSUME NEW t \in Thread, CreateCommit(t) PROVE PositionNamesUnique'
  <2> DEFINE names == [posName EXCEPT ![th[t].pos] = th[t].name]
  <2>1. th[t].pos \in Position /\ th[t].name \in Name /\ NameFree(th[t].name)
    BY <1>0, <1>5 DEF CreateCommit, At, FrameAt
  <2>2. \E ok : PersistPositions(ok, names) /\ (posName' = names \/ posName' = posName)
    BY <1>5 DEF CreateCommit
  <2>3. names \in [AllPos -> Name \cup {None, simple}] /\ NamesUnique(names)
    BY <1>3, <2>1
  <2>4. QED
    BY <1>2, <2>2, <2>3
<1>6. ASSUME NEW t \in Thread, RenamePosition(t) PROVE PositionNamesUnique'
  <2>1. PICK p \in Position, n \in Name :
           /\ NameFree(n)
           /\ posName' = [posName EXCEPT ![p] = n]
           /\ \E ok : PersistPositions(ok, posName')
    BY <1>6 DEF RenamePosition, Positions, AllPos
  <2>2. posName' \in [AllPos -> Name \cup {None, simple}] /\ NamesUnique(posName')
    BY <1>3, <2>1
  <2>3. QED
    BY <1>2, <2>1, <2>2
<1>7. ASSUME NEW t \in Thread, DeleteCommit(t) PROVE PositionNamesUnique'
  <2>1. CASE th[t].pos \notin Positions
    BY <1>1, <1>7, <2>1 DEF DeleteCommit
  <2>2. CASE th[t].pos \in Positions
    <3>1. /\ posName' = [posName EXCEPT ![th[t].pos] = None]
          /\ \E ok : PersistPositions(ok, posName')
      BY <1>7, <2>2 DEF DeleteCommit
    <3>2. posName' \in [AllPos -> Name \cup {None, simple}] /\ NamesUnique(posName')
      BY <1>0, <3>1 DEF PositionNamesUnique, NamesUnique
    <3>3. QED
      BY <1>2, <3>1, <3>2
  <2>3. QED
    BY <2>1, <2>2
<1>8. CASE Restart
  BY <1>0, <1>8 DEF Restart, LoadPositions, LoadedNames, diskVars, PositionNamesUnique, NamesUnique
<1>9. QED
  BY <1>1, <1>4, <1>5, <1>6, <1>7, <1>8, ChangesNames

\* No two positions ever share a name, in memory or in the file, although
\* CreatePosition calls OBS between its two checks and saves can fail.
THEOREM PositionNamesNeverClash == Spec => []PositionNamesUnique
<1>1. Init => PositionNamesUnique
  BY ObsAssumption, OrchAssumption DEF Init, LoadedNames, PositionNamesUnique, NamesUnique, AllPos
<1>2. TypeInv /\ PositionNamesUnique /\ [Next]_vars => PositionNamesUnique'
  <2>1. ASSUME PositionNamesUnique, UNCHANGED vars PROVE PositionNamesUnique'
    BY <2>1 DEF PositionNamesUnique, NamesUnique, vars, posVars, diskVars
  <2>2. QED
    BY <2>1, PositionNamesStep
<1>3. QED
  BY <1>1, <1>2, TypeInvariant, PTL DEF Spec

(***************************************************************************)
(* Scenes: their names, and the scene in preview.                          *)
(***************************************************************************)
ScenesInv == SceneNamesUnique /\ PreviewSceneExists

LEMMA ScenesStep ==
    ASSUME TypeInv, ScenesInv, Next
    PROVE  ScenesInv'
<1> DEFINE Defs == [Scene -> SceneDef \cup {NoScene}]
<1>0. /\ sceneDef \in Defs /\ diskScenes \in Defs
      /\ None \notin Scene /\ None \notin Name /\ Camera \cap Scene = {}
      /\ NoScene.name = None
  BY OrchAssumption DEF TypeInv, TypeOK, NoScene
<1>1. CASE UNCHANGED <<sceneDef, diskScenes, preview>>
  BY <1>1 DEF ScenesInv, SceneNamesUnique, SceneDefsUnique, PreviewSceneExists, Scenes
<1>2. ASSUME NEW defs \in Defs, SceneDefsUnique(defs), NEW ok,
             PersistScenes(ok, defs), sceneDef' = defs \/ sceneDef' = sceneDef
      PROVE  SceneNamesUnique'
  BY <1>2 DEF ScenesInv, PersistScenes, SceneNamesUnique, SceneDefsUnique
<1>3. ASSUME NEW t \in Thread, CreateScene(t) PROVE ScenesInv'
  <2>1. PICK s \in Scene, n \in Name, ids \in PublicIDs, ok \in SaveResult :
           /\ SceneNameFree(n)
           /\ PersistScenes(ok, [sceneDef EXCEPT ![s] = [name |-> n, ids |-> ids]])
           /\ sceneDef' = IF ok THEN [sceneDef EXCEPT ![s] = [name |-> n, ids |-> ids]] ELSE sceneDef
           /\ preview' = preview
    BY <1>3 DEF CreateScene, liveVars
  <2> DEFINE new == [name |-> n, ids |-> ids]
             defs == [sceneDef EXCEPT ![s] = new]
  <2>2. new \in SceneDef /\ new.name = n /\ new # NoScene
    BY <1>0 DEF SceneDef, PublicIDs, Positions, AllPos
  <2>3. PersistScenes(ok, defs) /\ (sceneDef' = defs \/ sceneDef' = sceneDef)
    BY <2>1
  <2> HIDE DEF new
  <2>4. defs \in Defs /\ SceneDefsUnique(defs)
    BY <1>0, <2>1, <2>2 DEF ScenesInv, SceneNamesUnique, SceneDefsUnique, SceneNameFree
  <2>5. PreviewSceneExists'
    BY <1>0, <2>1, <2>2, <2>3 DEF ScenesInv, PreviewSceneExists, Scenes
  <2>6. QED
    BY <1>2, <2>3, <2>4, <2>5 DEF ScenesInv
<1>4. ASSUME NEW t \in Thread, RenameScene(t) PROVE ScenesInv'
  <2>1. PICK s \in Scenes, n \in Name :
           /\ SceneNameFree(n)
           /\ sceneDef' = [sceneDef EXCEPT ![s].name = n]
           /\ \E ok : PersistScenes(ok, sceneDef')
           /\ preview' = preview
    BY <1>4 DEF RenameScene, liveVars
  <2> DEFINE new == [sceneDef[s] EXCEPT !.name = n]
  <2>2. s \in Scene /\ sceneDef[s] \in SceneDef
    BY <1>0 DEF Scenes
  <2>3. new \in SceneDef /\ new.name = n /\ new # NoScene
    BY <1>0, <2>2 DEF SceneDef
  <2>4. sceneDef' = [sceneDef EXCEPT ![s] = new]
    BY <1>0, <2>1, <2>2
  <2> HIDE DEF new
  <2>5. sceneDef' \in Defs /\ SceneDefsUnique(sceneDef')
    BY <1>0, <2>1, <2>2, <2>3, <2>4 DEF ScenesInv, SceneNamesUnique, SceneDefsUnique, SceneNameFree
  <2>6. PreviewSceneExists'
    BY <1>0, <2>1, <2>3, <2>4 DEF ScenesInv, PreviewSceneExists, Scenes
  <2>7. QED
    BY <1>2, <2>1, <2>5, <2>6 DEF ScenesInv
<1>5. ASSUME NEW t \in Thread, UpdateScenePositions(t) PROVE ScenesInv'
  <2>1. PICK s \in Scenes, ids \in PublicIDs :
           /\ sceneDef' = [sceneDef EXCEPT ![s].ids = ids]
           /\ \E ok : PersistScenes(ok, sceneDef')
           /\ preview' = preview
    BY <1>5 DEF UpdateScenePositions, liveVars
  <2> DEFINE new == [sceneDef[s] EXCEPT !.ids = ids]
  <2>2. s \in Scene /\ sceneDef[s] \in SceneDef /\ ids \in SUBSET Position
    BY <1>0 DEF Scenes, PublicIDs, Positions, AllPos
  <2>3. new \in SceneDef /\ new.name = sceneDef[s].name /\ new # NoScene
    BY <1>0, <2>2 DEF SceneDef
  <2>4. sceneDef' = [sceneDef EXCEPT ![s] = new]
    BY <1>0, <2>1, <2>2
  <2> HIDE DEF new
  <2>5. sceneDef' \in Defs /\ SceneDefsUnique(sceneDef')
    BY <1>0, <2>2, <2>3, <2>4 DEF ScenesInv, SceneNamesUnique, SceneDefsUnique
  <2>6. PreviewSceneExists'
    BY <1>0, <2>1, <2>3, <2>4 DEF ScenesInv, PreviewSceneExists, Scenes
  <2>7. QED
    BY <1>2, <2>1, <2>5, <2>6 DEF ScenesInv
<1>6. ASSUME NEW t \in Thread, DeleteScene(t) PROVE ScenesInv'
  <2>1. PICK s \in Scene : /\ sceneDef' = [sceneDef EXCEPT ![s] = NoScene]
                           /\ preview' = IF preview = s THEN None ELSE preview
                           /\ \E ok : PersistScenes(ok, sceneDef')
    BY <1>6 DEF DeleteScene, Scenes
  <2>2. sceneDef' \in Defs /\ SceneDefsUnique(sceneDef')
    BY <1>0, <2>1 DEF ScenesInv, SceneNamesUnique, SceneDefsUnique
  <2>3. PreviewSceneExists'
    BY <1>0, <2>1 DEF ScenesInv, PreviewSceneExists, Scenes
  <2>4. QED
    BY <1>2, <2>1, <2>2, <2>3 DEF ScenesInv
<1>7. ASSUME NEW t \in Thread, SetPreviewCamera(t) \/ SetPreviewScene(t) PROVE ScenesInv'
  BY <1>0, <1>7 DEF SetPreviewCamera, SetPreviewScene, diskVars, ScenesInv, SceneNamesUnique,
     SceneDefsUnique, PreviewSceneExists, Scenes
<1>8. CASE Restart
  BY <1>0, <1>8 DEF Restart, LoadScenes, NoScene, diskVars, ScenesInv, SceneNamesUnique, SceneDefsUnique, PreviewSceneExists
<1>9. QED
  BY <1>1, <1>3, <1>4, <1>5, <1>6, <1>7, <1>8, ChangesScenes

LEMMA ScenesInvariant == Spec => []ScenesInv
<1>1. Init => ScenesInv
  BY OrchAssumption DEF Init, ScenesInv, SceneNamesUnique, PreviewSceneExists
<1>2. TypeInv /\ ScenesInv /\ [Next]_vars => ScenesInv'
  <2>1. ASSUME ScenesInv, UNCHANGED vars PROVE ScenesInv'
    BY <2>1 DEF ScenesInv, SceneNamesUnique, SceneDefsUnique, PreviewSceneExists, Scenes,
       vars, liveVars, diskVars
  <2>2. QED
    BY <2>1, ScenesStep
<1>3. QED
  BY <1>1, <1>2, TypeInvariant, PTL DEF Spec

\* No two scenes ever share a name, in memory or in the file.
THEOREM SceneNamesNeverClash == Spec => []SceneNamesUnique
<1>1. ScenesInv => SceneNamesUnique
  BY DEF ScenesInv
<1>2. QED
  BY <1>1, ScenesInvariant, PTL

\* The preview never shows a scene that has been deleted.
THEOREM PreviewNeverDangles == Spec => []PreviewSceneExists
<1>1. ScenesInv => PreviewSceneExists
  BY DEF ScenesInv
<1>2. QED
  BY <1>1, ScenesInvariant, PTL

(***************************************************************************)
(* The audio pointer.  The step of Cut that makes the hidden position the  *)
(* audio source does not look whether that position exists: it does,       *)
(* because Cut went through ensureHiddenPosition before, and nothing       *)
(* removes the hidden position.  The induction carries that along.         *)
(***************************************************************************)
HiddenPcs == {"cut_read", "cut_source", "vis_read", "vis_set", "autoaudio_read",
              "autoaudio_mute", "autoaudio_unmute", "autoaudio_commit"}

HiddenUser(f) ==      \* a frame that relies on the hidden position
    f.pc \in HiddenPcs /\ (f.pc = "cut_read" \/ f.sel \in Camera)

HiddenKept == \A t \in Thread : HiddenUser(th[t]) => simple \in Positions

AudioInv == AudioPointerValid /\ HiddenKept

\* Frames at a label outside HiddenPcs, and frames about no camera.
LEMMA NotHiddenUser ==
    ASSUME NEW f \in Frame
    PROVE  /\ \A label \in Pcs \ HiddenPcs : ~HiddenUser([f EXCEPT !.pc = label])
           /\ ~HiddenUser(Idle)
           /\ ~HiddenUser(Rest(f))
           /\ HiddenUser(VisibilityLoop(f)) => f.sel \in Camera
<1>1. \A label \in Pcs \ HiddenPcs : ~HiddenUser([f EXCEPT !.pc = label])
  BY DEF HiddenUser, Frame
<1>2. ~HiddenUser(Idle)
  BY DEF HiddenUser, Idle, HiddenPcs
<1>3. ~HiddenUser(Rest(f))
  <2>1. ~HiddenUser([f EXCEPT !.pc = "off"]) /\ ~HiddenUser([f EXCEPT !.pc = "prune"])
    BY <1>1 DEF Pcs, HiddenPcs
  <2>2. Rest(f) \in {[f EXCEPT !.pc = "off"], [f EXCEPT !.pc = "prune"], Idle}
    <3>1. CASE f.ids # {}
      BY <3>1 DEF Rest
    <3>2. CASE f.ids = {} /\ f.cams # {}
      BY <3>2 DEF Rest
    <3>3. CASE f.ids = {} /\ f.cams = {}
      BY <3>3 DEF Rest
    <3>4. QED
      BY <3>1, <3>2, <3>3
  <2>3. QED
    BY <1>2, <2>1, <2>2
<1>4. HiddenUser(VisibilityLoop(f)) => f.sel \in Camera
  <2> SUFFICES ASSUME f.sel \notin Camera PROVE ~HiddenUser(VisibilityLoop(f))
    OBVIOUS
  <2>1. ~HiddenUser([f EXCEPT !.pc = "vis_set"]) /\ ~HiddenUser([f EXCEPT !.pc = "cut_commit"])
    BY DEF HiddenUser, HiddenPcs, Frame
  <2>2. VisibilityLoop(f) \in {[f EXCEPT !.pc = "vis_set"], [f EXCEPT !.pc = "cut_commit"], Idle}
    <3>1. CASE f.todo # {}
      BY <3>1 DEF VisibilityLoop
    <3>2. CASE f.todo = {} /\ f.sel \in Scene
      BY <3>2 DEF VisibilityLoop, AfterVisibility
    <3>3. CASE f.todo = {} /\ f.sel \notin Scene
      BY <3>3 DEF VisibilityLoop, AfterVisibility
    <3>4. QED
      BY <3>1, <3>2, <3>3
  <2>3. QED
    BY <1>2, <2>1, <2>2
<1>5. QED
  BY <1>1, <1>2, <1>3, <1>4

\* A thread comes to rely on the hidden position only where it exists.
LEMMA HiddenEntered ==
    ASSUME TypeInv, NEW t \in Thread, HiddenUser(th'[t]), th'[t] # th[t], Next
    PROVE  HiddenUser(th[t]) \/ simple \in Positions'
<1> DEFINE Goal == HiddenUser(th[t]) \/ simple \in Positions'
<1>0. /\ \A u \in Thread : th[u] \in Frame
      /\ \A u \in Thread : \A f : Become(u, f) => u = t /\ th'[t] = f
      /\ \A u \in Thread : \A label : Goto(u, label) => u = t /\ th'[t] = [th[t] EXCEPT !.pc = label]
      /\ \A u \in Thread : Return(u) => th'[t] = Idle
  BY DEF TypeInv, TypeOK, Become, Goto, Return
<1>1. ASSUME NEW u \in Thread, NEW label \in Pcs \ HiddenPcs, Goto(u, label) PROVE FALSE
  <2>1. ~HiddenUser([th[t] EXCEPT !.pc = label])
    BY <1>0, NotHiddenUser
  <2>2. QED
    BY <1>0, <1>1, <2>1
<1>2. ASSUME NEW u \in Thread, Return(u) PROVE FALSE
  BY <1>0, <1>2, NotHiddenUser
<1>3. ASSUME NEW u \in Thread, NEW f, Become(u, f), f.pc \notin HiddenPcs PROVE FALSE
  BY <1>0, <1>3 DEF HiddenUser
<1>4. ASSUME NEW u \in Thread,
             HiddenCreateInput(u) \/ CreateObs(u) \/ CreateConflict(u)
             \/ DeleteDisable(u) \/ DeleteMute(u) \/ DeleteRemove(u) \/ AssignObs(u)
             \/ UnassignObs(u) \/ UnassignCommit(u) \/ AudioMutePrev(u) \/ AudioUnmute(u)
             \/ AutoAudioCommit(u)
      PROVE  Goal
  BY <1>1, <1>2, <1>4 DEF Pcs, HiddenPcs, HiddenCreateInput, CreateObs, CreateConflict, DeleteDisable, DeleteMute, DeleteRemove, AssignObs, UnassignObs, UnassignCommit, AudioMutePrev, AudioUnmute, AutoAudioCommit
<1>5. ASSUME NEW u \in Thread,
             SyncFail(u) \/ Prune(u) \/ CreateCommit(u) \/ CreateUndo(u)
             \/ DeleteCommit(u) \/ AudioCommit(u) \/ CutReply(u)
      PROVE  Goal
  BY <1>2, <1>5 DEF SyncFail, Prune, CreateCommit, CreateUndo, DeleteCommit, AudioCommit, CutReply
<1>6. ASSUME NEW u \in Thread,
             RenamePosition(u) \/ CreateScene(u) \/ RenameScene(u) \/ DeleteScene(u)
             \/ SetPreviewCamera(u) \/ SetPreviewScene(u)
      PROVE  Goal
  BY <1>6 DEF RenamePosition, CreateScene, RenameScene, DeleteScene, SetPreviewCamera, SetPreviewScene
<1>7. ASSUME NEW u \in Thread, SyncFetch(u) PROVE Goal
  <2>1. ~HiddenUser([Idle EXCEPT !.pc = "sync_fail"])
    BY IdleTyped, NotHiddenUser DEF Pcs, HiddenPcs
  <2>2. ~HiddenUser([Idle EXCEPT !.pc = "sync_apply", !.cams = streams])
    BY DEF Idle, HiddenUser, HiddenPcs
  <2>3. QED
    BY <1>0, <1>7, <2>1, <2>2 DEF SyncFetch
<1>8. ASSUME NEW u \in Thread, SyncReconcile(u) PROVE Goal
  <2>1. PICK cleared \in SUBSET Positions :
           Become(u, Rest([Idle EXCEPT !.ids = cleared, !.todo = cleared \cap isAudio,
                                       !.cams = ToPrune(th[u].cams)]))
    BY <1>8 DEF SyncReconcile, ClearedFor
  <2>2. [Idle EXCEPT !.ids = cleared, !.todo = cleared \cap isAudio,
                     !.cams = ToPrune(th[u].cams)] \in Frame
    BY IdleTyped DEF TypeInv, TypeOK, Frame, ToPrune, Positions
  <2>3. QED
    BY <1>0, <2>1, <2>2, NotHiddenUser
<1>9. ASSUME NEW u \in Thread, OffDisable(u) PROVE Goal
  <2> DEFINE Left(p) == [th[u] EXCEPT !.ids = @ \ {p}, !.pos = p]
  <2>1. PICK p \in th[u].ids :
           Become(u, IF p \in Left(p).todo THEN [Left(p) EXCEPT !.pc = "off_mute"] ELSE Rest(Left(p)))
    BY <1>9 DEF OffDisable
  <2>2. p \in AllPos /\ Left(p) \in Frame
    <3>1. th[u] \in Frame
      BY <1>0
    <3>2. QED
      BY <3>1 DEF Frame
  <2> HIDE DEF Left
  <2>3. QED
    BY <1>0, <2>1, <2>2, NotHiddenUser DEF Pcs, HiddenPcs
<1>10. ASSUME NEW u \in Thread, OffMute(u) PROVE Goal
  BY <1>0, <1>10, NotHiddenUser DEF OffMute
<1>11. ASSUME NEW u \in Thread, HiddenRegister(u) PROVE Goal
  BY <1>11, ObsAssumption DEF HiddenRegister, Positions, AllPos, TypeInv, TypeOK
<1>12. ASSUME NEW u \in Thread, Cut(u) \/ (u = Ticker /\ RunStart) PROVE Goal
  <2>1. Become(u, EnsureHidden(u)) /\ Positions' = Positions
    BY <1>12 DEF Cut, RunStart, posVars, Positions
  <2>2. ~HiddenUser([Idle EXCEPT !.pc = "hidden_obs"])
    BY IdleTyped, NotHiddenUser DEF Pcs, HiddenPcs
  <2>3. QED
    BY <1>0, <2>1, <2>2 DEF EnsureHidden
<1>13. ASSUME NEW u \in Thread,
              CreatePosition(u) \/ DeletePosition(u) \/ AssignCamera(u) \/ UnassignPosition(u)
              \/ SetAudioPosition(u)
      PROVE  Goal
  <2>1. CASE CreatePosition(u)
    <3>1. PICK n \in Name, p \in Position :
            Become(u, [Idle EXCEPT !.pc = "create_obs", !.pos = p, !.name = n])
      BY <2>1 DEF CreatePosition
    <3> DEFINE f == [Idle EXCEPT !.pc = "create_obs", !.pos = p, !.name = n]
    <3>2. f.pc = "create_obs" /\ Become(u, f)
      BY <3>1 DEF Idle
    <3> HIDE DEF f
    <3>3. QED
      BY <1>3, <3>2 DEF HiddenPcs
  <2>2. CASE DeletePosition(u)
    <3>1. PICK p \in Positions, l \in {"delete_disable", "delete_mute", "delete_remove"} :
            Become(u, [Idle EXCEPT !.pc = l, !.pos = p, !.todo = {p} \cap isAudio])
      BY <2>2 DEF DeletePosition
    <3> DEFINE f == [Idle EXCEPT !.pc = l, !.pos = p, !.todo = {p} \cap isAudio]
    <3>2. f.pc = l /\ Become(u, f)
      BY <3>1 DEF Idle
    <3> HIDE DEF f
    <3>3. QED
      BY <1>3, <3>2 DEF HiddenPcs
  <2>3. CASE AssignCamera(u)
    <3>1. PICK p \in Positions, c \in Camera :
            Become(u, [Idle EXCEPT !.pc = "assign_obs", !.pos = p, !.sel = c])
      BY <2>3 DEF AssignCamera
    <3> DEFINE f == [Idle EXCEPT !.pc = "assign_obs", !.pos = p, !.sel = c]
    <3>2. f.pc = "assign_obs" /\ Become(u, f)
      BY <3>1 DEF Idle
    <3> HIDE DEF f
    <3>3. QED
      BY <1>3, <3>2 DEF HiddenPcs
  <2>4. CASE UnassignPosition(u)
    <3>1. PICK p \in Positions :
            Become(u, [Idle EXCEPT !.pc = "unassign_obs", !.pos = p])
      BY <2>4 DEF UnassignPosition
    <3> DEFINE f == [Idle EXCEPT !.pc = "unassign_obs", !.pos = p]
    <3>2. f.pc = "unassign_obs" /\ Become(u, f)
      BY <3>1 DEF Idle
    <3> HIDE DEF f
    <3>3. QED
      BY <1>3, <3>2 DEF HiddenPcs
  <2>5. CASE SetAudioPosition(u)
    <3>1. PICK p \in Positions, l \in {"audio_mute", "audio_unmute"} :
            Become(u, [Idle EXCEPT !.pos = p, !.prev = audioPositionID, !.pc = l])
      BY <2>5 DEF SetAudioPosition
    <3> DEFINE f == [Idle EXCEPT !.pos = p, !.prev = audioPositionID, !.pc = l]
    <3>2. f.pc = l /\ Become(u, f)
      BY <3>1 DEF Idle
    <3> HIDE DEF f
    <3>3. QED
      BY <1>3, <3>2 DEF HiddenPcs
  <2>6. QED
    BY <1>13, <2>1, <2>2, <2>3, <2>4, <2>5
<1>14. ASSUME NEW u \in Thread, AssignCommit(u) PROVE Goal
  <2>1. ASSUME NEW bumped \in SUBSET AllPos,
               Become(u, Rest([Idle EXCEPT !.ids = bumped, !.todo = bumped \cap isAudio]))
        PROVE  Goal
    <3>1. [Idle EXCEPT !.ids = bumped, !.todo = bumped \cap isAudio] \in Frame
      BY IdleTyped DEF Frame
    <3>2. QED
      BY <1>0, <2>1, <3>1, NotHiddenUser
  <2>2. Bumped(th[u].pos, th[u].sel) \subseteq SUBSET AllPos
    BY DEF Bumped, Holders, Positions
  <2>3. QED
    BY <1>2, <1>14, <2>1, <2>2 DEF AssignCommit
<1>15. ASSUME NEW u \in Thread, UpdateScenePositions(u) PROVE Goal
  <2>1. CASE UNCHANGED th
    BY <2>1
  <2>2. ASSUME NEW ids, Become(u, [Idle EXCEPT !.pc = "vis_read", !.ids = ids]) PROVE Goal
    <3> DEFINE f == [Idle EXCEPT !.pc = "vis_read", !.ids = ids]
    <3>1. f.pc = "vis_read" /\ f.sel = None /\ Become(u, f)
      BY <2>2 DEF Idle
    <3> HIDE DEF f
    <3>2. QED
      BY <1>0, <3>1, ObsAssumption DEF HiddenUser
  <2>3. QED
    BY <1>15, <2>1, <2>2 DEF UpdateScenePositions
<1>16. ASSUME NEW u \in Thread, CutCommit(u) PROVE Goal
  <2>1. ~HiddenUser([Idle EXCEPT !.pc = "cut_ok", !.sel = th[u].sel])
    BY DEF Idle, HiddenUser, HiddenPcs
  <2>2. QED
    BY <1>0, <1>16, <2>1 DEF CutCommit
<1>17. ASSUME NEW u \in Thread,
              CutRead(u) \/ CutSource(u) \/ AutoAudioRead(u) \/ AutoAudioMute(u) \/ AutoAudioUnmute(u)
      PROVE  Goal
  <2>1. u = t
    BY <1>0, <1>17 DEF CutRead, CutSource, AutoAudioRead, AutoAudioMute, AutoAudioUnmute, Goto, Return
  <2>2. HiddenUser(th[u])
    BY <1>17 DEF CutRead, CutSource, AutoAudioRead, AutoAudioMute, AutoAudioUnmute, At, HiddenUser,
       HiddenPcs, TypeInv, TypedFrame, FrameAt
  <2>3. QED
    BY <2>1, <2>2
<1>18. ASSUME NEW u \in Thread, VisRead(u) \/ VisSet(u) PROVE Goal
  <2>1. \A ids \in SUBSET AllPos : [th[u] EXCEPT !.todo = ids] \in Frame /\ [th[u] EXCEPT !.todo = ids].sel = th[u].sel
    BY <1>0 DEF Frame
  <2>2. PICK ids \in SUBSET AllPos : Return(u) \/ Become(u, VisibilityLoop([th[u] EXCEPT !.todo = ids]))
    <3>1. CASE VisRead(u)
      BY <3>1 DEF VisRead, Positions
    <3>2. CASE VisSet(u)
      <4>1. \A p : th[u].todo \ {p} \in SUBSET AllPos
        BY <1>0 DEF Frame
      <4>2. QED
        BY <3>2, <4>1 DEF VisSet
    <3>3. QED
      BY <1>18, <3>1, <3>2
  <2>3. u = t /\ th[u].sel \in Camera
    <3> DEFINE f == [th[u] EXCEPT !.todo = ids]
    <3>1. f \in Frame /\ f.sel = th[u].sel
      BY <2>1
    <3>2. Become(u, VisibilityLoop(f))
      BY <1>2, <2>2
    <3> HIDE DEF f
    <3>3. QED
      BY <1>0, <3>1, <3>2, NotHiddenUser
  <2>4. th[u].pc \in {"vis_read", "vis_set"}
    BY <1>18 DEF VisRead, VisSet, At
  <2>5. QED
    BY <2>3, <2>4 DEF HiddenUser, HiddenPcs
<1>19. ASSUME Restart PROVE Goal
  <2>1. ~HiddenUser([Idle EXCEPT !.pc = "run"]) /\ ~HiddenUser([Idle EXCEPT !.pc = "idle"])
    BY IdleTyped, NotHiddenUser DEF Pcs, HiddenPcs
  <2>2. QED
    BY <1>19, <2>1 DEF Restart, BootFrames
<1>20. ASSUME MediaChange \/ (\E c \in Camera : StreamChange(c) \/ Expire(c)) PROVE Goal
  BY <1>20 DEF MediaChange, StreamChange, Expire
<1>21. QED
  BY <1>4, <1>5, <1>6, <1>7, <1>8, <1>9, <1>10, <1>11, <1>12, <1>13, <1>14, <1>15, <1>16, <1>17,
     <1>18, <1>19, <1>20
  DEF Next, SyncStep, HiddenStep, PositionStep, AssignStep, SceneStep, LiveStep, Environment, Thread


LEMMA HiddenStays ==
    ASSUME TypeInv, simple \in Positions, Next
    PROVE  simple \in Positions' \/ Restart
<1>0. /\ posName \in [AllPos -> Name \cup {None, simple}] /\ simple \in AllPos /\ simple \notin Position
      /\ None # simple /\ \A t \in Thread : FrameAt(th[t].pc, th[t])
  BY ObsAssumption DEF TypeInv, TypeOK, TypedFrame, AllPos
<1>1. CASE UNCHANGED <<posName, diskPositions>>
  BY <1>1 DEF Positions
<1>2. ASSUME NEW t \in Thread, HiddenRegister(t) PROVE simple \in Positions'
  BY <1>0, <1>2 DEF HiddenRegister, Positions
<1>3. ASSUME NEW t \in Thread, CreateCommit(t) \/ DeleteCommit(t) PROVE simple \in Positions'
  <2>1. th[t].pos # simple
    BY <1>0, <1>3 DEF CreateCommit, DeleteCommit, At, FrameAt
  <2>2. posName'[simple] = posName[simple]
    BY <1>0, <1>3, <2>1 DEF CreateCommit, DeleteCommit
  <2>3. QED
    BY <2>2 DEF Positions
<1>4. ASSUME NEW t \in Thread, RenamePosition(t) PROVE simple \in Positions'
  BY <1>0, <1>4 DEF RenamePosition, Positions
<1>5. QED
  BY <1>1, <1>2, <1>3, <1>4, ChangesNames

LEMMA AudioStep ==
    ASSUME TypeInv, AudioInv, Next
    PROVE  AudioInv'
<1>0. /\ AudioPointerValid /\ HiddenKept
      /\ posName \in [AllPos -> Name \cup {None, simple}] /\ NamesTyped
      /\ \A t \in Thread : FrameAt(th[t].pc, th[t])
      /\ isAudio \subseteq AllPos /\ simple \in AllPos /\ Position \subseteq AllPos /\ simple \notin Position
      /\ None \notin Name /\ None # simple /\ None \notin AllPos
  BY ObsAssumption, OrchAssumption DEF AudioInv, TypeInv, TypeOK, TypedFrame, AllPos
<1>1. HiddenKept'
  <2> SUFFICES ASSUME NEW t \in Thread, HiddenUser(th'[t]) PROVE simple \in Positions'
    BY DEF HiddenKept, Thread
  <2>1. ~Restart
    <3>1. ~HiddenUser([Idle EXCEPT !.pc = "run"]) /\ ~HiddenUser([Idle EXCEPT !.pc = "idle"])
      BY IdleTyped, NotHiddenUser DEF Pcs, HiddenPcs
    <3>2. QED
      BY <3>1 DEF Restart, BootFrames
  <2>2. CASE HiddenUser(th[t])
    BY <1>0, <2>1, <2>2, HiddenStays DEF HiddenKept
  <2>3. CASE ~HiddenUser(th[t])
    BY <2>3, HiddenEntered
  <2>4. QED
    BY <2>2, <2>3
<1>2. ASSUME Positions \subseteq Positions', UNCHANGED <<isAudio, audioPositionID>>
      PROVE  AudioPointerValid'
  BY <1>0, <1>2 DEF AudioPointerValid
<1>3. ASSUME NEW ps, UNCHANGED posName, isAudio' = isAudio \ ps, audioPositionID' = PointerWithout(ps)
      PROVE  AudioPointerValid'
  BY <1>0, <1>3 DEF AudioPointerValid, PointerWithout, Positions
<1>4. ASSUME UNCHANGED <<posName, diskPositions>>, UNCHANGED <<cameraID, isAudio, audioPositionID>>
      PROVE  AudioPointerValid'
  BY <1>2, <1>4 DEF Positions
<1>5. ASSUME NEW t \in Thread, HiddenRegister(t) PROVE AudioPointerValid'
  BY <1>0, <1>2, <1>5 DEF HiddenRegister, Positions, audioVars
<1>6. ASSUME NEW t \in Thread, CreateCommit(t) PROVE AudioPointerValid'
  <2>1. th[t].name \in Name /\ th[t].pos \in Position
    BY <1>0, <1>6 DEF CreateCommit, At, FrameAt
  <2>2. QED
    BY <1>0, <1>2, <1>6, <2>1 DEF CreateCommit, Positions, audioVars
<1>7. ASSUME NEW t \in Thread, RenamePosition(t) PROVE AudioPointerValid'
  BY <1>0, <1>2, <1>7 DEF RenamePosition, Positions, audioVars
<1>8. ASSUME NEW t \in Thread, DeleteCommit(t) PROVE AudioPointerValid'
  BY <1>0, <1>8 DEF DeleteCommit, AudioPointerValid, Positions, audioVars
<1>9. ASSUME NEW t \in Thread, SyncReconcile(t) PROVE AudioPointerValid'
  BY <1>3, <1>9 DEF SyncReconcile
<1>10. ASSUME NEW t \in Thread, AssignCommit(t) PROVE AudioPointerValid'
  BY <1>2, <1>3, <1>10 DEF AssignCommit, audioVars, Positions
<1>11. ASSUME NEW t \in Thread, UnassignCommit(t) PROVE AudioPointerValid'
  BY <1>2, <1>3, <1>11 DEF UnassignCommit, audioVars, Positions
<1>12. ASSUME NEW t \in Thread, AudioCommit(t) PROVE AudioPointerValid'
  BY <1>0, <1>2, <1>12 DEF AudioCommit, MarkAudio, AudioPointerValid, audioVars, Positions
<1>13. ASSUME NEW t \in Thread, AutoAudioCommit(t) PROVE AudioPointerValid'
  <2>1. HiddenUser(th[t])
    BY <1>0, <1>13 DEF AutoAudioCommit, At, FrameAt, HiddenUser, HiddenPcs
  <2>2. simple \in Positions
    BY <1>0, <2>1 DEF HiddenKept
  <2>3. QED
    BY <1>13, <2>2 DEF AutoAudioCommit, AudioPointerValid, Positions
<1>14. ASSUME NEW t \in Thread, CutCommit(t) PROVE AudioPointerValid'
  BY <1>2, <1>14 DEF CutCommit, audioVars, Positions
<1>15. ASSUME Restart PROVE AudioPointerValid'
  BY <1>15 DEF Restart, AudioPointerValid
<1>16. AudioPointerValid'
  BY <1>4, <1>5, <1>6, <1>7, <1>8, <1>9, <1>10, <1>11, <1>12, <1>13, <1>14, <1>15,
     ChangesNames, ChangesAssignment
<1>17. QED
  BY <1>1, <1>16 DEF AudioInv

LEMMA AudioInvariant == Spec => []AudioInv
<1>1. Init => AudioInv
  <2>1. ~HiddenUser([Idle EXCEPT !.pc = "run"]) /\ ~HiddenUser([Idle EXCEPT !.pc = "idle"])
    BY IdleTyped, NotHiddenUser DEF Pcs, HiddenPcs
  <2>2. QED
    BY <2>1 DEF Init, BootFrames, AudioInv, AudioPointerValid, HiddenKept
<1>2. TypeInv /\ AudioInv /\ [Next]_vars => AudioInv'
  <2>1. ASSUME AudioInv, UNCHANGED vars PROVE AudioInv'
    BY <2>1 DEF AudioInv, AudioPointerValid, HiddenKept, HiddenUser, Positions, vars, posVars, audioVars
  <2>2. QED
    BY <2>1, AudioStep
<1>3. QED
  BY <1>1, <1>2, TypeInvariant, PTL DEF Spec

\* The audio pointer never names a position that is gone or that is not marked
\* as an audio source: the next SetAudioPosition finds what it has to mute.
THEOREM AudioPointerNeverDangles == Spec => []AudioPointerValid
<1>1. AudioInv => AudioPointerValid
  BY DEF AudioInv
<1>2. QED
  BY <1>1, AudioInvariant, PTL

=============================================================================

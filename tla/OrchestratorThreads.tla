------------------------- MODULE OrchestratorThreads -------------------------
(***************************************************************************)
(* Theorems about Orchestrator that hold under a limit on what runs at the *)
(* same time or on what fails, each with the limit as its hypothesis.  The *)
(* invariants follow a thread through an operation, so the first part says *)
(* how a step changes the frame of its thread.                             *)
(***************************************************************************)
EXTENDS OrchestratorProofs

-----------------------------------------------------------------------------
(* The frames.                                                             *)

StepOf(t) ==
    \/ SyncFetch(t) \/ SyncStep(t) \/ HiddenStep(t) \/ PositionStep(t) \/ AssignStep(t)
    \/ SceneStep(t) \/ LiveStep(t)
    \/ t = Ticker /\ RunStart

CreateLabels == {"create_obs", "create_commit", "create_undo"}
DeleteLabels == {"delete_disable", "delete_mute", "delete_remove", "delete_commit"}
\* The labels between reading the audio pointer and writing it.
AudioLabels  == {"audio_mute", "audio_unmute", "audio_commit",
                 "autoaudio_mute", "autoaudio_unmute", "autoaudio_commit"}

\* The labels at which an invariant below says something of the frame.
Tracked == CreateLabels \cup DeleteLabels \cup AudioLabels \cup {"hidden_reg", "sync_apply"}

\* The steps that lead to such a label with a new frame, and from one to the next.
Enters(t) == \/ SyncFetch(t) \/ SyncReconcile(t) \/ CreatePosition(t) \/ DeletePosition(t)
             \/ SetAudioPosition(t) \/ AutoAudioRead(t)
Edges == {<<"hidden_obs", "hidden_reg">>, <<"create_obs", "create_commit">>,
          <<"create_commit", "create_undo">>, <<"delete_disable", "delete_mute">>,
          <<"delete_disable", "delete_remove">>, <<"delete_mute", "delete_remove">>,
          <<"delete_remove", "delete_commit">>, <<"audio_mute", "audio_unmute">>,
          <<"audio_unmute", "audio_commit">>, <<"autoaudio_mute", "autoaudio_unmute">>,
          <<"autoaudio_unmute", "autoaudio_commit">>}

\* A frame that goes nowhere tracked, with the cameras of g or none.
Leaves(g, f) == f.pc \notin Tracked /\ f.cams \in {{}, g.cams}
Follows(g, f) == \E l \in Pcs : <<g.pc, l>> \in Edges /\ f = [g EXCEPT !.pc = l]

LEMMA StepsOf ==
    ASSUME Next
    PROVE  (\E t \in Thread : StepOf(t)) \/ Environment
BY DEF Next, StepOf, Thread

LEMMA Leaving ==
    ASSUME NEW g \in Frame, NEW f \in Frame, f.cams = g.cams
    PROVE  /\ Leaves(g, Idle)
           /\ Leaves(g, Rest(f))
           /\ Leaves(g, VisibilityLoop(f))
           /\ \A l \in Pcs \ Tracked : Leaves(g, [g EXCEPT !.pc = l])
<1> USE DEF Tracked, CreateLabels, DeleteLabels, AudioLabels, Leaves
<1>1. Leaves(g, Idle)
  BY DEF Idle
<1>2. ASSUME NEW l \in Pcs \ Tracked, NEW h \in Frame, h.cams = g.cams
      PROVE  Leaves(g, [h EXCEPT !.pc = l])
  <2>1. [h EXCEPT !.pc = l].pc = l /\ [h EXCEPT !.pc = l].cams = h.cams
    BY DEF Frame
  <2> QED
    BY <1>2, <2>1
<1>3. /\ "off" \in Pcs \ Tracked /\ "prune" \in Pcs \ Tracked /\ "vis_set" \in Pcs \ Tracked
      /\ "autoaudio_read" \in Pcs \ Tracked /\ "cut_commit" \in Pcs \ Tracked
  BY DEF Pcs
<1>4. Leaves(g, Rest(f))
  <2>1. Rest(f) \in {Idle, [f EXCEPT !.pc = "off"], [f EXCEPT !.pc = "prune"]}
    BY DEF Rest
  <2> QED
    BY <1>1, <1>2, <1>3, <2>1
<1>5. Leaves(g, VisibilityLoop(f))
  <2>1. VisibilityLoop(f) \in {Idle, [f EXCEPT !.pc = "vis_set"], [f EXCEPT !.pc = "autoaudio_read"],
                               [f EXCEPT !.pc = "cut_commit"]}
    <3>1. CASE f.todo # {}
      BY <3>1 DEF VisibilityLoop
    <3>2. CASE f.todo = {} /\ f.sel \in Camera
      BY <3>2, OrchAssumption DEF VisibilityLoop, AfterVisibility
    <3>3. CASE f.todo = {} /\ f.sel \notin Camera /\ f.sel \in Scene
      BY <3>3, OrchAssumption DEF VisibilityLoop, AfterVisibility
    <3>4. CASE f.todo = {} /\ f.sel \notin Camera /\ f.sel \notin Scene
      BY <3>4, OrchAssumption DEF VisibilityLoop, AfterVisibility
    <3> QED
      BY <3>1, <3>2, <3>3, <3>4
  <2> QED
    BY <1>1, <1>2, <1>3, <2>1
<1> QED
  BY <1>1, <1>2, <1>4, <1>5

\* A step of t leaves the frames of the others alone.
LEMMA OthersStay ==
    ASSUME TypeInv, NEW t \in Thread, StepOf(t), NEW u \in Thread \ {t}
    PROVE  th'[u] = th[u]
<1>0. \A f : Become(t, f) => th'[u] = th[u]
  BY DEF TypeInv, TypeOK, Become
<1>1. /\ \A l : Goto(t, l) => th'[u] = th[u]
      /\ Return(t) => th'[u] = th[u]
  BY <1>0 DEF Goto, Return
<1>2. ASSUME SyncFetch(t) \/ SyncStep(t) \/ HiddenStep(t) \/ (t = Ticker /\ RunStart) PROVE th'[u] = th[u]
  BY <1>0, <1>1, <1>2 DEF SyncFetch, SyncStep, SyncFail, SyncReconcile, OffDisable, OffMute, Prune,
     HiddenStep, HiddenCreateInput, HiddenRegister, RunStart
<1>3. ASSUME PositionStep(t) PROVE th'[u] = th[u]
  BY <1>0, <1>1, <1>3 DEF PositionStep, CreatePosition, CreateObs, CreateCommit, CreateConflict,
     CreateUndo, RenamePosition, DeletePosition, DeleteDisable, DeleteMute, DeleteRemove, DeleteCommit
<1>4. ASSUME AssignStep(t) PROVE th'[u] = th[u]
  BY <1>0, <1>1, <1>4 DEF AssignStep, AssignCamera, AssignObs, AssignCommit, UnassignPosition,
     UnassignObs, UnassignCommit, SetAudioPosition, AudioMutePrev, AudioUnmute, AudioCommit
<1>5. ASSUME SceneStep(t) PROVE th'[u] = th[u]
  BY <1>0, <1>5 DEF SceneStep, CreateScene, RenameScene, UpdateScenePositions, DeleteScene
<1>6. ASSUME LiveStep(t) PROVE th'[u] = th[u]
  BY <1>0, <1>1, <1>6 DEF LiveStep, SetPreviewCamera, SetPreviewScene, Cut, CutRead, CutSource,
     VisRead, VisSet, AutoAudioRead, AutoAudioMute, AutoAudioUnmute, AutoAudioCommit, CutCommit, CutReply
<1> QED
  BY <1>2, <1>3, <1>4, <1>5, <1>6 DEF StepOf

LEMMA OwnFrame ==
    ASSUME TypeInv, NEW t \in Thread, StepOf(t)
    PROVE  \/ Enters(t)
           \/ th'[t] = th[t]
           \/ Leaves(th[t], th'[t])
           \/ Follows(th[t], th'[t])
<1> DEFINE Goal == \/ Enters(t)
                   \/ th'[t] = th[t]
                   \/ Leaves(th[t], th'[t])
                   \/ Follows(th[t], th'[t])
<1>0. /\ th[t] \in Frame
      /\ \A f : Become(t, f) => th'[t] = f
      /\ \A l : Goto(t, l) => th'[t] = [th[t] EXCEPT !.pc = l]
      /\ Return(t) => th'[t] = Idle
  BY DEF TypeInv, TypeOK, Become, Goto, Return
<1>1. ASSUME Return(t) PROVE Goal
  BY <1>0, <1>1, Leaving
<1>2. ASSUME NEW l \in Pcs \ Tracked, Goto(t, l) PROVE Goal
  BY <1>0, <1>2, Leaving
<1>3. ASSUME NEW l \in Pcs, <<th[t].pc, l>> \in Edges, Goto(t, l) PROVE Goal
  BY <1>0, <1>3 DEF Follows
<1>4. ASSUME NEW f, Become(t, f), f.pc \notin Tracked, f.cams = {} PROVE Goal
  BY <1>0, <1>4 DEF Leaves
<1>5. CASE Enters(t)
  BY <1>5
<1>6. CASE HiddenCreateInput(t) \/ CreateObs(t) \/ CreateConflict(t) \/ DeleteDisable(t) \/ DeleteMute(t)
           \/ DeleteRemove(t) \/ AudioMutePrev(t) \/ AudioUnmute(t) \/ AutoAudioMute(t)
  BY <1>1, <1>3, <1>6 DEF At, Pcs, Edges, HiddenCreateInput, CreateObs, CreateConflict, DeleteDisable,
     DeleteMute, DeleteRemove, AudioMutePrev, AudioUnmute, AutoAudioMute
<1>7. CASE AutoAudioUnmute(t)
  <2>1. "cut_commit" \in Pcs \ Tracked /\ "autoaudio_commit" \in Pcs
    BY DEF Pcs, Tracked, CreateLabels, DeleteLabels, AudioLabels
  <2> QED
    BY <1>2, <1>3, <1>7, <2>1 DEF At, Edges, AutoAudioUnmute
<1>8. CASE AssignObs(t) \/ UnassignObs(t) \/ UnassignCommit(t) \/ CutSource(t) \/ AutoAudioCommit(t)
  <2>1. {"assign_commit", "unassign_commit", "off_mute", "vis_read", "cut_commit"} \subseteq Pcs \ Tracked
    BY DEF Pcs, Tracked, CreateLabels, DeleteLabels, AudioLabels
  <2> QED
    BY <1>1, <1>2, <1>8, <2>1 DEF AssignObs, UnassignObs, UnassignCommit, CutSource, AutoAudioCommit
<1>9. CASE SyncFail(t) \/ Prune(t) \/ CreateCommit(t) \/ CreateUndo(t) \/ DeleteCommit(t)
           \/ AudioCommit(t) \/ CutReply(t)
  BY <1>1, <1>9 DEF SyncFail, Prune, CreateCommit, CreateUndo, DeleteCommit, AudioCommit, CutReply
<1>10. CASE RenamePosition(t) \/ CreateScene(t) \/ RenameScene(t) \/ DeleteScene(t)
            \/ SetPreviewCamera(t) \/ SetPreviewScene(t)
  BY <1>10 DEF RenamePosition, CreateScene, RenameScene, DeleteScene, SetPreviewCamera, SetPreviewScene
<1>11. CASE OffDisable(t)
  <2> DEFINE Left(p) == [th[t] EXCEPT !.ids = @ \ {p}, !.pos = p]
  <2>1. PICK p \in th[t].ids :
           Become(t, IF p \in Left(p).todo THEN [Left(p) EXCEPT !.pc = "off_mute"] ELSE Rest(Left(p)))
    BY <1>11 DEF OffDisable
  <2>2. p \in AllPos /\ Left(p) \in Frame /\ Left(p).cams = th[t].cams
    BY <1>0 DEF Frame
  <2> HIDE DEF Left
  <2>3. Leaves(th[t], [Left(p) EXCEPT !.pc = "off_mute"])
    <3>1. [Left(p) EXCEPT !.pc = "off_mute"].pc = "off_mute"
          /\ [Left(p) EXCEPT !.pc = "off_mute"].cams = th[t].cams
      BY <2>2 DEF Frame
    <3> QED
      BY <3>1 DEF Leaves, Tracked, CreateLabels, DeleteLabels, AudioLabels
  <2>4. Leaves(th[t], Rest(Left(p)))
    BY <1>0, <2>2, Leaving
  <2> QED
    BY <1>0, <2>1, <2>3, <2>4
<1>12. CASE OffMute(t)
  BY <1>0, <1>12, Leaving DEF OffMute
<1>13. CASE HiddenRegister(t) \/ Cut(t) \/ (t = Ticker /\ RunStart)
  <2>1. Become(t, AfterHidden(t)) \/ Become(t, EnsureHidden(t))
    BY <1>13 DEF HiddenRegister, Cut, RunStart
  <2> DEFINE fs == {Idle, [Idle EXCEPT !.pc = "cut_read"], [Idle EXCEPT !.pc = "hidden_obs"]}
  <2>2. AfterHidden(t) \in fs /\ EnsureHidden(t) \in fs
    BY DEF AfterHidden, EnsureHidden
  <2>3. \A f \in fs : f.cams = {} /\ f.pc \notin Tracked
    BY DEF Idle, Tracked, CreateLabels, DeleteLabels, AudioLabels
  <2> QED
    BY <1>4, <2>1, <2>2, <2>3
<1>14. CASE AssignCamera(t) \/ UnassignPosition(t)
  <2>1. \A p, c : LET f == [Idle EXCEPT !.pc = "assign_obs", !.pos = p, !.sel = c]
                  IN f.pc \notin Tracked /\ f.cams = {}
    BY DEF Idle, Tracked, CreateLabels, DeleteLabels, AudioLabels
  <2>2. \A p : LET f == [Idle EXCEPT !.pc = "unassign_obs", !.pos = p]
               IN f.pc \notin Tracked /\ f.cams = {}
    BY DEF Idle, Tracked, CreateLabels, DeleteLabels, AudioLabels
  <2> QED
    BY <1>4, <1>14, <2>1, <2>2 DEF AssignCamera, UnassignPosition
<1>15. CASE AssignCommit(t)
  <2>1. CASE th[t].pos \notin Positions
    BY <1>1, <1>15, <2>1 DEF AssignCommit
  <2>2. CASE th[t].pos \in Positions
    <3>1. PICK bumped \in Bumped(th[t].pos, th[t].sel) :
             Become(t, Rest([Idle EXCEPT !.ids = bumped, !.todo = bumped \cap isAudio]))
      BY <1>15, <2>2 DEF AssignCommit
    <3> DEFINE f == [Idle EXCEPT !.ids = bumped, !.todo = bumped \cap isAudio]
    <3>2. bumped \subseteq AllPos
      BY DEF Bumped, Holders, Positions
    <3>3. f.cams = {} /\ f \in Frame
      BY <3>2, IdleTyped DEF Frame, Idle
    <3> HIDE DEF f
    <3>4. Rest(f) = Idle \/ Rest(f) = [f EXCEPT !.pc = "off"]
      BY <3>3 DEF Rest
    <3>5. Rest(f).pc \notin Tracked /\ Rest(f).cams = {}
      <4>1. [f EXCEPT !.pc = "off"].pc = "off" /\ [f EXCEPT !.pc = "off"].cams = {}
        BY <3>3 DEF Frame
      <4>2. Idle.pc = "idle" /\ Idle.cams = {}
        BY DEF Idle
      <4>3. "idle" \notin Tracked /\ "off" \notin Tracked
        BY DEF Tracked, CreateLabels, DeleteLabels, AudioLabels
      <4> QED
        BY <3>4, <4>1, <4>2, <4>3
    <3>6. Become(t, Rest(f))
      BY <3>1 DEF f
    <3> QED
      BY <1>4, <3>5, <3>6
  <2> QED
    BY <2>1, <2>2
<1>16. CASE UpdateScenePositions(t)
  <2>1. \A ids : LET f == [Idle EXCEPT !.pc = "vis_read", !.ids = ids]
                 IN f.pc \notin Tracked /\ f.cams = {}
    BY DEF Idle, Tracked, CreateLabels, DeleteLabels, AudioLabels
  <2> QED
    BY <1>4, <1>16, <2>1 DEF UpdateScenePositions
<1>17. CASE CutRead(t)
  <2>1. \/ CutPlan = Idle
        \/ CutPlan = [Idle EXCEPT !.pc = "cut_ok", !.sel = preview]
        \/ CutPlan = [Idle EXCEPT !.pc = "cut_source", !.sel = preview, !.ids = {simple}]
        \/ CutPlan = [Idle EXCEPT !.pc = "vis_read", !.sel = preview, !.ids = EnableIDs(preview)]
    <3>1. preview \in Camera \cup Scene \cup {None} /\ Camera \cap Scene = {}
          /\ None \notin Camera /\ None \notin Scene
      BY OrchAssumption, ObsAssumption DEF TypeInv, TypeOK, Selection
    <3> QED
      BY <3>1 DEF CutPlan
  <2>2. CutPlan.pc \in {"idle", "cut_ok", "cut_source", "vis_read"} /\ CutPlan.cams = {}
    <3>1. CASE CutPlan = Idle
      BY <3>1 DEF Idle
    <3>2. CASE CutPlan = [Idle EXCEPT !.pc = "cut_ok", !.sel = preview]
      BY <3>2 DEF Idle
    <3>3. CASE CutPlan = [Idle EXCEPT !.pc = "cut_source", !.sel = preview, !.ids = {simple}]
      BY <3>3 DEF Idle
    <3>4. CASE CutPlan = [Idle EXCEPT !.pc = "vis_read", !.sel = preview, !.ids = EnableIDs(preview)]
      BY <3>4 DEF Idle
    <3> QED
      BY <2>1, <3>1, <3>2, <3>3, <3>4
  <2>3. {"idle", "cut_ok", "cut_source", "vis_read"} \cap Tracked = {}
    BY DEF Tracked, CreateLabels, DeleteLabels, AudioLabels
  <2> QED
    BY <1>4, <1>17, <2>2, <2>3 DEF CutRead
<1>18. CASE VisRead(t) \/ VisSet(t)
  <2>1. \A ids \in SUBSET AllPos : /\ [th[t] EXCEPT !.todo = ids] \in Frame
                                   /\ [th[t] EXCEPT !.todo = ids].cams = th[t].cams
    BY <1>0 DEF Frame
  <2>2. PICK ids \in SUBSET AllPos : Return(t) \/ Become(t, VisibilityLoop([th[t] EXCEPT !.todo = ids]))
    <3>1. CASE VisRead(t)
      BY <3>1 DEF VisRead, Positions
    <3>2. CASE VisSet(t)
      <4>1. \A p : th[t].todo \ {p} \in SUBSET AllPos
        BY <1>0 DEF Frame
      <4> QED
        BY <3>2, <4>1 DEF VisSet
    <3> QED
      BY <1>18, <3>1, <3>2
  <2> DEFINE f == [th[t] EXCEPT !.todo = ids]
  <2>3. f \in Frame /\ f.cams = th[t].cams
    BY <2>1
  <2>4. Return(t) \/ Become(t, VisibilityLoop(f))
    BY <2>2
  <2> HIDE DEF f
  <2> QED
    BY <1>0, <1>1, <2>3, <2>4, Leaving
<1>19. CASE CutCommit(t)
  <2>1. \A c : LET f == [Idle EXCEPT !.pc = "cut_ok", !.sel = c]
               IN f.pc \notin Tracked /\ f.cams = {}
    BY DEF Idle, Tracked, CreateLabels, DeleteLabels, AudioLabels
  <2> QED
    BY <1>4, <1>19, <2>1 DEF CutCommit
<1> QED
  BY <1>5, <1>6, <1>7, <1>8, <1>9, <1>10, <1>11, <1>12, <1>13, <1>14, <1>15, <1>16, <1>17, <1>18, <1>19
  DEF StepOf, Enters, SyncStep, HiddenStep, PositionStep, AssignStep, SceneStep, LiveStep

\* The goroutine of Run does nothing but start up and sync.
TickerLabels == {"idle", "run", "hidden_obs", "hidden_reg", "sync_apply", "sync_fail",
                 "off", "off_mute", "prune"}
TickerKept == th[Ticker].pc \in TickerLabels

LEMMA TickerDoes ==
    ASSUME TickerKept, StepOf(Ticker)
    PROVE  SyncFetch(Ticker) \/ SyncStep(Ticker) \/ HiddenStep(Ticker) \/ RunStart
<1>0. /\ Ticker \notin Request /\ \A op : ~Calls(Ticker, op)
  BY OrchAssumption DEF Calls
<1>0a. \A l : At(Ticker, l) => l \in TickerLabels
  BY DEF TickerKept, At
<1>1. ~PositionStep(Ticker)
  <2>1. \A l \in {"create_obs", "create_commit", "create_undo", "delete_disable", "delete_mute",
                  "delete_remove", "delete_commit"} : ~At(Ticker, l)
    BY <1>0a DEF TickerLabels
  <2> QED
    BY <1>0, <2>1 DEF PositionStep, CreatePosition, CreateObs, CreateCommit, CreateConflict, CreateUndo,
     RenamePosition, DeletePosition, DeleteDisable, DeleteMute, DeleteRemove, DeleteCommit
<1>2. ~AssignStep(Ticker)
  <2>1. \A l \in {"assign_obs", "assign_commit", "unassign_obs", "unassign_commit", "audio_mute",
                  "audio_unmute", "audio_commit"} : ~At(Ticker, l)
    BY <1>0a DEF TickerLabels
  <2> QED
    BY <1>0, <2>1 DEF AssignStep, AssignCamera, AssignObs, AssignCommit, UnassignPosition, UnassignObs,
     UnassignCommit, SetAudioPosition, AudioMutePrev, AudioUnmute, AudioCommit
<1>3. ~SceneStep(Ticker)
  BY <1>0 DEF SceneStep, CreateScene, RenameScene, UpdateScenePositions, DeleteScene
<1>4. ~LiveStep(Ticker)
  <2>1. \A l \in {"cut_read", "cut_source", "vis_read", "vis_set", "autoaudio_read", "autoaudio_mute",
                  "autoaudio_unmute", "autoaudio_commit", "cut_commit", "cut_ok"} : ~At(Ticker, l)
    BY <1>0a DEF TickerLabels
  <2> QED
    BY <1>0, <2>1 DEF LiveStep, SetPreviewCamera, SetPreviewScene, Cut, CutRead, CutSource, VisRead, VisSet,
     AutoAudioRead, AutoAudioMute, AutoAudioUnmute, AutoAudioCommit, CutCommit, CutReply
<1> QED
  BY <1>1, <1>2, <1>3, <1>4 DEF StepOf

\* What the environment does to the frames.
LEMMA OutsideFrames ==
    ASSUME Environment
    PROVE  th' = th \/ Restart
BY DEF Environment, MediaChange, StreamChange, Expire

LEMMA RestFrame ==
    ASSUME NEW f \in Frame
    PROVE  /\ Rest(f).pc \in {"idle", "off", "prune"}
           /\ Rest(f).cams \subseteq f.cams
<1>1. \A l : [f EXCEPT !.pc = l].pc = l /\ [f EXCEPT !.pc = l].cams = f.cams
  BY DEF Frame
<1>2. Idle.pc = "idle" /\ Idle.cams = {}
  BY DEF Idle
<1>3. Rest(f) = Idle \/ Rest(f) = [f EXCEPT !.pc = "off"] \/ Rest(f) = [f EXCEPT !.pc = "prune"]
  BY DEF Rest
<1> QED
  BY <1>1, <1>2, <1>3

\* The goroutine of Run stays among its labels.
LEMMA TickerFrame ==
    ASSUME TypeInv, TickerKept, StepOf(Ticker)
    PROVE  TickerKept'
<1> DEFINE t == Ticker
<1>0. /\ th[t] \in Frame
      /\ \A f : Become(t, f) => th'[t] = f
      /\ \A l : Goto(t, l) => th'[t] = [th[t] EXCEPT !.pc = l]
      /\ Return(t) => th'[t] = Idle
      /\ t \in Thread
  BY DEF TypeInv, TypeOK, Become, Goto, Return, Thread
<1>1. Idle.pc = "idle" /\ \A l : [th[t] EXCEPT !.pc = l].pc = l
  BY <1>0 DEF Idle, Frame
<1>2. CASE SyncFetch(t)
  <2>1. th'[t].pc \in {"sync_apply", "sync_fail"}
    BY <1>0, <1>2 DEF SyncFetch, Idle
  <2> QED
    BY <2>1 DEF TickerKept, TickerLabels
<1>3. CASE SyncFail(t) \/ Prune(t)
  BY <1>0, <1>1, <1>3 DEF SyncFail, Prune, TickerKept, TickerLabels
<1>4. CASE SyncReconcile(t)
  <2>1. PICK cleared \in SUBSET Positions :
           Become(t, Rest([Idle EXCEPT !.ids = cleared, !.todo = cleared \cap isAudio,
                                       !.cams = ToPrune(th[t].cams)]))
    BY <1>4 DEF SyncReconcile, ClearedFor
  <2> DEFINE f == [Idle EXCEPT !.ids = cleared, !.todo = cleared \cap isAudio,
                               !.cams = ToPrune(th[t].cams)]
  <2>2. f \in Frame
    BY IdleTyped DEF TypeInv, TypeOK, Frame, ToPrune, Positions
  <2>3. th'[t] = Rest(f)
    BY <1>0, <2>1
  <2> HIDE DEF f
  <2> QED
    BY <2>2, <2>3, RestFrame DEF TickerKept, TickerLabels
<1>5. CASE OffDisable(t)
  <2> DEFINE Left(p) == [th[t] EXCEPT !.ids = @ \ {p}, !.pos = p]
  <2>1. PICK p \in th[t].ids :
           Become(t, IF p \in Left(p).todo THEN [Left(p) EXCEPT !.pc = "off_mute"] ELSE Rest(Left(p)))
    BY <1>5 DEF OffDisable
  <2>2. p \in AllPos /\ Left(p) \in Frame
    BY <1>0 DEF Frame
  <2> HIDE DEF Left
  <2>3. [Left(p) EXCEPT !.pc = "off_mute"].pc = "off_mute"
    BY <2>2 DEF Frame
  <2> QED
    BY <1>0, <2>1, <2>2, <2>3, RestFrame DEF TickerKept, TickerLabels
<1>6. CASE OffMute(t)
  BY <1>0, <1>6, RestFrame DEF OffMute, TickerKept, TickerLabels
<1>7. CASE HiddenCreateInput(t)
  <2>1. th'[t].pc = "hidden_reg"
    BY <1>0, <1>1, <1>7 DEF HiddenCreateInput
  <2> QED
    BY <2>1 DEF TickerKept, TickerLabels
<1>8. CASE HiddenRegister(t) \/ RunStart
  <2>1. th'[t] = AfterHidden(t) \/ th'[t] = EnsureHidden(t)
    BY <1>0, <1>8 DEF HiddenRegister, RunStart
  <2>2. th'[t] = Idle \/ th'[t] = [Idle EXCEPT !.pc = "hidden_obs"]
    BY <2>1 DEF AfterHidden, EnsureHidden
  <2>3. th'[t].pc \in {"idle", "hidden_obs"}
    BY <2>2 DEF Idle
  <2> QED
    BY <2>3 DEF TickerKept, TickerLabels
<1> QED
  BY <1>2, <1>3, <1>4, <1>5, <1>6, <1>7, <1>8, TickerDoes DEF SyncStep, HiddenStep

LEMMA RestartFrames ==
    ASSUME Restart, NEW t \in Thread
    PROVE  /\ th'[t].cams = {} /\ th'[t].pc \in {"run", "idle"}
           /\ th'[Ticker].pc = "run"
BY DEF Restart, BootFrames, Idle, Thread

LEMMA InitFrames ==
    ASSUME Init, NEW t \in Thread
    PROVE  /\ th[t].cams = {} /\ th[t].pc \in {"run", "idle"}
           /\ th[Ticker].pc = "run"
BY DEF Init, BootFrames, Idle, Thread

\* Run never does what only requests do.
LEMMA TickerInvariant == Spec => []TickerKept
<1>1. Init => TickerKept
  BY InitFrames DEF TickerKept, TickerLabels, Thread
<1>2. TypeInv /\ TickerKept /\ [Next]_vars => TickerKept'
  <2> SUFFICES ASSUME TypeInv, TickerKept, [Next]_vars PROVE TickerKept'
    OBVIOUS
  <2>1. CASE UNCHANGED vars
    BY <2>1 DEF vars, TickerKept
  <2>2. CASE StepOf(Ticker)
    BY <2>2, TickerFrame
  <2>3. ASSUME NEW t \in Thread \ {Ticker}, StepOf(t) PROVE TickerKept'
    <3>1. Ticker \in Thread \ {t}
      BY DEF Thread
    <3> QED
      BY <2>3, <3>1, OthersStay DEF TickerKept
  <2>4. CASE Environment
    <3>1. th' = th \/ Restart
      BY <2>4, OutsideFrames
    <3>2. Restart => th'[Ticker].pc = "run"
      BY RestartFrames DEF Thread
    <3> QED
      BY <3>1, <3>2 DEF TickerKept, TickerLabels
  <2> QED
    BY <2>1, <2>2, <2>3, <2>4, StepsOf
<1> QED
  BY <1>1, <1>2, TypeInvariant, PTL DEF Spec

-----------------------------------------------------------------------------
(* One audio source.  Two operations that move the audio source at once     *)
(* leave two positions marked, the pointer naming one of them; an operation *)
(* that moves it alone holds in prev, on its way to the commit, all that is *)
(* marked, whatever other requests and syncs clear meanwhile.               *)

OneAudioMove == \A t, u \in Thread : th[t].pc \in AudioLabels /\ th[u].pc \in AudioLabels => t = u

SoleInv ==
    /\ TickerKept
    /\ AudioSole
    /\ \A t \in Request : th[t].pc \in AudioLabels => isAudio \subseteq {th[t].prev}

\* Only the two commits mark a position.
LEMMA AudioOnlyMarkedByCommit ==
    ASSUME Next
    PROVE  isAudio' \subseteq isAudio \/ \E t \in Thread : AudioCommit(t) \/ AutoAudioCommit(t)
<1>1. ASSUME NEW t \in Thread, SyncReconcile(t) \/ DeleteCommit(t) \/ AssignCommit(t) \/ UnassignCommit(t)
      PROVE  isAudio' \subseteq isAudio
  BY <1>1 DEF SyncReconcile, DeleteCommit, AssignCommit, UnassignCommit, audioVars
<1>2. ASSUME NEW t \in Thread, CutCommit(t) PROVE isAudio' \subseteq isAudio
  BY <1>2 DEF CutCommit, audioVars
<1>3. ASSUME Restart PROVE isAudio' \subseteq isAudio
  BY <1>3 DEF Restart
<1> QED
  BY <1>1, <1>2, <1>3, ChangesAssignment

\* The pointer follows whatever is cleared.
LEMMA SoleStep ==
    ASSUME TypeInv, SoleInv, Next
    PROVE  AudioSole'
<1>0. isAudio \subseteq {audioPositionID} /\ TickerKept
  BY DEF SoleInv, AudioSole
<1>1. CASE UNCHANGED <<cameraID, isAudio, audioPositionID>>
  BY <1>0, <1>1 DEF AudioSole
<1>2. ASSUME NEW ps, isAudio' = isAudio \ ps, audioPositionID' = PointerWithout(ps) PROVE AudioSole'
  BY <1>0, <1>2 DEF AudioSole, PointerWithout
<1>3. ASSUME NEW t \in Thread, SyncReconcile(t) \/ AssignCommit(t) \/ UnassignCommit(t) PROVE AudioSole'
  BY <1>0, <1>2, <1>3 DEF SyncReconcile, AssignCommit, UnassignCommit, audioVars, AudioSole
<1>4. ASSUME NEW t \in Thread, DeleteCommit(t) PROVE AudioSole'
  BY <1>0, <1>4 DEF DeleteCommit, audioVars, AudioSole
<1>5. ASSUME NEW t \in Thread, CutCommit(t) PROVE AudioSole'
  BY <1>0, <1>5 DEF CutCommit, audioVars, AudioSole
<1>6. ASSUME Restart PROVE AudioSole'
  BY <1>6 DEF Restart, AudioSole
<1>7. ASSUME NEW t \in Thread, AudioCommit(t) \/ AutoAudioCommit(t) PROVE AudioSole'
  <2>1. th[t].pc \in {"audio_commit", "autoaudio_commit"}
    BY <1>7 DEF AudioCommit, AutoAudioCommit, At
  <2>2. t \in Request
    BY <1>0, <2>1 DEF TickerKept, TickerLabels, Thread
  <2>3. isAudio \subseteq {th[t].prev}
    BY <2>1, <2>2 DEF SoleInv, AudioLabels
  <2> QED
    BY <1>0, <1>7, <2>3 DEF AudioCommit, AutoAudioCommit, MarkAudio, audioVars, AudioSole
<1> QED
  BY <1>1, <1>3, <1>4, <1>5, <1>6, <1>7, ChangesAssignment

\* A request comes to an audio label holding the pointer, or held it before.
LEMMA AudioEntered ==
    ASSUME TypeInv, NEW t \in Thread, StepOf(t), th'[t].pc \in AudioLabels
    PROVE  \/ th'[t].prev = audioPositionID /\ UNCHANGED isAudio
           \/ th'[t].prev = th[t].prev /\ th[t].pc \in AudioLabels
<1>0. /\ th[t] \in Frame
      /\ \A f : Become(t, f) => th'[t] = f
  BY DEF TypeInv, TypeOK, Become
<1>1. CASE SetAudioPosition(t)
  BY <1>0, <1>1 DEF SetAudioPosition, Idle, posVars, audioVars
<1>2. CASE AutoAudioRead(t)
  <2>1. PICK l : th'[t] = [th[t] EXCEPT !.prev = audioPositionID, !.pc = l]
    BY <1>0, <1>2 DEF AutoAudioRead
  <2>2. UNCHANGED isAudio
    BY <1>2 DEF AutoAudioRead, posVars, audioVars
  <2> QED
    BY <1>0, <2>1, <2>2 DEF Frame
<1>3. CASE SyncFetch(t) \/ CreatePosition(t) \/ DeletePosition(t)
  <2>1. th'[t].pc \in {"sync_apply", "sync_fail", "create_obs", "delete_disable", "delete_mute",
                      "delete_remove"}
    <3>1. CASE SyncFetch(t)
      BY <1>0, <3>1 DEF SyncFetch, Idle
    <3>2. CASE CreatePosition(t)
      BY <1>0, <3>2 DEF CreatePosition, Idle
    <3>3. CASE DeletePosition(t)
      BY <1>0, <3>3 DEF DeletePosition, Idle
    <3> QED
      BY <1>3, <3>1, <3>2, <3>3
  <2> QED
    BY <2>1 DEF AudioLabels
<1>4. CASE SyncReconcile(t)
  <2>1. PICK cleared \in SUBSET Positions :
           Become(t, Rest([Idle EXCEPT !.ids = cleared, !.todo = cleared \cap isAudio,
                                       !.cams = ToPrune(th[t].cams)]))
    BY <1>4 DEF SyncReconcile, ClearedFor
  <2> DEFINE f == [Idle EXCEPT !.ids = cleared, !.todo = cleared \cap isAudio,
                               !.cams = ToPrune(th[t].cams)]
  <2>2. f \in Frame
    BY IdleTyped DEF TypeInv, TypeOK, Frame, ToPrune, Positions
  <2>3. th'[t] = Rest(f)
    BY <1>0, <2>1
  <2> HIDE DEF f
  <2> QED
    BY <2>2, <2>3, RestFrame DEF AudioLabels
<1>5. CASE Leaves(th[t], th'[t])
  BY <1>5 DEF Leaves, Tracked
<1>6. CASE Follows(th[t], th'[t])
  <2>1. PICK l \in Pcs : <<th[t].pc, l>> \in Edges /\ th'[t] = [th[t] EXCEPT !.pc = l]
    BY <1>6 DEF Follows
  <2>2. l \in AudioLabels /\ th'[t].prev = th[t].prev
    BY <1>0, <2>1 DEF Frame
  <2>3. th[t].pc \in AudioLabels
    BY <2>1, <2>2 DEF Edges, AudioLabels
  <2> QED
    BY <2>2, <2>3
<1>7. CASE th'[t] = th[t]
  BY <1>7
<1> QED
  BY <1>1, <1>2, <1>3, <1>4, <1>5, <1>6, <1>7, OwnFrame DEF Enters

LEMMA SoleInvStep ==
    ASSUME TypeInv, SoleInv, OneAudioMove, Next
    PROVE  SoleInv'
<1>0. /\ TickerKept /\ Ticker \notin Request /\ Request \subseteq Thread /\ Ticker \in Thread
      /\ isAudio \subseteq {audioPositionID}
      /\ \A t \in Request : th[t].pc \in AudioLabels => isAudio \subseteq {th[t].prev}
  BY OrchAssumption DEF SoleInv, AudioSole, Thread
<1>1. AudioSole'
  BY SoleStep
<1>2. ASSUME NEW t \in Thread, AudioCommit(t) \/ AutoAudioCommit(t)
      PROVE  th[t].pc \in AudioLabels /\ th'[t].pc \notin AudioLabels
  BY <1>2 DEF AudioCommit, AutoAudioCommit, At, Return, Goto, Become, Idle, TypeInv, TypeOK, Frame,
     AudioLabels
<1>3. ASSUME NEW t \in Request, th[t].pc \in AudioLabels, th'[t].pc \in AudioLabels
      PROVE  isAudio' \subseteq isAudio
  <2>1. ASSUME NEW u \in Thread, AudioCommit(u) \/ AutoAudioCommit(u) PROVE FALSE
    <3>1. t = u
      BY <1>0, <1>2, <1>3, <2>1 DEF OneAudioMove
    <3> QED
      BY <1>2, <1>3, <2>1, <3>1
  <2> QED
    BY <2>1, AudioOnlyMarkedByCommit
<1>4. ASSUME NEW u \in Thread, StepOf(u) PROVE SoleInv'
  <2>1. TickerKept'
    <3>1. CASE u = Ticker
      BY <1>0, <1>4, <3>1, TickerFrame
    <3>2. CASE u # Ticker
      BY <1>0, <1>4, <3>2, OthersStay DEF TickerKept
    <3> QED
      BY <3>1, <3>2
  <2>2. ASSUME NEW t \in Request, th'[t].pc \in AudioLabels PROVE isAudio' \subseteq {th'[t].prev}
    <3>1. CASE t # u
      <4>1. th'[t] = th[t]
        BY <1>0, <1>4, <3>1, OthersStay
      <4> QED
        BY <1>0, <1>3, <2>2, <4>1
    <3>2. CASE t = u /\ th'[t].prev = audioPositionID /\ UNCHANGED isAudio
      BY <1>0, <3>2
    <3>3. CASE t = u /\ th'[t].prev = th[t].prev /\ th[t].pc \in AudioLabels
      BY <1>0, <1>3, <2>2, <3>3
    <3> QED
      BY <1>0, <1>4, <2>2, <3>1, <3>2, <3>3, AudioEntered
  <2> QED
    BY <1>1, <2>1, <2>2 DEF SoleInv
<1>5. CASE Environment
  <2>1. CASE Restart
    <3>1. \A t \in Request : th'[t].pc \notin AudioLabels
      BY <1>0, <2>1, RestartFrames DEF AudioLabels
    <3> QED
      BY <1>0, <1>1, <2>1, <3>1, RestartFrames DEF SoleInv, TickerKept, TickerLabels
  <2>2. CASE th' = th /\ ~Restart
    <3>1. UNCHANGED isAudio
      BY <1>5, <2>2 DEF Environment, MediaChange, StreamChange, Expire, posVars, audioVars
    <3> QED
      BY <1>0, <1>1, <2>2, <3>1 DEF SoleInv, TickerKept
  <2> QED
    BY <1>5, <2>1, <2>2, OutsideFrames
<1> QED
  BY <1>4, <1>5, StepsOf

\* AudioSole: for any number of requests, and whatever else they and the syncs do,
\* at most one position is an audio source and audioPositionID names it, in every
\* behaviour in which no two of them ever move the audio source at once
\* (SetAudioPosition, setAudioPositionInternal, orchestrator.go).  The code does not
\* rule out that two do, and they can leave two sources.
THEOREM OneAudioSource == Spec => ([]OneAudioMove => []AudioSole)
<1>1. Init => SoleInv
  <2> SUFFICES ASSUME Init PROVE SoleInv
    OBVIOUS
  <2>1. \A t \in Request : th[t].pc \notin AudioLabels
    BY InitFrames DEF AudioLabels, Thread
  <2>2. th[Ticker].pc = "run" /\ isAudio = {}
    BY InitFrames DEF Thread, Init
  <2> QED
    BY <2>1, <2>2 DEF SoleInv, TickerKept, TickerLabels, AudioSole
<1>2. TypeInv /\ SoleInv /\ OneAudioMove /\ [Next]_vars => SoleInv'
  <2>1. ASSUME SoleInv, UNCHANGED vars PROVE SoleInv'
    BY <2>1 DEF SoleInv, TickerKept, AudioSole, vars, posVars, audioVars
  <2> QED
    BY <2>1, SoleInvStep
<1>3. SoleInv => AudioSole
  BY DEF SoleInv
<1> QED
  BY <1>1, <1>2, <1>3, TypeInvariant, PTL DEF Spec

-----------------------------------------------------------------------------
(* Inputs and positions.  When OBS answers, the files can be written and    *)
(* the process runs on, what OBS has and what the orchestrator keeps agree  *)
(* but for the operations in between.  The induction needs that a position  *)
(* being created has an id of its own.                                      *)

\* Every public position, and every position being created or deleted, has an id
\* that NewID has handed out.
IdsIssued ==
    /\ Positions \ {simple} \subseteq issued
    /\ \A t \in Thread : th[t].pc \in CreateLabels \cup DeleteLabels => th[t].pos \in issued

\* Nobody else works on a position being created.
CreatorsAlone ==
    \A t \in Thread : th[t].pc \in CreateLabels =>
        /\ th[t].pos \notin Positions
        /\ th[t].pos \in obs.inputs <=> th[t].pc # "create_obs"
        /\ \A u \in Thread \ {t} : th[u].pc \in CreateLabels \cup DeleteLabels => th[u].pos # th[t].pos

\* What a thread has just done in OBS is still so when it commits.
CallsStand ==
    /\ \A t \in Thread : th[t].pc = "delete_commit" => th[t].pos \notin obs.inputs
    /\ \A t \in Thread : th[t].pc = "hidden_reg" => simple \in obs.inputs

InputsInv == InputsMatchPositions /\ IdsIssued /\ CreatorsAlone /\ CallsStand

\* The labels these invariants speak of.
InputLabels == CreateLabels \cup DeleteLabels \cup {"hidden_reg"}

\* A step that means nothing to them.
Quiet(t) ==
    /\ obs'.inputs = obs.inputs /\ Positions' = Positions /\ issued \subseteq issued'
    /\ th'[t] = th[t] \/ {th[t].pc, th'[t].pc} \cap InputLabels = {}

\* Without connection faults these calls do, or have already done, what they say.
LEMMA CallsDone ==
    ASSUME obs \in ObsType, ~ObsFaults, NEW p \in AllPos, NEW ok \in BOOLEAN
    PROVE  /\ CreatePositionInput(p, ok) => /\ obs'.inputs = obs.inputs \cup {p}
                                            /\ ok <=> p \notin obs.inputs
           /\ RemoveInput(p, ok) => obs'.inputs = obs.inputs \ {p}
           /\ \A c : UpdatePositionSource(p, c, ok) => obs'.inputs = obs.inputs
           /\ \A on : SetPositionEnabled(p, on, ok) => obs'.inputs = obs.inputs
           /\ \A muted : SetInputAudioMuted(p, muted, ok) => obs'.inputs = obs.inputs
<1>1. CreatePositionInput(p, ok) => /\ obs'.inputs = obs.inputs \cup {p}
                                    /\ ok <=> p \notin obs.inputs
  BY DEF ObsType, CreatePositionInput, Reply
<1>2. RemoveInput(p, ok) => obs'.inputs = obs.inputs \ {p}
  BY DEF ObsType, RemoveInput, Reply
<1>3. \A c : UpdatePositionSource(p, c, ok) => obs'.inputs = obs.inputs
  BY DEF ObsType, UpdatePositionSource, Reply
<1>4. \A on : SetPositionEnabled(p, on, ok) => obs'.inputs = obs.inputs
  BY DEF ObsType, SetPositionEnabled, Reply
<1>5. \A muted : SetInputAudioMuted(p, muted, ok) => obs'.inputs = obs.inputs
  BY DEF ObsType, SetInputAudioMuted, Reply
<1> QED
  BY <1>1, <1>2, <1>3, <1>4, <1>5

\* The steps that do mean something.
InputStep(t) ==
    \/ HiddenCreateInput(t) \/ HiddenRegister(t)
    \/ CreatePosition(t) \/ CreateObs(t) \/ CreateCommit(t) \/ CreateConflict(t) \/ CreateUndo(t)
    \/ DeletePosition(t) \/ DeleteDisable(t) \/ DeleteMute(t) \/ DeleteRemove(t) \/ DeleteCommit(t)

LEMMA InputsKept ==
    ASSUME TypeInv, ~ObsFaults, NEW t \in Thread, StepOf(t), ~InputStep(t)
    PROVE  obs'.inputs = obs.inputs
<1>0. /\ obs \in ObsType /\ th[t] \in Frame /\ FrameAt(th[t].pc, th[t])
      /\ Position \subseteq AllPos /\ simple \in AllPos
      /\ \A p \in AllPos, ok \in BOOLEAN : /\ \A c : UpdatePositionSource(p, c, ok) => obs'.inputs = obs.inputs
                                           /\ \A on : SetPositionEnabled(p, on, ok) => obs'.inputs = obs.inputs
                                           /\ \A muted : SetInputAudioMuted(p, muted, ok) => obs'.inputs = obs.inputs
  BY CallsDone DEF TypeInv, TypeOK, TypedFrame, AllPos
<1>1. CASE UNCHANGED obs
  BY <1>1
<1>2. CASE OffDisable(t) \/ OffMute(t)
  <2>1. th[t].ids \subseteq AllPos
    BY <1>0 DEF Frame
  <2> QED
    BY <1>0, <1>2, <2>1 DEF OffDisable, OffMute, At, FrameAt
<1>3. CASE AssignObs(t) \/ UnassignObs(t) \/ AudioMutePrev(t) \/ AudioUnmute(t)
  BY <1>0, <1>3 DEF AssignObs, UnassignObs, AudioMutePrev, AudioUnmute, At, FrameAt
<1>4. CASE CutSource(t) \/ AutoAudioMute(t) \/ AutoAudioUnmute(t)
  BY <1>0, <1>4 DEF CutSource, AutoAudioMute, AutoAudioUnmute, At, FrameAt
<1>5. CASE VisSet(t)
  <2>1. th[t].todo \subseteq AllPos
    BY <1>0 DEF Frame
  <2> QED
    BY <1>0, <1>5, <2>1 DEF VisSet
<1>6. CASE SyncFetch(t) \/ SyncFail(t) \/ SyncReconcile(t) \/ Prune(t) \/ (t = Ticker /\ RunStart)
           \/ RenamePosition(t)
  BY <1>1, <1>6 DEF SyncFetch, SyncFail, SyncReconcile, Prune, RunStart, RenamePosition
<1>7. CASE AssignCamera(t) \/ AssignCommit(t) \/ UnassignPosition(t) \/ UnassignCommit(t)
           \/ SetAudioPosition(t) \/ AudioCommit(t)
  BY <1>1, <1>7 DEF AssignCamera, AssignCommit, UnassignPosition, UnassignCommit, SetAudioPosition,
     AudioCommit
<1>8. CASE SceneStep(t) \/ SetPreviewCamera(t) \/ SetPreviewScene(t) \/ Cut(t) \/ CutRead(t) \/ VisRead(t)
           \/ AutoAudioRead(t) \/ AutoAudioCommit(t) \/ CutCommit(t) \/ CutReply(t)
  BY <1>1, <1>8 DEF SceneStep, CreateScene, RenameScene, UpdateScenePositions, DeleteScene,
     SetPreviewCamera, SetPreviewScene, Cut, CutRead, VisRead, AutoAudioRead, AutoAudioCommit, CutCommit,
     CutReply
<1> QED
  BY <1>2, <1>3, <1>4, <1>5, <1>6, <1>7, <1>8
  DEF StepOf, InputStep, SyncStep, HiddenStep, PositionStep, AssignStep, LiveStep

\* A thread at one of the labels can only take the step of that label.
LEMMA QuietElsewhere ==
    ASSUME NEW t \in Thread, StepOf(t), ~InputStep(t), th'[t] # th[t]
    PROVE  th[t].pc \notin InputLabels \cup {"hidden_obs"}
<1> SUFFICES ASSUME th[t].pc \in InputLabels \cup {"hidden_obs"} PROVE FALSE
  OBVIOUS
<1>0. /\ \A l \in Pcs \ (InputLabels \cup {"hidden_obs"}) : ~At(t, l)
      /\ \A op : ~Calls(t, op)
  BY DEF InputLabels, CreateLabels, DeleteLabels, At, Calls
<1>1. \A l \in {"idle", "run", "sync_apply", "sync_fail", "off", "off_mute", "prune", "assign_obs",
                "assign_commit", "unassign_obs", "unassign_commit", "audio_mute", "audio_unmute",
                "audio_commit", "cut_read", "cut_source", "vis_read", "vis_set", "autoaudio_read",
                "autoaudio_mute", "autoaudio_unmute", "autoaudio_commit", "cut_commit", "cut_ok"} :
          ~At(t, l)
  BY <1>0 DEF Pcs, InputLabels, CreateLabels, DeleteLabels
<1>2. ~SyncFetch(t) /\ ~SyncStep(t) /\ ~(t = Ticker /\ RunStart)
  BY <1>0, <1>1 DEF SyncFetch, SyncStep, SyncFail, SyncReconcile, OffDisable, OffMute, Prune, RunStart
<1>3. ~PositionStep(t) /\ ~HiddenStep(t)
  BY <1>0 DEF PositionStep, HiddenStep, InputStep, RenamePosition
<1>4. ~AssignStep(t)
  BY <1>0, <1>1 DEF AssignStep, AssignCamera, AssignObs, AssignCommit, UnassignPosition, UnassignObs,
     UnassignCommit, SetAudioPosition, AudioMutePrev, AudioUnmute, AudioCommit
<1>5. ~SceneStep(t)
  BY <1>0 DEF SceneStep, CreateScene, RenameScene, UpdateScenePositions, DeleteScene
<1>6. ~LiveStep(t)
  BY <1>0, <1>1 DEF LiveStep, SetPreviewCamera, SetPreviewScene, Cut, CutRead, CutSource, VisRead, VisSet,
     AutoAudioRead, AutoAudioMute, AutoAudioUnmute, AutoAudioCommit, CutCommit, CutReply
<1> QED
  BY <1>2, <1>3, <1>4, <1>5, <1>6 DEF StepOf

\* ... and none of the others leads to one.
LEMMA QuietAfter ==
    ASSUME TypeInv, NEW t \in Thread, StepOf(t), ~InputStep(t), th'[t] # th[t]
    PROVE  th'[t].pc \notin InputLabels
<1>0. /\ th[t] \in Frame /\ th[t].pc \notin InputLabels \cup {"hidden_obs"}
      /\ \A f : Become(t, f) => th'[t] = f
  BY QuietElsewhere DEF TypeInv, TypeOK, Become
<1>1. CASE Leaves(th[t], th'[t])
  BY <1>1 DEF Leaves, Tracked, InputLabels
<1>2. CASE Follows(th[t], th'[t])
  <2>1. PICK l \in Pcs : <<th[t].pc, l>> \in Edges /\ th'[t] = [th[t] EXCEPT !.pc = l]
    BY <1>2 DEF Follows
  <2>2. th'[t].pc = l
    BY <1>0, <2>1 DEF Frame
  <2>3. l \in AudioLabels
    BY <1>0, <2>1 DEF Edges, InputLabels, CreateLabels, DeleteLabels, AudioLabels
  <2> QED
    BY <2>2, <2>3 DEF InputLabels, CreateLabels, DeleteLabels, AudioLabels
<1>3. CASE SyncFetch(t)
  BY <1>0, <1>3 DEF SyncFetch, Idle, InputLabels, CreateLabels, DeleteLabels
<1>4. CASE SyncReconcile(t)
  <2>1. PICK cleared \in SUBSET Positions :
           Become(t, Rest([Idle EXCEPT !.ids = cleared, !.todo = cleared \cap isAudio,
                                       !.cams = ToPrune(th[t].cams)]))
    BY <1>4 DEF SyncReconcile, ClearedFor
  <2> DEFINE f == [Idle EXCEPT !.ids = cleared, !.todo = cleared \cap isAudio,
                               !.cams = ToPrune(th[t].cams)]
  <2>2. f \in Frame
    BY IdleTyped DEF TypeInv, TypeOK, Frame, ToPrune, Positions
  <2>3. th'[t] = Rest(f)
    BY <1>0, <2>1
  <2> HIDE DEF f
  <2> QED
    BY <2>2, <2>3, RestFrame DEF InputLabels, CreateLabels, DeleteLabels
<1>5. CASE SetAudioPosition(t) \/ AutoAudioRead(t)
  <2>1. th'[t].pc \in {"audio_mute", "audio_unmute", "autoaudio_mute", "autoaudio_unmute"}
    <3>1. CASE SetAudioPosition(t)
      BY <1>0, <3>1 DEF SetAudioPosition, Idle
    <3>2. CASE AutoAudioRead(t)
      <4>1. PICK l \in {"autoaudio_mute", "autoaudio_unmute"} :
               th'[t] = [th[t] EXCEPT !.prev = audioPositionID, !.pc = l]
        BY <1>0, <3>2 DEF AutoAudioRead
      <4> QED
        BY <1>0, <4>1 DEF Frame
    <3> QED
      BY <1>5, <3>1, <3>2
  <2> QED
    BY <2>1 DEF InputLabels, CreateLabels, DeleteLabels
<1> QED
  BY <1>1, <1>2, <1>3, <1>4, <1>5, OwnFrame DEF Enters, InputStep

LEMMA PositionsKept ==
    ASSUME TypeInv, NEW t \in Thread, StepOf(t), ~InputStep(t)
    PROVE  Positions' = Positions /\ issued \subseteq issued'
<1>1. CASE UNCHANGED <<posName, issued>>
  BY <1>1 DEF Positions
<1>2. CASE SyncFetch(t) \/ SyncFail(t) \/ SyncReconcile(t) \/ OffDisable(t) \/ OffMute(t) \/ Prune(t)
           \/ (t = Ticker /\ RunStart)
  BY <1>1, <1>2 DEF SyncFetch, SyncFail, SyncReconcile, OffDisable, OffMute, Prune, RunStart, posVars
<1>3. CASE AssignStep(t)
  BY <1>1, <1>3 DEF AssignStep, AssignCamera, AssignObs, AssignCommit, UnassignPosition, UnassignObs,
     UnassignCommit, SetAudioPosition, AudioMutePrev, AudioUnmute, AudioCommit, posVars
<1>4. CASE RenameScene(t) \/ UpdateScenePositions(t) \/ DeleteScene(t)
  BY <1>1, <1>4 DEF RenameScene, UpdateScenePositions, DeleteScene, posVars
<1>5. CASE CreateScene(t)
  BY <1>5 DEF CreateScene, posVars, Positions
<1>6. CASE LiveStep(t)
  BY <1>1, <1>6 DEF LiveStep, SetPreviewCamera, SetPreviewScene, Cut, CutRead, CutSource, VisRead, VisSet,
     AutoAudioRead, AutoAudioMute, AutoAudioUnmute, AutoAudioCommit, CutCommit, CutReply, posVars
<1>7. CASE RenamePosition(t)
  <2>1. PICK p \in Positions, n \in Name : posName' = [posName EXCEPT ![p] = n]
    BY <1>7 DEF RenamePosition
  <2>2. posName \in [AllPos -> Name \cup {None, simple}] /\ None \notin Name
    BY OrchAssumption DEF TypeInv, TypeOK
  <2>3. Positions' = Positions
    BY <2>1, <2>2 DEF Positions
  <2> QED
    BY <1>7, <2>3 DEF RenamePosition
<1> QED
  BY <1>2, <1>3, <1>4, <1>5, <1>6, <1>7
  DEF StepOf, InputStep, SyncStep, HiddenStep, PositionStep, SceneStep

\* A quiet step of t keeps everything.
LEMMA QuietStep ==
    ASSUME InputsInv, NEW t \in Thread, Quiet(t), \A u \in Thread \ {t} : th'[u] = th[u]
    PROVE  InputsInv'
<1>0. /\ obs'.inputs = obs.inputs /\ Positions' = Positions /\ issued \subseteq issued'
      /\ \A u \in Thread : th'[u] = th[u] \/ {th[u].pc, th'[u].pc} \cap InputLabels = {}
      /\ InputsMatchPositions /\ IdsIssued /\ CreatorsAlone /\ CallsStand
  BY DEF Quiet, InputsInv
<1>1. /\ CreateLabels \cup DeleteLabels \subseteq InputLabels
      /\ {"create_commit", "create_undo", "delete_commit", "hidden_reg"} \subseteq InputLabels
  BY DEF InputLabels, CreateLabels, DeleteLabels
<1>2. \A u \in Thread : th[u].pc \in InputLabels \/ th'[u].pc \in InputLabels => th'[u] = th[u]
  BY <1>0
<1>3. InputsMatchPositions'
  BY <1>0, <1>1, <1>2 DEF InputsMatchPositions, Pending, At
<1>4. IdsIssued'
  BY <1>0, <1>1, <1>2 DEF IdsIssued
<1>5. CreatorsAlone'
  BY <1>0, <1>1, <1>2 DEF CreatorsAlone
<1>6. CallsStand'
  BY <1>0, <1>1, <1>2 DEF CallsStand
<1> QED
  BY <1>3, <1>4, <1>5, <1>6 DEF InputsInv

LEMMA HiddenInputs ==
    ASSUME TypeInv, InputsInv, ~ObsFaults, NEW t \in Thread, HiddenCreateInput(t) \/ HiddenRegister(t),
           \A u \in Thread \ {t} : th'[u] = th[u]
    PROVE  InputsInv'
<1>0. /\ InputsMatchPositions /\ IdsIssued /\ CreatorsAlone /\ CallsStand
      /\ \A u \in Thread : th[u].pc \in CreateLabels \cup DeleteLabels => th[u].pos \in Position
      /\ simple \in AllPos /\ simple \notin Position /\ None # simple
      /\ th[t] \in Frame
  BY ObsAssumption DEF InputsInv, TypeInv, TypeOK, TypedFrame, FrameAt, CreateLabels, DeleteLabels, AllPos
<1>1. CASE HiddenCreateInput(t)
  <2>1. obs'.inputs = obs.inputs \cup {simple}
    BY <1>0, <1>1, CallsDone DEF HiddenCreateInput, TypeInv, TypeOK
  <2>2. Positions' = Positions /\ issued' = issued
    BY <1>1 DEF HiddenCreateInput, Positions, posVars
  <2>3. th[t].pc = "hidden_obs" /\ th'[t].pc = "hidden_reg"
    BY <1>0, <1>1 DEF HiddenCreateInput, At, Goto, Become, TypeInv, TypeOK, Frame
  <2>4. InputsMatchPositions'
    BY <1>0, <2>1, <2>2, <2>3 DEF InputsMatchPositions, Pending, At
  <2>5. IdsIssued' /\ CreatorsAlone' /\ CallsStand'
    BY <1>0, <2>1, <2>2, <2>3 DEF IdsIssued, CreatorsAlone, CallsStand, CreateLabels, DeleteLabels
  <2> QED
    BY <2>4, <2>5 DEF InputsInv
<1>2. CASE HiddenRegister(t)
  <2>1. obs'.inputs = obs.inputs /\ issued' = issued
    BY <1>2 DEF HiddenRegister
  <2>2. Positions' = Positions \cup {simple}
    BY <1>0, <1>2 DEF HiddenRegister, Positions, TypeInv, TypeOK
  <2>3. th[t].pc = "hidden_reg" /\ th'[t].pc \in {"idle", "cut_read"}
    BY <1>0, <1>2 DEF HiddenRegister, At, AfterHidden, Become, Idle, TypeInv, TypeOK
  <2>4. InputsMatchPositions'
    <3>1. simple \in obs.inputs
      BY <1>0, <2>3 DEF CallsStand
    <3> QED
      BY <1>0, <2>1, <2>2, <2>3, <3>1 DEF InputsMatchPositions, Pending, At
  <2>5. IdsIssued' /\ CreatorsAlone' /\ CallsStand'
    BY <1>0, <2>1, <2>2, <2>3 DEF IdsIssued, CreatorsAlone, CallsStand, CreateLabels, DeleteLabels
  <2> QED
    BY <2>4, <2>5 DEF InputsInv
<1> QED
  BY <1>1, <1>2

LEMMA CreateInputs ==
    ASSUME TypeInv, InputsInv, ~ObsFaults, ~SaveFaults, NEW t \in Thread,
           \/ CreatePosition(t) \/ CreateObs(t) \/ CreateCommit(t) \/ CreateConflict(t) \/ CreateUndo(t),
           \A u \in Thread \ {t} : th'[u] = th[u]
    PROVE  InputsInv'
<1>0. /\ InputsMatchPositions /\ IdsIssued /\ CreatorsAlone /\ CallsStand
      /\ \A u \in Thread : th[u].pc \in CreateLabels \cup DeleteLabels => th[u].pos \in Position
      /\ simple \in AllPos /\ simple \notin Position /\ None # simple /\ Position \subseteq AllPos
      /\ th[t] \in Frame
  BY ObsAssumption DEF InputsInv, TypeInv, TypeOK, TypedFrame, FrameAt, CreateLabels, DeleteLabels, AllPos
<1>0a. /\ \A f : Become(t, f) => th'[t] = f
       /\ \A l : Goto(t, l) => th'[t].pc = l /\ th'[t].pos = th[t].pos
       /\ Return(t) => th'[t].pc = "idle"
  BY <1>0 DEF TypeInv, TypeOK, Become, Goto, Return, Idle, Frame
<1> DEFINE p == th[t].pos
<1>1. CASE CreatePosition(t)
  <2>1. PICK q \in Position \ issued :
           /\ issued' = issued \cup {q}
           /\ th'[t].pc = "create_obs" /\ th'[t].pos = q
    BY <1>0a, <1>1 DEF CreatePosition, Idle
  <2>2. th[t].pc = "idle" /\ obs'.inputs = obs.inputs /\ Positions' = Positions
    BY <1>1 DEF CreatePosition, Calls, At, Positions, posVars
  <2>3. q \notin Positions /\ q # simple
    BY <1>0, <2>1 DEF IdsIssued
  <2>4. q \notin obs.inputs
    <3>1. ~Pending(q, {"create_commit", "create_undo"})
      BY <1>0, <2>1 DEF Pending, IdsIssued, CreateLabels
    <3> QED
      BY <1>0, <2>3, <3>1 DEF InputsMatchPositions
  <2>5. InputsMatchPositions'
    BY <1>0, <2>1, <2>2 DEF InputsMatchPositions, Pending, At
  <2>6. IdsIssued' /\ CallsStand'
    BY <1>0, <2>1, <2>2 DEF IdsIssued, CallsStand
  <2>7. CreatorsAlone'
    <3>1. \A u \in Thread \ {t} : th[u].pc \in CreateLabels \cup DeleteLabels => th[u].pos # q
      BY <1>0, <2>1 DEF IdsIssued
    <3>2. \A u \in Thread : th[u].pc \in CreateLabels \cup DeleteLabels => u # t
      BY <2>2 DEF CreateLabels, DeleteLabels
    <3> QED
      BY <1>0, <2>1, <2>2, <2>3, <2>4, <3>1, <3>2 DEF CreatorsAlone
  <2> QED
    BY <2>5, <2>6, <2>7 DEF InputsInv
<1>2. CASE CreateObs(t)
  <2>1. th[t].pc = "create_obs" /\ p \in Position /\ p \notin obs.inputs /\ p \notin Positions
    BY <1>0, <1>2 DEF CreateObs, At, CreateLabels, CreatorsAlone
  <2>2. obs'.inputs = obs.inputs \cup {p} /\ th'[t].pc = "create_commit" /\ th'[t].pos = p
    <3>1. PICK ok \in BOOLEAN : /\ CreatePositionInput(p, ok)
                                /\ IF ok THEN Goto(t, "create_commit") ELSE Return(t)
      BY <1>2 DEF CreateObs
    <3>2. obs'.inputs = obs.inputs \cup {p} /\ ok
      BY <1>0, <2>1, <3>1, CallsDone DEF TypeInv, TypeOK
    <3> QED
      BY <1>0a, <3>1, <3>2
  <2>3. Positions' = Positions /\ issued' = issued
    BY <1>2 DEF CreateObs, Positions, posVars
  <2> HIDE DEF p
  <2>4. p = th[t].pos
    BY DEF p
  <2>5. InputsMatchPositions'
    BY <1>0, <2>1, <2>2, <2>3 DEF InputsMatchPositions, Pending, At
  <2>6. IdsIssued' /\ CallsStand'
    <3>1. \A u \in Thread \ {t} : th[u].pc = "delete_commit" => th[u].pos # p
      BY <1>0, <2>1, <2>4 DEF CreatorsAlone, CreateLabels, DeleteLabels
    <3> QED
      BY <1>0, <2>1, <2>2, <2>3, <2>4, <3>1 DEF IdsIssued, CallsStand, CreateLabels
  <2>7. CreatorsAlone'
    BY <1>0, <2>1, <2>2, <2>3, <2>4 DEF CreatorsAlone, CreateLabels
  <2> QED
    BY <2>5, <2>6, <2>7 DEF InputsInv
<1>3. CASE CreateCommit(t)
  <2>1. th[t].pc = "create_commit" /\ p \in Position /\ p \in obs.inputs /\ p \notin Positions
    BY <1>0, <1>3 DEF CreateCommit, At, CreateLabels, CreatorsAlone
  <2>2. obs'.inputs = obs.inputs /\ issued' = issued /\ th'[t].pc = "idle"
    BY <1>0a, <1>3 DEF CreateCommit
  <2>3. Positions' = Positions \cup {p}
    <3>1. posName' = [posName EXCEPT ![p] = th[t].name]
      BY <1>3 DEF CreateCommit, SaveResult
    <3>2. th[t].name \in Name /\ None \notin Name /\ posName \in [AllPos -> Name \cup {None, simple}]
      BY <2>1, OrchAssumption DEF TypeInv, TypeOK, TypedFrame, FrameAt
    <3> QED
      BY <1>0, <2>1, <3>1, <3>2 DEF Positions
  <2> HIDE DEF p
  <2>4. p = th[t].pos
    BY DEF p
  <2>5. InputsMatchPositions'
    BY <1>0, <2>1, <2>2, <2>3, <2>4 DEF InputsMatchPositions, Pending, At
  <2>6. IdsIssued' /\ CallsStand'
    BY <1>0, <2>1, <2>2, <2>3, <2>4 DEF IdsIssued, CallsStand, CreateLabels, DeleteLabels
  <2>7. CreatorsAlone'
    BY <1>0, <2>1, <2>2, <2>3, <2>4 DEF CreatorsAlone, CreateLabels, DeleteLabels
  <2> QED
    BY <2>5, <2>6, <2>7 DEF InputsInv
<1>4. CASE CreateConflict(t)
  <2>1. th[t].pc = "create_commit" /\ th'[t].pc = "create_undo" /\ th'[t].pos = th[t].pos
    BY <1>0a, <1>4 DEF CreateConflict, At
  <2>2. obs'.inputs = obs.inputs /\ issued' = issued /\ Positions' = Positions
    BY <1>4 DEF CreateConflict, Positions, posVars
  <2>3. InputsMatchPositions'
    BY <1>0, <2>1, <2>2 DEF InputsMatchPositions, Pending, At
  <2>4. IdsIssued' /\ CallsStand'
    BY <1>0, <2>1, <2>2 DEF IdsIssued, CallsStand, CreateLabels
  <2>5. CreatorsAlone'
    BY <1>0, <2>1, <2>2 DEF CreatorsAlone, CreateLabels
  <2> QED
    BY <2>3, <2>4, <2>5 DEF InputsInv
<1>5. CASE CreateUndo(t)
  <2>1. th[t].pc = "create_undo" /\ p \in Position /\ p \notin Positions
    BY <1>0, <1>5 DEF CreateUndo, At, CreateLabels, CreatorsAlone
  <2>2. obs'.inputs = obs.inputs \ {p} /\ th'[t].pc = "idle"
    BY <1>0, <1>0a, <1>5, <2>1, CallsDone DEF CreateUndo, TypeInv, TypeOK
  <2>3. Positions' = Positions /\ issued' = issued
    BY <1>5 DEF CreateUndo, Positions, posVars
  <2> HIDE DEF p
  <2>4. p = th[t].pos
    BY DEF p
  <2>5. InputsMatchPositions'
    BY <1>0, <2>1, <2>2, <2>3, <2>4 DEF InputsMatchPositions, Pending, At
  <2>6. IdsIssued' /\ CallsStand'
    BY <1>0, <2>1, <2>2, <2>3, <2>4 DEF IdsIssued, CallsStand, CreateLabels, DeleteLabels
  <2>7. CreatorsAlone'
    <3>1. \A u \in Thread \ {t} : th[u].pc \in CreateLabels => th[u].pos # p
      BY <1>0, <2>1, <2>4 DEF CreatorsAlone, CreateLabels
    <3> QED
      BY <1>0, <2>1, <2>2, <2>3, <2>4, <3>1 DEF CreatorsAlone, CreateLabels, DeleteLabels
  <2> QED
    BY <2>5, <2>6, <2>7 DEF InputsInv
<1> QED
  BY <1>1, <1>2, <1>3, <1>4, <1>5

LEMMA DeleteInputs ==
    ASSUME TypeInv, InputsInv, ~ObsFaults, NEW t \in Thread,
           \/ DeletePosition(t) \/ DeleteDisable(t) \/ DeleteMute(t) \/ DeleteRemove(t) \/ DeleteCommit(t),
           \A u \in Thread \ {t} : th'[u] = th[u]
    PROVE  InputsInv'
<1>0. /\ InputsMatchPositions /\ IdsIssued /\ CreatorsAlone /\ CallsStand
      /\ \A u \in Thread : th[u].pc \in CreateLabels \cup DeleteLabels => th[u].pos \in Position
      /\ simple \in AllPos /\ simple \notin Position /\ None # simple /\ Position \subseteq AllPos
      /\ th[t] \in Frame
  BY ObsAssumption DEF InputsInv, TypeInv, TypeOK, TypedFrame, FrameAt, CreateLabels, DeleteLabels, AllPos
<1>0a. /\ \A f : Become(t, f) => th'[t] = f
       /\ \A l : Goto(t, l) => th'[t].pc = l /\ th'[t].pos = th[t].pos
       /\ Return(t) => th'[t].pc = "idle"
  BY <1>0 DEF TypeInv, TypeOK, Become, Goto, Return, Idle, Frame
<1> DEFINE p == th[t].pos
<1>1. CASE DeletePosition(t)
  <2>1. PICK q \in Positions \ {simple} :
           /\ th'[t].pc \in {"delete_disable", "delete_mute", "delete_remove"}
           /\ th'[t].pos = q
    <3>1. PICK q \in Positions \ {simple} :
             th'[t] = [Idle EXCEPT !.pc = IF cameraID[q] # None THEN "delete_disable"
                                          ELSE IF q \in isAudio THEN "delete_mute"
                                          ELSE "delete_remove",
                                   !.pos = q,
                                   !.todo = {q} \cap isAudio]
      BY <1>0a, <1>1 DEF DeletePosition
    <3>2. th'[t].pos = q
      BY <3>1 DEF Idle
    <3>3. th'[t].pc \in {"delete_disable", "delete_mute", "delete_remove"}
      BY <3>1 DEF Idle
    <3> QED
      BY <3>2, <3>3
  <2>2. /\ th[t].pc = "idle" /\ obs'.inputs = obs.inputs
        /\ Positions' = Positions /\ issued' = issued
    BY <1>1 DEF DeletePosition, Calls, At, Positions, posVars
  <2>3. InputsMatchPositions'
    BY <1>0, <2>1, <2>2 DEF InputsMatchPositions, Pending, At
  <2>4. IdsIssued' /\ CallsStand'
    BY <1>0, <2>1, <2>2 DEF IdsIssued, CallsStand
  <2>5. CreatorsAlone'
    BY <1>0, <2>1, <2>2 DEF CreatorsAlone, CreateLabels
  <2> QED
    BY <2>3, <2>4, <2>5 DEF InputsInv
<1>2. CASE DeleteDisable(t) \/ DeleteMute(t)
  <2>1. /\ th[t].pc \in {"delete_disable", "delete_mute"} /\ p \in Position
        /\ th'[t].pc \in {"delete_mute", "delete_remove"} /\ th'[t].pos = p
    BY <1>0, <1>0a, <1>2 DEF DeleteDisable, DeleteMute, At, DeleteLabels
  <2>2. obs'.inputs = obs.inputs
    BY <1>0, <1>2, <2>1, CallsDone DEF DeleteDisable, DeleteMute, TypeInv, TypeOK
  <2>3. Positions' = Positions /\ issued' = issued
    BY <1>2 DEF DeleteDisable, DeleteMute, Positions, posVars
  <2>4. InputsMatchPositions'
    BY <1>0, <2>1, <2>2, <2>3 DEF InputsMatchPositions, Pending, At
  <2>5. IdsIssued' /\ CallsStand'
    BY <1>0, <2>1, <2>2, <2>3 DEF IdsIssued, CallsStand, DeleteLabels
  <2>6. CreatorsAlone'
    BY <1>0, <2>1, <2>2, <2>3 DEF CreatorsAlone, CreateLabels, DeleteLabels
  <2> QED
    BY <2>4, <2>5, <2>6 DEF InputsInv
<1>3. CASE DeleteRemove(t)
  <2>1. /\ th[t].pc = "delete_remove" /\ p \in Position
        /\ th'[t].pc = "delete_commit" /\ th'[t].pos = p
    BY <1>0, <1>0a, <1>3 DEF DeleteRemove, At, DeleteLabels
  <2>2. obs'.inputs = obs.inputs \ {p}
    BY <1>0, <1>3, <2>1, CallsDone DEF DeleteRemove, TypeInv, TypeOK
  <2>3. Positions' = Positions /\ issued' = issued
    BY <1>3 DEF DeleteRemove, Positions, posVars
  <2> HIDE DEF p
  <2>4. p = th[t].pos
    BY DEF p
  <2>5. InputsMatchPositions'
    BY <1>0, <2>1, <2>2, <2>3 DEF InputsMatchPositions, Pending, At
  <2>6. IdsIssued' /\ CallsStand'
    BY <1>0, <2>1, <2>2, <2>3, <2>4 DEF IdsIssued, CallsStand, DeleteLabels
  <2>7. CreatorsAlone'
    <3>1. \A u \in Thread : th[u].pc \in CreateLabels => u # t /\ th[u].pos # p
      BY <1>0, <2>1, <2>4 DEF CreatorsAlone, CreateLabels, DeleteLabels
    <3> QED
      BY <1>0, <2>1, <2>2, <2>3, <3>1 DEF CreatorsAlone, CreateLabels, DeleteLabels
  <2> QED
    BY <2>5, <2>6, <2>7 DEF InputsInv
<1>4. CASE DeleteCommit(t)
  <2>1. th[t].pc = "delete_commit" /\ p \in Position /\ p \notin obs.inputs /\ th'[t].pc = "idle"
    BY <1>0, <1>0a, <1>4 DEF DeleteCommit, At, DeleteLabels, CallsStand
  <2>2. obs'.inputs = obs.inputs /\ issued' = issued
    BY <1>4 DEF DeleteCommit
  <2>3. Positions' = Positions \ {p}
    <3>1. CASE p \in Positions
      <4>1. posName' = [posName EXCEPT ![p] = None]
        BY <1>4, <3>1 DEF DeleteCommit
      <4> QED
        BY <4>1 DEF Positions, TypeInv, TypeOK
    <3>2. CASE p \notin Positions
      BY <1>4, <3>2 DEF DeleteCommit, Positions
    <3> QED
      BY <3>1, <3>2
  <2> HIDE DEF p
  <2>4. p = th[t].pos
    BY DEF p
  <2>5. InputsMatchPositions'
    BY <1>0, <2>1, <2>2, <2>3, <2>4 DEF InputsMatchPositions, Pending, At
  <2>6. IdsIssued' /\ CallsStand'
    BY <1>0, <2>1, <2>2, <2>3 DEF IdsIssued, CallsStand, CreateLabels, DeleteLabels
  <2>7. CreatorsAlone'
    BY <1>0, <2>1, <2>2, <2>3 DEF CreatorsAlone, CreateLabels, DeleteLabels
  <2> QED
    BY <2>5, <2>6, <2>7 DEF InputsInv
<1> QED
  BY <1>1, <1>2, <1>3, <1>4

LEMMA InputsStep ==
    ASSUME TypeInv, InputsInv, Next, ~ObsFaults, ~SaveFaults, "Restart" \notin Ops
    PROVE  InputsInv'
<1>1. ASSUME NEW t \in Thread, StepOf(t) PROVE InputsInv'
  <2>1. \A u \in Thread \ {t} : th'[u] = th[u]
    BY <1>1, OthersStay
  <2>2. CASE InputStep(t)
    BY <2>1, <2>2, HiddenInputs, CreateInputs, DeleteInputs DEF InputStep
  <2>3. CASE ~InputStep(t)
    <3>1. Quiet(t)
      BY <1>1, <2>3, InputsKept, PositionsKept, QuietElsewhere, QuietAfter DEF Quiet
    <3> QED
      BY <2>1, <3>1, QuietStep
  <2> QED
    BY <2>2, <2>3
<1>2. CASE Environment
  <2>1. UNCHANGED <<obs, posName, issued, th>>
    BY <1>2 DEF Environment, MediaChange, StreamChange, Expire, Restart, posVars
  <2>2. PICK t \in Thread : TRUE
    BY DEF Thread
  <2>3. Quiet(t) /\ \A u \in Thread \ {t} : th'[u] = th[u]
    BY <2>1, <2>2 DEF Quiet, Positions
  <2> QED
    BY <2>3, QuietStep
<1> QED
  BY <1>1, <1>2, StepsOf

LEMMA InputsInvariant ==
    ASSUME ~ObsFaults, ~SaveFaults, "Restart" \notin Ops
    PROVE  Spec => []InputsInv
<1>1. Init => InputsInv
  <2> SUFFICES ASSUME Init PROVE InputsInv
    OBVIOUS
  <2>1. \A t \in Thread : th[t].pc \in {"run", "idle"}
    BY InitFrames
  <2>2. Positions = {p \in Position : diskPositions[p] # None} /\ obs.inputs = Positions
    BY ObsAssumption DEF Init, LoadedNames, Positions, AllPos
  <2>3. Positions \subseteq issued
    BY <2>2 DEF Init
  <2>4. InputsMatchPositions
    BY <2>2 DEF InputsMatchPositions
  <2> QED
    BY <2>1, <2>3, <2>4 DEF InputsInv, IdsIssued, CreatorsAlone, CallsStand, CreateLabels, DeleteLabels
<1>2. TypeInv /\ InputsInv /\ [Next]_vars => InputsInv'
  <2>1. ASSUME InputsInv, UNCHANGED vars PROVE InputsInv'
    <3>1. UNCHANGED <<obs, posName, issued, th>>
      BY <2>1 DEF vars, posVars
    <3>2. PICK t \in Thread : TRUE
      BY DEF Thread
    <3>3. Quiet(t) /\ \A u \in Thread \ {t} : th'[u] = th[u]
      BY <3>1, <3>2 DEF Quiet, Positions
    <3> QED
      BY <2>1, <3>3, QuietStep
  <2> QED
    BY <2>1, InputsStep
<1> QED
  BY <1>1, <1>2, TypeInvariant, PTL DEF Spec


\* InputsMatchPositions: as long as OBS answers, the positions can be saved and the
\* process runs on, every input belongs to a position or to an operation under way
\* that will register or remove it, and every position has its input, whatever
\* CreatePosition, DeletePosition and ensureHiddenPosition (orchestrator.go) do to
\* each other.
THEOREM InputsAndPositionsAgree ==
    ASSUME ~ObsFaults, ~SaveFaults, "Restart" \notin Ops
    PROVE  Spec => []InputsMatchPositions
<1>1. InputsInv => InputsMatchPositions
  BY DEF InputsInv
<1> QED
  BY <1>1, InputsInvariant, PTL

=============================================================================

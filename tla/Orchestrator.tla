---------------------------- MODULE Orchestrator ----------------------------
(***************************************************************************)
(* orchestrator.Orchestrator (backend/internal/orchestrator): the cameras, *)
(* positions, scenes and live state kept in memory, the sync loop that      *)
(* reconciles the cameras with the media server, and the operations the     *)
(* HTTP handlers call.                                                      *)
(*                                                                         *)
(* Granularity.  A section of code that holds o.mu is one step; a call to   *)
(* OBS or to the media server, made without the lock, is one step; anything *)
(* can happen between two steps.  th[t] is the frame of thread t: the step  *)
(* it is at and what the code keeps in local variables.  A call that is     *)
(* rejected before it changes anything (unknown id, reserved id, empty      *)
(* name, name taken, camera offline ...) is no step at all.                 *)
(*                                                                         *)
(* Events published to the hub and the read-only snapshots are left out.    *)
(***************************************************************************)
EXTENDS ObsProgram

CONSTANTS Scene,          \* ids that scenes.NewID can return
          Name,           \* position and scene names, valid after trimming
          Request,        \* goroutines serving HTTP requests
          Ticker,         \* the goroutine of Run
          Ops,            \* the operations requests may call in this instance
          SaveFaults,     \* TRUE: Store.Save and Store.Load can fail
          MediaFaults,    \* TRUE: the media server can be unreachable
          BootPositions,  \* what the positions file may hold at boot
          BootScenes      \* what the scenes file may hold at boot

Thread    == Request \cup {Ticker}
Selection == Camera \cup Scene \cup {None}      \* (LiveKind, id) pairs
SceneDef  == [name : Name, ids : SUBSET Position]
NoScene   == [name |-> None, ids |-> {}]
Status    == {"absent", "online", "offline"}
Since     == {"none", "recent", "expired"}      \* offlineSince: since >= 60s is expired

NamesUnique(posNames) ==   \* no two public positions share a name
    \A p, q \in Position : p # q /\ posNames[p] = posNames[q] => posNames[p] = None

SceneDefsUnique(defs) ==  \* no two scenes share a name
    \A s, r \in Scene : s # r /\ defs[s].name = defs[r].name => defs[s].name = None

ASSUME OrchAssumption ==
    /\ Ticker \notin Request
    /\ Camera \cap Scene = {} /\ None \notin Scene \cup Name
    /\ simple \notin Name
    /\ SaveFaults \in BOOLEAN /\ MediaFaults \in BOOLEAN
    /\ BootPositions \subseteq [Position -> Name \cup {None}]
    /\ BootScenes \subseteq [Scene -> SceneDef \cup {NoScene}]
    /\ \A d \in BootPositions : NamesUnique(d)
    /\ \A d \in BootScenes : SceneDefsUnique(d)

VARIABLES
    streams, mediaUp,                             \* the media server
    status, offlineSince, mediaConnected,         \* o.cameras, o.offlineSince
    posName, cameraID, isAudio, audioPositionID,  \* o.positions and its audio pointer
    hiddenReady,
    sceneDef,                                     \* o.scenes
    preview, live,                                \* o.live
    diskPositions, diskScenes,                    \* the two store files
    issued,                                       \* ids handed out by NewID (never again)
    th                                            \* frames of the threads

mediaVars == <<streams, mediaUp>>
camVars   == <<status, offlineSince, mediaConnected>>
audioVars == <<isAudio, audioPositionID>>
posVars   == <<posName, cameraID, audioVars, hiddenReady>>
liveVars  == <<preview, live>>
diskVars  == <<diskPositions, diskScenes>>
vars      == <<obs, mediaVars, camVars, posVars, sceneDef, liveVars, diskVars, issued, th>>

Positions == {p \in AllPos : posName[p] # None}
Scenes    == {s \in Scene : sceneDef[s] # NoScene}
Holders(c) == {p \in Positions : cameraID[p] = c}

\* The audio pointer once the positions ps are no longer audio sources.
\* (variant: the pointer is forgotten)
VariantPointerKept(ps) == audioPositionID
PointerWithout(ps) == IF ps \cap isAudio # {} THEN None ELSE audioPositionID

\* Frames ----------------------------------------------------------------
\* pos, sel, prev, name: arguments and values read under an earlier lock;
\* ids:  position ids to enable, or unassigned ones still to be disabled;
\* todo: position ids the visibility loop has not reached, or those of ids
\*       that were audio sources;
\* cams: streams fetched, or cameras to be pruned.
Idle == [pc |-> "idle", pos |-> None, sel |-> None, prev |-> None,
         name |-> None, ids |-> {}, todo |-> {}, cams |-> {}]

Pcs == {"idle", "run", "hidden_obs", "hidden_reg", "sync_apply", "sync_fail", "off",
        "off_mute", "prune", "create_obs", "create_commit", "create_undo",
        "delete_disable", "delete_mute", "delete_remove", "delete_commit",
        "assign_obs", "assign_commit", "unassign_obs", "unassign_commit",
        "audio_mute", "audio_unmute", "audio_commit", "cut_read", "cut_source",
        "vis_read", "vis_set", "autoaudio_read", "autoaudio_mute",
        "autoaudio_unmute", "autoaudio_commit", "cut_commit", "cut_ok"}

Frame == [pc : Pcs, pos : AllPos \cup {None}, sel : Selection,
          prev : AllPos \cup {None}, name : Name \cup {None},
          ids : SUBSET AllPos, todo : SUBSET AllPos, cams : SUBSET Camera]

At(t, label) == th[t].pc = label
Become(t, f) == th' = [th EXCEPT ![t] = f]
Goto(t, label) == Become(t, [th[t] EXCEPT !.pc = label])
Return(t)    == Become(t, Idle)
Calls(t, op) == t \in Request /\ op \in Ops /\ At(t, "idle")

-----------------------------------------------------------------------------
\* Persistence.  Save replaces the whole file or, failing, leaves it alone.

PersistPositions(ok, names) ==
    diskPositions' = IF ok THEN [p \in Position |-> names[p]] ELSE diskPositions

PersistScenes(ok, defs) == diskScenes' = IF ok THEN defs ELSE diskScenes

SaveResult == IF SaveFaults THEN BOOLEAN ELSE {TRUE}

-----------------------------------------------------------------------------
\* ensureHiddenPosition, called by Run at start-up and by every Cut.

AfterHidden(t) == IF t = Ticker THEN Idle ELSE [Idle EXCEPT !.pc = "cut_read"]

EnsureHidden(t) ==
    IF hiddenReady /\ simple \in Positions THEN AfterHidden(t)
                                           ELSE [Idle EXCEPT !.pc = "hidden_obs"]

RunStart ==                  \* Run, before its loop
    /\ At(Ticker, "run")
    /\ Become(Ticker, EnsureHidden(Ticker))
    /\ UNCHANGED <<obs, mediaVars, camVars, posVars, sceneDef, liveVars, diskVars, issued>>

HiddenCreateInput(t) ==      \* any error is taken for "already exists"
    /\ At(t, "hidden_obs")
    /\ \E ok \in BOOLEAN : CreatePositionInput(simple, ok)
    /\ Goto(t, "hidden_reg")
    /\ UNCHANGED <<mediaVars, camVars, posVars, sceneDef, liveVars, diskVars, issued>>

HiddenRegister(t) ==
    /\ At(t, "hidden_reg")
    /\ posName' = [posName EXCEPT ![simple] = simple]
    /\ hiddenReady' = TRUE
    /\ Become(t, AfterHidden(t))
    /\ UNCHANGED <<obs, mediaVars, camVars, cameraID, audioVars, sceneDef, liveVars, diskVars, issued>>

-----------------------------------------------------------------------------
\* SyncOnce, called by the ticker and by POST /sync.

SyncFetch(t) ==              \* ListActiveStreams
    /\ (t = Ticker /\ At(t, "idle")) \/ Calls(t, "Sync")
    /\ Become(t, IF mediaUp THEN [Idle EXCEPT !.pc = "sync_apply", !.cams = streams]
                            ELSE [Idle EXCEPT !.pc = "sync_fail"])
    /\ UNCHANGED <<obs, mediaVars, camVars, posVars, sceneDef, liveVars, diskVars, issued>>

SyncFail(t) ==
    /\ At(t, "sync_fail")
    /\ mediaConnected' = FALSE
    /\ Return(t)
    /\ UNCHANGED <<obs, mediaVars, status, offlineSince, posVars, sceneDef, liveVars, diskVars, issued>>

\* What is left of a SyncOnce or AssignCamera once its lock is released:
\* OBS calls for the positions that lost their camera, then the pruning.
\* (variant: the pruning is forgotten)
VariantRest(f) == IF f.ids # {} THEN [f EXCEPT !.pc = "off"] ELSE Idle
Rest(f) == CASE f.ids # {}  -> [f EXCEPT !.pc = "off"]
             [] f.ids = {} /\ f.cams # {} -> [f EXCEPT !.pc = "prune"]
             [] OTHER -> Idle

\* clearCameraFromPositionsLocked, once per camera of gone: the positions it
\* may clear (the first holder of each camera that it finds).
ClearedFor(gone) ==
    {ps \in SUBSET {p \in Positions : cameraID[p] \in gone} :
        \A c \in gone : Holders(c) # {} => \E p \in Holders(c) : ps \cap Holders(c) = {p}}

\* (variant: a camera that comes back stays offline)
VariantStatus(seen) ==
    [c \in Camera |-> CASE c \in seen /\ status[c] = "absent" -> "online"
                       [] c \notin seen /\ status[c] = "online" -> "offline"
                       [] OTHER -> status[c]]

ReconciledStatus(seen) ==
    [c \in Camera |-> CASE c \in seen -> "online"
                       [] c \notin seen /\ status[c] = "online" -> "offline"
                       [] OTHER -> status[c]]

\* (variant: the record of a camera that comes back is not deleted)
VariantSince(seen) ==
    [c \in Camera |-> IF c \notin seen /\ status[c] = "online" THEN "recent" ELSE offlineSince[c]]

ReconciledSince(seen) ==
    [c \in Camera |-> CASE c \in seen /\ status[c] = "offline" -> "none"
                       [] c \notin seen /\ status[c] = "online" -> "recent"
                       [] OTHER -> offlineSince[c]]

\* The cameras to be removed once the lock has been released.
ToPrune(seen) == {c \in Camera \ seen : status[c] = "offline" /\ offlineSince[c] = "expired"}

SyncReconcile(t) ==
    /\ At(t, "sync_apply")
    /\ mediaConnected' = TRUE
    /\ LET seen == th[t].cams
           gone == {c \in Camera \ seen : status[c] = "online"} IN
        /\ status' = ReconciledStatus(seen)
        /\ offlineSince' = ReconciledSince(seen)
        /\ \E cleared \in ClearedFor(gone) :
             /\ cameraID' = [p \in AllPos |-> IF p \in cleared THEN None ELSE cameraID[p]]
             /\ isAudio' = isAudio \ cleared
             /\ audioPositionID' = PointerWithout(cleared)
             /\ Become(t, Rest([Idle EXCEPT !.ids = cleared, !.todo = cleared \cap isAudio,
                                            !.cams = ToPrune(seen)]))
    /\ UNCHANGED <<obs, mediaVars, posName, hiddenReady, sceneDef, liveVars, diskVars, issued>>

OffDisable(t) ==             \* errors are only logged
    /\ At(t, "off")
    /\ \E p \in th[t].ids :
        /\ \E ok \in BOOLEAN : SetPositionEnabled(p, FALSE, ok)
        /\ LET f == [th[t] EXCEPT !.ids = @ \ {p}, !.pos = p] IN
           Become(t, IF p \in f.todo THEN [f EXCEPT !.pc = "off_mute"] ELSE Rest(f))
    /\ UNCHANGED <<mediaVars, camVars, posVars, sceneDef, liveVars, diskVars, issued>>

OffMute(t) ==                \* errors are only logged
    /\ At(t, "off_mute")
    /\ \E ok \in BOOLEAN : SetInputAudioMuted(th[t].pos, TRUE, ok)
    /\ Become(t, Rest(th[t]))
    /\ UNCHANGED <<mediaVars, camVars, posVars, sceneDef, liveVars, diskVars, issued>>

Prune(t) ==                  \* the second critical section of SyncOnce
    /\ At(t, "prune")
    /\ status' = [c \in Camera |-> IF c \in th[t].cams THEN "absent" ELSE status[c]]
    /\ offlineSince' = [c \in Camera |-> IF c \in th[t].cams THEN "none" ELSE offlineSince[c]]
    /\ Return(t)
    /\ UNCHANGED <<obs, mediaVars, mediaConnected, posVars, sceneDef, liveVars, diskVars, issued>>

-----------------------------------------------------------------------------
\* Positions.

NameFree(n) == \A p \in Position : posName[p] # n

CreatePosition(t) ==         \* the first check, and NewID
    /\ Calls(t, "CreatePosition")
    /\ \E n \in Name, p \in Position \ issued :
        /\ NameFree(n)
        /\ issued' = issued \cup {p}
        /\ Become(t, [Idle EXCEPT !.pc = "create_obs", !.pos = p, !.name = n])
    /\ UNCHANGED <<obs, mediaVars, camVars, posVars, sceneDef, liveVars, diskVars>>

CreateObs(t) ==
    /\ At(t, "create_obs")
    /\ \E ok \in BOOLEAN :
        /\ CreatePositionInput(th[t].pos, ok)
        /\ IF ok THEN Goto(t, "create_commit") ELSE Return(t)
    /\ UNCHANGED <<mediaVars, camVars, posVars, sceneDef, liveVars, diskVars, issued>>

\* (variant: the name is not checked again under the second lock)
VariantCreateCommit(t) ==
    /\ At(t, "create_commit")
    /\ posName' = [posName EXCEPT ![th[t].pos] = th[t].name]
    /\ PersistPositions(TRUE, posName')
    /\ Return(t)
    /\ UNCHANGED <<obs, mediaVars, camVars, cameraID, audioVars, hiddenReady, sceneDef, liveVars, diskScenes, issued>>

CreateCommit(t) ==           \* the name was free, and still is: insert and save
    /\ At(t, "create_commit")
    /\ NameFree(th[t].name)
    /\ \E ok \in SaveResult :
        LET names == [posName EXCEPT ![th[t].pos] = th[t].name] IN
        /\ PersistPositions(ok, names)
        /\ posName' = IF ok THEN names ELSE posName
    /\ Return(t)
    /\ UNCHANGED <<obs, mediaVars, camVars, cameraID, audioVars, hiddenReady, sceneDef, liveVars, diskScenes, issued>>

CreateConflict(t) ==         \* the name was taken meanwhile
    /\ At(t, "create_commit")
    /\ ~NameFree(th[t].name)
    /\ Goto(t, "create_undo")
    /\ UNCHANGED <<obs, mediaVars, camVars, posVars, sceneDef, liveVars, diskVars, issued>>

\* (variant: the input created for the loser of the name stays in OBS)
VariantCreateUndo(t) ==
    /\ At(t, "create_undo")
    /\ Return(t)
    /\ UNCHANGED <<obs, mediaVars, camVars, posVars, sceneDef, liveVars, diskVars, issued>>

CreateUndo(t) ==             \* errors are only logged
    /\ At(t, "create_undo")
    /\ \E ok \in BOOLEAN : RemoveInput(th[t].pos, ok)
    /\ Return(t)
    /\ UNCHANGED <<mediaVars, camVars, posVars, sceneDef, liveVars, diskVars, issued>>

RenamePosition(t) ==         \* one critical section; a failed save keeps the new name
    /\ Calls(t, "RenamePosition")
    /\ \E p \in Positions \ {simple}, n \in Name, ok \in SaveResult :
        /\ posName[p] # n /\ NameFree(n)
        /\ posName' = [posName EXCEPT ![p] = n]
        /\ PersistPositions(ok, posName')
    /\ UNCHANGED <<obs, mediaVars, camVars, cameraID, audioVars, hiddenReady, sceneDef, liveVars, diskScenes, issued, th>>

DeletePosition(t) ==         \* the first, read-only section
    /\ Calls(t, "DeletePosition")
    /\ \E p \in Positions \ {simple} :
        Become(t, [Idle EXCEPT !.pc = IF cameraID[p] # None THEN "delete_disable"
                                      ELSE IF p \in isAudio THEN "delete_mute"
                                      ELSE "delete_remove",
                               !.pos = p,
                               !.todo = {p} \cap isAudio])
    /\ UNCHANGED <<obs, mediaVars, camVars, posVars, sceneDef, liveVars, diskVars, issued>>

DeleteDisable(t) ==
    /\ At(t, "delete_disable")
    /\ \E ok \in BOOLEAN : SetPositionEnabled(th[t].pos, FALSE, ok)
    /\ Goto(t, IF th[t].todo # {} THEN "delete_mute" ELSE "delete_remove")
    /\ UNCHANGED <<mediaVars, camVars, posVars, sceneDef, liveVars, diskVars, issued>>

DeleteMute(t) ==
    /\ At(t, "delete_mute")
    /\ \E ok \in BOOLEAN : SetInputAudioMuted(th[t].pos, TRUE, ok)
    /\ Goto(t, "delete_remove")
    /\ UNCHANGED <<mediaVars, camVars, posVars, sceneDef, liveVars, diskVars, issued>>

DeleteRemove(t) ==
    /\ At(t, "delete_remove")
    /\ \E ok \in BOOLEAN : RemoveInput(th[t].pos, ok)
    /\ Goto(t, "delete_commit")
    /\ UNCHANGED <<mediaVars, camVars, posVars, sceneDef, liveVars, diskVars, issued>>

DeleteCommit(t) ==           \* a failed save does not restore the position
    /\ At(t, "delete_commit")
    /\ LET p == th[t].pos IN
        IF p \in Positions
        THEN /\ posName' = [posName EXCEPT ![p] = None]
             /\ cameraID' = [cameraID EXCEPT ![p] = None]
             /\ isAudio' = isAudio \ {p}
             /\ audioPositionID' = IF audioPositionID = p THEN None ELSE audioPositionID
             /\ \E ok \in SaveResult : PersistPositions(ok, posName')
        ELSE UNCHANGED <<posName, cameraID, audioVars, diskPositions>>
    /\ Return(t)
    /\ UNCHANGED <<obs, mediaVars, camVars, hiddenReady, sceneDef, liveVars, diskScenes, issued>>

-----------------------------------------------------------------------------
\* Cameras in positions, and the audio source.

AssignCamera(t) ==           \* the checks, under the read lock
    /\ Calls(t, "AssignCamera")
    /\ \E p \in Positions \ {simple}, c \in Camera :
        /\ status[c] = "online"
        /\ cameraID[p] # c
        /\ Become(t, [Idle EXCEPT !.pc = "assign_obs", !.pos = p, !.sel = c])
    /\ UNCHANGED <<obs, mediaVars, camVars, posVars, sceneDef, liveVars, diskVars, issued>>

AssignObs(t) ==
    /\ At(t, "assign_obs")
    /\ \E ok \in BOOLEAN :
        /\ UpdatePositionSource(th[t].pos, th[t].sel, ok)
        /\ IF ok THEN Goto(t, "assign_commit") ELSE Return(t)
    /\ UNCHANGED <<mediaVars, camVars, posVars, sceneDef, liveVars, diskVars, issued>>

\* The other position AssignCamera takes the camera from: the first it finds.
\* (variant: the other holder is not looked for)
VariantBumped(p, c) == {{}}
Bumped(p, c) == LET others == Holders(c) \ {p} IN
                IF others = {} THEN {{}} ELSE {{q} : q \in others}

AssignCommit(t) ==           \* only the position is checked again
    /\ At(t, "assign_commit")
    /\ LET p == th[t].pos  c == th[t].sel IN
        IF p \in Positions
        THEN \E bumped \in Bumped(p, c) :
             /\ cameraID' = [q \in AllPos |-> IF q = p THEN c
                                              ELSE IF q \in bumped THEN None ELSE cameraID[q]]
             /\ isAudio' = isAudio \ bumped
             /\ audioPositionID' = PointerWithout(bumped)
             /\ Become(t, Rest([Idle EXCEPT !.ids = bumped, !.todo = bumped \cap isAudio]))
        ELSE UNCHANGED <<cameraID, audioVars>> /\ Return(t)
    /\ UNCHANGED <<obs, mediaVars, camVars, posName, hiddenReady, sceneDef, liveVars, diskVars, issued>>

UnassignPosition(t) ==
    /\ Calls(t, "UnassignPosition")
    /\ \E p \in Positions \ {simple} :
        /\ cameraID[p] # None
        /\ Become(t, [Idle EXCEPT !.pc = "unassign_obs", !.pos = p])
    /\ UNCHANGED <<obs, mediaVars, camVars, posVars, sceneDef, liveVars, diskVars, issued>>

UnassignObs(t) ==            \* errors are only logged
    /\ At(t, "unassign_obs")
    /\ \E ok \in BOOLEAN : SetPositionEnabled(th[t].pos, FALSE, ok)
    /\ Goto(t, "unassign_commit")
    /\ UNCHANGED <<mediaVars, camVars, posVars, sceneDef, liveVars, diskVars, issued>>

UnassignCommit(t) ==
    /\ At(t, "unassign_commit")
    /\ LET p == th[t].pos  wasAudio == th[t].pos \in isAudio IN
        IF p \in Positions
        THEN /\ cameraID' = [cameraID EXCEPT ![p] = None]
             /\ isAudio' = isAudio \ {p}
             /\ audioPositionID' = PointerWithout({p})
             /\ IF wasAudio THEN Goto(t, "off_mute") ELSE Return(t)
        ELSE UNCHANGED <<cameraID, audioVars>> /\ Return(t)
    /\ UNCHANGED <<obs, mediaVars, camVars, posName, hiddenReady, sceneDef, liveVars, diskVars, issued>>

\* The audio pointer moves from prev (read under an earlier lock) to p.
MarkAudio(p, prev) ==
    /\ isAudio' = (isAudio \ {prev}) \cup {p}
    /\ audioPositionID' = p

FirstAudioStep(p) == IF audioPositionID \notin {None, p} THEN "mute" ELSE "unmute"

SetAudioPosition(t) ==
    /\ Calls(t, "SetAudioPosition")
    /\ \E p \in Positions \ {simple} :
        /\ cameraID[p] # None
        /\ Become(t, [Idle EXCEPT !.pos = p, !.prev = audioPositionID,
                      !.pc = IF FirstAudioStep(p) = "mute" THEN "audio_mute" ELSE "audio_unmute"])
    /\ UNCHANGED <<obs, mediaVars, camVars, posVars, sceneDef, liveVars, diskVars, issued>>

AudioMutePrev(t) ==          \* errors are only logged
    /\ At(t, "audio_mute")
    /\ \E ok \in BOOLEAN : SetInputAudioMuted(th[t].prev, TRUE, ok)
    /\ Goto(t, "audio_unmute")
    /\ UNCHANGED <<mediaVars, camVars, posVars, sceneDef, liveVars, diskVars, issued>>

AudioUnmute(t) ==
    /\ At(t, "audio_unmute")
    /\ \E ok \in BOOLEAN :
        /\ SetInputAudioMuted(th[t].pos, FALSE, ok)
        /\ IF ok THEN Goto(t, "audio_commit") ELSE Return(t)
    /\ UNCHANGED <<mediaVars, camVars, posVars, sceneDef, liveVars, diskVars, issued>>

AudioCommit(t) ==            \* only the position is checked again
    /\ At(t, "audio_commit")
    /\ IF th[t].pos \in Positions THEN MarkAudio(th[t].pos, th[t].prev)
                                  ELSE UNCHANGED audioVars
    /\ Return(t)
    /\ UNCHANGED <<obs, mediaVars, camVars, posName, cameraID, hiddenReady, sceneDef, liveVars, diskVars, issued>>

-----------------------------------------------------------------------------
\* Scenes.  Every operation is one critical section, save included.

\* (variant: the name is looked up in the file, not in memory)
VariantSceneNameFree(n) == \A s \in Scene : diskScenes[s].name # n
SceneNameFree(n) == \A s \in Scene : sceneDef[s].name # n
PublicIDs == SUBSET (Positions \ {simple})     \* validateScenePositionIDsLocked

CreateScene(t) ==
    /\ Calls(t, "CreateScene")
    /\ \E s \in Scene \ issued, n \in Name, ids \in PublicIDs, ok \in SaveResult :
        LET defs == [sceneDef EXCEPT ![s] = [name |-> n, ids |-> ids]] IN
        /\ SceneNameFree(n)
        /\ issued' = issued \cup {s}
        /\ PersistScenes(ok, defs)
        /\ sceneDef' = IF ok THEN defs ELSE sceneDef
    /\ UNCHANGED <<obs, mediaVars, camVars, posVars, liveVars, diskPositions, th>>

RenameScene(t) ==            \* a failed save keeps the new name
    /\ Calls(t, "RenameScene")
    /\ \E s \in Scenes, n \in Name, ok \in SaveResult :
        /\ sceneDef[s].name # n /\ SceneNameFree(n)
        /\ sceneDef' = [sceneDef EXCEPT ![s].name = n]
        /\ PersistScenes(ok, sceneDef')
    /\ UNCHANGED <<obs, mediaVars, camVars, posVars, liveVars, diskPositions, issued, th>>

UpdateScenePositions(t) ==   \* a failed save keeps the new ids and skips OBS
    /\ Calls(t, "UpdateScenePositions")
    /\ \E s \in Scenes, ids \in PublicIDs, ok \in SaveResult :
        /\ sceneDef' = [sceneDef EXCEPT ![s].ids = ids]
        /\ PersistScenes(ok, sceneDef')
        /\ IF ok /\ live = s THEN Become(t, [Idle EXCEPT !.pc = "vis_read", !.ids = ids])
                             ELSE UNCHANGED th
    /\ UNCHANGED <<obs, mediaVars, camVars, posVars, liveVars, diskPositions, issued>>

\* (variant: the preview keeps the deleted scene)
VariantDeleteScene(t) ==
    /\ Calls(t, "DeleteScene")
    /\ \E s \in Scenes :
        /\ live # s
        /\ sceneDef' = [sceneDef EXCEPT ![s] = NoScene]
        /\ PersistScenes(TRUE, sceneDef')
    /\ UNCHANGED <<obs, mediaVars, camVars, posVars, liveVars, diskPositions, issued, th>>

DeleteScene(t) ==            \* a failed save does not restore the scene
    /\ Calls(t, "DeleteScene")
    /\ \E s \in Scenes, ok \in SaveResult :
        /\ live # s
        /\ sceneDef' = [sceneDef EXCEPT ![s] = NoScene]
        /\ preview' = IF preview = s THEN None ELSE preview
        /\ PersistScenes(ok, sceneDef')
    /\ UNCHANGED <<obs, mediaVars, camVars, posVars, live, diskPositions, issued, th>>

-----------------------------------------------------------------------------
\* Preview and Cut.

SetPreviewCamera(t) ==
    /\ Calls(t, "SetPreviewCamera")
    /\ \E c \in Camera : status[c] # "absent" /\ preview' = c
    /\ UNCHANGED <<obs, mediaVars, camVars, posVars, sceneDef, live, diskVars, issued, th>>

SetPreviewScene(t) ==
    /\ Calls(t, "SetPreviewScene")
    /\ \E s \in Scenes : preview' = s
    /\ UNCHANGED <<obs, mediaVars, camVars, posVars, sceneDef, live, diskVars, issued, th>>

Cut(t) ==                    \* the call, up to ensureHiddenPosition
    /\ Calls(t, "Cut")
    /\ Become(t, EnsureHidden(t))
    /\ UNCHANGED <<obs, mediaVars, camVars, posVars, sceneDef, liveVars, diskVars, issued>>

\* The positions a Cut to s enables, and whether an offline camera forbids it.
EnableIDs(s) == (sceneDef[s].ids \cap Positions) \ {simple}
SourceUnavailable(s) == \E p \in EnableIDs(s) : cameraID[p] # None /\ status[cameraID[p]] = "offline"

\* What Cut goes on with after its first critical section.
CutPlan ==
    CASE preview = None -> Idle
      [] preview # None /\ live = preview -> [Idle EXCEPT !.pc = "cut_ok", !.sel = preview]
      [] preview \in Camera /\ live # preview ->
            IF status[preview] = "online"
            THEN [Idle EXCEPT !.pc = "cut_source", !.sel = preview, !.ids = {simple}]
            ELSE Idle
      [] preview \in Scene /\ live # preview ->
            IF sceneDef[preview] # NoScene /\ ~SourceUnavailable(preview)
            THEN [Idle EXCEPT !.pc = "vis_read", !.sel = preview, !.ids = EnableIDs(preview)]
            ELSE Idle

CutRead(t) ==
    /\ At(t, "cut_read")
    /\ Become(t, CutPlan)
    /\ UNCHANGED <<obs, mediaVars, camVars, posVars, sceneDef, liveVars, diskVars, issued>>

CutSource(t) ==
    /\ At(t, "cut_source")
    /\ \E ok \in BOOLEAN :
        /\ UpdatePositionSource(simple, th[t].sel, ok)
        /\ IF ok THEN Goto(t, "vis_read") ELSE Return(t)
    /\ UNCHANGED <<mediaVars, camVars, posVars, sceneDef, liveVars, diskVars, issued>>

\* applyExclusiveVisibility, for Cut (sel is the selection) and for
\* UpdateScenePositions (sel is None, and an error is only logged).
AfterVisibility(f) == CASE f.sel \in Camera -> [f EXCEPT !.pc = "autoaudio_read"]
                        [] f.sel \in Scene  -> [f EXCEPT !.pc = "cut_commit"]
                        [] OTHER -> Idle

VisibilityLoop(f) == IF f.todo # {} THEN [f EXCEPT !.pc = "vis_set"] ELSE AfterVisibility(f)

\* (variant: only the positions to enable are visited)
VariantVisRead(t) ==
    /\ At(t, "vis_read")
    /\ Become(t, VisibilityLoop([th[t] EXCEPT !.todo = th[t].ids]))
    /\ UNCHANGED <<obs, mediaVars, camVars, posVars, sceneDef, liveVars, diskVars, issued>>

VisRead(t) ==
    /\ At(t, "vis_read")
    /\ Become(t, VisibilityLoop([th[t] EXCEPT !.todo = Positions]))
    /\ UNCHANGED <<obs, mediaVars, camVars, posVars, sceneDef, liveVars, diskVars, issued>>

VisSet(t) ==                 \* the first error ends the loop, and the Cut
    /\ At(t, "vis_set")
    /\ \E p \in th[t].todo, ok \in BOOLEAN :
        /\ SetPositionEnabled(p, p \in th[t].ids, ok)
        /\ IF ok THEN Become(t, VisibilityLoop([th[t] EXCEPT !.todo = @ \ {p}])) ELSE Return(t)
    /\ UNCHANGED <<mediaVars, camVars, posVars, sceneDef, liveVars, diskVars, issued>>

\* setAudioPositionInternal(simplePositionID), for the Cut to a camera.
AutoAudioRead(t) ==
    /\ At(t, "autoaudio_read")
    /\ Become(t, [th[t] EXCEPT !.prev = audioPositionID,
                  !.pc = IF FirstAudioStep(simple) = "mute" THEN "autoaudio_mute" ELSE "autoaudio_unmute"])
    /\ UNCHANGED <<obs, mediaVars, camVars, posVars, sceneDef, liveVars, diskVars, issued>>

AutoAudioMute(t) ==          \* errors are only logged
    /\ At(t, "autoaudio_mute")
    /\ \E ok \in BOOLEAN : SetInputAudioMuted(th[t].prev, TRUE, ok)
    /\ Goto(t, "autoaudio_unmute")
    /\ UNCHANGED <<mediaVars, camVars, posVars, sceneDef, liveVars, diskVars, issued>>

AutoAudioUnmute(t) ==        \* on an error the Cut goes on without its audio
    /\ At(t, "autoaudio_unmute")
    /\ \E ok \in BOOLEAN :
        /\ SetInputAudioMuted(simple, FALSE, ok)
        /\ Goto(t, IF ok THEN "autoaudio_commit" ELSE "cut_commit")
    /\ UNCHANGED <<mediaVars, camVars, posVars, sceneDef, liveVars, diskVars, issued>>

\* (variant: the id of the camera is stored where a position id belongs)
VariantAutoAudioCommit(t) ==
    /\ At(t, "autoaudio_commit")
    /\ isAudio' = (isAudio \ {th[t].prev}) \cup ({simple} \cap Positions)
    /\ audioPositionID' = th[t].sel
    /\ Goto(t, "cut_commit")
    /\ UNCHANGED <<obs, mediaVars, camVars, posName, cameraID, hiddenReady, sceneDef, liveVars, diskVars, issued>>

AutoAudioCommit(t) ==
    /\ At(t, "autoaudio_commit")
    /\ isAudio' = (isAudio \ {th[t].prev}) \cup ({simple} \cap Positions)
    /\ audioPositionID' = simple
    /\ Goto(t, "cut_commit")
    /\ UNCHANGED <<obs, mediaVars, camVars, posName, cameraID, hiddenReady, sceneDef, liveVars, diskVars, issued>>

\* The hidden position takes the camera from every position that has it.
TakeCamera(c) ==
    cameraID' = IF simple \in Positions
                THEN [p \in AllPos |-> IF p = simple THEN c
                                      ELSE IF cameraID[p] = c THEN None ELSE cameraID[p]]
                ELSE cameraID

CutCommit(t) ==              \* nothing is checked again
    /\ At(t, "cut_commit")
    /\ live' = th[t].sel
    /\ IF th[t].sel \in Camera THEN TakeCamera(th[t].sel) ELSE UNCHANGED cameraID
    /\ Become(t, [Idle EXCEPT !.pc = "cut_ok", !.sel = th[t].sel])
    /\ UNCHANGED <<obs, mediaVars, camVars, posName, audioVars, hiddenReady, sceneDef, preview, diskVars, issued>>

CutReply(t) ==               \* Cut returns without an error
    /\ At(t, "cut_ok")
    /\ Return(t)
    /\ UNCHANGED <<obs, mediaVars, camVars, posVars, sceneDef, liveVars, diskVars, issued>>

-----------------------------------------------------------------------------
\* The environment: cameras come and go, time passes, the process restarts.

StreamChange(c) ==
    /\ "Streams" \in Ops
    /\ streams' = IF c \in streams THEN streams \ {c} ELSE streams \cup {c}
    /\ UNCHANGED <<obs, mediaUp, camVars, posVars, sceneDef, liveVars, diskVars, issued, th>>

MediaChange ==
    /\ MediaFaults
    /\ mediaUp' = ~mediaUp
    /\ UNCHANGED <<obs, streams, camVars, posVars, sceneDef, liveVars, diskVars, issued, th>>

Expire(c) ==                 \* offlineRemoveAfter has gone by
    /\ offlineSince[c] = "recent"
    /\ offlineSince' = [offlineSince EXCEPT ![c] = "expired"]
    /\ UNCHANGED <<obs, mediaVars, status, mediaConnected, posVars, sceneDef, liveVars, diskVars, issued, th>>

\* New: the stores are loaded, nothing else survives; then main starts Run.
BootFrames == [t \in Thread |-> [Idle EXCEPT !.pc = IF t = Ticker THEN "run" ELSE "idle"]]
LoadedNames(disk) == [p \in AllPos |-> IF p = simple THEN None ELSE disk[p]]

\* A file that cannot be read is taken for an empty one (and stays until a save).
LoadPositions == \/ posName' = LoadedNames(diskPositions)
                 \/ SaveFaults /\ posName' = [p \in AllPos |-> None]
LoadScenes    == \/ sceneDef' = diskScenes
                 \/ SaveFaults /\ sceneDef' = [s \in Scene |-> NoScene]

Restart ==
    /\ "Restart" \in Ops
    /\ LoadPositions /\ LoadScenes
    /\ status' = [c \in Camera |-> "absent"]
    /\ offlineSince' = [c \in Camera |-> "none"]
    /\ mediaConnected' = FALSE
    /\ cameraID' = [p \in AllPos |-> None]
    /\ isAudio' = {} /\ audioPositionID' = None /\ hiddenReady' = FALSE
    /\ preview' = None /\ live' = None
    /\ th' = BootFrames
    /\ UNCHANGED <<obs, mediaVars, diskVars, issued>>

\* The state right after New, OBS holding one input per persisted position.
Init ==
    /\ diskPositions \in BootPositions /\ diskScenes \in BootScenes
    /\ posName = LoadedNames(diskPositions) /\ sceneDef = diskScenes
    /\ issued = {p \in Position : diskPositions[p] # None} \cup {s \in Scene : diskScenes[s] # NoScene}
    /\ obs = LET ps == {p \in Position : diskPositions[p] # None} IN
             [inputs |-> ps, enabled |-> {}, unmuted |-> ps, source |-> [p \in AllPos |-> None]]
    /\ streams \in SUBSET Camera /\ mediaUp = TRUE
    /\ status = [c \in Camera |-> "absent"] /\ offlineSince = [c \in Camera |-> "none"]
    /\ mediaConnected = FALSE
    /\ cameraID = [p \in AllPos |-> None] /\ isAudio = {} /\ audioPositionID = None
    /\ hiddenReady = FALSE
    /\ preview = None /\ live = None
    /\ th = BootFrames

SyncStep(t) == SyncFail(t) \/ SyncReconcile(t) \/ OffDisable(t) \/ OffMute(t) \/ Prune(t)

PositionStep(t) ==
    \/ CreatePosition(t) \/ CreateObs(t) \/ CreateCommit(t) \/ CreateConflict(t) \/ CreateUndo(t)
    \/ RenamePosition(t)
    \/ DeletePosition(t) \/ DeleteDisable(t) \/ DeleteMute(t) \/ DeleteRemove(t) \/ DeleteCommit(t)

AssignStep(t) ==
    \/ AssignCamera(t) \/ AssignObs(t) \/ AssignCommit(t)
    \/ UnassignPosition(t) \/ UnassignObs(t) \/ UnassignCommit(t)
    \/ SetAudioPosition(t) \/ AudioMutePrev(t) \/ AudioUnmute(t) \/ AudioCommit(t)

SceneStep(t) == CreateScene(t) \/ RenameScene(t) \/ UpdateScenePositions(t) \/ DeleteScene(t)

LiveStep(t) ==
    \/ SetPreviewCamera(t) \/ SetPreviewScene(t)
    \/ Cut(t) \/ CutRead(t) \/ CutSource(t) \/ VisRead(t) \/ VisSet(t)
    \/ AutoAudioRead(t) \/ AutoAudioMute(t) \/ AutoAudioUnmute(t) \/ AutoAudioCommit(t)
    \/ CutCommit(t) \/ CutReply(t)

HiddenStep(t) == HiddenCreateInput(t) \/ HiddenRegister(t)

Environment == MediaChange \/ Restart \/ \E c \in Camera : StreamChange(c) \/ Expire(c)

Next == \/ \E t \in Thread : \/ SyncFetch(t) \/ SyncStep(t) \/ HiddenStep(t)
                              \/ PositionStep(t) \/ AssignStep(t) \/ SceneStep(t) \/ LiveStep(t)
        \/ RunStart
        \/ Environment

Spec == Init /\ [][Next]_vars

\* The ticker goroutine never stops scheduling its next SyncOnce, and clocks advance.
Fairness == /\ WF_vars(RunStart \/ SyncFetch(Ticker) \/ SyncStep(Ticker) \/ HiddenStep(Ticker))
            /\ \A c \in Camera : WF_vars(Expire(c))

FairSpec == Spec /\ Fairness

-----------------------------------------------------------------------------
\* Properties.

\* Every variable has its type; what the code keeps in a removed map entry is gone.
TypeOK ==
    /\ obs \in ObsType
    /\ streams \subseteq Camera /\ mediaUp \in BOOLEAN
    /\ status \in [Camera -> Status] /\ offlineSince \in [Camera -> Since]
    /\ mediaConnected \in BOOLEAN
    /\ posName \in [AllPos -> Name \cup {None, simple}]
    /\ cameraID \in [AllPos -> Camera \cup {None}]
    /\ isAudio \subseteq AllPos /\ audioPositionID \in AllPos \cup {None}
    /\ hiddenReady \in BOOLEAN
    /\ sceneDef \in [Scene -> SceneDef \cup {NoScene}]
    /\ preview \in Selection /\ live \in Selection
    /\ diskPositions \in [Position -> Name \cup {None}]
    /\ diskScenes \in [Scene -> SceneDef \cup {NoScene}]
    /\ issued \subseteq Position \cup Scene
    /\ th \in [Thread -> Frame]

\* A camera is in at most one position, the hidden one included, whatever
\* AssignCamera, Cut, UnassignPosition and SyncOnce do to each other: the loops
\* that stop at the first holder of a camera rely on it.
CameraExclusive ==
    \A p, q \in AllPos : p # q /\ cameraID[p] # None => cameraID[p] # cameraID[q]

\* audioPositionID is empty or names a position that exists and is marked as an
\* audio source: the next SetAudioPosition mutes and demotes what it names, so a
\* dangling pointer would leave two sources.
AudioPointerValid ==
    audioPositionID # None => audioPositionID \in isAudio \cap Positions

\* A camera is offline exactly when the moment it went offline is recorded: an
\* offline camera without it would never be pruned, an online one with it would
\* be pruned at its next blip.
OfflineTracked == \A c \in Camera : status[c] = "offline" <=> offlineSince[c] # "none"

\* Two public positions never have the same name, in memory or in the file that
\* the next start loads, although CreatePosition checks the name before its OBS
\* call and a failed save leaves memory and file different.
PositionNamesUnique == NamesUnique(posName) /\ NamesUnique(diskPositions)

\* The same for scenes.
SceneNamesUnique == SceneDefsUnique(sceneDef) /\ SceneDefsUnique(diskScenes)

\* A scene in preview exists: DeleteScene clears the preview that shows it.
PreviewSceneExists == preview \in Scene => preview \in Scenes

\* Every OBS input belongs to a position, or to a CreatePosition or an
\* ensureHiddenPosition that has not committed yet; every position has its input,
\* unless a DeletePosition of it has not committed yet.
Pending(p, labels) == \E t \in Thread : th[t].pos = p /\ th[t].pc \in labels
InputsMatchPositions ==
    /\ \A p \in obs.inputs \ Positions :
          Pending(p, {"create_commit", "create_undo"}) \/ (p = simple /\ \E t \in Thread : At(t, "hidden_reg"))
    /\ \A p \in Positions \ obs.inputs : Pending(p, {"delete_commit"})

OperatorsIdle == \A t \in Request : At(t, "idle")

\* Between operations OBS shows nothing outside the selection on air: the hidden
\* position for a camera, the scene's positions for a scene (see Healing).
OnAir(sel) == IF sel \in Camera THEN {simple} ELSE EnableIDs(sel)
OnAirMatchesLive ==
    OperatorsIdle /\ live # None => obs.enabled \subseteq OnAir(live)

\* SetAudioPosition marks its position as the sole audio source: at most one
\* position is marked, the one the pointer names.
AudioSole == isAudio \subseteq {audioPositionID}

\* The scene on air exists: DeleteScene refuses to delete it.
LiveSceneExists == live \in Scene => live \in Scenes

\* A camera that stays away is pruned for good once the media server answers for
\* good, however often it failed to answer before.
GoneCamerasPruned ==
    \A c \in Camera : <>[](mediaUp /\ c \notin streams) => <>[](status[c] = "absent")

\* A camera that streams steadily is shown online for good, whatever concurrent
\* syncs with older answers do to it.
SteadyCamerasOnline ==
    \A c \in Camera : <>[](mediaUp /\ c \in streams) => <>[](status[c] = "online")
=============================================================================

# Live Orchestrator: a TLA+ verification project

Live Orchestrator puts cameras on air. Cameras publish RTMP streams to a media
server (MediaMTX). A Go backend keeps the list of cameras, the *positions* a
camera can be placed in, the *scenes* (sets of positions) and the selection that
is in preview and on air, and carries all of that out in OBS Studio. A second
part of the backend relays what OBS streams to the platforms of the active
client, one ffmpeg process per destination. Operators work in an Angular page
that sends REST requests and gets every change over a WebSocket.

The modules here model that program from its source; the theorems are about the
modules; the runs model-check small instances. Paths below are relative to
`src/`, and `O` stands for
`backend/internal/orchestrator/orchestrator.go`.

## 1. Inventory

| component | state it keeps | operations | what makes it correct |
|---|---|---|---|
| orchestrator (`O`, `models.go`) | cameras with the time they went offline, positions with camera and audio flag, the audio pointer, scenes, preview and live; all under `o.mu` | `Run`/`SyncOnce`, `CreatePosition` ... `DeletePosition`, `AssignCamera`, `UnassignPosition`, `SetAudioPosition`, four scene operations, two previews, `Cut` | a camera in one position; one audio source; names unique; references not dangling; OBS shows what is live |
| obs (`internal/obs`) | `client`, `connected` under its own `mu`; the local `backoff` of the loop | calls on inputs, scene items, mutes, the program stream; `watchLoop`, `Reconnect`, `Close` | each call does what it says or reports an error, or both when the connection breaks; one connection at a time, found again after every outage |
| positions, scenes stores | one JSON file each | `Load`, `Save` | a failed save leaves the old file; a failed load counts as an empty one |
| mediaserver | none | `ListActiveStreams` | an answer or an error |
| broadcast (`internal/broadcast`) | active client, running, one runtime per destination with process and generation, `nextGen`; under `m.mu` | `SetActiveClient`, `Start`, `Stop`, `RestartDestination`, the `watch` goroutines | only the active client's destinations; no lost process; deaths noticed |
| events hub, WebSocket handler, page | `Hub.subs` with a channel each, `Server.conns`, the page's socket, timer and signals | `Subscribe`, `Publish`, `handleWS`, `CloseAllWS`; `connect`, `disconnect`, callbacks | pages show true states, recover from broken connections, leave nothing behind |
| clients, platforms, ingests, live ids | four PostgreSQL tables | `Create`, `Update`, `Delete`, reads | unique tuples, references that hold |
| cmd/server | phase of the shutdown | boot, shutdown in order | nothing survives the shutdown |
| pagination (`internal/pagination`, the four `List`) | none: the cursor is with the caller | `ParseRequest`, `List`, `NewPage` | a walk neither repeats nor skips a row, whatever is written in between |
| REST handlers, config, Angular components | none of their own | | see section 7 |

How they interact. Requests, the sync goroutine, watch goroutines and WebSocket
handlers are goroutines of one process. They share the fields under `o.mu` and
`m.mu`, and the OBS controller's under its own lock, which `Status` takes while
it holds `o.mu` and `Reconnect` holds while it dials. Calls to OBS, to the media server and to the database are made outside
`o.mu`, in `Start` outside `m.mu`, so that operations *decide* under one lock
and *commit* under another. After a commit the new snapshot is published to the
hub, by the orchestrator without a lock over both, by the broadcast manager
under `m.mu`.

What is hard, then: two operations between each other's sections; a remote
operation that fails half-way; saves that fail while memory goes on; restarts
that remember the two files and nothing else while OBS remembers everything;
goroutines that report the death of a process that has been replaced; channels
that are full; transactions that do not see each other; a connection that is replaced
under the calls that use it; a listing that changes between two pages. The list with lines is
`hazards` in `PROJECT.json`.

## 2. Modules

| module | models | its state, in the code |
|---|---|---|
| `ObsProgram` | what OBS holds, and what the controller's calls do to it | `obs`: inputs, enabled scene items, inputs not muted, the camera each input plays |
| `Orchestrator` | the orchestrator, its stores, the media server's answers | `status`, `offlineSince`: `o.cameras`, `o.offlineSince`; `posName`, `cameraID`, `isAudio`, `audioPositionID`, `hiddenReady`: `o.positions` and its pointers; `sceneDef`, `preview`, `live`; `diskPositions`, `diskScenes`: the files; `th`: the frames of the goroutines |
| `Healing` | `Orchestrator` with history variables: what overlapping operations leave behind, and what puts it right | `solo`, `mixed`, `suspect` restrict nothing |
| `ObsConnection` | the connection to OBS: `watchLoop`, calls, locks, `Close` | `client`, `connected`, `mu`: `ObsController`; `watch`, `backoff`: the frame of `watchLoop`; `open`: websocket connections; `th`: requests inside a call, or at one of the two locks |
| `Broadcast` | the broadcast manager, relays, `main`'s shutdown | `client`, `running`, `dests`, `nextGen`: the Manager; `proc`: ffmpeg processes; `watchers`: the goroutines `go m.watch(...)`; `streaming`: OBS's output; `th` |
| `StatusFeed` | the promise of the feed, abstractly | `current`, `shown` |
| `SnapshotFeed` | hub, `handleWS`, connections, page | `subs`, `buf`: `Hub.subs` and channels; `tracked`: `Server.conns`; `handler`, `held`: frames of `handleWS`; `link`, `wire`: the network; `page`, `shown`: `WebSocketService` and its signals |
| `Registry` | the four domain services over the schema | `db`: the row of each uuid; `th`: the transactions |
| `Pagination` | one walk through a listing | `created`, `matching`: the table and the filter; `walk`: the caller's request and cursor; `page`, `read`, `kept`: history |
| `OrchestratorProofs` | theorems about the orchestrator: its types, which step changes what, and what holds without any condition | |
| `OrchestratorThreads` | what holds of it under a limit on what runs at once or on what fails: how a step changes the frame of its thread, and two theorems | |
| `HealingProofs` | that one operation alone puts right what overlapping ones have left | |
| `BroadcastProofs`, `SnapshotFeedProofs`, `RegistryProofs`, `PaginationProofs`, `ObsConnectionProofs` | theorems about the module each is named for | |
| `MC*` | instances for TLC | |

Conventions common to all of them:

* **Grain.** What holds a lock is one step; a call made without it (OBS, media
  server, one database statement, one write to a socket) is one step. A frame
  `th[t]` (or `handler[c]`, `pub[g]`) is the label the goroutine is at and its
  local variables. A request that is refused before it changes anything is no
  step.
* **Remote failures.** A call to OBS is carried out and reported; or refused; or,
  where `ObsFaults`, the connection breaks and the error is reported although the
  call may have been carried out. `Store.Save` may fail where `SaveFaults`, the
  `Store.Load`, too; the media server is down at times where `MediaFaults`, a process fails to start
  where `SpawnFaults`.
* **Variants.** An operator whose name starts with `Variant` is a plausible bug
  in the definition it is named for. No specification uses it; putting it in the
  place of that definition shows that a property would notice the bug.

Points of the code that shape the modules:

* `Orchestrator.Cut` has three locked sections and up to two loops of OBS
  calls; a cut to a camera goes through the hidden position `simple`, which
  `ensureHiddenPosition` creates. `Frame.ids/todo` hold the loop's progress.
* time is three values, `none`, `recent`, `expired`: the code only compares the
  time since a camera went offline with 60 s. `Expire` is the passing of it.
* `issued` records ids that `NewID` has returned: ids are random and are not
  returned twice.
* `Broadcast.Spawnings` lets the destinations of one `Start` get their
  generations in any order (Go's order of the list does not matter to anyone).
* `SnapshotFeed`: a payload is the number of the state it shows. `missed` is a
  history variable: the topics whose last change a connection cannot have got.
  Connections that nobody holds any more are alike, so that `Dial` takes any one.
* `Registry`: the server runs PostgreSQL at its default, READ COMMITTED: each
  statement sees what is committed by then. A transaction here has one writing
  statement, its last, which takes effect with the commit. `Save` of the ORM
  (gorm v1.31.2, not part of the repository) updates all columns and, when no
  row was there to be updated, inserts the row.
* `ObsConnection` cuts the program elsewhere than `ObsProgram`: there a call is
  one step and a broken connection an outcome; here the connection is the
  subject, a call waits for the lock to take the client, looks something up (`findInput`
  with a client of its own) and acts, and what the call does to OBS is left out. `OBS` is up, down, or slow: connections
  stay open while answers come too late. Connections that nobody refers to are
  alike, so that a dial takes any one. A writer that waits for `o.mu` keeps new
  readers out, as in Go's `RWMutex`. `Close` and the end of the process are two
  steps: in between `watchLoop` runs on.
* `Healing!Note` marks every operation that overlaps another one. What an overlap
  may have left wrong (`mixed`: visibility; `suspect`: sources) stays in doubt
  until an operation that ran alone from its first section puts it right, or ends
  with nothing wrong.
* `Pagination`: other requests make rows appear in, and vanish from, what the
  filter selects. Rows become visible in any order of their `created_at`, which
  each backend sets before its insert commits; a deleted row may come back
  (`Registry!Save`). The cursor's base64 and JSON carry both fields in full
  (`TestCursor_EncodeDecode_RoundTrip`) and are left out.

## 3. Runs

Every run of a safety property explores all interleavings of the requests it
has, the sync goroutine, the environment and the faults it enables.

| run | what it asks | instance |
|---|---|---|
| `orch_cameras` | no camera in two positions; every offline camera dated; inputs of OBS and positions in step | 2 requests, 2 positions, 1 name, 1 camera, create/delete position, assign, unassign, preview, cut; media server up and down |
| `orch_files` | names unique in memory and on disk, the preview not dangling | 2 requests, 2 positions, 2 scenes, 2 names: create, rename, edit, delete scene; failing saves and loads, broken OBS connections, restarts |
| `orch_heals` | OBS shows only what is on air, and inputs play the assigned camera, but for overlaps, and until the next operation alone | 2 requests, 1 position, 2 cameras, 1 scene: assign, edit scene, preview, cut |
| `orch_sync` | the audio pointer does not dangle; gone cameras are pruned, steady ones end online | fairness; 1 request, 2 positions and the hidden one, 1 camera: assign, unassign, delete position, audio, preview, cut; `POST /sync`; media server up and down |
| `bcast_relays` | destinations of the active client; connected means held; what is held is watched; the death of a relay is noticed | fairness; 2 requests, 2 clients of which one has 2 live ids, 2 processes, failing spawns, shutdown |
| `feed` | the page shows true states and, of the broadcast, never an older one later; nothing lost but for three named reasons; connections released; the page reconnects | fairness; 1 page, 2 connections, 1 publisher, 1 fault |
| `registry` | index tuples unique, platforms of live ids exist | 2 requests, 1 client, 1 platform, 2 ingests, 2 live ids, 2 keys |
| `obs_connection` | one connection at a time; no call acts in another OBS than it looked into; outages start with the shortest delay, end, and are noticed; no lock holds up a request or `Close` for ever | fairness; 2 requests, 3 connections, OBS up, slow and down at will |
| `pages` | a walk repeats no row and skips none that stays | 4 rows, 3 times, pages of 1 or 2 rows, an unreliable database |
| `bug_live_scene`, `bug_audio_two`, `bug_bcast_orphan` | what the code does not keep, section 6 | |

Bounds, and why they are enough.

* *Two requests* are enough for the races of `O`: each is between the sections
  of one operation and one other operation; the sync goroutine is a third actor.
  What `CameraExclusive`, `OfflineTracked`, the name properties,
  `PreviewSceneExists`, `AudioPointerValid` and `InputsMatchPositions` say is
  proved for any number.
* *One request* in `orch_sync` can be the second sync, which is what the liveness
  properties are about: two syncs overlap, an older answer is applied last, a camera
  is pruned that has come back, the media server stops and begins to answer in
  between. *One camera* there: the sync loop treats each camera by itself. Two
  positions and the hidden one let the audio source move between any two.
  `AudioPointerValid`, checked here with one request and the loop, is proved for any
  number.
* The *view* of `orch_sync` (`ButThePicture`) leaves out which inputs OBS shows and
  lets through and what they play. With `ObsFaults = FALSE` the answer to a call
  depends only on which inputs OBS has, so that nothing the run checks can depend on
  the rest; without the view the run has 1,142,416 states instead of 330,888, and
  passes as well.
* *One camera and two positions*, one of them `simple`, are what `CameraExclusive`
  needs to fail. The one name of `orch_cameras` lets two creations race to the
  same name, and then one named position stand beside `simple`.
  `orch_heals` has two cameras, so that an input can play the wrong
  one, and no `Streams`: cameras stay as they are when it begins, since the loop's
  own steps are in `orch_cameras`.
* `orch_files` deletes no positions (`orch_cameras` does, where saves succeed):
  that a deletion whose save failed keeps the names unique is proved.
* `ObsFaults` is `FALSE` where a property is about OBS (`InputsMatchPositions`,
  `OnAirHeals`, `SourceHeals`): after a broken connection OBS differs from
  memory until the next operation, whatever the program does. For the same
  reason `orch_cameras` has `SaveFaults = FALSE`: the input of a
  `CreatePosition` whose save failed stays in OBS.
* `MaxGen` bounds the generations (Go: `uint64`) at 3 in `bcast_relays`, a start
  of two destinations and a restart, or a second start; at 4 in
  `bug_bcast_orphan`: two starts and restarts of one destination between them,
  which is what `NoOrphanProcess` needs to fail.
* `Buffer` is 1 (Go: 16) and `Wire` is 1, so that a full channel and a slow page
  happen within few steps. Versions: 2 of the orchestrator's topic, 3 of the
  broadcast's: a change before, while and after a page subscribes. `MaxFaults` is
  1: one break, shutdown or restart while a page is on its first or second
  connection. The safety properties were also checked once with 2.
* The registry has one client and one platform, as no property relates two of them
  and no update moves a row from one to another; `Extra`
  stands for columns no check reads and has one value.
* `MaxBackoff` is 3 (Go: 30): the delay doubles once and is then cut off, as at 16
  in the code. Three connections: the one in use and one that each request may
  still hold. Outages are not bounded.
* Pages of at most 2 of 4 rows give walks of up to four pages; three values of
  `created_at` give ties within a page and across two. Writes are not bounded.

Symmetry is used where the elements of a set are interchangeable and no liveness
property is checked. `bcast_relays` and `feed` are checked without deadlock
detection: the server exits; pages are closed and the changes are bounded. (In
`obs_connection` OBS goes on changing when the server has exited.) In
all other passing runs TLC also checks that the system never stops.

Fairness.

* `Orchestrator!FairSpec`: the sync goroutine takes its steps (`Run` loops over a
  ticker until the process ends, `O:154-174`) and time passes. Requests have no
  fairness. The two liveness properties suppose that the camera and the media
  server end in a steady state, as `<>[]` in the hypothesis.
* `Broadcast!FairSpec`: the goroutines `go m.watch` of each live id take their
  steps once their processes have ended (`broadcast.go:290-314`). Nothing obliges a process to end or
  a request to come.
* `SnapshotFeed!FairSpec`: the goroutine of each handler runs, as Go's scheduler
  makes it, its writes and pings on a broken connection end, and the browser
  fires timers and events of each page (`websocket.service.ts:72-76`).
  Nothing obliges the server's state to change, a change to be published, a
  connection to break.
* `ObsConnection!FairSpec`: `watchLoop` runs (its ticker and timers fire), every
  call to OBS, a dial included, ends in an answer or an error, and whoever waits
  for a lock, `getClient` included, gets it (strong fairness, as Go's mutexes hand over to a waiter that
  starves). OBS has none: `Recovers` and `LossNoticed` suppose that it stays up,
  or down, for good (`<>[]`). `EveryCallReturns` needs no such thing.

## 4. The abstract specification

`StatusFeed` says what an operator may believe: a page shows states the server
has been in; of a topic published in order it does not go back. `SnapshotFeed`
implements it with `current <- ver` and `Ordered <- Locked` (property
`ShowsOnlyProgress` of run `feed`). Only `broadcast.status` is in `Locked`: it is
published under the lock it changes under. For the orchestrator's topics the
second half does not hold, as `publishCameras` (`O:292-318`) reads and publishes
after the lock is gone; the variant of `Change` for the broadcast shows the
difference is seen. `NothingElseLost` complements it: what can go missing, and
nothing more.

## 5. Proofs

All theorems are checked by TLAPS, for all values of the constants, from the
assumptions in the modules that declare them (`OrchAssumption`: sets that are
disjoint, files at boot without duplicate names, as `Save` wrote them;
`RegistryAssumption`: the tables' uuids are disjoint and not empty;
`PaginationAssumption`: finitely many rows, times that compare as numbers, a default
limit within the longest; `ConnectionAssumption`: `None` is no connection, and the
longest delay is at least one second; `BroadcastAssumption`: a live id belongs to
one client, there are finitely many; `FeedAssumption`: the initial snapshot is not
empty and shows every topic that is published under its lock, as `handleWS` does
(`ws.go:53-57`), and channels and connections hold at least one message).

* `TypeCorrect` (`TypeOK` of the orchestrator). Inductive only with the frames
  typed by label (`FrameAt`: at `assign_commit` a frame holds a position and a
  camera, ...) and with names of positions that are not the reserved one:
  `TypeInv`.
* `CameraNeverTwice`. `AssignCommit`, `CutCommit` and `SyncReconcile` first clear
  a camera from other positions. `Bumped` only clears *existing* positions, so
  the induction needs that a position that does not exist holds no camera
  (`CamerasInPositions`); together `ExclusiveInv`.
* `OfflineAlwaysTracked`. Inductive with the types: status and time change
  together in `SyncReconcile`, `Prune` and `Restart`.
* `PositionNamesNeverClash`, `SceneNamesNeverClash`, `PreviewNeverDangles`. Files
  hold what was in memory at some save, so that both halves of the names are
  carried along; names are compared again at the commit of `CreatePosition`.
* `AudioPointerNeverDangles`. `Cut` makes the hidden position the audio source
  without looking whether it exists. It does: each frame past
  `ensureHiddenPosition` was there, and nothing removes it (`HiddenKept`).
* `RegistryTypes`, `TuplesNeverCollide`, `PlatformNeverLost`. One invariant,
  `Inv`: types, unique tuples and platforms. A write is one row that the schema
  accepts (`Writes`), a delete one row that nothing needs (`Drops`); each keeps
  each part, and each action is one of the two or leaves the rows alone. Note
  what it rests on: the counts in the services are not needed, the indexes are.

* `PageTypes`, `NoRepeats`, `NoSkips`. `After` is a total order of the rows
  (`AfterOrder`, `BelowOrder`), because the uuid decides between equal times; a finite set of
  rows has a first and a last (`FirstExists`, `LastExists`, from a well-founded order
  of the subsets), so that a page is the first rows after the cursor and the cursor
  its last. Inductive with `CursorBehind`: everything read so far is not after
  the cursor.
* `ConnectionTypes`, `NeverTwoConnections`, `IdsNeverOutliveObs`,
  `DelayNeverInherited`. `Reconnect` dials with no connection left open
  (`DialWithoutConnection`), so that a new one is the only one, and one that no call
  has taken: a call from before finds its connection closed, and with it its
  ids out of reach. That none is open after `Close` is not among them: it does
  not hold (section 6).

* `OneAudioSource` (`Spec => ([]OneAudioMove => []AudioSole)`): **in a behaviour in
  which no two operations ever move the audio source at once**, that is, are between
  the read of the pointer and its commit. Any number of requests do anything else, and
  may clear the source in between; inductive because a thread on its way to the
  commit holds in `prev` whatever is marked (`SoleInv`). The code does not enforce
  the condition: `bug_audio_two` is a behaviour with two. The theorem says that
  nothing but such an overlap makes a second source.
* `InputsAndPositionsAgree`, **without connection faults, failing saves or a
  restart**, each of which leaves OBS and the positions different. Inductive with
  `IdsIssued`, `CreatorsAlone` (nobody else works on a position that is being
  created, because its id is new) and `CallsStand` (what a thread has done in OBS
  still holds when it commits). Any number of requests may run at once.
  Both rest on one lemma about frames, `OwnFrame`: a step either enters
  an operation, follows one edge of the list `Edges`, leaves the labels in question
  or keeps the frame.
* `BroadcastTypes`, `ConnectedIsHeld`, `HeldIsWatched`, `NeverAnotherClient`. One
  invariant, `Inv`: the four properties and `ListedForClient`: the destinations in
  the frame of a `Start` were listed for the client it read.
  `ConnectedHasProcess` and `HeldProcessWatched` hold although generations are
  reused (section 6), because a reused number makes the manager forget a process,
  never hold one that nobody watches.
* `FeedTypes`, `OnlyNamedLosses`, `FeedImplements` (`Spec => ShowsOnlyProgress`, that
  is, `SnapshotFeed` implements `StatusFeed`). The induction follows a state from the
  publisher to the page: `Way(c)` is all that connection `c` can still bring
  (snapshot to be sent, message held, channel, wire), in order. `InOrder` says that
  along it no number is above the present state, and those of a `Locked` topic do
  not decrease and start no lower than what the page shows; `Arriving` that the last
  one is the present state, or the loss is one of `missed`. Each action moves,
  appends to, or drops a part of `Way`; the step simulation then reads off that
  what a page shows next is a state that was, and not an older one.

* `OneCutHeals` and `OneAssignHeals` (`HealSpec => []OnAirHeals`, `[]SourceHeals`),
  **under the same three conditions** as `InputsAndPositionsAgree`, which they use:
  a broken connection in the loop of a `Cut` alone leaves the loop half done. The
  history variables name the request that runs alone; `HealInv` says how far it has
  come. `Doing`: its loop has left visible only what it is to leave visible
  or has still to visit, the input it is about to commit plays its camera.
  `Shown`: OBS shows only inputs it has, and the hidden position only when
  that is registered. `DoubtInv`: without doubt, OBS shows what is on air or
  the lone request is between the labels where it makes it so (`Showing`, `Busy`).
  The loop of a lone request cannot fail, because each position then has its input
  (`InputsThere`); `Run` and the cameras cannot disturb it, as they only switch
  inputs off and take cameras away (`OutsideKeeps`).

Only model-checked is all liveness:
`GoneCamerasPruned`, `SteadyCamerasOnline`, `DeathNoticed`, `Released`, `Reconnects`,
`Recovers`, `LossNoticed`, `EveryCallReturns`, `CloseEnds` (the prover has no rules for
fairness and `ENABLED`). Induction over data is out of the prover's reach
too; the proofs about channels go by positions in the sequences instead, and no
module uses `RECURSIVE`.

## 6. Where the code differs from what it says

Three runs end in a violation, each with the line it contradicts (`findings`):

* `bug_live_scene`: `Cut` reads a scene, changes OBS without the lock and puts
  the scene on air (`O:1111`); `DeleteScene` may have removed it in between.
* `bug_bcast_orphan`: generations come from `rt.gen++` and from `m.nextGen++`. A
  watch goroutine of before a Stop may find its number in use again, and then
  makes the manager forget a process that runs.
* `bug_audio_two`: two `SetAudioPosition` read one previous source, and each marks
  its own position (`O:820-834`), against the sole source of `O:791`. Nothing
  demotes the one that the pointer does not name.

Other differences seen with TLC while the modules were written, without a run of
their own; the modules do what the code does in each case:

* `SyncOnce` chooses the cameras to prune under one lock and deletes them under
  another (`O:480-506`). With a second sync in between (the ticker and `POST /sync`) a
  camera that is back online is deleted, against the blips that `O:35-37` means to
  absorb; it returns with the next sync that sees it, which is the part that
  `SteadyCamerasOnline` checks.
* Two creations of clients count zero rows of a name and both insert
  (`client/service.go:33`), against the window that `client/service.go:25-26` calls
  closed; there is no index that would refuse the second.
* A client is found, soft-deleted by another request, and the ingest is inserted
  (`ingest/service.go:47-66`), against the race that `ingest/service.go:39-41` calls
  closed.
* A `watchLoop` that is past its last look at `stopCh` dials after `Close` has
  returned (`obs.go:155-161`), against `obs.go:94`. Only the end of the process
  closes that connection. `OneConnection` therefore says that no connection is left
  open beside the one the controller refers to, not that none is open after `Close`.

* A camera that is assigned while it goes offline stays assigned (`O:702-724`):
  `SyncOnce` "auto-clears any position whose camera just went offline"
  (`O:419-421`), that is only on the edge.
* A cut to the selection that is live already does nothing, even when an earlier
  cut left OBS half-way.
* Two cuts at once may leave OBS with a mix of both (`O:1127`), and two assignments
  of one position a camera in the input that is not the one assigned (`O:695`).
  `Healing` shows that it lasts until the next operation that runs alone.
* The docs say of a reconnection to OBS that it recreates the scene "Program" and
  the inputs and publishes `system.status` (`backend/docs/COMUNICACAO.md:159-163`
  and `440-458`, `backend/docs/SERVICOS.md:196-198`). `watchLoop` only dials again
  (`obs.go:161-170`); `EnsureScene` is called once, by `Run` (`O:156`), nothing is
  restored, and pages learn of it with the next `system.status` something else
  publishes. The same docs have a longest delay of 32 s; the code has 30
  (`obs.go:27`).
* In `healthy` the branch that sets `connected` again (`obs.go:186-190`) is never
  taken: a client that is not `nil` is connected whenever the loop is at its ticker.
* The lists are paginated, and the page of the front end asks for the first page
  of clients only (`frontend/src/app/app.ts`, `api.service.ts`): of more
  than 25 clients the older ones cannot be chosen.
* `Start` that finds itself overtaken leaves OBS streaming (`broadcast.go:164-171`
  after `158-162`).
* `Stop` runs before the HTTP server has stopped (`main.go:86-101`): a `Start` in
  between leaves relays behind.
* Pages may show an old orchestrator state until the next change (unlocked
  publication; a change between snapshot and subscription; a full channel), while
  `frontend/docs/COMUNICACAO.md:561` promises "Ambos operadores veem estado
  sincronizado em tempo real". A `Start` that fails forgets the last
  destinations and publishes nothing (`broadcast.go:175-182`).
* `Update` of a row that is deleted meanwhile brings it back, and the later of two
  updates of different fields undoes the earlier one, as `Save` writes all
  columns; the doc speaks of a "partial update" (`ingest/service.go:118`).

## 7. Not modelled

* OBS, MediaMTX, ffmpeg, PostgreSQL and the network are modelled
  from how the code uses them.
* The cancellation of the sync goroutine at shutdown (`main.go:89`).
* REST handlers but those of the lists, and middleware: they decode a request, call one operation and map
  its error. `PATCH /scenes/{id}` may call two operations, which are two calls
  here. Configuration, logging, scripts.
* Reads of single rows and snapshots have no state.
* The Angular components, which render signals; `connect()` called again after
  `disconnect()` before the old socket has closed (nothing in the application
  does so); the delays of the backoff.

## 8. Plan

Built in this order: `ObsProgram`, `Orchestrator` with its runs and proofs,
`Broadcast`, `StatusFeed`/`SnapshotFeed`, `Registry` with its proofs, `Healing`,
`ObsConnection` and `Pagination` with their proofs, `BroadcastProofs`,
`SnapshotFeedProofs`, `OrchestratorThreads`, `HealingProofs`. To come:

1. The broadcast's `SomethingLive` composed with the orchestrator's live state.

-------------------------- MODULE BroadcastProofs ---------------------------
(***************************************************************************)
(* Theorems about Broadcast, for any number of clients, live ids, relay    *)
(* processes and requests, and any bound on the generations.               *)
(***************************************************************************)
EXTENDS Broadcast, FiniteSetTheorems, TLAPS

\* What a Start has listed belongs to the client it read before.
ListedForClient == \A t \in Request : \A l \in th[t].dests : Owner[l] = th[t].client

Inv == /\ TypeOK
       /\ ConnectedHasProcess
       /\ HeldProcessWatched
       /\ DestsOfActiveClient
       /\ ListedForClient

Watcher == [id : LiveID, gen : Nat, proc : Proc]

USE BroadcastAssumption DEF BroadcastAssumption, Watcher, ListActiveForClient

-----------------------------------------------------------------------------
\* Spawning: one process per destination, none of them held already, and one
\* goroutine for each.
LEMMA Spawned ==
    ASSUME TypeOK, NEW ds \in SUBSET LiveID, NEW sp \in Spawnings(ds)
    PROVE  /\ Cardinality(ds) \in Nat
           /\ DOMAIN sp.p = ds
           /\ \A l \in ds : sp.p[l] \in Proc \ Owned /\ sp.g[l] \in Nat
           /\ \A k, l \in ds : k # l => sp.p[k] # sp.p[l]
           /\ WatchersOf(sp) = {[id |-> l, gen |-> sp.g[l], proc |-> sp.p[l]] : l \in ds}
           /\ WatchersOf(sp) \subseteq Watcher
<1>1. Cardinality(ds) \in Nat
  BY FS_Subset, FS_CardinalityType
<1>2. PICK p \in [ds -> Fresh], g \in [ds -> (nextGen + 1)..(nextGen + Cardinality(ds))] :
        sp = [p |-> p, g |-> g] /\ \A k, l \in ds : k # l => p[k] # p[l]
  BY DEF Spawnings
<1>3. DOMAIN sp.p = ds /\ sp.p = p /\ sp.g = g
  BY <1>2
<1>4. \A l \in ds : sp.p[l] \in Proc \ Owned /\ sp.g[l] \in Nat
  BY <1>1, <1>2, <1>3 DEF Fresh, TypeOK
<1>5. WatchersOf(sp) = {[id |-> l, gen |-> sp.g[l], proc |-> sp.p[l]] : l \in ds}
  BY <1>3 DEF WatchersOf
<1> QED
  BY <1>1, <1>2, <1>3, <1>4, <1>5

\* A process that the Manager does not hold is that of no destination.
LEMMA NotOwned ==
    ASSUME TypeOK, NEW q \in Proc \ Owned
    PROVE  \A l \in LiveID : dests[l].proc # q
BY DEF Owned

\* The watch goroutine of a held process finds itself current.
LEMMA HolderIsCurrent ==
    ASSUME Inv, NEW w \in watchers, dests[w.id].proc # None, dests[w.id].gen = w.gen
    PROVE  Current(w)
<1>1. w.id \in LiveID
  BY DEF Inv, TypeOK
<1>2. dests[w.id].state = "connected"
  BY <1>1 DEF Inv, ConnectedHasProcess
<1> QED
  BY <1>1, <1>2 DEF Inv, ConnectedHasProcess, Current, Known

-----------------------------------------------------------------------------
LEMMA InitInv == Init => Inv
<1> SUFFICES ASSUME Init PROVE Inv
  OBVIOUS
<1>1. TypeOK
  BY DEF Init, TypeOK, Dest, DestState, NoDest, Frame, Idle
<1>2. ConnectedHasProcess /\ HeldProcessWatched
  BY DEF Init, ConnectedHasProcess, HeldProcessWatched, NoDest
<1>3. DestsOfActiveClient /\ ListedForClient
  BY DEF Init, DestsOfActiveClient, ListedForClient, Idle
<1> QED
  BY <1>1, <1>2, <1>3 DEF Inv

\* Steps that leave the Manager's fields, the processes and the goroutines alone.
LEMMA QuietInv ==
    ASSUME Inv, UNCHANGED <<mgrVars, watchers, proc>>,
           onAir' \in BOOLEAN, streaming' \in BOOLEAN,
           phase' \in {"serving", "stopping", "draining", "exited"},
           th' \in [Request -> Frame], ListedForClient'
    PROVE  Inv'
BY DEF Inv, mgrVars, TypeOK, ConnectedHasProcess, HeldProcessWatched, DestsOfActiveClient, Known

\* The same for the step of one request.
LEMMA FrameInv ==
    ASSUME Inv, NEW t \in Request, NEW f \in Frame, th' = [th EXCEPT ![t] = f],
           \A l \in f.dests : Owner[l] = f.client
    PROVE  th' \in [Request -> Frame] /\ ListedForClient'
BY DEF Inv, TypeOK, ListedForClient

LEMMA StartQuietInv ==
    ASSUME Inv, NEW t \in Request,
           \/ Start(t) \/ StartLive(t) \/ StartList(t) \/ StartIsStreaming(t)
           \/ StartStream(t) \/ StartTooLate(t)
    PROVE  Inv'
<1>0. th \in [Request -> Frame] /\ th[t] \in Frame /\ Idle \in Frame /\ client \in Client \cup {None}
      /\ streaming \in BOOLEAN /\ onAir \in BOOLEAN
      /\ phase \in {"serving", "stopping", "draining", "exited"}
  BY DEF Inv, TypeOK, Frame, Idle
<1>1. UNCHANGED <<mgrVars, watchers, proc, onAir, phase>> /\ streaming' \in BOOLEAN
  BY <1>0 DEF Start, StartLive, StartList, StartIsStreaming, StartStream, StartTooLate, StreamCall
<1>2. \E f \in Frame : th' = [th EXCEPT ![t] = f] /\ \A l \in f.dests : Owner[l] = f.client
  <2> DEFINE at(label) == [th[t] EXCEPT !.pc = label]
  <2>1. \A l \in th[t].dests : Owner[l] = th[t].client
    BY DEF Inv, ListedForClient
  <2>2. ASSUME NEW label \in {"list", "isstreaming", "startstream", "spawn"}
        PROVE  at(label) \in Frame /\ at(label).dests = th[t].dests /\ at(label).client = th[t].client
    BY <1>0 DEF Frame
  <2>3. ASSUME NEW label, Goto(t, label) PROVE th' = [th EXCEPT ![t] = at(label)]
    BY <2>3, <1>0 DEF Goto
  <2>4. ASSUME Return(t) PROVE th' = [th EXCEPT ![t] = Idle] /\ Idle.dests = {}
    BY <2>4 DEF Return, Idle
  <2> HIDE DEF at
  <2>5. CASE Start(t)
    <3> DEFINE f == [Idle EXCEPT !.pc = "live", !.client = client]
    <3>1. th' = [th EXCEPT ![t] = f]
      BY <2>5 DEF Start
    <3>2. f \in Frame /\ f.dests = {}
      BY <1>0 DEF Frame, Idle
    <3> QED
      BY <3>1, <3>2
  <2>6. CASE StartLive(t)
    BY <2>6, <2>1, <2>2, <2>3, <2>4, <1>0 DEF StartLive
  <2>7. CASE StartList(t)
    <3>1. PICK ds \in SUBSET {l \in LiveID : Owner[l] = th[t].client} :
            IF ds = {} THEN Return(t)
            ELSE th' = [th EXCEPT ![t].pc = "isstreaming", ![t].dests = ds]
      BY <2>7 DEF StartList
    <3>2. CASE ds = {}
      BY <3>1, <3>2, <2>4, <1>0
    <3>3. CASE ds # {}
      <4> DEFINE f == [pc |-> "isstreaming", client |-> th[t].client, dests |-> ds]
      <4>1. f \in Frame
        BY <1>0 DEF Frame
      <4>2. th' = [th EXCEPT ![t] = f]
        BY <1>0, <3>1, <3>3 DEF Frame
      <4> QED
        BY <4>1, <4>2
    <3> QED
      BY <3>2, <3>3
  <2>8. CASE StartIsStreaming(t)
    BY <2>8, <2>1, <2>2, <2>3 DEF StartIsStreaming
  <2>9. CASE StartStream(t)
    BY <2>9, <2>1, <2>2, <2>3, <2>4, <1>0 DEF StartStream
  <2>10. CASE StartTooLate(t)
    BY <2>10, <2>4, <1>0 DEF StartTooLate
  <2> QED
    BY <2>5, <2>6, <2>7, <2>8, <2>9, <2>10
<1>3. th' \in [Request -> Frame] /\ ListedForClient'
  BY <1>2, FrameInv
<1> QED
  BY <1>0, <1>1, <1>3, QuietInv

\* The client of a running broadcast does not change.
LEMMA SetActiveClientInv == ASSUME Inv, NEW t \in Request, SetActiveClient(t) PROVE Inv'
BY DEF SetActiveClient, Inv, TypeOK, ConnectedHasProcess, HeldProcessWatched,
       DestsOfActiveClient, ListedForClient, Known

-----------------------------------------------------------------------------
\* Start commits only for the client it has listed destinations of.
LEMMA StartSpawnInv == ASSUME Inv, NEW t \in Request, StartSpawn(t) PROVE Inv'
<1> DEFINE ds == th[t].dests
<1>0. th[t] \in Frame /\ ds \in SUBSET LiveID /\ Idle \in Frame /\ TypeOK /\ nextGen \in Nat
  BY DEF Inv, TypeOK, Frame, Idle
<1>1. PICK sp \in Spawnings(ds) :
        /\ dests' = [l \in LiveID |-> IF l \in ds
                     THEN [state |-> "connected", proc |-> sp.p[l], gen |-> sp.g[l]] ELSE NoDest]
        /\ proc' = [q \in Proc |-> IF \E l \in ds : sp.p[l] = q THEN "alive" ELSE proc[q]]
        /\ watchers' = watchers \cup WatchersOf(sp)
  BY DEF StartSpawn
<1>2. /\ nextGen' = nextGen + Cardinality(ds) /\ running' = TRUE
      /\ th' = [th EXCEPT ![t] = Idle]
      /\ client = th[t].client
      /\ UNCHANGED <<client, onAir, streaming, phase>>
  BY DEF StartSpawn, Return, Overtaken
<1>3. /\ Cardinality(ds) \in Nat
      /\ \A l \in ds : sp.p[l] \in Proc /\ sp.g[l] \in Nat
      /\ \A k, l \in ds : k # l => sp.p[k] # sp.p[l]
      /\ WatchersOf(sp) = {[id |-> l, gen |-> sp.g[l], proc |-> sp.p[l]] : l \in ds}
      /\ WatchersOf(sp) \subseteq Watcher
  BY <1>0, Spawned
<1> HIDE DEF ds
<1>4. th' \in [Request -> Frame] /\ ListedForClient'
  BY <1>0, <1>2, FrameInv DEF Idle
<1>5. TypeOK'
  <2>1. dests' \in [LiveID -> Dest]
    BY <1>1, <1>3 DEF Dest, DestState, NoDest
  <2>2. proc' \in [Proc -> {"alive", "dead"}] /\ watchers' \subseteq Watcher
    BY <1>0, <1>1, <1>3 DEF TypeOK
  <2>3. nextGen' \in Nat
    BY <1>0, <1>2, <1>3
  <2> QED
    BY <1>0, <1>2, <1>4, <2>1, <2>2, <2>3 DEF TypeOK
<1>6. ConnectedHasProcess'
  BY <1>1, <1>2, <1>3 DEF ConnectedHasProcess, NoDest
<1>7. HeldProcessWatched'
  BY <1>1, <1>3 DEF HeldProcessWatched, NoDest
<1>8. DestsOfActiveClient'
  BY <1>1, <1>2 DEF DestsOfActiveClient, Known, NoDest, Inv, ListedForClient, ds
<1> QED
  BY <1>4, <1>5, <1>6, <1>7, <1>8 DEF Inv

LEMMA StartSpawnFailsInv == ASSUME Inv, NEW t \in Request, StartSpawnFails(t) PROVE Inv'
<1>0. th[t] \in Frame /\ Idle \in Frame /\ TypeOK /\ nextGen \in Nat
  BY DEF Inv, TypeOK, Frame, Idle
<1>a. PICK started \in SUBSET th[t].dests : \E sp \in Spawnings(started) :
        /\ proc' = [q \in Proc |-> IF \E l \in started : sp.p[l] = q THEN "dead" ELSE proc[q]]
        /\ watchers' = watchers \cup WatchersOf(sp)
        /\ nextGen' = nextGen + Cardinality(started)
  BY DEF StartSpawnFails
<1>1. PICK sp \in Spawnings(started) :
        /\ proc' = [q \in Proc |-> IF \E l \in started : sp.p[l] = q THEN "dead" ELSE proc[q]]
        /\ watchers' = watchers \cup WatchersOf(sp)
        /\ nextGen' = nextGen + Cardinality(started)
  BY <1>a
<1>2. /\ dests' = [l \in LiveID |-> NoDest]
      /\ th' = [th EXCEPT ![t] = Idle]
      /\ running = FALSE
      /\ UNCHANGED <<client, running, onAir, phase>>
  BY DEF StartSpawnFails, Return, Overtaken, Inv, TypeOK
<1>3. streaming' \in BOOLEAN
  BY <1>0 DEF StartSpawnFails, StreamCall, TypeOK
<1>4. started \in SUBSET LiveID
  BY <1>0 DEF Frame
<1>5. Cardinality(started) \in Nat /\ WatchersOf(sp) \subseteq Watcher
  BY <1>0, <1>4, Spawned
<1>6. th' \in [Request -> Frame] /\ ListedForClient'
  BY <1>0, <1>2, FrameInv DEF Idle
<1>7. TypeOK'
  <2>1. dests' \in [LiveID -> Dest]
    BY <1>2 DEF Dest, DestState, NoDest
  <2>2. proc' \in [Proc -> {"alive", "dead"}] /\ watchers' \subseteq Watcher /\ nextGen' \in Nat
    BY <1>0, <1>1, <1>5 DEF TypeOK
  <2> QED
    BY <1>0, <1>2, <1>3, <1>6, <2>1, <2>2 DEF TypeOK
<1> QED
  BY <1>2, <1>6, <1>7 DEF Inv, ConnectedHasProcess, HeldProcessWatched, DestsOfActiveClient, NoDest

-----------------------------------------------------------------------------
\* No handle is kept of what Stop kills.
LEMMA StopInv ==
    ASSUME Inv, StopRunning, phase' \in {"serving", "stopping", "draining", "exited"}
    PROVE  Inv'
<1>1. /\ dests' = StoppedDests /\ running' = FALSE /\ proc' = Kill(Owned)
      /\ UNCHANGED <<client, nextGen, onAir, watchers, th>>
  BY DEF StopRunning
<1>2. streaming' \in BOOLEAN
  BY DEF StopRunning, StreamCall, Inv, TypeOK
<1>3. dests' \in [LiveID -> Dest]
  BY <1>1 DEF StoppedDests, Inv, TypeOK, Dest, DestState, NoDest
<1>4. proc' \in [Proc -> {"alive", "dead"}]
  BY <1>1 DEF Kill, Inv, TypeOK
<1>5. TypeOK'
  BY <1>1, <1>2, <1>3, <1>4 DEF Inv, TypeOK
<1>6. \A l \in LiveID : dests'[l].proc = None /\ dests'[l].state \in {"none", "stopped"}
  BY <1>1 DEF StoppedDests, NoDest
<1> QED
  BY <1>1, <1>5, <1>6 DEF Inv, ConnectedHasProcess, HeldProcessWatched, DestsOfActiveClient,
                          ListedForClient

\* A destination is given a new process, or none, and a new generation.
LEMMA RestartInv == ASSUME Inv, NEW t \in Request, RestartDestination(t) PROVE Inv'
<1>1. PICK l \in Known :
        LET gen == dests[l].gen + 1 IN
        \/ \E q \in Fresh :
             /\ proc' = [Kill({dests[l].proc}) EXCEPT ![q] = "alive"]
             /\ dests' = [dests EXCEPT ![l] = [state |-> "connected", proc |-> q, gen |-> gen]]
             /\ watchers' = watchers \cup {[id |-> l, gen |-> gen, proc |-> q]}
        \/ /\ proc' = Kill({dests[l].proc})
           /\ dests' = [dests EXCEPT ![l] = [state |-> "failed", proc |-> None, gen |-> gen]]
           /\ UNCHANGED watchers
  BY DEF RestartDestination
<1>2. running = TRUE /\ UNCHANGED <<client, running, nextGen, onAir, streaming, phase, th>>
  BY DEF RestartDestination, Inv, TypeOK
<1> DEFINE gen == dests[l].gen + 1
<1>3. l \in LiveID /\ gen \in Nat
  BY DEF Known, Inv, TypeOK, Dest
<1>4. DestsOfActiveClient' /\ ListedForClient'
  <2>1. Known' \subseteq Known
    BY <1>1, <1>3 DEF Known, Inv, TypeOK
  <2> QED
    BY <1>2, <2>1 DEF Inv, DestsOfActiveClient, ListedForClient, Known
<1> HIDE DEF gen
<1>5. CASE \E q \in Fresh :
             /\ proc' = [Kill({dests[l].proc}) EXCEPT ![q] = "alive"]
             /\ dests' = [dests EXCEPT ![l] = [state |-> "connected", proc |-> q, gen |-> gen]]
             /\ watchers' = watchers \cup {[id |-> l, gen |-> gen, proc |-> q]}
  <2>1. PICK q \in Proc \ Owned :
             /\ proc' = [Kill({dests[l].proc}) EXCEPT ![q] = "alive"]
             /\ dests' = [dests EXCEPT ![l] = [state |-> "connected", proc |-> q, gen |-> gen]]
             /\ watchers' = watchers \cup {[id |-> l, gen |-> gen, proc |-> q]}
    BY <1>5 DEF Fresh
  <2>2. TypeOK'
    BY <1>2, <1>3, <2>1 DEF Inv, TypeOK, Dest, DestState, Kill
  <2>3. ConnectedHasProcess'
    BY <1>2, <1>3, <2>1 DEF Inv, TypeOK, ConnectedHasProcess
  <2>4. HeldProcessWatched'
    <3>1. \A k \in LiveID : dests[k].proc # q
      BY <2>1, NotOwned DEF Inv
    <3> QED
      BY <1>3, <2>1, <3>1 DEF Inv, TypeOK, HeldProcessWatched
  <2> QED
    BY <1>4, <2>2, <2>3, <2>4 DEF Inv
<1>6. CASE /\ proc' = Kill({dests[l].proc})
           /\ dests' = [dests EXCEPT ![l] = [state |-> "failed", proc |-> None, gen |-> gen]]
           /\ UNCHANGED watchers
  <2>1. TypeOK'
    BY <1>2, <1>3, <1>6 DEF Inv, TypeOK, Dest, DestState, Kill
  <2>2. ConnectedHasProcess'
    BY <1>2, <1>3, <1>6 DEF Inv, TypeOK, ConnectedHasProcess
  <2>3. HeldProcessWatched'
    BY <1>3, <1>6 DEF Inv, TypeOK, HeldProcessWatched
  <2> QED
    BY <1>4, <2>1, <2>2, <2>3 DEF Inv
<1> QED
  BY <1>1, <1>5, <1>6 DEF gen

\* A goroutine ends; only the one of a held process takes the handle away, so that no
\* held process loses its goroutine.
LEMMA WatchInv == ASSUME Inv, NEW w \in watchers, Watch(w) PROVE Inv'
<1>1. /\ watchers' = watchers \ {w}
      /\ UNCHANGED <<client, running, nextGen, onAir, streaming, proc, phase, th>>
  BY DEF Watch
<1>2. w.id \in LiveID /\ w.gen \in Nat /\ w.proc \in Proc
  BY DEF Inv, TypeOK
<1>3. CASE Current(w)
  <2>1. dests' = [dests EXCEPT ![w.id].state = "failed", ![w.id].proc = None]
    BY <1>3 DEF Watch
  <2>2. running = TRUE /\ dests[w.id].state # "none"
    BY <1>3 DEF Current, Known, Inv, TypeOK
  <2>3. TypeOK'
    BY <1>1, <1>2, <2>1 DEF Inv, TypeOK, Dest, DestState
  <2>4. ConnectedHasProcess'
    BY <1>1, <1>2, <2>1, <2>2 DEF Inv, TypeOK, Dest, ConnectedHasProcess
  <2>5. HeldProcessWatched'
    <3> SUFFICES ASSUME NEW l \in LiveID, dests'[l].proc # None
                 PROVE  /\ [id |-> l, gen |-> dests'[l].gen, proc |-> dests'[l].proc] \in watchers'
                        /\ \A k \in LiveID \ {l} : dests'[k].proc # dests'[l].proc
      BY DEF HeldProcessWatched
    <3>1. l # w.id /\ dests'[l] = dests[l]
      BY <1>2, <2>1 DEF Inv, TypeOK, Dest
    <3>2. \A k \in LiveID : dests'[k].proc \in {dests[k].proc, None}
      BY <1>2, <2>1 DEF Inv, TypeOK, Dest
    <3> QED
      BY <1>1, <3>1, <3>2 DEF Inv, HeldProcessWatched
  <2>6. DestsOfActiveClient' /\ ListedForClient'
    <3>1. Known' = Known
      BY <1>2, <2>1, <2>2 DEF Known, Inv, TypeOK, Dest
    <3> QED
      BY <1>1, <3>1 DEF Inv, DestsOfActiveClient, ListedForClient
  <2> QED
    BY <2>3, <2>4, <2>5, <2>6 DEF Inv
<1>4. CASE ~Current(w)
  <2>1. dests' = dests
    BY <1>4 DEF Watch
  <2>2. HeldProcessWatched'
    <3> SUFFICES ASSUME NEW l \in LiveID, dests[l].proc # None
                 PROVE  [id |-> l, gen |-> dests[l].gen, proc |-> dests[l].proc] # w
      BY <1>1, <2>1 DEF Inv, HeldProcessWatched
    <3> QED
      BY <1>4, HolderIsCurrent
  <2> QED
    BY <1>1, <2>1, <2>2 DEF Inv, TypeOK, ConnectedHasProcess, DestsOfActiveClient,
                            ListedForClient, Known
<1> QED
  BY <1>3, <1>4

-----------------------------------------------------------------------------
LEMMA EnvironmentInv ==
    ASSUME Inv, (\E q \in Proc : ProcessExit(q)) \/ GoLive \/ ShutdownStop \/ ShutdownDrain \/ Exit
    PROVE  Inv'
<1> USE DEF mgrVars
<1>1. CASE \E q \in Proc : ProcessExit(q)
  BY <1>1 DEF ProcessExit, Inv, TypeOK, ConnectedHasProcess, HeldProcessWatched,
              DestsOfActiveClient, ListedForClient, Known
<1>2. CASE GoLive \/ ShutdownDrain
  <2>1. UNCHANGED <<mgrVars, watchers, proc, streaming, th>> /\ onAir' \in BOOLEAN
        /\ phase' \in {"serving", "stopping", "draining", "exited"}
    BY <1>2 DEF GoLive, ShutdownDrain, Inv, TypeOK
  <2>2. ListedForClient'
    BY <2>1 DEF Inv, ListedForClient
  <2> QED
    BY <2>1, <2>2, QuietInv DEF Inv, TypeOK
<1>3. CASE ShutdownStop
  <2>1. phase' = "stopping"
    BY <1>3 DEF ShutdownStop
  <2>2. CASE StopRunning
    BY <2>1, <2>2, StopInv
  <2>3. CASE UNCHANGED <<mgrVars, onAir, streaming, proc, watchers, th>>
    <3>1. ListedForClient'
      BY <2>3 DEF Inv, ListedForClient
    <3> QED
      BY <2>1, <2>3, <3>1, QuietInv DEF Inv, TypeOK
  <2> QED
    BY <1>3, <2>2, <2>3 DEF ShutdownStop
<1>4. CASE Exit
  <2>1. th' \in [Request -> Frame] /\ ListedForClient'
    BY <1>4 DEF Exit, ListedForClient, Idle, Frame
  <2> QED
    BY <1>4, <2>1, QuietInv DEF Exit, Inv, TypeOK
<1> QED
  BY <1>1, <1>2, <1>3, <1>4

LEMMA StepInv == Inv /\ [Next]_vars => Inv'
<1> SUFFICES ASSUME Inv, [Next]_vars PROVE Inv'
  OBVIOUS
<1>1. ASSUME NEW t \in Request,
             SetActiveClient(t) \/ StartStep(t) \/ Stop(t) \/ RestartDestination(t)
      PROVE  Inv'
  <2>1. CASE Stop(t)
    <3>1. StopRunning /\ phase' \in {"serving", "stopping", "draining", "exited"}
      BY <2>1 DEF Stop, Inv, TypeOK
    <3> QED
      BY <3>1, StopInv
  <2> QED
    BY <1>1, <2>1, SetActiveClientInv, StartQuietInv, StartSpawnInv, StartSpawnFailsInv, RestartInv
    DEF StartStep
<1>2. CASE UNCHANGED vars
  BY <1>2 DEF vars, mgrVars, Inv, TypeOK, ConnectedHasProcess, HeldProcessWatched,
              DestsOfActiveClient, ListedForClient, Known
<1> QED
  BY <1>1, <1>2, WatchInv, EnvironmentInv DEF Next

LEMMA Invariant == Spec => []Inv
BY InitInv, StepInv, PTL DEF Spec

-----------------------------------------------------------------------------
\* Every field of the manager and every frame of Start keeps its type (broadcast.go).
THEOREM BroadcastTypes == Spec => []TypeOK
<1>1. Inv => TypeOK
  BY DEF Inv
<1> QED
  BY <1>1, Invariant, PTL

\* A destination is connected exactly when the manager holds its process, and a
\* stopped manager holds none, however exits, restarts and stops interleave
\* (spawnLocked, killAllLocked, watch).
THEOREM ConnectedIsHeld == Spec => []ConnectedHasProcess
<1>1. Inv => ConnectedHasProcess
  BY DEF Inv
<1> QED
  BY <1>1, Invariant, PTL

\* Each process held has a goroutine of its generation waiting for it, although
\* generations come from two counters, and no two destinations share a process.
THEOREM HeldIsWatched == Spec => []HeldProcessWatched
<1>1. Inv => HeldProcessWatched
  BY DEF Inv
<1> QED
  BY <1>1, Invariant, PTL

\* A broadcast never relays to a live id of another client, although Start releases
\* the lock between reading the client and spawning (broadcast.go:110-187).
THEOREM NeverAnotherClient == Spec => []DestsOfActiveClient
<1>1. Inv => DestsOfActiveClient
  BY DEF Inv
<1> QED
  BY <1>1, Invariant, PTL
=============================================================================

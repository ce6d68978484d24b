----------------------------- MODULE Broadcast ------------------------------
(***************************************************************************)
(* broadcast.Manager (backend/internal/broadcast): the active client, one  *)
(* ffmpeg relay process per destination, the goroutines that watch them,   *)
(* and the program stream of OBS that feeds them.                          *)
(*                                                                         *)
(* Stop, SetActiveClient, RestartDestination and the end of watch run      *)
(* entirely under m.mu and are one step each, the OBS call inside Stop      *)
(* included.  Start releases m.mu while it asks whether anything is live,   *)
(* lists the destinations and starts the OBS stream, and is cut there.      *)
(* A call rejected before it changes anything is no step.                   *)
(***************************************************************************)
EXTENDS Naturals, FiniteSets

CONSTANTS Client, LiveID,
          Owner,       \* the client a live id belongs to
          Proc,        \* relay processes that can exist at a time (bound)
          Request,     \* goroutines serving HTTP requests
          None,
          Ops,         \* the operations requests may call in this instance
          ObsFaults,   \* TRUE: stream calls to OBS can fail
          SpawnFaults, \* TRUE: starting a relay process can fail
          MaxGen       \* bound on the generations (Go: uint64)

ASSUME BroadcastAssumption ==
    /\ Owner \in [LiveID -> Client]
    /\ None \notin Client \cup Proc
    /\ ObsFaults \in BOOLEAN /\ SpawnFaults \in BOOLEAN
    /\ MaxGen \in Nat
    /\ IsFiniteSet(LiveID)

VARIABLES
    client, running, dests, nextGen,   \* the Manager's fields under m.mu
    onAir,                             \* the orchestrator has something live
    streaming,                         \* OBS's stream output
    proc,                              \* relay processes: alive or dead
    watchers,                          \* the goroutines "go m.watch(id, gen, proc)"
    phase,                             \* main: serving, stopping, draining, exited
    th                                 \* frames of the requests inside Start

mgrVars == <<client, running, dests, nextGen>>
vars    == <<mgrVars, onAir, streaming, proc, watchers, phase, th>>

DestState == {"none", "connected", "failed", "stopped"}
Dest      == [state : DestState, proc : Proc \cup {None}, gen : Nat]
NoDest    == [state |-> "none", proc |-> None, gen |-> 0]
Known     == {l \in LiveID : dests[l].state # "none"}     \* the keys of m.dests

Idle == [pc |-> "idle", client |-> None, dests |-> {}]
Frame == [pc : {"idle", "live", "list", "isstreaming", "startstream", "spawn"},
          client : Client \cup {None}, dests : SUBSET LiveID]
At(t, label) == phase # "exited" /\ th[t].pc = label
Goto(t, label) == th' = [th EXCEPT ![t].pc = label]
Return(t) == th' = [th EXCEPT ![t] = Idle]
Calls(t, op) == t \in Request /\ op \in Ops /\ phase \in {"serving", "stopping"} /\ At(t, "idle")

\* The ids of processes killed by the running step become dead.
Kill(ps) == [q \in Proc |-> IF q \in ps THEN "dead" ELSE proc[q]]
Owned    == {dests[l].proc : l \in LiveID} \ {None}      \* processes the Manager holds

\* Processes not heard of any more: their ids stand for new ones.
Fresh    == {q \in Proc \ Owned : proc[q] = "dead" /\ \A w \in watchers : w.proc # q}

\* A remote call that changes OBS's stream output to v.
StreamCall(ok, accepted, v) ==
    \/ ok /\ accepted /\ streaming' = v
    \/ ~ok /\ (~accepted \/ ObsFaults) /\ streaming' = streaming
    \/ ~ok /\ accepted /\ ObsFaults /\ streaming' = v

-----------------------------------------------------------------------------
SetActiveClient(t) ==
    /\ Calls(t, "SetActiveClient")
    /\ ~running
    /\ \E c \in Client \ {client} : client' = c
    /\ UNCHANGED <<running, dests, nextGen, onAir, streaming, proc, watchers, phase, th>>

Start(t) ==                   \* the first critical section
    /\ Calls(t, "Start")
    /\ ~running /\ client # None
    /\ th' = [th EXCEPT ![t] = [Idle EXCEPT !.pc = "live", !.client = client]]
    /\ UNCHANGED <<mgrVars, onAir, streaming, proc, watchers, phase>>

StartLive(t) ==               \* SomethingLive
    /\ At(t, "live")
    /\ IF onAir THEN Goto(t, "list") ELSE Return(t)
    /\ UNCHANGED <<mgrVars, onAir, streaming, proc, watchers, phase>>

\* The live ids of c that are active: any of them, as other requests (de)activate them.
ListActiveForClient(c) == SUBSET {l \in LiveID : Owner[l] = c}

StartList(t) ==
    /\ At(t, "list")
    /\ \E ds \in ListActiveForClient(th[t].client) :
        IF ds = {} THEN Return(t)
        ELSE th' = [th EXCEPT ![t].pc = "isstreaming", ![t].dests = ds]
    /\ UNCHANGED <<mgrVars, onAir, streaming, proc, watchers, phase>>

StartIsStreaming(t) ==        \* an unreachable OBS is taken for "not streaming"
    /\ At(t, "isstreaming")
    /\ \/ streaming /\ Goto(t, "spawn")
       \/ (~streaming \/ ObsFaults) /\ Goto(t, "startstream")
    /\ UNCHANGED <<mgrVars, onAir, streaming, proc, watchers, phase>>

StartStream(t) ==             \* OBS refuses to start an output that runs
    /\ At(t, "startstream")
    /\ \E ok \in BOOLEAN : /\ StreamCall(ok, ~streaming, TRUE)
                           /\ IF ok THEN Goto(t, "spawn") ELSE Return(t)
    /\ UNCHANGED <<mgrVars, onAir, proc, watchers, phase>>

\* What Start found before its unlocked calls no longer holds.
\* (variant: the client is not compared again)
VariantOvertaken(t) == running
Overtaken(t) == running \/ client # th[t].client

StartTooLate(t) ==
    /\ At(t, "spawn") /\ Overtaken(t)
    /\ Return(t)
    /\ UNCHANGED <<mgrVars, onAir, streaming, proc, watchers, phase>>

\* The ways spawnLocked can give the destinations of ds a process and a generation.
Spawnings(ds) ==
    {[p |-> p, g |-> g] : p \in {f \in [ds -> Fresh] :
                                    \A a, b \in ds : a # b => f[a] # f[b]},
                          g \in {f \in [ds -> (nextGen + 1)..(nextGen + Cardinality(ds))] :
                                    \A a, b \in ds : a # b => f[a] # f[b]}}
\* (variant: the goroutine is given the generation before the increment)
VariantWatchersOf(sp) == {[id |-> l, gen |-> sp.g[l] - 1, proc |-> sp.p[l]] : l \in DOMAIN sp.p}
WatchersOf(sp) == {[id |-> l, gen |-> sp.g[l], proc |-> sp.p[l]] : l \in DOMAIN sp.p}

StartSpawn(t) ==              \* the second critical section: one process per destination
    /\ At(t, "spawn") /\ ~Overtaken(t)
    /\ nextGen + Cardinality(th[t].dests) <= MaxGen
    /\ \E sp \in Spawnings(th[t].dests) :
        /\ dests' = [l \in LiveID |-> IF l \in th[t].dests
                     THEN [state |-> "connected", proc |-> sp.p[l], gen |-> sp.g[l]] ELSE NoDest]
        /\ proc' = [q \in Proc |-> IF \E l \in th[t].dests : sp.p[l] = q THEN "alive" ELSE proc[q]]
        /\ watchers' = watchers \cup WatchersOf(sp)
    /\ nextGen' = nextGen + Cardinality(th[t].dests)
    /\ running' = TRUE
    /\ Return(t)
    /\ UNCHANGED <<client, onAir, streaming, phase>>

StartSpawnFails(t) ==         \* one process does not start: those before it are killed
    /\ SpawnFaults
    /\ At(t, "spawn") /\ ~Overtaken(t)
    /\ nextGen + Cardinality(th[t].dests) <= MaxGen
    /\ \E started \in SUBSET th[t].dests : started # th[t].dests /\ \E sp \in Spawnings(started) :
        /\ proc' = [q \in Proc |-> IF \E l \in started : sp.p[l] = q THEN "dead" ELSE proc[q]]
        /\ watchers' = watchers \cup WatchersOf(sp)
        /\ nextGen' = nextGen + Cardinality(started)
    /\ dests' = [l \in LiveID |-> NoDest]
    /\ \E ok \in BOOLEAN : StreamCall(ok, streaming, FALSE)
    /\ Return(t)
    /\ UNCHANGED <<client, running, onAir, phase>>

\* killAllLocked, for the destinations Stop leaves behind.
\* (variant: a state no reader of the status knows)
VariantStoppedDests ==
    [l \in LiveID |-> IF l \in Known
                      THEN [state |-> "idle", proc |-> None, gen |-> dests[l].gen + 1]
                      ELSE NoDest]
StoppedDests ==
    [l \in LiveID |-> IF l \in Known
                      THEN [state |-> "stopped", proc |-> None, gen |-> dests[l].gen + 1]
                      ELSE NoDest]

StopRunning ==                \* an OBS error is ignored
    /\ running
    /\ proc' = Kill(Owned)
    /\ dests' = StoppedDests
    /\ running' = FALSE
    /\ \E ok \in BOOLEAN : StreamCall(ok, streaming, FALSE)
    /\ UNCHANGED <<client, nextGen, onAir, watchers, th>>

Stop(t) == Calls(t, "Stop") /\ StopRunning /\ UNCHANGED phase

RestartDestination(t) ==
    /\ Calls(t, "RestartDestination")
    /\ running
    /\ \E l \in Known :
        LET gen == dests[l].gen + 1 IN
        /\ gen <= MaxGen
        /\ \/ \E q \in Fresh :
                /\ proc' = [Kill({dests[l].proc}) EXCEPT ![q] = "alive"]
                /\ dests' = [dests EXCEPT ![l] = [state |-> "connected", proc |-> q, gen |-> gen]]
                /\ watchers' = watchers \cup {[id |-> l, gen |-> gen, proc |-> q]}
           \/ /\ SpawnFaults
              /\ proc' = Kill({dests[l].proc})
              /\ dests' = [dests EXCEPT ![l] = [state |-> "failed", proc |-> None, gen |-> gen]]
              /\ UNCHANGED watchers
    /\ UNCHANGED <<client, running, nextGen, onAir, streaming, phase, th>>

\* The process whose Wait returned is the one its destination stands for now.
\* (variants: any process of the destination; the counter of another field)
VariantAnyProcess(w) == w.id \in Known
VariantCounter(w) == w.id \in Known /\ nextGen = w.gen /\ running
Current(w) == w.id \in Known /\ dests[w.id].gen = w.gen /\ running

Watch(w) ==
    /\ w \in watchers
    /\ phase # "exited" /\ proc[w.proc] = "dead"
    /\ watchers' = watchers \ {w}
    /\ dests' = IF Current(w)
                THEN [dests EXCEPT ![w.id].state = "failed", ![w.id].proc = None]
                ELSE dests
    /\ UNCHANGED <<client, running, nextGen, onAir, streaming, proc, phase, th>>

-----------------------------------------------------------------------------
\* The environment, and main's shutdown.

ProcessExit(q) ==
    /\ proc[q] = "alive"
    /\ proc' = [proc EXCEPT ![q] = "dead"]
    /\ UNCHANGED <<mgrVars, onAir, streaming, watchers, phase, th>>

GoLive ==                     \* a Cut; nothing ever clears the live selection again
    /\ phase # "exited" /\ ~onAir /\ onAir' = TRUE
    /\ UNCHANGED <<mgrVars, streaming, proc, watchers, phase, th>>

ShutdownStop ==               \* main calls Stop while the server still accepts requests
    /\ "Shutdown" \in Ops /\ phase = "serving"
    /\ phase' = "stopping"
    /\ StopRunning \/ (~running /\ UNCHANGED <<mgrVars, onAir, streaming, proc, watchers, th>>)

ShutdownDrain ==              \* httpServer.Shutdown
    /\ phase = "stopping" /\ phase' = "draining"
    /\ UNCHANGED <<mgrVars, onAir, streaming, proc, watchers, th>>

Exit ==                       \* the requests or the timeout are over; what still runs ends
    /\ phase = "draining" /\ phase' = "exited"
    /\ th' = [t \in Request |-> Idle]
    /\ UNCHANGED <<mgrVars, onAir, streaming, proc, watchers>>

Init ==
    /\ client = None /\ running = FALSE /\ nextGen = 0
    /\ dests = [l \in LiveID |-> NoDest]
    /\ onAir = FALSE
    /\ streaming = FALSE
    /\ proc = [q \in Proc |-> "dead"]
    /\ watchers = {}
    /\ phase = "serving"
    /\ th = [t \in Request |-> Idle]

StartStep(t) ==
    \/ Start(t) \/ StartLive(t) \/ StartList(t) \/ StartIsStreaming(t) \/ StartStream(t)
    \/ StartTooLate(t) \/ StartSpawn(t) \/ StartSpawnFails(t)

Next == \/ \E t \in Request : SetActiveClient(t) \/ StartStep(t) \/ Stop(t) \/ RestartDestination(t)
        \/ \E w \in watchers : Watch(w)
        \/ \E q \in Proc : ProcessExit(q)
        \/ GoLive \/ ShutdownStop \/ ShutdownDrain \/ Exit

Spec == Init /\ [][Next]_vars

\* A goroutine "go m.watch" of a destination is scheduled once its process is dead.
FairSpec == Spec /\ \A l \in LiveID : WF_vars(\E w \in watchers : w.id = l /\ Watch(w))

-----------------------------------------------------------------------------
\* Properties.

\* Every field keeps its type: no destination is in a state the status reader
\* (broadcast.go:56-60) does not know.
TypeOK ==
    /\ client \in Client \cup {None} /\ running \in BOOLEAN /\ nextGen \in Nat
    /\ dests \in [LiveID -> Dest]
    /\ onAir \in BOOLEAN /\ streaming \in BOOLEAN
    /\ proc \in [Proc -> {"alive", "dead"}]
    /\ watchers \subseteq [id : LiveID, gen : Nat, proc : Proc]
    /\ phase \in {"serving", "stopping", "draining", "exited"}
    /\ th \in [Request -> Frame]

\* While broadcasting, every destination belongs to the active client, although
\* Start reads the client, releases the lock and lists its destinations.
DestsOfActiveClient == running => \A l \in Known : Owner[l] = client

\* A destination is shown connected exactly when the Manager holds the handle of
\* its process; when the broadcast is stopped it holds none.
ConnectedHasProcess ==
    \A l \in LiveID : /\ dests[l].state = "connected" <=> dests[l].proc # None
                      /\ ~running => dests[l].state \in {"none", "stopped"}

\* Every process the Manager holds has a goroutine that will report its death, and
\* no two destinations share one.
HeldProcessWatched ==
    \A l \in LiveID : dests[l].proc # None =>
        /\ [id |-> l, gen |-> dests[l].gen, proc |-> dests[l].proc] \in watchers
        /\ \A k \in LiveID \ {l} : dests[k].proc # dests[l].proc

\* A relay process that runs is held by the Manager, so that Stop can kill it.
NoOrphanProcess == \A q \in Proc : proc[q] = "alive" => q \in Owned

\* The death of a relay the Manager holds is noticed: it is reported failed,
\* replaced or stopped.
Unnoticed(l) == dests[l].proc # None /\ proc[dests[l].proc] = "dead"
DeathNoticed == \A l \in LiveID : Unnoticed(l) ~> (~Unnoticed(l) \/ phase = "exited")
=============================================================================

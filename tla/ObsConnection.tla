--------------------------- MODULE ObsConnection ----------------------------
(***************************************************************************)
(* The connection to OBS (backend/internal/obs/obs.go): ObsController with  *)
(* the goroutine that keeps it alive, the calls that borrow the connection, *)
(* the readers of the status that wait for its lock while they hold the     *)
(* orchestrator's, and Close.                                               *)
(*                                                                         *)
(* o.mu of the controller is held across a remote call in Reconnect only,   *)
(* which dials under it: mu names that holder.  Every other section of the  *)
(* controller is one step that finds mu free.  A call to OBS is one step;   *)
(* the connection it uses was taken under the lock in an earlier one.       *)
(***************************************************************************)
EXTENDS Naturals

CONSTANTS Conn,        \* websocket connections (bound: those somebody refers to)
          Request,     \* goroutines serving HTTP requests
          None,
          MaxBackoff   \* maxBackoff in seconds

initialBackoff == 1

ASSUME ConnectionAssumption ==
    /\ None \notin Conn
    /\ MaxBackoff \in Nat \ {0}

VARIABLES
    obs,                          \* OBS: up, down, or too slow to answer every call in time
    open,                         \* connections that neither side has closed
    client, connected, mu,        \* the controller's fields, and its lock
    watch, backoff,               \* frame and local variable of watchLoop
    main,                         \* main: running, closing (inside Close), closed, exited
    th                            \* frames of the requests

ctlVars   == <<client, connected, mu>>
watchVars == <<watch, backoff>>
vars      == <<obs, open, ctlVars, watchVars, main, th>>

\* conn: the connection taken; item: whether what the call has looked up (a scene
\* item id, a name that is free) is of the OBS that runs now.
Idle  == [pc |-> "idle", conn |-> None, item |-> "none"]
Frame == [pc : {"idle", "client", "look", "find", "act", "rlock", "status", "lock"},
          conn : Conn \cup {None}, item : {"none", "valid", "stale"}]

WatchFrame == [pc : {"select", "probe", "lost", "backoff", "reconnect", "dial", "done"},
               conn : Conn \cup {None}, was : BOOLEAN]

At(t, label)  == main # "exited" /\ th[t].pc = label
Goto(t, label) == th' = [th EXCEPT ![t].pc = label]
Return(t)     == th' = [th EXCEPT ![t] = Idle]
Watching(label)  == main # "exited" /\ watch.pc = label
WatchGoto(label) == watch' = [watch EXCEPT !.pc = label]

Stopped == main # "running"            \* stopCh is closed
Usable  == client # None /\ connected  \* what getClient requires

\* A request over k: answered only if k is open, unanswered if it is not or if OBS
\* is too slow.
Answered(k)   == k \in open
Unanswered(k) == k \notin open \/ obs # "up"

\* A new connection is none that is open or that a call or a probe still refers to
\* (the client it takes the place of is closed by then).
Fresh == {k \in Conn \ (open \cup {watch.conn}) : \A t \in Request : th[t].conn # k}

-----------------------------------------------------------------------------
\* watchLoop.

Tick ==                      \* the ticker fires; healthy reads the fields
    /\ Watching("select") /\ mu = None
    /\ watch' = IF client = None THEN [watch EXCEPT !.pc = "lost"]
                ELSE [pc |-> "probe", conn |-> client, was |-> connected]
    /\ UNCHANGED <<obs, open, ctlVars, backoff, main, th>>

ProbeAnswered ==             \* GetVersion; a connection thought lost is good again
    /\ Watching("probe") /\ Answered(watch.conn)
    /\ watch.was \/ mu = None
    /\ connected' = IF watch.was THEN connected ELSE TRUE
    /\ backoff' = initialBackoff
    /\ watch' = [watch EXCEPT !.pc = "select", !.conn = None]
    /\ UNCHANGED <<obs, open, client, mu, main, th>>

\* (variant: a probe without an answer is ignored)
VariantProbeUnanswered ==
    /\ Watching("probe") /\ Unanswered(watch.conn)
    /\ watch' = [watch EXCEPT !.pc = "select", !.conn = None]
    /\ UNCHANGED <<obs, open, ctlVars, backoff, main, th>>

ProbeUnanswered ==
    /\ Watching("probe") /\ Unanswered(watch.conn)
    /\ watch' = [watch EXCEPT !.pc = "lost", !.conn = None]
    /\ UNCHANGED <<obs, open, ctlVars, backoff, main, th>>

Lost ==
    /\ Watching("lost") /\ mu = None
    /\ connected' = FALSE
    /\ WatchGoto("backoff")
    /\ UNCHANGED <<obs, open, client, mu, backoff, main, th>>

DelayOver ==                 \* time.After(backoff)
    /\ Watching("backoff")
    /\ WatchGoto("reconnect")
    /\ UNCHANGED <<obs, open, ctlVars, backoff, main, th>>

StopWatch ==                 \* either select of the loop
    /\ Watching("select") \/ Watching("backoff")
    /\ Stopped
    /\ WatchGoto("done")
    /\ UNCHANGED <<obs, open, ctlVars, backoff, main, th>>

\* (variant: the connection that did not answer is not closed)
VariantReconnect ==
    /\ Watching("reconnect") /\ mu = None
    /\ mu' = "watch"
    /\ WatchGoto("dial")
    /\ UNCHANGED <<obs, open, client, connected, backoff, main, th>>

Reconnect ==                 \* takes the lock, closes the old connection
    /\ Watching("reconnect") /\ mu = None
    /\ mu' = "watch"
    /\ open' = open \ {client}
    /\ WatchGoto("dial")
    /\ UNCHANGED <<obs, client, connected, backoff, main, th>>

\* (variant: the delay of the last outage is kept)
VariantDialled ==
    /\ Watching("dial") /\ obs # "down"
    /\ \E k \in Fresh : client' = k /\ open' = open \cup {k}
    /\ connected' = TRUE /\ mu' = None
    /\ WatchGoto("select")
    /\ UNCHANGED <<obs, backoff, main, th>>

Dialled ==                   \* connectLocked, still under the lock
    /\ Watching("dial") /\ obs # "down"
    /\ \E k \in Fresh : client' = k /\ open' = open \cup {k}
    /\ connected' = TRUE /\ mu' = None
    /\ backoff' = initialBackoff
    /\ WatchGoto("select")
    /\ UNCHANGED <<obs, main, th>>

\* (variant: no longest delay)
VariantDoubled == 2 * backoff
Doubled == IF 2 * backoff > MaxBackoff THEN MaxBackoff ELSE 2 * backoff

\* (variant: an error leaves without releasing the lock)
VariantDialFails ==
    /\ Watching("dial") /\ obs # "up"
    /\ client' = None /\ connected' = FALSE
    /\ backoff' = Doubled
    /\ WatchGoto("select")
    /\ UNCHANGED <<obs, open, mu, main, th>>

\* (variant: the loop gives up at the longest delay)
VariantGivesUp ==
    /\ Watching("dial") /\ obs # "up"
    /\ client' = None /\ connected' = FALSE /\ mu' = None
    /\ backoff' = Doubled
    /\ WatchGoto(IF backoff = MaxBackoff THEN "done" ELSE "select")
    /\ UNCHANGED <<obs, open, main, th>>

DialFails ==
    /\ Watching("dial") /\ obs # "up"
    /\ client' = None /\ connected' = FALSE /\ mu' = None
    /\ backoff' = Doubled
    /\ WatchGoto("select")
    /\ UNCHANGED <<obs, open, main, th>>

-----------------------------------------------------------------------------
\* EnsureScene, CreatePositionInput, UpdatePositionSource, SetPositionEnabled:
\* take the client, look something up, act on it.

GetClient(t) ==              \* an unusable client is an error at once
    /\ At(t, "client") /\ mu = None
    /\ IF Usable
       THEN \E label \in {"look", "find"} :
                th' = [th EXCEPT ![t] = [pc |-> label, conn |-> client, item |-> "none"]]
       ELSE Return(t)
    /\ UNCHANGED <<obs, open, ctlVars, watchVars, main>>

\* The request that looks up, sent over connection k.
Asks(t, k) == \/ Answered(k) /\ th' = [th EXCEPT ![t].pc = "act", ![t].item = "valid"]
              \/ Unanswered(k) /\ Return(t)

LookUp(t) ==                 \* over the client the call has taken
    /\ At(t, "look")
    /\ Asks(t, th[t].conn)
    /\ UNCHANGED <<obs, open, ctlVars, watchVars, main>>

FindInput(t) ==              \* findInput takes a client of its own
    /\ At(t, "find") /\ mu = None
    /\ IF Usable THEN Asks(t, client) ELSE Return(t)
    /\ UNCHANGED <<obs, open, ctlVars, watchVars, main>>

\* The connection a call acts over.
\* (variant: the client is taken again)
VariantActsOver(t) == client
ActsOver(t) == th[t].conn

Act(t) ==                    \* carried out or not: see ObsProgram
    /\ At(t, "act")
    /\ Answered(ActsOver(t)) \/ Unanswered(ActsOver(t))
    /\ Return(t)
    /\ UNCHANGED <<obs, open, ctlVars, watchVars, main>>

-----------------------------------------------------------------------------
\* The orchestrator's lock, as far as the controller's is taken under it: Status
\* holds it for reading while it waits for IsConnected.  A writer that waits
\* keeps new readers out, and lets those that wait in when it unlocks.

Call(t) ==                   \* a call to OBS, Status, or an operation that commits
    /\ At(t, "idle")
    /\ \E label \in {"client", "rlock", "lock"} : Goto(t, label)
    /\ UNCHANGED <<obs, open, ctlVars, watchVars, main>>

RLock(t) ==
    /\ At(t, "rlock") /\ ~\E u \in Request : th[u].pc = "lock"
    /\ Goto(t, "status")
    /\ UNCHANGED <<obs, open, ctlVars, watchVars, main>>

IsConnected(t) ==            \* ... and Status unlocks
    /\ At(t, "status") /\ mu = None
    /\ Return(t)
    /\ UNCHANGED <<obs, open, ctlVars, watchVars, main>>

Commit(t) ==
    /\ At(t, "lock") /\ ~\E u \in Request : th[u].pc = "status"
    /\ th' = [u \in Request |-> IF u = t THEN Idle
                                ELSE IF th[u].pc = "rlock" THEN [th[u] EXCEPT !.pc = "status"]
                                ELSE th[u]]
    /\ UNCHANGED <<obs, open, ctlVars, watchVars, main>>

-----------------------------------------------------------------------------
\* main, and OBS.

Close ==                     \* the first statement: stopCh
    /\ main = "running"
    /\ main' = "closing"
    /\ UNCHANGED <<obs, open, ctlVars, watchVars, th>>

CloseLocked ==               \* the rest, under the lock; stopCh is not looked at again
    /\ main = "closing" /\ mu = None
    /\ main' = "closed"
    /\ open' = open \ {client}
    /\ UNCHANGED <<obs, ctlVars, watchVars, th>>

Exit ==                      \* main returns, and with it ends what is still open
    /\ main = "closed"
    /\ main' = "exited"
    /\ open' = {}
    /\ UNCHANGED <<obs, ctlVars, watchVars, th>>

ObsChange ==                 \* OBS that ends takes its connections and ids with it
    /\ obs' \in {"up", "slow", "down"} \ {obs}
    /\ open' = IF obs' = "down" THEN {} ELSE open
    /\ th' = [t \in Request |-> IF obs' = "down" /\ th[t].item = "valid"
                                THEN [th[t] EXCEPT !.item = "stale"] ELSE th[t]]
    /\ UNCHANGED <<ctlVars, watchVars, main>>

Init ==                      \* New, its first attempt made
    /\ obs \in {"up", "slow", "down"}
    /\ \/ client = None /\ connected = FALSE /\ open = {}
       \/ obs # "down" /\ client \in Conn /\ connected = TRUE /\ open = {client}
    /\ mu = None
    /\ watch = [pc |-> "select", conn |-> None, was |-> FALSE] /\ backoff = initialBackoff
    /\ main = "running"
    /\ th = [t \in Request |-> Idle]

WatchStep == \/ Tick \/ ProbeAnswered \/ ProbeUnanswered \/ Lost \/ DelayOver
             \/ StopWatch \/ Reconnect \/ Dialled \/ DialFails

CallStep(t) == LookUp(t) \/ Act(t)
LockStep(t) == GetClient(t) \/ FindInput(t) \/ RLock(t) \/ IsConnected(t) \/ Commit(t)

Next == \/ WatchStep
        \/ \E t \in Request : CallStep(t) \/ Call(t) \/ LockStep(t)
        \/ Close \/ CloseLocked \/ Exit \/ ObsChange

Spec == Init /\ [][Next]_vars

\* watchLoop runs, and every call to OBS, the dial included, ends in an answer or
\* an error.  Go's locks starve nobody who waits for them.
Fairness == /\ WF_vars(WatchStep)
            /\ SF_vars(CloseLocked)
            /\ \A t \in Request : WF_vars(CallStep(t)) /\ SF_vars(LockStep(t))

FairSpec == Spec /\ Fairness

-----------------------------------------------------------------------------
\* Properties.

\* Every variable has its type; the delay is never above maxBackoff.
TypeOK ==
    /\ obs \in {"up", "slow", "down"} /\ open \subseteq Conn
    /\ client \in Conn \cup {None} /\ connected \in BOOLEAN /\ mu \in {None, "watch"}
    /\ watch \in WatchFrame /\ backoff \in 1..MaxBackoff
    /\ main \in {"running", "closing", "closed", "exited"}
    /\ th \in [Request -> Frame]

\* The controller never leaves a connection open that it no longer refers to,
\* however often it reconnects to an OBS that was only slow, and whichever of a
\* dial and Close comes first.
OneConnection == open \subseteq {client}

\* What a call does to OBS it does to the OBS in which it has looked things up: a
\* scene item id of an OBS that has been restarted since reaches no other item
\* ("leaving every other scene item untouched", obs.go:332), although findInput and
\* watchLoop may have moved on to a new connection in between.
ActsOnWhatItSaw ==
    \A t \in Request : th[t].pc = "act" /\ ActsOver(t) \in open => th[t].item = "valid"

\* Every outage starts with the shortest delay.
OutageStartsFresh == connected => backoff = initialBackoff

\* Once OBS stays up, calls find a connection that works, for good.
Recovers == <>[](obs = "up") => <>[](Stopped \/ (Usable /\ client \in open))

\* Once OBS stays down, the status says so, for good.
LossNoticed == <>[](obs = "down") => <>[](Stopped \/ ~connected)

\* Every request is answered, although Status waits for the controller's lock
\* while it holds the orchestrator's and calls to OBS wait for the former, which a
\* dial may hold.
EveryCallReturns == \A t \in Request : (th[t].pc # "idle") ~> (th[t].pc = "idle" \/ main = "exited")

\* Close returns, whatever watchLoop is doing.
CloseEnds == (main = "closing") ~> (main \in {"closed", "exited"})
=============================================================================

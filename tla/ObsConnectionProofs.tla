------------------------ MODULE ObsConnectionProofs -------------------------
(***************************************************************************)
(* Theorems about ObsConnection, for any number of requests and            *)
(* connections and any longest delay.                                      *)
(***************************************************************************)
EXTENDS ObsConnection, TLAPS

\* Reconnect dials only when the old connection is closed.
DialWithoutConnection == watch.pc = "dial" => open = {}

\* A call acts over th[t].conn.
CallsActOnWhatTheySaw ==
    \A t \in Request : th[t].pc = "act" /\ th[t].conn \in open => th[t].item = "valid"

Inv == /\ TypeOK
       /\ DialWithoutConnection
       /\ OneConnection
       /\ CallsActOnWhatTheySaw
       /\ OutageStartsFresh

USE ConnectionAssumption DEF ConnectionAssumption

LEMMA InitInv == Init => Inv
<1> SUFFICES ASSUME Init PROVE Inv
  OBVIOUS
<1>1. TypeOK
  <2>1. watch \in WatchFrame /\ th \in [Request -> Frame]
    BY DEF Init, WatchFrame, Frame, Idle
  <2>2. backoff \in 1..MaxBackoff
    BY DEF Init, initialBackoff
  <2>3. open \subseteq Conn /\ client \in Conn \cup {None} /\ connected \in BOOLEAN
    BY DEF Init
  <2> QED
    BY <2>1, <2>2, <2>3 DEF Init, TypeOK
<1>2. DialWithoutConnection
  BY DEF Init, DialWithoutConnection
<1>3. OneConnection
  BY DEF Init, OneConnection
<1>4. CallsActOnWhatTheySaw
  BY DEF Init, CallsActOnWhatTheySaw, Idle
<1>5. OutageStartsFresh
  BY DEF Init, OutageStartsFresh
<1> QED
  BY <1>1, <1>2, <1>3, <1>4, <1>5 DEF Inv

\* The next delay is again one between the shortest and the longest.
LEMMA DelayBounded == ASSUME TypeOK PROVE Doubled \in 1..MaxBackoff
BY DEF TypeOK, Doubled

-----------------------------------------------------------------------------
\* The steps of watchLoop that leave the connections alone.
LEMMA WatchInv ==
    ASSUME Inv, \/ Tick \/ ProbeAnswered \/ ProbeUnanswered \/ Lost \/ DelayOver \/ StopWatch
    PROVE  Inv'
<1> USE DEF Inv, ctlVars, WatchGoto, Watching
<1>1. UNCHANGED <<obs, open, client, mu, main, th>>
  BY DEF Tick, ProbeAnswered, ProbeUnanswered, Lost, DelayOver, StopWatch
<1>2. watch' \in WatchFrame /\ watch'.pc # "dial" /\ connected' \in BOOLEAN
      /\ backoff' \in 1..MaxBackoff /\ OutageStartsFresh'
  <2> USE DEF TypeOK, WatchFrame, OutageStartsFresh
  <2>1. CASE Tick
    <3>1. CASE client = None
      BY <2>1, <3>1 DEF Tick
    <3>2. CASE client # None
      <4>1. watch' = [pc |-> "probe", conn |-> client, was |-> connected]
        BY <2>1, <3>2 DEF Tick
      <4>2. client \in Conn \cup {None} /\ connected \in BOOLEAN
        OBVIOUS
      <4>3. watch' \in WatchFrame /\ watch'.pc # "dial"
        BY <4>1, <4>2
      <4> QED
        BY <2>1, <4>3 DEF Tick
    <3> QED
      BY <3>1, <3>2
  <2>2. CASE ProbeAnswered
    <3>1. watch' \in WatchFrame /\ watch'.pc # "dial"
      BY <2>2 DEF ProbeAnswered
    <3>2. connected' \in BOOLEAN
      BY <2>2 DEF ProbeAnswered
    <3>3. backoff' = initialBackoff /\ initialBackoff \in 1..MaxBackoff
      BY <2>2 DEF ProbeAnswered, initialBackoff
    <3> QED
      BY <3>1, <3>2, <3>3
  <2>3. CASE ProbeUnanswered
    BY <2>3 DEF ProbeUnanswered
  <2>4. CASE Lost
    BY <2>4 DEF Lost
  <2>5. CASE DelayOver
    BY <2>5 DEF DelayOver
  <2>6. CASE StopWatch
    BY <2>6 DEF StopWatch
  <2> QED
    BY <2>1, <2>2, <2>3, <2>4, <2>5, <2>6
<1> QED
  BY <1>1, <1>2 DEF TypeOK, DialWithoutConnection, OneConnection, CallsActOnWhatTheySaw

\* The old connection is closed: no connection is left, whoever held it.
LEMMA ReconnectInv == ASSUME Inv, Reconnect PROVE Inv'
<1> USE DEF Inv, WatchGoto, Watching
<1>1. open' = {} /\ mu' = "watch" /\ watch' = [watch EXCEPT !.pc = "dial"]
  BY DEF Reconnect, OneConnection
<1>2. UNCHANGED <<obs, client, connected, backoff, main, th>>
  BY DEF Reconnect
<1>3. TypeOK'
  BY <1>1, <1>2 DEF TypeOK, WatchFrame
<1>4. DialWithoutConnection'
  BY <1>1 DEF DialWithoutConnection, TypeOK, WatchFrame
<1> QED
  BY <1>1, <1>2, <1>3, <1>4 DEF OneConnection, CallsActOnWhatTheySaw, OutageStartsFresh

\* The new connection is one that no call has taken yet.
LEMMA DialledInv == ASSUME Inv, Dialled PROVE Inv'
<1> USE DEF Inv, WatchGoto, Watching
<1>1. PICK k \in Fresh : client' = k /\ open' = open \cup {k}
  BY DEF Dialled
<1>2. k \in Conn /\ \A t \in Request : th[t].conn # k
  BY <1>1 DEF Fresh
<1>3. open = {}
  BY DEF Dialled, DialWithoutConnection
<1>4. /\ connected' = TRUE /\ mu' = None /\ backoff' = initialBackoff
      /\ watch' = [watch EXCEPT !.pc = "select"]
      /\ watch.pc = "dial"
      /\ UNCHANGED <<obs, main, th>>
  BY DEF Dialled
<1>5. TypeOK'
  BY <1>1, <1>2, <1>4 DEF TypeOK, WatchFrame, initialBackoff
<1>6. DialWithoutConnection'
  BY <1>4 DEF DialWithoutConnection, TypeOK, WatchFrame
<1>7. OneConnection'
  BY <1>1, <1>3, <1>4 DEF OneConnection
<1>8. CallsActOnWhatTheySaw'
  BY <1>1, <1>2, <1>3, <1>4 DEF CallsActOnWhatTheySaw
<1>9. OutageStartsFresh'
  BY <1>4 DEF OutageStartsFresh, initialBackoff
<1> QED
  BY <1>5, <1>6, <1>7, <1>8, <1>9

LEMMA DialFailsInv == ASSUME Inv, DialFails PROVE Inv'
<1> USE DEF Inv, WatchGoto, Watching
<1>1. /\ client' = None /\ connected' = FALSE /\ mu' = None /\ backoff' = Doubled
      /\ watch' = [watch EXCEPT !.pc = "select"]
      /\ watch.pc = "dial"
      /\ UNCHANGED <<obs, open, main, th>>
  BY DEF DialFails
<1>2. open = {}
  BY <1>1 DEF DialWithoutConnection
<1>3. TypeOK'
  BY <1>1, DelayBounded DEF TypeOK, WatchFrame
<1>4. DialWithoutConnection'
  BY <1>1, <1>2 DEF DialWithoutConnection, TypeOK, WatchFrame
<1> QED
  BY <1>1, <1>2, <1>3, <1>4 DEF OneConnection, CallsActOnWhatTheySaw, OutageStartsFresh

-----------------------------------------------------------------------------
\* A request changes its own frame, and a commit lets waiting readers in.
LEMMA RequestInv ==
    ASSUME Inv, NEW t \in Request, CallStep(t) \/ Call(t) \/ LockStep(t)
    PROVE  Inv'
<1> USE DEF Inv, ctlVars, watchVars
<1>0. UNCHANGED <<obs, open, ctlVars, watchVars, main>>
  BY DEF CallStep, LockStep, GetClient, LookUp, FindInput, Act, Call, RLock, IsConnected, Commit
<1>1. th' \in [Request -> Frame] /\ CallsActOnWhatTheySaw'
  <2> USE DEF TypeOK, Frame, Idle, Goto, Return, CallsActOnWhatTheySaw
  <2>1. CASE GetClient(t)
    <3>1. CASE Usable
      <4>1. PICK label \in {"look", "find"} :
              th' = [th EXCEPT ![t] = [pc |-> label, conn |-> client, item |-> "none"]]
        BY <2>1, <3>1 DEF GetClient
      <4> QED
        BY <1>0, <4>1
    <3>2. CASE ~Usable
      BY <1>0, <2>1, <3>2 DEF GetClient
    <3> QED
      BY <3>1, <3>2
  <2>2. CASE LookUp(t)
    BY <1>0, <2>2 DEF LookUp, Asks
  <2>8. CASE FindInput(t)
    BY <1>0, <2>8 DEF FindInput, Asks
  <2>3. CASE Act(t)
    BY <1>0, <2>3 DEF Act
  <2>4. CASE Call(t)
    BY <1>0, <2>4 DEF Call
  <2>5. CASE RLock(t)
    BY <1>0, <2>5 DEF RLock
  <2>6. CASE IsConnected(t)
    BY <1>0, <2>6 DEF IsConnected
  <2>7. CASE Commit(t)
    BY <1>0, <2>7 DEF Commit
  <2> QED
    BY <2>1, <2>2, <2>3, <2>4, <2>5, <2>6, <2>7, <2>8 DEF CallStep, LockStep
<1> QED
  BY <1>0, <1>1 DEF TypeOK, DialWithoutConnection, OneConnection, OutageStartsFresh

LEMMA CloseInv == ASSUME Inv, Close \/ CloseLocked \/ Exit PROVE Inv'
<1> USE DEF Inv, ctlVars, watchVars
<1>1. open' \subseteq open /\ UNCHANGED <<obs, ctlVars, watchVars, th>>
  BY DEF Close, CloseLocked, Exit
<1>2. main' \in {"running", "closing", "closed", "exited"} /\ OneConnection'
  BY <1>1 DEF Close, CloseLocked, Exit, OneConnection
<1> QED
  BY <1>1, <1>2 DEF TypeOK, DialWithoutConnection, CallsActOnWhatTheySaw, OutageStartsFresh

\* An OBS that ends takes the connection with the ids.
LEMMA ObsChangeInv == ASSUME Inv, ObsChange PROVE Inv'
<1> USE DEF Inv, ctlVars, watchVars
<1>1. obs' \in {"up", "slow", "down"} /\ open' \subseteq open
      /\ UNCHANGED <<ctlVars, watchVars, main>>
  BY DEF ObsChange
<1>2. th' \in [Request -> Frame]
  BY DEF ObsChange, TypeOK, Frame
<1>3. CallsActOnWhatTheySaw'
  <2>1. CASE obs' = "down"
    BY <2>1 DEF ObsChange, CallsActOnWhatTheySaw
  <2>2. CASE obs' # "down"
    BY <2>2 DEF ObsChange, CallsActOnWhatTheySaw, TypeOK
  <2> QED
    BY <2>1, <2>2
<1> QED
  BY <1>1, <1>2, <1>3 DEF TypeOK, DialWithoutConnection, OneConnection, OutageStartsFresh

LEMMA StepInv == Inv /\ [Next]_vars => Inv'
<1> SUFFICES ASSUME Inv, [Next]_vars PROVE Inv'
  OBVIOUS
<1>1. CASE WatchStep
  BY <1>1, WatchInv, ReconnectInv, DialledInv, DialFailsInv DEF WatchStep
<1>2. CASE \E t \in Request : CallStep(t) \/ Call(t) \/ LockStep(t)
  BY <1>2, RequestInv
<1>3. CASE Close \/ CloseLocked \/ Exit \/ ObsChange
  BY <1>3, CloseInv, ObsChangeInv
<1>4. CASE UNCHANGED vars
  BY <1>4 DEF vars, ctlVars, watchVars, Inv, TypeOK, DialWithoutConnection, OneConnection,
              CallsActOnWhatTheySaw, OutageStartsFresh
<1> QED
  BY <1>1, <1>2, <1>3, <1>4 DEF Next

LEMMA Invariant == Spec => []Inv
BY InitInv, StepInv, PTL DEF Spec

-----------------------------------------------------------------------------
\* Every variable has its type, and the delay of the loop never exceeds maxBackoff
\* (obs.go:139-171).
THEOREM ConnectionTypes == Spec => []TypeOK
<1>1. Inv => TypeOK
  BY DEF Inv
<1> QED
  BY <1>1, Invariant, PTL

\* However often the loop reconnects, also to an OBS that was only slow, and whether
\* or not it dials once more after Close, no connection is open but the one the
\* controller refers to (obs.go:94-124).
THEOREM NeverTwoConnections == Spec => []OneConnection
<1>1. Inv => OneConnection
  BY DEF Inv
<1> QED
  BY <1>1, Invariant, PTL

\* Position calls never apply a scene item id to an OBS they did not get it from
\* (EnsureScene to SetPositionEnabled), however many calls overlap with reconnections.
THEOREM IdsNeverOutliveObs == Spec => []ActsOnWhatItSaw
<1>1. Inv => ActsOnWhatItSaw
  BY DEF Inv, CallsActOnWhatTheySaw, ActsOnWhatItSaw, ActsOver
<1> QED
  BY <1>1, Invariant, PTL

\* While the connection counts as good the delay is the shortest: the next outage
\* starts with it (watchLoop).
THEOREM DelayNeverInherited == Spec => []OutageStartsFresh
<1>1. Inv => OutageStartsFresh
  BY DEF Inv
<1> QED
  BY <1>1, Invariant, PTL
=============================================================================

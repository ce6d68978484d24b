---------------------------- MODULE SnapshotFeed ----------------------------
(***************************************************************************)
(* From a change of the server's state to the operator's page: the hub     *)
(* (backend/internal/events), the WebSocket handler and its connections    *)
(* (backend/internal/httpapi), and the page's reconnecting socket          *)
(* (frontend/src/app/core/websocket.service.ts).                           *)
(*                                                                         *)
(* A payload is the number of the state it shows.  The orchestrator        *)
(* changes, reads and publishes in three steps; the broadcast manager       *)
(* publishes under the lock it changes under.  A connection is a FIFO that  *)
(* may break at any time, and each side notices in its own time.            *)
(***************************************************************************)
EXTENDS Naturals, Sequences

CONSTANTS Topic,
          Locked,      \* topics published under the lock of their state
          Order,       \* the topics in the order the handler sends them
          Publisher,   \* goroutines that change the orchestrator
          Page, Conn,
          None,
          Buffer,      \* capacity of a subscriber's channel (Go: 16)
          Wire,        \* messages a connection holds in flight (bound)
          MaxVer,      \* bound on the states of each topic
          MaxFaults    \* bound on broken connections and restarts

ASSUME FeedAssumption ==
    /\ Locked \subseteq Topic
    /\ Order \in Seq(Topic) /\ Order # <<>>
    /\ \A t \in Locked : \E i \in DOMAIN Order : Order[i] = t
    /\ None \notin Conn \cup Topic
    /\ Buffer \in Nat \ {0} /\ Wire \in Nat \ {0}
    /\ MaxVer \in [Topic -> Nat \ {0}] /\ MaxFaults \in Nat

VARIABLES
    ver,       \* the state each topic is in
    pub,       \* frames of the publishers
    subs,      \* Hub.subs
    buf,       \* the channel of each subscriber
    missed,    \* history: Locked topics whose last change passed a connection by
    tracked,   \* Server.conns
    handler,   \* frames of handleWS
    held,      \* the message a handler is writing
    link,      \* "dialing", "up" or "down"
    wire,      \* written and not yet read by the page
    page,      \* the page's WebSocketService
    shown,     \* the page's signals
    faults

srvVars == <<ver, pub, subs, buf, missed, tracked>>
hdlVars == <<handler, held>>
netVars == <<link, wire>>
pageVars == <<page, shown>>
vars == <<srvVars, hdlVars, netVars, pageVars, faults>>

Event == [topic : Topic, ver : Nat \ {0}]
Idle  == [pc |-> "idle", topic |-> None, ver |-> 0]
Done  == [pc |-> "none", next |-> 1]

-----------------------------------------------------------------------------
(* The hub.                                                                *)

Serving(c) == handler[c].pc \in {"snapshot", "write", "subscribe", "loop"}

\* Variant: the capacity is compared one off.
VariantDeliver(e) ==
    LET Takes(c) == c \in subs /\ Len(buf[c]) <= Buffer
        Misses(c) == e.topic \in Locked /\ Serving(c) /\ ~Takes(c)
    IN /\ buf' = [c \in Conn |-> IF Takes(c) THEN Append(buf[c], e) ELSE buf[c]]
       /\ missed' = [c \in Conn |-> IF Misses(c) THEN missed[c] \cup {e.topic}
                                    ELSE missed[c] \ {e.topic}]

\* Publish: to every subscriber with room, without waiting for the others.
Deliver(e) ==
    LET Takes(c) == c \in subs /\ Len(buf[c]) < Buffer
        Misses(c) == e.topic \in Locked /\ Serving(c) /\ ~Takes(c)
    IN /\ buf' = [c \in Conn |-> IF Takes(c) THEN Append(buf[c], e) ELSE buf[c]]
       /\ missed' = [c \in Conn |-> IF Misses(c) THEN missed[c] \cup {e.topic}
                                    ELSE missed[c] \ {e.topic}]

\* Variant: every topic is published as those of the orchestrator are.
VariantChange(g, t) ==
    /\ pub[g].pc = "idle" /\ ver[t] < MaxVer[t]
    /\ ver' = [ver EXCEPT ![t] = @ + 1]
    /\ pub' = [pub EXCEPT ![g] = [Idle EXCEPT !.pc = "changed", !.topic = t]]
    /\ UNCHANGED <<subs, buf, missed, tracked, hdlVars, netVars, pageVars, faults>>

Change(g, t) ==               \* under o.mu
    /\ pub[g].pc = "idle" /\ t \notin Locked /\ ver[t] < MaxVer[t]
    /\ ver' = [ver EXCEPT ![t] = @ + 1]
    /\ pub' = [pub EXCEPT ![g] = [Idle EXCEPT !.pc = "changed", !.topic = t]]
    /\ UNCHANGED <<subs, buf, missed, tracked, hdlVars, netVars, pageVars, faults>>

ReadState(g) ==               \* under o.mu again
    /\ pub[g].pc = "changed"
    /\ pub' = [pub EXCEPT ![g].pc = "read", ![g].ver = ver[pub[g].topic]]
    /\ UNCHANGED <<ver, subs, buf, missed, tracked, hdlVars, netVars, pageVars, faults>>

Publish(g) ==                 \* under the hub's lock only
    /\ pub[g].pc = "read"
    /\ Deliver([topic |-> pub[g].topic, ver |-> pub[g].ver])
    /\ pub' = [pub EXCEPT ![g] = Idle]
    /\ UNCHANGED <<ver, subs, tracked, hdlVars, netVars, pageVars, faults>>

ChangeLocked(t) ==            \* change and publishLocked, under m.mu
    /\ t \in Locked /\ ver[t] < MaxVer[t]
    /\ ver' = [ver EXCEPT ![t] = @ + 1]
    /\ Deliver([topic |-> t, ver |-> ver[t] + 1])
    /\ UNCHANGED <<pub, subs, tracked, hdlVars, netVars, pageVars, faults>>

\* A Start whose relays do not start forgets the destinations of the last
\* broadcast, under m.mu, and publishes nothing.
ChangeQuietly(t) ==
    /\ t \in Locked /\ ver[t] < MaxVer[t]
    /\ ver' = [ver EXCEPT ![t] = @ + 1]
    /\ missed' = [c \in Conn |-> IF Serving(c) THEN missed[c] \cup {t} ELSE missed[c]]
    /\ UNCHANGED <<pub, subs, buf, tracked, hdlVars, netVars, pageVars, faults>>

-----------------------------------------------------------------------------
(* The handler of one connection.                                          *)

At(c, label) == handler[c].pc = label
Goto(c, label) == handler' = [handler EXCEPT ![c].pc = label]

Accept(c) ==
    /\ link[c] = "dialing" /\ At(c, "none")
    /\ link' = [link EXCEPT ![c] = "up"]
    /\ Goto(c, "track")
    /\ UNCHANGED <<srvVars, held, wire, pageVars, faults>>

Track(c) ==
    /\ At(c, "track")
    /\ tracked' = tracked \cup {c}
    /\ Goto(c, "snapshot")
    /\ UNCHANGED <<ver, pub, subs, buf, missed, held, netVars, pageVars, faults>>

ReadSnapshot(c) ==
    /\ At(c, "snapshot")
    /\ LET t == Order[handler[c].next]
       IN /\ held' = [held EXCEPT ![c] = <<[topic |-> t, ver |-> ver[t]]>>]
          /\ missed' = [missed EXCEPT ![c] = @ \ {t}]
    /\ handler' = [handler EXCEPT ![c] = [pc |-> "write", next |-> @.next + 1]]
    /\ UNCHANGED <<ver, pub, subs, buf, tracked, netVars, pageVars, faults>>

\* Variant: a write does not wait for a slow page.
VariantWrite(c) ==
    /\ At(c, "write")
    /\ wire' = IF link[c] = "up" /\ Len(wire[c]) < Wire
               THEN [wire EXCEPT ![c] = @ \o held[c]] ELSE wire
    /\ held' = [held EXCEPT ![c] = <<>>]
    /\ Goto(c, IF c \in subs THEN "loop"
               ELSE IF handler[c].next > Len(Order) THEN "subscribe" ELSE "snapshot")
    /\ UNCHANGED <<srvVars, link, pageVars, faults>>

\* What a broken connection still accepts is lost.
Write(c) ==
    /\ At(c, "write")
    /\ \/ link[c] = "up" /\ Len(wire[c]) < Wire /\ wire' = [wire EXCEPT ![c] = @ \o held[c]]
       \/ link[c] = "down" /\ UNCHANGED wire
    /\ held' = [held EXCEPT ![c] = <<>>]
    /\ Goto(c, IF c \in subs THEN "loop"
               ELSE IF handler[c].next > Len(Order) THEN "subscribe" ELSE "snapshot")
    /\ UNCHANGED <<srvVars, link, pageVars, faults>>

Subscribe(c) ==
    /\ At(c, "subscribe")
    /\ subs' = subs \cup {c}
    /\ buf' = [buf EXCEPT ![c] = <<>>]
    /\ Goto(c, "loop")
    /\ UNCHANGED <<ver, pub, missed, tracked, held, netVars, pageVars, faults>>

Take(c) ==
    /\ At(c, "loop") /\ buf[c] # <<>>
    /\ held' = [held EXCEPT ![c] = <<Head(buf[c])>>]
    /\ buf' = [buf EXCEPT ![c] = Tail(@)]
    /\ Goto(c, "write")
    /\ UNCHANGED <<ver, pub, subs, missed, tracked, netVars, pageVars, faults>>

\* Variant: no deferred cancel.
VariantFail(c) ==
    /\ handler[c].pc \in {"write", "loop"} /\ link[c] = "down"
    /\ held' = [held EXCEPT ![c] = <<>>]
    /\ Goto(c, "untrack")
    /\ missed' = [missed EXCEPT ![c] = {}]
    /\ UNCHANGED <<ver, pub, subs, buf, tracked, netVars, pageVars, faults>>

\* The write or the ping fails, or the reader has cancelled the context.
Fail(c) ==
    /\ handler[c].pc \in {"write", "loop"} /\ link[c] = "down"
    /\ held' = [held EXCEPT ![c] = <<>>]
    /\ Goto(c, IF c \in subs THEN "cancel" ELSE "untrack")
    /\ missed' = [missed EXCEPT ![c] = {}]
    /\ UNCHANGED <<ver, pub, subs, buf, tracked, netVars, pageVars, faults>>

Cancel(c) ==
    /\ At(c, "cancel")
    /\ subs' = subs \ {c}
    /\ buf' = [buf EXCEPT ![c] = <<>>]
    /\ Goto(c, "untrack")
    /\ UNCHANGED <<ver, pub, missed, tracked, held, netVars, pageVars, faults>>

Untrack(c) ==
    /\ At(c, "untrack")
    /\ tracked' = tracked \ {c}
    /\ handler' = [handler EXCEPT ![c] = Done]
    /\ UNCHANGED <<ver, pub, subs, buf, missed, held, netVars, pageVars, faults>>

-----------------------------------------------------------------------------
(* The page.                                                               *)

\* Connections nobody holds any more: their ids, all alike, stand for new ones.
Free == {c \in Conn : At(c, "none") /\ \A p \in Page : page[p].socket # c}

\* connect at start, open by the timer later.
Dial(p) ==
    /\ page[p].timer /\ ~page[p].manuallyClosed
    /\ Free # {}
    /\ LET new == CHOOSE c \in Free : TRUE
       IN /\ page' = [page EXCEPT ![p].state = "connecting", ![p].socket = new, ![p].timer = FALSE]
          /\ link' = [link EXCEPT ![new] = "dialing"]
    /\ UNCHANGED <<srvVars, hdlVars, wire, shown, faults>>

OnOpen(p) ==
    /\ page[p].state = "connecting" /\ link[page[p].socket] = "up"
    /\ page' = [page EXCEPT ![p].state = "open"]
    /\ UNCHANGED <<srvVars, hdlVars, netVars, shown, faults>>

OnMessage(p) ==
    LET c == page[p].socket
    IN /\ page[p].state = "open" /\ wire[c] # <<>>
       /\ shown' = [shown EXCEPT ![p][Head(wire[c]).topic] = Head(wire[c]).ver]
       /\ wire' = [wire EXCEPT ![c] = Tail(@)]
       /\ UNCHANGED <<srvVars, hdlVars, link, page, faults>>

\* Variant: only a socket that had opened is replaced.
VariantOnClose(p) ==
    LET c == page[p].socket
    IN /\ c # None /\ link[c] = "down"
       /\ page' = [page EXCEPT ![p].state = "closed", ![p].socket = None,
                               ![p].timer = page[p].state = "open" /\ ~page[p].manuallyClosed]
       /\ wire' = [wire EXCEPT ![c] = <<>>]
       /\ UNCHANGED <<srvVars, hdlVars, link, shown, faults>>

\* What had not been read by then is lost.
OnClose(p) ==
    LET c == page[p].socket
    IN /\ c # None /\ link[c] = "down"
       /\ page' = [page EXCEPT ![p].state = "closed", ![p].socket = None,
                               ![p].timer = ~page[p].manuallyClosed]
       /\ wire' = [wire EXCEPT ![c] = <<>>]
       /\ UNCHANGED <<srvVars, hdlVars, link, shown, faults>>

Disconnect(p) ==
    /\ page[p].state # "new" /\ ~page[p].manuallyClosed
    /\ page' = [page EXCEPT ![p].manuallyClosed = TRUE, ![p].timer = FALSE]
    /\ link' = [c \in Conn |-> IF c = page[p].socket THEN "down" ELSE link[c]]
    /\ UNCHANGED <<srvVars, hdlVars, wire, shown, faults>>

-----------------------------------------------------------------------------
(* Faults and shutdown.                                                    *)

Break(c) ==
    /\ link[c] # "down" /\ faults < MaxFaults
    /\ link' = [link EXCEPT ![c] = "down"]
    /\ faults' = faults + 1
    /\ UNCHANGED <<srvVars, hdlVars, wire, pageVars>>

CloseAllWS ==
    /\ tracked # {} /\ faults < MaxFaults
    /\ link' = [c \in Conn |-> IF c \in tracked THEN "down" ELSE link[c]]
    /\ faults' = faults + 1
    /\ UNCHANGED <<srvVars, hdlVars, wire, pageVars>>

\* The process ends, or crashes, and starts again in another state.
Restart ==
    /\ faults < MaxFaults /\ \A t \in Topic : ver[t] < MaxVer[t]
    /\ ver' = [t \in Topic |-> ver[t] + 1]
    /\ pub' = [g \in Publisher |-> Idle]
    /\ subs' = {} /\ tracked' = {}
    /\ buf' = [c \in Conn |-> <<>>] /\ held' = [c \in Conn |-> <<>>]
    /\ missed' = [c \in Conn |-> {}]
    /\ handler' = [c \in Conn |-> Done]
    /\ link' = [c \in Conn |-> "down"]
    /\ faults' = faults + 1
    /\ UNCHANGED <<wire, pageVars>>

-----------------------------------------------------------------------------
Init ==
    /\ ver = [t \in Topic |-> 1]
    /\ pub = [g \in Publisher |-> Idle]
    /\ subs = {} /\ tracked = {}
    /\ buf = [c \in Conn |-> <<>>] /\ held = [c \in Conn |-> <<>>]
    /\ missed = [c \in Conn |-> {}]
    /\ handler = [c \in Conn |-> Done]
    /\ link = [c \in Conn |-> "down"] /\ wire = [c \in Conn |-> <<>>]
    /\ page = [p \in Page |-> [state |-> "new", socket |-> None, timer |-> TRUE,
                               manuallyClosed |-> FALSE]]
    /\ shown = [p \in Page |-> [t \in Topic |-> 0]]
    /\ faults = 0

Changes == \E g \in Publisher : ReadState(g) \/ Publish(g) \/ \E t \in Topic : Change(g, t)
Handle(c) ==
    \/ Accept(c) \/ Track(c) \/ ReadSnapshot(c) \/ Write(c) \/ Subscribe(c)
    \/ Take(c) \/ Fail(c) \/ Cancel(c) \/ Untrack(c)
Browser(p) == Dial(p) \/ OnOpen(p) \/ OnMessage(p) \/ OnClose(p)

Next ==
    \/ Changes
    \/ \E t \in Topic : ChangeLocked(t) \/ ChangeQuietly(t)
    \/ \E c \in Conn : Handle(c) \/ Break(c)
    \/ \E p \in Page : Browser(p) \/ Disconnect(p)
    \/ CloseAllWS \/ Restart

Spec == Init /\ [][Next]_vars

\* The goroutine of a handler runs, and the browser fires the timers and events
\* of a page.  Nothing obliges the state to change, a change to be published, a
\* connection to break or a page to be closed.
FairSpec ==
    /\ Spec
    /\ \A c \in Conn : WF_vars(Handle(c))
    /\ \A p \in Page : WF_vars(Browser(p))

-----------------------------------------------------------------------------
(* Properties.                                                             *)

\* Every variable keeps its type; no channel outgrows its capacity.
TypeOK ==
    /\ ver \in [Topic -> Nat \ {0}]
    /\ pub \in [Publisher -> [pc : {"idle", "changed", "read"},
                              topic : Topic \cup {None}, ver : Nat]]
    /\ subs \subseteq Conn /\ tracked \subseteq Conn
    /\ missed \in [Conn -> SUBSET Locked]
    /\ buf \in [Conn -> Seq(Event)] /\ held \in [Conn -> Seq(Event)] /\ wire \in [Conn -> Seq(Event)]
    /\ \A c \in Conn : Len(buf[c]) <= Buffer /\ Len(wire[c]) <= Wire /\ Len(held[c]) <= 1
    /\ handler \in [Conn -> [pc : {"none", "track", "snapshot", "write", "subscribe", "loop",
                                   "cancel", "untrack"}, next : 1..(Len(Order) + 1)]]
    /\ link \in [Conn -> {"dialing", "up", "down"}]
    /\ page \in [Page -> [state : {"new", "connecting", "open", "closed"},
                          socket : Conn \cup {None}, timer : BOOLEAN, manuallyClosed : BOOLEAN]]
    /\ shown \in [Page -> [Topic -> Nat]]
    /\ faults \in 0..MaxFaults

\* All that is under way to the page of connection c.
Flow(c) == wire[c] \o held[c] \o buf[c]

\* A page that shows version old of topic t shows v once it has read s.
Brings(s, t, old, v) ==
    LET Of == {i \in DOMAIN s : s[i].topic = t}
    IN IF Of = {} THEN v = old
       ELSE \E i \in Of : v = s[i].ver /\ \A j \in Of : j <= i

\* Between the hub, the handler and the connection nothing is lost or
\* overtaken: while its connection lasts, a page will show the present state of
\* the broadcast, unless its own channel was full at the last change, that change
\* fell between its snapshot and its subscription (ws.go:54-59), or it was never
\* published (broadcast.go:175-182).
NothingElseLost ==
    \A p \in Page : LET c == page[p].socket IN
        c \in subs /\ link[c] = "up" =>
            \A t \in Locked : t \in missed[c] \/ Brings(Flow(c), t, shown[p][t], ver[t])

\* What a page shows was true, and of the broadcast it never shows an older
\* state after a newer one, over any number of connections and restarts.
Feed == INSTANCE StatusFeed WITH Ordered <- Locked, current <- ver
ShowsOnlyProgress == Feed!Spec

\* A connection that is gone leaves nothing behind: its handler returns, its
\* channel leaves the hub and its entry Server.conns, so that CloseAllWS and
\* Publish do not go on serving it (hub.go:26, httpapi.go:87).
Released ==
    \A c \in Conn : link[c] = "down" ~> At(c, "none") /\ c \notin subs \cup tracked

\* A page that lost its connection gets a new one, unless it is closed itself.
Reconnects ==
    \A p \in Page : page[p].state = "closed" ~> page[p].state = "open" \/ page[p].manuallyClosed
=============================================================================

------------------------- MODULE SnapshotFeedProofs -------------------------
(***************************************************************************)
(* Theorems about SnapshotFeed, for any number of topics, publishers,      *)
(* pages, connections and faults, and any capacity of the channels: what   *)
(* is under way to a page is in order and ends in the present, and the     *)
(* feed implements StatusFeed.                                             *)
(***************************************************************************)
EXTENDS SnapshotFeed, SequenceTheorems, TLAPS

-----------------------------------------------------------------------------
(* Sequences of events.                                                    *)

\* The versions of a locked topic do not decrease along s.
Sorted(s) ==
    \A i, j \in DOMAIN s : i < j /\ s[i].topic = s[j].topic /\ s[i].topic \in Locked
                           => s[i].ver <= s[j].ver

\* No event of s shows a state later than the versions of v.
UpTo(s, v) == \A i \in DOMAIN s : s[i].ver <= v[s[i].topic]

\* No event of s shows a state of a locked topic older than those of sh.
Ahead(s, sh) == \A i \in DOMAIN s : s[i].topic \in Locked => sh[s[i].topic] <= s[i].ver

\* r is s, some events left out.
Part(r, s) ==
    \E f \in [DOMAIN r -> DOMAIN s] :
        \A i, j \in DOMAIN r : r[i] = s[f[i]] /\ (i < j => f[i] < f[j])

LEMMA PartKeeps ==
    ASSUME NEW r \in Seq(Event), NEW s \in Seq(Event), Part(r, s)
    PROVE  /\ Sorted(s) => Sorted(r)
           /\ \A v : UpTo(s, v) => UpTo(r, v)
           /\ \A sh : Ahead(s, sh) => Ahead(r, sh)
<1>1. PICK f \in [DOMAIN r -> DOMAIN s] :
         \A i, j \in DOMAIN r : r[i] = s[f[i]] /\ (i < j => f[i] < f[j])
  BY DEF Part
<1>2. Sorted(s) => Sorted(r)
  <2> SUFFICES ASSUME Sorted(s), NEW i \in DOMAIN r, NEW j \in DOMAIN r,
                      i < j, r[i].topic = r[j].topic, r[i].topic \in Locked
               PROVE  r[i].ver <= r[j].ver
    BY DEF Sorted
  <2>1. /\ f[i] \in DOMAIN s /\ f[j] \in DOMAIN s /\ f[i] < f[j]
        /\ r[i] = s[f[i]] /\ r[j] = s[f[j]]
    BY <1>1
  <2>2. \A k, l \in DOMAIN s : k < l /\ s[k].topic = s[l].topic /\ s[k].topic \in Locked
                              => s[k].ver <= s[l].ver
    BY DEF Sorted
  <2> QED
    BY <2>1, <2>2
<1>3. \A v : UpTo(s, v) => UpTo(r, v)
  BY <1>1 DEF UpTo
<1>4. \A sh : Ahead(s, sh) => Ahead(r, sh)
  BY <1>1 DEF Ahead
<1> QED
  BY <1>2, <1>3, <1>4

LEMMA PartItself == ASSUME NEW s \in Seq(Event) PROVE Part(s, s)
<1> DEFINE f == [i \in DOMAIN s |-> i]
<1>1. f \in [DOMAIN s -> DOMAIN s] /\ \A i, j \in DOMAIN s : s[i] = s[f[i]] /\ (i < j => f[i] < f[j])
  OBVIOUS
<1> QED
  BY <1>1 DEF Part

LEMMA PartEmpty == ASSUME NEW s \in Seq(Event) PROVE Part(<<>>, s)
<1> DEFINE f == [i \in DOMAIN <<>> |-> 1]
<1>1. DOMAIN <<>> = {}
  BY EmptySeq, LenProperties
<1>2. f \in [DOMAIN <<>> -> DOMAIN s]
      /\ \A i, j \in DOMAIN <<>> : <<>>[i] = s[f[i]] /\ (i < j => f[i] < f[j])
  BY <1>1
<1> QED
  BY <1>2 DEF Part

LEMMA PartTail ==
    ASSUME NEW s \in Seq(Event), s # <<>>
    PROVE  Part(Tail(s), s)
<1>1. /\ Tail(s) \in Seq(Event) /\ Len(Tail(s)) = Len(s) - 1
      /\ \A i \in 1..Len(Tail(s)) : Tail(s)[i] = s[i + 1]
  BY HeadTailProperties
<1>2. DOMAIN s = 1..Len(s) /\ DOMAIN Tail(s) = 1..(Len(s) - 1) /\ Len(s) \in Nat
  BY <1>1, LenProperties
<1> DEFINE f == [i \in DOMAIN Tail(s) |-> i + 1]
<1>3. f \in [DOMAIN Tail(s) -> DOMAIN s]
  BY <1>2
<1>4. \A i, j \in DOMAIN Tail(s) : Tail(s)[i] = s[f[i]] /\ (i < j => f[i] < f[j])
  BY <1>1, <1>2
<1> QED
  BY <1>3, <1>4 DEF Part

LEMMA PartPrefix ==
    ASSUME NEW s \in Seq(Event), NEW u \in Seq(Event)
    PROVE  Part(s, s \o u)
<1>1. /\ s \o u \in Seq(Event) /\ Len(s \o u) = Len(s) + Len(u)
      /\ \A i \in 1..Len(s) : (s \o u)[i] = s[i]
      /\ Len(s) \in Nat /\ Len(u) \in Nat
  BY ConcatProperties, LenProperties
<1>2. DOMAIN s = 1..Len(s) /\ DOMAIN (s \o u) = 1..(Len(s) + Len(u))
  BY <1>1, LenProperties
<1> DEFINE f == [i \in DOMAIN s |-> i]
<1>3. f \in [DOMAIN s -> DOMAIN (s \o u)]
  BY <1>1, <1>2
<1>4. \A i, j \in DOMAIN s : s[i] = (s \o u)[f[i]] /\ (i < j => f[i] < f[j])
  BY <1>1, <1>2
<1> QED
  BY <1>3, <1>4 DEF Part

\* A later event at the end keeps a sequence in order.
LEMMA AppendKeeps ==
    ASSUME NEW s \in Seq(Event), NEW e \in Event, NEW v \in [Topic -> Nat],
           Sorted(s), UpTo(s, v), e.topic \in Locked => e.ver = v[e.topic], e.ver <= v[e.topic]
    PROVE  /\ Append(s, e) \in Seq(Event)
           /\ Sorted(Append(s, e))
           /\ UpTo(Append(s, e), v)
           /\ \A sh \in [Topic -> Nat] :
                Ahead(s, sh) /\ (\A t \in Topic : sh[t] <= v[t]) => Ahead(Append(s, e), sh)
<1> DEFINE a == Append(s, e)
<1>1. /\ a \in Seq(Event) /\ Len(a) = Len(s) + 1 /\ Len(s) \in Nat
      /\ \A i \in 1..Len(s) : a[i] = s[i]
      /\ a[Len(s) + 1] = e
  BY AppendProperties, LenProperties
<1>2. DOMAIN s = 1..Len(s) /\ DOMAIN a = 1..(Len(s) + 1)
  BY <1>1, LenProperties
<1>3. \A i \in DOMAIN a : \/ i \in DOMAIN s /\ a[i] = s[i]
                          \/ i = Len(s) + 1 /\ a[i] = e
  BY <1>1, <1>2
<1>4. \A i \in DOMAIN s : s[i] \in Event
  BY <1>2, ElementOfSeq
<1> HIDE DEF a
<1>5. Sorted(a)
  <2> SUFFICES ASSUME NEW i \in DOMAIN a, NEW j \in DOMAIN a,
                      i < j, a[i].topic = a[j].topic, a[i].topic \in Locked
               PROVE  a[i].ver <= a[j].ver
    BY DEF Sorted
  <2>1. i \in DOMAIN s /\ a[i] = s[i]
    BY <1>1, <1>2, <1>3
  <2>2. CASE j \in DOMAIN s /\ a[j] = s[j]
    <3>1. \A k, l \in DOMAIN s : k < l /\ s[k].topic = s[l].topic /\ s[k].topic \in Locked
                               => s[k].ver <= s[l].ver
      BY DEF Sorted
    <3> QED
      BY <2>1, <2>2, <3>1
  <2>3. CASE a[j] = e
    <3>1. s[i].ver <= v[s[i].topic]
      BY <2>1 DEF UpTo
    <3> QED
      BY <2>1, <2>3, <3>1
  <2> QED
    BY <1>3, <2>2, <2>3
<1>6. UpTo(a, v)
  BY <1>3 DEF UpTo
<1>7. ASSUME NEW sh \in [Topic -> Nat], Ahead(s, sh), \A t \in Topic : sh[t] <= v[t]
      PROVE  Ahead(a, sh)
  <2>1. e.topic \in Locked => sh[e.topic] <= e.ver
    BY <1>7 DEF Event
  <2> QED
    BY <1>3, <1>7, <2>1 DEF Ahead
<1> QED
  BY <1>1, <1>5, <1>6, <1>7 DEF a

-----------------------------------------------------------------------------
(* What a page has shown once it has read a sequence.                      *)

\* The last event decides about its topic, and about no other.
LEMMA BringsAppend ==
    ASSUME NEW s \in Seq(Event), NEW e \in Event, NEW t \in Topic, NEW old
    PROVE  /\ e.topic = t => Brings(Append(s, e), t, old, e.ver)
           /\ e.topic # t => \A v : Brings(s, t, old, v) => Brings(Append(s, e), t, old, v)
<1> DEFINE a == Append(s, e)
           Of(r) == {i \in DOMAIN r : r[i].topic = t}
<1>1. /\ a \in Seq(Event) /\ Len(a) = Len(s) + 1 /\ Len(s) \in Nat
      /\ \A i \in 1..Len(s) : a[i] = s[i]
      /\ a[Len(s) + 1] = e
  BY AppendProperties, LenProperties
<1>2. DOMAIN s = 1..Len(s) /\ DOMAIN a = 1..(Len(s) + 1)
  BY <1>1, LenProperties
<1>3. ASSUME e.topic = t PROVE Brings(a, t, old, e.ver)
  <2>1. Len(s) + 1 \in Of(a) /\ \A j \in Of(a) : j <= Len(s) + 1
    BY <1>1, <1>2, <1>3
  <2> QED
    BY <1>1, <2>1 DEF Brings
<1>4. ASSUME e.topic # t, NEW v, Brings(s, t, old, v) PROVE Brings(a, t, old, v)
  <2>1. Of(a) = Of(s) /\ \A i \in Of(s) : a[i] = s[i]
    BY <1>1, <1>2, <1>4
  <2> QED
    BY <1>4, <2>1 DEF Brings
<1> QED
  BY <1>3, <1>4

\* Reading the first event leaves the outcome what it was.
LEMMA BringsTail ==
    ASSUME NEW s \in Seq(Event), s # <<>>, NEW t \in Topic, NEW old, NEW v, Brings(s, t, old, v)
    PROVE  Brings(Tail(s), t, IF Head(s).topic = t THEN Head(s).ver ELSE old, v)
<1> DEFINE Of(r) == {i \in DOMAIN r : r[i].topic = t}
           new == IF Head(s).topic = t THEN Head(s).ver ELSE old
<1>1. /\ Tail(s) \in Seq(Event) /\ Len(Tail(s)) = Len(s) - 1
      /\ \A i \in 1..Len(Tail(s)) : Tail(s)[i] = s[i + 1]
  BY HeadTailProperties
<1>2. DOMAIN s = 1..Len(s) /\ DOMAIN Tail(s) = 1..(Len(s) - 1) /\ Len(s) \in Nat /\ Head(s) = s[1]
  BY <1>1, LenProperties
<1>2a. Len(s) >= 1
  BY EmptySeq, <1>2
<1>3. CASE Of(s) = {}
  <2>1. Of(Tail(s)) = {}
    BY <1>1, <1>2, <1>3
  <2>2. Head(s).topic # t
    BY <1>2, <1>2a, <1>3
  <2> QED
    BY <1>3, <2>1, <2>2 DEF Brings
<1>4. CASE Of(s) # {}
  <2>1. PICK i \in Of(s) : v = s[i].ver /\ \A j \in Of(s) : j <= i
    BY <1>4 DEF Brings
  <2>2. \A j \in Of(Tail(s)) : j + 1 \in Of(s)
    BY <1>1, <1>2
  <2>3. CASE i = 1
    <3>1. Of(Tail(s)) = {}
      BY <1>2, <2>1, <2>2, <2>3
    <3> QED
      BY <1>2, <2>1, <2>3, <3>1 DEF Brings
  <2>4. CASE i # 1
    <3>1. i - 1 \in Of(Tail(s)) /\ v = Tail(s)[i - 1].ver
      BY <1>1, <1>2, <2>1, <2>4
    <3>2. \A j \in Of(Tail(s)) : j <= i - 1
      BY <1>2, <2>1, <2>2
    <3> QED
      BY <3>1, <3>2 DEF Brings
  <2> QED
    BY <2>3, <2>4
<1> QED
  BY <1>3, <1>4

-----------------------------------------------------------------------------
(* What the steps do to w \o h \o b: connection, handler and channel.      *)

LEMMA FlowWritten ==
    ASSUME NEW w \in Seq(Event), NEW h \in Seq(Event), NEW b \in Seq(Event)
    PROVE  (w \o h) \o <<>> \o b = w \o h \o b
<1>1. w \o h \in Seq(Event)
  BY ConcatProperties
<1> QED
  BY <1>1, ConcatEmptySeq

LEMMA FlowTaken ==
    ASSUME NEW w \in Seq(Event), NEW b \in Seq(Event), b # <<>>
    PROVE  w \o <<Head(b)>> \o Tail(b) = w \o <<>> \o b
<1>1. /\ Head(b) \in Event /\ Tail(b) \in Seq(Event) /\ Len(Tail(b)) = Len(b) - 1
      /\ \A i \in 1..Len(Tail(b)) : Tail(b)[i] = b[i + 1]
      /\ Len(b) \in Nat \ {0}
  BY HeadTailProperties, EmptySeq
<1>2. <<Head(b)>> \in Seq(Event) /\ Len(<<Head(b)>>) = 1 /\ <<Head(b)>>[1] = Head(b)
  BY <1>1
<1> DEFINE h == <<Head(b)>>
<1>3. h \o Tail(b) = b
  <2> HIDE DEF h
  <2>1. /\ h \o Tail(b) \in Seq(Event) /\ Len(h \o Tail(b)) = Len(h) + Len(Tail(b))
        /\ \A i \in 1..(Len(h) + Len(Tail(b))) :
             (h \o Tail(b))[i] = IF i <= Len(h) THEN h[i] ELSE Tail(b)[i - Len(h)]
    BY <1>1, <1>2, ConcatProperties DEF h
  <2>2. Len(h) = 1 /\ h[1] = b[1]
    BY <1>2 DEF h
  <2>3. Len(h \o Tail(b)) = Len(b)
    BY <1>1, <2>1, <2>2
  <2>4. \A i \in 1..Len(b) : (h \o Tail(b))[i] = b[i]
    <3> SUFFICES ASSUME NEW i \in 1..Len(b) PROVE (h \o Tail(b))[i] = b[i]
      OBVIOUS
    <3>1. CASE i = 1
      BY <1>1, <2>1, <2>2, <3>1
    <3>2. CASE i # 1
      <4>1. i - 1 \in 1..Len(Tail(b)) /\ (h \o Tail(b))[i] = Tail(b)[i - 1]
        BY <1>1, <2>1, <2>2, <3>2
      <4>2. Tail(b)[i - 1] = b[(i - 1) + 1] /\ (i - 1) + 1 = i
        BY <1>1, <4>1
      <4> QED
        BY <4>1, <4>2
    <3> QED
      BY <3>1, <3>2
  <2> QED
    BY <2>1, <2>3, <2>4, SeqEqual
<1>4. w \o h \o Tail(b) = w \o (h \o Tail(b))
  BY <1>1, <1>2, ConcatAssociative
<1>5. w \o <<>> = w
  BY ConcatEmptySeq
<1> QED
  BY <1>3, <1>4, <1>5

LEMMA FlowAppended ==
    ASSUME NEW w \in Seq(Event), NEW h \in Seq(Event), NEW b \in Seq(Event), NEW e \in Event
    PROVE  w \o h \o Append(b, e) = Append(w \o h \o b, e)
<1> DEFINE u == w \o h
<1>1. u \in Seq(Event) /\ <<e>> \in Seq(Event)
  BY ConcatProperties
<1> HIDE DEF u
<1>2. u \o b \in Seq(Event)
  BY <1>1, ConcatProperties
<1>3. Append(b, e) = b \o <<e>> /\ Append(u \o b, e) = (u \o b) \o <<e>>
  BY <1>2, AppendIsConcat
<1>4. (u \o b) \o <<e>> = u \o (b \o <<e>>)
  BY <1>1, ConcatAssociative
<1> QED
  BY <1>3, <1>4 DEF u

LEMMA FlowRead ==
    ASSUME NEW w \in Seq(Event), NEW e \in Event
    PROVE  w \o <<e>> \o <<>> = Append(w \o <<>> \o <<>>, e)
<1>1. w \o <<>> = w /\ <<e>> \in Seq(Event)
  BY ConcatEmptySeq
<1>2. w \o <<e>> \in Seq(Event)
  BY <1>1, ConcatProperties
<1> QED
  BY <1>1, <1>2, ConcatEmptySeq, AppendIsConcat

LEMMA FlowShown ==
    ASSUME NEW w \in Seq(Event), NEW h \in Seq(Event), NEW b \in Seq(Event), w # <<>>
    PROVE  /\ Tail(w) \o h \o b = Tail(w \o h \o b)
           /\ Head(w \o h \o b) = Head(w)
           /\ w \o h \o b # <<>>
<1> DEFINE u == h \o b
           s == w \o u
<1>1. u \in Seq(Event) /\ w \o h \o b = s
  <2>1. (w \o h) \o b = w \o (h \o b)
    BY ConcatAssociative
  <2> QED
    BY <2>1, ConcatProperties
<1>2. /\ Tail(w) \in Seq(Event) /\ Len(Tail(w)) = Len(w) - 1
      /\ \A i \in 1..Len(Tail(w)) : Tail(w)[i] = w[i + 1]
      /\ Len(w) \in Nat \ {0}
  BY HeadTailProperties, EmptySeq
<1>3. Tail(w) \o h \o b = Tail(w) \o u
  BY <1>2, ConcatAssociative
<1> HIDE DEF u
<1>4. /\ s \in Seq(Event) /\ Len(s) = Len(w) + Len(u) /\ Len(u) \in Nat
      /\ \A i \in 1..(Len(w) + Len(u)) : s[i] = IF i <= Len(w) THEN w[i] ELSE u[i - Len(w)]
  BY <1>1, ConcatProperties, LenProperties
<1>5. /\ Tail(w) \o u \in Seq(Event) /\ Len(Tail(w) \o u) = Len(Tail(w)) + Len(u)
      /\ \A i \in 1..(Len(Tail(w)) + Len(u)) :
           (Tail(w) \o u)[i] = IF i <= Len(Tail(w)) THEN Tail(w)[i] ELSE u[i - Len(Tail(w))]
  BY <1>1, <1>2, ConcatProperties
<1> HIDE DEF s
<1>6. s # <<>>
  BY <1>2, <1>4, EmptySeq
<1>7. /\ Tail(s) \in Seq(Event) /\ Len(Tail(s)) = Len(s) - 1
      /\ \A i \in 1..Len(Tail(s)) : Tail(s)[i] = s[i + 1]
  BY <1>4, <1>6, HeadTailProperties
<1>8. Tail(w) \o u = Tail(s)
  <2>1. Len(Tail(w) \o u) = Len(Tail(s))
    BY <1>2, <1>4, <1>5, <1>7
  <2>2. ASSUME NEW i \in 1..Len(Tail(w) \o u) PROVE (Tail(w) \o u)[i] = Tail(s)[i]
    <3>1. i \in Nat /\ i >= 1 /\ i <= Len(w) + Len(u) - 1 /\ i + 1 \in 1..(Len(w) + Len(u))
      BY <1>2, <1>4, <1>5
    <3>2. CASE i <= Len(Tail(w))
      BY <1>2, <1>4, <1>5, <1>7, <3>1, <3>2, <2>1
    <3>3. CASE ~(i <= Len(Tail(w)))
      <4>1. (Tail(w) \o u)[i] = u[i - Len(Tail(w))]
        BY <1>5, <3>3
      <4>2. Tail(s)[i] = u[i + 1 - Len(w)]
        BY <1>2, <1>4, <1>7, <3>1, <3>3, <2>1
      <4>3. i + 1 - Len(w) = i - Len(Tail(w))
        BY <1>2, <3>1
      <4> QED
        BY <4>1, <4>2, <4>3
    <3> QED
      BY <3>2, <3>3
  <2> QED
    BY <1>5, <1>7, <2>1, <2>2, SeqEqual
<1>9. Head(s) = Head(w)
  BY <1>2, <1>4, <1>6
<1> QED
  BY <1>1, <1>3, <1>6, <1>8, <1>9

LEMMA FlowPrefix ==
    ASSUME NEW w \in Seq(Event), NEW h \in Seq(Event), NEW b \in Seq(Event)
    PROVE  w \o h \o b \in Seq(Event) /\ Part(w, w \o h \o b)
<1>1. h \o b \in Seq(Event)
  BY ConcatProperties
<1>2. w \o h \o b = w \o (h \o b)
  BY ConcatAssociative
<1>3. w \o (h \o b) \in Seq(Event)
  BY <1>1, ConcatProperties
<1>4. Part(w, w \o (h \o b))
  BY <1>1, PartPrefix
<1> QED
  BY <1>2, <1>3, <1>4

-----------------------------------------------------------------------------
(* The invariant.                                                          *)

\* TypeOK in two parts: the sequences, and all else.
Channels ==
    /\ buf \in [Conn -> Seq(Event)] /\ held \in [Conn -> Seq(Event)] /\ wire \in [Conn -> Seq(Event)]
    /\ \A c \in Conn : Len(buf[c]) <= Buffer /\ Len(wire[c]) <= Wire /\ Len(held[c]) <= 1
Fields ==
    /\ ver \in [Topic -> Nat \ {0}]
    /\ pub \in [Publisher -> [pc : {"idle", "changed", "read"},
                              topic : Topic \cup {None}, ver : Nat]]
    /\ subs \subseteq Conn /\ tracked \subseteq Conn
    /\ missed \in [Conn -> SUBSET Locked]
    /\ handler \in [Conn -> [pc : {"none", "track", "snapshot", "write", "subscribe", "loop",
                                   "cancel", "untrack"}, next : 1..(Len(Order) + 1)]]
    /\ link \in [Conn -> {"dialing", "up", "down"}]
    /\ page \in [Page -> [state : {"new", "connecting", "open", "closed"},
                          socket : Conn \cup {None}, timer : BOOLEAN, manuallyClosed : BOOLEAN]]
    /\ shown \in [Page -> [Topic -> Nat]]
    /\ faults \in 0..MaxFaults

\* A publisher works on a topic of the orchestrator, and has read a state it was in.
PublisherOK(g) ==
    /\ pub[g].pc # "idle" => pub[g].topic \in Topic \ Locked
    /\ pub[g].pc = "read" => pub[g].ver \in 1..ver[pub[g].topic]

\* Where a handler stands tells what it holds, whether it is subscribed, which
\* topics it has read and whether its connection lasts.
HandlerOK(c) ==
    /\ handler[c].pc # "write" => held[c] = <<>>
    /\ c \notin subs => buf[c] = <<>>
    /\ c \in subs => handler[c].pc \in {"write", "loop", "cancel"} /\ handler[c].next = Len(Order) + 1
    /\ handler[c].pc \in {"loop", "cancel"} => c \in subs
    /\ handler[c].pc \in {"none", "track"} => handler[c].next = 1
    /\ handler[c].pc = "snapshot" => handler[c].next <= Len(Order)
    /\ handler[c].pc = "subscribe" => handler[c].next = Len(Order) + 1
    /\ handler[c].pc \in {"cancel", "untrack"} => link[c] = "down"
    /\ handler[c].pc = "none" => link[c] # "up"
    /\ handler[c].pc # "none" => link[c] # "dialing"

\* No two pages share a connection, one waiting for its timer has none, and a
\* connection with no page is down and empty.
PagesOK ==
    /\ \A p, q \in Page : p # q /\ page[p].socket # None => page[p].socket # page[q].socket
    /\ \A p \in Page : page[p].state \in {"connecting", "open"} => page[p].socket # None
    /\ \A p \in Page : page[p].timer => page[p].socket = None
    /\ \A c \in Conn : link[c] # "down" \/ wire[c] # <<>> => \E p \in Page : page[p].socket = c

Control == Fields /\ (\A g \in Publisher : PublisherOK(g)) /\ (\A c \in Conn : HandlerOK(c)) /\ PagesOK

Frames == [pc : {"idle", "changed", "read"}, topic : Topic \cup {None}, ver : Nat]

LEMMA TypeOKParts == TypeOK <=> Channels /\ Fields
BY DEF TypeOK, Channels, Fields

LEMMA EventIsEvent == ASSUME NEW t \in Topic, NEW v \in Nat \ {0} PROVE [topic |-> t, ver |-> v] \in Event
BY DEF Event

-----------------------------------------------------------------------------
(* The steps of the publishers and the hub.                                *)

\* Publish appends the event where there is room for it and passes the others by.
LEMMA Delivered ==
    ASSUME Channels, Fields, NEW e \in Event, Deliver(e)
    PROVE  /\ buf' \in [Conn -> Seq(Event)] /\ missed' \in [Conn -> SUBSET Locked]
           /\ \A c \in Conn :
                /\ Len(buf'[c]) <= Buffer
                /\ \/ /\ c \in subs /\ buf'[c] = Append(buf[c], e)
                      /\ missed'[c] = missed[c] \ {e.topic}
                   \/ /\ buf'[c] = buf[c]
                      /\ missed'[c] = IF e.topic \in Locked /\ Serving(c)
                                      THEN missed[c] \cup {e.topic} ELSE missed[c] \ {e.topic}
<1>1. /\ buf' = [c \in Conn |-> IF c \in subs /\ Len(buf[c]) < Buffer
                                THEN Append(buf[c], e) ELSE buf[c]]
      /\ missed' = [c \in Conn |-> IF e.topic \in Locked /\ Serving(c) /\ ~(c \in subs /\ Len(buf[c]) < Buffer)
                                   THEN missed[c] \cup {e.topic} ELSE missed[c] \ {e.topic}]
  BY DEF Deliver
<1>2. \A c \in Conn : /\ buf[c] \in Seq(Event) /\ Len(buf[c]) \in Nat /\ Len(buf[c]) <= Buffer
                      /\ Append(buf[c], e) \in Seq(Event) /\ Len(Append(buf[c], e)) = Len(buf[c]) + 1
  BY AppendProperties, LenProperties DEF Channels
<1>3. Buffer \in Nat /\ Locked \subseteq Topic /\ missed \in [Conn -> SUBSET Locked]
  BY FeedAssumption DEF FeedAssumption, Fields
<1>4. buf' \in [Conn -> Seq(Event)]
  BY <1>1, <1>2
<1>5. missed' \in [Conn -> SUBSET Locked]
  BY <1>1, <1>3
<1>6. ASSUME NEW c \in Conn PROVE Len(buf'[c]) <= Buffer
  BY <1>1, <1>2, <1>3
<1>7. ASSUME NEW c \in Conn
      PROVE  \/ /\ c \in subs /\ buf'[c] = Append(buf[c], e)
                /\ missed'[c] = missed[c] \ {e.topic}
             \/ /\ buf'[c] = buf[c]
                /\ missed'[c] = IF e.topic \in Locked /\ Serving(c)
                                THEN missed[c] \cup {e.topic} ELSE missed[c] \ {e.topic}
  BY <1>1
<1> QED
  BY <1>4, <1>5, <1>6, <1>7

\* What a publisher holds is an event.
LEMMA ReadIsEvent ==
    ASSUME Control, NEW g \in Publisher, pub[g].pc = "read"
    PROVE  /\ [topic |-> pub[g].topic, ver |-> pub[g].ver] \in Event
           /\ pub[g].topic \in Topic \ Locked /\ pub[g].ver <= ver[pub[g].topic]
BY DEF Control, Fields, PublisherOK, Event

LEMMA ChangesControl ==
    ASSUME Channels, Control, Changes
    PROVE  Channels' /\ Control'
<1>1. ASSUME NEW g \in Publisher, NEW t \in Topic, Change(g, t) PROVE Channels' /\ Control'
  <2> DEFINE f == [Idle EXCEPT !.pc = "changed", !.topic = t]
  <2>1. Channels'
    BY <1>1 DEF Change, Channels, hdlVars, netVars
  <2>2. pub' = [pub EXCEPT ![g] = f] /\ t \in Topic \ Locked
    BY <1>1 DEF Change
  <2>3. f \in Frames /\ f.pc = "changed" /\ f.topic = t
    BY DEF Idle, Frames
  <2> HIDE DEF f
  <2>4. pub' \in [Publisher -> Frames] /\ pub'[g] = f
        /\ \A h \in Publisher \ {g} : pub'[h] = pub[h]
    BY <2>2, <2>3 DEF Control, Fields, Frames
  <2>5. /\ ver' \in [Topic -> Nat \ {0}]
        /\ \A u \in Topic : ver[u] \in Nat /\ ver'[u] \in Nat /\ ver[u] <= ver'[u]
    BY <1>1 DEF Change, Control, Fields
  <2>6. Fields'
    BY <1>1, <2>4, <2>5 DEF Change, Fields, Control, Frames, hdlVars, netVars, pageVars
  <2>7. \A h \in Publisher : PublisherOK(h)'
    <3>1. \A h \in Publisher \ {g} : PublisherOK(h)'
      BY <2>4, <2>5 DEF Control, PublisherOK, Fields
    <3>2. PublisherOK(g)'
      BY <2>2, <2>3, <2>4 DEF PublisherOK
    <3> QED
      BY <3>1, <3>2
  <2>8. PagesOK' /\ \A c \in Conn : HandlerOK(c)'
    BY <1>1 DEF Change, Control, PagesOK, HandlerOK, hdlVars, netVars, pageVars
  <2> QED
    BY <2>1, <2>6, <2>7, <2>8 DEF Control
<1>2. ASSUME NEW g \in Publisher, ReadState(g) PROVE Channels' /\ Control'
  <2> DEFINE f == [pub[g] EXCEPT !.pc = "read", !.ver = ver[pub[g].topic]]
  <2>1. Channels'
    BY <1>2 DEF ReadState, Channels, hdlVars, netVars
  <2>2. pub[g].topic \in Topic \ Locked /\ ver[pub[g].topic] \in Nat \ {0} /\ pub[g] \in Frames
    BY <1>2 DEF ReadState, Control, PublisherOK, Fields, Frames
  <2>3. f \in Frames /\ f.pc = "read" /\ f.topic = pub[g].topic /\ f.ver = ver[pub[g].topic]
    BY <2>2 DEF Frames
  <2>4. pub' = [pub EXCEPT ![g] = f]
    BY <1>2 DEF ReadState
  <2> HIDE DEF f
  <2>5. pub' \in [Publisher -> Frames] /\ pub'[g] = f
        /\ \A h \in Publisher \ {g} : pub'[h] = pub[h]
    BY <2>3, <2>4 DEF Control, Fields, Frames
  <2>6. Fields'
    BY <1>2, <2>5 DEF ReadState, Fields, Control, Frames, hdlVars, netVars, pageVars
  <2>7. \A h \in Publisher : PublisherOK(h)'
    <3>1. ver' = ver
      BY <1>2 DEF ReadState
    <3>2. \A h \in Publisher \ {g} : PublisherOK(h)'
      BY <2>5, <3>1 DEF Control, PublisherOK
    <3>3. PublisherOK(g)'
      BY <2>2, <2>3, <2>5, <3>1 DEF PublisherOK
    <3> QED
      BY <3>2, <3>3
  <2>8. PagesOK' /\ \A c \in Conn : HandlerOK(c)'
    BY <1>2 DEF ReadState, Control, PagesOK, HandlerOK, hdlVars, netVars, pageVars
  <2> QED
    BY <2>1, <2>6, <2>7, <2>8 DEF Control
<1>3. ASSUME NEW g \in Publisher, Publish(g) PROVE Channels' /\ Control'
  <2> DEFINE e == [topic |-> pub[g].topic, ver |-> pub[g].ver]
  <2>1. e \in Event /\ Deliver(e)
    BY <1>3, ReadIsEvent DEF Publish
  <2> HIDE DEF e
  <2>2. /\ buf' \in [Conn -> Seq(Event)] /\ missed' \in [Conn -> SUBSET Locked]
        /\ \A c \in Conn : Len(buf'[c]) <= Buffer /\ (c \notin subs => buf'[c] = buf[c])
    BY <2>1, Delivered DEF Control
  <2>3. Channels'
    BY <1>3, <2>2 DEF Publish, Channels, hdlVars, netVars
  <2>4. Fields'
    BY <1>3, <2>2 DEF Publish, Fields, Control, Idle, hdlVars, netVars, pageVars
  <2>5. \A h \in Publisher : PublisherOK(h)'
    BY <1>3 DEF Publish, Control, PublisherOK, Fields, Idle
  <2>6. PagesOK' /\ \A c \in Conn : HandlerOK(c)'
    BY <1>3, <2>2 DEF Publish, Control, PagesOK, HandlerOK, hdlVars, netVars, pageVars
  <2> QED
    BY <2>3, <2>4, <2>5, <2>6 DEF Control
<1> QED
  BY <1>1, <1>2, <1>3 DEF Changes

LEMMA LockedControl ==
    ASSUME Channels, Control, NEW t \in Topic, ChangeLocked(t) \/ ChangeQuietly(t)
    PROVE  Channels' /\ Control'
<1>1. /\ ver' = [ver EXCEPT ![t] = @ + 1] /\ t \in Locked
      /\ UNCHANGED <<pub, subs, tracked, hdlVars, netVars, pageVars, faults>>
  BY DEF ChangeLocked, ChangeQuietly
<1>2. /\ buf' \in [Conn -> Seq(Event)] /\ missed' \in [Conn -> SUBSET Locked]
      /\ \A c \in Conn : Len(buf'[c]) <= Buffer /\ (c \notin subs => buf'[c] = buf[c])
  <2>1. CASE ChangeLocked(t)
    <3> DEFINE e == [topic |-> t, ver |-> ver[t] + 1]
    <3>1. e \in Event
      BY EventIsEvent DEF Control, Fields
    <3>2. Deliver(e)
      BY <2>1 DEF ChangeLocked
    <3> HIDE DEF e
    <3> QED
      BY <3>1, <3>2, Delivered DEF Control
  <2>2. CASE ChangeQuietly(t)
    <3>1. buf' = buf /\ missed' \in [Conn -> SUBSET Locked]
      BY <1>1, <2>2 DEF ChangeQuietly, Control, Fields
    <3> QED
      BY <3>1 DEF Channels
  <2> QED
    BY <2>1, <2>2
<1>3. Channels'
  BY <1>1, <1>2 DEF Channels, hdlVars, netVars
<1>4. Fields'
  BY <1>1, <1>2 DEF Fields, Control, hdlVars, netVars, pageVars
<1>5. \A h \in Publisher : PublisherOK(h)'
  BY <1>1 DEF Control, PublisherOK, Fields
<1>6. PagesOK' /\ \A c \in Conn : HandlerOK(c)'
  BY <1>1, <1>2 DEF Control, PagesOK, HandlerOK, hdlVars, netVars, pageVars
<1> QED
  BY <1>3, <1>4, <1>5, <1>6 DEF Control

-----------------------------------------------------------------------------
(* The steps of a handler.                                                 *)

HandlerLabels == {"none", "track", "snapshot", "write", "subscribe", "loop", "cancel", "untrack"}
HandlerFrames == [pc : {"none", "track", "snapshot", "write", "subscribe", "loop", "cancel", "untrack"},
                  next : 1..(Len(Order) + 1)]

\* A step of one handler touches its own connection only: the frame becomes f, the
\* message it holds h, its channel b, the connection w and n, what it missed m.
Moves(c, f, h, b, w, n, m) ==
    /\ handler' = [handler EXCEPT ![c] = f]
    /\ held' = [held EXCEPT ![c] = h]
    /\ buf' = [buf EXCEPT ![c] = b]
    /\ wire' = [wire EXCEPT ![c] = w]
    /\ link' = [link EXCEPT ![c] = n]
    /\ missed' = [missed EXCEPT ![c] = m]
    /\ subs' \subseteq Conn /\ \A d \in Conn \ {c} : d \in subs' <=> d \in subs
    /\ tracked' \subseteq Conn
    /\ UNCHANGED <<ver, pub, page, shown, faults>>

Capacities(h, b, w) == Len(h) <= 1 /\ Len(b) <= Buffer /\ Len(w) <= Wire

LEMMA HandlerControl ==
    ASSUME Channels, Control, NEW c \in Conn,
           NEW f \in HandlerFrames, NEW h \in Seq(Event), NEW b \in Seq(Event), NEW w \in Seq(Event),
           NEW n \in {"up", "down", "dialing"}, NEW m \in SUBSET Locked,
           Moves(c, f, h, b, w, n, m), Capacities(h, b, w),
           n # "down" \/ w # <<>> => link[c] # "down" \/ wire[c] # <<>>,
           HandlerOK(c)'
    PROVE  Channels' /\ Control'
<1> USE DEF Moves
<1>1. /\ buf' \in [Conn -> Seq(Event)] /\ held' \in [Conn -> Seq(Event)]
      /\ wire' \in [Conn -> Seq(Event)]
      /\ buf'[c] = b /\ held'[c] = h /\ wire'[c] = w
      /\ \A d \in Conn \ {c} : buf'[d] = buf[d] /\ held'[d] = held[d] /\ wire'[d] = wire[d]
  BY DEF Channels
<1>2. Channels'
  BY <1>1 DEF Channels, Capacities
<1>3. Fields'
  BY DEF Control, Fields, HandlerFrames
<1>4. \A d \in Conn \ {c} : HandlerOK(d)'
  BY <1>1 DEF Control, Fields, HandlerOK
<1>5. PagesOK'
  <2>1. \A d \in Conn : link'[d] # "down" \/ wire'[d] # <<>> => link[d] # "down" \/ wire[d] # <<>>
    BY <1>1 DEF Control, Fields
  <2> QED
    BY <2>1 DEF Control, PagesOK
<1>6. \A g \in Publisher : PublisherOK(g)'
  BY DEF Control, PublisherOK
<1> QED
  BY <1>2, <1>3, <1>4, <1>5, <1>6 DEF Control

\* A frame that goes to another label.
LEMMA FrameAt ==
    ASSUME Control, NEW c \in Conn,
           NEW l \in HandlerLabels
    PROVE  /\ [handler[c] EXCEPT !.pc = l] \in HandlerFrames
           /\ [handler[c] EXCEPT !.pc = l].pc = l
           /\ [handler[c] EXCEPT !.pc = l].next = handler[c].next
BY DEF Control, Fields, HandlerFrames, HandlerLabels

\* Connection c before a step of its handler.
LEMMA HandlerTypes ==
    ASSUME Control, NEW c \in Conn
    PROVE  /\ handler \in [Conn -> HandlerFrames] /\ HandlerOK(c)
           /\ link[c] \in {"up", "down", "dialing"} /\ link = [link EXCEPT ![c] = link[c]]
           /\ missed[c] \in SUBSET Locked /\ missed = [missed EXCEPT ![c] = missed[c]]
           /\ subs \subseteq Conn /\ tracked \subseteq Conn
           /\ DOMAIN link = Conn
BY DEF Control, Fields, HandlerFrames

LEMMA ChannelTypes ==
    ASSUME Channels, NEW c \in Conn
    PROVE  /\ held[c] \in Seq(Event) /\ held = [held EXCEPT ![c] = held[c]]
           /\ buf[c] \in Seq(Event) /\ buf = [buf EXCEPT ![c] = buf[c]]
           /\ wire[c] \in Seq(Event) /\ wire = [wire EXCEPT ![c] = wire[c]]
           /\ Capacities(held[c], buf[c], wire[c])
           /\ DOMAIN held = Conn /\ DOMAIN buf = Conn /\ DOMAIN wire = Conn
BY DEF Channels, Capacities

LEMMA Bounds ==
    /\ Len(Order) \in Nat \ {0} /\ Buffer \in Nat \ {0} /\ Wire \in Nat \ {0}
    /\ <<>> \in Seq(Event) /\ Len(<<>>) = 0
<1>1. Len(Order) \in Nat \ {0}
  BY FeedAssumption, EmptySeq DEF FeedAssumption
<1>2. <<>> \in Seq(Event) /\ Len(<<>>) = 0
  BY EmptySeq
<1> QED
  BY <1>1, <1>2, FeedAssumption DEF FeedAssumption

LEMMA OneMore ==
    ASSUME NEW w \in Seq(Event), NEW h \in Seq(Event), Len(w) < Wire, Len(h) <= 1
    PROVE  w \o h \in Seq(Event) /\ Len(w \o h) <= Wire
<1>1. w \o h \in Seq(Event) /\ Len(w \o h) = Len(w) + Len(h)
  BY ConcatProperties
<1>2. Len(w) \in Nat /\ Len(h) \in Nat /\ Wire \in Nat
  BY LenProperties, Bounds
<1> QED
  BY <1>1, <1>2

LEMMA NothingHeld ==
    ASSUME NEW b, NEW w, Len(b) <= Buffer, Len(w) <= Wire
    PROVE  Capacities(<<>>, b, w)
BY Bounds DEF Capacities

LEMMA AcceptControl ==
    ASSUME Channels, Control, NEW c \in Conn, Accept(c)
    PROVE  Channels' /\ Control'
<1>0. /\ held[c] \in Seq(Event) /\ buf[c] \in Seq(Event) /\ wire[c] \in Seq(Event)
      /\ Capacities(held[c], buf[c], wire[c])
      /\ link[c] \in {"up", "down", "dialing"} /\ missed[c] \in SUBSET Locked
      /\ <<>> \in Seq(Event) /\ {} \in SUBSET Locked
  BY HandlerTypes, ChannelTypes, Bounds
<1> DEFINE f == [handler[c] EXCEPT !.pc = "track"]
<1>1. /\ handler' = [handler EXCEPT ![c] = f] /\ link' = [link EXCEPT ![c] = "up"]
      /\ link[c] = "dialing" /\ handler[c].pc = "none"
      /\ UNCHANGED <<srvVars, held, wire, pageVars, faults>>
  BY DEF Accept, Goto, At
<1>2. f \in HandlerFrames /\ f.pc = "track" /\ f.next = handler[c].next
  BY FrameAt DEF HandlerLabels
<1> HIDE DEF f
<1>3. Moves(c, f, held[c], buf[c], wire[c], "up", missed[c])
  BY <1>1, HandlerTypes, ChannelTypes DEF Moves, srvVars, pageVars
<1>4. HandlerOK(c)'
  BY <1>1, <1>2, HandlerTypes DEF HandlerOK, srvVars
<1> QED
  BY <1>0, <1>1, <1>2, <1>3, <1>4, HandlerControl

LEMMA TrackControl ==
    ASSUME Channels, Control, NEW c \in Conn, Track(c)
    PROVE  Channels' /\ Control'
<1>0. /\ held[c] \in Seq(Event) /\ buf[c] \in Seq(Event) /\ wire[c] \in Seq(Event)
      /\ Capacities(held[c], buf[c], wire[c])
      /\ link[c] \in {"up", "down", "dialing"} /\ missed[c] \in SUBSET Locked
      /\ <<>> \in Seq(Event) /\ {} \in SUBSET Locked
  BY HandlerTypes, ChannelTypes, Bounds
<1> DEFINE f == [handler[c] EXCEPT !.pc = "snapshot"]
<1>1. /\ handler' = [handler EXCEPT ![c] = f] /\ handler[c].pc = "track"
      /\ tracked' = tracked \cup {c}
      /\ UNCHANGED <<ver, pub, subs, buf, missed, held, netVars, pageVars, faults>>
  BY DEF Track, Goto, At
<1>2. f \in HandlerFrames /\ f.pc = "snapshot" /\ f.next = handler[c].next
  BY FrameAt DEF HandlerLabels
<1> HIDE DEF f
<1>3. Moves(c, f, held[c], buf[c], wire[c], link[c], missed[c])
  BY <1>1, HandlerTypes, ChannelTypes DEF Moves, netVars, pageVars
<1>4. HandlerOK(c)'
  BY <1>1, <1>2, HandlerTypes, Bounds DEF HandlerOK, netVars
<1> QED
  BY <1>0, <1>2, <1>3, <1>4, HandlerControl

\* The state a handler reads is an event.
LEMMA SnapshotIsEvent ==
    ASSUME Control, NEW c \in Conn, handler[c].pc = "snapshot"
    PROVE  /\ handler[c].next \in 1..Len(Order) /\ Order[handler[c].next] \in Topic
           /\ [topic |-> Order[handler[c].next], ver |-> ver[Order[handler[c].next]]] \in Event
<1>1. handler[c].next \in 1..Len(Order)
  BY Bounds DEF Control, Fields, HandlerOK
<1>2. Order[handler[c].next] \in Topic
  BY <1>1, FeedAssumption, ElementOfSeq DEF FeedAssumption
<1> QED
  BY <1>1, <1>2, EventIsEvent DEF Control, Fields

LEMMA ReadSnapshotControl ==
    ASSUME Channels, Control, NEW c \in Conn, ReadSnapshot(c)
    PROVE  Channels' /\ Control'
<1>0. /\ held[c] \in Seq(Event) /\ buf[c] \in Seq(Event) /\ wire[c] \in Seq(Event)
      /\ Capacities(held[c], buf[c], wire[c])
      /\ link[c] \in {"up", "down", "dialing"} /\ missed[c] \in SUBSET Locked
      /\ <<>> \in Seq(Event) /\ {} \in SUBSET Locked
  BY HandlerTypes, ChannelTypes, Bounds
<1> DEFINE f == [pc |-> "write", next |-> handler[c].next + 1]
           e == [topic |-> Order[handler[c].next], ver |-> ver[Order[handler[c].next]]]
           m == missed[c] \ {Order[handler[c].next]}
<1>1. /\ handler' = [handler EXCEPT ![c] = f] /\ handler[c].pc = "snapshot"
      /\ held' = [held EXCEPT ![c] = <<e>>]
      /\ missed' = [missed EXCEPT ![c] = m]
      /\ UNCHANGED <<ver, pub, subs, buf, tracked, netVars, pageVars, faults>>
  BY HandlerTypes DEF ReadSnapshot, At
<1>2. f \in HandlerFrames /\ f.pc = "write"
  <2>1. handler[c].next \in 1..Len(Order) /\ Len(Order) \in Nat
    BY <1>1, SnapshotIsEvent, Bounds
  <2> HIDE DEF e, m
  <2> QED
    BY <2>1 DEF HandlerFrames
<1>3. e \in Event /\ m \in SUBSET Locked
  BY <1>1, SnapshotIsEvent, HandlerTypes
<1> HIDE DEF f, e, m
<1>4. <<e>> \in Seq(Event) /\ Len(<<e>>) = 1
  BY <1>3
<1>5. Moves(c, f, <<e>>, buf[c], wire[c], link[c], m)
  BY <1>1, HandlerTypes, ChannelTypes DEF Moves, netVars, pageVars
<1>6. HandlerOK(c)'
  BY <1>1, <1>2, HandlerTypes DEF HandlerOK, netVars
<1>7. Capacities(<<e>>, buf[c], wire[c])
  BY <1>4, ChannelTypes DEF Capacities
<1> QED
  BY <1>0, <1>2, <1>3, <1>4, <1>5, <1>6, <1>7, HandlerControl

LEMMA WriteControl ==
    ASSUME Channels, Control, NEW c \in Conn, Write(c)
    PROVE  Channels' /\ Control'
<1>0. /\ held[c] \in Seq(Event) /\ buf[c] \in Seq(Event) /\ wire[c] \in Seq(Event)
      /\ Capacities(held[c], buf[c], wire[c])
      /\ link[c] \in {"up", "down", "dialing"} /\ missed[c] \in SUBSET Locked
      /\ <<>> \in Seq(Event) /\ {} \in SUBSET Locked
  BY HandlerTypes, ChannelTypes, Bounds
<1> DEFINE l == IF c \in subs THEN "loop"
                ELSE IF handler[c].next > Len(Order) THEN "subscribe" ELSE "snapshot"
           f == [handler[c] EXCEPT !.pc = l]
           w == IF link[c] = "up" THEN wire[c] \o held[c] ELSE wire[c]
<1>1. /\ handler' = [handler EXCEPT ![c] = f] /\ handler[c].pc = "write"
      /\ held' = [held EXCEPT ![c] = <<>>]
      /\ UNCHANGED <<srvVars, link, pageVars, faults>>
  BY DEF Write, Goto, At
<1>2. wire' = [wire EXCEPT ![c] = w] /\ (link[c] = "up" => Len(wire[c]) < Wire)
  BY ChannelTypes DEF Write
<1>3. f \in HandlerFrames /\ f.pc = l /\ f.next = handler[c].next
  <2>1. l \in HandlerLabels
    BY DEF HandlerLabels
  <2> HIDE DEF l, w
  <2> QED
    BY <2>1, FrameAt
<1>4. w \in Seq(Event) /\ Capacities(<<>>, buf[c], w)
  <2>1. CASE link[c] = "up"
    <3>1. Len(wire[c]) < Wire /\ Len(held[c]) <= 1 /\ Len(buf[c]) <= Buffer
      BY <1>0, <1>2, <2>1 DEF Capacities
    <3>2. wire[c] \o held[c] \in Seq(Event) /\ Len(wire[c] \o held[c]) <= Wire
      BY <1>0, <3>1, OneMore
    <3>3. w = wire[c] \o held[c]
      BY <2>1
    <3> HIDE DEF w
    <3> QED
      BY <3>1, <3>2, <3>3, NothingHeld
  <2>2. CASE link[c] # "up"
    <3>1. w = wire[c] /\ Len(<<>>) = 0
      BY <2>2, Bounds
    <3> HIDE DEF w
    <3> QED
      BY <1>0, <3>1 DEF Capacities
  <2> QED
    BY <2>1, <2>2
<1>5. HandlerOK(c)'
  <2>1. handler'[c] = f /\ held'[c] = <<>> /\ link' = link /\ subs' = subs /\ buf' = buf
    BY <1>1, HandlerTypes, ChannelTypes DEF srvVars
  <2> HIDE DEF f, w
  <2>2. handler[c].next \in 1..(Len(Order) + 1)
    BY HandlerTypes DEF HandlerFrames
  <2> QED
    BY <1>1, <1>3, <2>1, <2>2, HandlerTypes, Bounds DEF HandlerOK
<1> HIDE DEF f, l
<1>6. Moves(c, f, <<>>, buf[c], w, link[c], missed[c])
  <2> HIDE DEF w
  <2> QED
    BY <1>1, <1>2, HandlerTypes, ChannelTypes DEF Moves, srvVars, pageVars
<1>7. w # <<>> => link[c] # "down" \/ wire[c] # <<>>
  BY <1>1
<1> HIDE DEF w
<1> QED
  BY <1>0, <1>3, <1>4, <1>5, <1>6, <1>7, HandlerControl

LEMMA SubscribeControl ==
    ASSUME Channels, Control, NEW c \in Conn, Subscribe(c)
    PROVE  Channels' /\ Control'
<1>0. /\ held[c] \in Seq(Event) /\ buf[c] \in Seq(Event) /\ wire[c] \in Seq(Event)
      /\ Capacities(held[c], buf[c], wire[c])
      /\ link[c] \in {"up", "down", "dialing"} /\ missed[c] \in SUBSET Locked
      /\ <<>> \in Seq(Event) /\ {} \in SUBSET Locked
  BY HandlerTypes, ChannelTypes, Bounds
<1> DEFINE f == [handler[c] EXCEPT !.pc = "loop"]
<1>1. /\ handler' = [handler EXCEPT ![c] = f] /\ handler[c].pc = "subscribe"
      /\ subs' = subs \cup {c} /\ buf' = [buf EXCEPT ![c] = <<>>]
      /\ UNCHANGED <<ver, pub, missed, tracked, held, netVars, pageVars, faults>>
  BY DEF Subscribe, Goto, At
<1>2. f \in HandlerFrames /\ f.pc = "loop" /\ f.next = handler[c].next
  BY FrameAt DEF HandlerLabels
<1> HIDE DEF f
<1>3. Moves(c, f, held[c], <<>>, wire[c], link[c], missed[c])
  BY <1>1, HandlerTypes, ChannelTypes DEF Moves, netVars, pageVars
<1>4. HandlerOK(c)'
  BY <1>1, <1>2, HandlerTypes DEF HandlerOK, netVars
<1>5. Capacities(held[c], <<>>, wire[c])
  BY ChannelTypes, Bounds DEF Capacities
<1> QED
  BY <1>0, <1>2, <1>3, <1>4, <1>5, HandlerControl

LEMMA TakeControl ==
    ASSUME Channels, Control, NEW c \in Conn, Take(c)
    PROVE  Channels' /\ Control'
<1>0. /\ held[c] \in Seq(Event) /\ buf[c] \in Seq(Event) /\ wire[c] \in Seq(Event)
      /\ Capacities(held[c], buf[c], wire[c])
      /\ link[c] \in {"up", "down", "dialing"} /\ missed[c] \in SUBSET Locked
      /\ <<>> \in Seq(Event) /\ {} \in SUBSET Locked
  BY HandlerTypes, ChannelTypes, Bounds
<1> DEFINE f == [handler[c] EXCEPT !.pc = "write"]
           h == <<Head(buf[c])>>
           b == Tail(buf[c])
<1>1. /\ handler' = [handler EXCEPT ![c] = f] /\ handler[c].pc = "loop" /\ buf[c] # <<>>
      /\ held' = [held EXCEPT ![c] = h]
      /\ UNCHANGED <<ver, pub, subs, missed, tracked, netVars, pageVars, faults>>
  BY DEF Take, Goto, At
<1>a. buf' = [buf EXCEPT ![c] = b]
  BY ChannelTypes DEF Take
<1>2. f \in HandlerFrames /\ f.pc = "write" /\ f.next = handler[c].next
  BY FrameAt DEF HandlerLabels
<1>3. /\ Head(buf[c]) \in Event /\ b \in Seq(Event) /\ Len(b) = Len(buf[c]) - 1
      /\ Len(buf[c]) \in Nat
  BY <1>1, ChannelTypes, HeadTailProperties, LenProperties
<1>4. h \in Seq(Event) /\ Len(h) = 1
  BY <1>3
<1> HIDE DEF f, h, b
<1>5. HandlerOK(c)'
  BY <1>1, <1>2, HandlerTypes DEF HandlerOK, netVars
<1>6. Capacities(h, b, wire[c])
  BY <1>3, <1>4, ChannelTypes, Bounds DEF Capacities
<1>7. Moves(c, f, h, b, wire[c], link[c], missed[c])
  BY <1>1, <1>a, HandlerTypes, ChannelTypes DEF Moves, netVars, pageVars
<1> QED
  BY <1>0, <1>2, <1>3, <1>4, <1>5, <1>6, <1>7, HandlerControl

LEMMA FailControl ==
    ASSUME Channels, Control, NEW c \in Conn, Fail(c)
    PROVE  Channels' /\ Control'
<1>0. /\ held[c] \in Seq(Event) /\ buf[c] \in Seq(Event) /\ wire[c] \in Seq(Event)
      /\ Capacities(held[c], buf[c], wire[c])
      /\ link[c] \in {"up", "down", "dialing"} /\ missed[c] \in SUBSET Locked
      /\ <<>> \in Seq(Event) /\ {} \in SUBSET Locked
  BY HandlerTypes, ChannelTypes, Bounds
<1> DEFINE l == IF c \in subs THEN "cancel" ELSE "untrack"
           f == [handler[c] EXCEPT !.pc = l]
<1>1. /\ handler' = [handler EXCEPT ![c] = f] /\ link[c] = "down"
      /\ held' = [held EXCEPT ![c] = <<>>] /\ missed' = [missed EXCEPT ![c] = {}]
      /\ UNCHANGED <<ver, pub, subs, buf, tracked, netVars, pageVars, faults>>
  BY DEF Fail, Goto
<1>2. f \in HandlerFrames /\ f.pc = l /\ f.next = handler[c].next
  <2>1. l \in HandlerLabels
    BY DEF HandlerLabels
  <2> HIDE DEF l
  <2> QED
    BY <2>1, FrameAt
<1>3. HandlerOK(c)'
  <2> HIDE DEF f
  <2> QED
    BY <1>1, <1>2, HandlerTypes, ChannelTypes DEF HandlerOK, netVars
<1> HIDE DEF f, l
<1>4. Moves(c, f, <<>>, buf[c], wire[c], link[c], {})
  BY <1>1, HandlerTypes, ChannelTypes DEF Moves, netVars, pageVars
<1>5. Capacities(<<>>, buf[c], wire[c])
  BY ChannelTypes, Bounds DEF Capacities
<1> QED
  BY <1>0, <1>2, <1>3, <1>4, <1>5, HandlerControl

LEMMA CancelControl ==
    ASSUME Channels, Control, NEW c \in Conn, Cancel(c)
    PROVE  Channels' /\ Control'
<1>0. /\ held[c] \in Seq(Event) /\ buf[c] \in Seq(Event) /\ wire[c] \in Seq(Event)
      /\ Capacities(held[c], buf[c], wire[c])
      /\ link[c] \in {"up", "down", "dialing"} /\ missed[c] \in SUBSET Locked
      /\ <<>> \in Seq(Event) /\ {} \in SUBSET Locked
  BY HandlerTypes, ChannelTypes, Bounds
<1> DEFINE f == [handler[c] EXCEPT !.pc = "untrack"]
<1>1. /\ handler' = [handler EXCEPT ![c] = f] /\ handler[c].pc = "cancel"
      /\ subs' = subs \ {c} /\ buf' = [buf EXCEPT ![c] = <<>>]
      /\ UNCHANGED <<ver, pub, missed, tracked, held, netVars, pageVars, faults>>
  BY DEF Cancel, Goto, At
<1>2. f \in HandlerFrames /\ f.pc = "untrack" /\ f.next = handler[c].next
  BY FrameAt DEF HandlerLabels
<1> HIDE DEF f
<1>3. Moves(c, f, held[c], <<>>, wire[c], link[c], missed[c])
  BY <1>1, HandlerTypes, ChannelTypes DEF Moves, netVars, pageVars
<1>4. HandlerOK(c)'
  BY <1>1, <1>2, HandlerTypes, ChannelTypes DEF HandlerOK, netVars
<1>5. Capacities(held[c], <<>>, wire[c])
  BY ChannelTypes, Bounds DEF Capacities
<1> QED
  BY <1>0, <1>2, <1>3, <1>4, <1>5, HandlerControl

LEMMA UntrackControl ==
    ASSUME Channels, Control, NEW c \in Conn, Untrack(c)
    PROVE  Channels' /\ Control'
<1>0. /\ held[c] \in Seq(Event) /\ buf[c] \in Seq(Event) /\ wire[c] \in Seq(Event)
      /\ Capacities(held[c], buf[c], wire[c])
      /\ link[c] \in {"up", "down", "dialing"} /\ missed[c] \in SUBSET Locked
      /\ <<>> \in Seq(Event) /\ {} \in SUBSET Locked
  BY HandlerTypes, ChannelTypes, Bounds
<1>1. /\ handler' = [handler EXCEPT ![c] = Done] /\ handler[c].pc = "untrack"
      /\ tracked' = tracked \ {c}
      /\ UNCHANGED <<ver, pub, subs, buf, missed, held, netVars, pageVars, faults>>
  BY DEF Untrack, At
<1>2. Done \in HandlerFrames /\ Done.pc = "none" /\ Done.next = 1
  BY Bounds DEF HandlerFrames, Done
<1>3. HandlerOK(c)'
  BY <1>1, <1>2, HandlerTypes DEF HandlerOK, netVars
<1>4. Moves(c, Done, held[c], buf[c], wire[c], link[c], missed[c])
  BY <1>1, HandlerTypes, ChannelTypes DEF Moves, netVars, pageVars
<1> QED
  BY <1>0, <1>2, <1>3, <1>4, HandlerControl

LEMMA HandleControl ==
    ASSUME Channels, Control, NEW c \in Conn, Handle(c)
    PROVE  Channels' /\ Control'
BY AcceptControl, TrackControl, ReadSnapshotControl, WriteControl, SubscribeControl,
   TakeControl, FailControl, CancelControl, UntrackControl DEF Handle

-----------------------------------------------------------------------------
(* The steps of the pages, the faults and the restart.                     *)

PageFrames == [state : {"new", "connecting", "open", "closed"},
               socket : Conn \cup {None}, timer : BOOLEAN, manuallyClosed : BOOLEAN]

\* A step of a page or of the network leaves the server alone.
LEMMA OutsideControl ==
    ASSUME Channels, Control, UNCHANGED <<srvVars, hdlVars>>,
           wire' \in [Conn -> Seq(Event)], \A c \in Conn : Len(wire'[c]) <= Wire,
           link' \in [Conn -> {"dialing", "up", "down"}],
           \A c \in Conn : \/ link'[c] = link[c] \/ link'[c] = "down"
                           \/ link'[c] = "dialing" /\ handler[c].pc = "none",
           page' \in [Page -> PageFrames], shown' \in [Page -> [Topic -> Nat]],
           faults' \in 0..MaxFaults, PagesOK'
    PROVE  Channels' /\ Control'
<1> USE DEF srvVars, hdlVars
<1>1. Channels'
  BY DEF Channels
<1>2. Fields'
  BY DEF Control, Fields, PageFrames
<1>3. \A c \in Conn : HandlerOK(c)'
  BY DEF Control, HandlerOK
<1>4. \A g \in Publisher : PublisherOK(g)'
  BY DEF Control, PublisherOK
<1> QED
  BY <1>1, <1>2, <1>3, <1>4 DEF Control

LEMMA OutsideTypes ==
    ASSUME Channels, Control
    PROVE  /\ wire \in [Conn -> Seq(Event)] /\ \A c \in Conn : Len(wire[c]) <= Wire
           /\ link \in [Conn -> {"dialing", "up", "down"}]
           /\ page \in [Page -> PageFrames] /\ shown \in [Page -> [Topic -> Nat]]
           /\ faults \in 0..MaxFaults /\ MaxFaults \in Nat /\ None \notin Conn
BY FeedAssumption DEF FeedAssumption, Channels, Control, Fields, PageFrames

LEMMA DialControl ==
    ASSUME Channels, Control, NEW p \in Page, Dial(p)
    PROVE  Channels' /\ Control'
<1>1. PICK new \in Free :
        /\ page' = [page EXCEPT ![p].state = "connecting", ![p].socket = new, ![p].timer = FALSE]
        /\ link' = [link EXCEPT ![new] = "dialing"]
        /\ UNCHANGED <<srvVars, hdlVars, wire, shown, faults>>
  <2> DEFINE new == CHOOSE c \in Free : TRUE
  <2>1. new \in Free
    BY DEF Dial
  <2> QED
    BY <2>1 DEF Dial
<1>2. new \in Conn /\ handler[new].pc = "none" /\ \A q \in Page : page[q].socket # new
  BY DEF Free, At
<1> DEFINE f == [page[p] EXCEPT !.state = "connecting", !.socket = new, !.timer = FALSE]
<1>3. page' = [page EXCEPT ![p] = f]
  BY <1>1
<1>4. f \in PageFrames /\ f.socket = new /\ f.state = "connecting" /\ ~f.timer
  BY <1>2, OutsideTypes DEF PageFrames
<1> HIDE DEF f
<1>5. page' \in [Page -> PageFrames] /\ page'[p] = f /\ \A q \in Page \ {p} : page'[q] = page[q]
  BY <1>3, <1>4, OutsideTypes
<1>6. link' \in [Conn -> {"dialing", "up", "down"}] /\ link'[new] = "dialing"
      /\ \A c \in Conn \ {new} : link'[c] = link[c]
  BY <1>1, <1>2, OutsideTypes
<1>7. PagesOK'
  <2>1. \A q, r \in Page : q # r /\ page'[q].socket # None => page'[q].socket # page'[r].socket
    BY <1>2, <1>4, <1>5 DEF Control, PagesOK
  <2>2. \A q \in Page : /\ page'[q].state \in {"connecting", "open"} => page'[q].socket # None
                        /\ page'[q].timer => page'[q].socket = None
    <3>1. \A q \in Page \ {p} : /\ page'[q].state \in {"connecting", "open"} => page'[q].socket # None
                                /\ page'[q].timer => page'[q].socket = None
      BY <1>5 DEF Control, PagesOK
    <3> QED
      BY <1>2, <1>4, <1>5, <3>1, OutsideTypes
  <2>3. ASSUME NEW c \in Conn, link'[c] # "down" \/ wire'[c] # <<>>
        PROVE  \E q \in Page : page'[q].socket = c
    <3>1. CASE c = new
      BY <1>4, <1>5, <3>1
    <3>2. CASE c # new
      <4>1. link[c] # "down" \/ wire[c] # <<>>
        BY <1>1, <1>6, <2>3, <3>2
      <4>2. PICK q \in Page : page[q].socket = c
        BY <4>1 DEF Control, PagesOK
      <4>3. page[p].timer
        BY DEF Dial
      <4>4. q # p
        BY <4>2, <4>3, OutsideTypes DEF Control, PagesOK
      <4> QED
        BY <1>5, <4>2, <4>4
    <3> QED
      BY <3>1, <3>2
  <2>4. /\ \A q \in Page : page'[q].state \in {"connecting", "open"} => page'[q].socket # None
        /\ \A q \in Page : page'[q].timer => page'[q].socket = None
    BY <2>2
  <2>5. \A d \in Conn : link'[d] # "down" \/ wire'[d] # <<>> => \E q \in Page : page'[q].socket = d
    BY <2>3
  <2> QED
    BY <2>1, <2>3, <2>4, <2>5, Zenon DEF PagesOK
<1> QED
  BY <1>1, <1>2, <1>5, <1>6, <1>7, OutsideTypes, OutsideControl

LEMMA OnOpenControl ==
    ASSUME Channels, Control, NEW p \in Page, OnOpen(p)
    PROVE  Channels' /\ Control'
<1> DEFINE f == [page[p] EXCEPT !.state = "open"]
<1>1. /\ page' = [page EXCEPT ![p] = f] /\ page[p].state = "connecting"
      /\ UNCHANGED <<srvVars, hdlVars, netVars, shown, faults>>
  BY DEF OnOpen
<1>2. f \in PageFrames /\ f.socket = page[p].socket /\ f.state = "open" /\ f.timer = page[p].timer
  BY OutsideTypes DEF PageFrames
<1> HIDE DEF f
<1>3. page' \in [Page -> PageFrames] /\ page'[p] = f /\ \A q \in Page \ {p} : page'[q] = page[q]
  BY <1>1, <1>2, OutsideTypes
<1>4. \A q \in Page : page'[q].socket = page[q].socket /\ page'[q].timer = page[q].timer
  BY <1>2, <1>3
<1>5. PagesOK'
  <2>1. \A q \in Page : page'[q].state \in {"connecting", "open"} => page'[q].socket # None
    BY <1>1, <1>2, <1>3 DEF Control, PagesOK
  <2> QED
    BY <1>1, <1>4, <2>1 DEF Control, PagesOK, netVars
<1> QED
  BY <1>1, <1>3, <1>5, OutsideTypes, OutsideControl DEF netVars

LEMMA OnMessageControl ==
    ASSUME Channels, Control, NEW p \in Page, OnMessage(p)
    PROVE  Channels' /\ Control'
<1> DEFINE c == page[p].socket
<1>1. /\ page[p].state = "open" /\ wire[c] # <<>>
      /\ shown' = [shown EXCEPT ![p][Head(wire[c]).topic] = Head(wire[c]).ver]
      /\ UNCHANGED <<srvVars, hdlVars, link, page, faults>>
  BY DEF OnMessage
<1>2. c \in Conn
  BY <1>1, OutsideTypes DEF Control, PagesOK, PageFrames
<1>a. wire' = [wire EXCEPT ![c] = Tail(wire[c])]
  BY <1>2, OutsideTypes DEF OnMessage
<1> HIDE DEF c
<1>3. /\ Head(wire[c]) \in Event /\ Tail(wire[c]) \in Seq(Event)
      /\ Len(Tail(wire[c])) = Len(wire[c]) - 1 /\ Len(wire[c]) \in Nat /\ Len(wire[c]) <= Wire
  BY <1>1, <1>2, OutsideTypes, HeadTailProperties, LenProperties
<1>4. wire' \in [Conn -> Seq(Event)] /\ \A d \in Conn : Len(wire'[d]) <= Wire
  BY <1>2, <1>a, <1>3, OutsideTypes, Bounds
<1>5. shown' \in [Page -> [Topic -> Nat]]
  BY <1>1, <1>3, OutsideTypes DEF Event
<1>6. PagesOK'
  <2>1. \A d \in Conn : wire'[d] # <<>> => wire[d] # <<>>
    BY <1>1, <1>2, <1>a, OutsideTypes
  <2> QED
    BY <1>1, <2>1 DEF Control, PagesOK
<1> QED
  BY <1>1, <1>4, <1>5, <1>6, OutsideTypes, OutsideControl

LEMMA OnCloseControl ==
    ASSUME Channels, Control, NEW p \in Page, OnClose(p)
    PROVE  Channels' /\ Control'
<1> DEFINE c == page[p].socket
           f == [page[p] EXCEPT !.state = "closed", !.socket = None,
                                !.timer = ~page[p].manuallyClosed]
<1>1. /\ c # None /\ link[c] = "down"
      /\ page' = [page EXCEPT ![p] = f]
      /\ wire' = [wire EXCEPT ![c] = <<>>]
      /\ UNCHANGED <<srvVars, hdlVars, link, shown, faults>>
  BY DEF OnClose
<1>2. c \in Conn
  BY <1>1, OutsideTypes DEF PageFrames
<1>3. f \in PageFrames /\ f.socket = None /\ f.state = "closed"
  BY OutsideTypes DEF PageFrames
<1> HIDE DEF f
<1>4. page' \in [Page -> PageFrames] /\ page'[p] = f /\ \A q \in Page \ {p} : page'[q] = page[q]
  BY <1>1, <1>3, OutsideTypes
<1>5. wire' \in [Conn -> Seq(Event)] /\ wire'[c] = <<>> /\ \A d \in Conn \ {c} : wire'[d] = wire[d]
  BY <1>1, <1>2, OutsideTypes, Bounds
<1>6. \A d \in Conn : Len(wire'[d]) <= Wire
  <2>1. Len(<<>>) <= Wire
    BY Bounds
  <2> QED
    BY <1>5, <2>1, OutsideTypes
<1>7. PagesOK'
  <2>1. ASSUME NEW d \in Conn, link'[d] # "down" \/ wire'[d] # <<>>
        PROVE  \E q \in Page : page'[q].socket = d
    <3>1. d # c /\ (link[d] # "down" \/ wire[d] # <<>>)
      BY <1>1, <1>5, <2>1
    <3>2. PICK q \in Page : page[q].socket = d
      BY <3>1 DEF Control, PagesOK
    <3> QED
      BY <1>4, <3>1, <3>2
  <2>2. \A q \in Page : /\ page'[q].state \in {"connecting", "open"} => page'[q].socket # None
                        /\ page'[q].timer => page'[q].socket = None
    <3>1. \A q \in Page \ {p} : /\ page'[q].state \in {"connecting", "open"} => page'[q].socket # None
                                /\ page'[q].timer => page'[q].socket = None
      BY <1>4 DEF Control, PagesOK
    <3> QED
      BY <1>3, <1>4, <3>1
  <2>3. \A q, r \in Page : q # r /\ page'[q].socket # None => page'[q].socket # page'[r].socket
    BY <1>3, <1>4 DEF Control, PagesOK
  <2>4. /\ \A q \in Page : page'[q].state \in {"connecting", "open"} => page'[q].socket # None
        /\ \A q \in Page : page'[q].timer => page'[q].socket = None
    BY <2>2
  <2>5. \A d \in Conn : link'[d] # "down" \/ wire'[d] # <<>> => \E q \in Page : page'[q].socket = d
    BY <2>1
  <2> QED
    BY <2>1, <2>3, <2>4, <2>5, Zenon DEF PagesOK
<1> QED
  BY <1>1, <1>4, <1>5, <1>6, <1>7, OutsideTypes, OutsideControl

LEMMA DisconnectControl ==
    ASSUME Channels, Control, NEW p \in Page, Disconnect(p)
    PROVE  Channels' /\ Control'
<1> DEFINE f == [page[p] EXCEPT !.manuallyClosed = TRUE, !.timer = FALSE]
<1>1. /\ page' = [page EXCEPT ![p] = f]
      /\ link' = [c \in Conn |-> IF c = page[p].socket THEN "down" ELSE link[c]]
      /\ UNCHANGED <<srvVars, hdlVars, wire, shown, faults>>
  BY DEF Disconnect
<1>2. f \in PageFrames /\ f.socket = page[p].socket /\ f.state = page[p].state /\ ~f.timer
  BY OutsideTypes DEF PageFrames
<1> HIDE DEF f
<1>3. page' \in [Page -> PageFrames] /\ page'[p] = f /\ \A q \in Page \ {p} : page'[q] = page[q]
  BY <1>1, <1>2, OutsideTypes
<1>4. \A q \in Page : /\ page'[q].socket = page[q].socket /\ page'[q].state = page[q].state
                      /\ page'[q].timer => page[q].timer
  BY <1>2, <1>3
<1>5. /\ link' \in [Conn -> {"dialing", "up", "down"}]
      /\ \A c \in Conn : link'[c] = link[c] \/ link'[c] = "down"
  BY <1>1, OutsideTypes
<1>6. PagesOK'
  <2>1. \A q, r \in Page : q # r /\ page'[q].socket # None => page'[q].socket # page'[r].socket
    BY <1>4 DEF Control, PagesOK
  <2>2. \A q \in Page : page'[q].state \in {"connecting", "open"} => page'[q].socket # None
    BY <1>4 DEF Control, PagesOK
  <2>3. \A q \in Page : page'[q].timer => page'[q].socket = None
    BY <1>4 DEF Control, PagesOK
  <2>4. \A c \in Conn : link'[c] # "down" \/ wire'[c] # <<>> => \E q \in Page : page'[q].socket = c
    <3>1. \A c \in Conn : link'[c] # "down" \/ wire'[c] # <<>> => link[c] # "down" \/ wire[c] # <<>>
      BY <1>1, <1>5
    <3>2. \A c \in Conn : link[c] # "down" \/ wire[c] # <<>> => \E q \in Page : page[q].socket = c
      BY DEF Control, PagesOK
    <3> QED
      BY <1>4, <3>1, <3>2
  <2> QED
    BY <2>1, <2>2, <2>3, <2>4, Zenon DEF PagesOK
<1> QED
  BY <1>1, <1>3, <1>5, <1>6, OutsideTypes, OutsideControl

LEMMA FaultControl ==
    ASSUME Channels, Control, (\E c \in Conn : Break(c)) \/ CloseAllWS
    PROVE  Channels' /\ Control'
<1>1. /\ faults' = faults + 1 /\ faults < MaxFaults
      /\ UNCHANGED <<srvVars, hdlVars, wire, page, shown>>
      /\ link' \in [Conn -> {"dialing", "up", "down"}]
      /\ \A c \in Conn : link'[c] = link[c] \/ link'[c] = "down"
  BY OutsideTypes DEF Break, CloseAllWS, pageVars
<1>2. faults' \in 0..MaxFaults
  BY <1>1, OutsideTypes
<1>3. PagesOK'
  BY <1>1 DEF Control, PagesOK
<1> QED
  BY <1>1, <1>2, <1>3, OutsideTypes, OutsideControl

LEMMA RestartControl ==
    ASSUME Channels, Control, Restart
    PROVE  Channels' /\ Control'
<1>1. /\ faults < MaxFaults /\ faults' = faults + 1
      /\ ver' = [t \in Topic |-> ver[t] + 1]
      /\ pub' = [g \in Publisher |-> Idle]
      /\ subs' = {} /\ tracked' = {}
      /\ buf' = [c \in Conn |-> <<>>] /\ held' = [c \in Conn |-> <<>>]
      /\ missed' = [c \in Conn |-> {}]
      /\ handler' = [c \in Conn |-> Done]
      /\ link' = [c \in Conn |-> "down"]
      /\ UNCHANGED <<wire, page, shown>>
  BY DEF Restart, pageVars
<1>2. Channels'
  BY <1>1, Bounds DEF Channels
<1>3. Idle \in Frames /\ Done \in HandlerFrames /\ Done.pc = "none" /\ Done.next = 1 /\ Idle.pc = "idle"
  BY Bounds DEF Idle, Frames, Done, HandlerFrames
<1>4. Fields'
  <2>1. ver' \in [Topic -> Nat \ {0}] /\ faults' \in 0..MaxFaults
    BY <1>1, OutsideTypes DEF Control, Fields
  <2>2. pub' \in [Publisher -> Frames] /\ handler' \in [Conn -> HandlerFrames]
    BY <1>1, <1>3
  <2> QED
    BY <1>1, <2>1, <2>2, OutsideTypes DEF Fields, Frames, HandlerFrames, PageFrames
<1>5. \A c \in Conn : HandlerOK(c)'
  BY <1>1, <1>3 DEF HandlerOK
<1>6. \A g \in Publisher : PublisherOK(g)'
  BY <1>1, <1>3 DEF PublisherOK
<1>7. PagesOK'
  BY <1>1 DEF Control, PagesOK
<1> QED
  BY <1>2, <1>4, <1>5, <1>6, <1>7 DEF Control

LEMMA StepControl == Channels /\ Control /\ [Next]_vars => Channels' /\ Control'
<1> SUFFICES ASSUME Channels, Control, [Next]_vars PROVE Channels' /\ Control'
  OBVIOUS
<1>1. CASE UNCHANGED vars
  <2>1. Channels'
    BY <1>1 DEF Channels, vars, srvVars, hdlVars, netVars
  <2>2. Control'
    BY <1>1 DEF Control, Fields, PublisherOK, HandlerOK, PagesOK, vars, srvVars, hdlVars, netVars, pageVars
  <2> QED
    BY <2>1, <2>2
<1>2. ASSUME NEW p \in Page, Browser(p) \/ Disconnect(p) PROVE Channels' /\ Control'
  BY <1>2, DialControl, OnOpenControl, OnMessageControl, OnCloseControl, DisconnectControl DEF Browser
<1> QED
  BY <1>1, <1>2, ChangesControl, LockedControl, HandleControl, FaultControl, RestartControl DEF Next

LEMMA InitControl == Init => Channels /\ Control
<1> SUFFICES ASSUME Init PROVE Channels /\ Control
  OBVIOUS
<1>1. Channels
  BY Bounds DEF Init, Channels
<1>2. Idle \in Frames /\ Done \in HandlerFrames /\ Done.pc = "none" /\ Done.next = 1 /\ Idle.pc = "idle"
  BY Bounds DEF Idle, Frames, Done, HandlerFrames
<1>3. Fields
  BY <1>2, FeedAssumption DEF FeedAssumption, Init, Fields, Frames, HandlerFrames
<1>4. \A c \in Conn : HandlerOK(c)
  BY <1>2 DEF Init, HandlerOK
<1>5. PagesOK /\ \A g \in Publisher : PublisherOK(g)
  BY <1>2 DEF Init, PagesOK, PublisherOK
<1> QED
  BY <1>1, <1>3, <1>4, <1>5 DEF Control

-----------------------------------------------------------------------------
(* What is under way is in order and ends in the present.                  *)

\* What connection c can still bring: of a broken one, what is written already.
Way(c) == IF link[c] = "down" THEN wire[c] ELSE Flow(c)

InOrder ==
    /\ \A c \in Conn : Sorted(Way(c)) /\ UpTo(Way(c), ver)
    /\ \A p \in Page, c \in Conn : page[p].socket = c => Ahead(Way(c), shown[p])
    /\ \A p \in Page : \A t \in Topic : shown[p][t] <= ver[t]

\* Topic t is one that the handler of c has read already.
Past(c, t) == \E i \in 1..(handler[c].next - 1) : Order[i] = t

Arriving ==
    \A p \in Page, c \in Conn, t \in Locked :
        page[p].socket = c /\ link[c] = "up" /\ Past(c, t) /\ t \notin missed[c]
        => Brings(Way(c), t, shown[p][t], ver[t])

Inv == Channels /\ Control /\ InOrder /\ Arriving

\* What a step does to the way of a connection.
Same(c)     == Way(c)' = Way(c)
Gains(c, e) == /\ Way(c)' = Append(Way(c), e) /\ e \in Event
               /\ e.ver <= ver'[e.topic] /\ (e.topic \in Locked => e.ver = ver'[e.topic])
Loses(c)    == Part(Way(c)', Way(c)) /\ link'[c] # "up"

LEMMA WayType == ASSUME Channels, NEW c \in Conn PROVE Flow(c) \in Seq(Event) /\ Way(c) \in Seq(Event)
<1>1. wire[c] \in Seq(Event) /\ held[c] \in Seq(Event) /\ buf[c] \in Seq(Event)
  BY ChannelTypes
<1>2. wire[c] \o held[c] \o buf[c] \in Seq(Event)
  BY <1>1, FlowPrefix
<1> QED
  BY <1>1, <1>2 DEF Way, Flow

LEMMA WayTypeNext == ASSUME Channels', NEW c \in Conn PROVE Way(c)' \in Seq(Event)
<1>1. wire'[c] \in Seq(Event) /\ held'[c] \in Seq(Event) /\ buf'[c] \in Seq(Event)
  BY DEF Channels
<1>2. wire'[c] \o held'[c] \o buf'[c] \in Seq(Event)
  BY <1>1, FlowPrefix
<1> QED
  BY <1>1, <1>2 DEF Way, Flow

LEMMA UpToLater ==
    ASSUME NEW s \in Seq(Event), NEW v \in [Topic -> Nat], NEW w \in [Topic -> Nat],
           UpTo(s, v), \A t \in Topic : v[t] <= w[t]
    PROVE  UpTo(s, w)
<1>1. \A i \in DOMAIN s : s[i] \in Event
  BY LenProperties, ElementOfSeq
<1> QED
  BY <1>1 DEF UpTo, Event

Continues(r, s, w) ==
    \/ Part(r, s)
    \/ \E e \in Event : /\ r = Append(s, e)
                        /\ e.ver <= w[e.topic] /\ (e.topic \in Locked => e.ver = w[e.topic])

LEMMA WayOrder ==
    ASSUME NEW r \in Seq(Event), NEW s \in Seq(Event),
           NEW v \in [Topic -> Nat], NEW w \in [Topic -> Nat], \A t \in Topic : v[t] <= w[t],
           Sorted(s), UpTo(s, v),
           Continues(r, s, w)
    PROVE  /\ Sorted(r) /\ UpTo(r, w)
           /\ \A sh \in [Topic -> Nat] :
                Ahead(s, sh) /\ (\A t \in Topic : sh[t] <= v[t]) => Ahead(r, sh)
<1>1. UpTo(s, w)
  BY UpToLater
<1>2. CASE Part(r, s)
  BY <1>1, <1>2, PartKeeps
<1>3. CASE \E e \in Event : /\ r = Append(s, e)
                            /\ e.ver <= w[e.topic] /\ (e.topic \in Locked => e.ver = w[e.topic])
  <2>1. PICK e \in Event : /\ r = Append(s, e)
                           /\ e.ver <= w[e.topic] /\ (e.topic \in Locked => e.ver = w[e.topic])
    BY <1>3
  <2>2. /\ Sorted(r) /\ UpTo(r, w)
        /\ \A sh \in [Topic -> Nat] :
             Ahead(s, sh) /\ (\A t \in Topic : sh[t] <= w[t]) => Ahead(r, sh)
    BY <1>1, <2>1, AppendKeeps
  <2>3. ASSUME NEW sh \in [Topic -> Nat], \A t \in Topic : sh[t] <= v[t]
        PROVE  \A t \in Topic : sh[t] <= w[t]
    <3> SUFFICES ASSUME NEW t \in Topic PROVE sh[t] <= w[t]
      OBVIOUS
    <3>1. sh[t] \in Nat /\ v[t] \in Nat /\ w[t] \in Nat /\ sh[t] <= v[t] /\ v[t] <= w[t]
      BY <2>3
    <3> QED
      BY <3>1
  <2> QED
    BY <2>2, <2>3
<1> QED
  BY <1>2, <1>3 DEF Continues

\* Steps at which no page reads.
LEMMA OrderStep ==
    ASSUME Channels, Control, InOrder, Channels', Control',
           shown' = shown, \A t \in Topic : ver[t] <= ver'[t],
           \A c \in Conn : Same(c) \/ (\E e \in Event : Gains(c, e)) \/ Loses(c),
           \A p \in Page, c \in Conn : page'[p].socket = c => page[p].socket = c \/ Way(c)' = <<>>
    PROVE  InOrder'
<1>1. /\ ver \in [Topic -> Nat] /\ ver' \in [Topic -> Nat]
      /\ shown \in [Page -> [Topic -> Nat]]
  BY DEF Control, Fields
<1>2. ASSUME NEW c \in Conn
      PROVE  /\ Sorted(Way(c)') /\ UpTo(Way(c)', ver')
             /\ \A sh \in [Topic -> Nat] :
                  Ahead(Way(c), sh) /\ (\A t \in Topic : sh[t] <= ver[t]) => Ahead(Way(c)', sh)
  <2> DEFINE r == Way(c)'
             s == Way(c)
  <2>1. r \in Seq(Event)
    BY WayTypeNext
  <2>2. s \in Seq(Event) /\ Sorted(s) /\ UpTo(s, ver)
    BY WayType DEF InOrder
  <2>3. Continues(r, s, ver')
    <3>1. CASE Same(c)
      BY <2>2, <3>1, PartItself DEF Same, Continues
    <3>2. CASE Loses(c)
      BY <3>2 DEF Loses, Continues
    <3>3. CASE \E e \in Event : Gains(c, e)
      BY <3>3 DEF Gains, Continues
    <3> QED
      BY <3>1, <3>2, <3>3
  <2> HIDE DEF r, s
  <2>4. /\ Sorted(r) /\ UpTo(r, ver')
        /\ \A sh \in [Topic -> Nat] :
             Ahead(s, sh) /\ (\A t \in Topic : sh[t] <= ver[t]) => Ahead(r, sh)
    BY <1>1, <2>1, <2>2, <2>3, WayOrder
  <2> QED
    BY <2>4 DEF r, s
<1>3. ASSUME NEW p \in Page, NEW c \in Conn, page'[p].socket = c PROVE Ahead(Way(c)', shown[p])
  <2>1. CASE page[p].socket = c
    <3>1. Ahead(Way(c), shown[p]) /\ (\A t \in Topic : shown[p][t] <= ver[t]) /\ shown[p] \in [Topic -> Nat]
      BY <1>1, <2>1 DEF InOrder
    <3> QED
      BY <1>2, <3>1
  <2>2. CASE Way(c)' = <<>>
    <3>1. DOMAIN <<>> = {}
      BY Bounds, LenProperties
    <3> QED
      BY <2>2, <3>1 DEF Ahead
  <2> QED
    BY <1>3, <2>1, <2>2
<1>4. ASSUME NEW p \in Page, NEW t \in Topic PROVE shown[p][t] <= ver'[t]
  BY <1>1 DEF InOrder
<1> QED
  BY <1>2, <1>3, <1>4 DEF InOrder

LEMMA ArrivingStep ==
    ASSUME Channels, Control, Arriving, Channels', Control', shown' = shown,
           \A p \in Page, c \in Conn, t \in Locked :
              page'[p].socket = c /\ link'[c] = "up" /\ Past(c, t)' /\ t \notin missed'[c]
              => \/ \E e \in Event : Gains(c, e) /\ e.topic = t
                 \/ /\ page[p].socket = c /\ link[c] = "up" /\ Past(c, t) /\ t \notin missed[c]
                    /\ ver'[t] = ver[t]
                    /\ Same(c) \/ \E e \in Event : Gains(c, e) /\ e.topic # t
    PROVE  Arriving'
<1> SUFFICES ASSUME NEW p \in Page, NEW c \in Conn, NEW t \in Locked,
                    page'[p].socket = c, link'[c] = "up", Past(c, t)', t \notin missed'[c]
             PROVE  Brings(Way(c)', t, shown[p][t], ver'[t])
  BY DEF Arriving
<1>1. Way(c) \in Seq(Event) /\ t \in Topic
  BY WayType, FeedAssumption DEF FeedAssumption
<1>2. CASE \E e \in Event : Gains(c, e) /\ e.topic = t
  <2>1. PICK e \in Event : Way(c)' = Append(Way(c), e) /\ e.topic = t /\ e.ver = ver'[t]
    BY <1>2 DEF Gains
  <2> QED
    BY <1>1, <2>1, BringsAppend
<1>3. CASE /\ page[p].socket = c /\ link[c] = "up" /\ Past(c, t) /\ t \notin missed[c]
           /\ ver'[t] = ver[t]
           /\ Same(c) \/ \E e \in Event : Gains(c, e) /\ e.topic # t
  <2>1. Brings(Way(c), t, shown[p][t], ver'[t])
    BY <1>3 DEF Arriving
  <2>2. CASE Same(c)
    BY <2>1, <2>2 DEF Same
  <2>3. CASE \E e \in Event : Gains(c, e) /\ e.topic # t
    <3>1. PICK e \in Event : Way(c)' = Append(Way(c), e) /\ e.topic # t
      BY <2>3 DEF Gains
    <3> QED
      BY <1>1, <2>1, <3>1, BringsAppend
  <2> QED
    BY <1>3, <2>2, <2>3
<1> QED
  BY <1>2, <1>3

-----------------------------------------------------------------------------
(* Every step but that of OnMessage.                                       *)

\* Steps that only break or open connections, or touch no sequence at all.
LEMMA QuietInv ==
    ASSUME Inv, Channels', Control', UNCHANGED <<wire, held, buf, shown>>,
           \A t \in Topic : ver[t] <= ver'[t],
           \A c \in Conn : link'[c] = link[c] \/ link'[c] = "down" \/ link[c] # "down",
           \A p \in Page : page'[p].socket = page[p].socket,
           \A c \in Conn, t \in Locked :
              link'[c] = "up" /\ Past(c, t)' /\ t \notin missed'[c]
              => link[c] = "up" /\ Past(c, t) /\ t \notin missed[c] /\ ver'[t] = ver[t]
    PROVE  Inv'
<1>1. ASSUME NEW c \in Conn PROVE Same(c) \/ Loses(c)
  <2>1. wire[c] \in Seq(Event) /\ held[c] \in Seq(Event) /\ buf[c] \in Seq(Event)
    BY ChannelTypes DEF Inv
  <2>2. Part(wire[c], Flow(c))
    BY <2>1, FlowPrefix DEF Flow
  <2>3. Flow(c)' = Flow(c) /\ wire'[c] = wire[c]
    BY DEF Flow
  <2> QED
    BY <2>2, <2>3 DEF Same, Loses, Way
<1>2. ASSUME NEW c \in Conn, link'[c] = "up", link[c] = "up" PROVE Same(c)
  BY <1>2 DEF Same, Way, Flow
<1>3. InOrder'
  BY <1>1, OrderStep DEF Inv
<1>4. Arriving'
  BY <1>2, ArrivingStep DEF Inv
<1> QED
  BY <1>3, <1>4 DEF Inv

\* Steps of one handler.
LEMMA LocalInv ==
    ASSUME Inv, Channels', Control', NEW c \in Conn,
           UNCHANGED <<ver, page, shown, link>>,
           \A d \in Conn \ {c} : /\ wire'[d] = wire[d] /\ held'[d] = held[d] /\ buf'[d] = buf[d]
                                 /\ missed'[d] = missed[d] /\ handler'[d] = handler[d],
           Same(c) \/ \E e \in Event : Gains(c, e),
           \A t \in Locked :
              link[c] = "up" /\ Past(c, t)' /\ t \notin missed'[c]
              => \/ \E e \in Event : Gains(c, e) /\ e.topic = t
                 \/ /\ Past(c, t) /\ t \notin missed[c]
                    /\ Same(c) \/ \E e \in Event : Gains(c, e) /\ e.topic # t
    PROVE  Inv'
<1>1. \A d \in Conn \ {c} : Same(d) /\ \A t : Past(d, t)' <=> Past(d, t)
  BY DEF Same, Way, Flow, Past
<1>2. InOrder'
  <2>1. \A t \in Topic : ver[t] <= ver'[t]
    BY DEF Inv, Control, Fields
  <2>2. \A d \in Conn : Same(d) \/ (\E e \in Event : Gains(d, e)) \/ Loses(d)
    BY <1>1
  <2> QED
    BY <2>1, <2>2, OrderStep DEF Inv
<1>3. Arriving'
  <2>1. ASSUME NEW p \in Page, NEW d \in Conn, NEW t \in Locked,
               page'[p].socket = d, link'[d] = "up", Past(d, t)', t \notin missed'[d]
        PROVE  \/ \E e \in Event : Gains(d, e) /\ e.topic = t
               \/ /\ page[p].socket = d /\ link[d] = "up" /\ Past(d, t) /\ t \notin missed[d]
                  /\ ver'[t] = ver[t]
                  /\ Same(d) \/ \E e \in Event : Gains(d, e) /\ e.topic # t
    <3>1. CASE d = c
      BY <2>1, <3>1
    <3>2. CASE d # c
      BY <1>1, <2>1, <3>2
    <3> QED
      BY <3>1, <3>2
  <2> QED
    BY <2>1, ArrivingStep DEF Inv
<1> QED
  BY <1>2, <1>3 DEF Inv

LEMMA ReadSnapshotInv ==
    ASSUME Inv, Channels', Control', NEW c \in Conn, ReadSnapshot(c)
    PROVE  Inv'
<1> DEFINE u == Order[handler[c].next]
           e == [topic |-> u, ver |-> ver[u]]
<1>1. /\ handler' = [handler EXCEPT ![c] = [pc |-> "write", next |-> handler[c].next + 1]]
      /\ handler[c].pc = "snapshot"
      /\ held' = [held EXCEPT ![c] = <<e>>]
      /\ missed' = [missed EXCEPT ![c] = missed[c] \ {u}]
      /\ UNCHANGED <<ver, pub, subs, buf, tracked, link, wire, page, shown, faults>>
  BY HandlerTypes DEF ReadSnapshot, At, Inv, netVars, pageVars
<1>2. e \in Event /\ u \in Topic /\ handler[c].next \in 1..Len(Order) /\ Len(Order) \in Nat
  BY <1>1, SnapshotIsEvent, Bounds DEF Inv
<1>3. e.topic = u /\ e.ver = ver[u] /\ ver[u] \in Nat
  BY <1>2 DEF Inv, Control, Fields
<1> HIDE DEF u, e
<1>4. wire[c] \in Seq(Event) /\ held[c] = <<>> /\ buf[c] = <<>>
  BY <1>1, ChannelTypes DEF Inv, Control, HandlerOK
<1>5. held'[c] = <<e>> /\ handler'[c].next = handler[c].next + 1 /\ missed'[c] = missed[c] \ {u}
  BY <1>1, HandlerTypes, ChannelTypes DEF Inv, Control, Fields
<1>6. CASE link[c] # "down"
  <2>1. Flow(c) = wire[c] \o <<>> \o <<>> /\ Flow(c)' = wire[c] \o <<e>> \o <<>>
    BY <1>1, <1>4, <1>5 DEF Flow
  <2>2. Flow(c)' = Append(Flow(c), e)
    BY <1>2, <1>4, <2>1, FlowRead
  <2>3. Gains(c, e)
    BY <1>1, <1>2, <1>3, <1>6, <2>2 DEF Gains, Way
  <2>4. ASSUME NEW t \in Locked, Past(c, t)', t # u PROVE Past(c, t)
    <3>1. PICK i \in 1..(handler'[c].next - 1) : Order[i] = t
      BY <2>4 DEF Past
    <3>2. i \in 1..(handler[c].next - 1)
      BY <1>2, <1>5, <2>4, <3>1 DEF u
    <3> QED
      BY <3>1, <3>2 DEF Past
  <2>5. ASSUME NEW t \in Locked, Past(c, t)', t \notin missed'[c]
        PROVE  \/ \E ev \in Event : Gains(c, ev) /\ ev.topic = t
               \/ /\ Past(c, t) /\ t \notin missed[c]
                  /\ Same(c) \/ \E ev \in Event : Gains(c, ev) /\ ev.topic # t
    <3>1. CASE t = u
      BY <1>2, <1>3, <2>3, <3>1
    <3>2. CASE t # u
      BY <1>2, <1>3, <1>5, <2>3, <2>4, <2>5, <3>2
    <3> QED
      BY <3>1, <3>2
  <2>6. \A d \in Conn \ {c} : /\ wire'[d] = wire[d] /\ held'[d] = held[d] /\ buf'[d] = buf[d]
                              /\ missed'[d] = missed[d] /\ handler'[d] = handler[d]
    BY <1>1
  <2> QED
    BY <1>1, <1>2, <2>3, <2>5, <2>6, LocalInv
<1>7. CASE link[c] = "down"
  <2>1. Same(c)
    BY <1>1, <1>7 DEF Same, Way
  <2>2. \A d \in Conn \ {c} : /\ wire'[d] = wire[d] /\ held'[d] = held[d] /\ buf'[d] = buf[d]
                              /\ missed'[d] = missed[d] /\ handler'[d] = handler[d]
    BY <1>1
  <2> QED
    BY <1>1, <1>7, <2>1, <2>2, LocalInv
<1> QED
  BY <1>6, <1>7

\* A handler moves a message along, or lets go of what a broken connection cannot bring.
LEMMA MoveInv ==
    ASSUME Inv, Channels', Control', NEW c \in Conn,
           Write(c) \/ Subscribe(c) \/ Take(c) \/ Fail(c) \/ Cancel(c)
    PROVE  Inv'
<1>0. /\ wire[c] \in Seq(Event) /\ held[c] \in Seq(Event) /\ buf[c] \in Seq(Event)
      /\ HandlerOK(c) /\ DOMAIN wire = Conn /\ DOMAIN held = Conn /\ DOMAIN buf = Conn
      /\ handler \in [Conn -> HandlerFrames] /\ DOMAIN missed = Conn
  BY ChannelTypes, HandlerTypes DEF Inv, Control, Fields
<1>1. UNCHANGED <<ver, page, shown, link>>
  BY DEF Write, Subscribe, Take, Fail, Cancel, srvVars, netVars, pageVars
<1>2. \A d \in Conn \ {c} : /\ wire'[d] = wire[d] /\ held'[d] = held[d] /\ buf'[d] = buf[d]
                            /\ missed'[d] = missed[d] /\ handler'[d] = handler[d]
  BY <1>0 DEF Write, Subscribe, Take, Fail, Cancel, Goto, srvVars, netVars
<1>3. Same(c)
  <2>1. CASE Write(c)
    <3>1. held'[c] = <<>> /\ buf' = buf
      BY <1>0, <2>1 DEF Write, srvVars
    <3>2. CASE link[c] = "up"
      <4>1. wire'[c] = wire[c] \o held[c]
        BY <1>0, <2>1, <3>2 DEF Write
      <4>2. Flow(c)' = (wire[c] \o held[c]) \o <<>> \o buf[c]
        BY <3>1, <4>1 DEF Flow
      <4>3. Flow(c)' = Flow(c)
        BY <1>0, <4>2, FlowWritten DEF Flow
      <4> QED
        BY <1>1, <3>2, <4>3 DEF Same, Way
    <3>3. CASE link[c] = "down"
      <4>1. wire' = wire
        BY <2>1, <3>3 DEF Write
      <4> QED
        BY <1>1, <3>3, <4>1 DEF Same, Way
    <3> QED
      BY <2>1, <3>2, <3>3 DEF Write
  <2>2. CASE Subscribe(c)
    <3>1. buf[c] = <<>> /\ buf'[c] = <<>> /\ held' = held /\ wire' = wire
      BY <1>0, <2>2 DEF Subscribe, At, HandlerOK, netVars
    <3> QED
      BY <1>1, <3>1 DEF Same, Way, Flow
  <2>3. CASE Take(c)
    <3>1. /\ buf[c] # <<>> /\ held[c] = <<>> /\ wire' = wire
          /\ held'[c] = <<Head(buf[c])>> /\ buf'[c] = Tail(buf[c])
      BY <1>0, <2>3 DEF Take, At, HandlerOK, netVars
    <3>2. Flow(c)' = wire[c] \o <<Head(buf[c])>> \o Tail(buf[c]) /\ Flow(c) = wire[c] \o <<>> \o buf[c]
      BY <3>1 DEF Flow
    <3>3. Flow(c)' = Flow(c)
      BY <1>0, <3>1, <3>2, FlowTaken
    <3> QED
      BY <1>1, <3>1, <3>3 DEF Same, Way
  <2>4. CASE Fail(c) \/ Cancel(c)
    <3>1. link[c] = "down" /\ wire' = wire
      BY <1>0, <2>4 DEF Fail, Cancel, At, HandlerOK, netVars
    <3> QED
      BY <1>1, <3>1 DEF Same, Way
  <2> QED
    BY <2>1, <2>2, <2>3, <2>4
<1>4. ASSUME NEW t \in Locked, link[c] = "up", Past(c, t)', t \notin missed'[c]
      PROVE  Past(c, t) /\ t \notin missed[c]
  <2>1. ~Fail(c) /\ ~Cancel(c)
    BY <1>0, <1>4 DEF Fail, Cancel, At, HandlerOK
  <2>2. missed' = missed /\ handler'[c].next = handler[c].next
    BY <1>0, <2>1 DEF Write, Subscribe, Take, Goto, srvVars, HandlerFrames
  <2> QED
    BY <1>4, <2>2 DEF Past
<1> QED
  BY <1>1, <1>2, <1>3, <1>4, LocalInv

\* An event delivered is the last of the ways it joins; the others miss it.
LEMMA DeliverInv ==
    ASSUME Inv, Channels', Control', NEW e \in Event, Deliver(e),
           UNCHANGED <<subs, tracked, handler, held, link, wire, page, shown>>,
           \A t \in Topic : ver[t] <= ver'[t], \A t \in Topic \ {e.topic} : ver'[t] = ver[t],
           e.ver <= ver'[e.topic], e.topic \in Locked => e.ver = ver'[e.topic]
    PROVE  Inv'
<1>1. ASSUME NEW c \in Conn
      PROVE  \/ Gains(c, e) /\ missed'[c] = missed[c] \ {e.topic}
             \/ Same(c) /\ link[c] = "down"
             \/ /\ Same(c)
                /\ missed'[c] = IF e.topic \in Locked /\ Serving(c)
                                THEN missed[c] \cup {e.topic} ELSE missed[c] \ {e.topic}
  <2>1. wire[c] \in Seq(Event) /\ held[c] \in Seq(Event) /\ buf[c] \in Seq(Event)
    BY ChannelTypes DEF Inv
  <2>2. CASE link[c] = "down"
    BY <2>2 DEF Same, Way
  <2>3. CASE link[c] # "down" /\ buf'[c] = Append(buf[c], e) /\ missed'[c] = missed[c] \ {e.topic}
    <3>1. Flow(c)' = wire[c] \o held[c] \o Append(buf[c], e)
      BY <2>3 DEF Flow
    <3>2. Flow(c)' = Append(Flow(c), e)
      BY <2>1, <3>1, FlowAppended DEF Flow
    <3> QED
      BY <2>3, <3>2 DEF Gains, Way
  <2>4. CASE /\ buf'[c] = buf[c]
             /\ missed'[c] = IF e.topic \in Locked /\ Serving(c)
                             THEN missed[c] \cup {e.topic} ELSE missed[c] \ {e.topic}
    BY <2>4 DEF Same, Way, Flow
  <2>5. \/ /\ c \in subs /\ buf'[c] = Append(buf[c], e)
           /\ missed'[c] = missed[c] \ {e.topic}
        \/ /\ buf'[c] = buf[c]
           /\ missed'[c] = IF e.topic \in Locked /\ Serving(c)
                           THEN missed[c] \cup {e.topic} ELSE missed[c] \ {e.topic}
    BY Delivered DEF Inv, Control
  <2> QED
    BY <2>2, <2>3, <2>4, <2>5
<1>2. InOrder'
  <2>1. \A c \in Conn : Same(c) \/ (\E ev \in Event : Gains(c, ev)) \/ Loses(c)
    BY <1>1
  <2> QED
    BY <2>1, OrderStep DEF Inv
<1>3. ASSUME NEW c \in Conn, NEW t \in Locked, link[c] = "up", Past(c, t) PROVE Serving(c)
  <2>1. handler[c] \in HandlerFrames /\ HandlerOK(c)
    BY HandlerTypes DEF Inv
  <2>2. handler[c].next # 1
    BY <1>3 DEF Past
  <2> QED
    BY <1>3, <2>1, <2>2 DEF HandlerOK, HandlerFrames, Serving
<1>4. Arriving'
  <2>1. ASSUME NEW p \in Page, NEW c \in Conn, NEW t \in Locked,
               page'[p].socket = c, link'[c] = "up", Past(c, t)', t \notin missed'[c]
        PROVE  \/ \E ev \in Event : Gains(c, ev) /\ ev.topic = t
               \/ /\ page[p].socket = c /\ link[c] = "up" /\ Past(c, t) /\ t \notin missed[c]
                  /\ ver'[t] = ver[t]
                  /\ Same(c) \/ \E ev \in Event : Gains(c, ev) /\ ev.topic # t
    <3>1. link[c] = "up" /\ Past(c, t) /\ page[p].socket = c /\ Serving(c) /\ t \in Topic
      BY <1>3, <2>1, FeedAssumption DEF FeedAssumption, Past
    <3>2. CASE t = e.topic
      BY <1>1, <2>1, <3>1, <3>2
    <3>3. CASE t # e.topic
      BY <1>1, <2>1, <3>1, <3>3
    <3> QED
      BY <3>2, <3>3
  <2> QED
    BY <2>1, ArrivingStep DEF Inv
<1> QED
  BY <1>2, <1>4 DEF Inv

LEMMA PublishersInv ==
    ASSUME Inv, Channels', Control', Changes
    PROVE  Inv'
<1>0. ver \in [Topic -> Nat \ {0}]
  BY DEF Inv, Control, Fields
<1>1. ASSUME NEW g \in Publisher, NEW t \in Topic, Change(g, t) PROVE Inv'
  <2>1. /\ t \notin Locked /\ ver' = [ver EXCEPT ![t] = @ + 1]
        /\ UNCHANGED <<wire, held, buf, shown, link, page, handler, missed>>
    BY <1>1 DEF Change, hdlVars, netVars, pageVars
  <2>2. (\A u \in Topic : ver[u] <= ver'[u]) /\ \A u \in Locked : ver'[u] = ver[u]
    BY <1>0, <2>1, FeedAssumption DEF FeedAssumption
  <2> QED
    BY <2>1, <2>2, QuietInv DEF Past
<1>2. ASSUME NEW g \in Publisher, ReadState(g) PROVE Inv'
  <2>1. UNCHANGED <<ver, wire, held, buf, shown, link, page, handler, missed>>
    BY <1>2 DEF ReadState, hdlVars, netVars, pageVars
  <2>2. \A u \in Topic : ver[u] <= ver'[u]
    BY <1>0, <2>1
  <2> QED
    BY <2>1, <2>2, QuietInv DEF Past
<1>3. ASSUME NEW g \in Publisher, Publish(g) PROVE Inv'
  <2> DEFINE e == [topic |-> pub[g].topic, ver |-> pub[g].ver]
  <2>1. /\ Deliver(e) /\ pub[g].pc = "read"
        /\ UNCHANGED <<ver, subs, tracked, handler, held, link, wire, page, shown>>
    BY <1>3 DEF Publish, hdlVars, netVars, pageVars
  <2>2. e \in Event /\ e.topic \notin Locked /\ e.ver <= ver[e.topic]
    BY <2>1, ReadIsEvent DEF Inv
  <2>3. \A u \in Topic : ver[u] <= ver'[u]
    BY <1>0, <2>1
  <2> HIDE DEF e
  <2> QED
    BY <2>1, <2>2, <2>3, DeliverInv
<1> QED
  BY <1>1, <1>2, <1>3 DEF Changes

LEMMA LockedInv ==
    ASSUME Inv, Channels', Control', NEW t \in Topic, ChangeLocked(t) \/ ChangeQuietly(t)
    PROVE  Inv'
<1>0. ver \in [Topic -> Nat \ {0}]
  BY DEF Inv, Control, Fields
<1>1. /\ ver' = [ver EXCEPT ![t] = @ + 1]
      /\ UNCHANGED <<subs, tracked, handler, held, link, wire, page, shown>>
  BY DEF ChangeLocked, ChangeQuietly, hdlVars, netVars, pageVars
<1>2. /\ \A u \in Topic : ver[u] <= ver'[u]
      /\ \A u \in Topic \ {t} : ver'[u] = ver[u]
      /\ ver'[t] = ver[t] + 1 /\ ver[t] \in Nat
  BY <1>0, <1>1
<1>3. CASE ChangeLocked(t)
  <2> DEFINE e == [topic |-> t, ver |-> ver[t] + 1]
  <2>1. Deliver(e)
    BY <1>3 DEF ChangeLocked
  <2>2. e \in Event /\ e.topic = t /\ e.ver = ver'[t] /\ e.ver <= ver'[e.topic]
    BY <1>2, EventIsEvent
  <2> HIDE DEF e
  <2> QED
    BY <1>1, <1>2, <2>1, <2>2, DeliverInv
<1>4. CASE ChangeQuietly(t)
  <2>1. /\ buf' = buf
        /\ missed' = [c \in Conn |-> IF Serving(c) THEN missed[c] \cup {t} ELSE missed[c]]
    BY <1>4 DEF ChangeQuietly
  <2>2. ASSUME NEW c \in Conn, NEW u \in Locked, link'[c] = "up", Past(c, u)', u \notin missed'[c]
        PROVE  link[c] = "up" /\ Past(c, u) /\ u \notin missed[c] /\ ver'[u] = ver[u]
    <3>1. link[c] = "up" /\ Past(c, u) /\ u \in Topic
      BY <1>1, <2>2, FeedAssumption DEF FeedAssumption, Past
    <3>2. handler[c] \in HandlerFrames /\ HandlerOK(c) /\ handler[c].next # 1
      BY <3>1, HandlerTypes DEF Inv, Past
    <3>3. Serving(c)
      BY <3>1, <3>2 DEF HandlerOK, HandlerFrames, Serving
    <3>4. u # t /\ u \notin missed[c]
      BY <2>1, <2>2, <3>3
    <3> QED
      BY <1>2, <3>1, <3>4
  <2> QED
    BY <1>1, <1>2, <2>1, <2>2, QuietInv
<1> QED
  BY <1>3, <1>4

LEMMA HandleInv ==
    ASSUME Inv, Channels', Control', NEW c \in Conn, Handle(c)
    PROVE  Inv'
<1>0. /\ handler \in [Conn -> HandlerFrames] /\ HandlerOK(c) /\ DOMAIN link = Conn
      /\ \A t \in Topic : ver[t] <= ver[t]
  BY HandlerTypes DEF Inv, Control, Fields
<1>1. CASE Accept(c) \/ Track(c) \/ Untrack(c)
  <2>1. /\ UNCHANGED <<ver, wire, held, buf, shown, page, missed>>
        /\ \A d \in Conn \ {c} : handler'[d] = handler[d] /\ link'[d] = link[d]
    BY <1>0, <1>1 DEF Accept, Track, Untrack, Goto, srvVars, netVars, pageVars
  <2>2. link'[c] = link[c] \/ link[c] # "down"
    BY <1>1 DEF Accept, Track, Untrack, srvVars, netVars
  <2>3. link'[c] = "up" => handler'[c].next = 1
    BY <1>0, <1>1 DEF Accept, Track, Untrack, Goto, At, HandlerOK, HandlerFrames, Done, netVars
  <2>4. ASSUME NEW d \in Conn, NEW t \in Locked, link'[d] = "up", Past(d, t)', t \notin missed'[d]
        PROVE  link[d] = "up" /\ Past(d, t) /\ t \notin missed[d] /\ ver'[t] = ver[t]
    <3>1. d # c
      BY <2>3, <2>4 DEF Past
    <3> QED
      BY <2>1, <2>4, <3>1 DEF Past
  <2> QED
    BY <1>0, <2>1, <2>2, <2>4, QuietInv
<1>2. CASE ReadSnapshot(c)
  BY <1>2, ReadSnapshotInv
<1>3. CASE Write(c) \/ Subscribe(c) \/ Take(c) \/ Fail(c) \/ Cancel(c)
  BY <1>3, MoveInv
<1> QED
  BY <1>1, <1>2, <1>3 DEF Handle

\* A connection given to a page, or taken from one, has nothing under way.
LEMMA SocketInv ==
    ASSUME Inv, Channels', Control', NEW p \in Page, Dial(p) \/ OnClose(p)
    PROVE  Inv'
<1>0. (\A t \in Topic : ver[t] <= ver[t]) /\ page \in [Page -> PageFrames] /\ None \notin Conn
      /\ DOMAIN wire = Conn /\ DOMAIN link = Conn
  BY OutsideTypes DEF Inv, Control, Fields
<1>1. CASE Dial(p)
  <2>1. PICK c \in Free :
          /\ page' = [page EXCEPT ![p].state = "connecting", ![p].socket = c, ![p].timer = FALSE]
          /\ link' = [link EXCEPT ![c] = "dialing"]
          /\ UNCHANGED <<srvVars, hdlVars, wire, shown, faults>>
    <3> DEFINE new == CHOOSE c \in Free : TRUE
    <3>1. new \in Free
      BY <1>1 DEF Dial
    <3> QED
      BY <1>1, <3>1 DEF Dial
  <2>2. c \in Conn /\ handler[c].pc = "none" /\ \A q \in Page : page[q].socket # c
    BY <2>1 DEF Free, At
  <2>3. wire[c] = <<>> /\ link[c] = "down"
    BY <2>2 DEF Inv, Control, PagesOK
  <2>4. held[c] = <<>> /\ buf[c] = <<>>
    BY <2>2 DEF Inv, Control, HandlerOK
  <2>5. Way(c)' = <<>> /\ Way(c) = <<>>
    <3>1. <<>> \o <<>> \o <<>> = <<>>
      BY Bounds, ConcatEmptySeq
    <3> QED
      BY <2>1, <2>3, <2>4, <3>1 DEF Way, Flow, srvVars, hdlVars
  <2>6. \A d \in Conn : Same(d) /\ (d # c => link'[d] = link[d])
    BY <1>0, <2>1, <2>5 DEF Same, Way, Flow, srvVars, hdlVars
  <2>7. \A q \in Page \ {p} : page'[q].socket = page[q].socket
    BY <1>0, <2>1
  <2>8. page'[p].socket = c
    BY <1>0, <2>1 DEF PageFrames
  <2>9. InOrder'
    <3>1. \A q \in Page, d \in Conn : page'[q].socket = d => page[q].socket = d \/ Way(d)' = <<>>
      BY <2>5, <2>7, <2>8
    <3> QED
      BY <1>0, <2>1, <2>6, <3>1, OrderStep DEF Inv, srvVars
  <2>10. link'[c] = "dialing"
    BY <1>0, <2>1, <2>2
  <2>11. ASSUME NEW q \in Page, NEW d \in Conn, NEW t \in Locked,
                page'[q].socket = d, link'[d] = "up", Past(d, t)', t \notin missed'[d]
         PROVE  /\ page[q].socket = d /\ link[d] = "up" /\ Past(d, t) /\ t \notin missed[d]
                /\ ver'[t] = ver[t] /\ Same(d)
    <3>1. d # c /\ q # p
      BY <2>8, <2>10, <2>11
    <3> QED
      BY <2>1, <2>6, <2>7, <2>11, <3>1 DEF Past, srvVars, hdlVars
  <2>12. Arriving'
    <3>1. shown' = shown /\ Channels /\ Control /\ Arriving
      BY <2>1 DEF Inv
    <3>2. ASSUME NEW q \in Page, NEW d \in Conn, NEW t \in Locked,
                 page'[q].socket = d, link'[d] = "up", Past(d, t)', t \notin missed'[d]
          PROVE  \/ \E e \in Event : Gains(d, e) /\ e.topic = t
                 \/ /\ page[q].socket = d /\ link[d] = "up" /\ Past(d, t) /\ t \notin missed[d]
                    /\ ver'[t] = ver[t]
                    /\ Same(d) \/ \E e \in Event : Gains(d, e) /\ e.topic # t
      BY <2>11, <3>2
    <3> QED
      BY <3>1, <3>2, ArrivingStep
  <2> QED
    BY <2>9, <2>12 DEF Inv
<1>2. CASE OnClose(p)
  <2>1. PICK c \in Conn :
          /\ page[p].socket = c /\ link[c] = "down"
          /\ page' = [page EXCEPT ![p].state = "closed", ![p].socket = None,
                                  ![p].timer = ~page[p].manuallyClosed]
          /\ wire' = [wire EXCEPT ![c] = <<>>]
          /\ UNCHANGED <<srvVars, hdlVars, link, shown, faults>>
    BY <1>0, <1>2 DEF OnClose, PageFrames
  <2>2. c \in Conn /\ c # None
    BY <1>0
  <2>3. \A q \in Page : page'[q].socket = page[q].socket \/ page'[q].socket = None
    BY <1>0, <2>1 DEF PageFrames
  <2>4. \A d \in Conn \ {c} : Same(d)
    BY <1>0, <2>1 DEF Same, Way, Flow, srvVars, hdlVars
  <2>5. Loses(c)
    <3>1. Way(c)' = <<>> /\ link'[c] # "up"
      BY <1>0, <2>1, <2>2 DEF Way
    <3>2. Way(c) \in Seq(Event)
      BY <2>2, WayType DEF Inv
    <3> QED
      BY <3>1, <3>2, PartEmpty DEF Loses
  <2>6. InOrder'
    <3>1. \A d \in Conn : Same(d) \/ Loses(d)
      BY <2>4, <2>5
    <3>2. \A q \in Page, d \in Conn : page'[q].socket = d => page[q].socket = d
      BY <1>0, <2>3
    <3> QED
      BY <1>0, <2>1, <3>1, <3>2, OrderStep DEF Inv, srvVars
  <2>7. ASSUME NEW q \in Page, NEW d \in Conn, NEW t \in Locked,
               page'[q].socket = d, link'[d] = "up", Past(d, t)', t \notin missed'[d]
        PROVE  /\ page[q].socket = d /\ link[d] = "up" /\ Past(d, t) /\ t \notin missed[d]
               /\ ver'[t] = ver[t] /\ Same(d)
    <3>1. d # c /\ page[q].socket = d
      BY <1>0, <2>1, <2>3, <2>7
    <3> QED
      BY <2>1, <2>4, <2>7, <3>1 DEF Past, srvVars, hdlVars
  <2>8. Arriving'
    <3>1. shown' = shown /\ Channels /\ Control /\ Arriving
      BY <2>1 DEF Inv
    <3>2. ASSUME NEW q \in Page, NEW d \in Conn, NEW t \in Locked,
                 page'[q].socket = d, link'[d] = "up", Past(d, t)', t \notin missed'[d]
          PROVE  \/ \E e \in Event : Gains(d, e) /\ e.topic = t
                 \/ /\ page[q].socket = d /\ link[d] = "up" /\ Past(d, t) /\ t \notin missed[d]
                    /\ ver'[t] = ver[t]
                    /\ Same(d) \/ \E e \in Event : Gains(d, e) /\ e.topic # t
      BY <2>7, <3>2
    <3> QED
      BY <3>1, <3>2, ArrivingStep
  <2> QED
    BY <2>6, <2>8 DEF Inv
<1> QED
  BY <1>1, <1>2

LEMMA OpenInv ==
    ASSUME Inv, Channels', Control', NEW p \in Page, OnOpen(p) \/ Disconnect(p)
    PROVE  Inv'
<1>0. (\A t \in Topic : ver[t] <= ver[t]) /\ page \in [Page -> PageFrames]
  BY OutsideTypes DEF Inv, Control, Fields
<1>1. UNCHANGED <<ver, wire, held, buf, shown, missed, handler>>
  BY DEF OnOpen, Disconnect, srvVars, hdlVars, netVars
<1>2. \A q \in Page : page'[q].socket = page[q].socket
  BY <1>0 DEF OnOpen, Disconnect, PageFrames
<1>3. \A c \in Conn : link'[c] = link[c] \/ link'[c] = "down"
  BY DEF OnOpen, Disconnect, netVars
<1>4. \A c \in Conn, t \in Locked :
         link'[c] = "up" /\ Past(c, t)' /\ t \notin missed'[c]
         => link[c] = "up" /\ Past(c, t) /\ t \notin missed[c] /\ ver'[t] = ver[t]
  BY <1>1, <1>3 DEF Past
<1> QED
  BY <1>0, <1>1, <1>2, <1>3, <1>4, QuietInv

LEMMA FaultInv ==
    ASSUME Inv, Channels', Control', (\E c \in Conn : Break(c)) \/ CloseAllWS
    PROVE  Inv'
<1>0. \A t \in Topic : ver[t] <= ver[t]
  BY DEF Inv, Control, Fields
<1>1. UNCHANGED <<ver, wire, held, buf, shown, missed, handler, page>>
  BY DEF Break, CloseAllWS, srvVars, hdlVars, pageVars
<1>2. \A c \in Conn : link'[c] = link[c] \/ link'[c] = "down"
  BY OutsideTypes DEF Break, CloseAllWS, Inv
<1>3. \A c \in Conn, t \in Locked :
         link'[c] = "up" /\ Past(c, t)' /\ t \notin missed'[c]
         => link[c] = "up" /\ Past(c, t) /\ t \notin missed[c] /\ ver'[t] = ver[t]
  BY <1>1, <1>2 DEF Past
<1> QED
  BY <1>0, <1>1, <1>2, <1>3, QuietInv

LEMMA RestartInv ==
    ASSUME Inv, Channels', Control', Restart
    PROVE  Inv'
<1>1. /\ ver' = [t \in Topic |-> ver[t] + 1]
      /\ link' = [c \in Conn |-> "down"]
      /\ UNCHANGED <<wire, page, shown>>
  BY DEF Restart, pageVars
<1>2. \A t \in Topic : ver[t] <= ver'[t]
  BY <1>1 DEF Inv, Control, Fields
<1>3. ASSUME NEW c \in Conn PROVE Loses(c)
  <2>1. wire[c] \in Seq(Event) /\ held[c] \in Seq(Event) /\ buf[c] \in Seq(Event)
    BY ChannelTypes DEF Inv
  <2>2. Part(wire[c], Flow(c)) /\ Part(wire[c], wire[c])
    BY <2>1, FlowPrefix, PartItself DEF Flow
  <2>3. Way(c)' = wire[c] /\ link'[c] = "down"
    BY <1>1 DEF Way
  <2> QED
    BY <2>2, <2>3 DEF Loses, Way
<1>4. InOrder'
  BY <1>1, <1>2, <1>3, OrderStep DEF Inv
<1>5. Arriving'
  BY <1>1 DEF Arriving
<1> QED
  BY <1>4, <1>5 DEF Inv

\* A page takes the first event of its way, which stays in order behind it.
LEMMA OnMessageInv ==
    ASSUME Inv, Channels', Control', NEW p \in Page, OnMessage(p)
    PROVE  Inv'
<1>0. /\ wire \in [Conn -> Seq(Event)] /\ link \in [Conn -> {"dialing", "up", "down"}]
      /\ page \in [Page -> PageFrames] /\ shown \in [Page -> [Topic -> Nat]]
      /\ ver \in [Topic -> Nat \ {0}] /\ Locked \subseteq Topic
  BY OutsideTypes, FeedAssumption DEF FeedAssumption, Inv, Control, Fields
<1>1. PICK c \in Conn :
        /\ page[p].socket = c /\ page[p].state = "open" /\ wire[c] # <<>>
        /\ shown' = [shown EXCEPT ![p][Head(wire[c]).topic] = Head(wire[c]).ver]
        /\ wire' = [wire EXCEPT ![c] = Tail(wire[c])]
        /\ UNCHANGED <<srvVars, hdlVars, link, page, faults>>
  <2>1. page[p].socket \in Conn
    BY <1>0 DEF OnMessage, Inv, Control, PagesOK, PageFrames
  <2> QED
    BY <1>0, <2>1 DEF OnMessage
<1>2. wire[c] \in Seq(Event) /\ held[c] \in Seq(Event) /\ buf[c] \in Seq(Event)
  BY ChannelTypes DEF Inv
<1>3. UNCHANGED <<ver, missed, handler, held, buf, link, page>>
  BY <1>1 DEF srvVars, hdlVars
<1>4. Way(c) # <<>> /\ Way(c)' = Tail(Way(c)) /\ Head(Way(c)) = Head(wire[c])
  <2>1. wire'[c] = Tail(wire[c]) /\ wire[c] # <<>>
    BY <1>0, <1>1
  <2>2. /\ Flow(c) # <<>> /\ Head(Flow(c)) = Head(wire[c])
        /\ Flow(c)' = Tail(Flow(c))
    <3>1. Flow(c)' = Tail(wire[c]) \o held[c] \o buf[c]
      BY <1>3, <2>1 DEF Flow
    <3>2. /\ Tail(wire[c]) \o held[c] \o buf[c] = Tail(wire[c] \o held[c] \o buf[c])
          /\ Head(wire[c] \o held[c] \o buf[c]) = Head(wire[c])
          /\ wire[c] \o held[c] \o buf[c] # <<>>
      BY <1>2, <2>1, FlowShown
    <3> QED
      BY <3>1, <3>2 DEF Flow
  <2> QED
    BY <1>3, <2>1, <2>2 DEF Way
<1>5. \A d \in Conn \ {c} : Way(d)' = Way(d)
  BY <1>0, <1>1, <1>3 DEF Way, Flow
<1> DEFINE s == Way(c)
           h == Head(s)
<1>6. s \in Seq(Event) /\ s # <<>> /\ Sorted(s) /\ UpTo(s, ver) /\ Ahead(s, shown[p])
  BY <1>1, <1>4, WayType DEF Inv, InOrder
<1>7. Tail(s) \in Seq(Event) /\ Part(Tail(s), s)
  BY <1>6, PartTail, HeadTailProperties
<1>8. shown' = [shown EXCEPT ![p][h.topic] = h.ver]
  BY <1>1, <1>4
<1>9. Way(c)' = Tail(s)
  BY <1>4
<1> HIDE DEF s
<1>10. /\ h = s[1] /\ DOMAIN s = 1..Len(s) /\ Len(s) \in Nat \ {0}
       /\ DOMAIN Tail(s) = 1..(Len(s) - 1)
       /\ \A i \in 1..(Len(s) - 1) : Tail(s)[i] = s[i + 1]
       /\ \A i \in DOMAIN s : s[i] \in Event
  <2>1. Len(s) \in Nat /\ Len(s) # 0 /\ DOMAIN s = 1..Len(s)
    BY <1>6, EmptySeq, LenProperties
  <2>2. /\ Len(Tail(s)) = Len(s) - 1
        /\ \A i \in 1..Len(Tail(s)) : Tail(s)[i] = s[i + 1]
    BY <1>6, HeadTailProperties
  <2>3. DOMAIN Tail(s) = 1..Len(Tail(s))
    BY <1>7, LenProperties
  <2>4. \A i \in DOMAIN s : s[i] \in Event
    BY <1>6, <2>1, ElementOfSeq
  <2>5. h = s[1]
    OBVIOUS
  <2> QED
    BY <2>1, <2>2, <2>3, <2>4, <2>5
<1>11. h \in Event /\ h.topic \in Topic /\ h.ver \in Nat /\ h.ver <= ver[h.topic]
  BY <1>6, <1>10 DEF UpTo, Event
<1> HIDE DEF h
<1>12. /\ shown'[p] \in [Topic -> Nat]
       /\ \A t \in Topic : shown'[p][t] = IF t = h.topic THEN h.ver ELSE shown[p][t]
       /\ \A q \in Page \ {p} : shown'[q] = shown[q]
  BY <1>0, <1>8, <1>11
<1>13. Sorted(Tail(s)) /\ UpTo(Tail(s), ver)
  BY <1>6, <1>7, PartKeeps
<1>14. \A d \in Conn : Sorted(Way(d)') /\ UpTo(Way(d)', ver)
  BY <1>5, <1>9, <1>13 DEF Inv, InOrder
<1>15. Ahead(Tail(s), shown'[p])
  <2> SUFFICES ASSUME NEW i \in DOMAIN Tail(s), Tail(s)[i].topic \in Locked
               PROVE  shown'[p][Tail(s)[i].topic] <= Tail(s)[i].ver
    BY DEF Ahead
  <2>1. i + 1 \in DOMAIN s /\ Tail(s)[i] = s[i + 1] /\ 1 \in DOMAIN s /\ 1 < i + 1 /\ i + 1 # 1
    BY <1>10
  <2>2. s[i + 1].topic \in Locked /\ s[i + 1].topic \in Topic
    BY <1>0, <2>1
  <2>3. CASE s[i + 1].topic = h.topic
    <3>1. h.ver <= s[i + 1].ver
      BY <1>6, <1>10, <2>1, <2>2, <2>3 DEF Sorted
    <3> QED
      BY <1>12, <2>1, <2>2, <2>3, <3>1
  <2>4. CASE s[i + 1].topic # h.topic
    <3>1. shown[p][s[i + 1].topic] <= s[i + 1].ver
      BY <1>6, <2>1, <2>2 DEF Ahead
    <3> QED
      BY <1>12, <2>1, <2>2, <2>4, <3>1
  <2> QED
    BY <2>3, <2>4
<1>16. ASSUME NEW q \in Page, NEW d \in Conn, page[q].socket = d
       PROVE  (q = p /\ d = c) \/ (q # p /\ d # c)
  <2>1. c # None /\ d # None
    BY OutsideTypes DEF Inv
  <2>2. \A r \in Page : r # p /\ page[p].socket # None => page[p].socket # page[r].socket
    BY DEF Inv, Control, PagesOK
  <2>3. page[p].socket = c
    BY <1>1
  <2> QED
    BY <1>16, <2>1, <2>2, <2>3
<1>17. ASSUME NEW q \in Page, NEW d \in Conn, page[q].socket = d
       PROVE  Ahead(Way(d)', shown'[q])
  <2>1. CASE q = p /\ d = c
    BY <1>9, <1>15, <2>1
  <2>2. CASE q # p /\ d # c
    <3>1. Way(d)' = Way(d) /\ shown'[q] = shown[q]
      BY <1>5, <1>12, <2>2
    <3>2. Ahead(Way(d), shown[q])
      BY <1>17 DEF Inv, InOrder
    <3> QED
      BY <3>1, <3>2
  <2> QED
    BY <1>16, <1>17, <2>1, <2>2
<1>18. ASSUME NEW q \in Page, NEW t \in Topic PROVE shown'[q][t] <= ver[t]
  <2>1. shown[q][t] <= ver[t]
    BY DEF Inv, InOrder
  <2> QED
    BY <1>11, <1>12, <2>1
<1>19. InOrder'
  BY <1>3, <1>14, <1>17, <1>18 DEF InOrder
<1>20. ASSUME NEW q \in Page, NEW d \in Conn, NEW t \in Locked, page[q].socket = d,
              link[d] = "up", Past(d, t), t \notin missed[d]
       PROVE  Brings(Way(d)', t, shown'[q][t], ver[t])
  <2>1. Brings(Way(d), t, shown[q][t], ver[t]) /\ t \in Topic
    BY <1>0, <1>20 DEF Inv, Arriving
  <2>2. CASE q = p /\ d = c
    <3>1. Brings(s, t, shown[p][t], ver[t])
      BY <2>1, <2>2 DEF s
    <3>2. Brings(Tail(s), t, IF h.topic = t THEN h.ver ELSE shown[p][t], ver[t])
      BY <1>6, <2>1, <3>1, BringsTail DEF h
    <3>3. shown'[p][t] = IF h.topic = t THEN h.ver ELSE shown[p][t]
      BY <1>12, <2>1
    <3> QED
      BY <1>9, <2>2, <3>2, <3>3
  <2>3. CASE q # p /\ d # c
    BY <1>5, <1>12, <2>1, <2>3
  <2> QED
    BY <1>16, <1>20, <2>2, <2>3
<1>21. Arriving'
  <2>1. \A d \in Conn, t \in Locked : Past(d, t)' <=> Past(d, t)
    BY <1>3 DEF Past
  <2> QED
    BY <1>3, <1>20, <2>1 DEF Arriving
<1> QED
  BY <1>19, <1>21 DEF Inv

-----------------------------------------------------------------------------
(* The invariant holds, and what it gives.                                 *)

LEMMA InitInv == Init => Inv
<1> SUFFICES ASSUME Init PROVE Inv
  OBVIOUS
<1>1. Channels /\ Control
  BY InitControl
<1>2. \A c \in Conn : Way(c) = <<>> /\ link[c] = "down"
  BY DEF Init, Way
<1>3. DOMAIN <<>> = {}
  BY Bounds, LenProperties
<1>4. InOrder
  <2>1. \A c \in Conn : Sorted(Way(c)) /\ UpTo(Way(c), ver) /\ \A sh : Ahead(Way(c), sh)
    BY <1>2, <1>3 DEF Sorted, UpTo, Ahead
  <2>2. \A p \in Page : \A t \in Topic : shown[p][t] <= ver[t]
    <3>1. \A p \in Page, t \in Topic : shown[p][t] = 0 /\ ver[t] = 1
      BY DEF Init
    <3> QED
      BY <3>1
  <2> QED
    BY <2>1, <2>2 DEF InOrder
<1>5. Arriving
  BY <1>2 DEF Arriving
<1> QED
  BY <1>1, <1>4, <1>5 DEF Inv

LEMMA StepInv == Inv /\ [Next]_vars => Inv'
<1> SUFFICES ASSUME Inv, [Next]_vars PROVE Inv'
  OBVIOUS
<1>1. Channels' /\ Control'
  BY StepControl DEF Inv
<1>2. CASE Changes
  BY <1>1, <1>2, PublishersInv
<1>3. CASE \E t \in Topic : ChangeLocked(t) \/ ChangeQuietly(t)
  BY <1>1, <1>3, LockedInv
<1>4. CASE \E c \in Conn : Handle(c)
  BY <1>1, <1>4, HandleInv
<1>5. CASE (\E c \in Conn : Break(c)) \/ CloseAllWS
  BY <1>1, <1>5, FaultInv
<1>6. CASE \E p \in Page : Browser(p) \/ Disconnect(p)
  <2>1. PICK p \in Page : Browser(p) \/ Disconnect(p)
    BY <1>6
  <2>2. CASE Dial(p) \/ OnClose(p)
    BY <1>1, <2>2, SocketInv
  <2>3. CASE OnOpen(p) \/ Disconnect(p)
    BY <1>1, <2>3, OpenInv
  <2>4. CASE OnMessage(p)
    BY <1>1, <2>4, OnMessageInv
  <2> QED
    BY <2>1, <2>2, <2>3, <2>4 DEF Browser
<1>7. CASE Restart
  BY <1>1, <1>7, RestartInv
<1>8. CASE UNCHANGED vars
  <2>1. UNCHANGED <<ver, wire, held, buf, shown, missed, handler, page, link>>
    BY <1>8 DEF vars, srvVars, hdlVars, netVars, pageVars
  <2>2. Inv' <=> Inv
    BY <1>1, <2>1 DEF Inv, InOrder, Arriving, Way, Flow, Past
  <2> QED
    BY <2>2
<1> QED
  BY <1>2, <1>3, <1>4, <1>5, <1>6, <1>7, <1>8 DEF Next

LEMMA Invariant == Spec => []Inv
<1> QED
  BY InitInv, StepInv, PTL DEF Spec

\* TypeOK: every variable of the server, the connections and the pages keeps its
\* type, no subscriber's channel outgrows the capacity of hub.go and no handler
\* holds two messages, however many connections come, go and break.
THEOREM FeedTypes == Spec => []TypeOK
<1>1. Inv => TypeOK
  BY TypeOKParts DEF Inv, Control
<1> QED
  BY <1>1, Invariant, PTL

LEMMA SubscribedIsPast ==
    ASSUME Control, NEW c \in subs, NEW t \in Locked
    PROVE  Past(c, t)
<1>1. c \in Conn /\ handler[c].next = Len(Order) + 1
  BY DEF Control, Fields, HandlerOK
<1>2. PICK i \in DOMAIN Order : Order[i] = t
  BY FeedAssumption DEF FeedAssumption
<1>3. i \in 1..Len(Order) /\ Len(Order) \in Nat
  BY <1>2, Bounds, FeedAssumption, LenProperties DEF FeedAssumption
<1> QED
  BY <1>1, <1>2, <1>3 DEF Past

\* NothingElseLost: whatever the publishers, the hub, the handlers and the
\* connections do in whatever order, a page whose connection lasts and whose
\* handler is subscribed will show the present state of the broadcast once it has
\* read what is under way, but for the gaps of the code named at the property.
THEOREM OnlyNamedLosses == Spec => []NothingElseLost
<1>1. ASSUME Inv PROVE NothingElseLost
  <2> SUFFICES ASSUME NEW p \in Page, page[p].socket \in subs, link[page[p].socket] = "up",
                      NEW t \in Locked, t \notin missed[page[p].socket]
               PROVE  Brings(Flow(page[p].socket), t, shown[p][t], ver[t])
    BY DEF NothingElseLost
  <2> DEFINE c == page[p].socket
  <2>1. c \in Conn /\ Past(c, t)
    BY <1>1, SubscribedIsPast DEF Inv, Control, Fields
  <2>2. Brings(Way(c), t, shown[p][t], ver[t])
    BY <1>1, <2>1 DEF Inv, Arriving
  <2>3. Way(c) = Flow(c)
    BY DEF Way
  <2> QED
    BY <2>2, <2>3
<1> QED
  BY <1>1, Invariant, PTL

-----------------------------------------------------------------------------
(* The feed implements StatusFeed.                                         *)

\* A change of some topics, each by one state.
LEMMA ChangeImplements ==
    ASSUME Inv, NEW T \in SUBSET Topic, shown' = shown,
           ver' = [t \in Topic |-> IF t \in T THEN ver[t] + 1 ELSE ver[t]]
    PROVE  Feed!Next
BY DEF Feed!Next, Feed!Change

\* What a page takes from its connection is a state its topic was in, and of the
\* broadcast one no older than it shows.
LEMMA MessageImplements ==
    ASSUME Inv, NEW p \in Page, OnMessage(p)
    PROVE  Feed!Next
<1>1. page[p].socket \in Conn /\ Channels /\ Control
  BY OutsideTypes DEF OnMessage, Inv, Control, PagesOK, PageFrames
<1>2. PICK c \in Conn :
        /\ page[p].socket = c /\ wire[c] # <<>>
        /\ shown' = [shown EXCEPT ![p][Head(wire[c]).topic] = Head(wire[c]).ver]
        /\ ver' = ver
  BY <1>1 DEF OnMessage, srvVars
<1>3. wire[c] \in Seq(Event) /\ held[c] \in Seq(Event) /\ buf[c] \in Seq(Event)
  BY <1>1, ChannelTypes
<1> DEFINE s == Way(c)
           h == Head(wire[c])
<1>4. s \in Seq(Event) /\ s # <<>> /\ Head(s) = h
  <2>1. wire[c] # <<>>
    BY <1>2
  <2>2. wire[c] \o held[c] \o buf[c] # <<>> /\ Head(wire[c] \o held[c] \o buf[c]) = Head(wire[c])
    BY <1>3, <2>1, FlowShown
  <2> QED
    BY <1>1, <2>1, <2>2, WayType DEF Way, Flow
<1>5. UpTo(s, ver) /\ Ahead(s, shown[p])
  BY <1>2 DEF Inv, InOrder
<1> HIDE DEF s
<1>6. 1 \in DOMAIN s /\ s[1] \in Event /\ h = s[1]
  <2>1. Len(s) \in Nat /\ Len(s) # 0 /\ DOMAIN s = 1..Len(s)
    BY <1>4, EmptySeq, LenProperties
  <2>2. s[1] \in Event
    BY <1>4, <2>1, ElementOfSeq
  <2>3. h = s[1]
    BY <1>4
  <2> QED
    BY <2>1, <2>2, <2>3
<1> HIDE DEF h
<1>7. /\ h.topic \in Topic /\ h.ver \in Nat \ {0} /\ h.ver <= ver[h.topic]
      /\ h.topic \in Locked => shown[p][h.topic] <= h.ver
  BY <1>5, <1>6 DEF UpTo, Ahead, Event
<1>8. ver[h.topic] \in Nat /\ shown[p][h.topic] \in Nat
  BY <1>1, <1>7, OutsideTypes DEF Control, Fields
<1>9. h.ver \in 1..ver[h.topic] /\ (h.topic \in Locked => h.ver >= shown[p][h.topic])
  BY <1>7, <1>8
<1>10. shown' = [shown EXCEPT ![p][h.topic] = h.ver] /\ ver' = ver
  BY <1>2 DEF h
<1>11. Feed!Show(p, h.topic)
  BY <1>9, <1>10 DEF Feed!Show
<1> QED
  BY <1>7, <1>11 DEF Feed!Next

LEMMA StepImplements == Inv /\ [Next]_vars => [Feed!Next]_<<ver, shown>>
<1> SUFFICES ASSUME Inv, [Next]_vars PROVE [Feed!Next]_<<ver, shown>>
  OBVIOUS
<1>0. ver \in [Topic -> Nat \ {0}]
  BY DEF Inv, Control, Fields
<1>1. CASE Changes
  <2>1. ASSUME NEW g \in Publisher, NEW t \in Topic, Change(g, t) PROVE Feed!Next
    <3>1. ver' = [u \in Topic |-> IF u \in {t} THEN ver[u] + 1 ELSE ver[u]] /\ shown' = shown
      BY <1>0, <2>1 DEF Change, pageVars
    <3> QED
      BY <3>1, ChangeImplements
  <2>2. ASSUME NEW g \in Publisher, ReadState(g) \/ Publish(g) PROVE UNCHANGED <<ver, shown>>
    BY <2>2 DEF ReadState, Publish, pageVars
  <2> QED
    BY <1>1, <2>1, <2>2 DEF Changes
<1>2. CASE \E t \in Topic : ChangeLocked(t) \/ ChangeQuietly(t)
  <2>1. PICK t \in Topic : ChangeLocked(t) \/ ChangeQuietly(t)
    BY <1>2
  <2>2. ver' = [u \in Topic |-> IF u \in {t} THEN ver[u] + 1 ELSE ver[u]] /\ shown' = shown
    BY <1>0, <2>1 DEF ChangeLocked, ChangeQuietly, pageVars
  <2> QED
    BY <2>2, ChangeImplements
<1>3. CASE Restart
  <2>1. ver' = [u \in Topic |-> IF u \in Topic THEN ver[u] + 1 ELSE ver[u]] /\ shown' = shown
    BY <1>3 DEF Restart, pageVars
  <2> QED
    BY <2>1, ChangeImplements
<1>4. CASE \E p \in Page : OnMessage(p)
  BY <1>4, MessageImplements
<1>5. ASSUME NEW c \in Conn, Handle(c) \/ Break(c) PROVE UNCHANGED <<ver, shown>>
  BY <1>5 DEF Handle, Accept, Track, ReadSnapshot, Write, Subscribe, Take, Fail, Cancel,
              Untrack, Break, srvVars, pageVars
<1>6. ASSUME NEW p \in Page, Dial(p) \/ OnOpen(p) \/ OnClose(p) \/ Disconnect(p)
      PROVE  UNCHANGED <<ver, shown>>
  BY <1>6 DEF Dial, OnOpen, OnClose, Disconnect, srvVars
<1>7. CASE CloseAllWS
  BY <1>7 DEF CloseAllWS, srvVars, pageVars
<1>8. CASE UNCHANGED vars
  BY <1>8 DEF vars, srvVars, pageVars
<1>9. CASE \E p \in Page : Browser(p) \/ Disconnect(p)
  BY <1>4, <1>6, <1>9 DEF Browser
<1> QED
  BY <1>1, <1>2, <1>3, <1>5, <1>7, <1>8, <1>9 DEF Next

\* ShowsOnlyProgress: for any number of pages, connections, restarts and
\* reconnections, the feed implements StatusFeed.  A page only ever shows a state
\* the server was in, and never an older state of the broadcast after a newer one
\* (broadcast.go publishes under the lock it changes under, and hub, handler and
\* connection are FIFOs).
THEOREM FeedImplements == Spec => ShowsOnlyProgress
<1>1. Init => Feed!Init
  BY DEF Init, Feed!Init
<1> QED
  BY <1>1, Invariant, StepImplements, PTL DEF Spec, ShowsOnlyProgress, Feed!Spec
=============================================================================

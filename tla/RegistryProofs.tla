--------------------------- MODULE RegistryProofs ---------------------------
(***************************************************************************)
(* What the domain services keep true for any number of rows and requests. *)
(* Every step does one of three things: it moves a request between its      *)
(* statements, it writes one row that the schema accepts, or it marks one   *)
(* row as gone.  The invariant is shown for each of the three.              *)
(***************************************************************************)
EXTENDS Registry, TLAPS

\* What TypeOK says of one frame.
Fits(f) == f.pc # "idle" =>
    /\ f.table \in Tables /\ HasColumns(f.table, f.row)
    /\ f.row.state = "live" /\ f.id \in f.table \cup {None}
    /\ f.id # None => db[f.id].state # "free"

Inv == TypeOK /\ TuplesUnique /\ PlatformReferenced

\* One row of a table written as the schema allows.
Writes(table, i, row) ==
    /\ table \in Tables /\ i \in table /\ row \in Rows /\ row.state = "live"
    /\ HasColumns(table, row)
    /\ table # ClientID => ~Taken(table, i, row)
    /\ row.client # None => db[row.client].state # "free"
    /\ row.platform # None => Live(row.platform)
    /\ db' = [db EXCEPT ![i] = row]

\* One row marked as gone: not a platform that a live id refers to.
Drops(i) ==
    /\ i \in ID /\ Live(i)
    /\ i \in PlatformID => ~\E l \in LiveID : Live(l) /\ db[l].platform = i
    /\ db' = [db EXCEPT ![i].state = "gone"]

OneRow == (\E table, i, row : Writes(table, i, row)) \/ (\E i : Drops(i))

-----------------------------------------------------------------------------
LEMMA InitInv == Init => Inv
<1> SUFFICES ASSUME Init PROVE Inv
  OBVIOUS
<1>1. /\ db \in [ID -> Rows] /\ \A i \in ID : db[i].state = "free"
  BY DEF Init, NoRow, Rows
<1>2. /\ th \in [Request -> Frames] /\ \A t \in Request : th[t].pc = "idle"
  BY DEF Init, Idle, Frames, NoRow, Rows
<1>3. \A table \in Tables : table \subseteq ID
  BY DEF Tables, ID
<1>4. QED
  BY <1>1, <1>2, <1>3 DEF Inv, TypeOK, TuplesUnique, PlatformReferenced, Live, ID, Tables

\* Rows keep their types, and are never free again, when one is written.
LEMMA WriteKeepsRows ==
    ASSUME TypeOK, NEW table, NEW i, NEW row, Writes(table, i, row)
    PROVE  /\ db' \in [ID -> Rows]
           /\ \A u \in Tables : \A j \in u : db'[j].state # "free" => HasColumns(u, db'[j])
           /\ \A j \in ID : db[j].state # "free" => db'[j].state # "free"
<1>1. i \in ID /\ db \in [ID -> Rows]
  BY DEF Writes, TypeOK, Tables, ID
<1>2. \A u \in Tables : i \in u => u = table
  BY RegistryAssumption DEF Writes, Tables
<1>3. \A u \in Tables : u \subseteq ID
  BY DEF Tables, ID
<1>4. QED
  BY <1>1, <1>2, <1>3 DEF Writes, TypeOK

LEMMA DropKeepsRows ==
    ASSUME TypeOK, NEW i, Drops(i)
    PROVE  /\ db' \in [ID -> Rows]
           /\ \A u \in Tables : \A j \in u : db'[j].state # "free" => HasColumns(u, db'[j])
           /\ \A j \in ID : db[j].state # "free" => db'[j].state # "free"
<1>1. i \in ID /\ db \in [ID -> Rows] /\ db[i] \in Rows
  BY DEF Drops, TypeOK
<1>2. \A u \in Tables : u \subseteq ID
  BY DEF Tables, ID
<1>3. \A j \in ID : db'[j] = IF j = i THEN [db[i] EXCEPT !.state = "gone"] ELSE db[j]
  BY <1>1 DEF Drops
<1>4. [db[i] EXCEPT !.state = "gone"] \in Rows
  BY <1>1 DEF Rows
<1>5. db' \in [ID -> Rows]
  BY <1>1, <1>4 DEF Drops
<1>6. \A j \in ID : /\ db'[j].key = db[j].key /\ db'[j].extra = db[j].extra
                    /\ db'[j].client = db[j].client /\ db'[j].platform = db[j].platform
                    /\ db'[j].state # "free" <=> db[j].state # "free"
  BY <1>1, <1>3 DEF Rows, Drops, Live
<1>7. QED
  BY <1>2, <1>5, <1>6 DEF TypeOK, HasColumns

\* The rows' half of the invariant.
RowsInv == TuplesUnique /\ PlatformReferenced

LEMMA WriteKeepsRowsInv ==
    ASSUME TypeOK, RowsInv, NEW table, NEW i, NEW row, Writes(table, i, row)
    PROVE  RowsInv'
<1>1. /\ i \in ID /\ db \in [ID -> Rows] /\ \A u \in Tables : u \subseteq ID
      /\ \A j \in ID : db'[j] = IF j = i THEN row ELSE db[j]
  BY DEF Writes, TypeOK, Tables, ID
<1>2. \A u \in Tables : i \in u => u = table
  BY RegistryAssumption DEF Writes, Tables
<1>3. TuplesUnique'
  <2> SUFFICES ASSUME NEW u \in Tables \ {ClientID}, NEW j \in u, NEW k \in u,
                      Live(j)', Live(k)', SameTuple(db[j], db[k])'
               PROVE  j = k
    BY DEF TuplesUnique
  <2>1. CASE j = i /\ k # i
    BY <1>1, <1>2, <2>1 DEF Writes, Taken, SameTuple, Live
  <2>2. CASE j # i /\ k = i
    BY <1>1, <1>2, <2>2 DEF Writes, Taken, SameTuple, Live
  <2>3. CASE j # i /\ k # i
    BY <1>1, <2>3 DEF RowsInv, TuplesUnique, SameTuple, Live
  <2>4. QED
    BY <2>1, <2>2, <2>3
<1>4. PlatformReferenced'
  <2> SUFFICES ASSUME NEW l \in LiveID, Live(l)' PROVE Live(db[l].platform)'
    BY DEF PlatformReferenced
  <2>1. l \in ID /\ LiveID \in Tables /\ i \in table /\ row.state = "live"
    BY DEF Writes, ID, Tables
  <2>2. CASE l = i
    <3>1. row.platform # None /\ Live(row.platform)
      BY <1>2, <2>1, <2>2 DEF Writes, HasColumns
    <3>2. row.platform \in ID
      BY <3>1, RegistryAssumption DEF Writes, Rows, ID
    <3>3. QED
      BY <1>1, <2>1, <2>2, <3>1, <3>2 DEF Live
  <2>3. CASE l # i
    <3>1. Live(l) /\ Live(db[l].platform)
      BY <1>1, <2>1, <2>3 DEF RowsInv, PlatformReferenced, Live
    <3>2. db[l].platform \in ID
      <4>1. db[l].platform # None
        BY <2>1, <3>1 DEF TypeOK, HasColumns, Live
      <4>2. QED
        BY <1>1, <2>1, <4>1 DEF Rows, ID
    <3>3. QED
      BY <1>1, <2>1, <2>3, <3>1, <3>2 DEF Live
  <2>4. QED
    BY <2>2, <2>3
<1>5. QED
  BY <1>3, <1>4 DEF RowsInv

LEMMA DropKeepsRowsInv ==
    ASSUME TypeOK, RowsInv, NEW i, Drops(i)
    PROVE  RowsInv'
<1>1. /\ i \in ID /\ db \in [ID -> Rows] /\ db[i] \in Rows
      /\ \A u \in Tables : u \subseteq ID
  BY DEF Drops, TypeOK, Tables, ID
<1>2. \A j \in ID : db'[j] = IF j = i THEN [db[i] EXCEPT !.state = "gone"] ELSE db[j]
  BY <1>1 DEF Drops
<1>3. \A j \in ID : /\ db'[j].key = db[j].key
                    /\ db'[j].client = db[j].client /\ db'[j].platform = db[j].platform
                    /\ db'[j].state # "free" <=> db[j].state # "free"
                    /\ Live(j)' <=> Live(j) /\ j # i
  BY <1>1, <1>2 DEF Rows, Drops, Live
<1>4. TuplesUnique'
  BY <1>1, <1>3 DEF RowsInv, TuplesUnique, SameTuple
<1>5. PlatformReferenced'
  <2> SUFFICES ASSUME NEW l \in LiveID, Live(l)' PROVE Live(db[l].platform)'
    BY DEF PlatformReferenced
  <2>1. l \in ID /\ Live(l) /\ db'[l].platform = db[l].platform
    BY <1>3 DEF ID
  <2>2. Live(db[l].platform)
    BY <2>1 DEF RowsInv, PlatformReferenced
  <2>3. db[l].platform \in PlatformID
    <3>1. db[l].platform # None
      BY <2>1 DEF TypeOK, HasColumns, Live, Tables
    <3>2. QED
      BY <1>1, <2>1, <3>1 DEF Rows
  <2>4. db[l].platform # i
    BY <2>1, <2>3 DEF Drops
  <2>5. QED
    BY <1>3, <2>1, <2>2, <2>3, <2>4 DEF ID, Live
<1>6. QED
  BY <1>4, <1>5 DEF RowsInv

-----------------------------------------------------------------------------
\* Whatever happens to the rows, a frame that fits goes on fitting.
LEMMA FramesKept ==
    ASSUME TypeOK, NEW t \in Request,
           \A j \in ID : db[j].state # "free" => db'[j].state # "free",
           \A s \in Request \ {t} : th'[s] = th[s],
           Fits(th[t])'
    PROVE  \A s \in Request : Fits(th[s])'
<1>1. \A s \in Request : Fits(th[s]) /\ th[s] \in Frames
  BY DEF TypeOK, Fits
<1>2. ASSUME NEW s \in Request \ {t} PROVE Fits(th[s])'
  <2>1. th'[s] = th[s] /\ th[s] \in Frames /\ Fits(th[s])
    BY <1>1, <1>2
  <2>2. th[s].pc # "idle" /\ th[s].id # None => th[s].id \in ID
    BY <2>1 DEF Frames
  <2>3. QED
    BY <2>1, <2>2 DEF Fits, HasColumns
<1>3. QED
  BY <1>2

\* A step between statements.
LEMMA MoveStep ==
    ASSUME Inv, UNCHANGED db, NEW t \in Request, NEW f \in Frames,
           th' = [th EXCEPT ![t] = f], Fits(f)
    PROVE  Inv'
<1>1. th \in [Request -> Frames] /\ th' \in [Request -> Frames]
  BY DEF Inv, TypeOK
<1>2. /\ th'[t] = f /\ \A s \in Request \ {t} : th'[s] = th[s]
  BY <1>1
<1>3. Fits(th[t])'
  BY <1>2 DEF Fits, HasColumns
<1>4. \A s \in Request : Fits(th[s])'
  BY <1>2, <1>3, FramesKept DEF Inv
<1>5. TypeOK'
  BY <1>1, <1>4 DEF Inv, TypeOK, Fits, HasColumns
<1>6. QED
  BY <1>5 DEF Inv, TuplesUnique, PlatformReferenced, Live, SameTuple

LEMMA IdleFits == Idle \in Frames /\ Fits(Idle)
BY DEF Idle, Frames, Fits, NoRow, Rows

\* A step that writes or drops a row and returns, or drops one and leaves the
\* frames alone.
LEMMA RowStep ==
    ASSUME Inv, NEW t \in Request, th' = [th EXCEPT ![t] = Idle] \/ (th' = th /\ th[t].pc = "idle"),
           OneRow
    PROVE  Inv'
<1>1. /\ db' \in [ID -> Rows]
      /\ \A u \in Tables : \A j \in u : db'[j].state # "free" => HasColumns(u, db'[j])
      /\ \A j \in ID : db[j].state # "free" => db'[j].state # "free"
  BY WriteKeepsRows, DropKeepsRows DEF Inv, OneRow
<1>2. RowsInv'
  BY WriteKeepsRowsInv, DropKeepsRowsInv DEF Inv, RowsInv, OneRow
<1>3. th \in [Request -> Frames] /\ th' \in [Request -> Frames]
  BY IdleFits DEF Inv, TypeOK
<1>4. /\ \A s \in Request \ {t} : th'[s] = th[s]
      /\ th'[t].pc = "idle"
  BY <1>3 DEF Idle
<1>5. Fits(th[t])'
  BY <1>4 DEF Fits
<1>6. \A s \in Request : Fits(th[s])'
  BY <1>1, <1>4, <1>5, FramesKept DEF Inv
<1>7. TypeOK'
  BY <1>1, <1>3, <1>6 DEF TypeOK, Fits, HasColumns
<1>8. QED
  BY <1>2, <1>7 DEF Inv, RowsInv

-----------------------------------------------------------------------------
LEMMA InvStep == ASSUME Inv, Next PROVE Inv'
<1>0. PICK t \in Request : Transaction(t)
  BY DEF Next
<1> DEFINE f == th[t]
<1>1. /\ th \in [Request -> Frames] /\ f \in Frames /\ Fits(f)
      /\ db \in [ID -> Rows] /\ \A u \in Tables : u \subseteq ID
  BY DEF Inv, TypeOK, Fits, Tables, ID
<1>2. ASSUME UNCHANGED db, Return(t) PROVE Inv'
  BY <1>2, MoveStep, IdleFits DEF Return
<1>3. CASE Create(t)
  <2>1. PICK table \in Tables, c \in ClientID \cup {None}, p \in PlatformID \cup {None},
             k \in Key, x \in Extra :
        /\ c # None <=> table \in {IngestID, LiveID}
        /\ p # None <=> table = LiveID
        /\ th' = [th EXCEPT ![t] =
                    [pc |-> Checks(table), table |-> table, id |-> None,
                     row |-> [state |-> "live", client |-> c, platform |-> p, key |-> k, extra |-> x]]]
    BY <1>3 DEF Create
  <2> DEFINE row == [state |-> "live", client |-> c, platform |-> p, key |-> k, extra |-> x]
             g == [pc |-> Checks(table), table |-> table, id |-> None, row |-> row]
  <2>2. row \in Rows /\ HasColumns(table, row)
    BY <2>1 DEF Rows, HasColumns
  <2>3. g \in Frames /\ Fits(g)
    BY <2>2 DEF Frames, Fits, Checks
  <2>5. UNCHANGED db /\ th' = [th EXCEPT ![t] = g]
    BY <1>3, <2>1 DEF Create
  <2> HIDE DEF g
  <2>6. QED
    BY <2>3, <2>5, MoveStep
<1>4. ASSUME NEW label \in {"platform", "count", "write"}, UNCHANGED db, Goto(t, label), f.pc # "idle"
      PROVE  Inv'
  <2> DEFINE g == [f EXCEPT !.pc = label]
  <2>1. /\ g.pc = label /\ g.table = f.table /\ g.id = f.id /\ g.row = f.row
        /\ g \in Frames
    BY <1>1 DEF Frames
  <2>2. th' = [th EXCEPT ![t] = g]
    BY <1>1, <1>4 DEF Goto
  <2> HIDE DEF g
  <2>3. Fits(g)
    BY <1>1, <1>4, <2>1 DEF Fits
  <2>4. QED
    BY <1>4, <2>1, <2>2, <2>3, MoveStep
<1>5. CASE CheckClient(t)
  BY <1>2, <1>4, <1>5 DEF CheckClient
<1>6. CASE CheckPlatform(t)
  BY <1>1, <1>2, <1>4, <1>6 DEF CheckPlatform
<1>7. CASE CountTuple(t)
  BY <1>1, <1>2, <1>4, <1>7 DEF CountTuple
<1>8. CASE Update(t)
  <2>1. PICK table \in Tables : \E i \in table, k \in Key \cup {None}, x \in Extra \cup {None} :
        /\ Live(i)
        /\ th' = [th EXCEPT ![t] =
                    [pc |-> IF k = None THEN "write" ELSE "count", table |-> table, id |-> i,
                     row |-> Changed(db[i], k, x)]]
    BY <1>8 DEF Update
  <2>1a. PICK i \in table, k \in Key \cup {None}, x \in Extra \cup {None} :
        /\ Live(i)
        /\ th' = [th EXCEPT ![t] =
                    [pc |-> IF k = None THEN "write" ELSE "count", table |-> table, id |-> i,
                     row |-> Changed(db[i], k, x)]]
    BY <2>1
  <2> DEFINE row == Changed(db[i], k, x)
             g == [pc |-> IF k = None THEN "write" ELSE "count", table |-> table, id |-> i, row |-> row]
  <2>2. db[i] \in Rows /\ i \in ID /\ db[i].state = "live" /\ HasColumns(table, db[i])
    BY <1>1, <2>1a DEF Live, Inv, TypeOK
  <2>3. /\ row \in Rows /\ row.state = "live" /\ row.client = db[i].client
        /\ row.platform = db[i].platform
        /\ row.key = (IF k = None THEN db[i].key ELSE k)
        /\ row.extra = (IF x = None THEN db[i].extra ELSE x)
    BY <2>2 DEF Rows, Changed
  <2>4. UNCHANGED db /\ th' = [th EXCEPT ![t] = g]
    BY <1>8, <2>1a DEF Update
  <2> HIDE DEF row
  <2>5. HasColumns(table, row)
    BY <2>2, <2>3 DEF HasColumns
  <2>6. g \in Frames /\ Fits(g)
    BY <2>2, <2>3, <2>5 DEF Frames, Fits
  <2> HIDE DEF g
  <2>8. QED
    BY <2>4, <2>6, MoveStep
<1>9. CASE Insert(t)
  <2>1. CASE Accepts(f.table, None, f.row) /\ db' # db
    <3>1. PICK i \in f.table : db' = [db EXCEPT ![i] = f.row]
      BY <1>9, <2>1 DEF Insert
    <3>2. f.row \in Rows /\ f.pc = "write" /\ f.id = None /\ f.table \in Tables
      BY <1>1, <1>9 DEF Insert, Fits, Frames
    <3>3. f.row.state = "live" /\ HasColumns(f.table, f.row)
      BY <1>1, <3>2 DEF Fits
    <3>4. f.table # ClientID => ~Taken(f.table, i, f.row)
      BY <2>1, <1>1, <3>2, RegistryAssumption DEF Accepts, Taken, ID
    <3>5. Writes(f.table, i, f.row)
      BY <2>1, <3>1, <3>2, <3>3, <3>4 DEF Accepts, Writes
    <3>6. OneRow /\ th' = [th EXCEPT ![t] = Idle]
      BY <1>9, <3>5 DEF Insert, Return, OneRow
    <3>7. QED
      BY <3>6, RowStep
  <2>2. CASE UNCHANGED db
    BY <1>2, <1>9, <2>2 DEF Insert
  <2>3. QED
    BY <1>9, <2>1, <2>2 DEF Insert
<1>10. CASE Save(t)
  <2>1. CASE Accepts(f.table, f.id, f.row)
    <3>1. Writes(f.table, f.id, f.row)
      BY <1>1, <1>10, <2>1 DEF Save, Fits, Frames, Accepts, Writes
    <3>2. OneRow /\ th' = [th EXCEPT ![t] = Idle]
      BY <1>10, <3>1 DEF Save, Return, OneRow
    <3>3. QED
      BY <3>2, RowStep
  <2>2. CASE ~Accepts(f.table, f.id, f.row)
    BY <1>2, <1>10, <2>2 DEF Save
  <2>3. QED
    BY <2>1, <2>2
<1>11. CASE Abort(t)
  BY <1>2, <1>11 DEF Abort
<1>12. CASE Delete(t)
  <2>1. PICK i \in ID : Drops(i)
    BY <1>12 DEF Delete, Drops
  <2>2. QED
    BY <1>12, <2>1, RowStep DEF Delete, OneRow
<1>13. QED
  BY <1>0, <1>3, <1>5, <1>6, <1>7, <1>8, <1>9, <1>10, <1>11, <1>12 DEF Transaction

LEMMA InvStutters == ASSUME Inv, UNCHANGED vars PROVE Inv'
<1>1. db' = db /\ th' = th
  BY DEF vars
<1>2. QED
  BY <1>1 DEF Inv, TypeOK, HasColumns, TuplesUnique, PlatformReferenced, Live, SameTuple

LEMMA Invariance == Spec => []Inv
<1>1. Inv /\ [Next]_vars => Inv'
  BY InvStep, InvStutters
<1>2. QED
  BY InitInv, <1>1, PTL DEF Spec

\* Rows and frames keep their types.
THEOREM RegistryTypes == Spec => []TypeOK
<1>1. Inv => TypeOK
  BY DEF Inv
<1>2. QED
  BY Invariance, <1>1, PTL

\* No interleaving of counts and writes puts one slug, one url of a client or one
\* live id of a client and platform into two rows.
THEOREM TuplesNeverCollide == Spec => []TuplesUnique
<1>1. Inv => TuplesUnique
  BY DEF Inv
<1>2. QED
  BY Invariance, <1>1, PTL

\* Every live id has its platform, through deletions that race its creation and
\* updates that bring a deleted row back.
THEOREM PlatformNeverLost == Spec => []PlatformReferenced
<1>1. Inv => PlatformReferenced
  BY DEF Inv
<1>2. QED
  BY Invariance, <1>1, PTL
=============================================================================

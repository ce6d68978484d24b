------------------------------ MODULE Registry ------------------------------
(***************************************************************************)
(* The domain services (backend/internal/client, streamplatform, ingest,   *)
(* liveid) over their four PostgreSQL tables.                               *)
(*                                                                         *)
(* The services share one shape, and the model has it once.  A creation or *)
(* an update is a transaction: it reads, checks, and writes last.  At READ  *)
(* COMMITTED, the level of the server's connections, every statement sees   *)
(* what other transactions have committed by then, so a transaction is cut  *)
(* at its statements; the write takes effect with the commit that follows.  *)
(* The schema (dbconn.go) has unique indexes and foreign keys for all but   *)
(* the names of clients.                                                    *)
(***************************************************************************)
EXTENDS Naturals

CONSTANTS ClientID, PlatformID, IngestID, LiveID,   \* uuids of the four tables
          Key,       \* client names, slugs, urls, live ids, as New normalises them
          Extra,     \* the other editable columns of a row, as one value
          Request,   \* goroutines serving HTTP requests
          None

ID == ClientID \cup PlatformID \cup IngestID \cup LiveID

Tables == {ClientID, PlatformID, IngestID, LiveID}

ASSUME RegistryAssumption ==
    /\ {} \notin Tables
    /\ None \notin ID \cup Key \cup Extra
    /\ ClientID \cap PlatformID = {} /\ ClientID \cap IngestID = {}
    /\ ClientID \cap LiveID = {} /\ PlatformID \cap IngestID = {}
    /\ PlatformID \cap LiveID = {} /\ IngestID \cap LiveID = {}

VARIABLES
    db,    \* the row of each uuid
    th     \* frames of the requests inside a transaction

vars == <<db, th>>

Rows   == [state : {"free", "live", "gone"},         \* gone: deleted, softly or not
           client : ClientID \cup {None}, platform : PlatformID \cup {None},
           key : Key \cup {None}, extra : Extra \cup {None}]
NoRow  == [state |-> "free", client |-> None, platform |-> None, key |-> None, extra |-> None]

\* id is None while the row is a new one.
Idle   == [pc |-> "idle", table |-> {}, id |-> None, row |-> NoRow]
Frames == [pc : {"idle", "client", "platform", "count", "write"},
           table : Tables \cup {{}}, id : ID \cup {None}, row : Rows]

Live(i)   == db[i].state = "live"
Exists(i) == Live(i)                   \* client.Service and streamplatform.Service
Return(t) == th' = [th EXCEPT ![t] = Idle]
Goto(t, label) == th' = [th EXCEPT ![t].pc = label]

\* Equal in the columns of the table's unique index.
SameTuple(a, b) == a.client = b.client /\ a.platform = b.platform /\ a.key = b.key
Taken(table, id, row) == \E j \in table \ {id} : Live(j) /\ SameTuple(db[j], row)

\* The checks of the service, in their order.
Checks(table) == IF table \in {IngestID, LiveID} THEN "client" ELSE "count"

-----------------------------------------------------------------------------
\* What New builds from a valid request.
Create(t) ==
    /\ th[t].pc = "idle"
    /\ \E table \in Tables, c \in ClientID \cup {None}, p \in PlatformID \cup {None},
          k \in Key, x \in Extra :
        /\ c # None <=> table \in {IngestID, LiveID}
        /\ p # None <=> table = LiveID
        /\ th' = [th EXCEPT ![t] =
                    [pc |-> Checks(table), table |-> table, id |-> None,
                     row |-> [state |-> "live", client |-> c, platform |-> p, key |-> k, extra |-> x]]]
    /\ UNCHANGED db

CheckClient(t) ==
    /\ th[t].pc = "client"
    /\ IF ~Exists(th[t].row.client) THEN Return(t)
       ELSE Goto(t, IF th[t].table = LiveID THEN "platform" ELSE "count")
    /\ UNCHANGED db

CheckPlatform(t) ==
    /\ th[t].pc = "platform"
    /\ IF Exists(th[t].row.platform) THEN Goto(t, "count") ELSE Return(t)
    /\ UNCHANGED db

\* What Update makes of the row it has read: a field that the request does not
\* carry keeps its value.  Only an ingest's request has to carry one.
Changed(row, k, x) == [row EXCEPT !.key = IF k = None THEN @ ELSE k,
                                  !.extra = IF x = None THEN @ ELSE x]
Asked(table, k, x) == table = IngestID => k # None \/ x # None

\* Variant: a key that the request does not carry is written, too.
VariantUpdate(t) ==
    /\ th[t].pc = "idle"
    /\ \E table \in Tables : \E i \in table, k \in Key \cup {None}, x \in Extra \cup {None} :
        /\ Live(i)
        /\ th' = [th EXCEPT ![t] = [pc |-> "count", table |-> table, id |-> i,
                                   row |-> [db[i] EXCEPT !.key = k]]]
    /\ UNCHANGED db

\* First, with the changes of the request.  Only a new key is counted.
Update(t) ==
    /\ th[t].pc = "idle"
    /\ \E table \in Tables : \E i \in table, k \in Key \cup {None}, x \in Extra \cup {None} :
        /\ Live(i) /\ Asked(table, k, x)
        /\ th' = [th EXCEPT ![t] =
                    [pc |-> IF k = None THEN "write" ELSE "count", table |-> table, id |-> i,
                     row |-> Changed(db[i], k, x)]]
    /\ UNCHANGED db

CountTuple(t) ==
    /\ th[t].pc = "count"
    /\ IF Taken(th[t].table, th[t].id, th[t].row) THEN Return(t) ELSE Goto(t, "write")
    /\ UNCHANGED db

\* Variant: a schema without unique indexes.
VariantAccepts(table, id, row) ==
    /\ row.client # None => db[row.client].state # "free"
    /\ row.platform # None => Live(row.platform)

\* The indexes and the foreign keys.  A deleted client is still a row.
Accepts(table, id, row) ==
    /\ table # ClientID => ~Taken(table, id, row)
    /\ row.client # None => db[row.client].state # "free"
    /\ row.platform # None => Live(row.platform)

Insert(t) ==
    /\ th[t].pc = "write" /\ th[t].id = None
    /\ \/ /\ Accepts(th[t].table, None, th[t].row)
          /\ \E i \in th[t].table :
                db[i].state = "free" /\ db' = [db EXCEPT ![i] = th[t].row]
       \/ ~Accepts(th[t].table, None, th[t].row) /\ UNCHANGED db
    /\ Return(t)

\* All columns of the row; and gorm inserts the row when the update finds none,
\* so that a row deleted in the meantime comes back.
Save(t) ==
    /\ th[t].pc = "write" /\ th[t].id # None
    /\ db' = IF Accepts(th[t].table, th[t].id, th[t].row)
             THEN [db EXCEPT ![th[t].id] = th[t].row] ELSE db
    /\ Return(t)

\* The request is cancelled or the database fails: the transaction rolls back.
Abort(t) == th[t].pc # "idle" /\ Return(t) /\ UNCHANGED db

\* Variant: platform_id without REFERENCES.
VariantDelete(t) ==
    /\ th[t].pc = "idle"
    /\ \E i \in ID : Live(i) /\ db' = [db EXCEPT ![i].state = "gone"]
    /\ UNCHANGED th

\* A platform in use is kept by the foreign key; a client's ingests and live
\* ids stay.
Delete(t) ==
    /\ th[t].pc = "idle"
    /\ \E i \in ID :
        /\ Live(i)
        /\ i \in PlatformID => ~\E l \in LiveID : Live(l) /\ db[l].platform = i
        /\ db' = [db EXCEPT ![i].state = "gone"]
    /\ UNCHANGED th

Init == /\ db = [i \in ID |-> NoRow]
        /\ th = [t \in Request |-> Idle]

Transaction(t) ==
    \/ Create(t) \/ CheckClient(t) \/ CheckPlatform(t) \/ Update(t) \/ CountTuple(t)
    \/ Insert(t) \/ Save(t) \/ Abort(t) \/ Delete(t)
Next == \E t \in Request : Transaction(t)
Spec == Init /\ [][Next]_vars

-----------------------------------------------------------------------------
(* Properties.                                                             *)

\* Rows and frames keep their types: a row of a table has the columns of the
\* table, and what a transaction is about to write is such a row.
HasColumns(table, row) ==
    /\ row.key \in Key /\ row.extra \in Extra
    /\ row.client # None <=> table \in {IngestID, LiveID}
    /\ row.platform # None <=> table = LiveID
TypeOK ==
    /\ db \in [ID -> Rows]
    /\ th \in [Request -> Frames]
    /\ \A table \in Tables : \A i \in table : db[i].state # "free" => HasColumns(table, db[i])
    /\ \A t \in Request : th[t].pc # "idle" =>
          /\ th[t].table \in Tables /\ HasColumns(th[t].table, th[t].row)
          /\ th[t].row.state = "live" /\ th[t].id \in th[t].table \cup {None}
          /\ th[t].id # None => db[th[t].id].state # "free"

\* No two platforms have one slug, no two ingests of a client one url, no two
\* live ids of a client one id on one platform - although the count that looks
\* for them and the write are two statements (dbconn.go:41, 52, 66).
TuplesUnique ==
    \A table \in Tables \ {ClientID} : \A i, j \in table :
        Live(i) /\ Live(j) /\ SameTuple(db[i], db[j]) => i = j

\* The platform of every live id exists, whatever deletion raced its creation
\* or brought it back: the broadcast finds a push url for it (dbconn.go:55).
PlatformReferenced == \A l \in LiveID : Live(l) => Live(db[l].platform)
=============================================================================

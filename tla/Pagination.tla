----------------------------- MODULE Pagination -----------------------------
(***************************************************************************)
(* A walk through one of the paginated listings: keyset pages               *)
(* (backend/internal/pagination) over a table that others write to between  *)
(* the fetches.  The four services' List functions have one shape; those of *)
(* ingests and live ids may first check, in a statement of its own, that    *)
(* the client exists.                                                       *)
(*                                                                         *)
(* A row's position in a listing is (created_at, id), newest first.  Both   *)
(* are settled before the insert commits, so that rows become visible in    *)
(* any order of positions: created is chosen in Init and never changes.     *)
(* The cursor is the position of a row, not the row: it outlives it.        *)
(***************************************************************************)
EXTENDS Naturals, FiniteSets

CONSTANTS Row,                       \* uuids, by their order
          Time,                      \* values of created_at
          RawLimit,                  \* values of the query parameter limit (None: absent)
          DefaultLimit, MaxLimit,
          None

ASSUME PaginationAssumption ==
    /\ Row \subseteq Nat /\ Time \subseteq Nat /\ IsFiniteSet(Row)
    /\ DefaultLimit \in Nat \ {0} /\ MaxLimit \in Nat /\ DefaultLimit <= MaxLimit
    /\ RawLimit \subseteq Nat \cup {None}
    /\ None \notin Nat /\ None \notin [c : Nat, i : Nat]

VARIABLES
    created,      \* created_at of every row, those to come included
    matching,     \* rows that are stored and match the filter of the walk
    clientLives,  \* the client whose rows are listed is not deleted
    walk,         \* the caller, and the handler of its request
    page, read,   \* history: the rows of the last page, those of the pages before it
    kept          \* history: what a query of this walk could see and has matched ever since

dbVars == <<created, matching, clientLives>>
seen   == <<page, read, kept>>
vars   == <<dbVars, walk, seen>>

Cursor == [c : Time, i : Row]
Walk   == [pc : {"ask", "check", "query", "done", "refused"}, ofClient : BOOLEAN,
           limit : 1..MaxLimit, cursor : Cursor \cup {None}]

\* The tuple comparison of PostgreSQL: a comes after b in a listing.
Below(a, b) == a.c < b.c \/ (a.c = b.c /\ a.i < b.i)
CursorOf(r) == [c |-> created[r], i |-> r]
After(r, s) == Below(CursorOf(r), CursorOf(s))

-----------------------------------------------------------------------------
\* ParseRequest.

ValidLimit(raw) == raw # 0

\* (variant: the limit is not capped)
VariantLimitOf(raw) == IF raw = None THEN DefaultLimit ELSE raw
LimitOf(raw) == IF raw = None THEN DefaultLimit
                ELSE IF raw > MaxLimit THEN MaxLimit ELSE raw

-----------------------------------------------------------------------------
\* List: ORDER BY created_at DESC, id DESC, WHERE (created_at, id) < cursor.

\* (variant: the row of the cursor is included)
VariantBeyond(cursor) ==
    IF cursor = None THEN matching ELSE {r \in matching : ~Below(cursor, CursorOf(r))}

Beyond(cursor) ==
    IF cursor = None THEN matching ELSE {r \in matching : Below(CursorOf(r), cursor)}

First(n, S) == {r \in S : Cardinality({s \in S : After(r, s)}) < n}
LastOf(S)   == CHOOSE r \in S : \A s \in S \ {r} : After(r, s)

Fetched == First(walk.limit + 1, Beyond(walk.cursor))

\* NewPage.
HasMore == Cardinality(Fetched) > walk.limit
Data    == First(walk.limit, Fetched)

\* (variant: the cursor of the row that is stripped)
VariantNextCursor == IF HasMore THEN CursorOf(LastOf(Fetched)) ELSE None
NextCursor == IF HasMore THEN CursorOf(LastOf(Data)) ELSE None

-----------------------------------------------------------------------------
\* The caller follows nextCursor, with any limit; a request that fails it repeats.

NewWalk ==
    /\ \E b \in BOOLEAN :
        walk' = [pc |-> "ask", ofClient |-> b, limit |-> DefaultLimit, cursor |-> None]
    /\ page' = {} /\ read' = {} /\ kept' = {}
    /\ UNCHANGED dbVars

Ask ==
    /\ walk.pc = "ask"
    /\ \E raw \in RawLimit :
        /\ ValidLimit(raw)
        /\ walk' = [walk EXCEPT !.limit = LimitOf(raw),
                                !.pc = IF walk.ofClient THEN "check" ELSE "query"]
    /\ UNCHANGED <<dbVars, seen>>

CheckClient ==                       \* ErrClientNotFound ends the walk
    /\ walk.pc = "check"
    /\ walk' = [walk EXCEPT !.pc = IF clientLives THEN "query" ELSE "refused"]
    /\ UNCHANGED <<dbVars, seen>>

Query ==
    /\ walk.pc = "query"
    /\ walk' = [walk EXCEPT !.pc = IF HasMore THEN "ask" ELSE "done",
                            !.cursor = IF HasMore THEN NextCursor ELSE @]
    /\ page' = Data
    /\ read' = read \cup page
    /\ kept' = kept \cup Beyond(walk.cursor)
    /\ UNCHANGED dbVars

Fails ==                             \* the database, or the way back
    /\ walk.pc \in {"check", "query"}
    /\ walk' = [walk EXCEPT !.pc = "ask"]
    /\ UNCHANGED <<dbVars, seen>>

-----------------------------------------------------------------------------
\* The other requests.  What they do to a row comes to one of two things; a row may
\* come back, even a deleted one (Registry's Save).

Appear(r) ==                         \* created, activated, or saved again
    /\ matching' = matching \cup {r}
    /\ UNCHANGED <<created, clientLives, walk, seen>>

Vanish(r) ==                         \* deactivated or deleted
    /\ matching' = matching \ {r}
    /\ kept' = kept \ {r}
    /\ UNCHANGED <<created, clientLives, walk, page, read>>

ClientChange ==                      \* deleted, softly: its rows stay; or saved again
    /\ clientLives' = ~clientLives
    /\ UNCHANGED <<created, matching, walk, seen>>

Init ==
    /\ created \in [Row -> Time]
    /\ matching \in SUBSET Row
    /\ clientLives \in BOOLEAN
    /\ \E b \in BOOLEAN :
        walk = [pc |-> "ask", ofClient |-> b, limit |-> DefaultLimit, cursor |-> None]
    /\ page = {} /\ read = {} /\ kept = {}

Next == \/ NewWalk \/ Ask \/ CheckClient \/ Query \/ Fails \/ ClientChange
        \/ \E r \in Row : Appear(r) \/ Vanish(r)

Spec == Init /\ [][Next]_vars

-----------------------------------------------------------------------------
\* Properties.

\* Every variable has its type: no page is longer than the largest limit.
TypeOK ==
    /\ created \in [Row -> Time]
    /\ matching \subseteq Row
    /\ clientLives \in BOOLEAN
    /\ walk \in Walk
    /\ page \subseteq Row /\ read \subseteq Row /\ kept \subseteq Row
    /\ Cardinality(page) <= MaxLimit

\* "does not skip or repeat rows when rows are written between page fetches"
\* (pagination.go:4-6).  No repetition: a page comes, as a whole, after all the
\* pages before it, whatever has been created, deactivated, deleted or activated
\* again in the meantime, rows of the same created_at included.
InOrder == \A r \in page, s \in read : After(r, s)

\* No skipping: a row that a query of the walk could have returned, and that has
\* matched ever since, has been returned or is still ahead of the cursor; once the
\* walk is done, it has been returned.
NoneSkipped ==
    \A r \in kept \ (page \cup read) :
        walk.pc # "done" /\ walk.cursor # None /\ Below(CursorOf(r), walk.cursor)
=============================================================================

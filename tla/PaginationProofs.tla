-------------------------- MODULE PaginationProofs --------------------------
(***************************************************************************)
(* No walk through a listing repeats a row, or skips one that stays, for    *)
(* any finite set of rows, any values of created_at and any limits.         *)
(*                                                                         *)
(* First the order of a listing, then what the first n rows of a set are,   *)
(* then the invariant.  That a non-empty set of rows has a first and a last *)
(* one comes from the well-foundedness of the strict inclusion of finite    *)
(* sets, applied to the sets of the rows above, and below, each row.        *)
(***************************************************************************)
EXTENDS Pagination, FiniteSetTheorems, TLAPS

Placed == created \in [Row -> Time]

-----------------------------------------------------------------------------
\* The order of a listing is a strict total order.

LEMMA Numbers ==
    ASSUME Placed, NEW r \in Row
    PROVE  created[r] \in Nat /\ r \in Nat
  BY PaginationAssumption DEF PaginationAssumption, Placed

LEMMA AfterOrder ==
    ASSUME Placed
    PROVE  /\ \A r \in Row : ~After(r, r)
           /\ \A r, s \in Row : r # s => After(r, s) \/ After(s, r)
           /\ \A r, s, u \in Row : After(r, s) /\ After(s, u) => After(r, u)
<1>1. \A r \in Row : created[r] \in Nat /\ r \in Nat
  BY Numbers
<1>2. \A r \in Row : ~After(r, r)
  BY <1>1 DEF After, Below, CursorOf
<1>3. \A r, s \in Row : r # s => After(r, s) \/ After(s, r)
  BY <1>1 DEF After, Below, CursorOf
<1>4. \A r, s, u \in Row : After(r, s) /\ After(s, u) => After(r, u)
  BY <1>1 DEF After, Below, CursorOf
<1>5. QED
  BY <1>2, <1>3, <1>4

\* A cursor stays between what has been read and what has not.
LEMMA BelowOrder ==
    ASSUME Placed, NEW k \in Cursor, NEW r \in Row, NEW s \in Row
    PROVE  /\ ~Below(CursorOf(r), k) /\ Below(CursorOf(s), k) => After(s, r)
           /\ ~Below(CursorOf(s), k) /\ After(s, r) => ~Below(CursorOf(r), k)
<1>1. created[r] \in Nat /\ r \in Nat /\ created[s] \in Nat /\ s \in Nat
  BY Numbers
<1>2. k.c \in Nat /\ k.i \in Nat
  BY PaginationAssumption DEF PaginationAssumption, Cursor
<1>3. QED
  BY <1>1, <1>2 DEF After, Below, CursorOf

\* Sets of rows are finite.
LEMMA FiniteRows ==
    ASSUME NEW S \in SUBSET Row
    PROVE  IsFiniteSet(S) /\ Cardinality(S) \in Nat
  BY PaginationAssumption, FS_Subset, FS_CardinalityType DEF PaginationAssumption

\* A non-empty set of rows has a last one ...
LEMMA LastExists ==
    ASSUME Placed, NEW S \in SUBSET Row, S # {}
    PROVE  \E r \in S : \A s \in S \ {r} : After(r, s)
<1> DEFINE Down(r) == {s \in S : After(s, r)}
           Downs   == {Down(r) : r \in S}
<1>1. IsFiniteSet(S)
  BY FiniteRows
<1>2. Downs \subseteq FiniteSubsetsOf(Row) /\ Downs # {}
  <2>1. ASSUME NEW r \in S PROVE Down(r) \in FiniteSubsetsOf(Row)
    <3>1. Down(r) \in SUBSET S
      OBVIOUS
    <3>2. IsFiniteSet(Down(r))
      BY <1>1, <3>1, FS_Subset
    <3>3. QED
      BY <3>1, <3>2 DEF FiniteSubsetsOf
  <2>2. QED
    BY <2>1
<1>3. PICK D \in Downs : \A E \in Downs : <<E, D>> \notin StrictSubsetOrdering(Row)
  BY <1>2, FS_StrictSubsetOrderingWellFounded, WFMin
<1>4. PICK r \in S : D = Down(r)
  OBVIOUS
<1>5. ASSUME NEW s \in Down(r) PROVE FALSE
  <2>1. s \in Row /\ r \in Row /\ After(s, r)
    BY <1>5
  <2>2. Down(s) \subseteq Down(r)
    BY <2>1, AfterOrder
  <2>3. s \notin Down(s)
    BY <2>1, AfterOrder
  <2>4. Down(s) \in Downs /\ Down(s) # Down(r)
    BY <1>5, <2>3
  <2>5. <<Down(s), Down(r)>> \in StrictSubsetOrdering(Row)
    BY <2>2, <2>4 DEF StrictSubsetOrdering
  <2>6. QED
    BY <1>3, <1>4, <2>4, <2>5
<1>6. ASSUME NEW s \in S \ {r} PROVE After(r, s)
  <2>1. ~After(s, r)
    BY <1>5
  <2>2. QED
    BY <2>1, AfterOrder
<1>7. QED
  BY <1>6

\* ... and a first one.
LEMMA FirstExists ==
    ASSUME Placed, NEW S \in SUBSET Row, S # {}
    PROVE  \E r \in S : \A s \in S \ {r} : After(s, r)
<1> DEFINE Up(r) == {s \in S : After(r, s)}
           Ups   == {Up(r) : r \in S}
<1>1. IsFiniteSet(S)
  BY FiniteRows
<1>2. Ups \subseteq FiniteSubsetsOf(Row) /\ Ups # {}
  <2>1. ASSUME NEW r \in S PROVE Up(r) \in FiniteSubsetsOf(Row)
    <3>1. Up(r) \in SUBSET S
      OBVIOUS
    <3>2. IsFiniteSet(Up(r))
      BY <1>1, <3>1, FS_Subset
    <3>3. QED
      BY <3>1, <3>2 DEF FiniteSubsetsOf
  <2>2. QED
    BY <2>1
<1>3. PICK D \in Ups : \A E \in Ups : <<E, D>> \notin StrictSubsetOrdering(Row)
  BY <1>2, FS_StrictSubsetOrderingWellFounded, WFMin
<1>4. PICK r \in S : D = Up(r)
  OBVIOUS
<1>5. ASSUME NEW s \in Up(r) PROVE FALSE
  <2>1. s \in Row /\ r \in Row /\ After(r, s)
    BY <1>5
  <2>2. Up(s) \subseteq Up(r)
    BY <2>1, AfterOrder
  <2>3. s \notin Up(s)
    BY <2>1, AfterOrder
  <2>4. Up(s) \in Ups /\ Up(s) # Up(r)
    BY <1>5, <2>3
  <2>5. <<Up(s), Up(r)>> \in StrictSubsetOrdering(Row)
    BY <2>2, <2>4 DEF StrictSubsetOrdering
  <2>6. QED
    BY <1>3, <1>4, <2>4, <2>5
<1>6. ASSUME NEW s \in S \ {r} PROVE After(s, r)
  <2>1. ~After(r, s)
    BY <1>5
  <2>2. QED
    BY <2>1, AfterOrder
<1>7. QED
  BY <1>6

-----------------------------------------------------------------------------
\* The first n rows of a set.

Up(r, S) == {s \in S : After(r, s)}

LEMMA UpSmaller ==
    ASSUME Placed, NEW S \in SUBSET Row, NEW r \in S, NEW s \in S, After(s, r)
    PROVE  Cardinality(Up(r, S)) <= Cardinality(Up(s, S))
<1>1. Up(r, S) \subseteq Up(s, S)
  BY AfterOrder DEF Up
<1>2. Up(s, S) \in SUBSET Row
  BY DEF Up
<1>3. QED
  BY <1>1, <1>2, FiniteRows, FS_Subset

\* They come before the others ...
LEMMA FirstOrder ==
    ASSUME Placed, NEW S \in SUBSET Row, NEW n \in Nat,
           NEW r \in First(n, S), NEW s \in S \ First(n, S)
    PROVE  After(s, r)
<1>1. r \in S /\ r # s /\ Cardinality(Up(r, S)) < n /\ ~(Cardinality(Up(s, S)) < n)
  BY DEF First, Up
<1>2. ASSUME After(r, s) PROVE FALSE
  <2>1. Cardinality(Up(s, S)) <= Cardinality(Up(r, S))
    BY <1>1, <1>2, UpSmaller
  <2>2. Cardinality(Up(s, S)) \in Nat /\ Cardinality(Up(r, S)) \in Nat
    BY FiniteRows DEF Up
  <2>3. QED
    BY <1>1, <2>1, <2>2
<1>3. QED
  BY <1>1, <1>2, AfterOrder

\* ... are not more than n ...
LEMMA FirstBound ==
    ASSUME Placed, NEW S \in SUBSET Row, NEW n \in Nat
    PROVE  Cardinality(First(n, S)) <= n
<1> DEFINE F == First(n, S)
<1>1. F \in SUBSET Row
  BY DEF First
<1>2. CASE F = {}
  BY <1>2, FS_EmptySet
<1>3. CASE F # {}
  <2>1. PICK r \in F : \A s \in F \ {r} : After(r, s)
    BY <1>1, <1>3, LastExists
  <2>2. r \in S /\ Cardinality(Up(r, S)) < n
    BY <2>1 DEF First, Up
  <2>3. F \ {r} \in SUBSET Up(r, S) /\ Up(r, S) \in SUBSET Row
    BY <2>1 DEF First, Up
  <2>4. Cardinality(F \ {r}) <= Cardinality(Up(r, S))
    BY <2>3, FiniteRows, FS_Subset
  <2>5. Cardinality(F \ {r}) = Cardinality(F) - 1
    BY <1>1, FiniteRows, FS_RemoveElement
  <2>6. Cardinality(Up(r, S)) \in Nat /\ Cardinality(F) \in Nat
    BY <1>1, <2>3, FiniteRows
  <2>7. QED
    BY <2>2, <2>4, <2>5, <2>6
<1>4. QED
  BY <1>2, <1>3

\* ... and fewer only if that is all.
LEMMA FirstAll ==
    ASSUME Placed, NEW S \in SUBSET Row, NEW n \in Nat, Cardinality(First(n, S)) < n
    PROVE  First(n, S) = S
<1> DEFINE F == First(n, S)
<1>1. F \in SUBSET S /\ F \in SUBSET Row /\ S \ F \in SUBSET Row
  BY DEF First
<1>2. ASSUME S \ F # {} PROVE FALSE
  <2>1. PICK r \in S \ F : \A s \in (S \ F) \ {r} : After(s, r)
    BY <1>1, <1>2, FirstExists
  <2>2. Up(r, S) \in SUBSET F
    BY <2>1, AfterOrder DEF Up
  <2>3. Cardinality(Up(r, S)) <= Cardinality(F)
    BY <1>1, <2>2, FiniteRows, FS_Subset
  <2>4. Cardinality(Up(r, S)) \in Nat /\ Cardinality(F) \in Nat
    BY <1>1, FiniteRows DEF Up
  <2>5. Cardinality(Up(r, S)) < n
    BY <2>3, <2>4
  <2>6. QED
    BY <2>1, <2>5 DEF First, Up
<1>3. QED
  BY <1>1, <1>2

LEMMA FirstEnough ==
    ASSUME Placed, NEW S \in SUBSET Row, NEW n \in Nat, Cardinality(S) <= n
    PROVE  First(n, S) = S
<1>1. ASSUME NEW r \in S PROVE Cardinality(Up(r, S)) < n
  <2>1. Up(r, S) \in SUBSET S /\ r \notin Up(r, S)
    BY AfterOrder DEF Up
  <2>2. Cardinality(Up(r, S)) <= Cardinality(S) /\ Cardinality(Up(r, S)) # Cardinality(S)
    BY <2>1, FiniteRows, FS_Subset
  <2>3. Cardinality(Up(r, S)) \in Nat /\ Cardinality(S) \in Nat
    BY FiniteRows DEF Up
  <2>4. QED
    BY <2>2, <2>3
<1>2. QED
  BY <1>1 DEF First, Up

LEMMA FirstSome ==
    ASSUME Placed, NEW S \in SUBSET Row, NEW n \in Nat \ {0}, S # {}
    PROVE  First(n, S) # {}
<1>1. PICK r \in S : \A s \in S \ {r} : After(s, r)
  BY FirstExists
<1>2. Up(r, S) = {}
  BY <1>1, AfterOrder DEF Up
<1>3. Cardinality(Up(r, S)) < n
  BY <1>2, FS_EmptySet
<1>4. QED
  BY <1>3 DEF First, Up

-----------------------------------------------------------------------------
\* One page: what List and NewPage return.

LEMMA LimitOfType ==
    ASSUME NEW raw \in RawLimit, ValidLimit(raw)
    PROVE  LimitOf(raw) \in 1..MaxLimit
  BY PaginationAssumption DEF PaginationAssumption, LimitOf, ValidLimit

LEMMA PageFacts ==
    ASSUME TypeOK
    PROVE  LET S == Beyond(walk.cursor) IN
           /\ S \in SUBSET matching
           /\ Data \in SUBSET S
           /\ Cardinality(Data) <= MaxLimit
           /\ ~HasMore => Data = S
           /\ HasMore => /\ LastOf(Data) \in Data
                         /\ \A r \in Data : r # LastOf(Data) => After(LastOf(Data), r)
                         /\ \A s \in S \ Data : After(s, LastOf(Data))
<1> DEFINE S == Beyond(walk.cursor)
           n == walk.limit
<1>1. Placed /\ n \in Nat \ {0} /\ n <= MaxLimit /\ matching \in SUBSET Row /\ MaxLimit \in Nat
  BY PaginationAssumption DEF TypeOK, Walk, Placed, PaginationAssumption
<1>2. S \in SUBSET matching /\ S \in SUBSET Row
  BY <1>1 DEF Beyond
<1>3. Fetched = First(n + 1, S) /\ Fetched \in SUBSET S
  BY DEF Fetched, First
<1>4. Data = First(n, Fetched) /\ Data \in SUBSET Fetched
  BY DEF Data, First
<1>5. Fetched \in SUBSET Row /\ Data \in SUBSET Row /\ n + 1 \in Nat
  BY <1>1, <1>2, <1>3, <1>4
<1>6. Cardinality(Fetched) \in Nat /\ Cardinality(Data) \in Nat /\ Cardinality(S) \in Nat
  BY <1>2, <1>5, FiniteRows
<1>7. Cardinality(Data) <= MaxLimit
  BY <1>1, <1>4, <1>5, <1>6, FirstBound
<1>8. ASSUME ~HasMore PROVE Data = S
  <2>1. Cardinality(Fetched) <= n
    BY <1>1, <1>6, <1>8 DEF HasMore
  <2>2. Fetched = S
    BY <1>1, <1>2, <1>3, <1>5, <1>6, <2>1, FirstAll
  <2>3. QED
    BY <1>1, <1>4, <1>5, <2>1, <2>2, FirstEnough
<1>9. ASSUME NEW r \in Data, NEW s \in S \ Data PROVE After(s, r)
  <2>1. CASE s \in Fetched
    BY <1>1, <1>4, <1>5, <1>9, <2>1, FirstOrder
  <2>2. CASE s \notin Fetched
    BY <1>1, <1>2, <1>3, <1>4, <1>5, <1>9, <2>2, FirstOrder
  <2>3. QED
    BY <2>1, <2>2
<1>10. ASSUME HasMore PROVE /\ LastOf(Data) \in Data
                            /\ \A r \in Data : r # LastOf(Data) => After(LastOf(Data), r)
  <2>1. Fetched # {}
    BY <1>1, <1>10, FS_EmptySet DEF HasMore
  <2>2. Data # {}
    BY <1>1, <1>4, <1>5, <2>1, FirstSome
  <2>3. \E r \in Data : \A s \in Data \ {r} : After(r, s)
    BY <1>1, <1>5, <2>2, LastExists
  <2>4. QED
    BY <2>3 DEF LastOf
<1>11. QED
  BY <1>2, <1>3, <1>4, <1>7, <1>8, <1>9, <1>10

-----------------------------------------------------------------------------
\* The invariant.  Until the walk is over, what has been read is not beyond the cursor,
\* and nothing has been read without one.

CursorBehind ==
    /\ walk.pc # "done" =>
        IF walk.cursor = None THEN page = {} /\ read = {}
        ELSE \A r \in page \cup read : ~Below(CursorOf(r), walk.cursor)
    /\ kept \subseteq matching

Inv == TypeOK /\ InOrder /\ NoneSkipped /\ CursorBehind

LEMMA InitInv == Init => Inv
<1> SUFFICES ASSUME Init PROVE Inv
  OBVIOUS
<1>1. TypeOK
  BY PaginationAssumption, FS_EmptySet DEF Init, TypeOK, Walk, PaginationAssumption
<1>2. QED
  BY <1>1 DEF Init, Inv, InOrder, NoneSkipped, CursorBehind

\* A query.
LEMMA QueryTypes ==
    ASSUME Inv, Query
    PROVE  TypeOK'
<1>1. TypeOK /\ Placed
  BY DEF Inv, TypeOK, Placed
<1>2. Data \in SUBSET Beyond(walk.cursor) /\ Beyond(walk.cursor) \in SUBSET Row
      /\ Cardinality(Data) <= MaxLimit
  BY <1>1, PageFacts DEF TypeOK
<1>3. ASSUME HasMore PROVE NextCursor \in Cursor
  BY <1>1, <1>2, <1>3, PageFacts DEF NextCursor, CursorOf, Cursor, Placed
<1>4. walk' \in Walk
  BY <1>1, <1>3 DEF Query, TypeOK, Walk
<1>5. QED
  BY <1>1, <1>2, <1>4 DEF Query, TypeOK, dbVars

LEMMA QuerySafe ==
    ASSUME Inv, Query
    PROVE  InOrder' /\ NoneSkipped' /\ CursorBehind'
<1> DEFINE S == Beyond(walk.cursor)
<1>1. TypeOK /\ Placed /\ InOrder /\ NoneSkipped /\ CursorBehind
  BY DEF Inv, TypeOK, Placed
<1>2. /\ created' = created /\ matching' = matching
      /\ page' = Data /\ read' = read \cup page /\ kept' = kept \cup S
      /\ walk.pc = "query"
      /\ walk'.pc = IF HasMore THEN "ask" ELSE "done"
      /\ walk'.cursor = IF HasMore THEN NextCursor ELSE walk.cursor
  BY <1>1 DEF Query, TypeOK, Walk, dbVars
<1>3. /\ S \in SUBSET matching /\ S \in SUBSET Row
      /\ Data \in SUBSET S
      /\ ~HasMore => Data = S
      /\ HasMore => /\ LastOf(Data) \in Data
                    /\ \A r \in Data : r # LastOf(Data) => After(LastOf(Data), r)
                    /\ \A s \in S \ Data : After(s, LastOf(Data))
  BY <1>1, PageFacts DEF TypeOK
<1>4. page \cup read \in SUBSET Row
  BY <1>1 DEF TypeOK
<1>5. \A r \in Data, s \in page \cup read : After(r, s)
  <2>1. CASE walk.cursor = None
    BY <1>1, <1>2, <2>1 DEF CursorBehind
  <2>2. CASE walk.cursor # None
    <3>1. walk.cursor \in Cursor
      BY <1>1, <2>2 DEF TypeOK, Walk
    <3>2. \A s \in page \cup read : ~Below(CursorOf(s), walk.cursor)
      BY <1>1, <1>2, <2>2 DEF CursorBehind
    <3>3. \A r \in Data : Below(CursorOf(r), walk.cursor)
      BY <1>3, <2>2 DEF Beyond
    <3>4. QED
      BY <1>1, <1>3, <1>4, <3>1, <3>2, <3>3, BelowOrder
  <2>3. QED
    BY <2>1, <2>2
<1>6. InOrder'
  BY <1>2, <1>5 DEF InOrder, After, CursorOf
<1>7. ASSUME HasMore PROVE NextCursor # None
  <2>1. LastOf(Data) \in Row
    BY <1>3, <1>7
  <2>2. CursorOf(LastOf(Data)) \in [c : Nat, i : Nat]
    BY <1>1, <2>1, Numbers DEF CursorOf
  <2>3. QED
    BY <1>7, <2>2, PaginationAssumption DEF NextCursor, PaginationAssumption
<1>8. NoneSkipped'
  <2>1. ASSUME NEW r \in kept \cup S, r \notin Data \cup read \cup page
        PROVE  HasMore /\ Below(CursorOf(r), NextCursor)
    <3>1. r \in S
      <4>1. CASE r \in kept
        <5>1. r \in matching
          BY <1>1, <4>1 DEF CursorBehind
        <5>2. walk.cursor # None => Below(CursorOf(r), walk.cursor)
          BY <1>1, <2>1, <4>1 DEF NoneSkipped
        <5>3. QED
          BY <5>1, <5>2 DEF Beyond
      <4>2. QED
        BY <2>1, <4>1
    <3>2. HasMore
      BY <1>3, <2>1, <3>1
    <3>3. After(r, LastOf(Data))
      BY <1>3, <2>1, <3>1, <3>2
    <3>4. QED
      BY <3>2, <3>3 DEF After, NextCursor
  <2>2. QED
    BY <1>2, <1>7, <2>1 DEF NoneSkipped, CursorOf
<1>9. CursorBehind'
  <2>1. kept' \subseteq matching'
    BY <1>1, <1>2, <1>3 DEF CursorBehind
  <2>2. CASE ~HasMore
    BY <1>2, <2>1, <2>2 DEF CursorBehind
  <2>3. CASE HasMore
    <3>1. ASSUME NEW r \in Data \cup read \cup page
          PROVE  ~Below(CursorOf(r), NextCursor)
      BY <1>1, <1>3, <1>4, <1>5, <2>3, <3>1, AfterOrder DEF NextCursor, After
    <3>2. /\ walk'.cursor # None
          /\ \A r \in page' \cup read' : ~Below([c |-> created'[r], i |-> r], walk'.cursor)
      BY <1>2, <1>7, <2>3, <3>1 DEF CursorOf
    <3>3. QED
      BY <2>1, <3>2 DEF CursorBehind, CursorOf, Below
  <2>4. QED
    BY <2>2, <2>3
<1>10. QED
  BY <1>6, <1>8, <1>9

\* The other actions.
LEMMA Moves ==                       \* the walk goes on, nothing is read
    ASSUME Inv, Ask \/ CheckClient \/ Fails
    PROVE  Inv'
<1>1. TypeOK /\ walk.pc \in {"ask", "check", "query"}
  BY DEF Inv, Ask, CheckClient, Fails
<1>2. /\ UNCHANGED <<created, matching, clientLives, page, read, kept>>
      /\ walk' \in Walk /\ walk'.cursor = walk.cursor /\ walk'.pc # "done"
  <2>1. CASE Ask
    BY <1>1, <2>1, LimitOfType DEF Ask, TypeOK, Walk, dbVars, seen
  <2>2. CASE CheckClient \/ Fails
    BY <1>1, <2>2 DEF CheckClient, Fails, TypeOK, Walk, dbVars, seen
  <2>3. QED
    BY <2>1, <2>2
<1>3. TypeOK'
  BY <1>1, <1>2 DEF TypeOK
<1>4. InOrder' /\ NoneSkipped'
  BY <1>1, <1>2 DEF Inv, InOrder, NoneSkipped, After, CursorOf, Below
<1>5. CursorBehind'
  BY <1>1, <1>2 DEF Inv, CursorBehind, CursorOf, Below
<1>6. QED
  BY <1>3, <1>4, <1>5 DEF Inv

LEMMA Writes ==                      \* others write
    ASSUME Inv, ClientChange \/ (\E r \in Row : Appear(r) \/ Vanish(r))
    PROVE  Inv'
<1>1. TypeOK
  BY DEF Inv
<1>2. /\ UNCHANGED <<created, walk, page, read>>
      /\ clientLives' \in BOOLEAN /\ matching' \in SUBSET Row
      /\ kept' \in SUBSET kept /\ kept' \subseteq matching'
  <2>1. kept \subseteq matching
    BY DEF Inv, CursorBehind
  <2>2. QED
    BY <1>1, <2>1 DEF ClientChange, Appear, Vanish, TypeOK, seen
<1>3. TypeOK'
  BY <1>1, <1>2 DEF TypeOK
<1>4. InOrder' /\ NoneSkipped'
  BY <1>1, <1>2 DEF Inv, InOrder, NoneSkipped, After, CursorOf, Below
<1>5. CursorBehind'
  BY <1>1, <1>2 DEF Inv, CursorBehind, CursorOf, Below
<1>6. QED
  BY <1>3, <1>4, <1>5 DEF Inv

LEMMA Restarts ==                    \* a walk begins
    ASSUME Inv, NewWalk
    PROVE  Inv'
<1>1. TypeOK
  BY DEF Inv
<1>2. /\ UNCHANGED <<created, matching, clientLives>>
      /\ page' = {} /\ read' = {} /\ kept' = {}
      /\ walk' \in Walk /\ walk'.cursor = None /\ walk'.pc # "done"
  BY PaginationAssumption DEF NewWalk, Walk, dbVars, PaginationAssumption
<1>3. TypeOK'
  BY <1>1, <1>2, PaginationAssumption, FS_EmptySet DEF TypeOK, PaginationAssumption
<1>4. QED
  BY <1>2, <1>3 DEF Inv, InOrder, NoneSkipped, CursorBehind

LEMMA StepInv == Inv /\ [Next]_vars => Inv'
<1> SUFFICES ASSUME Inv, [Next]_vars PROVE Inv'
  OBVIOUS
<1>1. CASE Query
  BY <1>1, QueryTypes, QuerySafe DEF Inv
<1>2. CASE Ask \/ CheckClient \/ Fails
  BY <1>2, Moves
<1>3. CASE ClientChange \/ (\E r \in Row : Appear(r) \/ Vanish(r))
  BY <1>3, Writes
<1>4. CASE NewWalk
  BY <1>4, Restarts
<1>5. CASE UNCHANGED vars
  BY <1>5 DEF vars, dbVars, seen, Inv, TypeOK, InOrder, NoneSkipped, CursorBehind,
              After, CursorOf, Below
<1>6. QED
  BY <1>1, <1>2, <1>3, <1>4, <1>5 DEF Next

LEMMA Invariant == Spec => []Inv
<1>1. Init => Inv
  BY InitInv
<1>2. Inv /\ [Next]_vars => Inv'
  BY StepInv
<1>3. QED
  BY <1>1, <1>2, PTL DEF Spec

-----------------------------------------------------------------------------
\* Every variable keeps its type, and no page is longer than the largest limit, for
\* any limits callers ask for.
THEOREM PageTypes == Spec => []TypeOK
<1>1. Inv => TypeOK
  BY DEF Inv
<1>2. QED
  BY <1>1, Invariant, PTL

\* A page comes, as a whole, after all pages before it: List never repeats a row,
\* whatever is written between the fetches (pagination.go:4-6).
THEOREM NoRepeats == Spec => []InOrder
<1>1. Inv => InOrder
  BY DEF Inv
<1>2. QED
  BY <1>1, Invariant, PTL

\* A row that a query could have returned, and that stays, has been returned or is
\* ahead of the cursor: List and NewPage never skip one, rows of one created_at and
\* a cursor whose row is gone included.
THEOREM NoSkips == Spec => []NoneSkipped
<1>1. Inv => NoneSkipped
  BY DEF Inv
<1>2. QED
  BY <1>1, Invariant, PTL
=============================================================================

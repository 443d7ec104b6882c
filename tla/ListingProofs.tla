----------------------------- MODULE ListingProofs -----------------------------
(***************************************************************************)
(* Proofs about Listing: its types, and the bound on the rows that a walk  *)
(* through the pages misses, for every number of rows, processes and page  *)
(* size.                                                                   *)
(*                                                                         *)
(* The argument is about the position of a row, Cardinality(Before(r)):    *)
(* positions of different rows differ, a row that comes or is touched      *)
(* lowers no position, and a row that departs lowers each by at most one.  *)
(***************************************************************************)
EXTENDS Listing, FiniteSetTheorems, TLAPS

Position(r) == Cardinality(Before(r))

\* Every step keeps the types and changes stamp, listed or walk as said.
LEMMA StepTyped ==
  TypeOK /\ [Next]_vars => TypeOK'
<1> SUFFICES ASSUME TypeOK, [Next]_vars PROVE TypeOK'
  OBVIOUS
<1> USE RowsAssumption, SizeAssumption
<1>0. IsFiniteSet(listed) /\ Cardinality(listed) \in Nat
  <2>1. listed \in SUBSET Rows
    BY DEF TypeOK
  <2>2. QED
    BY <2>1, FS_Subset, FS_CardinalityType
<1>1. CASE UNCHANGED vars
  BY <1>1 DEF TypeOK, vars
<1>2. ASSUME NEW w \in Workers, AskFirst(w) PROVE TypeOK'
  <2>1. NoWalk \in Walk /\ listed \in SUBSET Rows
    BY DEF TypeOK, Walk, NoWalk
  <2>2. walk' \in Walk
    BY <1>0, <1>2, <2>1 DEF AskFirst, Total, Walk
  <2>3. QED
    BY <1>2, <2>2 DEF TypeOK, AskFirst
<1>a. ASSUME NEW w \in Workers, AskNext(w) PROVE TypeOK'
  <2>1. walk' \in Walk
    BY <1>0, <1>a DEF TypeOK, AskNext, Total, Walk
  <2>2. QED
    BY <1>a, <2>1 DEF TypeOK, AskNext
<1>3. ASSUME NEW w \in Workers, ReadPage(w) PROVE TypeOK'
  <2>1. PageRows(walk.page) \in SUBSET Rows
    BY DEF TypeOK, PageRows
  <2>2. walk.seen \cup PageRows(walk.page) \in SUBSET Rows /\ walk.page + 1 \in Nat
    BY <2>1 DEF TypeOK, Walk
  <2>3. walk' \in Walk
    BY <1>3, <2>2 DEF TypeOK, ReadPage, Walk
  <2>4. QED
    BY <1>3, <2>3 DEF TypeOK, ReadPage
<1>4. ASSUME NEW w \in Workers, NEW r \in Rows, Insert(w, r) PROVE TypeOK'
  <2>1. PICK s \in Fresh : stamp' = [stamp EXCEPT ![r] = s]
    BY <1>4 DEF Insert
  <2>2. s \in Nat \ {0} /\ \A x \in Rows : stamp[x] # s
    BY DEF Fresh, Stamps
  <2>3. walk' \in Walk
    BY <1>4 DEF TypeOK, Insert, Walk
  <2>4. QED
    BY <1>4, <2>1, <2>2, <2>3 DEF TypeOK, Insert
<1>5. ASSUME NEW w \in Workers, NEW r \in Rows, Depart(w, r) PROVE TypeOK'
  BY <1>5 DEF TypeOK, Depart, Walk
<1>6. ASSUME NEW w \in Workers, NEW r \in Rows, Touch(w, r) PROVE TypeOK'
  <2>1. PICK s \in Fresh : stamp' = [stamp EXCEPT ![r] = s]
    BY <1>6 DEF Touch
  <2>2. s \in Nat \ {0} /\ \A x \in Rows : stamp[x] # s
    BY DEF Fresh, Stamps
  <2>3. walk' \in Walk
    BY <1>6 DEF TypeOK, Touch, Walk
  <2>4. QED
    BY <1>6, <2>1, <2>2, <2>3 DEF TypeOK, Touch
<1>7. QED
  BY <1>1, <1>2, <1>a, <1>3, <1>4, <1>5, <1>6 DEF Next

\* Type correctness of the listings.
THEOREM TypeCorrect == Spec => []TypeOK
<1>1. Init => TypeOK
  BY DEF Init, TypeOK, Walk, NoWalk
<1>2. QED
  BY <1>1, StepTyped, PTL DEF Spec

-------------------------------------------------------------------------------
\* The position of a row is a natural number below the length of the listing.
LEMMA PositionBounds ==
  ASSUME TypeOK, NEW r \in Rows
  PROVE  /\ IsFiniteSet(Before(r)) /\ Position(r) \in Nat
         /\ IsFiniteSet(listed) /\ Cardinality(listed) \in Nat
         /\ r \in listed => Position(r) < Cardinality(listed)
<1>1. IsFiniteSet(listed) /\ Cardinality(listed) \in Nat
  <2>1. listed \in SUBSET Rows
    BY DEF TypeOK
  <2>2. QED
    BY <2>1, RowsAssumption, FS_Subset, FS_CardinalityType
<1>2. Before(r) \in SUBSET listed
  BY DEF Before
<1>3. IsFiniteSet(Before(r)) /\ Position(r) \in Nat
        /\ Position(r) <= Cardinality(listed)
        /\ (Cardinality(listed) = Position(r) => listed = Before(r))
  BY <1>1, <1>2, FS_Subset, FS_CardinalityType DEF Position
<1>4. r \in listed => listed # Before(r)
  BY DEF Before, TypeOK
<1>5. QED
  BY <1>1, <1>3, <1>4

\* Different listed rows have different positions.
LEMMA PositionsDiffer ==
  ASSUME TypeOK, NEW r \in listed, NEW x \in listed, stamp[x] > stamp[r]
  PROVE  Position(x) < Position(r)
<1>1. r \in Rows /\ x \in Rows /\ stamp[r] \in Nat /\ stamp[x] \in Nat
  BY DEF TypeOK
<1>2. Before(x) \in SUBSET Before(r) /\ Before(x) # Before(r)
  <2>1. \A y \in listed : stamp[y] \in Nat
    BY DEF TypeOK
  <2>2. x \in Before(r) /\ x \notin Before(x)
    BY <1>1 DEF Before
  <2>3. QED
    BY <1>1, <2>1, <2>2 DEF Before
<1>3. IsFiniteSet(Before(r)) /\ Position(x) \in Nat /\ Position(r) \in Nat
  BY <1>1, PositionBounds
<1>4. Position(x) <= Position(r) /\ Position(x) # Position(r)
  BY <1>2, <1>3, FS_Subset DEF Position
<1>5. QED
  BY <1>3, <1>4

LEMMA PositionsUnique ==
  ASSUME TypeOK, NEW r \in listed, NEW x \in listed, Position(r) = Position(x)
  PROVE  r = x
<1>1. r \in Rows /\ x \in Rows /\ stamp[r] \in Nat /\ stamp[x] \in Nat
        /\ stamp[r] # 0
  BY DEF TypeOK
<1>2. Position(r) \in Nat
  BY <1>1, PositionBounds
<1>3. ~(stamp[r] > stamp[x]) /\ ~(stamp[x] > stamp[r])
  BY <1>2, PositionsDiffer
<1>4. stamp[r] = stamp[x]
  BY <1>1, <1>3
<1>5. QED
  BY <1>1, <1>4 DEF TypeOK

\* No more rows lie at position n or behind than the listing is longer than n.
LEMMA TailBound ==
  ASSUME TypeOK, NEW n \in Nat, NEW far \in SUBSET listed,
         \A r \in far : Position(r) >= n
  PROVE  /\ IsFiniteSet(far)
         /\ far # {} => Cardinality(far) <= Cardinality(listed) - n
<1> DEFINE top == Cardinality(listed) - 1
           f == [r \in far |-> Position(r)]
<1>0. \A r \in far : r \in Rows
  BY DEF TypeOK
<1>1. \A r \in far : Position(r) \in n..top
  BY <1>0, PositionBounds
<1>2. f \in Injection(far, n..top)
  <2>1. f \in [far -> n..top]
    BY <1>1
  <2>2. \A r, x \in far : f[r] = f[x] => r = x
    BY PositionsUnique
  <2>3. QED
    BY <2>1, <2>2 DEF Injection, IsInjective
<1>3. IsFiniteSet(listed) /\ Cardinality(listed) \in Nat
  <2>1. listed \in SUBSET Rows
    BY DEF TypeOK
  <2>2. QED
    BY <2>1, RowsAssumption, FS_Subset, FS_CardinalityType
<1>4. IsFiniteSet(n..top) /\ Cardinality(n..top) = IF n > top THEN 0 ELSE top - n + 1
  <2>1. n \in Int /\ top \in Int
    BY <1>3
  <2> HIDE DEF top
  <2>2. QED
    BY <2>1, FS_Interval
<1>5. IsFiniteSet(far) /\ Cardinality(far) <= Cardinality(n..top)
  <2> HIDE DEF f, top
  <2>1. QED
    BY <1>2, <1>4, FS_Injection
<1>6. far # {} => n <= top
  BY <1>1, <1>3
<1>7. QED
  BY <1>3, <1>4, <1>5, <1>6

-------------------------------------------------------------------------------
\* Rows that stayed, were not read and lie before the next page by now.
Skipped == {r \in walk.standing \ walk.seen : Position(r) < walk.page * PageSize}

\* While the client walks: what stayed is listed, a row is skipped for each one
\* that departed at most, and the listing grew by the late rows since it was
\* counted.
IInv ==
  /\ TypeOK
  /\ walk.stage \in {"idle", "done"} \/ Walking
  /\ walk.departed \in SUBSET {r \in Rows \ listed : stamp[r] # 0}
  /\ walk.late \in SUBSET {r \in Rows : stamp[r] # 0}
  /\ Walking =>
       /\ walk.standing \in SUBSET listed
       /\ Cardinality(Skipped) <= Cardinality(walk.departed)
  /\ walk.stage = "page" => Cardinality(listed) <= walk.total + Cardinality(walk.late)
  /\ MissedBounded

LEMMA SetsFinite ==
  ASSUME TypeOK
  PROVE  /\ IsFiniteSet(listed) /\ Cardinality(listed) \in Nat
         /\ IsFiniteSet(walk.standing) /\ Cardinality(walk.standing) \in Nat
         /\ IsFiniteSet(walk.departed) /\ Cardinality(walk.departed) \in Nat
         /\ IsFiniteSet(walk.late) /\ Cardinality(walk.late) \in Nat
         /\ IsFiniteSet(Skipped) /\ Cardinality(Skipped) \in Nat
         /\ IsFiniteSet(Missed) /\ Cardinality(Missed) \in Nat
<1>1. /\ listed \in SUBSET Rows /\ walk.standing \in SUBSET Rows
      /\ walk.departed \in SUBSET Rows /\ walk.late \in SUBSET Rows
      /\ Skipped \in SUBSET Rows /\ Missed \in SUBSET Rows
  BY DEF TypeOK, Walk, Skipped, Missed
<1>2. \A S \in SUBSET Rows : IsFiniteSet(S) /\ Cardinality(S) \in Nat
  BY RowsAssumption, FS_Subset, FS_CardinalityType
<1>3. QED
  BY <1>1, <1>2

LEMMA Division ==
  ASSUME NEW m \in Nat
  PROVE  m \div PageSize \in Nat /\ m - PageSize < PageSize * (m \div PageSize)
BY SizeAssumption

\* The pages that the answer announces hold as many rows as were counted.
LEMMA PagesCover ==
  ASSUME NEW total \in Nat, NEW n \in Nat, n >= Pages(total)
  PROVE  n * PageSize >= total
<1>1. PageSize \in Nat /\ total + PageSize - 1 \in Nat
  BY SizeAssumption
<1>2. PICK q \in Nat : n >= q /\ total - 1 < PageSize * q
  <2>1. Pages(total) \in Nat /\ total - 1 < PageSize * Pages(total)
    BY <1>1, Division DEF Pages
  <2>2. QED
    BY <2>1
<1>3. /\ n * PageSize \in Nat /\ PageSize * q \in Nat
      /\ PageSize * q <= n * PageSize
  BY <1>1, <1>2
<1>4. QED
  BY <1>2, <1>3

\* A step on the table that lowers the position of no standing row adds none to
\* the skipped ones.
LEMMA SkippedShrinks ==
  ASSUME IInv, Walking,
         UNCHANGED <<walk.page, walk.seen>>, walk'.standing \in SUBSET walk.standing,
         \A r \in walk'.standing : Position(r)' \in Nat /\ Position(r) <= Position(r)'
  PROVE  Cardinality(Skipped') <= Cardinality(Skipped)
<1>1. walk.standing \in SUBSET Rows
  BY DEF IInv, TypeOK, Walk
<1>2. \A r \in walk.standing : Position(r) \in Nat
  BY <1>1, PositionBounds DEF IInv
<1>3. walk.page * PageSize \in Nat
  BY SizeAssumption DEF IInv, TypeOK, Walk
<1>4. Skipped' \in SUBSET Skipped
  BY <1>2, <1>3 DEF Skipped
<1>5. QED
  BY <1>4, SetsFinite, FS_Subset DEF IInv

LEMMA AskStep ==
  ASSUME IInv, NEW w \in Workers, AskFirst(w) \/ AskNext(w), TypeOK'
  PROVE  IInv'
<1>0. Cardinality({}) = 0 /\ Cardinality(listed) \in Nat
  BY FS_EmptySet, SetsFinite DEF IInv
<1>1. CASE AskFirst(w)
  <2>1. /\ walk'.stage = "page" /\ walk'.page = 0 /\ walk'.total = Cardinality(listed)
        /\ walk'.seen = {} /\ walk'.standing = listed /\ walk'.departed = {}
        /\ walk'.late = {} /\ listed' = listed /\ stamp' = stamp
    BY <1>1 DEF AskFirst, Total, NoWalk
  <2>2. Skipped' = {}
    <3>1. \A r \in listed : Position(r)' \in Nat
      <4>1. \A r \in Rows : Position(r) \in Nat
        BY PositionBounds DEF IInv
      <4>2. \A r \in Rows : Position(r)' = Position(r)
        BY <2>1 DEF Position, Before
      <4>3. QED
        BY <4>1, <4>2 DEF IInv, TypeOK
    <3>2. 0 * PageSize = 0
      BY SizeAssumption
    <3>3. QED
      BY <2>1, <3>1, <3>2 DEF Skipped
  <2>3. QED
    BY <1>0, <2>1, <2>2, TypeOK' DEF IInv, Walking, MissedBounded
<1>2. CASE AskNext(w)
  <2>1. /\ walk.stage = "between" /\ walk'.stage = "page" /\ walk'.page = walk.page
        /\ walk'.total = Cardinality(listed)
        /\ walk'.seen = walk.seen /\ walk'.standing = walk.standing
        /\ walk'.departed = walk.departed /\ walk'.late = {}
        /\ listed' = listed /\ stamp' = stamp
    BY <1>2 DEF AskNext, Total, IInv, TypeOK, Walk
  <2>2. Skipped' = Skipped
    BY <2>1 DEF Skipped, Position, Before
  <2>3. QED
    BY <1>0, <2>1, <2>2, TypeOK' DEF IInv, Walking, MissedBounded
<1>3. QED
  BY <1>1, <1>2

\* The page takes every row from its offset to the next one: what it does not
\* take was skipped before or lies behind.
LEMMA PageSplit ==
  ASSUME IInv, Walking, NEW r \in walk.standing, r \notin walk.seen,
         r \notin PageRows(walk.page)
  PROVE  \/ r \in Skipped
         \/ r \in listed /\ Position(r) >= (walk.page + 1) * PageSize
<1>1. r \in listed /\ r \in Rows
  BY DEF IInv, TypeOK
<1>2. Position(r) \in Nat
  BY <1>1, PositionBounds DEF IInv
<1>3. walk.page * PageSize \in Nat /\ (walk.page + 1) * PageSize \in Nat
  BY SizeAssumption DEF IInv, TypeOK, Walk
<1>4. QED
  BY <1>1, <1>2, <1>3 DEF Skipped, PageRows, Position

LEMMA ReadStep ==
  ASSUME IInv, NEW w \in Workers, ReadPage(w), TypeOK'
  PROVE  IInv'
<1>0. /\ walk.stage = "page" /\ walk'.page = walk.page + 1
      /\ walk'.stage \in {"done", "between"}
      /\ walk'.stage = "done" => walk.page + 1 >= Pages(walk.total)
      /\ walk'.seen = walk.seen \cup PageRows(walk.page)
      /\ walk'.standing = walk.standing /\ walk'.departed = walk.departed
      /\ walk'.late = walk.late /\ listed' = listed /\ stamp' = stamp
  BY DEF ReadPage, IInv, TypeOK, Walk
<1>1. \A r \in Rows : Position(r)' = Position(r)
  BY <1>0 DEF Position, Before
<1>2. walk.standing \in SUBSET listed /\ listed \in SUBSET Rows
  BY <1>0 DEF IInv, Walking, TypeOK
<1>3. /\ walk.page \in Nat /\ walk.total \in Nat
      /\ walk.page * PageSize \in Nat /\ (walk.page + 1) * PageSize \in Nat
      /\ \A r \in Rows : Position(r) \in Nat
  BY SizeAssumption, PositionBounds DEF IInv, TypeOK, Walk
<1>4. Skipped' \in SUBSET Skipped
  <2>1. ASSUME NEW r \in Skipped' PROVE r \in Skipped
    <3>1. /\ r \in walk.standing /\ r \notin walk.seen /\ r \notin PageRows(walk.page)
          /\ Position(r) < (walk.page + 1) * PageSize
      BY <1>0, <1>1, <1>2, <2>1 DEF Skipped
    <3>2. Position(r) \in Nat
      BY <1>2, <1>3, <3>1
    <3>3. QED
      BY <1>0, <1>3, <3>1, <3>2, PageSplit DEF Walking
  <2>2. QED
    BY <2>1
<1>5. Cardinality(Skipped') <= Cardinality(walk.departed)
  <2>1. Cardinality(Skipped') <= Cardinality(Skipped)
    BY <1>4, SetsFinite, FS_Subset DEF IInv
  <2>2. Cardinality(Skipped') \in Nat
    BY SetsFinite, <1>4, FS_Subset, FS_CardinalityType DEF IInv
  <2>3. QED
    BY <1>0, <2>1, <2>2, SetsFinite DEF IInv, Walking
<1>6. ASSUME walk'.stage = "done"
      PROVE  Cardinality(Missed') <= Cardinality(walk.departed) + Cardinality(walk.late)
  <2> DEFINE far == {r \in listed : Position(r) >= (walk.page + 1) * PageSize}
  <2>1. Missed' \in SUBSET (Skipped \cup far)
    BY <1>0, <1>2, PageSplit DEF Missed, Walking
  <2>2. IsFiniteSet(far) /\ Cardinality(far) \in Nat
          /\ (far # {} => Cardinality(far) <= Cardinality(listed) - (walk.page + 1) * PageSize)
    <3>1. far \in SUBSET listed /\ \A r \in far : Position(r) >= (walk.page + 1) * PageSize
      OBVIOUS
    <3> HIDE DEF far
    <3>2. QED
      BY <1>3, <3>1, TailBound, FS_CardinalityType DEF IInv
  <2> HIDE DEF far
  <2>3. (walk.page + 1) * PageSize >= walk.total
    BY <1>0, <1>3, <1>6, PagesCover
  <2>4. Cardinality(far) <= Cardinality(walk.late)
    <3>1. CASE far = {}
      BY <3>1, FS_EmptySet, SetsFinite DEF IInv
    <3>2. CASE far # {}
      BY <1>0, <1>3, <2>2, <2>3, <3>2, SetsFinite DEF IInv
    <3>3. QED
      BY <3>1, <3>2
  <2>5. /\ IsFiniteSet(Skipped \cup far)
        /\ Cardinality(Skipped \cup far) <= Cardinality(Skipped) + Cardinality(far)
    <3>1. IsFiniteSet(Skipped) /\ Cardinality(Skipped) \in Nat
      BY SetsFinite DEF IInv
    <3>2. Cardinality(Skipped \cup far)
            = Cardinality(Skipped) + Cardinality(far) - Cardinality(Skipped \cap far)
            /\ IsFiniteSet(Skipped \cup far)
      BY <2>2, <3>1, FS_Union
    <3>3. Cardinality(Skipped \cap far) \in Nat
      BY <3>1, FS_Intersection, FS_CardinalityType
    <3>4. QED
      BY <2>2, <3>1, <3>2, <3>3
  <2>6. Cardinality(Missed') <= Cardinality(Skipped \cup far)
          /\ Cardinality(Missed') \in Nat /\ Cardinality(Skipped \cup far) \in Nat
    BY <2>1, <2>5, FS_Subset, FS_CardinalityType
  <2>7. Cardinality(Skipped) <= Cardinality(walk.departed)
    BY <1>0 DEF IInv, Walking
  <2>8. QED
    BY <2>2, <2>4, <2>5, <2>6, <2>7, SetsFinite DEF IInv
<1>7. QED
  BY <1>0, <1>2, <1>5, <1>6, TypeOK' DEF IInv, Walking, MissedBounded

\* What comes before a row may only grow: its position does not fall.
LEMMA PositionRises ==
  ASSUME TypeOK', NEW x \in Rows, Before(x) \in SUBSET Before(x)'
  PROVE  Position(x)' \in Nat /\ Position(x) <= Position(x)'
<1>1. Before(x)' \in SUBSET Rows
  BY DEF TypeOK, Before
<1>2. IsFiniteSet(Before(x)') /\ Cardinality(Before(x)') \in Nat
  BY <1>1, RowsAssumption, FS_Subset, FS_CardinalityType
<1>3. QED
  BY <1>2, FS_Subset DEF Position

LEMMA InsertStep ==
  ASSUME IInv, NEW w \in Workers, NEW r \in Rows, Insert(w, r), TypeOK'
  PROVE  IInv'
<1>1. PICK s \in Fresh : stamp' = [stamp EXCEPT ![r] = s]
  BY DEF Insert
<1>2. /\ s \in Nat \ {0} /\ stamp[r] = 0 /\ r \notin listed
      /\ stamp' = [stamp EXCEPT ![r] = s]
      /\ stamp'[r] = s /\ \A x \in Rows \ {r} : stamp'[x] = stamp[x]
      /\ stamp \in [Rows -> Nat] /\ listed' = listed \cup {r}
      /\ listed \in SUBSET Rows
  BY <1>1 DEF Insert, Fresh, Stamps, IInv, TypeOK
<1>3. /\ walk'.stage = walk.stage /\ walk'.page = walk.page /\ walk'.seen = walk.seen
      /\ walk'.total = walk.total /\ walk'.standing = walk.standing
      /\ walk'.departed = walk.departed
      /\ walk.stage = "page" => walk'.late = walk.late \cup {r}
      /\ walk.stage # "page" => walk'.late = walk.late
  BY DEF Insert, IInv, TypeOK, Walk
<1>4. r \notin walk.departed /\ r \notin walk.late
  BY <1>2 DEF IInv
<1>5. /\ walk'.departed \in SUBSET {x \in Rows \ listed' : stamp'[x] # 0}
      /\ walk'.late \in SUBSET {x \in Rows : stamp'[x] # 0}
  BY <1>2, <1>3, <1>4 DEF IInv
<1>6. ASSUME Walking
      PROVE  walk'.standing \in SUBSET listed'
             /\ Cardinality(Skipped') <= Cardinality(walk.departed)
  <2>1. walk.standing \in SUBSET listed
    BY <1>6 DEF IInv
  <2>2. ASSUME NEW x \in walk.standing
        PROVE  Position(x)' \in Nat /\ Position(x) <= Position(x)'
    <3>1. x \in Rows /\ x # r
      BY <1>2, <2>1
    <3>2. \A y \in listed : y \in Rows \ {r}
      BY <1>2
    <3>3. Before(x) \in SUBSET Before(x)'
      BY <1>2, <3>1, <3>2 DEF Before
    <3>4. QED
      BY <3>1, <3>3, PositionRises
  <2>3. Cardinality(Skipped') <= Cardinality(Skipped)
    BY <1>3, <1>6, <2>2, SkippedShrinks
  <2>4. Cardinality(Skipped') \in Nat
    <3>1. Skipped' \in SUBSET Rows
      BY <1>2, <1>3, <2>1 DEF Skipped
    <3>2. QED
      BY <3>1, RowsAssumption, FS_Subset, FS_CardinalityType
  <2>5. QED
    BY <1>2, <1>3, <1>6, <2>1, <2>3, <2>4, SetsFinite DEF IInv
<1>7. walk.stage = "page"
      => Cardinality(listed') <= walk.total + Cardinality(walk'.late)
  <2>1. Cardinality(listed') = Cardinality(listed) + 1
    BY <1>2, SetsFinite, FS_AddElement DEF IInv
  <2>2. Cardinality(walk.late \cup {r}) = Cardinality(walk.late) + 1
    BY <1>4, SetsFinite, FS_AddElement DEF IInv
  <2>3. walk.total \in Nat
    BY DEF IInv, TypeOK, Walk
  <2>4. Cardinality(listed) \in Nat /\ Cardinality(walk.late) \in Nat
    BY SetsFinite DEF IInv
  <2>5. walk.stage = "page"
        => Cardinality(listed) <= walk.total + Cardinality(walk.late)
    BY DEF IInv
  <2>6. walk.stage = "page"
        => Cardinality(listed) + 1 <= walk.total + (Cardinality(walk.late) + 1)
    BY <2>3, <2>4, <2>5
  <2>7. QED
    BY <1>3, <2>1, <2>2, <2>6
<1>8. MissedBounded'
  BY <1>3 DEF IInv, MissedBounded, Missed
<1>9. QED
  BY <1>3, <1>5, <1>6, <1>7, <1>8, TypeOK' DEF IInv, Walking

LEMMA TouchStep ==
  ASSUME IInv, NEW w \in Workers, NEW r \in Rows, Touch(w, r), TypeOK'
  PROVE  IInv'
<1>1. PICK s \in Fresh : s > stamp[r] /\ stamp' = [stamp EXCEPT ![r] = s]
  BY DEF Touch
<1>2. /\ s \in Nat \ {0} /\ s > stamp[r]
      /\ stamp'[r] = s /\ \A x \in Rows \ {r} : stamp'[x] = stamp[x]
      /\ stamp \in [Rows -> Nat] /\ listed' = listed /\ r \in listed
      /\ listed \in SUBSET Rows
  BY <1>1 DEF Touch, Fresh, Stamps, IInv, TypeOK
<1>3. /\ walk'.stage = walk.stage /\ walk'.page = walk.page /\ walk'.seen = walk.seen
      /\ walk'.total = walk.total /\ walk'.departed = walk.departed
      /\ walk'.late = walk.late
      /\ Walking => walk'.standing = walk.standing \ {r}
      /\ ~Walking => walk'.standing = walk.standing
  BY DEF Touch, IInv, TypeOK, Walk
<1>4. /\ walk'.departed \in SUBSET {x \in Rows \ listed' : stamp'[x] # 0}
      /\ walk'.late \in SUBSET {x \in Rows : stamp'[x] # 0}
  BY <1>2, <1>3 DEF IInv
<1>5. ASSUME Walking
      PROVE  walk'.standing \in SUBSET listed'
             /\ Cardinality(Skipped') <= Cardinality(walk.departed)
  <2>1. walk.standing \in SUBSET listed
    BY <1>5 DEF IInv
  <2>2. ASSUME NEW x \in walk'.standing
        PROVE  Position(x)' \in Nat /\ Position(x) <= Position(x)'
    <3>1. x \in Rows /\ x # r
      BY <1>2, <1>3, <1>5, <2>1
    <3>2. \A y \in listed : stamp'[y] \in Nat /\ stamp'[y] >= stamp[y]
      BY <1>2
    <3>3. stamp[x] \in Nat /\ stamp'[x] = stamp[x]
            /\ \A y \in listed : stamp[y] \in Nat
      BY <1>2, <3>1
    <3>4. Before(x) \in SUBSET Before(x)'
      BY <1>2, <3>2, <3>3 DEF Before
    <3>5. QED
      BY <3>1, <3>4, PositionRises
  <2>3. Cardinality(Skipped') <= Cardinality(Skipped)
    BY <1>3, <1>5, <2>2, SkippedShrinks
  <2>4. Cardinality(Skipped') \in Nat
    <3>1. Skipped' \in SUBSET Rows
      BY <1>2, <1>3, <1>5, <2>1 DEF Skipped
    <3>2. QED
      BY <3>1, RowsAssumption, FS_Subset, FS_CardinalityType
  <2>5. QED
    BY <1>2, <1>3, <1>5, <2>1, <2>3, <2>4, SetsFinite DEF IInv
<1>6. MissedBounded'
  BY <1>3 DEF IInv, MissedBounded, Missed, Walking
<1>7. QED
  BY <1>2, <1>3, <1>4, <1>5, <1>6, TypeOK' DEF IInv, Walking

LEMMA DepartStep ==
  ASSUME IInv, NEW w \in Workers, NEW r \in Rows, Depart(w, r), TypeOK'
  PROVE  IInv'
<1> DEFINE offset == walk.page * PageSize
<1>1. /\ stamp' = stamp /\ listed' = listed \ {r} /\ r \in listed
      /\ listed \in SUBSET Rows
  BY DEF Depart, IInv, TypeOK
<1>2. /\ walk'.stage = walk.stage /\ walk'.page = walk.page /\ walk'.seen = walk.seen
      /\ walk'.total = walk.total /\ walk'.late = walk.late
      /\ Walking => /\ walk'.standing = walk.standing \ {r}
                    /\ walk'.departed = walk.departed \cup {r}
      /\ ~Walking => walk' = walk
  BY DEF Depart, IInv, TypeOK, Walk
<1>3. r \notin walk.departed /\ stamp[r] # 0 /\ offset \in Nat
  BY <1>1, SizeAssumption DEF IInv, TypeOK, Walk
<1>4. /\ walk'.departed \in SUBSET {x \in Rows \ listed' : stamp'[x] # 0}
      /\ walk'.late \in SUBSET {x \in Rows : stamp'[x] # 0}
  BY <1>1, <1>2, <1>3 DEF IInv
<1>5. ASSUME NEW x \in Rows
      PROVE  Position(x) \in Nat /\ Position(x)' \in Nat /\ Position(x) <= Position(x)' + 1
  <2>1. Before(x)' = Before(x) \ {r} /\ IsFiniteSet(Before(x)) /\ Position(x) \in Nat
    BY <1>1, PositionBounds DEF Before, IInv
  <2>2. IsFiniteSet(Before(x) \ {r})
          /\ Cardinality(Before(x) \ {r})
               = IF r \in Before(x) THEN Cardinality(Before(x)) - 1
                                    ELSE Cardinality(Before(x))
    BY <2>1, FS_RemoveElement
  <2>3. Cardinality(Before(x) \ {r}) \in Nat
    BY <2>2, FS_CardinalityType
  <2>4. QED
    BY <2>1, <2>2, <2>3 DEF Position
<1> HIDE DEF offset
<1>6. ASSUME Walking
      PROVE  /\ walk'.standing \in SUBSET listed'
             /\ Cardinality(Skipped') <= Cardinality(walk'.departed)
  <2>1. walk.standing \in SUBSET listed
    BY <1>6 DEF IInv
  <2>2. ASSUME NEW x \in Skipped', x \notin Skipped
        PROVE  x \in listed /\ Position(x) = offset
    <3>1. x \in walk.standing /\ x \notin walk.seen /\ Position(x)' < offset
      BY <1>2, <1>6, <2>2 DEF Skipped, offset
    <3>2. x \in Rows /\ x \in listed /\ ~(Position(x) < offset)
      BY <1>1, <2>1, <2>2, <3>1 DEF Skipped, offset
    <3>3. QED
      BY <1>3, <1>5, <3>1, <3>2
  <2>3. PICK e \in Rows : Skipped' \in SUBSET (Skipped \cup {e})
    <3>1. CASE \E x \in Skipped' : x \notin Skipped
      <4>1. PICK e \in Skipped' : e \notin Skipped
        BY <3>1
      <4>2. e \in listed /\ Position(e) = offset
        BY <2>2, <4>1
      <4>3. \A x \in Skipped' : x \in Skipped \/ x = e
        BY <2>2, <4>2, PositionsUnique DEF IInv
      <4>4. QED
        BY <1>1, <4>2, <4>3
    <3>2. CASE ~\E x \in Skipped' : x \notin Skipped
      BY <1>1, <3>2
    <3>3. QED
      BY <3>1, <3>2
  <2>4. IsFiniteSet(Skipped) /\ Cardinality(Skipped) \in Nat
          /\ IsFiniteSet(walk.departed) /\ Cardinality(walk.departed) \in Nat
    BY SetsFinite DEF IInv
  <2>5. /\ IsFiniteSet(Skipped \cup {e})
        /\ Cardinality(Skipped \cup {e}) \in Nat
        /\ Cardinality(Skipped \cup {e}) <= Cardinality(Skipped) + 1
    <3>1. IsFiniteSet(Skipped) /\ Cardinality(Skipped) \in Nat
      BY <2>4
    <3>2. /\ IsFiniteSet(Skipped \cup {e})
          /\ Cardinality(Skipped \cup {e})
               = IF e \in Skipped THEN Cardinality(Skipped) ELSE Cardinality(Skipped) + 1
      BY <3>1, FS_AddElement
    <3>3. QED
      BY <3>1, <3>2
  <2>6. Cardinality(Skipped') <= Cardinality(Skipped \cup {e})
          /\ Cardinality(Skipped') \in Nat
    BY <2>3, <2>5, FS_Subset, FS_CardinalityType
  <2>7. Cardinality(walk'.departed) = Cardinality(walk.departed) + 1
    BY <1>2, <1>3, <1>6, <2>4, FS_AddElement
  <2>8. Cardinality(Skipped) <= Cardinality(walk.departed)
    BY <1>6 DEF IInv
  <2>9. walk'.standing \in SUBSET listed'
    BY <1>1, <1>2, <1>6, <2>1
  <2>10. QED
    BY <2>4, <2>5, <2>6, <2>7, <2>8, <2>9
<1>7. walk.stage = "page" => Cardinality(listed') <= walk.total + Cardinality(walk.late)
  <2>1. Cardinality(listed') <= Cardinality(listed) /\ Cardinality(listed') \in Nat
    BY <1>1, SetsFinite, FS_Subset, FS_CardinalityType DEF IInv
  <2>2. walk.total \in Nat /\ Cardinality(listed) \in Nat /\ Cardinality(walk.late) \in Nat
    BY SetsFinite DEF IInv, TypeOK, Walk
  <2>3. walk.stage = "page"
        => Cardinality(listed) <= walk.total + Cardinality(walk.late)
    BY DEF IInv
  <2>4. QED
    BY <2>1, <2>2, <2>3
<1>8. MissedBounded'
  BY <1>2 DEF IInv, MissedBounded, Missed, Walking
<1>9. QED
  BY <1>2, <1>4, <1>6, <1>7, <1>8, TypeOK' DEF IInv, Walking

-------------------------------------------------------------------------------
LEMMA IInvHolds == Spec => []IInv
<1>1. Init => IInv
  BY DEF Init, IInv, TypeOK, Walk, NoWalk, Walking, MissedBounded
<1>2. ASSUME IInv, [Next]_vars PROVE IInv'
  <2>1. TypeOK'
    BY <1>2, StepTyped DEF IInv
  <2>2. CASE UNCHANGED vars
    BY <1>2, <2>1, <2>2
       DEF IInv, vars, Walking, Skipped, Position, Before, MissedBounded, Missed
  <2>3. CASE Next
    BY <1>2, <2>1, <2>3, AskStep, ReadStep, InsertStep, DepartStep, TouchStep DEF Next
  <2>4. QED
    BY <1>2, <2>2, <2>3
<1>3. QED
  BY <1>1, <1>2, PTL DEF Spec

\* A finished walk through the pages of get_login_logs or get_sessions misses at
\* most one row for each that left the listing during the walk and each that came
\* between the count and the rows of its last page.
THEOREM MissedAtMost == Spec => []MissedBounded
<1>1. IInv => MissedBounded
  BY DEF IInv
<1>2. QED
  BY <1>1, IInvHolds, PTL

\* Where rows are only added nothing departs; one process adds none between the
\* SELECTs of a request it serves.
Alone ==
  /\ ~Mutable => walk.departed = {}
  /\ (\A v, w \in Workers : v = w) => walk.late = {}
  /\ walk.stage = "page" => walk.server \in Workers

\* With a single server process a walk through the login log misses nothing.
THEOREM CompleteWhenAlone == Spec => []OneProcessComplete
<1>1. Init => Alone
  BY DEF Init, Alone, NoWalk
<1>2. ASSUME TypeOK, Alone, [Next]_vars PROVE Alone'
  <2>1. CASE UNCHANGED vars
    BY <1>2, <2>1 DEF Alone, vars
  <2>2. ASSUME NEW w \in Workers, AskFirst(w) PROVE Alone'
    BY <1>2, <2>2 DEF Alone, AskFirst, NoWalk
  <2>3. ASSUME NEW w \in Workers, AskNext(w) PROVE Alone'
    BY <1>2, <2>3 DEF Alone, AskNext, TypeOK, Walk
  <2>4. ASSUME NEW w \in Workers, ReadPage(w) PROVE Alone'
    BY <1>2, <2>4 DEF Alone, ReadPage, TypeOK, Walk
  <2>5. ASSUME NEW w \in Workers, NEW r \in Rows, Insert(w, r) PROVE Alone'
    BY <1>2, <2>5 DEF Alone, Insert, TypeOK, Walk
  <2>6. ASSUME NEW w \in Workers, NEW r \in Rows, Depart(w, r) PROVE Alone'
    BY <1>2, <2>6 DEF Alone, Depart, TypeOK, Walk
  <2>7. ASSUME NEW w \in Workers, NEW r \in Rows, Touch(w, r) PROVE Alone'
    BY <1>2, <2>7 DEF Alone, Touch, TypeOK, Walk
  <2>8. QED
    BY <1>2, <2>1, <2>2, <2>3, <2>4, <2>5, <2>6, <2>7 DEF Next
<1>3. TypeOK /\ Alone /\ MissedBounded => OneProcessComplete
  <2> SUFFICES ASSUME TypeOK, Alone, MissedBounded, walk.stage = "done", ~Mutable,
                      \A v, w \in Workers : v = w
               PROVE  Missed = {}
    BY DEF OneProcessComplete
  <2>1. Cardinality(Missed) <= 0
    BY FS_EmptySet DEF Alone, MissedBounded
  <2>2. IsFiniteSet(Missed) /\ Cardinality(Missed) \in Nat
    BY SetsFinite
  <2>3. Cardinality(Missed) = 0
    BY <2>1, <2>2
  <2>4. QED
    BY <2>2, <2>3, FS_EmptySet
<1>4. QED
  BY <1>1, <1>2, <1>3, TypeCorrect, MissedAtMost, PTL DEF Spec
===============================================================================

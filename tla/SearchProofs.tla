----------------------------- MODULE SearchProofs -----------------------------
(* memoryMap lists every region once and whole, and searchMem finds exactly  *)
(* what is there, for any memory, page size, pattern, bounds and limit.      *)
EXTENDS WinapiSearch, FiniteSetTheorems, SequenceTheorems, WellFoundedInduction, TLAPS

-------------------------------------------------------------------------------
(* Addresses and pages.                                                      *)
LEMMA Steps ==
  ASSUME NEW j \in Int, NEW k \in Int, j < k
  PROVE  j * PageSize < k * PageSize /\ (j + 1) * PageSize <= k * PageSize
         /\ j * PageSize \in Int /\ k * PageSize \in Int
  BY SearchAssumption

LEMMA Division ==
  ASSUME NEW a \in Nat
  PROVE  /\ PageOf(a) \in Nat /\ PageOf(a) * PageSize \in Nat
         /\ PageOf(a) * PageSize <= a /\ a < (PageOf(a) + 1) * PageSize
  BY SearchAssumption DEF PageOf

LEMMA PageIs ==
  ASSUME NEW a \in Nat, NEW k \in Nat, k * PageSize <= a, a < (k + 1) * PageSize
  PROVE  PageOf(a) = k
  <1>1. /\ PageOf(a) \in Nat /\ PageOf(a) * PageSize <= a /\ a < (PageOf(a) + 1) * PageSize
    BY Division
  <1>2. ~(PageOf(a) < k)
    <2>1. SUFFICES ASSUME PageOf(a) < k PROVE FALSE
      OBVIOUS
    <2>2. (PageOf(a) + 1) * PageSize <= k * PageSize
      BY <1>1, <2>1, Steps
    <2>3. (PageOf(a) + 1) * PageSize \in Int /\ k * PageSize \in Int
      BY <1>1, SearchAssumption
    <2>4. QED
      BY <1>1, <2>2, <2>3
  <1>3. ~(k < PageOf(a))
    <2>1. SUFFICES ASSUME k < PageOf(a) PROVE FALSE
      OBVIOUS
    <2>2. (k + 1) * PageSize <= PageOf(a) * PageSize
      BY <1>1, <2>1, Steps
    <2>3. (k + 1) * PageSize \in Int /\ PageOf(a) * PageSize \in Int
      BY <1>1, SearchAssumption
    <2>4. QED
      BY <1>1, <2>2, <2>3
  <1>4. QED
    BY <1>1, <1>2, <1>3

LEMMA PagesGrow ==
  ASSUME NEW a \in Nat, NEW b \in Nat, a <= b
  PROVE  PageOf(a) <= PageOf(b)
  <1>1. /\ PageOf(a) \in Nat /\ PageOf(a) * PageSize <= a
        /\ PageOf(b) \in Nat /\ b < (PageOf(b) + 1) * PageSize
    BY Division
  <1>2. SUFFICES ASSUME PageOf(b) < PageOf(a) PROVE FALSE
    BY <1>1
  <1>3. (PageOf(b) + 1) * PageSize <= PageOf(a) * PageSize
    BY <1>1, <1>2, Steps
  <1>4. (PageOf(b) + 1) * PageSize \in Int /\ PageOf(a) * PageSize \in Int
    BY <1>1, SearchAssumption
  <1>5. QED
    BY <1>1, <1>3, <1>4

LEMMA CellPage ==
  /\ Size \in Nat /\ Size > 0
  /\ \A a \in Nat : a \in Cells <=> a < Size
  /\ \A a \in Cells : a \in Nat /\ PageOf(a) \in PageNumbers
  /\ \A k \in PageNumbers : k * PageSize \in Cells /\ PageOf(k * PageSize) = k
  <1>1. Size \in Nat /\ Size > 0
    BY SearchAssumption DEF Size
  <1>2. \A a \in Nat : a \in Cells <=> a < Size
    BY <1>1 DEF Cells
  <1>3. ASSUME NEW a \in Cells PROVE a \in Nat /\ PageOf(a) \in PageNumbers
    <2>1. a \in Nat /\ a < Size
      BY <1>1, <1>3 DEF Cells
    <2>2. PageOf(a) \in Nat /\ PageOf(a) * PageSize <= a
      BY <2>1, Division
    <2>3. ~(Pages <= PageOf(a))
      <3>1. SUFFICES ASSUME Pages < PageOf(a) \/ Pages = PageOf(a) PROVE FALSE
        BY <2>2, SearchAssumption
      <3>2. Pages * PageSize <= PageOf(a) * PageSize
        BY <2>2, <3>1, Steps, SearchAssumption
      <3>3. QED
        BY <1>1, <2>1, <2>2, <3>2, SearchAssumption DEF Size
    <2>4. QED
      BY <2>1, <2>2, <2>3, SearchAssumption DEF PageNumbers
  <1>4. ASSUME NEW k \in PageNumbers PROVE k * PageSize \in Cells /\ PageOf(k * PageSize) = k
    <2>1. k \in Nat /\ k < Pages
      BY <1>4, SearchAssumption DEF PageNumbers
    <2>2. k * PageSize < Pages * PageSize /\ k * PageSize < (k + 1) * PageSize
          /\ k * PageSize \in Int
      BY <2>1, Steps, SearchAssumption
    <2>3. k * PageSize \in Nat
      BY <2>1, SearchAssumption
    <2>4. QED
      BY <1>2, <2>1, <2>2, <2>3, PageIs DEF Size
  <1>5. QED
    BY <1>1, <1>2, <1>3, <1>4

-------------------------------------------------------------------------------
(* Least and greatest members.                                               *)
LEMMA Least ==
  ASSUME NEW S \in SUBSET Nat, S # {}
  PROVE  \E x \in S : \A y \in S : x <= y
  <1> DEFINE R == OpToRel(<, Nat)
  <1>1. \A x, y \in Nat : y < x => <<y, x>> \in R
    BY DEF OpToRel
  <1>2. IsWellFoundedOn(R, Nat)
    BY NatLessThanWellFounded
  <1> HIDE DEF R
  <1>3. PICK x \in S : \A y \in S : ~(<<y, x>> \in R)
    BY <1>2, WFMin
  <1>4. ASSUME NEW y \in S PROVE x <= y
    <2>1. ~(y < x)
      BY <1>1, <1>3
    <2>2. x \in Nat /\ y \in Nat
      OBVIOUS
    <2>3. QED
      BY <2>1, <2>2
  <1>5. QED
    BY <1>4

LEMMA Greatest ==
  ASSUME NEW S \in SUBSET Nat, S # {}, NEW n \in Nat, \A y \in S : y <= n
  PROVE  Max(S) \in S /\ \A y \in S : y <= Max(S)
  <1> DEFINE T == {u \in Nat : \A y \in S : y <= u}
  <1>1. n \in T
    OBVIOUS
  <1>2. PICK m \in T : \A u \in T : m <= u
    BY <1>1, Least
  <1>3. m \in Nat /\ \A y \in S : y <= m
    BY <1>2
  <1>4. m \in S
    <2>1. CASE m = 0
      <3>1. PICK y \in S : TRUE
        OBVIOUS
      <3>2. y \in Nat /\ y <= 0
        BY <1>3, <2>1
      <3>3. y = 0
        BY <3>2
      <3>4. QED
        BY <2>1, <3>3
    <2>2. CASE m # 0
      <3>1. m - 1 \in Nat /\ m - 1 \notin T
        BY <1>2, <1>3, <2>2
      <3>2. PICK y \in S : ~(y <= m - 1)
        BY <3>1
      <3>3. y <= m /\ y \in Nat
        BY <1>3
      <3>4. y = m
        BY <1>3, <3>1, <3>2, <3>3
      <3>5. QED
        BY <3>4
    <2>3. QED
      BY <2>1, <2>2
  <1>5. \E x \in S : \A y \in S : x >= y
    BY <1>3, <1>4
  <1>6. Max(S) \in S /\ \A y \in S : Max(S) >= y
    BY <1>5 DEF Max
  <1>7. QED
    BY <1>6

LEMMA Two ==
  ASSUME NEW a \in Nat, NEW b \in Nat
  PROVE  /\ Max({a, b}) = (IF a < b THEN b ELSE a)
         /\ Min({a, b}) = (IF a < b THEN a ELSE b)
  <1>1. Max({a, b}) \in {a, b} /\ \A y \in {a, b} : Max({a, b}) >= y
    <2>1. \E x \in {a, b} : \A y \in {a, b} : x >= y
      OBVIOUS
    <2>2. QED
      BY <2>1 DEF Max
  <1>2. Min({a, b}) \in {a, b} /\ \A y \in {a, b} : Min({a, b}) =< y
    <2>1. \E x \in {a, b} : \A y \in {a, b} : x =< y
      OBVIOUS
    <2>2. QED
      BY <2>1 DEF Min
  <1> HIDE DEF Max, Min
  <1>3. QED
    BY <1>1, <1>2

-------------------------------------------------------------------------------
(* Regions.                                                                  *)
Boundary(x) ==
  \E k \in 0..Pages :
    x = k * PageSize /\ (k \in PageNumbers \ {0} => ~OneRegion(k - 1, k))

LEMMA Parts ==
  ASSUME NEW p \in Int, NEW q \in Int, NEW r \in Int, p <= r, r <= q
  PROVE  OneRegion(p, q) <=> OneRegion(p, r) /\ OneRegion(r, q)
  BY DEF OneRegion

(* All pages of a region are protected alike.                                *)
LEMMA AllAlike ==
  ASSUME NEW p \in Nat, NEW q \in Nat, p <= q, OneRegion(p, q)
  PROVE  protect[q] = protect[p]
  <1> DEFINE T == {u \in Nat : p <= u /\ u <= q /\ protect[u] # protect[p]}
  <1>1. SUFFICES ASSUME protect[q] # protect[p] PROVE FALSE
    OBVIOUS
  <1>2. q \in T
    BY <1>1
  <1>3. PICK u \in T : \A v \in T : u <= v
    BY <1>2, Least
  <1>4. u \in Nat /\ p < u /\ u <= q /\ protect[u] # protect[p]
    BY <1>3
  <1>5. protect[u] = protect[u - 1]
    BY <1>4 DEF OneRegion
  <1>6. u - 1 \in T
    BY <1>4, <1>5
  <1>7. QED
    BY <1>3, <1>4, <1>6

(* The region that VirtualQueryEx answers with: from the page of a to the    *)
(* next page that belongs to another region.                                 *)
LEMMA RegionOf ==
  ASSUME NEW a \in Cells
  PROVE  \E m \in PageNumbers :
           /\ PageOf(a) <= m /\ OneRegion(PageOf(a), m)
           /\ Behind(a) = (m + 1) * PageSize
           /\ m + 1 \in PageNumbers => ~OneRegion(m, m + 1)
  <1> DEFINE p == PageOf(a)
             S == {q \in p..(Pages - 1) : OneRegion(p, q)}
  <1>1. p \in PageNumbers /\ p \in Nat /\ Pages \in Nat /\ p < Pages
    BY CellPage, SearchAssumption DEF PageNumbers
  <1> HIDE DEF p
  <1>2. p \in S
    <2>1. OneRegion(p, p)
      BY <1>1 DEF OneRegion
    <2>2. QED
      BY <1>1, <2>1
  <1>3. S \in SUBSET Nat /\ \A y \in S : y <= Pages
    BY <1>1
  <1>4. PICK m : m = Max(S)
    OBVIOUS
  <1>5. m \in S /\ \A y \in S : y <= m
    BY <1>1, <1>2, <1>3, <1>4, Greatest
  <1>6. m \in PageNumbers /\ p <= m /\ OneRegion(p, m)
    BY <1>1, <1>5 DEF PageNumbers
  <1>7. ASSUME m + 1 \in PageNumbers, OneRegion(m, m + 1) PROVE FALSE
    <2>1. m \in Int /\ m + 1 \in Int /\ p \in Int /\ p <= m + 1
      BY <1>1, <1>5
    <2>2. OneRegion(p, m + 1)
      BY <1>6, <1>7, <2>1, Parts
    <2>3. m + 1 \in S
      BY <1>1, <1>7, <2>1, <2>2 DEF PageNumbers
    <2>4. QED
      BY <1>5, <2>1, <2>3
  <1>8. Behind(a) = (m + 1) * PageSize
    BY <1>4 DEF Behind, p
  <1>9. QED
    BY <1>6, <1>7, <1>8 DEF p

LEMMA RegionBounds ==
  ASSUME NEW a \in Cells
  PROVE  /\ Base(a) \in Cells /\ Base(a) <= a
         /\ Behind(a) \in Nat /\ a < Behind(a) /\ Behind(a) <= Size
         /\ Boundary(Behind(a))
  <1>1. PICK m \in PageNumbers :
           /\ PageOf(a) <= m /\ OneRegion(PageOf(a), m)
           /\ Behind(a) = (m + 1) * PageSize
           /\ m + 1 \in PageNumbers => ~OneRegion(m, m + 1)
    BY RegionOf
  <1>2. /\ a \in Nat /\ PageOf(a) \in PageNumbers /\ PageOf(a) \in Nat
        /\ PageOf(a) * PageSize <= a /\ a < (PageOf(a) + 1) * PageSize
    BY CellPage, Division
  <1>3. Base(a) \in Cells /\ Base(a) <= a
    BY <1>2, CellPage DEF Base
  <1>4. m \in Nat /\ m < Pages /\ Pages \in Nat
    BY SearchAssumption DEF PageNumbers
  <1>5. (PageOf(a) + 1) * PageSize <= (m + 1) * PageSize
    BY <1>1, <1>2, <1>4, Steps, SearchAssumption
  <1>6. (m + 1) * PageSize <= Pages * PageSize
    BY <1>4, Steps
  <1>7. (m + 1) * PageSize \in Nat /\ (PageOf(a) + 1) * PageSize \in Nat
    BY <1>2, <1>4, SearchAssumption
  <1>8. Boundary((m + 1) * PageSize)
    <2>1. m + 1 \in 0..Pages /\ (m + 1) - 1 = m
      BY <1>4
    <2>2. QED
      BY <1>1, <2>1 DEF Boundary
  <1>9. QED
    BY <1>1, <1>2, <1>3, <1>5, <1>6, <1>7, <1>8, CellPage DEF Size

(* What starts at a boundary is the start of a region.                       *)
LEMMA AtBoundary ==
  ASSUME NEW x, Boundary(x)
  PROVE  /\ x \in Nat /\ x <= Size
         /\ x \in Cells => Base(x) = x
         /\ x \in Cells /\ x # 0 => PageOf(x) - 1 \in Nat /\ ~OneRegion(PageOf(x) - 1, PageOf(x))
  <1>1. PICK k \in 0..Pages :
          x = k * PageSize /\ (k \in PageNumbers \ {0} => ~OneRegion(k - 1, k))
    BY DEF Boundary
  <1>2. k \in Nat /\ k <= Pages /\ Pages \in Nat /\ PageSize \in Nat
    BY SearchAssumption
  <1>3. x \in Nat
    BY <1>1, <1>2
  <1>4. x <= Size
    BY <1>1, <1>2, Steps DEF Size
  <1>5. ASSUME x \in Cells PROVE k \in PageNumbers /\ PageOf(x) = k /\ Base(x) = x
    <2>1. k # Pages
      BY <1>1, <1>3, <1>5, CellPage DEF Size
    <2>2. k \in PageNumbers
      BY <1>2, <2>1 DEF PageNumbers
    <2>3. PageOf(x) = k
      BY <1>1, <2>2, CellPage
    <2>4. QED
      BY <1>1, <2>2, <2>3 DEF Base
  <1>6. ASSUME x # 0 PROVE k # 0
    BY <1>1, <1>6, SearchAssumption
  <1>7. QED
    BY <1>1, <1>2, <1>3, <1>4, <1>5, <1>6

-------------------------------------------------------------------------------
(* Ranks.                                                                    *)
LEMMA CellSets ==
  ASSUME NEW S \in SUBSET Cells
  PROVE  IsFiniteSet(S) /\ Cardinality(S) \in Nat /\ S \in SUBSET Nat
  <1>1. Size \in Nat
    BY CellPage
  <1>2. IsFiniteSet(Cells)
    BY <1>1, FS_Interval DEF Cells
  <1>3. IsFiniteSet(S)
    BY <1>2, FS_Subset
  <1>4. S \in SUBSET Nat
    BY <1>1 DEF Cells
  <1>5. QED
    BY <1>3, <1>4, FS_CardinalityType

(* Each rank below the number of members is the rank of a member: the one    *)
(* before the first number that has more members below it.                   *)
LEMMA EachRank ==
  ASSUME NEW S \in SUBSET Cells, NEW i \in 1..Cardinality(S)
  PROVE  \E x \in S : Rank(x, S) = i - 1
  <1> DEFINE below(n) == {y \in S : y < n}
             T == {n \in Nat : i <= Cardinality(below(n))}
  <1>1. Size \in Nat /\ S \in SUBSET Nat /\ IsFiniteSet(S) /\ Cardinality(S) \in Nat /\ i \in Nat /\ i >= 1
    BY CellPage, CellSets
  <1>2. ASSUME NEW n \in Nat
        PROVE  IsFiniteSet(below(n)) /\ Cardinality(below(n)) \in Nat
    <2>1. below(n) \in SUBSET S
      OBVIOUS
    <2> HIDE DEF below
    <2>2. QED
      BY <1>1, <2>1, FS_Subset, FS_CardinalityType
  <1>3. Size \in T
    <2>1. below(Size) = S
      BY <1>1, CellPage
    <2>2. QED
      BY <1>1, <2>1
  <1>4. PICK n \in T : \A u \in T : n <= u
    BY <1>3, Least
  <1>5. n \in Nat /\ i <= Cardinality(below(n))
    BY <1>4
  <1>6. n # 0
    <2>1. SUFFICES ASSUME n = 0 PROVE FALSE
      OBVIOUS
    <2>2. \A y \in S : ~(y < 0)
      BY <1>1
    <2>3. below(0) = {}
      BY <2>2
    <2>4. Cardinality(below(0)) = 0
      BY <2>3, FS_EmptySet
    <2>5. QED
      BY <1>1, <1>5, <2>1, <2>4
  <1>7. PICK x : x = n - 1
    OBVIOUS
  <1>8. x \in Nat /\ n = x + 1
    BY <1>5, <1>6, <1>7
  <1>9. ~(i <= Cardinality(below(x)))
    <2>1. x \notin T
      BY <1>4, <1>5, <1>8
    <2>2. QED
      BY <1>8, <2>1
  <1>10. below(n) = IF x \in S THEN below(x) \union {x} ELSE below(x)
    <2>1. \A y \in S : y < n <=> y < x \/ y = x
      BY <1>1, <1>8
    <2>2. QED
      BY <2>1
  <1>11. x \notin below(x)
    BY <1>8
  <1>12. IsFiniteSet(below(x)) /\ Cardinality(below(x)) \in Nat
    BY <1>2, <1>8
  <1>13. Cardinality(below(x)) = Rank(x, S)
    BY DEF Rank
  <1> HIDE DEF below
  <1>14. x \in S
    BY <1>5, <1>9, <1>10
  <1>15. Cardinality(below(n)) = Cardinality(below(x)) + 1
    BY <1>10, <1>11, <1>12, <1>14, FS_AddElement
  <1>16. Cardinality(below(x)) = i - 1
    BY <1>1, <1>5, <1>9, <1>12, <1>15
  <1>17. QED
    BY <1>13, <1>14, <1>16

LEMMA AscendingIs ==
  ASSUME NEW S \in SUBSET Cells
  PROVE  /\ Ascending(S) \in Seq(Cells) /\ Len(Ascending(S)) = Cardinality(S)
         /\ \A i \in 1..Cardinality(S) : Ascending(S)[i] \in S /\ Rank(Ascending(S)[i], S) = i - 1
  <1>1. Cardinality(S) \in Nat
    BY CellSets
  <1>2. ASSUME NEW i \in 1..Cardinality(S)
        PROVE  Ascending(S)[i] \in S /\ Rank(Ascending(S)[i], S) = i - 1
    <2>1. \E x \in S : Rank(x, S) = i - 1
      BY EachRank
    <2>2. Ascending(S)[i] = CHOOSE x \in S : Rank(x, S) = i - 1
      BY DEF Ascending
    <2>3. QED
      BY <2>1, <2>2
  <1>3. Ascending(S) = [i \in 1..Cardinality(S) |-> Ascending(S)[i]]
    BY DEF Ascending
  <1>4. Ascending(S) \in [1..Cardinality(S) -> Cells]
    BY <1>2, <1>3
  <1>5. QED
    BY <1>1, <1>2, <1>4

(* Members that come behind all of A do not change ranks in A.               *)
LEMMA RankBehind ==
  ASSUME NEW A \in SUBSET Cells, NEW B \in SUBSET Cells, \A x \in A : \A y \in B : x < y
  PROVE  /\ Cardinality(A \union B) = Cardinality(A) + Cardinality(B)
         /\ \A x \in A : Rank(x, A \union B) = Rank(x, A)
         /\ \A y \in B : Rank(y, A \union B) = Cardinality(A) + Rank(y, B)
  <1>1. A \in SUBSET Nat /\ B \in SUBSET Nat /\ IsFiniteSet(A) /\ IsFiniteSet(B)
        /\ Cardinality(A) \in Nat /\ Cardinality(B) \in Nat
    BY CellSets
  <1>2. ASSUME NEW C \in SUBSET B
        PROVE  Cardinality(A \union C) = Cardinality(A) + Cardinality(C)
    <2>1. A \intersect C = {}
      BY <1>1
    <2>2. IsFiniteSet(C) /\ Cardinality(C) \in Nat
      BY <1>1, FS_Subset, FS_CardinalityType
    <2>3. Cardinality(A \intersect C) = 0
      BY <2>1, FS_EmptySet
    <2>4. QED
      BY <1>1, <2>2, <2>3, FS_Union
  <1>3. ASSUME NEW x \in A PROVE Rank(x, A \union B) = Rank(x, A)
    <2>1. \A y \in B : ~(y < x)
      <3>1. x \in Nat /\ \A y \in B : y \in Nat /\ x < y
        BY <1>1
      <3>2. QED
        BY <3>1
    <2>2. {y \in A \union B : y < x} = {y \in A : y < x}
      BY <2>1
    <2>3. QED
      BY <2>2 DEF Rank
  <1>4. ASSUME NEW y \in B PROVE Rank(y, A \union B) = Cardinality(A) + Rank(y, B)
    <2>1. {x \in A \union B : x < y} = A \union {x \in B : x < y}
      BY <1>1
    <2>2. QED
      BY <1>2, <2>1 DEF Rank
  <1>5. QED
    BY <1>2, <1>3, <1>4

-------------------------------------------------------------------------------
(* The first MaxResults members of S in ascending order.                     *)
Exact(rs, S) ==
  /\ rs \in Seq(Cells)
  /\ Len(rs) = Min({MaxResults, Cardinality(S)})
  /\ \A i \in DOMAIN rs : rs[i] \in S /\ Rank(rs[i], S) = i - 1

LEMMA NothingYet == Exact(<<>>, {})
  <1>1. Cardinality({}) = 0
    BY FS_EmptySet
  <1>2. MaxResults \in Nat /\ 0 \in Nat /\ ~(MaxResults < 0)
    BY SearchAssumption
  <1>3. Min({MaxResults, 0}) = (IF MaxResults < 0 THEN MaxResults ELSE 0)
    BY <1>2, Two, Zenon
  <1>4. QED
    BY <1>1, <1>2, <1>3 DEF Exact

(* The limit is reached: what comes behind does not matter.                  *)
LEMMA ExactWhenFull ==
  ASSUME NEW A \in SUBSET Cells, NEW B \in SUBSET Cells, \A x \in A : \A y \in B : x < y,
         NEW rs, Exact(rs, A), Len(rs) >= MaxResults
  PROVE  Exact(rs, A \union B)
  <1>1. /\ Cardinality(A \union B) = Cardinality(A) + Cardinality(B)
        /\ \A x \in A : Rank(x, A \union B) = Rank(x, A)
    BY RankBehind
  <1>2. /\ Cardinality(A) \in Nat /\ Cardinality(B) \in Nat /\ Cardinality(A \union B) \in Nat
        /\ MaxResults \in Nat
    BY CellSets, SearchAssumption
  <1>3. Len(rs) = MaxResults /\ MaxResults <= Cardinality(A)
    <2>1. Min({MaxResults, Cardinality(A)}) =
            (IF MaxResults < Cardinality(A) THEN MaxResults ELSE Cardinality(A))
      BY <1>2, Two, Zenon
    <2>2. QED
      BY <1>2, <2>1 DEF Exact
  <1>4. Min({MaxResults, Cardinality(A \union B)}) = MaxResults
    <2>1. Min({MaxResults, Cardinality(A \union B)}) =
            (IF MaxResults < Cardinality(A \union B) THEN MaxResults ELSE Cardinality(A \union B))
      BY <1>2, Two, Zenon
    <2>2. QED
      BY <1>1, <1>2, <1>3, <2>1
  <1>5. QED
    BY <1>1, <1>3, <1>4 DEF Exact

LEMMA ExactGrows ==
  ASSUME NEW A \in SUBSET Cells, NEW B \in SUBSET Cells, \A x \in A : \A y \in B : x < y,
         NEW rs, Exact(rs, A), Len(rs) < MaxResults
  PROVE  Exact(Limited(rs \o Ascending(B)), A \union B)
  <1> DEFINE a == Cardinality(A)
             b == Cardinality(B)
             fs == Ascending(B)
             ls == rs \o fs
             n == Min({MaxResults, Len(ls)})
             us == SubSeq(ls, 1, n)
  <1>1. /\ Cardinality(A \union B) = a + b
        /\ \A x \in A : Rank(x, A \union B) = Rank(x, A)
        /\ \A y \in B : Rank(y, A \union B) = a + Rank(y, B)
    BY RankBehind
  <1>2. a \in Nat /\ b \in Nat /\ MaxResults \in Nat /\ MaxResults >= 1
    BY CellSets, SearchAssumption
  <1>3. /\ rs \in Seq(Cells) /\ Len(rs) = a /\ DOMAIN rs = 1..a
        /\ \A i \in 1..a : rs[i] \in A /\ Rank(rs[i], A) = i - 1
    <2>1. Min({MaxResults, a}) = (IF MaxResults < a THEN MaxResults ELSE a)
      BY <1>2, Two, Zenon
    <2> HIDE DEF a
    <2>2. rs \in Seq(Cells) /\ Len(rs) = a
      BY <1>2, <2>1 DEF Exact, a
    <2>3. DOMAIN rs = 1..a
      BY <2>2
    <2>4. QED
      BY <2>2, <2>3 DEF Exact
  <1>4. /\ fs \in Seq(Cells) /\ Len(fs) = b
        /\ \A i \in 1..b : fs[i] \in B /\ Rank(fs[i], B) = i - 1
    BY AscendingIs
  <1> HIDE DEF a, b, fs
  <1>5. /\ ls \in Seq(Cells) /\ Len(ls) = a + b
        /\ \A i \in 1..(a + b) : ls[i] = IF i <= a THEN rs[i] ELSE fs[i - a]
    BY <1>3, <1>4, ConcatProperties
  <1>6. ASSUME NEW i \in 1..(a + b)
        PROVE  ls[i] \in A \union B /\ Rank(ls[i], A \union B) = i - 1
    <2>1. CASE i <= a
      <3>1. i \in 1..a /\ ls[i] = rs[i]
        BY <1>2, <1>5, <2>1
      <3>2. rs[i] \in A /\ Rank(rs[i], A) = i - 1
        BY <1>3, <3>1
      <3>3. Rank(rs[i], A \union B) = Rank(rs[i], A)
        BY <1>1, <3>2
      <3>4. QED
        BY <3>1, <3>2, <3>3
    <2>2. CASE ~(i <= a)
      <3>1. i - a \in 1..b /\ ls[i] = fs[i - a]
        BY <1>2, <1>5, <2>2
      <3>2. fs[i - a] \in B /\ Rank(fs[i - a], B) = i - a - 1
        BY <1>4, <3>1
      <3>3. Rank(ls[i], A \union B) = a + (i - a - 1)
        BY <1>1, <3>1, <3>2
      <3>4. QED
        BY <1>2, <3>1, <3>2, <3>3
    <2>3. QED
      BY <2>1, <2>2
  <1> HIDE DEF ls
  <1>7. n \in Nat /\ n <= a + b /\ n = Min({MaxResults, Cardinality(A \union B)})
    <2>1. n = Min({MaxResults, a + b})
      BY <1>5
    <2>2. a + b \in Nat
      BY <1>2
    <2>3. Min({MaxResults, a + b}) = (IF MaxResults < a + b THEN MaxResults ELSE a + b)
      BY <1>2, <2>2, Two, Zenon
    <2> HIDE DEF n
    <2>4. n \in Nat /\ n <= a + b
      BY <1>2, <2>1, <2>2, <2>3
    <2>5. QED
      BY <1>1, <2>1, <2>4
  <1> HIDE DEF n
  <1>8. \A i \in 1..n : ls[i] \in Cells
    BY <1>2, <1>6, <1>7
  <1>9. /\ us \in Seq(Cells) /\ Len(us) = n
        /\ \A i \in 1..n : us[i] = ls[i]
    <2>0. 1 \in Int /\ n \in Int
      BY <1>7
    <2>1. /\ us \in Seq(Cells) /\ Len(us) = (IF 1 <= n THEN n - 1 + 1 ELSE 0)
          /\ \A i \in 1..(n - 1 + 1) : us[i] = ls[1 + i - 1]
      <3>1. ASSUME NEW S, NEW l, NEW j \in Int, NEW k \in Int, \A i \in j..k : l[i] \in S
            PROVE  /\ SubSeq(l, j, k) \in Seq(S)
                   /\ Len(SubSeq(l, j, k)) = (IF j <= k THEN k - j + 1 ELSE 0)
                   /\ \A i \in 1..(k - j + 1) : SubSeq(l, j, k)[i] = l[j + i - 1]
        BY <3>1, SubSeqProperties
      <3>2. QED
        BY <1>8, <2>0, <3>1
    <2>2. n - 1 + 1 = n /\ \A i \in 1..n : 1 + i - 1 = i
      BY <1>7
    <2>3. Len(us) = n
      BY <1>7, <2>1, <2>2
    <2> HIDE DEF us
    <2>4. \A i \in 1..n : us[i] = ls[i]
      BY <2>1, <2>2
    <2>5. QED
      BY <2>1, <2>3, <2>4
  <1> HIDE DEF us
  <1>10. DOMAIN us = 1..n
    BY <1>7, <1>9
  <1>11. \A i \in 1..n : us[i] \in A \union B /\ Rank(us[i], A \union B) = i - 1
    <2>1. \A i \in 1..n : i \in 1..(a + b)
      BY <1>2, <1>7
    <2>2. QED
      BY <1>6, <1>9, <2>1
  <1>12. Exact(us, A \union B)
    BY <1>7, <1>9, <1>10, <1>11 DEF Exact
  <1>13. Limited(ls) = us
    BY DEF Limited, us, n
  <1>14. QED
    BY <1>12, <1>13 DEF ls, fs

-------------------------------------------------------------------------------
(* What is to be found in one region.                                        *)
Below(x) == {a \in Expected : a < x}
Here(a) == {x \in Expected : a <= x /\ x < Behind(a)}

GivenOK ==
  /\ method \in {"memoryMap", "searchMem"} /\ start \in Nat /\ end \in Nat
  /\ pattern \in Seq({0, 1, Wildcard})
  /\ method = "memoryMap" => start = 0 /\ end = Size

LEMMA ExpectedBounds ==
  ASSUME GivenOK, NEW x \in Cells
  PROVE  /\ x \in Nat /\ Len(pattern) \in Nat /\ Size \in Nat
         /\ x \in Expected <=>
              /\ start <= x /\ x + Len(pattern) <= end /\ x + Len(pattern) <= Size
              /\ protect[PageOf(x)] = "read" /\ OneRegion(PageOf(x), PageOf(x + Len(pattern) - 1))
              /\ Fits(x)
  <1>1. x \in Nat /\ Size \in Nat /\ end \in Nat /\ Len(pattern) \in Nat
    BY CellPage DEF GivenOK
  <1>2. Min({end, Size}) = (IF end < Size THEN end ELSE Size)
    BY <1>1, Two, Zenon
  <1>3. x + Len(pattern) <= Min({end, Size}) <=> x + Len(pattern) <= end /\ x + Len(pattern) <= Size
    BY <1>1, <1>2
  <1>4. QED
    BY <1>1, <1>3 DEF Expected

(* The cells from a to the end of its region are in the pages of it.         *)
LEMMA SamePages ==
  ASSUME NEW a \in Cells, NEW m \in PageNumbers, Behind(a) = (m + 1) * PageSize,
         NEW x \in Nat, a <= x
  PROVE  /\ PageOf(a) \in Nat /\ PageOf(x) \in Nat /\ m \in Nat /\ PageOf(a) <= PageOf(x)
         /\ x < Behind(a) => PageOf(x) <= m
         /\ Behind(a) <= x => m + 1 <= PageOf(x)
  <1>1. a \in Nat /\ m \in Nat
    BY CellPage DEF PageNumbers
  <1>2. /\ PageOf(a) \in Nat /\ PageOf(x) \in Nat
        /\ PageOf(x) * PageSize <= x /\ x < (PageOf(x) + 1) * PageSize
    BY <1>1, Division
  <1>3. PageOf(a) <= PageOf(x)
    BY <1>1, PagesGrow
  <1>4. (m + 1) * PageSize \in Int /\ PageOf(x) * PageSize \in Int /\ (PageOf(x) + 1) * PageSize \in Int
    BY <1>1, <1>2, SearchAssumption
  <1>5. ASSUME x < Behind(a), m < PageOf(x) PROVE FALSE
    <2>1. (m + 1) * PageSize <= PageOf(x) * PageSize
      BY <1>1, <1>2, <1>5, Steps
    <2>2. QED
      BY <1>2, <1>4, <1>5, <2>1
  <1>6. ASSUME Behind(a) <= x, PageOf(x) < m + 1 PROVE FALSE
    <2>1. (PageOf(x) + 1) * PageSize <= (m + 1) * PageSize
      BY <1>1, <1>2, <1>6, Steps
    <2>2. QED
      BY <1>2, <1>4, <1>6, <2>1
  <1>7. QED
    BY <1>1, <1>2, <1>3, <1>5, <1>6

LEMMA FoundHere ==
  ASSUME GivenOK, pattern # <<>>, NEW a \in Cells, start <= a
  PROVE  Here(a) = IF protect[PageOf(a)] = "read" /\ a < Min({Behind(a), end})
                   THEN Matches(a, Min({Behind(a), end})) ELSE {}
  <1> DEFINE n == Len(pattern)
             b == Behind(a)
             hi == Min({b, end})
  <1>1. PICK m \in PageNumbers :
           /\ PageOf(a) <= m /\ OneRegion(PageOf(a), m)
           /\ Behind(a) = (m + 1) * PageSize
           /\ m + 1 \in PageNumbers => ~OneRegion(m, m + 1)
    BY RegionOf
  <1>2. /\ n \in Nat /\ n >= 1 /\ a \in Nat /\ start \in Nat /\ end \in Nat
        /\ b \in Nat /\ a < b /\ b <= Size /\ Size \in Nat
    BY RegionBounds, CellPage DEF GivenOK
  <1>3. hi = (IF b < end THEN b ELSE end)
    BY <1>2, Two, Zenon
  <1>4. hi \in Nat /\ hi <= b /\ hi <= end /\ (hi = b \/ hi = end)
    BY <1>2, <1>3
  <1> HIDE DEF n, b, hi
  <1>5. ASSUME NEW x \in Nat, NEW y \in Nat, a <= x, x <= y, y < b
        PROVE  protect[PageOf(x)] = protect[PageOf(a)] /\ OneRegion(PageOf(x), PageOf(y))
    <2>1. a <= y /\ x < b /\ x \in Nat /\ y \in Nat
      BY <1>2, <1>5
    <2>2. /\ PageOf(a) \in Nat /\ PageOf(x) \in Nat /\ PageOf(y) \in Nat /\ m \in Nat
          /\ PageOf(a) <= PageOf(x) /\ PageOf(x) <= m /\ PageOf(y) <= m
      BY <1>1, <1>5, <2>1, SamePages DEF b
    <2>3. PageOf(x) <= PageOf(y)
      BY <1>5, PagesGrow
    <2>4. OneRegion(PageOf(a), PageOf(x)) /\ OneRegion(PageOf(x), m)
      BY <1>1, <2>2, Parts
    <2>5. OneRegion(PageOf(x), PageOf(y))
      <3>1. ASSUME NEW p \in Int, NEW q \in Int, NEW r \in Int, p <= r, r <= q, OneRegion(p, q)
            PROVE  OneRegion(p, r)
        BY <3>1, Parts
      <3>2. QED
        BY <2>2, <2>3, <2>4, <3>1
    <2>6. QED
      BY <2>2, <2>4, <2>5, AllAlike
  <1>6. ASSUME NEW x \in Here(a)
        PROVE  protect[PageOf(a)] = "read" /\ a < hi /\ x \in Matches(a, hi)
    <2>1. x \in Cells /\ a <= x /\ x < b /\ x \in Expected
      BY <1>6 DEF Here, Expected, b
    <2>2. /\ x \in Nat /\ start <= x /\ x + n <= end /\ x + n <= Size
          /\ protect[PageOf(x)] = "read" /\ OneRegion(PageOf(x), PageOf(x + n - 1)) /\ Fits(x)
      BY <2>1, ExpectedBounds DEF n
    <2>3. protect[PageOf(a)] = "read"
      BY <1>5, <2>1, <2>2
    <2>4. x + n <= b
      <3>1. SUFFICES ASSUME b < x + n PROVE FALSE
        BY <1>2, <2>2
      <3>2. PICK y : y = x + n - 1
        OBVIOUS
      <3>3. y \in Nat /\ a <= y /\ b <= y /\ y < Size
        BY <1>2, <2>1, <2>2, <3>1, <3>2
      <3>4. y \in Cells /\ PageOf(y) \in PageNumbers
        BY <3>3, CellPage
      <3>5. /\ m \in Nat /\ PageOf(x) \in Nat /\ PageOf(y) \in Nat
            /\ PageOf(x) <= m /\ m + 1 <= PageOf(y)
        BY <1>1, <2>1, <2>2, <3>3, SamePages DEF b
      <3>6. m + 1 \in PageNumbers
        BY <3>4, <3>5, SearchAssumption DEF PageNumbers
      <3>7. OneRegion(PageOf(x), PageOf(y))
        BY <2>2, <3>2
      <3>8. OneRegion(PageOf(x), m + 1)
        BY <3>5, <3>7, Parts
      <3>9. OneRegion(m, m + 1)
        BY <3>5, <3>8, Parts
      <3>10. QED
        BY <1>1, <3>6, <3>9
    <2>5. x + n <= hi
      BY <1>4, <2>2, <2>4
    <2>6. x \in a..(hi - n) /\ a < hi
      BY <1>2, <1>4, <2>1, <2>2, <2>5
    <2>7. QED
      BY <2>2, <2>3, <2>6 DEF Matches, n
  <1>7. ASSUME protect[PageOf(a)] = "read", a < hi, NEW x \in Matches(a, hi)
        PROVE  x \in Here(a)
    <2>1. x \in a..(hi - n) /\ Fits(x)
      BY <1>7 DEF Matches, n
    <2>2. x \in Nat /\ a <= x /\ x + n <= hi
      BY <1>2, <1>4, <2>1
    <2>3. x < b /\ x + n <= b /\ x + n <= end /\ x + n <= Size /\ start <= x /\ x < Size
      BY <1>2, <1>4, <2>2
    <2>4. PICK y : y = x + n - 1
      OBVIOUS
    <2>5. y \in Nat /\ x <= y /\ y < b
      BY <1>2, <2>2, <2>3, <2>4
    <2>6. protect[PageOf(x)] = protect[PageOf(a)] /\ OneRegion(PageOf(x), PageOf(y))
      BY <1>5, <2>2, <2>5
    <2>7. x \in Cells
      BY <2>2, <2>3, CellPage
    <2>8. x \in Expected
      BY <1>7, <2>1, <2>3, <2>4, <2>6, <2>7, ExpectedBounds DEF n
    <2>9. QED
      BY <2>2, <2>3, <2>8 DEF Here, b
  <1>8. Here(a) = IF protect[PageOf(a)] = "read" /\ a < hi THEN Matches(a, hi) ELSE {}
    BY <1>6, <1>7
  <1>9. QED
    BY <1>8 DEF hi, b

-------------------------------------------------------------------------------
(* The invariant.  Whenever the loop turns, what was found is exact for the  *)
(* part below addr, and addr is the start or the first cell of a region; the *)
(* map reaches up to addr.                                                   *)
WalkOK ==
  /\ addr \in Nat /\ start <= addr /\ (addr = start \/ Boundary(addr))
  /\ at \in {"walking", "found", "bad_params"}
SearchOK ==
  method = "searchMem" =>
    IF at = "bad_params" THEN results = <<>>
    ELSE /\ pattern # <<>>
         /\ Exact(results, IF at = "found" THEN Expected ELSE Below(addr))
         /\ at = "walking" => Len(results) < MaxResults
MapOK ==
  method = "memoryMap" =>
    /\ Boundary(addr) /\ at # "bad_params" /\ (at = "found" => addr = Size)
    /\ results \in Seq([base : Cells, end : 1..Size])
    /\ results = <<>> => addr = 0
    /\ results # <<>> =>
         /\ results[1].base = 0
         /\ results[Len(results)].end = addr /\ results[Len(results)].base < addr
    /\ \A i \in 1..(Len(results) - 1) :
         /\ results[i].end = results[i + 1].base
         /\ ~OneRegion(PageOf(results[i].base), PageOf(results[i + 1].base))
Inv == GivenOK /\ WalkOK /\ SearchOK /\ MapOK

(* What was given stays, and so does what is to be found.                    *)
LEMMA GivenStays ==
  ASSUME UNCHANGED given
  PROVE  /\ UNCHANGED <<method, pattern, start, end>> /\ UNCHANGED Expected
         /\ (GivenOK => GivenOK')
         /\ \A p, q \in Int : OneRegion(p, q)' <=> OneRegion(p, q)
         /\ \A x : Boundary(x)' <=> Boundary(x)
  <1>1. UNCHANGED <<protect, split, memory>> /\ UNCHANGED <<method, pattern, start, end>>
    BY DEF given
  <1>2. \A p, q : OneRegion(p, q)' <=> OneRegion(p, q)
    BY <1>1 DEF OneRegion
  <1>3. \A i : Fits(i)' <=> Fits(i)
    BY <1>1 DEF Fits
  <1>4. Expected' = Expected
    BY <1>1, <1>2, <1>3 DEF Expected
  <1>5. \A x : Boundary(x)' <=> Boundary(x)
    BY <1>2 DEF Boundary
  <1>6. GivenOK => GivenOK'
    BY <1>1 DEF GivenOK
  <1>7. QED
    BY <1>1, <1>2, <1>4, <1>5, <1>6

LEMMA NothingBelowStart ==
  ASSUME GivenOK
  PROVE  Below(start) = {}
  BY CellPage DEF Below, Expected, GivenOK

LEMMA ZeroIsBoundary ==
  Boundary(0)
  <1>1. 0 \in 0..Pages /\ 0 * PageSize = 0
    BY SearchAssumption
  <1>2. QED
    BY <1>1 DEF Boundary

LEMMA InitHolds ==
  ASSUME Init
  PROVE  Inv
  <1>1. GivenOK
    <2>1. CASE method = "memoryMap" /\ pattern = <<>> /\ start = 0 /\ end = Size
      <3>1. pattern \in Seq({0, 1, Wildcard}) /\ end \in Nat
        BY <2>1, CellPage
      <3>2. QED
        BY <2>1, <3>1 DEF GivenOK
    <2>2. CASE method = "searchMem" /\ pattern \in Patterns /\ start \in Starts /\ end \in Ends
      <3>1. pattern \in Seq({0, 1, Wildcard}) /\ start \in Nat /\ end \in Nat
        BY <2>2, SearchAssumption
      <3>2. QED
        BY <2>2, <3>1 DEF GivenOK
    <2>3. QED
      BY <2>1, <2>2 DEF Init
  <1>2. WalkOK
    BY <1>1 DEF WalkOK, Init, GivenOK
  <1>3. SearchOK
    <2>1. Below(addr) = {}
      BY <1>1, NothingBelowStart DEF Init
    <2>2. Exact(results, Below(addr))
      BY <2>1, NothingYet DEF Init
    <2>3. Len(results) < MaxResults
      BY SearchAssumption DEF Init
    <2>4. QED
      BY <2>2, <2>3 DEF SearchOK, Init
  <1>4. MapOK
    <2>1. SUFFICES ASSUME method = "memoryMap" PROVE MapOK
      BY DEF MapOK
    <2>2. addr = 0 /\ at = "walking" /\ results = <<>>
      BY <2>1 DEF Init
    <2>3. Len(results) = 0
      BY <2>2
    <2>4. QED
      BY <2>2, <2>3, ZeroIsBoundary DEF MapOK
  <1>5. QED
    BY <1>1, <1>2, <1>3, <1>4 DEF Inv

(* Sequences, by their members.                                              *)
LEMMA MemberOf ==
  ASSUME NEW S, NEW s \in Seq(S), NEW i \in 1..Len(s)
  PROVE  s[i] \in S
  OBVIOUS

LEMMA PagesAreNumbers == \A a \in Nat : PageOf(a) \in Int
  BY Division

LEMMA WalkEndsKeeps ==
  ASSUME Inv, WalkEnds
  PROVE  Inv'
  <1>1. /\ at = "walking" /\ at' = "found" /\ UNCHANGED given /\ UNCHANGED <<addr, results>>
        /\ addr \notin Cells \/ (method = "searchMem" /\ Base(addr) >= end)
    BY DEF WalkEnds
  <1>2. /\ UNCHANGED <<method, pattern, start, end>> /\ UNCHANGED Expected /\ GivenOK'
        /\ \A p, q \in Int : OneRegion(p, q)' <=> OneRegion(p, q)
        /\ \A x : Boundary(x)' <=> Boundary(x)
    BY <1>1, GivenStays DEF Inv
  <1>3. WalkOK'
    BY <1>1, <1>2 DEF Inv, WalkOK
  <1>4. SearchOK'
    <2>1. SUFFICES ASSUME method = "searchMem" PROVE SearchOK'
      BY <1>2 DEF SearchOK
    <2>2. Below(addr) = Expected
      <3>1. ASSUME NEW x \in Expected PROVE x < addr
        <4>1. x \in Cells
          BY DEF Expected
        <4>2. /\ x \in Nat /\ Len(pattern) \in Nat /\ Size \in Nat
              /\ x + Len(pattern) <= end /\ x + Len(pattern) <= Size
          BY <3>1, <4>1, ExpectedBounds DEF Inv
        <4>3. addr \in Nat /\ end \in Nat /\ x < Size /\ x <= end
          BY <4>1, <4>2, CellPage DEF Inv, WalkOK, GivenOK
        <4>4. CASE addr \notin Cells
          BY <4>2, <4>3, <4>4, CellPage
        <4>5. CASE addr \in Cells /\ Base(addr) >= end
          <5>1. Base(addr) \in Nat /\ Base(addr) <= addr
            BY <4>5, RegionBounds, CellPage
          <5>2. Len(pattern) >= 1
            BY <1>1, <2>1, <4>2 DEF Inv, SearchOK, GivenOK
          <5>3. QED
            BY <4>2, <4>3, <4>5, <5>1, <5>2
        <4>6. QED
          BY <1>1, <4>4, <4>5
      <3>2. QED
        BY <3>1 DEF Below
    <2>3. pattern # <<>> /\ Exact(results, Below(addr))
      BY <1>1, <2>1 DEF Inv, SearchOK
    <2>4. QED
      BY <1>1, <1>2, <2>1, <2>2, <2>3 DEF SearchOK
  <1>5. MapOK'
    <2>1. SUFFICES ASSUME method = "memoryMap" PROVE MapOK'
      BY <1>2 DEF MapOK
    <2>2. MapOK /\ Boundary(addr) /\ addr \notin Cells
      BY <1>1, <2>1 DEF Inv, MapOK
    <2>3. addr = Size
      BY <2>2, AtBoundary, CellPage
    <2>4. \A i \in 1..(Len(results) - 1) :
            OneRegion(PageOf(results[i].base), PageOf(results[i + 1].base))' <=>
            OneRegion(PageOf(results[i].base), PageOf(results[i + 1].base))
      <3>1. ASSUME NEW i \in 1..(Len(results) - 1)
            PROVE  PageOf(results[i].base) \in Int /\ PageOf(results[i + 1].base) \in Int
        <4>1. results \in Seq([base : Cells, end : 1..Size]) /\ i \in 1..Len(results)
              /\ i + 1 \in 1..Len(results)
          BY <2>1, <2>2 DEF MapOK
        <4>2. results[i] \in [base : Cells, end : 1..Size]
              /\ results[i + 1] \in [base : Cells, end : 1..Size]
          BY <4>1, MemberOf, Zenon
        <4>3. results[i].base \in Nat /\ results[i + 1].base \in Nat
          BY <4>2, CellPage
        <4>4. QED
          BY <4>3, PagesAreNumbers
      <3>2. QED
        BY <1>1, <1>2, <3>1
    <2>5. QED
      BY <1>1, <1>2, <2>1, <2>2, <2>3, <2>4 DEF MapOK
  <1>6. QED
    BY <1>2, <1>3, <1>4, <1>5 DEF Inv

LEMMA Advances ==
  ASSUME Inv, NEW full \in BOOLEAN, addr \in Cells, GoOn(full)
  PROVE  /\ addr' = Behind(addr) /\ addr' \in Nat /\ addr < addr' /\ addr' <= Size
         /\ Boundary(addr)' /\ WalkOK'
         /\ at' = (IF full THEN "found" ELSE "walking") /\ UNCHANGED given
  <1>1. /\ Behind(addr) \in Nat /\ addr < Behind(addr) /\ Behind(addr) <= Size
        /\ Boundary(Behind(addr)) /\ addr \in Nat
    BY RegionBounds, CellPage
  <1>2. /\ addr' = Behind(addr) /\ UNCHANGED given
        /\ at' = (IF full \/ Behind(addr) <= addr THEN "found" ELSE "walking")
    BY DEF GoOn, NextAddr
  <1>3. at' = (IF full THEN "found" ELSE "walking")
    BY <1>1, <1>2
  <1>4. UNCHANGED start /\ \A x : Boundary(x)' <=> Boundary(x)
    BY <1>2, GivenStays
  <1>5. Boundary(addr)'
    <2>1. PICK b : b = Behind(addr)
      OBVIOUS
    <2>2. Boundary(b)'
      BY <1>1, <1>4, <2>1
    <2>3. QED
      BY <1>2, <2>1, <2>2
  <1>6. WalkOK'
    <2>1. start \in Nat /\ start <= addr
      BY DEF Inv, GivenOK, WalkOK
    <2>2. addr' \in Nat /\ start' <= addr'
      BY <1>1, <1>2, <1>4, <2>1
    <2>3. at' \in {"walking", "found", "bad_params"}
      BY <1>3
    <2>4. QED
      BY <1>5, <2>2, <2>3 DEF WalkOK
  <1>7. QED
    BY <1>1, <1>2, <1>3, <1>5, <1>6

(* What lies before the start of a region is in another one.                 *)
LEMMA NotTogether ==
  ASSUME NEW x \in Cells, Boundary(x), NEW b \in Nat, b < x
  PROVE  ~OneRegion(PageOf(b), PageOf(x))
  <1>1. /\ x \in Nat /\ PageOf(x) \in Nat /\ PageOf(b) \in Nat
        /\ PageOf(b) * PageSize <= b /\ PageOf(b) * PageSize \in Nat
    BY CellPage, Division
  <1>2. /\ x = PageOf(x) * PageSize
        /\ PageOf(x) - 1 \in Nat /\ ~OneRegion(PageOf(x) - 1, PageOf(x))
    BY <1>1, AtBoundary DEF Base
  <1>3. PageOf(b) < PageOf(x)
    <2>1. SUFFICES ASSUME PageOf(x) < PageOf(b) \/ PageOf(x) = PageOf(b) PROVE FALSE
      BY <1>1
    <2>2. PageOf(x) * PageSize <= PageOf(b) * PageSize
      BY <1>1, <2>1, Steps
    <2>3. QED
      BY <1>1, <1>2, <2>2
  <1>4. PageOf(b) <= PageOf(x) - 1 /\ PageOf(x) - 1 <= PageOf(x)
    BY <1>1, <1>3
  <1>5. QED
    BY <1>1, <1>2, <1>4, Parts

LEMMA MapRegionKeeps ==
  ASSUME Inv, MapRegion
  PROVE  Inv'
  <1> DEFINE n == Len(results)
             Region == [base : Cells, end : 1..Size]
  <1>1. /\ method = "memoryMap" /\ addr \in Cells /\ GoOn(FALSE)
        /\ results' = Append(results, [base |-> Base(addr), end |-> Behind(addr)])
    BY DEF MapRegion, Visit
  <1>2. /\ addr' = Behind(addr) /\ addr' \in Nat /\ addr < addr' /\ addr' <= Size
        /\ Boundary(addr)' /\ WalkOK' /\ at' = "walking" /\ UNCHANGED given
    BY <1>1, Advances
  <1>3. /\ UNCHANGED <<method, pattern, start, end>> /\ GivenOK'
        /\ \A p, q \in Int : OneRegion(p, q)' <=> OneRegion(p, q)
    BY <1>2, GivenStays DEF Inv
  <1>4. /\ Boundary(addr) /\ results \in Seq(Region) /\ (results = <<>> => addr = 0)
        /\ results # <<>> => /\ results[1].base = 0
                             /\ results[n].end = addr /\ results[n].base < addr
        /\ \A i \in 1..(n - 1) :
             /\ results[i].end = results[i + 1].base
             /\ ~OneRegion(PageOf(results[i].base), PageOf(results[i + 1].base))
    BY <1>1 DEF Inv, MapOK
  <1>5. addr \in Nat /\ Base(addr) = addr
    BY <1>1, <1>4, AtBoundary
  <1>6. PICK r \in Region : r = [base |-> addr, end |-> Behind(addr)]
    <2>1. Size \in Nat /\ Behind(addr) \in 1..Size
      BY <1>2, <1>5, CellPage
    <2>2. QED
      BY <1>1, <2>1
  <1>7. r.base = addr /\ r.end = addr' /\ results' = Append(results, r)
    BY <1>1, <1>2, <1>5, <1>6
  <1>8. n \in Nat
    BY <1>4
  <1>9. /\ results' \in Seq(Region) /\ Len(results') = n + 1 /\ results' # <<>>
        /\ results'[n + 1] = r /\ \A i \in 1..n : results'[i] = results[i] /\ results[i] \in Region
    <2>1. results \in Seq(Region) /\ r \in Region
      BY <1>4
    <2>2. /\ Append(results, r) \in Seq(Region) /\ Append(results, r) # <<>>
          /\ Len(Append(results, r)) = Len(results) + 1
          /\ Append(results, r)[Len(results) + 1] = r
          /\ \A i \in 1..Len(results) : Append(results, r)[i] = results[i] /\ results[i] \in Region
      <3> HIDE DEF Region
      <3>1. QED
        BY <2>1
    <2>3. QED
      BY <1>7, <2>2, Zenon
  <1> HIDE DEF n, Region
  <1>10. results'[1].base = 0
    <2>1. CASE n = 0
      <3>1. results = <<>>
        BY <1>4, <2>1 DEF n, Region
      <3>2. QED
        BY <1>4, <1>7, <1>9, <2>1, <3>1
    <2>2. CASE n # 0
      <3>1. results # <<>> /\ 1 \in 1..n
        BY <1>8, <2>2 DEF n
      <3>2. QED
        BY <1>4, <1>9, <3>1
    <2>3. QED
      BY <2>1, <2>2
  <1>11. ASSUME NEW i \in 1..n
         PROVE  /\ results'[i].end = results'[i + 1].base
                /\ ~OneRegion(PageOf(results'[i].base), PageOf(results'[i + 1].base))
                /\ results'[i].base \in Nat /\ results'[i + 1].base \in Nat
    <2>1. results[i].base \in Nat /\ results'[i] = results[i] /\ results # <<>>
      <3>1. results'[i] = results[i] /\ results[i] \in Region
        BY <1>9
      <3>2. results[i].base \in Nat
        BY <3>1, CellPage DEF Region
      <3>3. results # <<>>
        BY <1>8 DEF n
      <3>4. QED
        BY <3>1, <3>2, <3>3
    <2>2. CASE i = n
      <3>1. results'[i + 1].base = addr /\ results[i].end = addr /\ results[i].base < addr
        BY <1>4, <1>7, <1>9, <2>1, <2>2
      <3>2. PICK b \in Nat : b = results[i].base
        BY <2>1
      <3>3. ~OneRegion(PageOf(b), PageOf(addr))
        BY <1>1, <1>4, <3>1, <3>2, NotTogether
      <3>4. QED
        BY <1>5, <2>1, <3>1, <3>2, <3>3
    <2>3. CASE i # n
      <3>1. i \in 1..(n - 1) /\ i + 1 \in 1..n
        BY <1>8, <2>3
      <3>2. results'[i + 1] = results[i + 1] /\ results[i + 1].base \in Nat
        BY <1>9, <3>1, CellPage DEF Region
      <3>3. QED
        BY <1>4, <2>1, <3>1, <3>2
    <2>4. QED
      BY <2>2, <2>3
  <1>12. ASSUME NEW i \in 1..n
         PROVE  ~OneRegion(PageOf(results[i].base), PageOf(results[i + 1].base))'
    <2>1. PICK p \in Int, q \in Int : p = PageOf(results'[i].base) /\ q = PageOf(results'[i + 1].base)
      BY <1>11, PagesAreNumbers
    <2>2. ~OneRegion(p, q)'
      BY <1>3, <1>11, <2>1
    <2>3. p = PageOf(results[i].base)' /\ q = PageOf(results[i + 1].base)'
      BY <2>1
    <2>4. QED
      BY <2>2, <2>3
  <1>13. MapOK'
    <2>1. results' \in Seq([base : Cells, end : 1..Size])
      BY <1>9 DEF Region
    <2>2. at' = "walking" /\ Boundary(addr)'
      BY <1>2
    <2>3. results'[Len(results')].end = addr' /\ results'[Len(results')].base < addr'
      BY <1>2, <1>7, <1>9
    <2>4. \A i \in 1..(Len(results') - 1) :
            /\ results'[i].end = results'[i + 1].base
            /\ ~OneRegion(PageOf(results[i].base), PageOf(results[i + 1].base))'
      <3>1. Len(results') - 1 = n
        BY <1>8, <1>9
      <3>2. QED
        BY <1>11, <1>12, <3>1
    <2>5. QED
      BY <1>9, <1>10, <2>1, <2>2, <2>3, <2>4 DEF MapOK
  <1>14. SearchOK'
    BY <1>1, <1>3 DEF SearchOK
  <1>15. QED
    BY <1>2, <1>3, <1>13, <1>14 DEF Inv

-------------------------------------------------------------------------------
(* What a turn of searchMem finds.                                           *)
LEMMA NothingAscending == Ascending({}) = <<>>
  <1>1. Cardinality({}) = 0
    BY FS_EmptySet
  <1>2. Ascending({}) \in Seq(Cells) /\ Len(Ascending({})) = 0
    BY <1>1, AscendingIs
  <1>3. QED
    BY <1>2

LEMMA SearchFinds ==
  ASSUME Inv, SearchRegion
  PROVE  /\ results' = Limited(results \o Ascending(Here(addr)))
         /\ pattern # <<>> /\ Exact(results, Below(addr)) /\ Len(results) < MaxResults
         /\ addr \in Cells /\ method = "searchMem" /\ GoOn(Len(results') >= MaxResults)
  <1>1. /\ method = "searchMem" /\ addr \in Cells /\ at = "walking"
        /\ GoOn(Len(results') >= MaxResults)
    BY DEF SearchRegion, Visit
  <1>2. pattern # <<>> /\ Exact(results, Below(addr)) /\ Len(results) < MaxResults
    BY <1>1 DEF Inv, SearchOK
  <1>3. addr \in Nat /\ start \in Nat /\ end \in Nat /\ start <= addr
        /\ (addr = start \/ Boundary(addr))
    BY DEF Inv, WalkOK, GivenOK
  <1>4. Max({Base(addr), start}) = addr
    <2>1. Base(addr) \in Nat /\ Base(addr) <= addr
      BY <1>1, RegionBounds, CellPage
    <2>2. Boundary(addr) => Base(addr) = addr
      BY <1>1, AtBoundary
    <2>3. Max({Base(addr), start}) = (IF Base(addr) < start THEN start ELSE Base(addr))
      BY <1>3, <2>1, Two, Zenon
    <2>4. QED
      BY <1>3, <2>1, <2>2, <2>3
  <1>5. PICK hi : hi = Min({Behind(addr), end})
    OBVIOUS
  <1>6. Overlap(addr).lo = addr /\ Overlap(addr).hi = hi
    BY <1>4, <1>5 DEF Overlap
  <1>7. results' = Limited(results \o (IF protect[PageOf(addr)] = "read" /\ addr < hi
                                       THEN Ascending(Matches(addr, hi)) ELSE <<>>))
    BY <1>6 DEF SearchRegion
  <1>8. Here(addr) = IF protect[PageOf(addr)] = "read" /\ addr < hi THEN Matches(addr, hi) ELSE {}
    BY <1>1, <1>2, <1>3, <1>5, FoundHere DEF Inv
  <1>9. Ascending(Here(addr)) = IF protect[PageOf(addr)] = "read" /\ addr < hi
                                THEN Ascending(Matches(addr, hi)) ELSE <<>>
    BY <1>8, NothingAscending
  <1>10. QED
    BY <1>1, <1>2, <1>7, <1>9

LEMMA SearchRegionKeeps ==
  ASSUME Inv, SearchRegion
  PROVE  Inv'
  <1>1. /\ results' = Limited(results \o Ascending(Here(addr)))
        /\ pattern # <<>> /\ Exact(results, Below(addr)) /\ Len(results) < MaxResults
        /\ addr \in Cells /\ method = "searchMem" /\ GoOn(Len(results') >= MaxResults)
    BY SearchFinds
  <1>2. PICK full \in BOOLEAN : full <=> Len(results') >= MaxResults
    OBVIOUS
  <1>3. GoOn(full)
    BY <1>1, <1>2 DEF GoOn
  <1>4. /\ addr' = Behind(addr) /\ addr' \in Nat /\ addr < addr' /\ WalkOK'
        /\ at' = (IF full THEN "found" ELSE "walking") /\ UNCHANGED given
    BY <1>1, <1>3, Advances
  <1>5. UNCHANGED <<method, pattern, start, end>> /\ UNCHANGED Expected /\ GivenOK'
    BY <1>4, GivenStays DEF Inv
  <1>6. PICK b \in Nat : b = addr'
    BY <1>4
  <1>7. Below(addr)' = Below(b)
    BY <1>5, <1>6 DEF Below
  <1>8. addr \in Nat /\ Expected \in SUBSET Cells /\ Expected \in SUBSET Nat
    BY <1>1, CellPage DEF Expected
  <1>9. Below(b) = Below(addr) \union Here(addr)
    <2>1. b \in Nat /\ b = Behind(addr) /\ addr < b
      BY <1>4, <1>6
    <2>2. \A x \in Nat : x < b <=> x < addr \/ (addr <= x /\ x < b)
      BY <1>8, <2>1
    <2>3. \A x \in Expected : x \in Nat
      BY <1>8
    <2>4. \A x : x \in Below(b) <=> x \in Below(addr) \/ x \in Here(addr)
      BY <2>1, <2>2, <2>3 DEF Below, Here
    <2>5. QED
      BY <2>4
  <1>10. Exact(results', Below(b))
    <2>1. \A x \in Below(addr) : \A y \in Here(addr) : x < y
      BY <1>8 DEF Below, Here
    <2>2. Below(addr) \in SUBSET Cells /\ Here(addr) \in SUBSET Cells
      BY <1>8 DEF Below, Here
    <2>3. QED
      BY <1>1, <1>9, <2>1, <2>2, ExactGrows
  <1>11. Len(results') \in Nat /\ MaxResults \in Nat
    BY <1>10, SearchAssumption DEF Exact
  <1>12. SearchOK'
    <2>1. CASE full
      <3>1. PICK C : C = Expected \ Below(b)
        OBVIOUS
      <3>2. Below(b) \in SUBSET Cells /\ C \in SUBSET Cells /\ Expected = Below(b) \union C
        BY <1>8, <3>1 DEF Below
      <3>3. \A x \in Below(b) : \A y \in C : x < y
        BY <1>8, <3>1 DEF Below
      <3>4. Exact(results', Below(b) \union C)
        BY <1>2, <1>10, <2>1, <3>2, <3>3, ExactWhenFull
      <3>5. Exact(results', Expected')
        BY <1>5, <3>2, <3>4
      <3>6. QED
        BY <1>1, <1>4, <1>5, <2>1, <3>5 DEF SearchOK
    <2>2. CASE ~full
      <3>1. Len(results') < MaxResults
        BY <1>2, <1>11, <2>2
      <3>2. QED
        BY <1>1, <1>4, <1>5, <1>7, <1>10, <2>2, <3>1 DEF SearchOK
    <2>3. QED
      BY <2>1, <2>2
  <1>13. MapOK'
    BY <1>1, <1>5 DEF MapOK
  <1>14. QED
    BY <1>4, <1>5, <1>12, <1>13 DEF Inv

LEMMA StutterKeeps ==
  ASSUME Inv, UNCHANGED vars
  PROVE  Inv'
  <1>1. UNCHANGED given /\ UNCHANGED <<addr, results, at>>
    BY DEF vars
  <1>2. UNCHANGED <<protect, split, memory>> /\ UNCHANGED <<method, pattern, start, end>>
        /\ UNCHANGED Expected /\ GivenOK' /\ \A x : Boundary(x)' <=> Boundary(x)
    BY <1>1, GivenStays DEF given, Inv
  <1>3. WalkOK'
    BY <1>1, <1>2 DEF Inv, WalkOK
  <1>4. Below(addr)' = Below(addr)
    BY <1>1, <1>2 DEF Below
  <1>5. SearchOK'
    BY <1>1, <1>2, <1>4 DEF Inv, SearchOK
  <1>6. \A p, q : OneRegion(p, q)' <=> OneRegion(p, q)
    BY <1>2 DEF OneRegion
  <1>7. MapOK'
    BY <1>1, <1>2, <1>6 DEF Inv, MapOK
  <1>8. QED
    BY <1>2, <1>3, <1>5, <1>7 DEF Inv

LEMMA Inductive == Spec => []Inv
  <1>1. Init => Inv
    BY InitHolds
  <1>2. Inv /\ [Next]_vars => Inv'
    BY WalkEndsKeeps, MapRegionKeeps, SearchRegionKeeps, StutterKeeps DEF Next
  <1>3. QED
    BY <1>1, <1>2, PTL DEF Spec

-------------------------------------------------------------------------------
(* Every answer has the form the request asks for, and never more matches    *)
(* than the limit (winapi_impl.rs:835-958).                                  *)
THEOREM TypeCorrect == Spec => []TypeOK
  <1>1. Inv => TypeOK
    <2>1. SUFFICES ASSUME Inv PROVE TypeOK
      OBVIOUS
    <2>2. addr \in Nat /\ at \in {"walking", "found", "bad_params"}
          /\ method \in {"memoryMap", "searchMem"}
      BY <2>1 DEF Inv, WalkOK, GivenOK
    <2>3. CASE method = "memoryMap"
      BY <2>1, <2>2, <2>3 DEF Inv, MapOK, TypeOK
    <2>4. CASE method = "searchMem"
      <3>1. results \in Seq(Cells) /\ Len(results) <= MaxResults
        <4>1. CASE at = "bad_params"
          <5>1. results = <<>>
            BY <2>1, <2>4, <4>1 DEF Inv, SearchOK
          <5>2. QED
            BY <5>1, SearchAssumption
        <4>2. CASE at # "bad_params"
          <5>1. PICK S \in SUBSET Cells : Exact(results, S)
            <6>1. Expected \in SUBSET Cells /\ Below(addr) \in SUBSET Cells
              BY DEF Expected, Below
            <6>2. QED
              BY <2>1, <2>4, <4>2, <6>1 DEF Inv, SearchOK
          <5>2. Cardinality(S) \in Nat /\ MaxResults \in Nat
            BY CellSets, SearchAssumption
          <5>3. Min({MaxResults, Cardinality(S)}) =
                  (IF MaxResults < Cardinality(S) THEN MaxResults ELSE Cardinality(S))
            BY <5>2, Two, Zenon
          <5>4. QED
            BY <5>1, <5>2, <5>3 DEF Exact
        <4>3. QED
          BY <4>1, <4>2
      <3>2. QED
        BY <2>2, <2>4, <3>1 DEF TypeOK
    <2>5. QED
      BY <2>2, <2>3, <2>4
  <1>2. QED
    BY <1>1, Inductive, PTL

(* searchMem answers with the first matches, in order and none twice,        *)
(* wherever the bounds cut a region or a page (winapi_impl.rs:890-958).      *)
THEOREM SearchFindsExactly == Spec => []SearchIsExact
  <1>1. Inv => SearchIsExact
    BY DEF Inv, SearchOK, SearchIsExact, Exact, Below
  <1>2. QED
    BY <1>1, Inductive, PTL

(* memoryMap lists every page once, regions in order and whole               *)
(* (winapi_impl.rs:835-889).                                                 *)
THEOREM MapCoversAll == Spec => []MapIsWhole
  <1>1. Inv => MapIsWhole
    <2>1. SUFFICES ASSUME Inv, method = "memoryMap", at = "found" PROVE MapIsWhole
      BY DEF MapIsWhole
    <2>2. MapOK /\ addr = Size
      BY <2>1 DEF Inv, MapOK
    <2>3. results # <<>>
      BY <2>1, <2>2, CellPage DEF MapOK
    <2>4. Last(results).end = Size
      BY <2>1, <2>2, <2>3 DEF MapOK, Last
    <2>5. QED
      BY <2>1, <2>2, <2>3, <2>4 DEF MapOK, MapIsWhole
  <1>2. QED
    BY <1>1, Inductive, PTL
===============================================================================

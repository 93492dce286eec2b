-------------------------- MODULE IntegrityProofs --------------------------
(***************************************************************************)
(* Proofs about the two commands that judge an image and mend it.             *)
(*                                                                          *)
(* Validation, for every disc a walk may read and every budget: what the      *)
(* sorted scans and the merge decide is what the extents are pairwise.        *)
(* Repair, for every image a plan may be made of, whatever the other sessions *)
(* do before the repair opens, and whichever steps raise.                     *)
(*                                                                          *)
(* Induction over a list is over a set of numbers (Reaches), and a recursive  *)
(* definition is unfolded once it is shown to have a solution.                *)
(***************************************************************************)
EXTENDS Validation, Repair, FiniteSetTheorems, WellFoundedInduction, TLAPS

-----------------------------------------------------------------------------
(* The type of the validation                                               *)

\* A walk is no deeper than the directories it has counted.
ValidationInv == ValidationTypeOK /\ depth <= items

\* A number is so many times another, and a rest.
LEMMA WholeAndRest ==
  ASSUME NEW x \in Nat, NEW n \in Nat \ {0}
  PROVE  /\ x \div n \in Nat /\ x % n \in 0 .. n - 1
         /\ x = (x \div n) * n + (x % n)
OBVIOUS

\* More parts of one size are no less.
LEMMA MoreOfASize ==
  ASSUME NEW a \in Nat, NEW b \in Nat, NEW n \in Nat, a <= b
  PROVE  a * n <= b * n
OBVIOUS

\* More bytes take no fewer sectors.
LEMMA SectorsKeepOrder ==
  ASSUME NEW a \in Nat, NEW b \in Nat, a <= b
  PROVE  Sectors(a) \in Nat /\ Sectors(a) <= Sectors(b)
<1>1. SectorSize \in Nat \ {0}
  BY ValidationAssumption
<1> DEFINE x == a + SectorSize - 1
<1> DEFINE y == b + SectorSize - 1
<1>2. x \in Nat /\ y \in Nat /\ x <= y
  BY <1>1
<1>3. Sectors(a) = x \div SectorSize /\ Sectors(b) = y \div SectorSize
  BY DEF Sectors
<1> HIDE DEF x, y
<1>4. PICK p \in Nat, s \in 0 .. SectorSize - 1 :
        x = p * SectorSize + s /\ p = x \div SectorSize
  BY <1>1, <1>2, WholeAndRest
<1>5. PICK q \in Nat, t \in 0 .. SectorSize - 1 :
        y = q * SectorSize + t /\ q = y \div SectorSize
  BY <1>1, <1>2, WholeAndRest
<1>6. ASSUME q < p PROVE FALSE
  <2>1. (q + 1) * SectorSize <= p * SectorSize
    BY <1>1, <1>4, <1>5, <1>6, MoreOfASize
  <2> QED
    BY <1>1, <1>2, <1>4, <1>5, <2>1
<1> QED
  BY <1>3, <1>4, <1>5, <1>6

\* Whole sectors of the largest length are no more than its sectors.
LEMMA WholeSectors ==
  MaxBytes \div SectorSize \in Nat /\ MaxBytes \div SectorSize <= Sectors(MaxBytes)
<1>1. SectorSize \in Nat \ {0} /\ MaxBytes \in Nat
  BY ValidationAssumption
<1> DEFINE y == MaxBytes + SectorSize - 1
<1>2. y \in Nat /\ MaxBytes <= y
  BY <1>1
<1>3. Sectors(MaxBytes) = y \div SectorSize
  BY DEF Sectors
<1> HIDE DEF y
<1>4. PICK p \in Nat, s \in 0 .. SectorSize - 1 :
        MaxBytes = p * SectorSize + s /\ p = MaxBytes \div SectorSize
  BY <1>1, WholeAndRest
<1>5. PICK q \in Nat, t \in 0 .. SectorSize - 1 :
        y = q * SectorSize + t /\ q = y \div SectorSize
  BY <1>1, <1>2, WholeAndRest
<1>6. ASSUME q < p PROVE FALSE
  <2>1. (q + 1) * SectorSize <= p * SectorSize
    BY <1>1, <1>4, <1>5, <1>6, MoreOfASize
  <2> QED
    BY <1>1, <1>2, <1>4, <1>5, <2>1
<1> QED
  BY <1>3, <1>4, <1>5, <1>6

\* An extent that starts and ends within the bounds is one.
LEMMA ExtentIsBounded ==
  ASSUME NEW a \in 0 .. MaxStart, NEW n \in 0 .. DirSectors + Sectors(MaxBytes)
  PROVE  Extent(a, n) \in Extents
<1>1. MaxStart \in Nat /\ DirSectors \in Nat /\ Sectors(MaxBytes) \in Nat
  BY ValidationAssumption, SectorsKeepOrder
<1>2. a + n \in 0 .. MaxStart + DirSectors + Sectors(MaxBytes)
  BY <1>1
<1> QED
  BY <1>2 DEF Extent, Extents

\* The first state satisfies the invariant.
LEMMA ValidationInitInv == ValidationInit => ValidationInv
<1> SUFFICES ASSUME ValidationInit PROVE ValidationInv
  OBVIOUS
<1>1. /\ MapSectors \in 0 .. MaxStart /\ 0 \in 0 .. MaxStart /\ DirSectors \in Nat
      /\ Sectors(MaxBytes) \in Nat /\ MaxItems \in Nat /\ MapSectors \in Nat /\ MaxStart \in Nat
  BY ValidationAssumption, SectorsKeepOrder
<1>2. Extent(Root, DirSectors) \in Extents
  <2>1. Root \in 0 .. MaxStart /\ DirSectors \in 0 .. DirSectors + Sectors(MaxBytes)
    BY <1>1 DEF Root
  <2> QED
    BY <2>1, ExtentIsBounded
<1>3. Extent(0, MapSectors) \in Extents
  BY <1>1 DEF Extent, Extents
<1>4. used \in Seq(Extents) /\ free \in Seq(Extents) /\ Len(used) = 2 /\ Len(free) = 0
  BY <1>2, <1>3 DEF ValidationInit
<1> QED
  BY <1>1, <1>4 DEF ValidationInit, ValidationInv, ValidationTypeOK, Root

\* What an entry that is read adds.
LEMMA AppendedExtent ==
  ASSUME NEW s \in Seq(Extents), NEW e \in Extents
  PROVE  Append(s, e) \in Seq(Extents) /\ Len(Append(s, e)) = Len(s) + 1
OBVIOUS

\* Every step keeps the invariant.
LEMMA ValidationStepInv == ValidationInv /\ [ValidationNext]_validationVars => ValidationInv'
<1> SUFFICES ASSUME ValidationInv, [ValidationNext]_validationVars PROVE ValidationInv'
  OBVIOUS
<1>1. /\ MaxItems \in Nat /\ items \in 0 .. MaxItems /\ depth \in 0 .. MaxItems /\ depth <= items
      /\ used \in Seq(Extents) /\ free \in Seq(Extents) /\ Len(used) + Len(free) <= items + 2
      /\ Len(used) \in Nat /\ Len(free) \in Nat
  BY ValidationAssumption DEF ValidationInv, ValidationTypeOK
<1>2. /\ DirSectors \in Nat /\ Sectors(MaxBytes) \in Nat /\ MaxBytes \in Nat
      /\ MaxBytes \div SectorSize \in Nat /\ MaxBytes \div SectorSize <= Sectors(MaxBytes)
  BY ValidationAssumption, SectorsKeepOrder, WholeSectors
<1>3. ASSUME NEW sound \in BOOLEAN, ReadSizes(sound) PROVE ValidationInv'
  BY <1>3 DEF ReadSizes, ValidationInv, ValidationTypeOK
<1>4. ASSUME ShortReport PROVE ValidationInv'
  BY <1>4 DEF ShortReport, ValidationInv, ValidationTypeOK
<1>5. ASSUME NEW start \in 0 .. MaxStart, NEW length \in 0 .. MaxBytes \div SectorSize,
             ReadFreeEntry(start, length)
      PROVE  ValidationInv'
  <2>1. Extent(start, length) \in Extents
    <3>1. length \in 0 .. DirSectors + Sectors(MaxBytes)
      BY <1>2
    <3> QED
      BY <3>1, ExtentIsBounded
  <2>2. /\ Append(free, Extent(start, length)) \in Seq(Extents)
        /\ Len(Append(free, Extent(start, length))) = Len(free) + 1
    BY <1>1, <2>1, AppendedExtent
  <2>3. items' = items + 1 /\ items < MaxItems /\ free' \in {free, Append(free, Extent(start, length))}
    BY <1>5 DEF ReadFreeEntry, Counts
  <2>4. free' \in Seq(Extents) /\ Len(used) + Len(free') <= items' + 2
    BY <1>1, <2>2, <2>3
  <2> QED
    BY <1>1, <1>5, <2>3, <2>4 DEF ReadFreeEntry, ValidationInv, ValidationTypeOK
<1>6. ASSUME EndFree PROVE ValidationInv'
  BY <1>6 DEF EndFree, ValidationInv, ValidationTypeOK
<1>7. ASSUME NEW start \in 0 .. MaxStart, NEW bytes \in 0 .. MaxBytes, WalkFile(start, bytes)
      PROVE  ValidationInv'
  <2>1. Extent(start, Sectors(bytes)) \in Extents
    <3>1. bytes \in Nat /\ bytes <= MaxBytes
      BY <1>2
    <3>2. Sectors(bytes) \in Nat /\ Sectors(bytes) <= Sectors(MaxBytes)
      BY <1>2, <3>1, SectorsKeepOrder
    <3>3. Sectors(bytes) \in 0 .. DirSectors + Sectors(MaxBytes)
      BY <1>2, <3>2
    <3> QED
      BY <3>3, ExtentIsBounded
  <2>2. /\ Append(used, Extent(start, Sectors(bytes))) \in Seq(Extents)
        /\ Len(Append(used, Extent(start, Sectors(bytes)))) = Len(used) + 1
    BY <1>1, <2>1, AppendedExtent
  <2>3. /\ items' = items + 1 /\ items < MaxItems
        /\ used' \in {used, Append(used, Extent(start, Sectors(bytes)))}
    BY <1>7 DEF WalkFile, Counts
  <2>4. used' \in Seq(Extents) /\ Len(used') + Len(free) <= items' + 2
    BY <1>1, <2>2, <2>3
  <2> QED
    BY <1>1, <1>7, <2>3, <2>4 DEF WalkFile, ValidationInv, ValidationTypeOK
<1>8. ASSUME NEW start \in 0 .. MaxStart, NEW readable \in BOOLEAN, WalkDirectory(start, readable)
      PROVE  ValidationInv'
  <2>1. Extent(start, DirSectors) \in Extents
    <3>1. DirSectors \in 0 .. DirSectors + Sectors(MaxBytes)
      BY <1>2
    <3> QED
      BY <3>1, ExtentIsBounded
  <2>2. used' \in Seq(Extents) /\ Len(used') = Len(used) + 1
    BY <1>1, <1>8, <2>1, AppendedExtent DEF WalkDirectory
  <2>3. items' = items + 1 /\ items < MaxItems /\ depth' \in {depth, depth + 1}
    BY <1>8 DEF WalkDirectory, Counts
  <2>4. depth' \in 0 .. MaxItems /\ depth' <= items' /\ Len(used') + Len(free) <= items' + 2
    BY <1>1, <2>2, <2>3
  <2>5. visited' \in SUBSET (0 .. MaxStart)
    BY <1>8 DEF WalkDirectory, ValidationInv, ValidationTypeOK
  <2> QED
    BY <1>1, <1>8, <2>2, <2>3, <2>4, <2>5 DEF WalkDirectory, ValidationInv, ValidationTypeOK
<1>9. ASSUME EndDirectory PROVE ValidationInv'
  <2>1. depth' \in 0 .. MaxItems /\ depth' <= items
    BY <1>1, <1>9 DEF EndDirectory
  <2>2. vpc' \in {"scan", vpc}
    BY <1>9 DEF EndDirectory
  <2> QED
    BY <1>9, <2>1, <2>2 DEF EndDirectory, ValidationInv, ValidationTypeOK
<1>10. ASSUME WalkFails PROVE ValidationInv'
  BY <1>1, <1>10 DEF WalkFails, ValidationInv, ValidationTypeOK
<1>11. ASSUME StopValidation PROVE ValidationInv'
  <2>1. used' \in Seq(Extents) /\ free' \in Seq(Extents) /\ Len(used') = 0 /\ Len(free') = 0
    BY <1>11 DEF StopValidation
  <2> QED
    BY <1>1, <1>11, <2>1 DEF StopValidation, ValidationInv, ValidationTypeOK
<1>12. ASSUME ScanExtents PROVE ValidationInv'
  BY <1>12 DEF ScanExtents, ValidationInv, ValidationTypeOK
<1>13. CASE UNCHANGED validationVars
  BY <1>13 DEF validationVars, ValidationInv, ValidationTypeOK
<1> QED
  BY <1>3, <1>4, <1>5, <1>6, <1>7, <1>8, <1>9, <1>10, <1>11, <1>12, <1>13 DEF ValidationNext

\* Extents, depth and count of a validation stay within the budget, for every disc.
THEOREM ValidationInvariance == ValidationSpec => []ValidationInv
BY ValidationInitInv, ValidationStepInv, PTL DEF ValidationSpec

-----------------------------------------------------------------------------
(* Induction over an interval, as a fact about sets                         *)

\* A set of numbers has a least one: the strict inclusion of finite sets is well founded.
LEMMA Minimum ==
  ASSUME NEW S \in SUBSET Nat, S # {}
  PROVE  \E x \in S : \A y \in S : x <= y
<1> DEFINE Upto(x) == {y \in S : y <= x}
           T == {Upto(x) : x \in S}
<1>0. \A y \in S : y \in Nat
  OBVIOUS
<1>1. ASSUME NEW x \in S PROVE IsFiniteSet(Upto(x)) /\ Upto(x) \in SUBSET S
  <2>1. x \in Nat /\ Upto(x) \in SUBSET Nat /\ \A y \in Upto(x) : y <= x
    BY <1>0
  <2> QED
    BY <2>1, FS_BoundedSetOfNaturals
<1>2. T \subseteq FiniteSubsetsOf(S) /\ T # {}
  BY <1>1 DEF FiniteSubsetsOf
<1>3. PICK U \in T : \A V \in T : <<V, U>> \notin StrictSubsetOrdering(S)
  BY <1>2, FS_StrictSubsetOrderingWellFounded, WFMin
<1>4. PICK x \in S : U = Upto(x)
  OBVIOUS
<1>5. ASSUME NEW y \in S, y < x PROVE FALSE
  <2>1. Upto(y) \in T
    OBVIOUS
  <2>2. Upto(y) \subseteq Upto(x)
    <3>1. ASSUME NEW z \in Upto(y) PROVE z \in Upto(x)
      BY <1>0, <1>5
    <3> QED
      BY <3>1
  <2>3. x \in Upto(x) /\ x \notin Upto(y)
    BY <1>5
  <2> QED
    BY <1>1, <1>3, <1>4, <2>1, <2>2, <2>3 DEF StrictSubsetOrdering
<1> QED
  BY <1>5

\* A set with 0, and with the successor of each of its members below n, has all up to n.
LEMMA Reaches ==
  ASSUME NEW S, NEW n \in Nat, 0 \in S, \A d \in 0 .. n - 1 : d \in S => d + 1 \in S
  PROVE  \A d \in 0 .. n : d \in S
<1> DEFINE Out == {d \in 0 .. n : d \notin S}
<1>1. ASSUME Out # {} PROVE FALSE
  <2> Out \in SUBSET Nat
    OBVIOUS
  <2>1. PICK x \in Out : \A y \in Out : x <= y
    BY <1>1, Minimum
  <2>2. x \in 1 .. n /\ x - 1 \in 0 .. n - 1 /\ (x - 1) + 1 = x
    OBVIOUS
  <2>3. x - 1 \in S
    BY <2>1, <2>2
  <2> QED
    BY <2>1, <2>2, <2>3
<1> QED
  BY <1>1

-----------------------------------------------------------------------------
(* The sorted scans                                                         *)

Spans == {x \in [start : Nat, end : Nat] : x.start < x.end}

\* Two extents that share a sector.
Meet(x, y) == x.start < y.end /\ y.start < x.end

\* Two extents share a sector exactly if the merge sees it; of two that share none, the
\* one that starts no later ends first.
LEMMA MeetFacts ==
  ASSUME NEW x \in Spans, NEW y \in Spans
  PROVE  /\ Meet(x, y) <=> Greatest(x.start, y.start) < Least(x.end, y.end)
         /\ ~Meet(x, y) /\ x.start <= y.start => x.end <= y.start
<1>1. PICK a \in Nat, b \in Nat : x.start = a /\ x.end = b /\ a < b
  BY DEF Spans
<1>2. PICK c \in Nat, d \in Nat : y.start = c /\ y.end = d /\ c < d
  BY DEF Spans
<1> QED
  BY <1>1, <1>2 DEF Meet, Greatest, Least

\* No two extents of the list share one.
Apart(s) == \A i, j \in DOMAIN s : i # j => ~Meet(s[i], s[j])

\* Those that sorted() puts no later than the i-th.
NoLater(s, i) ==
  {j \in DOMAIN s : Before(s[j], s[i]) \/ (~Before(s[i], s[j]) /\ j <= i)}

\* An extent's place is between 1 and the length.
LEMMA PositionType ==
  ASSUME NEW s \in Seq(Spans), NEW i \in DOMAIN s
  PROVE  /\ Position(s, i) \in 1 .. Len(s) /\ Position(s, i) = Cardinality(NoLater(s, i))
         /\ IsFiniteSet(NoLater(s, i))
<1>1. Len(s) \in Nat /\ DOMAIN s = 1 .. Len(s) /\ i \in Nat /\ \A j \in DOMAIN s : s[j] \in Spans
  OBVIOUS
<1>2. IsFiniteSet(1 .. Len(s)) /\ Cardinality(1 .. Len(s)) = Len(s)
  <2>1. 1 \in Int /\ Len(s) \in Int
    BY <1>1
  <2>2. /\ IsFiniteSet(1 .. Len(s))
        /\ Cardinality(1 .. Len(s)) = IF 1 > Len(s) THEN 0 ELSE Len(s) - 1 + 1
    BY <2>1, FS_Interval
  <2> QED
    BY <1>1, <2>2
<1>3. NoLater(s, i) \in SUBSET (1 .. Len(s)) /\ i \in NoLater(s, i)
  BY <1>1 DEF NoLater, Before, Spans
<1>4. /\ IsFiniteSet(NoLater(s, i)) /\ Cardinality(NoLater(s, i)) <= Len(s)
      /\ Cardinality(NoLater(s, i)) \in Nat
  BY <1>2, <1>3, FS_Subset, FS_CardinalityType
<1>5. Cardinality(NoLater(s, i)) # 0
  BY <1>3, <1>4, FS_EmptySet
<1>6. Position(s, i) = Cardinality(NoLater(s, i))
  BY Zenon DEF Position, NoLater
<1> QED
  BY <1>1, <1>4, <1>5, <1>6

\* Of two extents the one that is no later has the smaller place.
LEMMA PositionsDiffer ==
  ASSUME NEW s \in Seq(Spans), NEW i \in DOMAIN s, NEW j \in DOMAIN s, i # j,
         i \in NoLater(s, j)
  PROVE  Position(s, i) < Position(s, j)
<1>1. DOMAIN s \subseteq Nat /\ \A k \in DOMAIN s : s[k] \in Spans
  OBVIOUS
<1>2. NoLater(s, i) \in SUBSET NoLater(s, j)
  BY <1>1 DEF NoLater, Before, Spans
<1>3. j \in NoLater(s, j) /\ j \notin NoLater(s, i)
  BY <1>1 DEF NoLater, Before, Spans
<1>4. IsFiniteSet(NoLater(s, j))
  BY PositionType
<1>5. /\ Cardinality(NoLater(s, i)) <= Cardinality(NoLater(s, j))
      /\ Cardinality(NoLater(s, i)) # Cardinality(NoLater(s, j))
  BY <1>2, <1>3, <1>4, FS_Subset
<1> QED
  BY <1>5, PositionType

\* sorted() gives the same extents, each once, and none starts after a later one.
LEMMA SortedFacts ==
  ASSUME NEW s \in Seq(Spans)
  PROVE  /\ InOrder(s) \in Seq(Spans) /\ Len(InOrder(s)) = Len(s)
         /\ \E at \in [1 .. Len(s) -> 1 .. Len(s)] :
              /\ \A k \in 1 .. Len(s) : InOrder(s)[k] = s[at[k]]
              /\ \A i \in 1 .. Len(s) : \E k \in 1 .. Len(s) : at[k] = i
              /\ \A k, l \in 1 .. Len(s) : k < l =>
                   at[k] # at[l] /\ InOrder(s)[k].start <= InOrder(s)[l].start
<1> DEFINE n == Len(s)
           pos == [i \in 1 .. n |-> Position(s, i)]
           at == [k \in 1 .. n |-> CHOOSE i \in 1 .. n : Position(s, i) = k]
<1>1. n \in Nat /\ DOMAIN s = 1 .. n /\ \A i \in 1 .. n : s[i] \in Spans
  OBVIOUS
<1>2. \A i \in 1 .. n : Position(s, i) \in 1 .. n
  BY <1>1, PositionType
<1>3. \A i, j \in 1 .. n :
        i # j => Position(s, i) < Position(s, j) \/ Position(s, j) < Position(s, i)
  <2>1. ASSUME NEW i \in 1 .. n, NEW j \in 1 .. n, i # j
        PROVE  i \in NoLater(s, j) \/ j \in NoLater(s, i)
    <3>1. s[i] \in Spans /\ s[j] \in Spans
      BY <1>1
    <3> QED
      BY <1>1, <3>1 DEF NoLater, Before, Spans
  <2> QED
    BY <1>1, <2>1, PositionsDiffer
<1>4. pos \in Injection(1 .. n, 1 .. n)
  BY <1>2, <1>3 DEF Injection, IsInjective
<1>5. pos \in Surjection(1 .. n, 1 .. n)
  BY <1>1, <1>4, FS_Interval, FS_Injection
<1>6. \A k \in 1 .. n : \E i \in 1 .. n : Position(s, i) = k
  BY <1>5 DEF Surjection
<1>7. \A k \in 1 .. n : at[k] \in 1 .. n /\ Position(s, at[k]) = k
  BY <1>6
<1>8. \A i \in 1 .. n : at[Position(s, i)] = i
  BY <1>2, <1>3, <1>7
<1>9. InOrder(s) = [k \in 1 .. n |-> s[at[k]]]
  BY <1>1 DEF InOrder
<1>10. at \in [1 .. n -> 1 .. n]
  BY <1>7
<1> HIDE DEF at
<1>11. ASSUME NEW k \in 1 .. n, NEW l \in 1 .. n, k < l
       PROVE  at[k] # at[l] /\ s[at[k]].start <= s[at[l]].start
  <2>1. at[k] # at[l]
    BY <1>7, <1>11
  <2>2. s[at[k]] \in Spans /\ s[at[l]] \in Spans
    BY <1>1, <1>7
  <2>3. ASSUME s[at[l]].start < s[at[k]].start PROVE FALSE
    <3>1. at[l] \in NoLater(s, at[k])
      BY <1>1, <1>7, <2>3 DEF NoLater, Before
    <3>2. Position(s, at[l]) < Position(s, at[k])
      BY <1>1, <1>7, <2>1, <3>1, PositionsDiffer
    <3> QED
      BY <1>7, <1>11, <3>2
  <2> QED
    <3>1. s[at[k]].start \in Nat /\ s[at[l]].start \in Nat
      BY <2>2 DEF Spans
    <3> QED
      BY <2>1, <2>3, <3>1
<1>12. InOrder(s) \in Seq(Spans) /\ Len(InOrder(s)) = n
  BY <1>1, <1>7, <1>9
<1>13. \A k \in 1 .. n : InOrder(s)[k] = s[at[k]]
  BY <1>9
<1>14. \A i \in 1 .. n : \E k \in 1 .. n : at[k] = i
  BY <1>2, <1>8
<1>15. \A k, l \in 1 .. n : k < l => at[k] # at[l] /\ InOrder(s)[k].start <= InOrder(s)[l].start
  BY <1>11, <1>13
<1> QED
  BY <1>10, <1>12, <1>13, <1>14, <1>15

\* _overlap_findings finds an overlap exactly if two extents share a sector.
LEMMA OverlapsExact ==
  ASSUME NEW s \in Seq(Spans)
  PROVE  Overlaps(s) <=> ~Apart(s)
<1> DEFINE o == InOrder(s)
           n == Len(s)
<1>1. PICK at \in [1 .. n -> 1 .. n] :
        /\ \A k \in 1 .. n : o[k] = s[at[k]]
        /\ \A i \in 1 .. n : \E k \in 1 .. n : at[k] = i
        /\ \A k, l \in 1 .. n : k < l => at[k] # at[l] /\ o[k].start <= o[l].start
  BY SortedFacts
<1>2. n \in Nat /\ DOMAIN s = 1 .. n /\ DOMAIN o = 1 .. n /\ \A k \in 1 .. n : o[k] \in Spans
  BY SortedFacts
<1>3. Overlaps(s) <=> \E k \in DOMAIN o : \E l \in 1 .. k - 1 : o[k].start < o[l].end
  BY DEF Overlaps
<1> HIDE DEF o, n
<1>4. ASSUME Overlaps(s) PROVE ~Apart(s)
  <2>1. PICK k \in 1 .. n : \E l \in 1 .. k - 1 : o[k].start < o[l].end
    BY <1>2, <1>3, <1>4
  <2>2. PICK l \in 1 .. k - 1 : o[k].start < o[l].end
    BY <2>1
  <2>3. l \in 1 .. n /\ l < k
    BY <1>2, <2>1
  <2>4. Meet(o[l], o[k]) /\ at[l] # at[k]
    <3>1. o[k] \in Spans /\ o[l] \in Spans /\ o[l].start <= o[k].start /\ at[l] # at[k]
      BY <1>1, <1>2, <2>3
    <3> QED
      BY <2>2, <3>1 DEF Meet, Spans
  <2> QED
    BY <1>1, <1>2, <2>3, <2>4 DEF Apart
<1>5. ASSUME ~Apart(s) PROVE Overlaps(s)
  <2>1. PICK i \in 1 .. n, j \in 1 .. n : i # j /\ Meet(s[i], s[j])
    BY <1>2, <1>5 DEF Apart
  <2>2. PICK k \in 1 .. n, l \in 1 .. n : at[k] = i /\ at[l] = j
    BY <1>1
  <2>3. k # l /\ Meet(o[k], o[l]) /\ Meet(o[l], o[k])
    BY <1>1, <2>1, <2>2 DEF Meet
  <2>4. k \in Nat /\ l \in Nat /\ o[k].start < o[l].end /\ o[l].start < o[k].end
    BY <2>3 DEF Meet
  <2>5. CASE l < k
    <3>1. l \in 1 .. k - 1
      BY <2>4, <2>5
    <3> QED
      BY <1>2, <1>3, <2>4, <3>1
  <2>6. CASE k < l
    <3>1. k \in 1 .. l - 1
      BY <2>4, <2>6
    <3> QED
      BY <1>2, <1>3, <2>4, <3>1
  <2> QED
    BY <2>3, <2>4, <2>5, <2>6
<1> QED
  BY <1>4, <1>5

-----------------------------------------------------------------------------
(* The merge of _cross_overlap_findings                                     *)

MergePlaces(u, f) == (1 .. Len(u) + 1) \X (1 .. Len(f) + 1)

\* What the merge finds at p if m is what it finds from the places after p.
MergeFinds(u, f, m, p) ==
  LET i == p[1]  j == p[2]
  IN  /\ i <= Len(u) /\ j <= Len(f)
      /\ \/ Greatest(u[i].start, f[j].start) < Least(u[i].end, f[j].end)
         \/ IF u[i].end <= f[j].end THEN m[<<i + 1, j>>] ELSE m[<<i, j + 1>>]

MergeStep(u, f, m) == [p \in MergePlaces(u, f) |-> MergeFinds(u, f, m, p)]

\* Extents the merge has yet to pass.
Left(u, f, p) == (Len(u) + 1 - p[1]) + (Len(f) + 1 - p[2])

\* The places are pairs, with a number of extents left.
LEMMA MergePlaceFacts ==
  ASSUME NEW u \in Seq(Spans), NEW f \in Seq(Spans), NEW p \in MergePlaces(u, f)
  PROVE  /\ p[1] \in 1 .. Len(u) + 1 /\ p[2] \in 1 .. Len(f) + 1 /\ p = <<p[1], p[2]>>
         /\ Left(u, f, p) \in 0 .. Len(u) + Len(f)
         /\ p[1] <= Len(u) =>
              /\ <<p[1] + 1, p[2]>> \in MergePlaces(u, f)
              /\ Left(u, f, <<p[1] + 1, p[2]>>) = Left(u, f, p) - 1
         /\ p[2] <= Len(f) =>
              /\ <<p[1], p[2] + 1>> \in MergePlaces(u, f)
              /\ Left(u, f, <<p[1], p[2] + 1>>) = Left(u, f, p) - 1
<1>1. Len(u) \in Nat /\ Len(f) \in Nat
  OBVIOUS
<1>2. p[1] \in 1 .. Len(u) + 1 /\ p[2] \in 1 .. Len(f) + 1 /\ p = <<p[1], p[2]>>
  BY DEF MergePlaces
<1>3. PICK i \in Int, j \in Int : i = p[1] /\ j = p[2]
  BY <1>1, <1>2
<1>4. Left(u, f, p) \in 0 .. Len(u) + Len(f)
  BY <1>1, <1>2, <1>3 DEF Left
<1>5. ASSUME i <= Len(u)
      PROVE  <<i + 1, j>> \in MergePlaces(u, f) /\ Left(u, f, <<i + 1, j>>) = Left(u, f, p) - 1
  <2>1. i + 1 \in 1 .. Len(u) + 1 /\ j \in 1 .. Len(f) + 1
    BY <1>1, <1>2, <1>3, <1>5
  <2>2. Left(u, f, <<i + 1, j>>) = (Len(u) + 1 - (i + 1)) + (Len(f) + 1 - j)
    BY DEF Left
  <2>3. Left(u, f, p) = (Len(u) + 1 - i) + (Len(f) + 1 - j)
    BY <1>3 DEF Left
  <2>4. Left(u, f, <<i + 1, j>>) = Left(u, f, p) - 1
    BY <1>1, <2>2, <2>3
  <2> QED
    BY <2>1, <2>4 DEF MergePlaces
<1>6. ASSUME j <= Len(f)
      PROVE  <<i, j + 1>> \in MergePlaces(u, f) /\ Left(u, f, <<i, j + 1>>) = Left(u, f, p) - 1
  <2>1. i \in 1 .. Len(u) + 1 /\ j + 1 \in 1 .. Len(f) + 1
    BY <1>1, <1>2, <1>3, <1>6
  <2>2. Left(u, f, <<i, j + 1>>) = (Len(u) + 1 - i) + (Len(f) + 1 - (j + 1))
    BY DEF Left
  <2>3. Left(u, f, p) = (Len(u) + 1 - i) + (Len(f) + 1 - j)
    BY <1>3 DEF Left
  <2>4. Left(u, f, <<i, j + 1>>) = Left(u, f, p) - 1
    BY <1>1, <2>2, <2>3
  <2> QED
    BY <2>1, <2>4 DEF MergePlaces
<1> QED
  BY <1>2, <1>3, <1>4, <1>5, <1>6

\* Two answers that agree where fewer extents are left give the same answer here.
LEMMA MergeReadsAhead ==
  ASSUME NEW u \in Seq(Spans), NEW f \in Seq(Spans), NEW m, NEW g,
         NEW p \in MergePlaces(u, f),
         \A q \in MergePlaces(u, f) : Left(u, f, q) = Left(u, f, p) - 1 => m[q] = g[q]
  PROVE  MergeFinds(u, f, m, p) = MergeFinds(u, f, g, p)
<1>1. p[1] <= Len(u) => m[<<p[1] + 1, p[2]>>] = g[<<p[1] + 1, p[2]>>]
  BY MergePlaceFacts
<1>2. p[2] <= Len(f) => m[<<p[1], p[2] + 1>>] = g[<<p[1], p[2] + 1>>]
  BY MergePlaceFacts
<1> QED
  BY <1>1, <1>2, Zenon DEF MergeFinds

\* The recursive definition has a solution: one that is right where d extents are left
\* gives one that is right where d + 1 are.
LEMMA MeetsUnfolds ==
  ASSUME NEW u \in Seq(Spans), NEW f \in Seq(Spans)
  PROVE  Meets(u, f) = MergeStep(u, f, Meets(u, f))
<1> DEFINE Right(m, d) ==
             \A p \in MergePlaces(u, f) : Left(u, f, p) <= d => m[p] = MergeFinds(u, f, m, p)
           S == {d \in Nat : \E m : Right(m, d)}
           N == Len(u) + Len(f)
<1>1. N \in Nat /\ \A p \in MergePlaces(u, f) : Left(u, f, p) \in 0 .. N
  <2>1. \A p \in MergePlaces(u, f) : Left(u, f, p) \in 0 .. Len(u) + Len(f)
    BY MergePlaceFacts
  <2>2. Len(u) + Len(f) \in Nat
    OBVIOUS
  <2> QED
    BY <2>1, <2>2
<1> HIDE DEF N
<1>2. ASSUME NEW m, NEW d \in Nat,
             \A p \in MergePlaces(u, f) : Left(u, f, p) < d => m[p] = MergeFinds(u, f, m, p)
      PROVE  Right(MergeStep(u, f, m), d)
  <2> DEFINE g == MergeStep(u, f, m)
  <2>1. \A p \in MergePlaces(u, f) : g[p] = MergeFinds(u, f, m, p)
    BY DEF MergeStep
  <2> HIDE DEF g
  <2>2. ASSUME NEW p \in MergePlaces(u, f), Left(u, f, p) <= d PROVE g[p] = MergeFinds(u, f, g, p)
    <3>1. ASSUME NEW q \in MergePlaces(u, f), Left(u, f, q) = Left(u, f, p) - 1 PROVE m[q] = g[q]
      <4>1. Left(u, f, p) \in Int /\ Left(u, f, q) < d
        BY <1>1, <2>2, <3>1
      <4> QED
        BY <1>2, <2>1, <4>1
    <3>2. MergeFinds(u, f, m, p) = MergeFinds(u, f, g, p)
      BY <3>1, MergeReadsAhead
    <3> QED
      BY <2>1, <3>2
  <2> QED
    BY <2>2 DEF g
<1>3. 0 \in S
  <2>1. ASSUME NEW p \in MergePlaces(u, f) PROVE ~(Left(u, f, p) < 0)
    BY <1>1
  <2>2. Right(MergeStep(u, f, <<>>), 0)
    BY <1>2, <2>1
  <2> QED
    BY <2>2
<1>4. ASSUME NEW d \in 0 .. N - 1, d \in S PROVE d + 1 \in S
  <2>1. PICK m : Right(m, d)
    BY <1>4
  <2>2. ASSUME NEW p \in MergePlaces(u, f), Left(u, f, p) < d + 1
        PROVE  m[p] = MergeFinds(u, f, m, p)
    <3>1. Left(u, f, p) <= d
      BY <1>1, <2>2
    <3> QED
      BY <2>1, <3>1
  <2>3. d + 1 \in Nat
    OBVIOUS
  <2>4. Right(MergeStep(u, f, m), d + 1)
    BY <1>2, <2>2, <2>3
  <2> QED
    BY <2>3, <2>4
<1>5. N \in S
  <2> HIDE DEF S
  <2>1. \A d \in 0 .. N : d \in S
    BY <1>1, <1>3, <1>4, Reaches
  <2> QED
    BY <1>1, <2>1
<1>6. PICK m : Right(m, N)
  BY <1>5
<1>7. ASSUME NEW p \in MergePlaces(u, f) PROVE m[p] = MergeFinds(u, f, m, p)
  <2>1. Left(u, f, p) <= N
    BY <1>1
  <2> QED
    BY <1>6, <2>1
<1> DEFINE g == MergeStep(u, f, m)
<1>8. g = MergeStep(u, f, g)
  <2>1. \A p \in MergePlaces(u, f) : g[p] = m[p]
    BY <1>7 DEF MergeStep
  <2> HIDE DEF g
  <2>2. \A p \in MergePlaces(u, f) : MergeFinds(u, f, m, p) = MergeFinds(u, f, g, p)
    BY <2>1, MergeReadsAhead
  <2>3. MergeStep(u, f, m) = MergeStep(u, f, g)
    BY <2>2, Zenon DEF MergeStep
  <2> QED
    BY <2>3 DEF g
<1> DEFINE Solves(h) == h = MergeStep(u, f, h)
<1>9. Meets(u, f) = CHOOSE h : Solves(h)
  BY Zenon DEF Meets, MergeStep, MergePlaces, MergeFinds
<1>10. Solves(CHOOSE h : Solves(h))
  BY <1>8, Zenon
<1> QED
  BY <1>9, <1>10

\* What the merge finds at a place.
LEMMA MeetsAt ==
  ASSUME NEW u \in Seq(Spans), NEW f \in Seq(Spans),
         NEW i \in 1 .. Len(u) + 1, NEW j \in 1 .. Len(f) + 1
  PROVE  /\ i > Len(u) \/ j > Len(f) => ~Meets(u, f)[<<i, j>>]
         /\ i <= Len(u) /\ j <= Len(f) =>
              /\ Meet(u[i], f[j]) => Meets(u, f)[<<i, j>>]
              /\ ~Meet(u[i], f[j]) =>
                   /\ u[i].end <= f[j].end =>
                        (Meets(u, f)[<<i, j>>] <=> Meets(u, f)[<<i + 1, j>>])
                   /\ ~(u[i].end <= f[j].end) =>
                        (Meets(u, f)[<<i, j>>] <=> Meets(u, f)[<<i, j + 1>>])
<1> DEFINE p == <<i, j>>
           m == Meets(u, f)
<1>1. p \in MergePlaces(u, f) /\ p[1] = i /\ p[2] = j /\ i \in Int /\ j \in Int
      /\ Len(u) \in Nat /\ Len(f) \in Nat
  BY DEF MergePlaces
<1>2. m = [q \in MergePlaces(u, f) |-> MergeFinds(u, f, m, q)]
  BY MeetsUnfolds, Zenon DEF MergeStep
<1> HIDE DEF p, m
<1>3. m[p] = MergeFinds(u, f, m, p)
  BY <1>1, <1>2
<1>4. m[p] <=> /\ i <= Len(u) /\ j <= Len(f)
               /\ \/ Greatest(u[i].start, f[j].start) < Least(u[i].end, f[j].end)
                  \/ IF u[i].end <= f[j].end THEN m[<<i + 1, j>>] ELSE m[<<i, j + 1>>]
  BY <1>1, <1>3, Zenon DEF MergeFinds
<1>5. ASSUME i <= Len(u), j <= Len(f)
      PROVE  Meet(u[i], f[j]) <=>
               Greatest(u[i].start, f[j].start) < Least(u[i].end, f[j].end)
  <2>1. u[i] \in Spans /\ f[j] \in Spans
    BY <1>1, <1>5
  <2> QED
    BY <2>1, MeetFacts
<1>6. i > Len(u) \/ j > Len(f) => ~(i <= Len(u) /\ j <= Len(f))
  BY <1>1
<1> QED
  BY <1>4, <1>5, <1>6, Zenon DEF p, m

\* Extents of a sorted list that share nothing end before the later ones start.
LEMMA SortedApart ==
  ASSUME NEW s \in Seq(Spans), Apart(s)
  PROVE  \A k, l \in 1 .. Len(s) : k < l => InOrder(s)[k].end <= InOrder(s)[l].start
<1> DEFINE o == InOrder(s)
<1>1. PICK at \in [1 .. Len(s) -> 1 .. Len(s)] :
        /\ \A k \in 1 .. Len(s) : o[k] = s[at[k]]
        /\ \A k, l \in 1 .. Len(s) : k < l => at[k] # at[l] /\ o[k].start <= o[l].start
  BY SortedFacts
<1>2. DOMAIN s = 1 .. Len(s) /\ \A k \in 1 .. Len(s) : o[k] \in Spans
  BY SortedFacts
<1> HIDE DEF o
<1>3. ASSUME NEW k \in 1 .. Len(s), NEW l \in 1 .. Len(s), k < l
      PROVE  o[k].end <= o[l].start
  <2>1. ~Meet(o[k], o[l])
    BY <1>1, <1>2, <1>3 DEF Apart
  <2>2. o[k] \in Spans /\ o[l] \in Spans /\ o[k].start <= o[l].start
    BY <1>1, <1>2, <1>3
  <2> QED
    BY <2>1, <2>2, MeetFacts
<1> QED
  BY <1>3 DEF o

\* _cross_overlap_findings finds a used and a free extent that share a sector exactly if
\* there are such two, when neither list overlaps itself.
LEMMA CrossOverlapsExact ==
  ASSUME NEW us \in Seq(Spans), NEW fs \in Seq(Spans), Apart(us), Apart(fs)
  PROVE  CrossOverlaps(us, fs) <=> \E i \in DOMAIN us, j \in DOMAIN fs : Meet(us[i], fs[j])
<1> DEFINE u == InOrder(us)
           f == InOrder(fs)
           n == Len(us)
           k == Len(fs)
           m == Meets(u, f)
           Ahead(i, j) == \E a \in i .. n, b \in j .. k : Meet(u[a], f[b])
           S == {d \in Nat : \A i \in 1 .. n + 1, j \in 1 .. k + 1 :
                   (n + 1 - i) + (k + 1 - j) = d => (m[<<i, j>>] <=> Ahead(i, j))}
<1>1. /\ u \in Seq(Spans) /\ f \in Seq(Spans) /\ Len(u) = n /\ Len(f) = k
      /\ n \in Nat /\ k \in Nat
      /\ \A i \in 1 .. n : u[i] \in Spans
      /\ \A j \in 1 .. k : f[j] \in Spans
  BY SortedFacts
<1>2. /\ \A a, b \in 1 .. n : a < b => u[a].end <= u[b].start
      /\ \A a, b \in 1 .. k : a < b => f[a].end <= f[b].start
  BY SortedApart
<1>3. ASSUME NEW i \in 1 .. n + 1, NEW j \in 1 .. k + 1
      PROVE  /\ i > n \/ j > k => ~m[<<i, j>>]
             /\ i <= n /\ j <= k =>
                  /\ Meet(u[i], f[j]) => m[<<i, j>>]
                  /\ ~Meet(u[i], f[j]) =>
                       /\ u[i].end <= f[j].end => (m[<<i, j>>] <=> m[<<i + 1, j>>])
                       /\ ~(u[i].end <= f[j].end) => (m[<<i, j>>] <=> m[<<i, j + 1>>])
  BY <1>1, MeetsAt
<1>4. (\E i \in DOMAIN us, j \in DOMAIN fs : Meet(us[i], fs[j])) <=> Ahead(1, 1)
  <2>1. PICK at \in [1 .. n -> 1 .. n] :
          /\ \A i \in 1 .. n : u[i] = us[at[i]]
          /\ \A i \in 1 .. n : \E a \in 1 .. n : at[a] = i
    BY SortedFacts
  <2>2. PICK bt \in [1 .. k -> 1 .. k] :
          /\ \A j \in 1 .. k : f[j] = fs[bt[j]]
          /\ \A j \in 1 .. k : \E b \in 1 .. k : bt[b] = j
    BY SortedFacts
  <2>3. DOMAIN us = 1 .. n /\ DOMAIN fs = 1 .. k
    OBVIOUS
  <2> HIDE DEF u, f, n, k
  <2>4. ASSUME NEW i \in 1 .. n, NEW j \in 1 .. k, Meet(us[i], fs[j]) PROVE Ahead(1, 1)
    <3>1. PICK a \in 1 .. n, b \in 1 .. k : at[a] = i /\ bt[b] = j
      BY <2>1, <2>2
    <3>2. Meet(u[a], f[b])
      BY <2>1, <2>2, <2>4, <3>1
    <3> QED
      BY <3>2
  <2>5. ASSUME NEW a \in 1 .. n, NEW b \in 1 .. k, Meet(u[a], f[b])
        PROVE  \E i \in 1 .. n, j \in 1 .. k : Meet(us[i], fs[j])
    <3>1. Meet(us[at[a]], fs[bt[b]]) /\ at[a] \in 1 .. n /\ bt[b] \in 1 .. k
      BY <2>1, <2>2, <2>5
    <3> QED
      BY <3>1
  <2> QED
    BY <2>3, <2>4, <2>5
<1>5. CrossOverlaps(us, fs) <=> m[<<1, 1>>]
  BY DEF CrossOverlaps
<1> HIDE DEF u, f, n, k, m
<1>6. ASSUME NEW i \in 1 .. n, NEW j \in 1 .. k, ~Meet(u[i], f[j]), u[i].end <= f[j].end
      PROVE  Ahead(i, j) <=> Ahead(i + 1, j)
  <2>1. ASSUME NEW b \in j .. k PROVE ~Meet(u[i], f[b])
    <3>1. u[i] \in Spans /\ f[b] \in Spans /\ f[j] \in Spans
      BY <1>1
    <3>2. b = j \/ f[j].end <= f[b].start
      <4>1. b \in 1 .. k /\ (b = j \/ j < b)
        BY <1>1
      <4> QED
        BY <1>2, <4>1
    <3> QED
      BY <1>6, <3>1, <3>2 DEF Meet, Spans
  <2>2. i .. n = {i} \cup ((i + 1) .. n)
    BY <1>1
  <2> QED
    BY <2>1, <2>2
<1>7. ASSUME NEW i \in 1 .. n, NEW j \in 1 .. k, ~Meet(u[i], f[j]), ~(u[i].end <= f[j].end)
      PROVE  Ahead(i, j) <=> Ahead(i, j + 1)
  <2>1. ASSUME NEW a \in i .. n PROVE ~Meet(u[a], f[j])
    <3>1. u[i] \in Spans /\ u[a] \in Spans /\ f[j] \in Spans
      BY <1>1
    <3>2. a = i \/ u[i].end <= u[a].start
      <4>1. a \in 1 .. n /\ (a = i \/ i < a)
        BY <1>1
      <4> QED
        BY <1>2, <4>1
    <3> QED
      BY <1>7, <3>1, <3>2 DEF Meet, Spans
  <2>2. j .. k = {j} \cup ((j + 1) .. k)
    BY <1>1
  <2> QED
    BY <2>1, <2>2
<1>8. ASSUME NEW i \in 1 .. n + 1, NEW j \in 1 .. k + 1, i > n \/ j > k
      PROVE  m[<<i, j>>] <=> Ahead(i, j)
  <2>1. ~Ahead(i, j)
    BY <1>1, <1>8
  <2> QED
    BY <1>3, <1>8, <2>1
<1>9. 0 \in S
  <2>1. ASSUME NEW i \in 1 .. n + 1, NEW j \in 1 .. k + 1, (n + 1 - i) + (k + 1 - j) = 0
        PROVE  m[<<i, j>>] <=> Ahead(i, j)
    <3>1. i > n
      BY <1>1, <2>1
    <3> QED
      BY <1>8, <3>1
  <2> HIDE DEF Ahead
  <2> QED
    BY <2>1
<1>10. ASSUME NEW d \in 0 .. n + k - 1, d \in S PROVE d + 1 \in S
  <2>1. ASSUME NEW i \in 1 .. n + 1, NEW j \in 1 .. k + 1, (n + 1 - i) + (k + 1 - j) = d + 1
        PROVE  m[<<i, j>>] <=> Ahead(i, j)
    <3>1. CASE i > n \/ j > k
      BY <1>8, <3>1
    <3>2. CASE i <= n /\ j <= k
      <4>1. /\ i \in 1 .. n /\ j \in 1 .. k /\ i + 1 \in 1 .. n + 1 /\ j + 1 \in 1 .. k + 1
            /\ (n + 1 - (i + 1)) + (k + 1 - j) = d /\ (n + 1 - i) + (k + 1 - (j + 1)) = d
        BY <1>1, <2>1, <3>2
      <4>2. (m[<<i + 1, j>>] <=> Ahead(i + 1, j)) /\ (m[<<i, j + 1>>] <=> Ahead(i, j + 1))
        <5> HIDE DEF Ahead
        <5> QED
          BY <1>10, <4>1
      <4>3. CASE Meet(u[i], f[j])
        <5>1. Ahead(i, j)
          BY <1>1, <4>1, <4>3
        <5> QED
          BY <1>3, <3>2, <4>3, <5>1
      <4>4. CASE ~Meet(u[i], f[j]) /\ u[i].end <= f[j].end
        <5>1. Ahead(i, j) <=> Ahead(i + 1, j)
          BY <1>6, <4>1, <4>4
        <5>2. m[<<i, j>>] <=> m[<<i + 1, j>>]
          BY <1>3, <3>2, <4>4
        <5> HIDE DEF Ahead
        <5> QED
          BY <4>2, <5>1, <5>2
      <4>5. CASE ~Meet(u[i], f[j]) /\ ~(u[i].end <= f[j].end)
        <5>1. Ahead(i, j) <=> Ahead(i, j + 1)
          BY <1>7, <4>1, <4>5
        <5>2. m[<<i, j>>] <=> m[<<i, j + 1>>]
          BY <1>3, <3>2, <4>5
        <5> HIDE DEF Ahead
        <5> QED
          BY <4>2, <5>1, <5>2
      <4> QED
        BY <4>3, <4>4, <4>5
    <3>3. i > n \/ j > k \/ (i <= n /\ j <= k)
      BY <1>1
    <3> HIDE DEF Ahead
    <3> QED
      BY <3>1, <3>2, <3>3
  <2>2. d + 1 \in Nat
    BY <1>1
  <2> HIDE DEF Ahead
  <2> QED
    BY <2>1, <2>2
<1>11. m[<<1, 1>>] <=> Ahead(1, 1)
  <2>1. n + k \in S
    <3> DEFINE N == n + k
    <3> HIDE DEF S
    <3>1. N \in Nat /\ \A d \in 0 .. N - 1 : d \in S => d + 1 \in S
      BY <1>1, <1>10
    <3> HIDE DEF N
    <3>2. \A d \in 0 .. N : d \in S
      BY <1>9, <3>1, Reaches
    <3> QED
      BY <3>1, <3>2 DEF N
  <2>2. 1 \in 1 .. n + 1 /\ 1 \in 1 .. k + 1 /\ (n + 1 - 1) + (k + 1 - 1) = n + k
    BY <1>1
  <2> HIDE DEF Ahead
  <2> QED
    BY <2>1, <2>2
<1> HIDE DEF Ahead
<1> QED
  BY <1>4, <1>5, <1>11

-----------------------------------------------------------------------------
(* The cursor of _gap_ranges                                                *)

\* The cursor at i if c is the cursor before.
CursorStep(o, total, c) ==
  [i \in 0 .. Len(o) |-> IF i = 0 THEN 0 ELSE Greatest(c[i - 1], Least(total, o[i].end))]

\* The recursive definition of the cursor has a solution.
LEMMA CursorUnfolds ==
  ASSUME NEW o \in Seq(Spans), NEW total \in Nat
  PROVE  Cursor(o, total) = CursorStep(o, total, Cursor(o, total))
<1> DEFINE n == Len(o)
           Next1(c, i) == IF i = 0 THEN 0 ELSE Greatest(c[i - 1], Least(total, o[i].end))
           Right(c, d) == \A i \in 0 .. n : i <= d => c[i] = Next1(c, i)
           S == {d \in Nat : \E c : Right(c, d)}
<1>1. n \in Nat
  OBVIOUS
<1>2. \A c : \A i \in 0 .. n : CursorStep(o, total, c)[i] = Next1(c, i)
  BY DEF CursorStep
<1>3. ASSUME NEW c, NEW g, NEW i \in 0 .. n, i # 0 => c[i - 1] = g[i - 1]
      PROVE  Next1(c, i) = Next1(g, i)
  BY <1>3
<1> HIDE DEF n, Next1
<1>4. ASSUME NEW c, NEW d \in Nat, \A i \in 0 .. n : i < d => c[i] = Next1(c, i)
      PROVE  Right(CursorStep(o, total, c), d)
  <2> DEFINE g == CursorStep(o, total, c)
  <2>1. \A i \in 0 .. n : g[i] = Next1(c, i)
    BY <1>2
  <2> HIDE DEF g
  <2>2. ASSUME NEW i \in 0 .. n, i <= d PROVE g[i] = Next1(g, i)
    <3>1. ASSUME i # 0 PROVE c[i - 1] = g[i - 1]
      <4>1. i - 1 \in 0 .. n /\ i - 1 < d
        BY <1>1, <2>2, <3>1
      <4> QED
        BY <1>4, <2>1, <4>1
    <3>2. Next1(c, i) = Next1(g, i)
      BY <1>3, <3>1
    <3> QED
      BY <2>1, <3>2
  <2> QED
    BY <2>2 DEF g
<1>5. 0 \in S
  <2>1. \A i \in 0 .. n : ~(i < 0)
    BY <1>1
  <2>2. Right(CursorStep(o, total, <<>>), 0)
    BY <1>4, <2>1
  <2> QED
    BY <2>2
<1>6. ASSUME NEW d \in 0 .. n - 1, d \in S PROVE d + 1 \in S
  <2>1. PICK c : Right(c, d)
    BY <1>6
  <2>2. d + 1 \in Nat /\ \A i \in 0 .. n : i < d + 1 => i <= d
    BY <1>1
  <2>3. Right(CursorStep(o, total, c), d + 1)
    BY <1>4, <2>1, <2>2
  <2> QED
    BY <2>2, <2>3
<1>7. n \in S
  <2> HIDE DEF S
  <2>1. \A d \in 0 .. n : d \in S
    BY <1>1, <1>5, <1>6, Reaches
  <2> QED
    BY <1>1, <2>1
<1>8. PICK c : Right(c, n)
  BY <1>7
<1>9. ASSUME NEW i \in 0 .. n PROVE c[i] = Next1(c, i)
  <2>1. i <= n
    BY <1>1
  <2> QED
    BY <1>8, <2>1
<1> DEFINE g == CursorStep(o, total, c)
<1>10. g = CursorStep(o, total, g)
  <2>1. \A i \in 0 .. n : g[i] = c[i]
    BY <1>2, <1>9
  <2> HIDE DEF g
  <2>2. ASSUME NEW i \in 0 .. n PROVE Next1(c, i) = Next1(g, i)
    <3>1. i # 0 => i - 1 \in 0 .. n
      BY <1>1
    <3> QED
      BY <1>3, <2>1, <3>1
  <2>3. CursorStep(o, total, c) = CursorStep(o, total, g)
    BY <2>2 DEF CursorStep, Next1, n
  <2> QED
    BY <2>3 DEF g
<1> DEFINE Solves(h) == h = CursorStep(o, total, h)
<1>11. Cursor(o, total) = CHOOSE h : Solves(h)
  BY Zenon DEF Cursor, CursorStep
<1>12. Solves(CHOOSE h : Solves(h))
  BY <1>10, Zenon
<1> QED
  BY <1>11, <1>12

\* The cursor is no less than the ends before it, and has come from one of them.
LEMMA CursorFacts ==
  ASSUME NEW o \in Seq(Spans), NEW total \in Nat, \A i \in DOMAIN o : o[i].end <= total
  PROVE  /\ Cursor(o, total)[0] = 0
         /\ \A i \in 0 .. Len(o) : Cursor(o, total)[i] \in Nat
         /\ \A i \in 1 .. Len(o) :
              Cursor(o, total)[i] = Greatest(Cursor(o, total)[i - 1], o[i].end)
         /\ \A i \in 0 .. Len(o) : \A j \in 1 .. i : o[j].end <= Cursor(o, total)[i]
<1> DEFINE n == Len(o)
           c == Cursor(o, total)
           S == {d \in Nat : c[d] \in Nat /\ \A j \in 1 .. d : o[j].end <= c[d]}
<1>1. n \in Nat /\ DOMAIN o = 1 .. n /\ \A i \in 1 .. n : o[i] \in Spans
  OBVIOUS
<1>2. c = [i \in 0 .. n |-> IF i = 0 THEN 0 ELSE Greatest(c[i - 1], Least(total, o[i].end))]
  BY CursorUnfolds, Zenon DEF CursorStep
<1> HIDE DEF c, n
<1>3. c[0] = 0
  BY <1>1, <1>2
<1>4. ASSUME NEW i \in 1 .. n PROVE c[i] = Greatest(c[i - 1], o[i].end)
  <2>1. c[i] = Greatest(c[i - 1], Least(total, o[i].end))
    <3>1. i \in 0 .. n /\ i # 0
      BY <1>1
    <3> QED
      BY <1>2, <3>1
  <2>2. Least(total, o[i].end) = o[i].end
    BY <1>1 DEF Least, Spans
  <2> QED
    BY <2>1, <2>2
<1>5. 0 \in S
  BY <1>3
<1>6. ASSUME NEW d \in 0 .. n - 1, d \in S PROVE d + 1 \in S
  <2>1. d + 1 \in 1 .. n /\ (d + 1) - 1 = d /\ d + 1 \in Nat /\ d \in Nat
    BY <1>1
  <2>2. c[d + 1] = Greatest(c[d], o[d + 1].end)
    BY <1>4, <2>1
  <2>3. o[d + 1].end \in Nat /\ c[d] \in Nat
    BY <1>1, <1>6, <2>1 DEF Spans
  <2>4. c[d + 1] \in Nat /\ c[d] <= c[d + 1] /\ o[d + 1].end <= c[d + 1]
    BY <2>2, <2>3 DEF Greatest
  <2>5. ASSUME NEW j \in 1 .. d + 1 PROVE o[j].end <= c[d + 1]
    <3>1. CASE j = d + 1
      BY <2>4, <3>1
    <3>2. CASE j # d + 1
      <4>1. j \in 1 .. d /\ j \in 1 .. n
        BY <1>1, <2>1, <3>2
      <4>2. o[j].end <= c[d] /\ o[j].end \in Nat
        BY <1>1, <1>6, <4>1 DEF Spans
      <4> QED
        BY <2>3, <2>4, <4>2
    <3> QED
      BY <3>1, <3>2
  <2> QED
    BY <2>1, <2>4, <2>5
<1>7. \A d \in 0 .. n : d \in S
  <2> HIDE DEF S
  <2> QED
    BY <1>1, <1>5, <1>6, Reaches
<1> QED
  BY <1>3, <1>4, <1>7 DEF c, n

\* _gap_ranges finds a gap exactly if some sector of the map is in no extent, when none
\* goes beyond the map.
LEMMA GapsExact ==
  ASSUME NEW s \in Seq(Spans), NEW total \in Nat, \A i \in DOMAIN s : s[i].end <= total
  PROVE  Gaps(s, total) <=>
           \E x \in 0 .. total - 1 : \A i \in DOMAIN s : ~(s[i].start <= x /\ x < s[i].end)
<1> DEFINE o == InOrder(s)
           n == Len(s)
           c == Cursor(o, total)
           In(x, i) == o[i].start <= x /\ x < o[i].end
<1>1. PICK at \in [1 .. n -> 1 .. n] :
        /\ \A k \in 1 .. n : o[k] = s[at[k]]
        /\ \A i \in 1 .. n : \E k \in 1 .. n : at[k] = i
        /\ \A k, l \in 1 .. n : k < l => o[k].start <= o[l].start
  BY SortedFacts
<1>2. /\ n \in Nat /\ DOMAIN s = 1 .. n /\ DOMAIN o = 1 .. n /\ Len(o) = n /\ o \in Seq(Spans)
      /\ \A k \in 1 .. n : o[k] \in Spans
  BY SortedFacts
<1>3. Gaps(s, total) <=> \/ \E i \in 1 .. n : Greatest(0, o[i].start) > c[i - 1]
                         \/ c[n] < total
  BY <1>2, Zenon DEF Gaps
<1> HIDE DEF o, n
<1>4. \A k \in 1 .. n :
        /\ o[k].end <= total /\ o[k].end \in Nat /\ o[k].start \in Nat
        /\ o[k].start < o[k].end
  BY <1>1, <1>2 DEF Spans
<1>5. /\ c[0] = 0
      /\ \A i \in 0 .. n : c[i] \in Nat
      /\ \A i \in 1 .. n : c[i] = Greatest(c[i - 1], o[i].end)
      /\ \A i \in 0 .. n : \A j \in 1 .. i : o[j].end <= c[i]
  BY <1>2, <1>4, CursorFacts
<1> HIDE DEF c
<1>6. (\E x \in 0 .. total - 1 : \A i \in DOMAIN s : ~(s[i].start <= x /\ x < s[i].end))
      <=> \E x \in 0 .. total - 1 : \A k \in 1 .. n : ~In(x, k)
  <2>1. ASSUME NEW x, NEW i \in 1 .. n, s[i].start <= x /\ x < s[i].end
        PROVE  \E k \in 1 .. n : In(x, k)
    <3>1. PICK k \in 1 .. n : at[k] = i
      BY <1>1
    <3>2. o[k] = s[i]
      BY <1>1, <3>1
    <3> QED
      BY <2>1, <3>2
  <2>2. ASSUME NEW x, NEW k \in 1 .. n, In(x, k)
        PROVE  \E i \in 1 .. n : s[i].start <= x /\ x < s[i].end
    <3>1. at[k] \in 1 .. n /\ o[k] = s[at[k]]
      BY <1>1
    <3> QED
      BY <2>2, <3>1
  <2> HIDE DEF In
  <2> QED
    BY <1>2, <2>1, <2>2
<1>7. ASSUME NEW i \in 1 .. n, Greatest(0, o[i].start) > c[i - 1]
      PROVE  \E x \in 0 .. total - 1 : \A k \in 1 .. n : ~In(x, k)
  <2>1. i - 1 \in 0 .. n /\ i \in Nat
    BY <1>2
  <2>2. PICK x \in Nat : x = c[i - 1]
    BY <1>5, <2>1
  <2>3. x < o[i].start /\ x \in 0 .. total - 1
    BY <1>4, <1>7, <2>2 DEF Greatest
  <2>4. ASSUME NEW k \in 1 .. n PROVE ~In(x, k)
    <3>1. CASE k < i
      <4>1. k \in 1 .. i - 1
        BY <1>2, <2>1, <3>1
      <4>2. o[k].end <= x
        BY <1>5, <2>1, <2>2, <4>1
      <4> QED
        BY <1>4, <4>2
    <3>2. CASE k >= i
      <4>1. o[i].start <= o[k].start
        <5>1. k = i \/ i < k
          BY <1>2, <2>1, <3>2
        <5>2. i < k => o[i].start <= o[k].start
          BY <1>1
        <5>3. o[i].start \in Nat
          BY <1>4
        <5> QED
          BY <5>1, <5>2, <5>3
      <4> QED
        BY <1>4, <2>3, <4>1
    <3> QED
      BY <1>2, <3>1, <3>2
  <2> HIDE DEF In
  <2> QED
    BY <2>3, <2>4
<1>8. ASSUME c[n] < total
      PROVE  \E x \in 0 .. total - 1 : \A k \in 1 .. n : ~In(x, k)
  <2>1. n \in 0 .. n
    BY <1>2
  <2>2. PICK x \in Nat : x = c[n]
    BY <1>5, <2>1
  <2>3. x \in 0 .. total - 1
    BY <1>8, <2>2
  <2>4. ASSUME NEW k \in 1 .. n PROVE ~In(x, k)
    <3>1. o[k].end <= x
      BY <1>5, <2>1, <2>2
    <3> QED
      BY <1>4, <3>1
  <2> HIDE DEF In
  <2> QED
    BY <2>3, <2>4
<1>9. ASSUME \A i \in 1 .. n : ~(Greatest(0, o[i].start) > c[i - 1]), ~(c[n] < total),
             NEW x \in 0 .. total - 1
      PROVE  \E k \in 1 .. n : In(x, k)
  <2> DEFINE S == {d \in Nat : x < c[d] => \E k \in 1 .. d : In(x, k)}
  <2>1. 0 \in S
    BY <1>5
  <2>2. ASSUME NEW d \in 0 .. n - 1, d \in S PROVE d + 1 \in S
    <3>1. d + 1 \in 1 .. n /\ (d + 1) - 1 = d /\ d \in 0 .. n /\ d + 1 \in Nat /\ d \in Nat
      BY <1>2
    <3>2. c[d + 1] = Greatest(c[d], o[d + 1].end) /\ c[d] \in Nat
      BY <1>5, <3>1
    <3>3. o[d + 1].start <= c[d]
      <4>1. ~(Greatest(0, o[d + 1].start) > c[d])
        BY <1>9, <3>1
      <4> QED
        BY <1>4, <3>1, <3>2, <4>1 DEF Greatest
    <3>4. ASSUME x < c[d + 1] PROVE \E k \in 1 .. d + 1 : In(x, k)
      <4>1. CASE x < c[d]
        <5>1. PICK k \in 1 .. d : In(x, k)
          BY <2>2, <4>1
        <5>2. k \in 1 .. d + 1
          BY <3>1
        <5> QED
          BY <5>1, <5>2
      <4>2. CASE ~(x < c[d])
        <5>1. x < o[d + 1].end
          BY <1>4, <3>1, <3>2, <3>4, <4>2 DEF Greatest
        <5>2. o[d + 1].start <= x
          BY <1>4, <3>1, <3>2, <3>3, <4>2
        <5>3. d + 1 \in 1 .. d + 1
          BY <3>1
        <5> QED
          BY <5>1, <5>2, <5>3
      <4> QED
        BY <4>1, <4>2
    <3> HIDE DEF In
    <3> QED
      BY <3>1, <3>4
  <2>3. n \in S
    <3> HIDE DEF S
    <3>1. \A d \in 0 .. n : d \in S
      BY <1>2, <2>1, <2>2, Reaches
    <3> QED
      BY <1>2, <3>1
  <2>4. x < c[n]
    BY <1>2, <1>5, <1>9
  <2> HIDE DEF In
  <2> QED
    BY <2>3, <2>4
<1> HIDE DEF In
<1> QED
  BY <1>3, <1>6, <1>7, <1>8, <1>9

-----------------------------------------------------------------------------
(* The report                                                               *)

SizeCodes ==
  {"dat_unaligned", "dat_short", "dat_oversized", "map_exceeds_dat", "map_exceeds_dsc"}

ScanCodes ==
  {"used_out_of_range", "used_overlap", "free_overlap", "free_used_overlap", "unaccounted"}

\* Every extent has a sector; the map and the root are used, and so is every directory
\* that has been met.
Surveyed ==
  /\ used \in Seq(Spans) /\ free \in Seq(Spans)
  /\ \A v \in visited : \E i \in DOMAIN used : used[i].start = v
  /\ vpc # "stopped" =>
       /\ {1, 2} \subseteq DOMAIN used
       /\ used[1] = Extent(0, MapSectors) /\ used[2] = Extent(Root, DirSectors)

\* What the reading of the sizes, of the free list and of the tree has found so far.
FoundInReading ==
  vpc \in {"free", "walk", "scan", "reported"} =>
    /\ fatal \cap SizeCodes = {} <=> SizesAgree
    /\ "free_out_of_range" \in fatal <=> \E i \in DOMAIN free : OutOfFreeRange(free[i])
    /\ "cycle" \in fatal =>
         \E i, j \in DOMAIN used : i # j /\ used[i].start = used[j].start
    /\ fatal \subseteq SizeCodes \cup ScanCodes
                       \cup {"structure", "unread", "free_out_of_range", "cycle"}

\* What the scans have found.
FoundInScans ==
  /\ vpc \in {"free", "walk", "scan"} => fatal \cap ScanCodes = {}
  /\ vpc = "reported" =>
       /\ "used_out_of_range" \in fatal <=> \E x \in Elements(used) : OutOfUsedRange(x)
       /\ "used_overlap" \in fatal <=> Overlaps(used)
       /\ "free_overlap" \in fatal <=> Overlaps(free)
       /\ "free_used_overlap" \in fatal <=> CrossOverlaps(used, free)
       /\ "unaccounted" \in fatal <=> Gaps(used \o free, sizes.adfs)

ReportInv ==
  /\ sizes \in Sizes /\ Surveyed /\ FoundInReading /\ FoundInScans
  /\ vpc = "sizes" => fatal = {} /\ free = <<>>

\* An extent of some sectors is a span.
LEMMA ExtentIsSpan ==
  ASSUME NEW a \in Nat, NEW n \in Nat \ {0}
  PROVE  Extent(a, n) \in Spans /\ Extent(a, n).start = a /\ Extent(a, n).end = a + n
BY DEF Extent, Spans

\* What was at a place stays there when an extent is appended.
LEMMA AppendedSpan ==
  ASSUME NEW s \in Seq(Spans), NEW e \in Spans, NEW t, t = Append(s, e)
  PROVE  /\ t \in Seq(Spans) /\ DOMAIN s \subseteq DOMAIN t
         /\ Len(s) + 1 \in DOMAIN t /\ t[Len(s) + 1] = e /\ Len(s) + 1 \notin DOMAIN s
         /\ \A i \in DOMAIN s : t[i] = s[i]
         /\ \A i \in DOMAIN t : i \in DOMAIN s \/ i = Len(s) + 1
<1>1. Len(s) \in Nat /\ t \in Seq(Spans) /\ Len(t) = Len(s) + 1 /\ DOMAIN s = 1 .. Len(s)
      /\ DOMAIN t = 1 .. Len(s) + 1
  OBVIOUS
<1>2. t[Len(s) + 1] = e /\ \A i \in 1 .. Len(s) : t[i] = s[i]
  OBVIOUS
<1> QED
  BY <1>1, <1>2

\* The first state satisfies the invariant.
LEMMA ReportInitInv == ValidationInit => ReportInv
<1> SUFFICES ASSUME ValidationInit PROVE ReportInv
  OBVIOUS
<1>1. MapSectors \in Nat \ {0} /\ DirSectors \in Nat \ {0} /\ 0 \in Nat
  BY ValidationAssumption
<1>2. Extent(0, MapSectors) \in Spans /\ Extent(Root, DirSectors) \in Spans
      /\ Extent(Root, DirSectors).start = Root
  BY <1>1, ExtentIsSpan DEF Root
<1>3. /\ used \in Seq(Spans) /\ free \in Seq(Spans) /\ Len(used) = 2 /\ DOMAIN used = {1, 2}
      /\ used[1] = Extent(0, MapSectors) /\ used[2] = Extent(Root, DirSectors)
  BY <1>2 DEF ValidationInit
<1>4. Surveyed
  <2>1. \A v \in visited : v = Root
    BY DEF ValidationInit
  <2> QED
    BY <1>2, <1>3, <2>1 DEF Surveyed
<1>5. FoundInReading /\ FoundInScans
  BY DEF ValidationInit, FoundInReading, FoundInScans
<1> QED
  BY <1>4, <1>5 DEF ValidationInit, ReportInv

\* The codes of the sizes are reported exactly if the sizes disagree.
LEMMA SizesInv ==
  ASSUME ReportInv, NEW sound \in BOOLEAN, ReadSizes(sound)
  PROVE  ReportInv'
<1>1. /\ vpc = "sizes" /\ vpc' = "free" /\ fatal = {} /\ free = <<>>
      /\ UNCHANGED <<sizes, used, free, visited>>
  BY DEF ReportInv, ReadSizes
<1>2. PICK t \in Nat, a \in Int, b \in Int, r \in BOOLEAN :
        /\ sizes = [adfs |-> t, dat |-> a, dsc |-> b, ragged |-> r]
        /\ a \in {t - 1, t, t + 1} /\ b \in {t - 1, t, t + 1}
  <2>1. PICK t \in Totals : sizes \in [adfs : {t}, dat : {t - 1, t, t + 1},
                                      dsc : {t - 1, t, t + 1}, ragged : BOOLEAN]
    BY DEF ReportInv, Sizes
  <2>2. t \in Nat
    BY ValidationAssumption
  <2> QED
    BY <2>1, <2>2
<1>3. /\ "dat_unaligned" \in fatal' <=> r
      /\ "dat_short" \in fatal' <=> DatShort /\ ~MissingTail
      /\ "dat_oversized" \in fatal' <=> DatOversized
      /\ "map_exceeds_dat" \in fatal' <=> t > a
      /\ "map_exceeds_dsc" \in fatal' <=> t > b
  BY <1>2 DEF ReadSizes, Code
<1>4. fatal' \subseteq SizeCodes \cup {"structure"}
  BY DEF ReadSizes, Code, SizeCodes
<1>5. /\ DatShort <=> a < b
      /\ MissingTail <=> ~r /\ a = t /\ t < b
      /\ DatOversized <=> a > b \/ (a = b /\ r)
      /\ SizesAgree <=> ~r /\ t <= a /\ t <= b /\ (a = t \/ a = b) /\ a <= b
  BY <1>2 DEF DatShort, MissingTail, DatOversized, SizesAgree
<1>6. SizesAgree <=>
        ~r /\ ~(DatShort /\ ~MissingTail) /\ ~DatOversized /\ ~(t > a) /\ ~(t > b)
  BY <1>2, <1>5
<1>7. fatal' \cap SizeCodes = {} <=> SizesAgree
  BY <1>3, <1>6 DEF SizeCodes
<1>8. SizesAgree' <=> SizesAgree
  BY <1>1 DEF SizesAgree
<1>9. Surveyed'
  BY <1>1 DEF ReportInv, Surveyed
<1>10. FoundInReading'
  <2>1. DOMAIN free' = {}
    BY <1>1
  <2>2. "free_out_of_range" \notin fatal' /\ "cycle" \notin fatal'
    BY <1>4 DEF SizeCodes
  <2> QED
    BY <1>4, <1>7, <1>8, <2>1, <2>2 DEF FoundInReading
<1>11. FoundInScans'
  BY <1>1, <1>4 DEF FoundInScans, SizeCodes, ScanCodes
<1> QED
  BY <1>1, <1>9, <1>10, <1>11 DEF ReportInv

\* A report of one finding has no extents to be exact about.
LEMMA ShortInv == ASSUME ReportInv, ShortReport PROVE ReportInv'
<1>1. vpc' = "short" /\ UNCHANGED <<sizes, used, free, visited>> /\ vpc = "sizes"
  BY DEF ShortReport
<1>2. Surveyed' /\ FoundInReading' /\ FoundInScans'
  BY <1>1 DEF ReportInv, Surveyed, FoundInReading, FoundInScans
<1> QED
  BY <1>1, <1>2 DEF ReportInv

\* A free extent is reported when it is out of range, and only then.
LEMMA FreeEntryInv ==
  ASSUME ReportInv, NEW start \in 0 .. MaxStart,
         NEW length \in 0 .. MaxBytes \div SectorSize, ReadFreeEntry(start, length)
  PROVE  ReportInv'
<1>1. vpc = "free" /\ vpc' = "free" /\ UNCHANGED <<sizes, used, visited>>
  BY DEF ReadFreeEntry
<1>2. start \in Nat /\ length \in Nat
  BY ValidationAssumption, WholeSectors
<1>3. CASE length = 0
  <2>1. fatal' = fatal \cup {"unread"} /\ free' = free
    BY <1>3 DEF ReadFreeEntry
  <2>2. Surveyed'
    BY <1>1, <2>1 DEF ReportInv, Surveyed
  <2>3. FoundInReading'
    BY <1>1, <2>1 DEF ReportInv, FoundInReading, SizesAgree, OutOfFreeRange, SizeCodes
  <2>4. FoundInScans'
    BY <1>1, <2>1 DEF ReportInv, FoundInScans, ScanCodes
  <2> QED
    BY <1>1, <2>2, <2>3, <2>4 DEF ReportInv
<1>4. CASE length # 0
  <2> DEFINE e == Extent(start, length)
  <2>1. /\ free' = Append(free, e)
        /\ fatal' = fatal \cup (IF OutOfFreeRange(e) THEN {"free_out_of_range"} ELSE {})
    BY <1>4 DEF ReadFreeEntry, Code
  <2>2. e \in Spans /\ free \in Seq(Spans)
    BY <1>2, <1>4, ExtentIsSpan DEF ReportInv, Surveyed
  <2> HIDE DEF e
  <2>3. /\ free' \in Seq(Spans) /\ DOMAIN free \subseteq DOMAIN free'
        /\ Len(free) + 1 \in DOMAIN free' /\ free'[Len(free) + 1] = e
        /\ \A i \in DOMAIN free : free'[i] = free[i]
        /\ \A i \in DOMAIN free' : i \in DOMAIN free \/ i = Len(free) + 1
    BY <2>1, <2>2, AppendedSpan
  <2>5. (\E i \in DOMAIN free' : OutOfFreeRange(free'[i])) <=>
          (\E i \in DOMAIN free : OutOfFreeRange(free[i])) \/ OutOfFreeRange(e)
    BY <2>3
  <2>6. Surveyed'
    BY <1>1, <2>3 DEF ReportInv, Surveyed
  <2>7. FoundInReading
    BY DEF ReportInv
  <2>8. FoundInReading'
    <3>1. fatal' \cap SizeCodes = {} <=> SizesAgree'
      BY <1>1, <2>1, <2>7 DEF FoundInReading, SizesAgree, SizeCodes
    <3>2. "free_out_of_range" \in fatal' <=> \E i \in DOMAIN free' : OutOfFreeRange(free'[i])
      BY <1>1, <2>1, <2>5, <2>7 DEF FoundInReading
    <3>3. (\E i \in DOMAIN free : OutOfFreeRange(free[i]))' <=>
            \E i \in DOMAIN free' : OutOfFreeRange(free'[i])
      BY <1>1 DEF OutOfFreeRange
    <3> QED
      BY <1>1, <2>1, <2>7, <3>1, <3>2, <3>3 DEF FoundInReading
  <2>9. FoundInScans'
    BY <1>1, <2>1 DEF ReportInv, FoundInScans, ScanCodes
  <2> QED
    BY <1>1, <2>6, <2>8, <2>9 DEF ReportInv
<1> QED
  BY <1>3, <1>4

\* A step that changes neither the extents nor the sizes and adds only "unread".
LEMMA OtherReadingInv ==
  ASSUME ReportInv, UNCHANGED <<sizes, used, free, visited>>,
         fatal' \in {fatal, fatal \cup {"unread"}},
         vpc \in {"free", "walk"}, vpc' \in {"walk", "scan"}
  PROVE  ReportInv'
<1>1. Surveyed'
  BY DEF ReportInv, Surveyed
<1>2. FoundInReading'
  BY DEF ReportInv, FoundInReading, SizesAgree, OutOfFreeRange, SizeCodes
<1>3. FoundInScans'
  BY DEF ReportInv, FoundInScans, ScanCodes
<1> QED
  BY <1>1, <1>2, <1>3 DEF ReportInv

\* A file's sectors, if it has any, join those in use.
LEMMA FileInv ==
  ASSUME ReportInv, NEW start \in 0 .. MaxStart, NEW bytes \in 0 .. MaxBytes,
         WalkFile(start, bytes)
  PROVE  ReportInv'
<1>1. vpc = "walk" /\ vpc' = "walk" /\ UNCHANGED <<sizes, free, visited, fatal>>
  BY DEF WalkFile
<1>2. start \in Nat /\ Sectors(bytes) \in Nat
  BY ValidationAssumption, SectorsKeepOrder
<1>3. used \in Seq(Spans) /\ used' \in Seq(Spans) /\ DOMAIN used \subseteq DOMAIN used'
      /\ \A i \in DOMAIN used : used'[i] = used[i]
  <2>1. used \in Seq(Spans)
    BY DEF ReportInv, Surveyed
  <2>2. CASE Sectors(bytes) = 0
    BY <2>1, <2>2 DEF WalkFile
  <2>3. CASE Sectors(bytes) # 0
    <3>1. Extent(start, Sectors(bytes)) \in Spans
      BY <1>2, <2>3, ExtentIsSpan
    <3>2. used' = Append(used, Extent(start, Sectors(bytes)))
      BY <2>3 DEF WalkFile
    <3> QED
      BY <2>1, <3>1, <3>2, AppendedSpan
  <2> QED
    BY <2>2, <2>3
<1>4. Surveyed'
  <2>1. ASSUME NEW v \in visited' PROVE \E i \in DOMAIN used' : used'[i].start = v
    <3>1. PICK i \in DOMAIN used : used[i].start = v
      BY <1>1, <2>1 DEF ReportInv, Surveyed
    <3>2. i \in DOMAIN used' /\ used'[i].start = v
      BY <1>3, <3>1
    <3> QED
      BY <3>2
  <2> QED
    BY <1>1, <1>3, <2>1 DEF ReportInv, Surveyed
<1>5. FoundInReading'
  <2>1. FoundInReading
    BY DEF ReportInv
  <2>2. ASSUME "cycle" \in fatal'
        PROVE  \E i, j \in DOMAIN used' : i # j /\ used'[i].start = used'[j].start
    <3>1. PICK i \in DOMAIN used, j \in DOMAIN used : i # j /\ used[i].start = used[j].start
      BY <1>1, <2>1, <2>2 DEF FoundInReading
    <3>2. i \in DOMAIN used' /\ j \in DOMAIN used' /\ used'[i].start = used'[j].start
      BY <1>3, <3>1
    <3> QED
      BY <3>1, <3>2
  <2> QED
    BY <1>1, <2>1, <2>2 DEF FoundInReading, SizesAgree, OutOfFreeRange
<1>6. FoundInScans'
  BY <1>1 DEF ReportInv, FoundInScans
<1> QED
  BY <1>1, <1>4, <1>5, <1>6 DEF ReportInv

\* A directory met again has an extent in the list already.
LEMMA DirectoryInv ==
  ASSUME ReportInv, NEW start \in 0 .. MaxStart, NEW readable \in BOOLEAN,
         WalkDirectory(start, readable)
  PROVE  ReportInv'
<1> DEFINE e == Extent(start, DirSectors)
<1>1. /\ vpc = "walk" /\ vpc' = "walk" /\ UNCHANGED <<sizes, free>>
      /\ used' = Append(used, e) /\ visited' = visited \cup {start}
  BY DEF WalkDirectory
<1>2. e \in Spans /\ e.start = start /\ used \in Seq(Spans)
  <2>1. start \in Nat /\ DirSectors \in Nat \ {0}
    BY ValidationAssumption
  <2> QED
    BY <2>1, ExtentIsSpan DEF ReportInv, Surveyed
<1> HIDE DEF e
<1>3. /\ used' \in Seq(Spans) /\ DOMAIN used \subseteq DOMAIN used'
      /\ Len(used) + 1 \in DOMAIN used' /\ used'[Len(used) + 1] = e
      /\ Len(used) + 1 \notin DOMAIN used
      /\ \A i \in DOMAIN used : used'[i] = used[i]
  BY <1>1, <1>2, AppendedSpan
<1>4. /\ start \notin visited => fatal' \in {fatal, fatal \cup {"unread"}}
      /\ start \in visited => fatal' = fatal \cup {"cycle"}
  BY DEF WalkDirectory, Code
<1>5. Surveyed'
  <2>1. ASSUME NEW v \in visited' PROVE \E i \in DOMAIN used' : used'[i].start = v
    <3>1. CASE v \in visited
      <4>1. PICK i \in DOMAIN used : used[i].start = v
        BY <3>1 DEF ReportInv, Surveyed
      <4>2. i \in DOMAIN used' /\ used'[i].start = v
        BY <1>3, <4>1
      <4> QED
        BY <4>2
    <3>2. CASE v = start
      BY <1>2, <1>3, <3>2
    <3> QED
      BY <1>1, <2>1, <3>1, <3>2
  <2> QED
    BY <1>1, <1>3, <2>1 DEF ReportInv, Surveyed
<1>6. FoundInReading'
  <2>1. FoundInReading
    BY DEF ReportInv
  <2>2. ASSUME "cycle" \in fatal'
        PROVE  \E i, j \in DOMAIN used' : i # j /\ used'[i].start = used'[j].start
    <3>1. CASE start \in visited
      <4>1. PICK i \in DOMAIN used : used[i].start = start
        BY <3>1 DEF ReportInv, Surveyed
      <4>2. /\ i \in DOMAIN used' /\ i # Len(used) + 1
            /\ used'[i].start = used'[Len(used) + 1].start
        BY <1>2, <1>3, <4>1
      <4> QED
        BY <1>3, <4>2
    <3>2. CASE start \notin visited
      <4>1. PICK i \in DOMAIN used, j \in DOMAIN used : i # j /\ used[i].start = used[j].start
        BY <1>1, <1>4, <2>1, <2>2, <3>2 DEF FoundInReading
      <4>2. i \in DOMAIN used' /\ j \in DOMAIN used' /\ used'[i].start = used'[j].start
        BY <1>3, <4>1
      <4> QED
        BY <4>1, <4>2
    <3> QED
      BY <3>1, <3>2
  <2>3. fatal' \in {fatal, fatal \cup {"unread"}, fatal \cup {"cycle"}}
    BY <1>4
  <2>4. fatal' \cap SizeCodes = {} <=> SizesAgree'
    BY <1>1, <2>1, <2>3 DEF FoundInReading, SizesAgree, SizeCodes
  <2> QED
    BY <1>1, <2>1, <2>2, <2>3, <2>4 DEF FoundInReading, OutOfFreeRange
<1>7. FoundInScans'
  BY <1>1, <1>4 DEF ReportInv, FoundInScans, ScanCodes
<1> QED
  BY <1>1, <1>5, <1>6, <1>7 DEF ReportInv

\* The scans add a code exactly for what they find.
LEMMA ScansInv == ASSUME ReportInv, ScanExtents PROVE ReportInv'
<1>1. vpc = "scan" /\ vpc' = "reported" /\ UNCHANGED <<sizes, used, free, visited>>
  BY DEF ScanExtents
<1> DEFINE A == \E x \in Elements(used) : OutOfUsedRange(x)
           B == Overlaps(used)
           C == Overlaps(free)
           D == CrossOverlaps(used, free)
           E == Gaps(used \o free, sizes.adfs)
<1>2. fatal' = fatal \cup Code(A, "used_out_of_range") \cup Code(B, "used_overlap")
                     \cup Code(C, "free_overlap") \cup Code(D, "free_used_overlap")
                     \cup Code(E, "unaccounted")
  BY DEF ScanExtents
<1>3. (A' <=> A) /\ (B' <=> B) /\ (C' <=> C) /\ (D' <=> D) /\ (E' <=> E)
  BY <1>1 DEF Elements, OutOfUsedRange
<1> HIDE DEF A, B, C, D, E
<1>4. fatal \cap ScanCodes = {}
  BY <1>1 DEF ReportInv, FoundInScans
<1>5. /\ "used_out_of_range" \in fatal' <=> A
      /\ "used_overlap" \in fatal' <=> B
      /\ "free_overlap" \in fatal' <=> C
      /\ "free_used_overlap" \in fatal' <=> D
      /\ "unaccounted" \in fatal' <=> E
  BY <1>2, <1>4 DEF Code, ScanCodes
<1>6. fatal' \subseteq fatal \cup ScanCodes /\ fatal \subseteq fatal'
  BY <1>2 DEF Code, ScanCodes
<1>7. Surveyed'
  BY <1>1 DEF ReportInv, Surveyed
<1>8. FoundInReading'
  BY <1>1, <1>6 DEF ReportInv, FoundInReading, SizesAgree, OutOfFreeRange, SizeCodes, ScanCodes
<1>9. FoundInScans'
  <2>1. vpc' # "free" /\ vpc' # "walk" /\ vpc' # "scan"
    BY <1>1
  <2> QED
    BY <1>3, <1>5, <2>1 DEF FoundInScans, A, B, C, D, E
<1> QED
  BY <1>1, <1>7, <1>8, <1>9 DEF ReportInv

\* Every step keeps the invariant.
LEMMA ReportStepInv == ReportInv /\ [ValidationNext]_validationVars => ReportInv'
<1> SUFFICES ASSUME ReportInv, [ValidationNext]_validationVars PROVE ReportInv'
  OBVIOUS
<1>1. ASSUME EndFree PROVE ReportInv'
  <2>1. /\ UNCHANGED <<sizes, used, free, visited>> /\ vpc = "free" /\ vpc' = "walk"
        /\ fatal' \in {fatal, fatal \cup {"unread"}}
    BY <1>1 DEF EndFree
  <2> QED
    BY <2>1, OtherReadingInv
<1>2. ASSUME EndDirectory PROVE ReportInv'
  <2>1. /\ UNCHANGED <<sizes, used, free, visited, fatal>> /\ vpc = "walk"
        /\ vpc' \in {"walk", "scan"}
    BY <1>2 DEF EndDirectory
  <2> QED
    BY <2>1, OtherReadingInv
<1>3. ASSUME WalkFails PROVE ReportInv'
  <2>1. /\ UNCHANGED <<sizes, used, free, visited>> /\ vpc = "walk" /\ vpc' = "scan"
        /\ fatal' = fatal \cup {"unread"}
    BY <1>3 DEF WalkFails
  <2> QED
    BY <2>1, OtherReadingInv
<1>4. ASSUME StopValidation PROVE ReportInv'
  <2>1. /\ vpc' = "stopped" /\ used' = <<>> /\ free' = <<>> /\ visited' = {} /\ sizes' = sizes
        /\ vpc' # "sizes"
    BY <1>4 DEF StopValidation
  <2>2. used' \in Seq(Spans) /\ free' \in Seq(Spans)
    BY <2>1
  <2>3. Surveyed'
    BY <2>1, <2>2 DEF Surveyed
  <2>4. FoundInReading' /\ FoundInScans'
    BY <2>1 DEF FoundInReading, FoundInScans
  <2> QED
    BY <2>1, <2>3, <2>4 DEF ReportInv
<1>5. CASE UNCHANGED validationVars
  <2>1. Surveyed'
    BY <1>5 DEF ReportInv, Surveyed, validationVars
  <2>2. FoundInReading'
    BY <1>5 DEF ReportInv, FoundInReading, validationVars, SizesAgree, OutOfFreeRange
  <2>3. FoundInScans'
    BY <1>5 DEF ReportInv, FoundInScans, validationVars, Elements, OutOfUsedRange
  <2> QED
    BY <1>5, <2>1, <2>2, <2>3 DEF ReportInv, validationVars
<1> QED
  BY <1>1, <1>2, <1>3, <1>4, <1>5, SizesInv, ShortInv, FreeEntryInv, FileInv, DirectoryInv,
     ScansInv
  DEF ValidationNext

\* The extents are spans, and the findings are those of what has been read.
THEOREM ReportInvariance == ValidationSpec => []ReportInv
BY ReportInitInv, ReportStepInv, PTL DEF ValidationSpec

\* Two lists share nothing, in themselves or with each other, exactly if their
\* concatenation shares nothing.
LEMMA ApartTogether ==
  ASSUME NEW us \in Seq(Spans), NEW fs \in Seq(Spans)
  PROVE  Apart(us \o fs) <=>
           /\ Apart(us) /\ Apart(fs)
           /\ ~\E i \in DOMAIN us, j \in DOMAIN fs : Meet(us[i], fs[j])
<1> DEFINE es == us \o fs
           n == Len(us)
           k == Len(fs)
<1>1. /\ n \in Nat /\ k \in Nat /\ DOMAIN us = 1 .. n /\ DOMAIN fs = 1 .. k
      /\ DOMAIN es = 1 .. n + k
  OBVIOUS
<1>2. /\ \A i \in 1 .. n : es[i] = us[i]
      /\ \A j \in 1 .. k : es[n + j] = fs[j]
  OBVIOUS
<1>3. \A x, y : Meet(x, y) <=> Meet(y, x)
  BY DEF Meet
<1> HIDE DEF es, n, k
<1>4. \A i \in 1 .. n + k : i \in 1 .. n \/ \E j \in 1 .. k : i = n + j
  <2>1. ASSUME NEW i \in 1 .. n + k, i \notin 1 .. n PROVE i - n \in 1 .. k /\ i = n + (i - n)
    BY <1>1, <2>1
  <2> QED
    BY <2>1
<1>5. ASSUME Apart(es)
      PROVE  /\ Apart(us) /\ Apart(fs)
             /\ ~\E i \in DOMAIN us, j \in DOMAIN fs : Meet(us[i], fs[j])
  <2>1. ASSUME NEW i \in 1 .. n, NEW j \in 1 .. n, i # j PROVE ~Meet(us[i], us[j])
    <3>1. i \in 1 .. n + k /\ j \in 1 .. n + k
      BY <1>1
    <3> QED
      BY <1>1, <1>2, <1>5, <2>1, <3>1 DEF Apart
  <2>2. ASSUME NEW i \in 1 .. k, NEW j \in 1 .. k, i # j PROVE ~Meet(fs[i], fs[j])
    <3>1. n + i \in 1 .. n + k /\ n + j \in 1 .. n + k /\ n + i # n + j
      BY <1>1, <2>2
    <3> QED
      BY <1>1, <1>2, <1>5, <3>1 DEF Apart
  <2>3. ASSUME NEW i \in 1 .. n, NEW j \in 1 .. k PROVE ~Meet(us[i], fs[j])
    <3>1. i \in 1 .. n + k /\ n + j \in 1 .. n + k /\ i # n + j
      BY <1>1
    <3> QED
      BY <1>1, <1>2, <1>5, <3>1 DEF Apart
  <2> QED
    BY <1>1, <2>1, <2>2, <2>3 DEF Apart
<1>6. ASSUME Apart(us), Apart(fs),
             \A i \in 1 .. n, j \in 1 .. k : ~Meet(us[i], fs[j])
      PROVE  Apart(es)
  <2> SUFFICES ASSUME NEW i \in 1 .. n + k, NEW j \in 1 .. n + k, i # j
               PROVE  ~Meet(es[i], es[j])
    BY <1>1 DEF Apart
  <2>1. CASE i \in 1 .. n /\ j \in 1 .. n
    BY <1>1, <1>2, <1>6, <2>1 DEF Apart
  <2>2. CASE i \in 1 .. n /\ j \notin 1 .. n
    BY <1>2, <1>4, <1>6, <2>2
  <2>3. CASE i \notin 1 .. n /\ j \in 1 .. n
    BY <1>2, <1>3, <1>4, <1>6, <2>3
  <2>4. CASE i \notin 1 .. n /\ j \notin 1 .. n
    <3>1. PICK a \in 1 .. k : i = n + a
      BY <1>4, <2>4
    <3>2. PICK b \in 1 .. k : j = n + b
      BY <1>4, <2>4
    <3>3. a # b
      BY <3>1, <3>2
    <3> QED
      BY <1>1, <1>2, <1>6, <3>1, <3>2, <3>3 DEF Apart
  <2> QED
    BY <2>1, <2>2, <2>3, <2>4
<1> QED
  BY <1>1, <1>5, <1>6 DEF es

\* Every sector has one owner exactly if the extents share none, leave none out and stay
\* within the map.
LEMMA PartitionedIsApart ==
  ASSUME used \o free \in Seq(Spans), sizes.adfs \in Nat
  PROVE  Partitioned <=>
           /\ Apart(used \o free)
           /\ ~\E x \in 0 .. sizes.adfs - 1 : \A i \in DOMAIN (used \o free) :
                 ~((used \o free)[i].start <= x /\ x < (used \o free)[i].end)
           /\ \A i \in DOMAIN (used \o free) : (used \o free)[i].end <= sizes.adfs
<1> DEFINE es == used \o free
           total == sizes.adfs
<1>1. /\ \A x : Owners(x) = {i \in DOMAIN es : es[i].start <= x /\ x < es[i].end}
      /\ \A i \in DOMAIN es : es[i] \in Spans
      /\ total \in Nat
  BY DEF Owners
<1>2. Partitioned <=> /\ \A x \in 0 .. total - 1 : \E i \in Owners(x) : Owners(x) = {i}
                      /\ \A i \in DOMAIN es : es[i].end <= total
  BY DEF Partitioned, Elements
<1> HIDE DEF es, total
<1>3. ASSUME \A x \in 0 .. total - 1 : \E i \in Owners(x) : Owners(x) = {i},
             \A i \in DOMAIN es : es[i].end <= total
      PROVE  Apart(es)
  <2> SUFFICES ASSUME NEW i \in DOMAIN es, NEW j \in DOMAIN es, i # j, Meet(es[i], es[j])
               PROVE  FALSE
    BY DEF Apart
  <2>1. PICK x \in Nat : x = Greatest(es[i].start, es[j].start)
    <3>1. es[i].start \in Nat /\ es[j].start \in Nat
      BY <1>1 DEF Spans
    <3> QED
      BY <3>1 DEF Greatest
  <2>2. es[i].start <= x /\ x < es[i].end /\ es[j].start <= x /\ x < es[j].end
    <3>1. es[i] \in Spans /\ es[j] \in Spans
      BY <1>1
    <3> QED
      BY <2>1, <3>1 DEF Spans, Meet, Greatest
  <2>3. x \in 0 .. total - 1
    <3>1. es[i].end <= total /\ es[i].end \in Nat
      BY <1>1, <1>3 DEF Spans
    <3> QED
      BY <1>1, <2>2, <3>1
  <2>4. i \in Owners(x) /\ j \in Owners(x)
    BY <1>1, <2>2
  <2> QED
    BY <1>3, <2>3, <2>4
<1>4. ASSUME Apart(es), NEW x \in 0 .. total - 1, NEW i \in DOMAIN es,
             es[i].start <= x, x < es[i].end
      PROVE  i \in Owners(x) /\ Owners(x) = {i}
  <2>1. ASSUME NEW j \in Owners(x) PROVE j = i
    <3>1. j \in DOMAIN es /\ es[j].start <= x /\ x < es[j].end
      BY <1>1
    <3>2. es[i] \in Spans /\ es[j] \in Spans /\ x \in Int
      BY <1>1, <3>1
    <3>3. Meet(es[i], es[j])
      BY <1>4, <3>1, <3>2 DEF Meet, Spans
    <3> QED
      BY <1>4, <3>1, <3>3 DEF Apart
  <2>2. i \in Owners(x)
    BY <1>1, <1>4
  <2> QED
    BY <2>1, <2>2
<1>5. ASSUME \A x \in 0 .. total - 1 : \E i \in Owners(x) : Owners(x) = {i},
             NEW x \in 0 .. total - 1
      PROVE  \E i \in DOMAIN es : es[i].start <= x /\ x < es[i].end
  BY <1>1, <1>5
<1>6. ASSUME Apart(es), NEW x \in 0 .. total - 1,
             \E i \in DOMAIN es : es[i].start <= x /\ x < es[i].end
      PROVE  \E i \in Owners(x) : Owners(x) = {i}
  BY <1>4, <1>6
<1> QED
  BY <1>2, <1>3, <1>5, <1>6 DEF es, total

\* A report without a fatal finding is one of a disc whose sectors have one owner each,
\* and the other way round: the scans decide it once the extents are within the map.
LEMMA ReportDecides == ReportInv => ReportIsExact
<1> SUFFICES ASSUME ReportInv, vpc = "reported"
             PROVE  SafeForWrite <=> /\ Partitioned /\ SizesAgree
                                     /\ fatal \cap {"structure", "unread"} = {}
  BY DEF ReportIsExact
<1> DEFINE es == used \o free
           total == sizes.adfs
           n == Len(used)
           k == Len(free)
           Covered == ~\E x \in 0 .. total - 1 : \A i \in DOMAIN es :
                          ~(es[i].start <= x /\ x < es[i].end)
           Within == \A i \in DOMAIN es : es[i].end <= total
           Cross == \E i \in DOMAIN used, j \in DOMAIN free : Meet(used[i], free[j])
<1>1. /\ used \in Seq(Spans) /\ free \in Seq(Spans) /\ es \in Seq(Spans)
      /\ n \in Nat /\ k \in Nat /\ DOMAIN used = 1 .. n /\ DOMAIN free = 1 .. k
      /\ DOMAIN es = 1 .. n + k
  BY DEF ReportInv, Surveyed
<1>2. total \in Nat
  <2>1. sizes.adfs \in Totals
    BY DEF ReportInv, Sizes
  <2> QED
    BY <2>1, ValidationAssumption
<1>3. /\ \A i \in 1 .. n : es[i] = used[i] /\ used[i] \in Spans
      /\ \A j \in 1 .. k : es[n + j] = free[j] /\ free[j] \in Spans
  BY <1>1
<1>4. Partitioned <=> Apart(es) /\ Covered /\ Within
  BY <1>1, <1>2, PartitionedIsApart
<1>5. Apart(es) <=> Apart(used) /\ Apart(free) /\ ~Cross
  BY <1>1, ApartTogether
<1>6. /\ Overlaps(used) <=> ~Apart(used)
      /\ Overlaps(free) <=> ~Apart(free)
  BY <1>1, OverlapsExact
<1>7. ASSUME Apart(used), Apart(free) PROVE CrossOverlaps(used, free) <=> Cross
  BY <1>1, <1>7, CrossOverlapsExact
<1>8. ASSUME Within PROVE Gaps(es, total) <=> ~Covered
  BY <1>1, <1>2, <1>8, GapsExact
<1>9. Within <=> /\ \A i \in 1 .. n : used[i].end <= total
                 /\ \A j \in 1 .. k : free[j].end <= total
  <2>1. ASSUME NEW i \in 1 .. n PROVE i \in DOMAIN es
    BY <1>1
  <2>2. ASSUME NEW j \in 1 .. k PROVE n + j \in DOMAIN es
    BY <1>1
  <2>3. \A i \in DOMAIN es : i \in 1 .. n \/ \E j \in 1 .. k : i = n + j
    <3>1. ASSUME NEW i \in 1 .. n + k, i \notin 1 .. n
          PROVE  i - n \in 1 .. k /\ i = n + (i - n)
      BY <1>1, <3>1
    <3> QED
      BY <1>1, <3>1
  <2> HIDE DEF es, total, n, k
  <2> QED
    BY <1>3, <2>1, <2>2, <2>3
<1>10. (\E x \in Elements(used) : OutOfUsedRange(x)) <=> ~\A i \in 1 .. n : used[i].end <= total
  <2>1. ASSUME NEW i \in 1 .. n PROVE OutOfUsedRange(used[i]) <=> ~(used[i].end <= total)
    <3>1. used[i] \in Spans
      BY <1>3
    <3> QED
      BY <1>2, <3>1 DEF OutOfUsedRange, Spans
  <2> QED
    BY <1>1, <2>1 DEF Elements
<1>11. /\ fatal \cap SizeCodes = {} <=> SizesAgree
       /\ "free_out_of_range" \in fatal <=> \E i \in DOMAIN free : OutOfFreeRange(free[i])
       /\ "cycle" \in fatal =>
            \E i, j \in DOMAIN used : i # j /\ used[i].start = used[j].start
       /\ fatal \subseteq SizeCodes \cup ScanCodes
                          \cup {"structure", "unread", "free_out_of_range", "cycle"}
  BY DEF ReportInv, FoundInReading
<1>12. /\ "used_out_of_range" \in fatal <=> \E x \in Elements(used) : OutOfUsedRange(x)
       /\ "used_overlap" \in fatal <=> Overlaps(used)
       /\ "free_overlap" \in fatal <=> Overlaps(free)
       /\ "free_used_overlap" \in fatal <=> CrossOverlaps(used, free)
       /\ "unaccounted" \in fatal <=> Gaps(es, total)
  BY DEF ReportInv, FoundInScans
<1>13. ASSUME fatal = {} PROVE Partitioned /\ SizesAgree
  <2>1. \A j \in 1 .. k : free[j].end <= total
    <3>1. ASSUME NEW j \in 1 .. k PROVE ~OutOfFreeRange(free[j]) /\ free[j].end \in Nat
      BY <1>1, <1>3, <1>11, <1>13 DEF Spans
    <3> QED
      BY <1>2, <3>1 DEF OutOfFreeRange
  <2>2. Within
    <3>1. \A i \in 1 .. n : used[i].end <= total
      BY <1>10, <1>12, <1>13
    <3> QED
      BY <1>9, <2>1, <3>1
  <2>3. Apart(used) /\ Apart(free) /\ ~CrossOverlaps(used, free) /\ ~Gaps(es, total)
    BY <1>6, <1>12, <1>13
  <2> HIDE DEF es, total, Within, Covered, Cross
  <2>4. ~Cross /\ Covered
    BY <1>7, <1>8, <2>2, <2>3
  <2>5. SizesAgree
    BY <1>11, <1>13
  <2> QED
    BY <1>4, <1>5, <2>2, <2>3, <2>4, <2>5
<1>14. ASSUME Partitioned, SizesAgree, fatal \cap {"structure", "unread"} = {}
       PROVE  fatal = {}
  <2>1. Apart(used) /\ Apart(free) /\ ~Cross /\ Covered /\ Within
    <3> HIDE DEF es, total, Within, Covered, Cross
    <3> QED
      BY <1>4, <1>5, <1>14
  <2>2. fatal \cap ScanCodes = {}
    <3>1. ~CrossOverlaps(used, free) /\ ~Gaps(es, total)
      <4> HIDE DEF es, total, Within, Covered, Cross
      <4> QED
        BY <1>7, <1>8, <2>1
    <3>2. \A i \in 1 .. n : used[i].end <= total
      BY <1>9, <2>1
    <3>3. ~Overlaps(used) /\ ~Overlaps(free)
      BY <1>6, <2>1
    <3> HIDE DEF es, total, n, k
    <3> QED
      BY <1>10, <1>12, <3>1, <3>2, <3>3 DEF ScanCodes
  <2>3. "cycle" \notin fatal
    <3>1. ASSUME NEW i \in DOMAIN used, NEW j \in DOMAIN used, i # j,
                 used[i].start = used[j].start
          PROVE  FALSE
      <4>1. Meet(used[i], used[j])
        <5>1. used[i] \in Spans /\ used[j] \in Spans
          BY <1>1, <1>3
        <5> QED
          BY <3>1, <5>1 DEF Meet, Spans
      <4> QED
        BY <2>1, <3>1, <4>1 DEF Apart
    <3> QED
      BY <1>11, <3>1
  <2>4. "free_out_of_range" \notin fatal
    <3>1. ASSUME NEW j \in DOMAIN free, OutOfFreeRange(free[j]) PROVE FALSE
      <4>1. free[j] \in Spans /\ free[j].end <= total
        BY <1>1, <1>3, <1>9, <2>1
      <4>2. free[j].start < Allocatable
        BY <1>2, <3>1, <4>1 DEF OutOfFreeRange, Spans
      <4>3. /\ {1, 2} \subseteq DOMAIN used
            /\ used[1].start = 0 /\ used[1].end = MapSectors
            /\ used[2].start = MapSectors /\ used[2].end = MapSectors + DirSectors
        <5>1. MapSectors \in Nat
          BY ValidationAssumption
        <5> QED
          BY <5>1 DEF ReportInv, Surveyed, Extent, Root
      <4>4. MapSectors \in Nat \ {0} /\ DirSectors \in Nat \ {0}
        BY ValidationAssumption
      <4>5. Meet(used[1], free[j]) \/ Meet(used[2], free[j])
        BY <4>1, <4>2, <4>3, <4>4 DEF Meet, Spans, Allocatable
      <4> QED
        BY <2>1, <4>3, <4>5
    <3> QED
      BY <1>11, <3>1
  <2>5. fatal \cap SizeCodes = {}
    BY <1>11, <1>14
  <2> QED
    BY <1>11, <1>14, <2>2, <2>3, <2>4, <2>5
<1> QED
  BY <1>13, <1>14 DEF SafeForWrite

\* The report has no fatal finding exactly if the disc was read without an error, the
\* sizes agree and every sector has one owner: for every disc and budget, the sorted scans
\* and the merge (validation.py:165-235) decide the pairwise truth.
THEOREM ReportIsExactHolds == ValidationSpec => []ReportIsExact
BY ReportInvariance, ReportDecides, PTL

-----------------------------------------------------------------------------
(* Repairs                                                                  *)

\* The actions before the one the repair has come to.
Passed == {Actions[k] : k \in 1 .. next - 1} \cap plan

\* What an audit must name: every action that has changed the image but the last.
Credits(a) ==
  \A i, j \in DOMAIN Actions :
    i < j /\ {Actions[i], Actions[j]} \subseteq touched => Actions[i] \in a.applied

\* Until the image is open nothing is touched, and only a first audit may be there.
NotBegun ==
  rpc \in {"plan", "audit", "open"} =>
    /\ touched = {} /\ next = 1 /\ session = "none" /\ ~checked
    /\ payload = NewAudit /\ audit \in {NoAudit, NewAudit}
    /\ rpc = "open" => audit # NoAudit

\* The file says what the payload does, and what the payload lists has been done.
Repairing ==
  /\ rpc = "applying" => touched = {} /\ next = 1 /\ payload = NewAudit /\ audit = NewAudit
  /\ rpc \in {"action", "applied"} =>
       /\ audit = payload /\ payload.created /\ payload.status = "applying"
       /\ payload.applied = Passed
  /\ rpc = "action" => touched = Passed
  /\ rpc = "applied" =>
       /\ next \in DOMAIN Actions /\ Actions[next] \in plan
       /\ touched = Passed \cup {Actions[next]}
  /\ rpc \in {"applying", "action", "applied", "verified", "close"} =>
       pending /\ session = "open"

\* From the validation on nothing changes but the status.
Verified ==
  rpc \in {"verified", "close", "closed", "complete"} =>
    /\ checked /\ Repaired /\ touched = plan
    /\ audit # NoAudit /\ audit.created /\ audit.applied = plan
    /\ payload.created /\ payload.applied = plan
    /\ rpc \in {"closed", "complete"} => ~pending

\* Only the handler of a failure marks an audit as failed, and what it says of the
\* checkpoint is true or of an image that has been validated.
Retention ==
  /\ rpc # "done" =>
       /\ ~payload.retained /\ payload.status # "failed"
       /\ audit # NoAudit => ~audit.retained /\ audit.status # "failed"
  /\ payload.created => pending \/ checked
  /\ payload.status = "completed" => checked

RepairInv ==
  /\ RepairTypeOK /\ NotBegun /\ Repairing /\ Verified /\ Retention
  /\ UncheckedRepairIsRecoverable /\ AuditKeepsUp
  /\ touched # {} => payload.created
  /\ Credits(payload)

USE RepairAssumption

\* The three actions of Actions are different ones, and are all that a plan may have.
LEMMA ActionFacts ==
  /\ Len(Actions) = 3 /\ DOMAIN Actions = {1, 2, 3}
  /\ Low = {Actions[1], Actions[2], Actions[3]}
  /\ Actions[1] # Actions[2] /\ Actions[1] # Actions[3] /\ Actions[2] # Actions[3]
  /\ "manual" \notin Low
<1>1. Len(Actions) = 3 /\ DOMAIN Actions = {1, 2, 3}
  BY DEF Actions
<1>2. Actions[1] # Actions[2] /\ Actions[1] # Actions[3] /\ Actions[2] # Actions[3]
  BY DEF Actions
<1>3. Low = {Actions[1], Actions[2], Actions[3]}
  BY <1>1 DEF Low
<1> QED
  BY <1>1, <1>2, <1>3 DEF Actions

\* The parts of NewAudit.
LEMMA NewAuditFields ==
  /\ NewAudit \in Audits /\ NewAudit.status = "planned" /\ ~NewAudit.created
  /\ ~NewAudit.retained /\ NewAudit.applied = {}
BY DEF NewAudit, Audits

\* At the start there is a flawed image, perhaps a checkpoint of another session, and no
\* audit.
LEMMA RepairInitInv == RepairInit => RepairInv
<1> SUFFICES ASSUME RepairInit PROVE RepairInv
  OBVIOUS
<1> USE ActionFacts
<1>1. NewAudit \in Audits
  BY NewAuditFields
<1>2. RepairTypeOK
  <2>1. next \in 1 .. Len(Actions) + 1
    BY DEF RepairInit
  <2>2. flaws \in SUBSET Findings /\ pending \in BOOLEAN
    BY DEF RepairInit
  <2> QED
    BY <1>1, <2>1, <2>2 DEF RepairInit, RepairTypeOK
<1>3. NotBegun /\ Repairing /\ Verified /\ Retention /\ Credits(payload)
  BY NewAuditFields DEF RepairInit, NotBegun, Repairing, Verified, Retention, Credits
<1>4. UncheckedRepairIsRecoverable /\ AuditKeepsUp
  BY NewAuditFields DEF RepairInit, UncheckedRepairIsRecoverable, AuditKeepsUp
<1> QED
  BY <1>2, <1>3, <1>4 DEF RepairInv, RepairInit

\* Every step of the repair, and of the sessions that come before it, keeps the invariant.
LEMMA RepairStepInv == RepairInv /\ [RepairNext]_repairVars => RepairInv'
<1> SUFFICES ASSUME RepairInv, [RepairNext]_repairVars PROVE RepairInv'
  OBVIOUS
<1>0. payload \in Audits
  BY DEF RepairInv, RepairTypeOK
<1> USE ActionFacts, NewAuditFields DEF RepairGoes, imageState
<1>1. CASE PlanRepair
  <2>1. RepairTypeOK'
    BY <1>1 DEF PlanRepair, Supported, RepairInv, RepairTypeOK
  <2>2. NotBegun' /\ Repairing'
    BY <1>1 DEF PlanRepair, Supported, RepairInv, RepairTypeOK, NotBegun, Repairing, Passed
  <2>3. Verified' /\ UncheckedRepairIsRecoverable'
    BY <1>1
    DEF PlanRepair, Supported, RepairInv, RepairTypeOK, NotBegun, Repairing, Passed, Verified,
       Repaired, UncheckedRepairIsRecoverable
  <2>4. AuditKeepsUp'
    BY <1>1
    DEF PlanRepair, Supported, RepairInv, RepairTypeOK, NotBegun, Repairing, Passed, Verified,
       Repaired, Retention, AuditKeepsUp, Credits
  <2>5. Credits(payload)' /\ (touched' # {} => payload'.created)
    BY <1>1
    DEF PlanRepair, Supported, RepairInv, RepairTypeOK, NotBegun, Repairing, Passed, Verified,
        Credits
  <2>6. Retention'
    BY <1>1
    DEF PlanRepair, Supported, RepairInv, RepairTypeOK, NotBegun, Repairing, Passed, Verified,
        Retention
  <2> QED
    BY <2>1, <2>2, <2>3, <2>4, <2>5, <2>6 DEF RepairInv
<1>2. CASE FirstAudit
  <2>1. RepairTypeOK'
    BY <1>2 DEF FirstAudit, RepairInv, RepairTypeOK
  <2>2. NotBegun' /\ Repairing'
    BY <1>2 DEF FirstAudit, RepairInv, RepairTypeOK, NotBegun, Repairing, Passed
  <2>3. Verified' /\ UncheckedRepairIsRecoverable'
    BY <1>2 DEF FirstAudit, RepairInv, RepairTypeOK, NotBegun, Repairing, Passed, Verified,
       Repaired, UncheckedRepairIsRecoverable
  <2>4. AuditKeepsUp'
    BY <1>2 DEF FirstAudit, RepairInv, RepairTypeOK, NotBegun, Repairing, Passed, Verified,
       Repaired, Retention, AuditKeepsUp, Credits
  <2>5. Credits(payload)' /\ (touched' # {} => payload'.created)
    BY <1>2 DEF FirstAudit, RepairInv, RepairTypeOK, NotBegun, Repairing, Passed, Verified, Credits
  <2>6. Retention'
    BY <1>2 DEF FirstAudit, RepairInv, RepairTypeOK, NotBegun, Repairing, Passed, Verified, Retention
  <2> QED
    BY <2>1, <2>2, <2>3, <2>4, <2>5, <2>6 DEF RepairInv
<1>3. CASE OpenForRepair
  <2>1. RepairTypeOK'
    BY <1>3 DEF OpenForRepair, RepairInv, RepairTypeOK
  <2>2. NotBegun' /\ Repairing'
    BY <1>3 DEF OpenForRepair, RepairInv, RepairTypeOK, NotBegun, Repairing, Passed
  <2>3. Verified' /\ UncheckedRepairIsRecoverable'
    BY <1>3 DEF OpenForRepair, RepairInv, RepairTypeOK, NotBegun, Repairing, Passed, Verified,
       Repaired, UncheckedRepairIsRecoverable
  <2>4. AuditKeepsUp'
    BY <1>3 DEF OpenForRepair, RepairInv, RepairTypeOK, NotBegun, Repairing, Passed, Verified,
       Repaired, Retention, AuditKeepsUp, Credits
  <2>5. Credits(payload)' /\ (touched' # {} => payload'.created)
    BY <1>3 DEF OpenForRepair, RepairInv, RepairTypeOK, NotBegun, Repairing, Passed, Verified, Credits
  <2>6. Retention'
    BY <1>3 DEF OpenForRepair, RepairInv, RepairTypeOK, NotBegun, Repairing, Passed, Verified, Retention
  <2> QED
    BY <2>1, <2>2, <2>3, <2>4, <2>5, <2>6 DEF RepairInv
<1>4. CASE AuditApplying
  <2>0. /\ payload' \in Audits /\ payload'.status = "applying" /\ payload'.created
        /\ payload'.retained = payload.retained /\ payload'.applied = payload.applied
        /\ rpc = "applying"
        /\ \/ audit' = payload' /\ rpc' = "action"
           \/ audit' \in {audit, payload'} /\ rpc' = "raised"
        /\ UNCHANGED <<flaws, pending, plan, next, session, touched, checked, rres>>
    BY <1>0, <1>4 DEF Audits, AuditApplying, WritesAudit, RepairInv, Repairing
  <2>1. RepairTypeOK'
    BY <2>0 DEF RepairInv, RepairTypeOK
  <2>2. NotBegun' /\ Repairing'
    BY <2>0 DEF RepairInv, RepairTypeOK, NotBegun, Repairing, Passed
  <2>3. Verified' /\ UncheckedRepairIsRecoverable'
    BY <2>0 DEF RepairInv, RepairTypeOK, NotBegun, Repairing, Passed, Verified,
       Repaired, UncheckedRepairIsRecoverable
  <2>4. AuditKeepsUp'
    BY <2>0 DEF RepairInv, RepairTypeOK, NotBegun, Repairing, Passed, Verified,
       Repaired, Retention, AuditKeepsUp, Credits
  <2>5. Credits(payload)' /\ (touched' # {} => payload'.created)
    BY <2>0 DEF RepairInv, RepairTypeOK, NotBegun, Repairing, Passed, Verified, Credits
  <2>6. Retention'
    BY <2>0 DEF RepairInv, RepairTypeOK, NotBegun, Repairing, Passed, Verified, Retention
  <2> QED
    BY <2>1, <2>2, <2>3, <2>4, <2>5, <2>6 DEF RepairInv
<1>5. CASE SkipAction
  <2>1. RepairTypeOK'
    BY <1>5 DEF SkipAction, RepairInv, RepairTypeOK
  <2>2. NotBegun' /\ Repairing'
    BY <1>5 DEF SkipAction, RepairInv, RepairTypeOK, NotBegun, Repairing, Passed
  <2>3. Verified' /\ UncheckedRepairIsRecoverable'
    BY <1>5 DEF SkipAction, RepairInv, RepairTypeOK, NotBegun, Repairing, Passed, Verified,
       Repaired, UncheckedRepairIsRecoverable
  <2>4. AuditKeepsUp'
    BY <1>5 DEF SkipAction, RepairInv, RepairTypeOK, NotBegun, Repairing, Passed, Verified,
       Repaired, Retention, AuditKeepsUp, Credits
  <2>5. Credits(payload)' /\ (touched' # {} => payload'.created)
    BY <1>5 DEF SkipAction, RepairInv, RepairTypeOK, NotBegun, Repairing, Passed, Verified, Credits
  <2>6. Retention'
    BY <1>5 DEF SkipAction, RepairInv, RepairTypeOK, NotBegun, Repairing, Passed, Verified, Retention
  <2> QED
    BY <2>1, <2>2, <2>3, <2>4, <2>5, <2>6 DEF RepairInv
<1>6. CASE ApplyAction
  <2>1. RepairTypeOK'
    <3>1. flaws' \in SUBSET Findings /\ touched' \in SUBSET Low /\ checked' \in BOOLEAN
      BY <1>6 DEF ApplyAction, RepairInv, RepairTypeOK, Findings
    <3> QED
      BY <1>6, <3>1 DEF ApplyAction, RepairInv, RepairTypeOK
  <2>2. NotBegun' /\ Repairing'
    BY <1>6 DEF ApplyAction, RepairInv, RepairTypeOK, NotBegun, Repairing, Passed
  <2>3. Verified' /\ UncheckedRepairIsRecoverable'
    BY <1>6 DEF ApplyAction, RepairInv, RepairTypeOK, NotBegun, Repairing, Passed, Verified,
       Repaired, UncheckedRepairIsRecoverable
  <2>4. AuditKeepsUp'
    BY <1>6 DEF ApplyAction, RepairInv, RepairTypeOK, NotBegun, Repairing, Passed, Verified,
       Repaired, Retention, AuditKeepsUp, Credits
  <2>5. Credits(payload)' /\ (touched' # {} => payload'.created)
    BY <1>6 DEF ApplyAction, RepairInv, RepairTypeOK, NotBegun, Repairing, Passed, Verified, Credits
  <2>6. Retention'
    BY <1>6 DEF ApplyAction, RepairInv, RepairTypeOK, NotBegun, Repairing, Passed, Verified, Retention
  <2> QED
    BY <2>1, <2>2, <2>3, <2>4, <2>5, <2>6 DEF RepairInv
<1>7. CASE AuditApplied
  <2>0. /\ payload' \in Audits /\ payload'.status = payload.status
        /\ payload'.created = payload.created /\ payload'.retained = payload.retained
        /\ payload'.applied = payload.applied \cup {Actions[next]}
        /\ rpc = "applied" /\ next \in {1, 2, 3} /\ next' = next + 1
        /\ \/ audit' = payload' /\ rpc' = "action"
           \/ audit' \in {audit, payload'} /\ rpc' = "raised"
        /\ UNCHANGED <<flaws, pending, plan, session, touched, checked, rres>>
    <3>1. rpc = "applied" /\ next \in {1, 2, 3} /\ Actions[next] \in Low
      BY <1>7 DEF AuditApplied, RepairInv, Repairing
    <3>2. /\ AuditTarget \in Audits /\ AuditTarget.status = payload.status
          /\ AuditTarget.created = payload.created /\ AuditTarget.retained = payload.retained
          /\ AuditTarget.applied = payload.applied \cup {Actions[next]}
      BY <1>0, <3>1 DEF AuditTarget, Audits
    <3> QED
      BY <1>7, <3>1, <3>2 DEF AuditApplied, WritesAudit
  <2>1. RepairTypeOK'
    BY <2>0 DEF RepairInv, RepairTypeOK
  <2>2. NotBegun' /\ Repairing'
    BY <2>0 DEF RepairInv, RepairTypeOK, NotBegun, Repairing, Passed
  <2>3. Verified' /\ UncheckedRepairIsRecoverable'
    BY <2>0 DEF RepairInv, RepairTypeOK, NotBegun, Repairing, Passed, Verified,
       Repaired, UncheckedRepairIsRecoverable
  <2>4. AuditKeepsUp'
    BY <2>0 DEF RepairInv, RepairTypeOK, NotBegun, Repairing, Passed, Verified,
       Repaired, Retention, AuditKeepsUp, Credits
  <2>5. Credits(payload)' /\ (touched' # {} => payload'.created)
    BY <2>0 DEF RepairInv, RepairTypeOK, NotBegun, Repairing, Passed, Verified, Credits
  <2>6. Retention'
    BY <2>0 DEF RepairInv, RepairTypeOK, NotBegun, Repairing, Passed, Verified, Retention
  <2> QED
    BY <2>1, <2>2, <2>3, <2>4, <2>5, <2>6 DEF RepairInv
<1>8. CASE VerifyRepair
  <2>1. RepairTypeOK'
    BY <1>8 DEF VerifyRepair, RepairInv, RepairTypeOK
  <2>2. NotBegun' /\ Repairing'
    BY <1>8 DEF VerifyRepair, RepairInv, RepairTypeOK, NotBegun, Repairing, Passed
  <2>3. Verified' /\ UncheckedRepairIsRecoverable'
    BY <1>8 DEF VerifyRepair, RepairInv, RepairTypeOK, NotBegun, Repairing, Passed, Verified,
       Repaired, UncheckedRepairIsRecoverable
  <2>4. AuditKeepsUp'
    BY <1>8 DEF VerifyRepair, RepairInv, RepairTypeOK, NotBegun, Repairing, Passed, Verified,
       Repaired, Retention, AuditKeepsUp, Credits
  <2>5. Credits(payload)' /\ (touched' # {} => payload'.created)
    BY <1>8 DEF VerifyRepair, RepairInv, RepairTypeOK, NotBegun, Repairing, Passed, Verified, Credits
  <2>6. Retention'
    BY <1>8 DEF VerifyRepair, RepairInv, RepairTypeOK, NotBegun, Repairing, Passed, Verified, Retention
  <2> QED
    BY <2>1, <2>2, <2>3, <2>4, <2>5, <2>6 DEF RepairInv
<1>9. CASE AuditVerified
  <2>0. /\ payload' \in Audits /\ payload'.status = "verified"
        /\ payload'.created = payload.created /\ payload'.retained = payload.retained
        /\ payload'.applied = payload.applied
        /\ rpc = "verified"
        /\ \/ audit' = payload' /\ rpc' = "close"
           \/ audit' \in {audit, payload'} /\ rpc' = "raised"
        /\ UNCHANGED <<flaws, pending, plan, next, session, touched, checked, rres>>
    BY <1>0, <1>9 DEF Audits, AuditVerified, WritesAudit, RepairInv, Repairing
  <2>1. RepairTypeOK'
    BY <2>0 DEF RepairInv, RepairTypeOK
  <2>2. NotBegun' /\ Repairing'
    BY <2>0 DEF RepairInv, RepairTypeOK, NotBegun, Repairing, Passed
  <2>3. Verified' /\ UncheckedRepairIsRecoverable'
    BY <2>0 DEF RepairInv, RepairTypeOK, NotBegun, Repairing, Passed, Verified,
       Repaired, UncheckedRepairIsRecoverable
  <2>4. AuditKeepsUp'
    BY <2>0 DEF RepairInv, RepairTypeOK, NotBegun, Repairing, Passed, Verified,
       Repaired, Retention, AuditKeepsUp, Credits
  <2>5. Credits(payload)' /\ (touched' # {} => payload'.created)
    BY <2>0 DEF RepairInv, RepairTypeOK, NotBegun, Repairing, Passed, Verified, Credits
  <2>6. Retention'
    BY <2>0 DEF RepairInv, RepairTypeOK, NotBegun, Repairing, Passed, Verified, Retention
  <2> QED
    BY <2>1, <2>2, <2>3, <2>4, <2>5, <2>6 DEF RepairInv
<1>10. CASE CloseRepaired
  <2>1. RepairTypeOK'
    BY <1>10 DEF CloseRepaired, RepairInv, RepairTypeOK
  <2>2. NotBegun' /\ Repairing'
    BY <1>10 DEF CloseRepaired, RepairInv, RepairTypeOK, NotBegun, Repairing, Passed
  <2>3. Verified' /\ UncheckedRepairIsRecoverable'
    BY <1>10 DEF CloseRepaired, RepairInv, RepairTypeOK, NotBegun, Repairing, Passed, Verified,
       Repaired, UncheckedRepairIsRecoverable
  <2>4. AuditKeepsUp'
    BY <1>10 DEF CloseRepaired, RepairInv, RepairTypeOK, NotBegun, Repairing, Passed, Verified,
       Repaired, Retention, AuditKeepsUp, Credits
  <2>5. Credits(payload)' /\ (touched' # {} => payload'.created)
    BY <1>10
    DEF CloseRepaired, RepairInv, RepairTypeOK, NotBegun, Repairing, Passed, Verified, Credits
  <2>6. Retention'
    BY <1>10
    DEF CloseRepaired, RepairInv, RepairTypeOK, NotBegun, Repairing, Passed, Verified, Retention
  <2> QED
    BY <2>1, <2>2, <2>3, <2>4, <2>5, <2>6 DEF RepairInv
<1>11. CASE AuditCompleted
  <2>0. /\ payload' \in Audits /\ payload'.status = "completed"
        /\ payload'.created = payload.created /\ payload'.retained = payload.retained
        /\ payload'.applied = payload.applied
        /\ rpc = "closed"
        /\ \/ audit' = payload' /\ rpc' = "complete"
           \/ audit' \in {audit, payload'} /\ rpc' = "raised"
        /\ UNCHANGED <<flaws, pending, plan, next, session, touched, checked, rres>>
    BY <1>0, <1>11 DEF Audits, AuditCompleted, WritesAudit, RepairInv, Repairing
  <2>1. RepairTypeOK'
    BY <2>0 DEF RepairInv, RepairTypeOK
  <2>2. NotBegun' /\ Repairing'
    BY <2>0 DEF RepairInv, RepairTypeOK, NotBegun, Repairing, Passed
  <2>3. Verified' /\ UncheckedRepairIsRecoverable'
    BY <2>0 DEF RepairInv, RepairTypeOK, NotBegun, Repairing, Passed, Verified,
       Repaired, UncheckedRepairIsRecoverable
  <2>4. AuditKeepsUp'
    BY <2>0 DEF RepairInv, RepairTypeOK, NotBegun, Repairing, Passed, Verified,
       Repaired, Retention, AuditKeepsUp, Credits
  <2>5. Credits(payload)' /\ (touched' # {} => payload'.created)
    BY <2>0 DEF RepairInv, RepairTypeOK, NotBegun, Repairing, Passed, Verified, Credits
  <2>6. Retention'
    BY <2>0 DEF RepairInv, RepairTypeOK, NotBegun, Repairing, Passed, Verified, Retention
  <2> QED
    BY <2>1, <2>2, <2>3, <2>4, <2>5, <2>6 DEF RepairInv
<1>12. CASE RepairDone
  <2>1. RepairTypeOK'
    BY <1>12 DEF RepairDone, RepairInv, RepairTypeOK
  <2>2. NotBegun' /\ Repairing'
    BY <1>12 DEF RepairDone, RepairInv, RepairTypeOK, NotBegun, Repairing, Passed
  <2>3. Verified' /\ UncheckedRepairIsRecoverable'
    BY <1>12 DEF RepairDone, RepairInv, RepairTypeOK, NotBegun, Repairing, Passed, Verified,
       Repaired, UncheckedRepairIsRecoverable
  <2>4. AuditKeepsUp'
    BY <1>12 DEF RepairDone, RepairInv, RepairTypeOK, NotBegun, Repairing, Passed, Verified,
       Repaired, Retention, AuditKeepsUp, Credits
  <2>5. Credits(payload)' /\ (touched' # {} => payload'.created)
    BY <1>12 DEF RepairDone, RepairInv, RepairTypeOK, NotBegun, Repairing, Passed, Verified, Credits
  <2>6. Retention'
    BY <1>12 DEF RepairDone, RepairInv, RepairTypeOK, NotBegun, Repairing, Passed, Verified, Retention
  <2> QED
    BY <2>1, <2>2, <2>3, <2>4, <2>5, <2>6 DEF RepairInv
<1>13. CASE Raises
  <2>1. RepairTypeOK'
    BY <1>13 DEF Raises, RepairInv, RepairTypeOK
  <2>2. NotBegun' /\ Repairing'
    BY <1>13 DEF Raises, RepairInv, RepairTypeOK, NotBegun, Repairing, Passed
  <2>3. Verified' /\ UncheckedRepairIsRecoverable'
    BY <1>13 DEF Raises, RepairInv, RepairTypeOK, NotBegun, Repairing, Passed, Verified,
       Repaired, UncheckedRepairIsRecoverable
  <2>4. AuditKeepsUp'
    BY <1>13 DEF Raises, RepairInv, RepairTypeOK, NotBegun, Repairing, Passed, Verified,
       Repaired, Retention, AuditKeepsUp, Credits
  <2>5. Credits(payload)' /\ (touched' # {} => payload'.created)
    BY <1>13 DEF Raises, RepairInv, RepairTypeOK, NotBegun, Repairing, Passed, Verified, Credits
  <2>6. Retention'
    BY <1>13 DEF Raises, RepairInv, RepairTypeOK, NotBegun, Repairing, Passed, Verified, Retention
  <2> QED
    BY <2>1, <2>2, <2>3, <2>4, <2>5, <2>6 DEF RepairInv
<1>14. CASE HandleError
  <2>0. /\ payload' \in Audits /\ payload'.status = "failed"
        /\ payload'.created = payload.created /\ payload'.applied = payload.applied
        /\ payload'.retained <=>
             (payload.retained \/ (payload.created /\ payload.status # "completed"))
        /\ rpc = "raised" /\ rpc' = "done" /\ audit' \in {audit, payload'}
        /\ session' \in {"none", "closed"} /\ rres' \in {"unmarked", "failed"}
        /\ pending' = pending
        /\ UNCHANGED <<flaws, plan, next, touched, checked>>
    <3> DEFINE r == payload.retained \/ (payload.created /\ payload.status # "completed")
    <3>1. payload' = [payload EXCEPT !.status = "failed", !.retained = r] /\ r \in BOOLEAN
      BY <1>0, <1>14 DEF HandleError, Audits
    <3> HIDE DEF r
    <3>2. /\ payload' \in Audits /\ payload'.status = "failed"
          /\ payload'.created = payload.created /\ payload'.applied = payload.applied
          /\ payload'.retained = r
      BY <1>0, <3>1 DEF Audits
    <3> QED
      BY <1>14, <3>2 DEF HandleError, AfterError, r
  <2>1. RepairTypeOK'
    BY <2>0 DEF RepairInv, RepairTypeOK
  <2>2. NotBegun' /\ Repairing'
    BY <2>0 DEF RepairInv, RepairTypeOK, NotBegun, Repairing, Passed
  <2>3. Verified' /\ UncheckedRepairIsRecoverable'
    BY <2>0 DEF RepairInv, RepairTypeOK, NotBegun, Repairing, Passed, Verified,
       Repaired, UncheckedRepairIsRecoverable
  <2>4. AuditKeepsUp'
    BY <2>0 DEF RepairInv, RepairTypeOK, NotBegun, Repairing, Passed, Verified,
       Repaired, Retention, AuditKeepsUp, Credits
  <2>5. Credits(payload)' /\ (touched' # {} => payload'.created)
    BY <2>0 DEF RepairInv, RepairTypeOK, NotBegun, Repairing, Passed, Verified, Credits
  <2>6. Retention'
    BY <2>0 DEF RepairInv, RepairTypeOK, NotBegun, Repairing, Passed, Verified, Retention
  <2> QED
    BY <2>1, <2>2, <2>3, <2>4, <2>5, <2>6 DEF RepairInv
<1>15. CASE OtherWriter
  <2>1. RepairTypeOK'
    BY <1>15 DEF OtherWriter, RepairInv, RepairTypeOK
  <2>2. NotBegun' /\ Repairing'
    BY <1>15 DEF OtherWriter, RepairInv, RepairTypeOK, NotBegun, Repairing, Passed
  <2>3. Verified' /\ UncheckedRepairIsRecoverable'
    BY <1>15 DEF OtherWriter, RepairInv, RepairTypeOK, NotBegun, Repairing, Passed, Verified,
       Repaired, UncheckedRepairIsRecoverable
  <2>4. AuditKeepsUp'
    BY <1>15 DEF OtherWriter, RepairInv, RepairTypeOK, NotBegun, Repairing, Passed, Verified,
       Repaired, Retention, AuditKeepsUp, Credits
  <2>5. Credits(payload)' /\ (touched' # {} => payload'.created)
    BY <1>15 DEF OtherWriter, RepairInv, RepairTypeOK, NotBegun, Repairing, Passed, Verified, Credits
  <2>6. Retention'
    BY <1>15 DEF OtherWriter, RepairInv, RepairTypeOK, NotBegun, Repairing, Passed, Verified, Retention
  <2> QED
    BY <2>1, <2>2, <2>3, <2>4, <2>5, <2>6 DEF RepairInv
<1>16. CASE UNCHANGED repairVars
  BY <1>16 DEF repairVars, RepairInv, RepairTypeOK, NotBegun, Repairing, Passed, Verified,
     Repaired, UncheckedRepairIsRecoverable, Retention, AuditKeepsUp, Credits
<1> QED
  BY <1>1, <1>2, <1>3, <1>4, <1>5, <1>6, <1>7, <1>8, <1>9, <1>10, <1>11, <1>12, <1>13, <1>14,
     <1>15, <1>16
  DEF RepairNext

\* The invariant holds wherever a repair stops.
THEOREM RepairInvariance == RepairSpec => []RepairInv
<1>1. RepairInit => RepairInv
  BY RepairInitInv
<1>2. RepairInv /\ [RepairNext]_repairVars => RepairInv'
  BY RepairStepInv
<1> QED
  BY <1>1, <1>2, PTL DEF RepairSpec

\* A repair keeps its types: its plan has only low-risk actions, whatever flaws there are.
THEOREM RepairTypes == RepairSpec => []RepairTypeOK
<1>1. RepairInv => RepairTypeOK
  BY DEF RepairInv
<1> QED
  BY <1>1, RepairInvariance, PTL

\* A changed image that has not been validated since keeps its checkpoint, wherever and
\* however often the audit, the session or the callbacks raise (repair.py apply_repairs).
THEOREM UncheckedRepairIsRecoverableHolds == RepairSpec => []UncheckedRepairIsRecoverable
<1>1. RepairInv => UncheckedRepairIsRecoverable
  BY DEF RepairInv
<1> QED
  BY <1>1, RepairInvariance, PTL

\* Whether or not the audit writes that raised took effect, the audit file is never more
\* than one action behind the image, never says verified of an image that was not, and
\* never claims a checkpoint that a changed and unchecked image would need and lacks.
THEOREM AuditKeepsUpHolds == RepairSpec => []AuditKeepsUp
<1>1. RepairInv => AuditKeepsUp
  BY DEF RepairInv
<1> QED
  BY <1>1, RepairInvariance, PTL
=============================================================================

------------------------------ MODULE FileProofs ------------------------------
(***************************************************************************)
(* Proofs about the file system, for any disk, directory, headers, files   *)
(* and transfers: every operation leaves a consistent disk behind, and an  *)
(* exit between any two of the sectors it writes loses none.               *)
(*                                                                         *)
(* The invariant says which operation may be under way (InPhase): a Create *)
(* writes header, directory and map, each of which keeps what the disk     *)
(* before it has; a Remove writes map and directory; a Write touches no    *)
(* header.  So the disk where it leads to stays the same while the sectors *)
(* are written, and what the map marks stays in the directory.             *)
(*                                                                         *)
(* For the refinement of Files it also says, in RefInv, what the operation *)
(* under way may have changed so far: its own entry, and a header that the *)
(* map does not mark yet, or else the contents of its own file.  So the    *)
(* files on the disk where the writes lead to stay the same too, and those *)
(* on the disk where they stop differ from them in that one file.          *)
(***************************************************************************)
EXTENDS FileSystem, FiniteSetTheorems, SequenceTheorems, WellFoundedInduction, TLAPS

-----------------------------------------------------------------------------
(* Numbers.                                                                *)

\* A set of natural numbers has a least element.
LEMMA Least ==
    ASSUME NEW T \in SUBSET Nat, T # {}
    PROVE  \E x \in T : \A y \in T : x <= y
  <1>1. PICK r : r = OpToRel(<, Nat)
    OBVIOUS
  <1>2. IsWellFoundedOn(r, Nat)
    BY <1>1, NatLessThanWellFounded, Zenon
  <1>3. PICK x \in T : \A y \in T : ~(<<y, x>> \in r)
    BY <1>2, WFMin
  <1>4. \A y \in Nat, z \in Nat : y < z => <<y, z>> \in r
    <2>1. r = {ss \in Nat \X Nat : ss[1] < ss[2]}
      BY <1>1, Zenon DEF OpToRel
    <2> QED
      BY <2>1
  <1>5. x \in Nat /\ \A y \in T : y \in Nat /\ ~(y < x)
    BY <1>3, <1>4
  <1> QED
    BY <1>3, <1>5

\* Min, which FindIndex and Add use, finds one of the set.
LEMMA MinIn ==
    ASSUME NEW S \in SUBSET Nat, S # {}
    PROVE  Min(S) \in S /\ \A y \in S : Min(S) <= y
  BY Least DEF Min

\* The greatest element, if there is one.
LEMMA MaxIs ==
    ASSUME NEW S \in SUBSET Nat, NEW m \in S, \A x \in S : x <= m
    PROVE  Max(S) = m
  <1>1. \A x \in S : m >= x
    OBVIOUS
  <1>2. \A x \in S : (\A y \in S : x >= y) => x = m
    OBVIOUS
  <1> QED
    BY <1>1, <1>2 DEF Max

\* The least of two numbers.
LEMMA MinOfTwo ==
    ASSUME NEW a \in Nat, NEW b \in Nat
    PROVE  Min({a, b}) = IF a <= b THEN a ELSE b
  <1>1. {a, b} \in SUBSET Nat /\ {a, b} # {}
    OBVIOUS
  <1>2. Min({a, b}) \in {a, b} /\ \A y \in {a, b} : Min({a, b}) <= y
    BY <1>1, MinIn
  <1> QED
    BY <1>2

\* A quotient, its divisor and its remainder.
LEMMA Quotient ==
    ASSUME NEW x \in Nat, NEW n \in Nat \ {0}
    PROVE  /\ x \div n \in Nat /\ x % n \in 0..(n - 1)
           /\ (x \div n) * n \in Nat /\ x = (x \div n) * n + (x % n)
  OBVIOUS

\* A product is monotonic.
LEMMA Times ==
    ASSUME NEW a \in Nat, NEW b \in Nat, NEW c \in Nat, a <= b
    PROVE  a * c \in Nat /\ b * c \in Nat /\ a * c <= b * c
  OBVIOUS

\* The quotient lies between its bounds.
LEMMA QuotientBetween ==
    ASSUME NEW x \in Nat, NEW n \in Nat \ {0}, NEW k \in Nat
    PROVE  /\ x < k * n => x \div n < k
           /\ k * n <= x => k <= x \div n
  <1> DEFINE d == x \div n
             r == x % n
  <1>1. d \in Nat /\ r \in 0..(n - 1) /\ d * n \in Nat /\ x = d * n + r
    BY Quotient
  <1> HIDE DEF d, r
  <1>2. ASSUME k <= d PROVE k * n <= x
    <2>1. k * n \in Nat /\ k * n <= d * n
      BY <1>1, <1>2, Times
    <2> QED
      BY <1>1, <2>1
  <1>3. ASSUME d + 1 <= k PROVE x < k * n
    <2>1. (d + 1) * n \in Nat /\ k * n \in Nat /\ (d + 1) * n <= k * n
      BY <1>1, <1>3, Times
    <2>2. (d + 1) * n = d * n + n
      BY <1>1
    <2> QED
      BY <1>1, <2>1, <2>2
  <1>4. k * n \in Nat /\ x \in Nat
    OBVIOUS
  <1>5. x < k * n => d < k
    BY <1>1, <1>2, <1>4
  <1>6. k * n <= x => k <= d
    BY <1>1, <1>3, <1>4
  <1> QED
    BY <1>5, <1>6 DEF d

\* divRoundUp: so many sectors hold n bytes, and no fewer.
LEMMA RoundUp ==
    ASSUME NEW n \in Nat, NEW s \in Nat \ {0}
    PROVE  /\ divRoundUp(n, s) \in Nat
           /\ \A k \in Nat : n <= k * s => divRoundUp(n, s) <= k
           /\ \A p \in Nat : p < n => p \div s < divRoundUp(n, s)
  <1> DEFINE x == n + s - 1
             d == x \div s
  <1>1. x \in Nat /\ divRoundUp(n, s) = d
    BY DEF divRoundUp
  <1>2. d \in Nat
    BY <1>1, Quotient
  <1>3. ASSUME NEW k \in Nat, n <= k * s PROVE d <= k
    <2>1. (k + 1) * s \in Nat /\ (k + 1) * s = k * s + s /\ k * s \in Nat
      BY Times
    <2>2. x < (k + 1) * s
      BY <1>3, <2>1
    <2> DEFINE j == k + 1
    <2>3. j \in Nat /\ x < j * s
      BY <2>2
    <2> HIDE DEF j, x
    <2>4. x \div s < j
      BY <1>1, <2>3, QuotientBetween
    <2> QED
      BY <1>2, <2>4 DEF j
  <1>4. ASSUME NEW p \in Nat, p < n PROVE p \div s < d
    <2> DEFINE e == p \div s
    <2>1. e \in Nat /\ e * s \in Nat /\ e * s <= p
      BY Quotient
    <2> HIDE DEF e
    <2>2. (e + 1) * s = e * s + s
      BY <2>1
    <2>3. (e + 1) * s <= x
      BY <1>4, <2>1, <2>2
    <2> DEFINE j == e + 1
    <2>4. j \in Nat /\ j * s <= x
      BY <2>1, <2>3
    <2> HIDE DEF j, x
    <2>5. j <= x \div s
      BY <1>1, <2>4, QuotientBetween
    <2>6. e < d
      BY <1>2, <2>1, <2>5 DEF j
    <2> QED
      BY <2>6 DEF e
  <1> QED
    BY <1>1, <1>2, <1>3, <1>4

\* A position in the k'th sector belongs to the k'th sector.
LEMMA SectorStart ==
    ASSUME NEW k \in Nat, NEW s \in Nat \ {0}
    PROVE  k * s \in Nat /\ (k * s) \div s = k
  <1> DEFINE x == k * s
  <1>1. x \in Nat /\ k * s <= x /\ x < (k + 1) * s
    <2>1. (k + 1) * s = k * s + s
      OBVIOUS
    <2> QED
      BY <2>1
  <1>2. x \div s \in Nat
    BY <1>1, Quotient
  <1>3. k <= x \div s
    BY <1>1, QuotientBetween
  <1> DEFINE j == k + 1
  <1>4. j \in Nat /\ x < j * s
    BY <1>1
  <1> HIDE DEF j, x
  <1>5. x \div s < j
    BY <1>1, <1>4, QuotientBetween
  <1> QED
    BY <1>1, <1>2, <1>3, <1>5 DEF j, x

-----------------------------------------------------------------------------
(* The bitmap.                                                             *)

\* The constants.
LEMMA Sizes ==
    /\ SectorSize \in Nat \ {0} /\ SystemSectors \in Nat \ {0} /\ NumDirEntries \in Nat \ {0}
    /\ NumSectors \in Nat /\ NumDirect \in Nat /\ SystemSectors <= NumSectors
    /\ Byte \subseteq Nat /\ 0 \in Byte /\ Straddle \in Entry
    /\ Nobody \notin Name /\ NoName \notin Name
  BY FileSystemAssumption

\* There are finitely many sectors.
LEMMA FinitelyMany ==
    ASSUME NEW M \in SUBSET Sector
    PROVE  /\ IsFiniteSet(M) /\ Cardinality(M) \in Nat
           /\ IsFiniteSet(Sector \ M) /\ NumClear(M) \in Nat
  <1>1. IsFiniteSet(Sector)
    BY Sizes, FS_Interval DEF Sector
  <1>2. Sector \ M \in SUBSET Sector
    OBVIOUS
  <1> QED
    BY <1>1, <1>2, FS_Subset, FS_CardinalityType DEF NumClear

\* The clear sectors before sector m, counted.
Before(M, m) == Cardinality({r \in Sector \ M : r < m})

\* From one sector to the next the count grows by one if the sector is clear.
LEMMA BeforeNext ==
    ASSUME NEW M \in SUBSET Sector, NEW m \in Nat
    PROVE  /\ Before(M, m) \in Nat /\ Before(M, 0) = 0 /\ Before(M, NumSectors) = NumClear(M)
           /\ Before(M, m + 1) = IF m \in Sector \ M THEN Before(M, m) + 1 ELSE Before(M, m)
  <1> DEFINE S == Sector \ M
             B(n) == {r \in S : r < n}
  <1>1. IsFiniteSet(S) /\ S \subseteq Nat /\ \A s \in S : s < NumSectors
    <2>1. IsFiniteSet(S)
      BY FinitelyMany
    <2>2. Sector \subseteq Nat /\ \A s \in Sector : s < NumSectors
      BY Sizes DEF Sector
    <2> QED
      BY <2>1, <2>2
  <1>2. IsFiniteSet(B(m)) /\ Cardinality(B(m)) \in Nat
    <2>1. B(m) \in SUBSET S
      OBVIOUS
    <2> QED
      BY <1>1, <2>1, FS_Subset, FS_CardinalityType
  <1>3. B(0) = {} /\ B(NumSectors) = S
    BY <1>1
  <1>4. m \in S => B(m + 1) = B(m) \cup {m} /\ m \notin B(m)
    <2>1. \A r \in S : r < m + 1 <=> r < m \/ r = m
      BY <1>1
    <2>2. ~(m < m)
      OBVIOUS
    <2> HIDE DEF S
    <2>3. m \in S => \A r : r \in B(m + 1) <=> r \in B(m) \/ r = m
      BY <2>1
    <2>4. m \in S => B(m + 1) = B(m) \cup {m}
      <3> HIDE DEF B
      <3> QED
        BY <2>3
    <2> QED
      BY <2>2, <2>4
  <1>5. m \notin S => B(m + 1) = B(m)
    BY <1>1
  <1>6. Cardinality(B(m) \cup {m}) = IF m \in B(m) THEN Cardinality(B(m)) ELSE Cardinality(B(m)) + 1
    BY <1>2, FS_AddElement
  <1> HIDE DEF B
  <1>7. Cardinality(B(0)) = 0 /\ Cardinality(B(NumSectors)) = Cardinality(S)
    BY <1>3, FS_EmptySet
  <1>8. Cardinality(B(m + 1)) = IF m \in S THEN Cardinality(B(m)) + 1 ELSE Cardinality(B(m))
    BY <1>4, <1>5, <1>6
  <1>9. /\ Before(M, m) = Cardinality(B(m)) /\ Before(M, 0) = Cardinality(B(0))
        /\ Before(M, NumSectors) = Cardinality(B(NumSectors))
        /\ Before(M, m + 1) = Cardinality(B(m + 1))
    BY DEF Before, B
  <1> QED
    BY <1>2, <1>7, <1>8, <1>9 DEF NumClear

\* BitMap::Find finds a clear sector if there is one left, another one each time.
LEMMA FindFinds ==
    ASSUME NEW M \in SUBSET Sector, NEW k \in 1..NumClear(M)
    PROVE  Find(M, k) \in Sector \ M /\ Before(M, Find(M, k)) = k - 1
  <1> DEFINE T == {m \in Nat : Before(M, m) >= k}
  <1>1. NumClear(M) \in Nat /\ NumSectors \in Nat /\ Before(M, NumSectors) = NumClear(M)
    BY FinitelyMany, Sizes, BeforeNext
  <1>2. NumSectors \in T
    BY <1>1
  <1>3. PICK n \in T : \A m \in T : n <= m
    <2>1. T \in SUBSET Nat /\ T # {}
      BY <1>2
    <2> HIDE DEF T
    <2> QED
      BY <2>1, Least
  <1>4. Before(M, 0) = 0 /\ n \in Nat /\ Before(M, n) >= k
    BY BeforeNext
  <1>5. n # 0 /\ n - 1 \in Nat
    BY <1>1, <1>4
  <1>6. Before(M, n - 1) \in Nat /\ ~(Before(M, n - 1) >= k)
    <2>1. n - 1 \notin T
      BY <1>3, <1>5
    <2>2. Before(M, n - 1) \in Nat
      BY <1>5, BeforeNext
    <2> QED
      BY <1>5, <2>1, <2>2
  <1> DEFINE s == n - 1
  <1>7. s \in Nat /\ n = s + 1
    BY <1>4, <1>5
  <1> HIDE DEF s
  <1>8. Before(M, s + 1) = IF s \in Sector \ M THEN Before(M, s) + 1 ELSE Before(M, s)
    BY <1>7, BeforeNext
  <1>9. s \in Sector \ M /\ Before(M, s) = k - 1
    BY <1>1, <1>4, <1>6, <1>7, <1>8 DEF s
  <1> QED
    BY <1>9 DEF Find, Before

\* Different calls find different sectors.
LEMMA FindDiffers ==
    ASSUME NEW M \in SUBSET Sector, NEW k \in 1..NumClear(M), NEW j \in 1..NumClear(M),
           Find(M, k) = Find(M, j)
    PROVE  k = j
  <1>1. Before(M, Find(M, k)) = k - 1 /\ Before(M, Find(M, j)) = j - 1
    BY FindFinds
  <1>2. NumClear(M) \in Nat
    BY FinitelyMany
  <1> QED
    BY <1>1, <1>2

\* The values of the directory, ...
Table == [Entry -> [inUse : BOOLEAN, sector : Sector, name : Name \cup {NoName}]]
\* ... and of a sector of a file.
Bytes == [Offset -> Byte]

\* What may be pending: the bitmap, the directory, a header or a sector of a file.
Writes == [to : {"map"}, val : SUBSET Sector] \cup [to : {"dir"}, val : Table]
            \cup [to : {"header"}, at : FileSector, val : Header]
            \cup [to : {"data"}, at : FileSector, val : Bytes]

\* What a pending write holds.
LEMMA WriteHolds ==
    ASSUME NEW w \in Writes
    PROVE  /\ w.to \in {"map", "dir", "header", "data"}
           /\ w.to = "map" => w.val \in SUBSET Sector
           /\ w.to = "dir" => w.val \in Table
           /\ w.to = "header" => w.at \in FileSector /\ w.val \in Header
           /\ w.to = "data" => w.at \in FileSector /\ w.val \in Bytes
  <1>1. CASE w \in [to : {"map"}, val : SUBSET Sector]
    BY <1>1
  <1>2. CASE w \in [to : {"dir"}, val : Table]
    BY <1>2
  <1>3. CASE w \in [to : {"header"}, at : FileSector, val : Header]
    BY <1>3
  <1>4. CASE w \in [to : {"data"}, at : FileSector, val : Bytes]
    BY <1>4
  <1> QED
    BY <1>1, <1>2, <1>3, <1>4 DEF Writes

-----------------------------------------------------------------------------
(* The disk with the writes p done.                                        *)

WritesIn(p, what) == {i \in DOMAIN p : p[i].to = what}

LastOf(p, what, before) == IF WritesIn(p, what) = {} THEN before ELSE p[Max(WritesIn(p, what))].val

HeadersOf(p, h) ==
    [s \in FileSector |->
        LET W == {i \in WritesIn(p, "header") : p[i].at = s}
        IN  IF W = {} THEN h[s] ELSE p[Max(W)].val]

\* These are the logical parts of the model.
LEMMA LogicalParts ==
    /\ LogicalMap = LastOf(pending, "map", map)
    /\ LogicalDir = LastOf(pending, "dir", dir)
    /\ LogicalHeader = HeadersOf(pending, header)
  BY DEF LogicalMap, LogicalDir, LogicalHeader, WritesTo, LastOf, HeadersOf, WritesIn

\* ... and after a step.
LEMMA LogicalPartsNext ==
    /\ LogicalMap' = LastOf(pending', "map", map')
    /\ LogicalDir' = LastOf(pending', "dir", dir')
    /\ LogicalHeader' = HeadersOf(pending', header')
  BY DEF LogicalMap, LogicalDir, LogicalHeader, WritesTo, LastOf, HeadersOf, WritesIn

\* The last write of a kind counts.
LEMMA LastIs ==
    ASSUME NEW p \in Seq(Writes), NEW what, NEW before, NEW k \in 1..Len(p),
           p[k].to = what, \A i \in 1..Len(p) : i > k => p[i].to # what
    PROVE  LastOf(p, what, before) = p[k].val
  <1> DOMAIN p = 1..Len(p) /\ Len(p) \in Nat
    BY LenProperties
  <1>1. WritesIn(p, what) \in SUBSET Nat /\ k \in WritesIn(p, what)
    BY DEF WritesIn
  <1>2. \A i \in WritesIn(p, what) : i <= k
    BY DEF WritesIn
  <1>3. Max(WritesIn(p, what)) = k
    BY <1>1, <1>2, MaxIs
  <1> QED
    BY <1>1, <1>3 DEF LastOf

\* Without one nothing changes.
LEMMA NoneIs ==
    ASSUME NEW p \in Seq(Writes), NEW what, NEW before, \A i \in 1..Len(p) : p[i].to # what
    PROVE  LastOf(p, what, before) = before
  BY LenProperties DEF LastOf, WritesIn

\* A header that is written first.
LEMMA HeaderIs ==
    ASSUME NEW p \in Seq(Writes), NEW X, NEW h \in [FileSector -> X], 1 \in 1..Len(p),
           p[1].to = "header", \A i \in 1..Len(p) : i # 1 => p[i].to # "header"
    PROVE  HeadersOf(p, h) = [h EXCEPT ![p[1].at] = p[1].val]
  <1> DOMAIN p = 1..Len(p) /\ Len(p) \in Nat
    BY LenProperties
  <1>1. WritesIn(p, "header") = {1}
    BY DEF WritesIn
  <1>2. Max({1}) = 1
    BY MaxIs
  <1>3. ASSUME NEW s \in FileSector
        PROVE  HeadersOf(p, h)[s] = IF s = p[1].at THEN p[1].val ELSE h[s]
    <2> DEFINE W == {i \in WritesIn(p, "header") : p[i].at = s}
    <2>1. HeadersOf(p, h)[s] = IF W = {} THEN h[s] ELSE p[Max(W)].val
      BY DEF HeadersOf
    <2>2. W = IF s = p[1].at THEN {1} ELSE {}
      BY <1>1
    <2> QED
      BY <1>2, <2>1, <2>2
  <1>4. DOMAIN HeadersOf(p, h) = FileSector
    BY DEF HeadersOf
  <1>5. HeadersOf(p, h) = [s \in FileSector |-> HeadersOf(p, h)[s]]
    BY DEF HeadersOf
  <1> QED
    BY <1>3, <1>5

\* No header is written.
LEMMA NoHeaders ==
    ASSUME NEW p \in Seq(Writes), NEW X, NEW h \in [FileSector -> X],
           \A i \in 1..Len(p) : p[i].to # "header"
    PROVE  HeadersOf(p, h) = h
  <1> DOMAIN p = 1..Len(p) /\ Len(p) \in Nat
    BY LenProperties
  <1>1. WritesIn(p, "header") = {}
    BY DEF WritesIn
  <1>2. \A s \in FileSector : {i \in WritesIn(p, "header") : p[i].at = s} = {}
    BY <1>1
  <1>3. HeadersOf(p, h) = [s \in FileSector |-> h[s]]
    BY <1>2 DEF HeadersOf
  <1> QED
    BY <1>3

\* The pending writes p are of these kinds, in this order.
Pends(p, kinds) ==
    /\ Len(p) = Len(kinds)
    /\ \A i \in 1..Len(kinds) : p[i].to = kinds[i]

\* The entries that are in use in d are so in e, for the same header.
Keeps(d, e) == \A i \in InUse(d) : e[i].inUse /\ e[i].sector = d[i].sector

\* What is left of a Create, ...
Growing(p, d) ==
    \/ /\ Pends(p, <<"header", "dir", "dir", "map">>)
       /\ Keeps(d, p[2].val) /\ Keeps(p[2].val, p[3].val)
       /\ \A i \in InUse(d) : d[i].sector # p[1].at
    \/ /\ Pends(p, <<"dir", "dir", "map">>)
       /\ Keeps(d, p[1].val) /\ Keeps(p[1].val, p[2].val)
    \/ Pends(p, <<"dir", "map">>) /\ Keeps(d, p[1].val)
    \/ Pends(p, <<"map">>)

\* ... of a Remove, ...
Shrinking(p, d) ==
    \/ /\ Pends(p, <<"map", "dir", "dir">>)
       /\ Keeps(p[3].val, d) /\ Keeps(p[3].val, p[2].val)
    \/ /\ Pends(p, <<"dir", "dir">>)
       /\ Keeps(p[2].val, d) /\ Keeps(p[2].val, p[1].val)
    \/ Pends(p, <<"dir">>)

\* ... and of a Write, or nothing.
Writing(p, d) ==
    \A i \in 1..Len(p) :
        /\ p[i].to = "data"
        /\ \A j \in InUse(d) : d[j].sector # p[i].at

\* The kinds one by one.
LEMMA PendsFour ==
    ASSUME NEW p, NEW a, NEW b, NEW c, NEW e, Pends(p, <<a, b, c, e>>)
    PROVE  Len(p) = 4 /\ p[1].to = a /\ p[2].to = b /\ p[3].to = c /\ p[4].to = e
  BY DEF Pends

\* Three of them, ...
LEMMA PendsThree ==
    ASSUME NEW p, NEW a, NEW b, NEW c, Pends(p, <<a, b, c>>)
    PROVE  Len(p) = 3 /\ p[1].to = a /\ p[2].to = b /\ p[3].to = c
  BY DEF Pends

\* ... two, ...
LEMMA PendsTwo ==
    ASSUME NEW p, NEW a, NEW b, Pends(p, <<a, b>>)
    PROVE  Len(p) = 2 /\ p[1].to = a /\ p[2].to = b
  BY DEF Pends

\* ... and one.
LEMMA PendsOne ==
    ASSUME NEW p, NEW a, Pends(p, <<a>>)
    PROVE  Len(p) = 1 /\ p[1].to = a
  BY DEF Pends

\* The first write is done.
LEMMA FirstDone ==
    ASSUME NEW p \in Seq(Writes), p # <<>>
    PROVE  /\ Head(p) = p[1] /\ p[1] \in Writes
           /\ Tail(p) \in Seq(Writes) /\ Len(p) \in Nat \ {0} /\ Len(Tail(p)) = Len(p) - 1
           /\ \A i \in 1..Len(Tail(p)) : Tail(p)[i] = p[i + 1]
           /\ Tail(p) = <<>> <=> Len(p) = 1
  <1>1. Len(p) \in Nat \ {0} /\ p[1] \in Writes /\ Head(p) = p[1]
    BY EmptySeq, ElementOfSeq
  <1>2. Tail(p) \in Seq(Writes) /\ Len(Tail(p)) = Len(p) - 1
    BY HeadTailProperties
  <1>3. \A i \in 1..Len(Tail(p)) : Tail(p)[i] = p[i + 1]
    BY HeadTailProperties
  <1>4. Tail(p) = <<>> <=> Len(Tail(p)) = 0
    BY <1>2, EmptySeq
  <1> QED
    BY <1>1, <1>2, <1>3, <1>4

\* The kinds that are left.
LEMMA PendsRest ==
    ASSUME NEW p \in Seq(Writes), p # <<>>, NEW a, NEW b, NEW c, NEW e
    PROVE  /\ Pends(p, <<a, b, c, e>>) =>
                  /\ Pends(Tail(p), <<b, c, e>>)
                  /\ Tail(p)[1] = p[2] /\ Tail(p)[2] = p[3] /\ Tail(p)[3] = p[4]
           /\ Pends(p, <<a, b, c>>) =>
                  Pends(Tail(p), <<b, c>>) /\ Tail(p)[1] = p[2] /\ Tail(p)[2] = p[3]
           /\ Pends(p, <<a, b>>) => Pends(Tail(p), <<b>>) /\ Tail(p)[1] = p[2]
           /\ Pends(p, <<a>>) => Tail(p) = <<>>
  <1>1. PICK t \in Seq(Writes) :
          /\ t = Tail(p) /\ Len(p) \in Nat \ {0} /\ Len(t) = Len(p) - 1
          /\ \A i \in 1..Len(t) : t[i] = p[i + 1]
          /\ t = <<>> <=> Len(p) = 1
    BY FirstDone
  <1>0. \A i \in 1..Len(t) : t[i] = p[i + 1]
    BY <1>1
  <1>2. ASSUME Pends(p, <<a, b, c, e>>)
        PROVE  Pends(t, <<b, c, e>>) /\ t[1] = p[2] /\ t[2] = p[3] /\ t[3] = p[4]
    <2>1. Len(p) = 4 /\ p[2].to = b /\ p[3].to = c /\ p[4].to = e
      BY <1>2, PendsFour
    <2>2. Len(t) = 3
      BY <1>1, <2>1
    <2>3. 1 \in 1..Len(t) /\ 2 \in 1..Len(t) /\ 3 \in 1..Len(t)
      BY <2>2
    <2>4. t[1] = p[1 + 1] /\ t[2] = p[2 + 1] /\ t[3] = p[3 + 1]
      BY <1>0, <2>3
    <2> QED
      BY <2>1, <2>2, <2>4 DEF Pends
  <1>3. ASSUME Pends(p, <<a, b, c>>)
        PROVE  Pends(t, <<b, c>>) /\ t[1] = p[2] /\ t[2] = p[3]
    <2>1. Len(p) = 3 /\ p[2].to = b /\ p[3].to = c
      BY <1>3, PendsThree
    <2>2. Len(t) = 2
      BY <1>1, <2>1
    <2>3. 1 \in 1..Len(t) /\ 2 \in 1..Len(t)
      BY <2>2
    <2>4. t[1] = p[1 + 1] /\ t[2] = p[2 + 1]
      BY <1>0, <2>3
    <2> QED
      BY <2>1, <2>2, <2>4 DEF Pends
  <1>4. ASSUME Pends(p, <<a, b>>)
        PROVE  Pends(t, <<b>>) /\ t[1] = p[2]
    <2>1. Len(p) = 2 /\ p[2].to = b
      BY <1>4, PendsTwo
    <2>2. Len(t) = 1
      BY <1>1, <2>1
    <2>3. 1 \in 1..Len(t)
      BY <2>2
    <2>4. t[1] = p[1 + 1]
      BY <1>0, <2>3
    <2> QED
      BY <2>1, <2>2, <2>4 DEF Pends
  <1>5. ASSUME Pends(p, <<a>>) PROVE t = <<>>
    BY <1>1, <1>5, PendsOne
  <1>6. t = Tail(p)
    BY <1>1
  <1> QED
    BY <1>2, <1>3, <1>4, <1>5, <1>6

-----------------------------------------------------------------------------
(* The disk that each of the phases leads to.                              *)

\* The disk with the writes p done is this.
LeadsTo(p, m, d, h, nm, nd, nh) ==
    LastOf(p, "map", m) = nm /\ LastOf(p, "dir", d) = nd /\ HeadersOf(p, h) = nh

\* A Create leads to the new map and directory, ...
LEMMA GrowingLeadsTo ==
    ASSUME NEW p \in Seq(Writes), NEW m, NEW d, NEW X, NEW h \in [FileSector -> X]
    PROVE  /\ Pends(p, <<"header", "dir", "dir", "map">>) =>
                  LeadsTo(p, m, d, h, p[4].val, p[3].val, [h EXCEPT ![p[1].at] = p[1].val])
           /\ Pends(p, <<"dir", "dir", "map">>) => LeadsTo(p, m, d, h, p[3].val, p[2].val, h)
           /\ Pends(p, <<"dir", "map">>) => LeadsTo(p, m, d, h, p[2].val, p[1].val, h)
           /\ Pends(p, <<"map">>) => LeadsTo(p, m, d, h, p[1].val, d, h)
  <1>1. ASSUME Pends(p, <<"header", "dir", "dir", "map">>)
        PROVE  LeadsTo(p, m, d, h, p[4].val, p[3].val, [h EXCEPT ![p[1].at] = p[1].val])
    <2>1. Len(p) = 4 /\ p[1].to = "header" /\ p[2].to = "dir" /\ p[3].to = "dir" /\ p[4].to = "map"
      BY <1>1, PendsFour
    <2>2. \A i \in 1..Len(p) : i = 1 \/ i = 2 \/ i = 3 \/ i = 4
      BY <2>1
    <2>3. LastOf(p, "map", m) = p[4].val
      <3>1. 4 \in 1..Len(p) /\ \A i \in 1..Len(p) : i > 4 => p[i].to # "map"
        BY <2>1, <2>2
      <3> QED
        BY <2>1, <3>1, LastIs
    <2>4. LastOf(p, "dir", d) = p[3].val
      <3>1. 3 \in 1..Len(p) /\ \A i \in 1..Len(p) : i > 3 => p[i].to # "dir"
        BY <2>1, <2>2
      <3> QED
        BY <2>1, <3>1, LastIs
    <2>5. HeadersOf(p, h) = [h EXCEPT ![p[1].at] = p[1].val]
      <3>1. 1 \in 1..Len(p) /\ \A i \in 1..Len(p) : i # 1 => p[i].to # "header"
        BY <2>1, <2>2
      <3> QED
        BY <2>1, <3>1, HeaderIs
    <2> QED
      BY <2>3, <2>4, <2>5 DEF LeadsTo
  <1>2. ASSUME Pends(p, <<"dir", "dir", "map">>)
        PROVE  LeadsTo(p, m, d, h, p[3].val, p[2].val, h)
    <2>1. Len(p) = 3 /\ p[1].to = "dir" /\ p[2].to = "dir" /\ p[3].to = "map"
      BY <1>2, PendsThree
    <2>2. \A i \in 1..Len(p) : i = 1 \/ i = 2 \/ i = 3
      BY <2>1
    <2>3. LastOf(p, "map", m) = p[3].val
      <3>1. 3 \in 1..Len(p) /\ \A i \in 1..Len(p) : i > 3 => p[i].to # "map"
        BY <2>1, <2>2
      <3> QED
        BY <2>1, <3>1, LastIs
    <2>4. LastOf(p, "dir", d) = p[2].val
      <3>1. 2 \in 1..Len(p) /\ \A i \in 1..Len(p) : i > 2 => p[i].to # "dir"
        BY <2>1, <2>2
      <3> QED
        BY <2>1, <3>1, LastIs
    <2>5. HeadersOf(p, h) = h
      <3>1. \A i \in 1..Len(p) : p[i].to # "header"
        BY <2>1, <2>2
      <3> QED
        BY <3>1, NoHeaders
    <2> QED
      BY <2>3, <2>4, <2>5 DEF LeadsTo
  <1>3. ASSUME Pends(p, <<"dir", "map">>)
        PROVE  LeadsTo(p, m, d, h, p[2].val, p[1].val, h)
    <2>1. Len(p) = 2 /\ p[1].to = "dir" /\ p[2].to = "map"
      BY <1>3, PendsTwo
    <2>2. \A i \in 1..Len(p) : i = 1 \/ i = 2
      BY <2>1
    <2>3. LastOf(p, "map", m) = p[2].val
      <3>1. 2 \in 1..Len(p) /\ \A i \in 1..Len(p) : i > 2 => p[i].to # "map"
        BY <2>1, <2>2
      <3> QED
        BY <2>1, <3>1, LastIs
    <2>4. LastOf(p, "dir", d) = p[1].val
      <3>1. 1 \in 1..Len(p) /\ \A i \in 1..Len(p) : i > 1 => p[i].to # "dir"
        BY <2>1, <2>2
      <3> QED
        BY <2>1, <3>1, LastIs
    <2>5. HeadersOf(p, h) = h
      <3>1. \A i \in 1..Len(p) : p[i].to # "header"
        BY <2>1, <2>2
      <3> QED
        BY <3>1, NoHeaders
    <2> QED
      BY <2>3, <2>4, <2>5 DEF LeadsTo
  <1>4. ASSUME Pends(p, <<"map">>)
        PROVE  LeadsTo(p, m, d, h, p[1].val, d, h)
    <2>1. Len(p) = 1 /\ p[1].to = "map"
      BY <1>4, PendsOne
    <2>2. \A i \in 1..Len(p) : i = 1
      BY <2>1
    <2>3. LastOf(p, "map", m) = p[1].val
      <3>1. 1 \in 1..Len(p) /\ \A i \in 1..Len(p) : i > 1 => p[i].to # "map"
        BY <2>1, <2>2
      <3> QED
        BY <2>1, <3>1, LastIs
    <2>4. LastOf(p, "dir", d) = d
      <3>1. \A i \in 1..Len(p) : p[i].to # "dir"
        BY <2>1, <2>2
      <3> QED
        BY <3>1, NoneIs
    <2>5. HeadersOf(p, h) = h
      <3>1. \A i \in 1..Len(p) : p[i].to # "header"
        BY <2>1, <2>2
      <3> QED
        BY <3>1, NoHeaders
    <2> QED
      BY <2>3, <2>4, <2>5 DEF LeadsTo
  <1> QED
    BY <1>1, <1>2, <1>3, <1>4

\* ... a Remove to theirs, ...
LEMMA ShrinkingLeadsTo ==
    ASSUME NEW p \in Seq(Writes), NEW m, NEW d, NEW X, NEW h \in [FileSector -> X]
    PROVE  /\ Pends(p, <<"map", "dir", "dir">>) => LeadsTo(p, m, d, h, p[1].val, p[3].val, h)
           /\ Pends(p, <<"dir", "dir">>) => LeadsTo(p, m, d, h, m, p[2].val, h)
           /\ Pends(p, <<"dir">>) => LeadsTo(p, m, d, h, m, p[1].val, h)
  <1>1. ASSUME Pends(p, <<"map", "dir", "dir">>)
        PROVE  LeadsTo(p, m, d, h, p[1].val, p[3].val, h)
    <2>1. Len(p) = 3 /\ p[1].to = "map" /\ p[2].to = "dir" /\ p[3].to = "dir"
      BY <1>1, PendsThree
    <2>2. \A i \in 1..Len(p) : i = 1 \/ i = 2 \/ i = 3
      BY <2>1
    <2>3. LastOf(p, "map", m) = p[1].val
      <3>1. 1 \in 1..Len(p) /\ \A i \in 1..Len(p) : i > 1 => p[i].to # "map"
        BY <2>1, <2>2
      <3> QED
        BY <2>1, <3>1, LastIs
    <2>4. LastOf(p, "dir", d) = p[3].val
      <3>1. 3 \in 1..Len(p) /\ \A i \in 1..Len(p) : i > 3 => p[i].to # "dir"
        BY <2>1, <2>2
      <3> QED
        BY <2>1, <3>1, LastIs
    <2>5. HeadersOf(p, h) = h
      <3>1. \A i \in 1..Len(p) : p[i].to # "header"
        BY <2>1, <2>2
      <3> QED
        BY <3>1, NoHeaders
    <2> QED
      BY <2>3, <2>4, <2>5 DEF LeadsTo
  <1>2. ASSUME Pends(p, <<"dir", "dir">>)
        PROVE  LeadsTo(p, m, d, h, m, p[2].val, h)
    <2>1. Len(p) = 2 /\ p[1].to = "dir" /\ p[2].to = "dir"
      BY <1>2, PendsTwo
    <2>2. \A i \in 1..Len(p) : i = 1 \/ i = 2
      BY <2>1
    <2>3. LastOf(p, "map", m) = m
      <3>1. \A i \in 1..Len(p) : p[i].to # "map"
        BY <2>1, <2>2
      <3> QED
        BY <3>1, NoneIs
    <2>4. LastOf(p, "dir", d) = p[2].val
      <3>1. 2 \in 1..Len(p) /\ \A i \in 1..Len(p) : i > 2 => p[i].to # "dir"
        BY <2>1, <2>2
      <3> QED
        BY <2>1, <3>1, LastIs
    <2>5. HeadersOf(p, h) = h
      <3>1. \A i \in 1..Len(p) : p[i].to # "header"
        BY <2>1, <2>2
      <3> QED
        BY <3>1, NoHeaders
    <2> QED
      BY <2>3, <2>4, <2>5 DEF LeadsTo
  <1>3. ASSUME Pends(p, <<"dir">>)
        PROVE  LeadsTo(p, m, d, h, m, p[1].val, h)
    <2>1. Len(p) = 1 /\ p[1].to = "dir"
      BY <1>3, PendsOne
    <2>2. \A i \in 1..Len(p) : i = 1
      BY <2>1
    <2>3. LastOf(p, "map", m) = m
      <3>1. \A i \in 1..Len(p) : p[i].to # "map"
        BY <2>1, <2>2
      <3> QED
        BY <3>1, NoneIs
    <2>4. LastOf(p, "dir", d) = p[1].val
      <3>1. 1 \in 1..Len(p) /\ \A i \in 1..Len(p) : i > 1 => p[i].to # "dir"
        BY <2>1, <2>2
      <3> QED
        BY <2>1, <3>1, LastIs
    <2>5. HeadersOf(p, h) = h
      <3>1. \A i \in 1..Len(p) : p[i].to # "header"
        BY <2>1, <2>2
      <3> QED
        BY <3>1, NoHeaders
    <2> QED
      BY <2>3, <2>4, <2>5 DEF LeadsTo
  <1> QED
    BY <1>1, <1>2, <1>3

\* ... and a Write to the ones there are.
LEMMA WritingLeadsTo ==
    ASSUME NEW p \in Seq(Writes), NEW m, NEW d, NEW X, NEW h \in [FileSector -> X], Writing(p, d)
    PROVE  LeadsTo(p, m, d, h, m, d, h)
  <1>2. \A i \in 1..Len(p) : p[i].to # "map" /\ p[i].to # "dir" /\ p[i].to # "header"
    BY DEF Writing
  <1>3. LastOf(p, "map", m) = m /\ LastOf(p, "dir", d) = d
    BY <1>2, NoneIs
  <1>4. HeadersOf(p, h) = h
    BY <1>2, NoHeaders
  <1> QED
    BY <1>3, <1>4 DEF LeadsTo

-----------------------------------------------------------------------------
(* Disks that differ where no file of the directory is.                    *)

\* NothingLeaks of a disk.
Marks(m, d, h) ==
    \A s \in m \ 0..(SystemSectors - 1) : \E i \in InUse(d) :
        h[d[i].sector] # NoHeader /\ s \in Owned(d, h, i)

\* The headers of the files of d are the same in g and h.
SameHeaders(d, g, h) == \A i \in InUse(d) : g[d[i].sector] = h[d[i].sector]

\* An open file is in the directory, with this header.
OpenIn(o, d, h) ==
    \A n \in Name : o[n] # Closed =>
        \E i \in InUse(d) : d[i].name = n /\ o[n].hdr = h[d[i].sector]

\* Files with the same headers own the same sectors, ...
LEMMA OwnedSame ==
    ASSUME NEW d, NEW g, NEW h, SameHeaders(d, g, h)
    PROVE  /\ \A i \in InUse(d) : Owned(d, g, i) = Owned(d, h, i)
           /\ {Owned(d, g, i) : i \in InUse(d)} = {Owned(d, h, i) : i \in InUse(d)}
  <1>1. \A i \in InUse(d) : Owned(d, g, i) = Owned(d, h, i)
    BY DEF SameHeaders, Owned
  <1> QED
    BY <1>1

\* Only the headers of the files in the directory matter.
LEMMA ConsistentSame ==
    ASSUME NEW m, NEW d, NEW g, NEW h, SameHeaders(d, g, h), Consistent(m, d, h)
    PROVE  Consistent(m, d, g)
  <1>1. /\ \A i \in InUse(d) : Owned(d, g, i) = Owned(d, h, i)
        /\ {Owned(d, g, i) : i \in InUse(d)} = {Owned(d, h, i) : i \in InUse(d)}
    BY OwnedSame
  <1>2. \A i \in InUse(d) : g[d[i].sector] = h[d[i].sector]
    BY DEF SameHeaders
  <1>3. \A i \in InUse(d) :
          /\ d[i].sector \in FileSector /\ g[d[i].sector] # NoHeader
          /\ Len(g[d[i].sector].dataSectors) = divRoundUp(g[d[i].sector].numBytes, SectorSize)
          /\ Cardinality(Owned(d, g, i)) = 1 + Len(g[d[i].sector].dataSectors)
          /\ Owned(d, g, i) \subseteq FileSector
    BY <1>1, <1>2, Zenon DEF Consistent
  <1>4. \A i, j \in InUse(d) : i # j =>
          d[i].name # d[j].name /\ Owned(d, g, i) \cap Owned(d, g, j) = {}
    BY <1>1, Zenon DEF Consistent
  <1>5. m = 0..(SystemSectors - 1) \cup UNION {Owned(d, g, i) : i \in InUse(d)}
    BY <1>1, Zenon DEF Consistent
  <1> QED
    BY <1>3, <1>4, <1>5, Zenon DEF Consistent

\* ... are open in the same way, ...
LEMMA OpenSame ==
    ASSUME NEW o, NEW d, NEW g, NEW h, SameHeaders(d, g, h), OpenIn(o, d, h)
    PROVE  OpenIn(o, d, g)
  <1>1. ASSUME NEW n \in Name, o[n] # Closed
        PROVE  \E i \in InUse(d) : d[i].name = n /\ o[n].hdr = g[d[i].sector]
    <2>1. PICK i \in InUse(d) : d[i].name = n /\ o[n].hdr = h[d[i].sector]
      BY <1>1 DEF OpenIn
    <2>2. g[d[i].sector] = h[d[i].sector]
      BY DEF SameHeaders
    <2> QED
      BY <2>1, <2>2
  <1> QED
    BY <1>1 DEF OpenIn

\* ... and account for the same marks.
LEMMA MarksSame ==
    ASSUME NEW m, NEW d, NEW g, NEW h, SameHeaders(d, g, h), Marks(m, d, h)
    PROVE  Marks(m, d, g)
  <1>1. ASSUME NEW s \in m \ 0..(SystemSectors - 1)
        PROVE  \E i \in InUse(d) : g[d[i].sector] # NoHeader /\ s \in Owned(d, g, i)
    <2>1. PICK i \in InUse(d) : h[d[i].sector] # NoHeader /\ s \in Owned(d, h, i)
      BY <1>1 DEF Marks
    <2>2. g[d[i].sector] = h[d[i].sector] /\ Owned(d, g, i) = Owned(d, h, i)
      BY OwnedSame DEF SameHeaders
    <2> QED
      BY <2>1, <2>2
  <1> QED
    BY <1>1 DEF Marks

\* A sector that has an owner keeps it if the directory keeps its entries.
LEMMA MarksKept ==
    ASSUME NEW m, NEW d \in Table, NEW e \in Table, NEW h, Keeps(d, e), Marks(m, d, h)
    PROVE  Marks(m, e, h)
  <1>1. \A i \in InUse(d) : i \in InUse(e) /\ e[i].sector = d[i].sector
    BY DEF Keeps, InUse
  <1>2. \A i \in InUse(d) : Owned(e, h, i) = Owned(d, h, i)
    BY <1>1 DEF Owned
  <1> QED
    BY <1>1, <1>2, Zenon DEF Marks

\* On a consistent disk every sector that is marked has an owner.
LEMMA ConsistentMarks ==
    ASSUME NEW m, NEW d, NEW h, Consistent(m, d, h)
    PROVE  Marks(m, d, h)
  <1>1. m = 0..(SystemSectors - 1) \cup UNION {Owned(d, h, i) : i \in InUse(d)}
    BY Zenon DEF Consistent
  <1>2. \A i \in InUse(d) : h[d[i].sector] # NoHeader
    BY Zenon DEF Consistent
  <1> QED
    BY <1>1, <1>2, Zenon DEF Marks

-----------------------------------------------------------------------------
(* One pending write is done.                                              *)

\* What is left to write is in one of the phases.
InPhase(p, d) == Growing(p, d) \/ Shrinking(p, d) \/ Writing(p, d)

\* The writes p and q lead from their disks to the same.
SameEnd(p, m, d, h, q, n, e, g) ==
    /\ LastOf(q, "map", n) = LastOf(p, "map", m)
    /\ LastOf(q, "dir", e) = LastOf(p, "dir", d)
    /\ SameHeaders(LastOf(p, "dir", d), HeadersOf(q, g), HeadersOf(p, h))

\* Writes that lead to the same disk have the same end.
LEMMA SameEndIs ==
    ASSUME NEW p, NEW m, NEW d, NEW h, NEW q, NEW n, NEW e, NEW g, NEW x, NEW y, NEW z,
           LeadsTo(p, m, d, h, x, y, z), LeadsTo(q, n, e, g, x, y, z)
    PROVE  SameEnd(p, m, d, h, q, n, e, g)
  BY DEF LeadsTo, SameEnd, SameHeaders

\* ... a header, which no file has yet.
LEMMA HeaderWritten ==
    ASSUME NEW p \in Seq(Writes), p # <<>>, NEW m, NEW d \in Table, NEW X, NEW h \in [FileSector -> X],
           p[1].to = "header", InPhase(p, d), Marks(m, d, h),
           NEW g \in [FileSector -> X], g = [h EXCEPT ![p[1].at] = p[1].val]
    PROVE  InPhase(Tail(p), d) /\ Marks(m, d, g) /\ SameEnd(p, m, d, h, Tail(p), m, d, g)
  <1>1. /\ Pends(p, <<"header", "dir", "dir", "map">>)
        /\ Keeps(d, p[2].val) /\ Keeps(p[2].val, p[3].val)
        /\ \A i \in InUse(d) : d[i].sector # p[1].at
    <2>1. ~Writing(p, d)
      BY FirstDone DEF Writing
    <2>2. ~Shrinking(p, d)
      BY PendsThree, PendsTwo, PendsOne DEF Shrinking
    <2>3. /\ ~Pends(p, <<"dir", "dir", "map">>)
          /\ ~Pends(p, <<"dir", "map">>) /\ ~Pends(p, <<"map">>)
      BY PendsThree, PendsTwo, PendsOne
    <2> QED
      BY <2>1, <2>2, <2>3 DEF InPhase, Growing
  <1>2. /\ Tail(p) \in Seq(Writes) /\ Pends(Tail(p), <<"dir", "dir", "map">>)
        /\ Tail(p)[1] = p[2] /\ Tail(p)[2] = p[3] /\ Tail(p)[3] = p[4]
    BY <1>1, FirstDone, PendsRest
  <1>3. Growing(Tail(p), d)
    BY <1>1, <1>2 DEF Growing
  <1>4. SameHeaders(d, g, h)
    BY <1>1 DEF SameHeaders
  <1>5. LeadsTo(p, m, d, h, p[4].val, p[3].val, g)
    BY <1>1, GrowingLeadsTo
  <1>6. LeadsTo(Tail(p), m, d, g, p[4].val, p[3].val, g)
    BY <1>2, GrowingLeadsTo
  <1> QED
    BY <1>3, <1>4, <1>5, <1>6, MarksSame, SameEndIs DEF InPhase

\* ... the bitmap, last of a Create or first of a Remove.
LEMMA MapWritten ==
    ASSUME NEW p \in Seq(Writes), p # <<>>, NEW m, NEW d \in Table, NEW X, NEW h \in [FileSector -> X],
           p[1].to = "map", InPhase(p, d),
           Consistent(LastOf(p, "map", m), LastOf(p, "dir", d), HeadersOf(p, h))
    PROVE  /\ InPhase(Tail(p), d) /\ Marks(p[1].val, d, h)
           /\ SameEnd(p, m, d, h, Tail(p), p[1].val, d, h)
  <1>1. \/ Pends(p, <<"map">>)
        \/ /\ Pends(p, <<"map", "dir", "dir">>)
           /\ Keeps(p[3].val, d) /\ Keeps(p[3].val, p[2].val)
    <2>1. ~Writing(p, d)
      BY FirstDone DEF Writing
    <2>2. /\ ~Pends(p, <<"header", "dir", "dir", "map">>)
          /\ ~Pends(p, <<"dir", "dir", "map">>) /\ ~Pends(p, <<"dir", "map">>)
          /\ ~Pends(p, <<"dir", "dir">>) /\ ~Pends(p, <<"dir">>)
      BY PendsFour, PendsThree, PendsTwo, PendsOne
    <2> QED
      BY <2>1, <2>2 DEF InPhase, Growing, Shrinking
  <1>2. CASE Pends(p, <<"map">>)
    <2>1. Tail(p) = <<>> /\ Tail(p) \in Seq(Writes)
      BY <1>2, FirstDone, PendsRest
    <2>2. LeadsTo(p, m, d, h, p[1].val, d, h)
      BY <1>2, GrowingLeadsTo
    <2>3. Writing(Tail(p), d)
      BY <2>1 DEF Writing
    <2>4. LeadsTo(Tail(p), p[1].val, d, h, p[1].val, d, h)
      BY <2>1, <2>3, WritingLeadsTo
    <2>5. Marks(p[1].val, d, h)
      BY <2>2, ConsistentMarks DEF LeadsTo
    <2> QED
      BY <2>2, <2>3, <2>4, <2>5, SameEndIs DEF InPhase
  <1>3. CASE /\ Pends(p, <<"map", "dir", "dir">>)
             /\ Keeps(p[3].val, d) /\ Keeps(p[3].val, p[2].val)
    <2>1. /\ Tail(p) \in Seq(Writes) /\ Pends(Tail(p), <<"dir", "dir">>)
          /\ Tail(p)[1] = p[2] /\ Tail(p)[2] = p[3]
      BY <1>3, FirstDone, PendsRest
    <2>2. LeadsTo(p, m, d, h, p[1].val, p[3].val, h)
      BY <1>3, ShrinkingLeadsTo
    <2>3. Shrinking(Tail(p), d)
      BY <1>3, <2>1 DEF Shrinking
    <2>4. LeadsTo(Tail(p), p[1].val, d, h, p[1].val, p[3].val, h)
      BY <2>1, ShrinkingLeadsTo
    <2>5. p[3].val \in Table
      <3>1. Len(p) = 3 /\ p[3].to = "dir"
        BY <1>3, PendsThree
      <3>2. p[3] \in Writes
        BY <3>1, ElementOfSeq
      <3> QED
        BY <3>1, <3>2, WriteHolds
    <2>6. Marks(p[1].val, d, h)
      <3>1. Marks(p[1].val, p[3].val, h)
        BY <2>2, ConsistentMarks DEF LeadsTo
      <3> QED
        BY <1>3, <2>5, <3>1, MarksKept
    <2> QED
      BY <2>2, <2>3, <2>4, <2>6, SameEndIs DEF InPhase
  <1> QED
    BY <1>1, <1>2, <1>3

\* What a pending write of the directory holds.
LEMMA DirValue ==
    ASSUME NEW p \in Seq(Writes), NEW k \in 1..Len(p), p[k].to = "dir"
    PROVE  p[k].val \in Table
  BY ElementOfSeq, WriteHolds

\* ... a sector of the directory.
LEMMA DirWritten ==
    ASSUME NEW p \in Seq(Writes), p # <<>>, NEW m, NEW d \in Table, NEW X, NEW h \in [FileSector -> X],
           p[1].to = "dir", InPhase(p, d), Marks(m, d, h),
           Consistent(LastOf(p, "map", m), LastOf(p, "dir", d), HeadersOf(p, h))
    PROVE  /\ InPhase(Tail(p), p[1].val) /\ Marks(m, p[1].val, h)
           /\ SameEnd(p, m, d, h, Tail(p), m, p[1].val, h)
  <1> DEFINE e == p[1].val
  <1>1. e \in Table /\ Tail(p) \in Seq(Writes) /\ Len(p) \in Nat \ {0}
    <2>1. Len(p) \in Nat \ {0} /\ Tail(p) \in Seq(Writes)
      BY FirstDone
    <2>2. 1 \in 1..Len(p)
      BY <2>1
    <2> QED
      BY <2>1, <2>2, DirValue
  <1>2. \/ /\ Pends(p, <<"dir", "dir", "map">>)
           /\ Keeps(d, p[1].val) /\ Keeps(p[1].val, p[2].val)
        \/ Pends(p, <<"dir", "map">>) /\ Keeps(d, p[1].val)
        \/ /\ Pends(p, <<"dir", "dir">>)
           /\ Keeps(p[2].val, d) /\ Keeps(p[2].val, p[1].val)
        \/ Pends(p, <<"dir">>)
    <2>1. ~Writing(p, d)
      BY FirstDone DEF Writing
    <2>2. /\ ~Pends(p, <<"header", "dir", "dir", "map">>)
          /\ ~Pends(p, <<"map", "dir", "dir">>) /\ ~Pends(p, <<"map">>)
      BY PendsFour, PendsThree, PendsOne
    <2> QED
      BY <2>1, <2>2 DEF InPhase, Growing, Shrinking
  <1>3. CASE /\ Pends(p, <<"dir", "dir", "map">>)
             /\ Keeps(d, p[1].val) /\ Keeps(p[1].val, p[2].val)
    <2>1. Pends(Tail(p), <<"dir", "map">>) /\ Tail(p)[1] = p[2] /\ Tail(p)[2] = p[3]
      BY <1>3, PendsRest
    <2>2. Growing(Tail(p), e)
      BY <1>3, <2>1 DEF Growing
    <2>3. LeadsTo(p, m, d, h, p[3].val, p[2].val, h)
      BY <1>3, GrowingLeadsTo
    <2>4. LeadsTo(Tail(p), m, e, h, p[3].val, p[2].val, h)
      BY <1>1, <2>1, GrowingLeadsTo
    <2>5. Marks(m, e, h)
      BY <1>1, <1>3, MarksKept
    <2> QED
      BY <2>2, <2>3, <2>4, <2>5, SameEndIs DEF InPhase
  <1>4. CASE Pends(p, <<"dir", "map">>) /\ Keeps(d, p[1].val)
    <2>1. Pends(Tail(p), <<"map">>) /\ Tail(p)[1] = p[2]
      BY <1>4, PendsRest
    <2>2. Growing(Tail(p), e)
      BY <2>1 DEF Growing
    <2>3. LeadsTo(p, m, d, h, p[2].val, p[1].val, h)
      BY <1>4, GrowingLeadsTo
    <2>4. LeadsTo(Tail(p), m, e, h, p[2].val, e, h)
      BY <1>1, <2>1, GrowingLeadsTo
    <2>5. Marks(m, e, h)
      BY <1>1, <1>4, MarksKept
    <2> QED
      BY <2>2, <2>3, <2>4, <2>5, SameEndIs DEF InPhase
  <1>5. CASE /\ Pends(p, <<"dir", "dir">>)
             /\ Keeps(p[2].val, d) /\ Keeps(p[2].val, p[1].val)
    <2>1. Pends(Tail(p), <<"dir">>) /\ Tail(p)[1] = p[2]
      BY <1>5, PendsRest
    <2>2. Shrinking(Tail(p), e)
      BY <2>1 DEF Shrinking
    <2>3. LeadsTo(p, m, d, h, m, p[2].val, h)
      BY <1>5, ShrinkingLeadsTo
    <2>4. LeadsTo(Tail(p), m, e, h, m, p[2].val, h)
      BY <1>1, <2>1, ShrinkingLeadsTo
    <2>5. p[2].val \in Table
      <3>1. 2 \in 1..Len(p) /\ p[2].to = "dir"
        BY <1>5, PendsTwo
      <3> QED
        BY <3>1, DirValue
    <2>6. Marks(m, p[2].val, h)
      BY <2>3, ConsistentMarks DEF LeadsTo
    <2>7. Marks(m, e, h)
      BY <1>1, <1>5, <2>5, <2>6, MarksKept
    <2> QED
      BY <2>2, <2>3, <2>4, <2>7, SameEndIs DEF InPhase
  <1>6. CASE Pends(p, <<"dir">>)
    <2>1. Tail(p) = <<>>
      BY <1>6, PendsRest
    <2>2. Writing(Tail(p), e)
      <3>1. Writing(<<>>, e)
        BY DEF Writing
      <3> QED
        BY <2>1, <3>1
    <2>3. LeadsTo(p, m, d, h, m, e, h)
      BY <1>6, ShrinkingLeadsTo
    <2>4. LeadsTo(Tail(p), m, e, h, m, e, h)
      BY <1>1, <2>2, WritingLeadsTo
    <2>5. Marks(m, e, h)
      BY <2>3, ConsistentMarks DEF LeadsTo
    <2> QED
      BY <2>2, <2>3, <2>4, <2>5, SameEndIs DEF InPhase
  <1> QED
    BY <1>2, <1>3, <1>4, <1>5, <1>6

\* ... or a sector of a file, which holds no header.
LEMMA DataWritten ==
    ASSUME NEW p \in Seq(Writes), p # <<>>, NEW m, NEW d \in Table, NEW X, NEW h \in [FileSector -> X],
           p[1].to = "data", InPhase(p, d), Marks(m, d, h),
           NoHeader \in X, NEW g \in [FileSector -> X], g = [h EXCEPT ![p[1].at] = NoHeader]
    PROVE  InPhase(Tail(p), d) /\ Marks(m, d, g) /\ SameEnd(p, m, d, h, Tail(p), m, d, g)
  <1>1. /\ Len(p) \in Nat \ {0} /\ Tail(p) \in Seq(Writes)
        /\ \A i \in 1..Len(Tail(p)) : Tail(p)[i] = p[i + 1] /\ i + 1 \in 1..Len(p)
    <2>1. /\ Len(p) \in Nat \ {0} /\ Tail(p) \in Seq(Writes) /\ Len(Tail(p)) = Len(p) - 1
          /\ \A i \in 1..Len(Tail(p)) : Tail(p)[i] = p[i + 1]
      BY FirstDone
    <2>2. \A i \in 1..(Len(p) - 1) : i + 1 \in 1..Len(p)
      BY <2>1
    <2> QED
      BY <2>1, <2>2
  <1>2. Writing(p, d)
    <2>1. /\ ~Pends(p, <<"header", "dir", "dir", "map">>) /\ ~Pends(p, <<"dir", "dir", "map">>)
          /\ ~Pends(p, <<"dir", "map">>) /\ ~Pends(p, <<"map">>) /\ ~Pends(p, <<"map", "dir", "dir">>)
          /\ ~Pends(p, <<"dir", "dir">>) /\ ~Pends(p, <<"dir">>)
      BY PendsFour, PendsThree, PendsTwo, PendsOne
    <2> QED
      BY <2>1 DEF InPhase, Growing, Shrinking
  <1>3. Writing(Tail(p), d)
    BY <1>1, <1>2 DEF Writing
  <1>4. SameHeaders(d, g, h)
    <2>1. 1 \in 1..Len(p)
      BY <1>1
    <2>2. \A j \in InUse(d) : d[j].sector # p[1].at
      BY <1>2, <2>1 DEF Writing
    <2> QED
      BY <2>2 DEF SameHeaders
  <1>5. LeadsTo(p, m, d, h, m, d, h) /\ LeadsTo(Tail(p), m, d, g, m, d, g)
    BY <1>1, <1>2, <1>3, WritingLeadsTo
  <1>6. SameEnd(p, m, d, h, Tail(p), m, d, g)
    BY <1>4, <1>5 DEF LeadsTo, SameEnd
  <1> QED
    BY <1>3, <1>4, <1>6, MarksSame DEF InPhase

-----------------------------------------------------------------------------
(***************************************************************************)
(* The invariant.                                                           *)
(***************************************************************************)
FileInv ==
    /\ TypeOK /\ pending \in Seq(Writes)
    /\ Marks(map, dir, header)
    /\ InPhase(pending, dir)
    /\ damaged => pending = <<>> /\ result = None
    /\ ~damaged => /\ Consistent(LogicalMap, LogicalDir, LogicalHeader)
                   /\ OpenIn(opened, LogicalDir, LogicalHeader)

\* A header spoils the bytes in its sector.
LEMMA JunkType ==
    Junk \in Bytes
  <1>1. PICK b \in Byte : \A c \in Byte : c <= b
    BY FileSystemAssumption
  <1>2. Byte \in SUBSET Nat
    BY Sizes
  <1>3. Max(Byte) = b
    BY <1>1, <1>2, MaxIs
  <1> QED
    BY <1>3 DEF Junk, Bytes

\* WriteSector leads to the same disk as before.
LEMMA WriteSectorLeads ==
    ASSUME FileInv, WriteSector
    PROVE  /\ ~damaged /\ TypeOK' /\ InPhase(Tail(pending), dir') /\ Marks(map', dir', header')
           /\ SameEnd(pending, map, dir, header, Tail(pending), map', dir', header')
  <1> DEFINE X == Header \cup {NoHeader}
  <1>1. PICK p \in Seq(Writes) : p = pending
    BY DEF FileInv
  <1>2. /\ p # <<>> /\ Head(p) = p[1] /\ p[1] \in Writes /\ Len(p) \in Nat \ {0}
        /\ Tail(p) \in Seq(Writes) /\ Tail(p) = <<>> <=> Len(p) = 1
    BY <1>1, FirstDone DEF WriteSector
  <1>3. PICK w \in Writes : w = p[1]
    BY <1>2
  <1>4. /\ map \in SUBSET Sector /\ dir \in Table /\ header \in [FileSector -> X]
        /\ data \in [FileSector -> Bytes] /\ InPhase(p, dir) /\ Marks(map, dir, header)
    BY <1>1 DEF FileInv, TypeOK, Table, Bytes
  <1>5. ~damaged
    BY <1>1, <1>2 DEF FileInv
  <1>6. Consistent(LastOf(p, "map", map), LastOf(p, "dir", dir), HeadersOf(p, header))
    BY <1>1, <1>5, LogicalParts DEF FileInv
  <1>7. /\ map' = IF w.to = "map" THEN w.val ELSE map
        /\ dir' = IF w.to = "dir" THEN w.val ELSE dir
        /\ header' = IF w.to = "header" THEN [header EXCEPT ![w.at] = w.val]
                     ELSE IF w.to = "data" THEN [header EXCEPT ![w.at] = NoHeader]
                     ELSE header
        /\ data' = IF w.to = "header" THEN [data EXCEPT ![w.at] = Junk]
                   ELSE IF w.to = "data" THEN [data EXCEPT ![w.at] = w.val]
                   ELSE data
        /\ pending' = Tail(p) /\ busy' = IF Len(p) = 1 THEN Nobody ELSE busy
        /\ opened' = opened /\ result' = result /\ damaged' = damaged
    BY <1>1, <1>2, <1>3 DEF WriteSector
  <1>8. /\ w.to \in {"map", "dir", "header", "data"}
        /\ w.to = "map" => w.val \in SUBSET Sector
        /\ w.to = "dir" => w.val \in Table
        /\ w.to = "header" => w.at \in FileSector /\ w.val \in Header
        /\ w.to = "data" => w.at \in FileSector /\ w.val \in Bytes
    BY WriteHolds
  <1>9. /\ map' \in SUBSET Sector /\ dir' \in Table /\ header' \in [FileSector -> X]
        /\ data' \in [FileSector -> Bytes]
    BY <1>4, <1>7, <1>8, JunkType
  <1>10. TypeOK'
    <2>1. busy' \in Name \cup {Nobody} /\ (pending' = <<>> <=> busy' = Nobody)
      BY <1>1, <1>2, <1>7 DEF FileInv, TypeOK
    <2>2. opened' \in [Name -> [hdr : Header, seekPosition : 0..MaxFileSize] \cup {Closed}]
          /\ damaged' \in BOOLEAN
      BY <1>7 DEF FileInv, TypeOK
    <2> QED
      BY <1>9, <2>1, <2>2 DEF TypeOK, Table, Bytes
  <1>11. /\ InPhase(Tail(p), dir') /\ Marks(map', dir', header')
         /\ SameEnd(p, map, dir, header, Tail(p), map', dir', header')
    <2>1. CASE w.to = "header"
      <3>1. header' = [header EXCEPT ![p[1].at] = p[1].val] /\ map' = map /\ dir' = dir
        BY <1>3, <1>7, <2>1
      <3> QED
        BY <1>2, <1>3, <1>4, <1>9, <2>1, <3>1, HeaderWritten
    <2>2. CASE w.to = "map"
      <3>1. map' = p[1].val /\ dir' = dir /\ header' = header
        BY <1>3, <1>7, <2>2
      <3> QED
        BY <1>2, <1>3, <1>4, <1>6, <2>2, <3>1, MapWritten
    <2>3. CASE w.to = "dir"
      <3>1. dir' = p[1].val /\ map' = map /\ header' = header
        BY <1>3, <1>7, <2>3
      <3> QED
        BY <1>2, <1>3, <1>4, <1>6, <2>3, <3>1, DirWritten
    <2>4. CASE w.to = "data"
      <3>1. header' = [header EXCEPT ![p[1].at] = NoHeader] /\ map' = map /\ dir' = dir
        BY <1>3, <1>7, <2>4
      <3> QED
        BY <1>2, <1>3, <1>4, <1>9, <2>4, <3>1, DataWritten
    <2> QED
      BY <1>8, <2>1, <2>2, <2>3, <2>4
  <1> QED
    BY <1>1, <1>5, <1>10, <1>11

\* ... and keeps the invariant.
LEMMA WriteSectorKeeps ==
    ASSUME FileInv, WriteSector
    PROVE  FileInv'
  <1>1. PICK p \in Seq(Writes) : p = pending /\ p # <<>> /\ Tail(p) \in Seq(Writes)
    BY FirstDone DEF FileInv, WriteSector
  <1>2. /\ ~damaged /\ TypeOK' /\ InPhase(Tail(p), dir') /\ Marks(map', dir', header')
        /\ SameEnd(p, map, dir, header, Tail(p), map', dir', header')
    BY <1>1, WriteSectorLeads
  <1>3. pending' = Tail(p) /\ opened' = opened /\ damaged' = damaged
    BY <1>1 DEF WriteSector
  <1>4. /\ Consistent(LastOf(p, "map", map), LastOf(p, "dir", dir), HeadersOf(p, header))
        /\ OpenIn(opened, LastOf(p, "dir", dir), HeadersOf(p, header))
    BY <1>1, <1>2, LogicalParts DEF FileInv
  <1>5. Consistent(LogicalMap, LogicalDir, LogicalHeader)'
    BY <1>2, <1>3, <1>4, LogicalPartsNext, ConsistentSame DEF SameEnd
  <1>6. OpenIn(opened, LogicalDir, LogicalHeader)'
    BY <1>2, <1>3, <1>4, LogicalPartsNext, OpenSame DEF SameEnd
  <1> QED
    BY <1>1, <1>2, <1>3, <1>5, <1>6 DEF FileInv

\* The values of opened.
OpenType == [Name -> [hdr : Header, seekPosition : 0..MaxFileSize] \cup {Closed}]

\* Between two operations.
LEMMA IdleHas ==
    ASSUME FileInv, pending = <<>>
    PROVE  /\ busy = Nobody /\ dir \in Table /\ header \in [FileSector -> Header \cup {NoHeader}]
           /\ map \in SUBSET Sector /\ data \in [FileSector -> Bytes] /\ opened \in OpenType
           /\ Marks(map, dir, header)
           /\ ~damaged => Consistent(map, dir, header) /\ OpenIn(opened, dir, header)
  <1>1. /\ busy = Nobody /\ dir \in Table /\ header \in [FileSector -> Header \cup {NoHeader}]
        /\ map \in SUBSET Sector /\ data \in [FileSector -> Bytes] /\ opened \in OpenType
        /\ Marks(map, dir, header)
    BY DEF FileInv, TypeOK, Table, Bytes, OpenType
  <1>2. PICK p \in Seq(Writes) : p = pending
    BY DEF FileInv
  <1>3. Writing(p, dir)
    <2>1. Writing(<<>>, dir)
      BY DEF Writing
    <2> QED
      BY <1>2, <2>1
  <1>4. LeadsTo(p, map, dir, header, map, dir, header)
    BY <1>1, <1>3, WritingLeadsTo
  <1>5. LogicalMap = map /\ LogicalDir = dir /\ LogicalHeader = header
    BY <1>2, <1>4, LogicalParts DEF LeadsTo
  <1>6. ~damaged => Consistent(map, dir, header) /\ OpenIn(opened, dir, header)
    BY <1>5 DEF FileInv
  <1> QED
    BY <1>1, <1>6

\* A step that leaves the disk alone and writes nothing.
LEMMA QuietNext ==
    ASSUME FileInv, UNCHANGED Disk, pending' = <<>>, busy' = Nobody,
           opened' \in OpenType, damaged' \in BOOLEAN, damaged' => result' = None,
           ~damaged' => Consistent(map, dir, header) /\ OpenIn(opened', dir, header)
    PROVE  FileInv'
  <1>1. map' = map /\ dir' = dir /\ header' = header /\ data' = data
    BY DEF Disk
  <1>2. /\ dir \in Table /\ header \in [FileSector -> Header \cup {NoHeader}]
        /\ map \in SUBSET Sector /\ data \in [FileSector -> Bytes]
    BY DEF FileInv, TypeOK, Table, Bytes
  <1>3. TypeOK'
    BY <1>1, <1>2 DEF TypeOK, Table, Bytes, OpenType
  <1>4. PICK p \in Seq(Writes) : p = <<>>
    BY EmptySeq
  <1>5. Writing(p, dir)
    <2>1. Writing(<<>>, dir)
      BY DEF Writing
    <2> QED
      BY <1>4, <2>1
  <1>6. LeadsTo(p, map, dir, header, map, dir, header)
    BY <1>2, <1>5, WritingLeadsTo
  <1>7. LogicalMap' = map /\ LogicalDir' = dir /\ LogicalHeader' = header
    BY <1>1, <1>4, <1>6, LogicalPartsNext DEF LeadsTo
  <1>8. pending' \in Seq(Writes) /\ InPhase(pending, dir)' /\ Marks(map, dir, header)'
    BY <1>1, <1>4, <1>5 DEF FileInv, InPhase
  <1>9. ~damaged' => /\ Consistent(LogicalMap, LogicalDir, LogicalHeader)'
                     /\ OpenIn(opened, LogicalDir, LogicalHeader)'
    BY <1>7
  <1> QED
    BY <1>3, <1>8, <1>9 DEF FileInv

\* An operation that writes starts.
LEMMA StartNext ==
    ASSUME FileInv, pending = <<>>, ~damaged, UNCHANGED <<Disk, damaged>>,
           NEW p \in Seq(Writes), p # <<>>, NEW name \in Name, Start(name, p),
           InPhase(p, dir), opened' \in OpenType,
           NEW nm, NEW nd, NEW nh, LeadsTo(p, map, dir, header, nm, nd, nh),
           Consistent(nm, nd, nh), OpenIn(opened', nd, nh)
    PROVE  FileInv'
  <1>1. /\ map' = map /\ dir' = dir /\ header' = header /\ data' = data /\ damaged' = damaged
        /\ pending' = p /\ busy' = name
    BY DEF Disk, Start
  <1>2. /\ dir \in Table /\ header \in [FileSector -> Header \cup {NoHeader}]
        /\ map \in SUBSET Sector /\ data \in [FileSector -> Bytes]
    BY DEF FileInv, TypeOK, Table, Bytes
  <1>3. TypeOK'
    <2>1. (pending' = <<>> <=> busy' = Nobody) /\ busy' \in Name \cup {Nobody}
      BY <1>1, Sizes
    <2>2. damaged' \in BOOLEAN
      <3>1. damaged \in BOOLEAN
        BY DEF FileInv, TypeOK
      <3> QED
        BY <1>1, <3>1
    <2> QED
      BY <1>1, <1>2, <2>1, <2>2 DEF TypeOK, Table, Bytes, OpenType
  <1>4. LogicalMap' = nm /\ LogicalDir' = nd /\ LogicalHeader' = nh
    BY <1>1, LogicalPartsNext DEF LeadsTo
  <1>5. pending' \in Seq(Writes) /\ InPhase(pending, dir)' /\ Marks(map, dir, header)'
    BY <1>1 DEF FileInv
  <1>6. /\ Consistent(LogicalMap, LogicalDir, LogicalHeader)'
        /\ OpenIn(opened, LogicalDir, LogicalHeader)'
    BY <1>4
  <1> QED
    BY <1>1, <1>3, <1>5, <1>6 DEF FileInv

\* A call that fails leaves everything as it is.
LEMMA RefusedKeeps ==
    ASSUME FileInv, Idle, Refused, UNCHANGED <<Disk, damaged>>
    PROVE  FileInv'
  <1>1. pending = <<>> /\ ~damaged
    BY DEF Idle
  <1>2. /\ busy = Nobody /\ opened \in OpenType
        /\ Consistent(map, dir, header) /\ OpenIn(opened, dir, header)
    BY <1>1, IdleHas
  <1>3. pending' = pending /\ busy' = busy /\ opened' = opened /\ damaged' = damaged /\ UNCHANGED Disk
    BY DEF Refused
  <1> QED
    BY <1>1, <1>2, <1>3, QuietNext DEF FileInv, TypeOK

\* Return keeps the invariant, ...
LEMMA ReturnKeeps ==
    ASSUME FileInv, Return
    PROVE  FileInv'
  <1>1. /\ pending = <<>> /\ pending' = pending /\ busy' = busy /\ opened' = opened
        /\ damaged' = damaged /\ result' = None /\ UNCHANGED Disk
    BY DEF Return
  <1>2. /\ busy = Nobody /\ opened \in OpenType
        /\ ~damaged => Consistent(map, dir, header) /\ OpenIn(opened, dir, header)
    BY <1>1, IdleHas
  <1>3. damaged \in BOOLEAN
    BY DEF FileInv, TypeOK
  <1> QED
    BY <1>1, <1>2, <1>3, QuietNext

\* ... and so does an exit: the disk is as it was, and the files are closed.
LEMMA CrashKeeps ==
    ASSUME FileInv, Crash
    PROVE  FileInv'
  <1>1. /\ pending' = <<>> /\ busy' = Nobody /\ opened' = [n \in Name |-> Closed]
        /\ damaged' = ~Consistent(map, dir, header) /\ result' = None /\ UNCHANGED Disk
    BY DEF Crash
  <1>2. opened' \in OpenType /\ OpenIn(opened', dir, header)
    BY <1>1 DEF OpenType, OpenIn
  <1>3. damaged' \in BOOLEAN /\ (~damaged' => Consistent(map, dir, header))
    BY <1>1
  <1> QED
    BY <1>1, <1>2, <1>3, QuietNext

-----------------------------------------------------------------------------
(* Headers and entries.                                                    *)

\* What a header holds.
LEMMA HeaderHas ==
    ASSUME NEW hdr \in Header
    PROVE  /\ MaxFileSize \in Nat /\ hdr.numBytes \in 0..MaxFileSize /\ hdr.numBytes \in Nat
           /\ Len(hdr.dataSectors) \in 0..NumDirect /\ Len(hdr.dataSectors) \in Nat
           /\ DOMAIN hdr.dataSectors = 1..Len(hdr.dataSectors)
           /\ \A k \in 1..Len(hdr.dataSectors) : hdr.dataSectors[k] \in DataSectors(hdr)
           /\ DataSectors(hdr) \subseteq FileSector
  <1>1. MaxFileSize \in Nat
    BY Sizes, Times DEF MaxFileSize
  <1>2. /\ hdr.numBytes \in 0..MaxFileSize
        /\ hdr.dataSectors \in UNION {[1..n -> FileSector] : n \in 0..NumDirect}
    BY DEF Header
  <1>3. PICK n \in 0..NumDirect : hdr.dataSectors \in [1..n -> FileSector]
    BY <1>2
  <1>4. n \in Nat
    BY Sizes, <1>3
  <1>5. hdr.dataSectors \in Seq(FileSector) /\ Len(hdr.dataSectors) = n
    BY <1>3, <1>4
  <1>6. \A k \in 1..n : hdr.dataSectors[k] \in FileSector
    BY <1>3
  <1>7. DOMAIN hdr.dataSectors = 1..n
    BY <1>3
  <1>8. DataSectors(hdr) = {hdr.dataSectors[i] : i \in 1..n}
    BY <1>7 DEF DataSectors
  <1> QED
    BY <1>1, <1>2, <1>4, <1>5, <1>6, <1>7, <1>8

\* FindIndex finds the entry of a name that is in the directory.
LEMMA FindIndexIs ==
    ASSUME NEW d, NEW name, Entries(d, name) # {}
    PROVE  FindIndex(d, name) \in InUse(d) /\ d[FindIndex(d, name)].name = name
  <1>1. Entries(d, name) \in SUBSET Nat
    BY DEF Entries, Entry
  <1>2. FindIndex(d, name) \in Entries(d, name)
    BY <1>1, MinIn DEF FindIndex
  <1> QED
    BY <1>2 DEF Entries, InUse

\* What an entry of a consistent directory leads to.
LEMMA EntryHas ==
    ASSUME NEW m, NEW d, NEW h \in [FileSector -> Header \cup {NoHeader}], Consistent(m, d, h),
           NEW i \in InUse(d)
    PROVE  LET hdr == h[d[i].sector]
           IN  /\ d[i].sector \in FileSector /\ hdr \in Header
               /\ Len(hdr.dataSectors) = divRoundUp(hdr.numBytes, SectorSize)
               /\ Owned(d, h, i) = {d[i].sector} \cup DataSectors(hdr)
               /\ Owned(d, h, i) \subseteq FileSector /\ Owned(d, h, i) \subseteq m
               /\ d[i].sector \notin DataSectors(hdr)
  <1> DEFINE hdr == h[d[i].sector]
  <1>1. /\ d[i].sector \in FileSector /\ hdr # NoHeader
        /\ Len(hdr.dataSectors) = divRoundUp(hdr.numBytes, SectorSize)
        /\ Cardinality(Owned(d, h, i)) = 1 + Len(hdr.dataSectors)
        /\ Owned(d, h, i) \subseteq FileSector
    BY Zenon DEF Consistent
  <1>2. hdr \in Header
    BY <1>1
  <1>3. Owned(d, h, i) = {d[i].sector} \cup DataSectors(hdr)
    BY DEF Owned
  <1>4. Owned(d, h, i) \subseteq m
    <2>1. m = 0..(SystemSectors - 1) \cup UNION {Owned(d, h, j) : j \in InUse(d)}
      BY Zenon DEF Consistent
    <2> QED
      BY <2>1
  <1>5. d[i].sector \notin DataSectors(hdr)
    <2>1. SUFFICES ASSUME d[i].sector \in DataSectors(hdr) PROVE FALSE
      OBVIOUS
    <2>2. Owned(d, h, i) = DataSectors(hdr)
      BY <1>3, <2>1
    <2> DEFINE f == hdr.dataSectors
               n == Len(f)
    <2>3. n \in Nat /\ DOMAIN f = 1..n
      BY <1>2, HeaderHas
    <2>4. Cardinality(DataSectors(hdr)) <= n
      <3>1. f \in [1..n -> DataSectors(hdr)] /\ \A s \in DataSectors(hdr) : \E k \in 1..n : f[k] = s
        <4>1. f = [k \in DOMAIN f |-> f[k]]
          <5>1. PICK l \in 0..NumDirect : f \in [1..l -> FileSector]
            BY <1>2 DEF Header
          <5> QED
            BY <5>1
        <4>2. DataSectors(hdr) = {f[k] : k \in 1..n}
          BY <2>3 DEF DataSectors
        <4> HIDE DEF f, n
        <4> QED
          BY <2>3, <4>1, <4>2
      <3>2. ExistsSurjection(1..n, DataSectors(hdr))
        <4> HIDE DEF f, n
        <4> QED
          BY <3>1 DEF ExistsSurjection, Surjection
      <3> HIDE DEF n
      <3> QED
        BY <2>3, <3>2, FS_SurjCardinalityBound
    <2>5. IsFiniteSet(DataSectors(hdr)) /\ Cardinality(DataSectors(hdr)) \in Nat
      <3>1. DataSectors(hdr) \in SUBSET Sector
        BY <1>2, HeaderHas, Sizes DEF FileSector, Sector
      <3> QED
        BY <3>1, FinitelyMany
    <2> QED
      BY <1>1, <2>2, <2>3, <2>4, <2>5
  <1> QED
    BY <1>1, <1>2, <1>3, <1>4, <1>5

-----------------------------------------------------------------------------
(* Operations that write nothing.                                          *)

\* An open file.
Handle == [hdr : Header, seekPosition : 0..MaxFileSize]

\* One open file changes.
LEMMA OpenedNext ==
    ASSUME NEW d, NEW h, opened \in OpenType, OpenIn(opened, d, h), NEW name \in Name,
           NEW x \in Handle, opened' = [opened EXCEPT ![name] = x],
           \E i \in InUse(d) : d[i].name = name /\ x.hdr = h[d[i].sector]
    PROVE  opened' \in OpenType /\ OpenIn(opened', d, h)
  <1>1. opened' \in OpenType
    BY DEF OpenType, Handle
  <1>2. ASSUME NEW n \in Name, opened'[n] # Closed
        PROVE  \E i \in InUse(d) : d[i].name = n /\ opened'[n].hdr = h[d[i].sector]
    <2>1. CASE n = name
      <3>1. opened'[n] = x
        BY <2>1 DEF OpenType
      <3> QED
        BY <2>1, <3>1
    <2>2. CASE n # name
      <3>1. opened'[n] = opened[n]
        BY <2>2 DEF OpenType
      <3> QED
        BY <1>2, <3>1 DEF OpenIn
    <2> QED
      BY <2>1, <2>2
  <1> QED
    BY <1>1, <1>2 DEF OpenIn

\* A position in an open file changes.
LEMMA PositionNext ==
    ASSUME NEW d, NEW h, opened \in OpenType, OpenIn(opened, d, h), NEW name \in Name,
           opened[name] # Closed, NEW pos \in 0..MaxFileSize,
           opened' = [opened EXCEPT ![name].seekPosition = pos]
    PROVE  opened' \in OpenType /\ OpenIn(opened', d, h)
  <1> DEFINE x == [opened[name] EXCEPT !.seekPosition = pos]
  <1>1. opened[name] \in Handle
    BY DEF OpenType, Handle
  <1>2. x \in Handle /\ x.hdr = opened[name].hdr
    BY <1>1 DEF Handle
  <1>3. opened' = [opened EXCEPT ![name] = x]
    OBVIOUS
  <1>4. \E i \in InUse(d) : d[i].name = name /\ x.hdr = h[d[i].sector]
    BY <1>2 DEF OpenIn
  <1> HIDE DEF x
  <1> QED
    BY <1>2, <1>3, <1>4, OpenedNext

\* What holds when an operation is called.
LEMMA CallHas ==
    ASSUME FileInv, Idle
    PROVE  /\ pending = <<>> /\ ~damaged /\ busy = Nobody
           /\ dir \in Table /\ header \in [FileSector -> Header \cup {NoHeader}]
           /\ map \in SUBSET Sector /\ data \in [FileSector -> Bytes] /\ opened \in OpenType
           /\ Consistent(map, dir, header) /\ OpenIn(opened, dir, header)
  BY IdleHas DEF Idle

\* What is enough for an operation that only changes open files.
LEMMA QuietCall ==
    ASSUME FileInv, Idle, UNCHANGED <<Disk, damaged, pending, busy>>,
           opened' \in OpenType, OpenIn(opened', dir, header)
    PROVE  FileInv'
  <1>1. /\ pending = <<>> /\ ~damaged /\ busy = Nobody /\ Consistent(map, dir, header)
    BY CallHas
  <1>2. pending' = <<>> /\ busy' = Nobody /\ UNCHANGED Disk /\ damaged' = damaged
    BY <1>1
  <1>3. damaged' \in BOOLEAN
    BY <1>2 DEF FileInv, TypeOK
  <1> QED
    BY <1>1, <1>2, <1>3, QuietNext

\* Open keeps the invariant: the header it reads is that of the entry, ...
LEMMA OpenKeeps ==
    ASSUME FileInv, NEW name \in Name, Open(name)
    PROVE  FileInv'
  <1>1. /\ dir \in Table /\ header \in [FileSector -> Header \cup {NoHeader}]
        /\ opened \in OpenType /\ Consistent(map, dir, header) /\ OpenIn(opened, dir, header)
    BY CallHas DEF Open
  <1>2. Idle /\ UNCHANGED <<Disk, damaged>>
    BY DEF Open
  <1>3. CASE Entries(dir, name) = {}
    <2>1. Refused
      BY <1>3 DEF Open
    <2> QED
      BY <1>2, <2>1, RefusedKeeps
  <1>4. CASE Entries(dir, name) # {}
    <2> DEFINE i == FindIndex(dir, name)
               x == [hdr |-> header[dir[i].sector], seekPosition |-> 0]
    <2>1. i \in InUse(dir) /\ dir[i].name = name
      BY <1>4, FindIndexIs
    <2>2. header[dir[i].sector] \in Header
      <3> HIDE DEF i
      <3> QED
        BY <1>1, <2>1, EntryHas
    <2>3. x \in Handle
      BY <2>2, HeaderHas DEF Handle
    <2>4. opened' = [opened EXCEPT ![name] = x] /\ UNCHANGED <<pending, busy>>
      BY <1>4 DEF Open
    <2>5. \E j \in InUse(dir) : dir[j].name = name /\ x.hdr = header[dir[j].sector]
      BY <2>1
    <2> HIDE DEF x
    <2>6. opened' \in OpenType /\ OpenIn(opened', dir, header)
      BY <1>1, <2>3, <2>4, <2>5, OpenedNext
    <2> QED
      BY <1>2, <2>4, <2>6, QuietCall
  <1> QED
    BY <1>3, <1>4

\* ... Close does, ...
LEMMA CloseKeeps ==
    ASSUME FileInv, NEW name \in Name, Close(name)
    PROVE  FileInv'
  <1>1. opened \in OpenType /\ OpenIn(opened, dir, header)
    BY CallHas DEF Close
  <1>2. /\ Idle /\ UNCHANGED <<Disk, damaged, pending, busy>>
        /\ opened' = [opened EXCEPT ![name] = Closed]
    BY DEF Close
  <1>3. opened' \in OpenType
    BY <1>1, <1>2 DEF OpenType
  <1>4. \A n \in Name : opened'[n] # Closed => opened'[n] = opened[n]
    BY <1>1, <1>2 DEF OpenType
  <1>5. ASSUME NEW n \in Name, opened'[n] # Closed
        PROVE  \E i \in InUse(dir) : dir[i].name = n /\ opened'[n].hdr = header[dir[i].sector]
    <2>1. opened'[n] = opened[n] /\ opened[n] # Closed
      BY <1>4, <1>5
    <2> QED
      BY <1>1, <2>1 DEF OpenIn
  <1>6. OpenIn(opened', dir, header)
    BY <1>5 DEF OpenIn
  <1> QED
    BY <1>2, <1>3, <1>6, QuietCall

\* ... and Seek.
LEMMA SeekKeeps ==
    ASSUME FileInv, NEW name \in Name, NEW pos \in 0..MaxFileSize, Seek(name, pos)
    PROVE  FileInv'
  <1>1. opened \in OpenType /\ OpenIn(opened, dir, header)
    BY CallHas DEF Seek
  <1>2. /\ Idle /\ UNCHANGED <<Disk, damaged, pending, busy>> /\ opened[name] # Closed
        /\ opened' = [opened EXCEPT ![name].seekPosition = pos]
    BY DEF Seek
  <1>3. opened' \in OpenType /\ OpenIn(opened', dir, header)
    BY <1>1, <1>2, PositionNext
  <1> QED
    BY <1>2, <1>3, QuietCall

\* A transfer stays within the file.
LEMMA ClipRange ==
    ASSUME NEW hdr \in Header, NEW n \in Int, NEW pos \in 0..MaxFileSize
    PROVE  /\ Clip(hdr, n, pos) \in Nat /\ pos + Clip(hdr, n, pos) \in 0..MaxFileSize
           /\ Clip(hdr, n, pos) # 0 => Clip(hdr, n, pos) <= n /\ pos + Clip(hdr, n, pos) <= hdr.numBytes
  <1>1. MaxFileSize \in Nat /\ hdr.numBytes \in 0..MaxFileSize
    BY HeaderHas
  <1>2. CASE n <= 0 \/ pos >= hdr.numBytes
    BY <1>1, <1>2 DEF Clip
  <1>3. CASE ~(n <= 0 \/ pos >= hdr.numBytes)
    <2> DEFINE r == hdr.numBytes - pos
    <2>1. n \in Nat /\ r \in Nat
      BY <1>1, <1>3
    <2>2. Clip(hdr, n, pos) = Min({n, r})
      BY <1>3 DEF Clip
    <2>3. Min({n, r}) = IF n <= r THEN n ELSE r
      BY <2>1, MinOfTwo
    <2> QED
      BY <1>1, <1>3, <2>1, <2>2, <2>3
  <1> QED
    BY <1>2, <1>3

\* Read keeps the invariant: its position stays within the file.
LEMMA ReadKeeps ==
    ASSUME FileInv, NEW name \in Name, NEW numBytes \in 1..MaxTransfer, Read(name, numBytes)
    PROVE  FileInv'
  <1> DEFINE x == opened[name]
             c == Clip(x.hdr, numBytes, x.seekPosition)
             into == ReadAt(x.hdr, numBytes, x.seekPosition)
  <1>1. opened \in OpenType /\ OpenIn(opened, dir, header)
    BY CallHas DEF Read
  <1>2. /\ Idle /\ UNCHANGED <<Disk, damaged, pending, busy>> /\ opened[name] # Closed
        /\ opened' = [opened EXCEPT ![name].seekPosition = x.seekPosition + Len(into)]
    BY DEF Read
  <1>3. x \in Handle
    BY <1>1, <1>2 DEF OpenType, Handle
  <1>4. x.hdr \in Header /\ x.seekPosition \in 0..MaxFileSize /\ numBytes \in Int
    BY <1>3, Sizes DEF Handle
  <1>5. c \in Nat /\ x.seekPosition + c \in 0..MaxFileSize
    <2> HIDE DEF x
    <2> QED
      BY <1>4, ClipRange
  <1>6. Len(into) = c
    <2>1. into = [i \in 1..c |-> ByteAt(x.hdr, x.seekPosition + i - 1)]
      BY DEF ReadAt
    <2> HIDE DEF into, c
    <2> QED
      BY <1>5, <2>1
  <1> DEFINE pos == x.seekPosition + Len(into)
  <1>7. pos \in 0..MaxFileSize /\ opened' = [opened EXCEPT ![name].seekPosition = pos]
    BY <1>2, <1>5, <1>6
  <1> HIDE DEF pos
  <1>8. opened' \in OpenType /\ OpenIn(opened', dir, header)
    BY <1>1, <1>2, <1>7, PositionNext
  <1> QED
    BY <1>2, <1>8, QuietCall

-----------------------------------------------------------------------------
(* Remove.                                                                 *)

\* The first of the two sectors of the directory.
LEMMA FirstSectorIs ==
    ASSUME NEW d \in Table, NEW e \in Table
    PROVE  /\ FirstSectorOf(d, e) \in Table
           /\ \A j \in Entry :
                  /\ j <= Straddle => /\ FirstSectorOf(d, e)[j].inUse = e[j].inUse
                                      /\ FirstSectorOf(d, e)[j].sector = e[j].sector
                  /\ j > Straddle => FirstSectorOf(d, e)[j] = d[j]
  <1> DEFINE f(j) == IF j < Straddle THEN e[j]
                     ELSE IF j = Straddle THEN [e[j] EXCEPT !.name = d[j].name]
                     ELSE d[j]
             Row == [inUse : BOOLEAN, sector : Sector, name : Name \cup {NoName}]
  <1>1. ASSUME NEW j \in Entry
        PROVE  /\ d[j] \in Row /\ e[j] \in Row /\ j \in Nat /\ Straddle \in Nat
    BY Sizes DEF Table, Entry
  <1>2. ASSUME NEW j \in Entry
        PROVE  /\ f(j) \in Row
               /\ j <= Straddle => f(j).inUse = e[j].inUse /\ f(j).sector = e[j].sector
               /\ j > Straddle => f(j) = d[j]
    <2> HIDE DEF Row
    <2>1. d[j] \in Row /\ e[j] \in Row /\ j \in Nat /\ Straddle \in Nat
      BY <1>1
    <2>2. CASE j < Straddle
      BY <2>1, <2>2
    <2>3. CASE j = Straddle
      BY <2>1, <2>3 DEF Row
    <2>4. CASE j > Straddle
      BY <2>1, <2>4
    <2> QED
      BY <2>1, <2>2, <2>3, <2>4
  <1>3. FirstSectorOf(d, e) = [j \in Entry |-> f(j)]
    BY DEF FirstSectorOf
  <1> HIDE DEF f, Row
  <1>4. FirstSectorOf(d, e) \in [Entry -> Row]
    BY <1>2, <1>3
  <1> QED
    BY <1>2, <1>3, <1>4 DEF Row, Table

\* The directory without one of its entries, and its first sector alone.
LEMMA DirRemoveHas ==
    ASSUME NEW d \in Table, NEW name \in Name, Entries(d, name) # {},
           NEW i, i = FindIndex(d, name), NEW nd, nd = DirRemove(d, name)
    PROVE  /\ nd \in Table /\ FirstSectorOf(d, nd) \in Table
           /\ InUse(nd) = InUse(d) \ {i} /\ \A j \in Entry \ {i} : nd[j] = d[j]
           /\ Keeps(nd, d) /\ Keeps(nd, FirstSectorOf(d, nd))
  <1>1. i \in InUse(d) /\ i \in Entry
    BY FindIndexIs DEF InUse
  <1>2. nd = [d EXCEPT ![i].inUse = FALSE]
    BY DEF DirRemove
  <1>3. nd \in Table
    BY <1>1, <1>2 DEF Table
  <1>4. \A j \in Entry : j # i => nd[j] = d[j]
    BY <1>2 DEF Table
  <1>5. ~nd[i].inUse
    BY <1>1, <1>2 DEF Table
  <1>6. InUse(nd) = InUse(d) \ {i}
    BY <1>4, <1>5 DEF InUse
  <1>7. \A j \in InUse(nd) : j \in Entry /\ nd[j] = d[j] /\ d[j].inUse
    BY <1>4, <1>6 DEF InUse
  <1>8. FirstSectorOf(d, nd) \in Table
    BY <1>3, FirstSectorIs
  <1>9. Keeps(nd, d)
    BY <1>7 DEF Keeps
  <1>10. Keeps(nd, FirstSectorOf(d, nd))
    <2>1. ASSUME NEW j \in InUse(nd)
          PROVE  FirstSectorOf(d, nd)[j].inUse /\ FirstSectorOf(d, nd)[j].sector = nd[j].sector
      <3>1. j \in Entry /\ nd[j] = d[j] /\ d[j].inUse
        BY <1>7
      <3>2. j \in Nat /\ Straddle \in Nat
        BY <3>1, Sizes DEF Entry
      <3> QED
        BY <1>3, <3>1, <3>2, FirstSectorIs
    <2> QED
      BY <2>1 DEF Keeps
  <1> QED
    BY <1>3, <1>4, <1>6, <1>8, <1>9, <1>10

\* The sectors of the system are not those of a file.
LEMMA SystemApart ==
    /\ 0..(SystemSectors - 1) \cap FileSector = {}
    /\ 0..(SystemSectors - 1) \subseteq Sector /\ FileSector \subseteq Sector
  BY Sizes DEF FileSector, Sector

\* A consistent disk without one file is consistent.
LEMMA RemovedConsistent ==
    ASSUME NEW m, NEW d, NEW h, Consistent(m, d, h), NEW i \in InUse(d),
           NEW nd, InUse(nd) = InUse(d) \ {i}, \A j \in InUse(nd) : nd[j] = d[j],
           NEW nm, nm = m \ Owned(d, h, i)
    PROVE  Consistent(nm, nd, h)
  <1> DEFINE O(j) == Owned(d, h, j)
             Sys == 0..(SystemSectors - 1)
             Alone(e, j) ==
                /\ e[j].sector \in FileSector /\ h[e[j].sector] # NoHeader
                /\ LET hdr == h[e[j].sector]
                   IN  /\ Len(hdr.dataSectors) = divRoundUp(hdr.numBytes, SectorSize)
                       /\ Cardinality(Owned(e, h, j)) = 1 + Len(hdr.dataSectors)
                       /\ Owned(e, h, j) \subseteq FileSector
  <1>1. \A j \in InUse(d) : Alone(d, j)
    BY Zenon DEF Consistent
  <1>2. \A j, k \in InUse(d) : j # k => d[j].name # d[k].name /\ O(j) \cap O(k) = {}
    BY Zenon DEF Consistent
  <1>3. m = Sys \cup UNION {O(j) : j \in InUse(d)}
    BY Zenon DEF Consistent
  <1>4. \A j \in InUse(nd) : j \in InUse(d) /\ j # i /\ nd[j] = d[j] /\ Owned(nd, h, j) = O(j)
    BY DEF Owned
  <1>5. \A j \in InUse(nd) : Alone(nd, j)
    <2>1. ASSUME NEW j \in InUse(nd) PROVE Alone(nd, j)
      <3>1. Alone(d, j) /\ nd[j] = d[j] /\ Owned(nd, h, j) = Owned(d, h, j)
        BY <1>1, <1>4
      <3> QED
        BY <3>1
    <2> QED
      BY <2>1
  <1>6. \A j, k \in InUse(nd) : j # k =>
            nd[j].name # nd[k].name /\ Owned(nd, h, j) \cap Owned(nd, h, k) = {}
    BY <1>2, <1>4
  <1>7. nm = Sys \cup UNION {Owned(nd, h, j) : j \in InUse(nd)}
    <2>1. {Owned(nd, h, j) : j \in InUse(nd)} = {O(j) : j \in InUse(nd)}
      BY <1>4
    <2>2. O(i) \cap Sys = {}
      BY <1>1, SystemApart
    <2>3. ASSUME NEW s
          PROVE  s \in nm <=> s \in Sys \/ \E j \in InUse(nd) : s \in O(j)
      <3>1. s \in m <=> s \in Sys \/ \E j \in InUse(d) : s \in O(j)
        BY <1>3
      <3>2. \A j \in InUse(d) : j # i => O(j) \cap O(i) = {}
        BY <1>2
      <3> HIDE DEF O, Sys
      <3>3. nm = m \ O(i)
        BY DEF O
      <3> QED
        BY <2>2, <3>1, <3>2, <3>3
    <2> QED
      BY <2>1, <2>3
  <1> QED
    BY <1>5, <1>6, <1>7, Zenon DEF Consistent

\* An open file is another than the one that is removed.
LEMMA RemovedOpen ==
    ASSUME NEW o, NEW d, NEW h, OpenIn(o, d, h), NEW i \in InUse(d), o[d[i].name] = Closed,
           NEW nd, InUse(nd) = InUse(d) \ {i}, \A j \in InUse(nd) : nd[j] = d[j]
    PROVE  OpenIn(o, nd, h)
  <1>1. ASSUME NEW n \in Name, o[n] # Closed
        PROVE  \E j \in InUse(nd) : nd[j].name = n /\ o[n].hdr = h[nd[j].sector]
    <2>1. PICK j \in InUse(d) : d[j].name = n /\ o[n].hdr = h[d[j].sector]
      BY <1>1 DEF OpenIn
    <2>2. j # i
      BY <1>1, <2>1
    <2>3. j \in InUse(nd) /\ nd[j] = d[j]
      BY <2>2
    <2> QED
      BY <2>1, <2>3
  <1> QED
    BY <1>1 DEF OpenIn

\* Writes in a row.
LEMMA Joined ==
    ASSUME NEW S, NEW a \in S, NEW b \in S, NEW c \in S, NEW e \in S
    PROVE  /\ <<a>> \o <<b, c>> = <<a, b, c>>
           /\ (<<a>> \o <<b, c>>) \o <<e>> = <<a, b, c, e>>
  <1>1. <<a>> \in Seq(S) /\ Len(<<a>>) = 1 /\ <<a>>[1] = a
    OBVIOUS
  <1>2. <<b, c>> \in Seq(S) /\ Len(<<b, c>>) = 2 /\ <<b, c>>[1] = b /\ <<b, c>>[2] = c
    OBVIOUS
  <1>3. <<e>> \in Seq(S) /\ Len(<<e>>) = 1 /\ <<e>>[1] = e
    OBVIOUS
  <1>4. <<a, b, c>> \in Seq(S) /\ Len(<<a, b, c>>) = 3
        /\ <<a, b, c>>[1] = a /\ <<a, b, c>>[2] = b /\ <<a, b, c>>[3] = c
    OBVIOUS
  <1>5. <<a, b, c, e>> \in Seq(S) /\ Len(<<a, b, c, e>>) = 4
        /\ <<a, b, c, e>>[1] = a /\ <<a, b, c, e>>[2] = b /\ <<a, b, c, e>>[3] = c
        /\ <<a, b, c, e>>[4] = e
    OBVIOUS
  <1>6. PICK x \in Seq(S) : x = <<a>> /\ Len(x) = 1 /\ x[1] = a
    BY <1>1
  <1>7. PICK y \in Seq(S) : y = <<b, c>> /\ Len(y) = 2 /\ y[1] = b /\ y[2] = c
    BY <1>2
  <1>8. PICK z \in Seq(S) : z = <<e>> /\ Len(z) = 1 /\ z[1] = e
    BY <1>3
  <1>9. PICK u \in Seq(S) : u = <<a, b, c>> /\ Len(u) = 3 /\ u[1] = a /\ u[2] = b /\ u[3] = c
    BY <1>4
  <1>10. PICK v \in Seq(S) : /\ v = <<a, b, c, e>> /\ Len(v) = 4
                             /\ v[1] = a /\ v[2] = b /\ v[3] = c /\ v[4] = e
    BY <1>5
  <1>11. x \o y = u
    <2>1. x \o y \in Seq(S) /\ Len(x \o y) = 3
      BY <1>6, <1>7, ConcatProperties
    <2>2. ASSUME NEW i \in 1..3 PROVE (x \o y)[i] = u[i]
      <3>1. (x \o y)[i] = IF i <= 1 THEN x[i] ELSE y[i - 1]
        BY <1>6, <1>7, ConcatProperties
      <3>2. i = 1 \/ i = 2 \/ i = 3
        OBVIOUS
      <3> QED
        BY <1>6, <1>7, <1>9, <3>1, <3>2
    <2> QED
      BY <1>9, <2>1, <2>2, SeqEqual
  <1>12. u \o z = v
    <2>1. u \o z \in Seq(S) /\ Len(u \o z) = 4
      BY <1>8, <1>9, ConcatProperties
    <2>2. ASSUME NEW i \in 1..4 PROVE (u \o z)[i] = v[i]
      <3>1. (u \o z)[i] = IF i <= 3 THEN u[i] ELSE z[i - 3]
        BY <1>8, <1>9, ConcatProperties
      <3>2. i = 1 \/ i = 2 \/ i = 3 \/ i = 4
        OBVIOUS
      <3> QED
        BY <1>8, <1>9, <1>10, <3>1, <3>2
    <2> QED
      BY <1>10, <2>1, <2>2, SeqEqual
  <1> QED
    BY <1>6, <1>7, <1>8, <1>9, <1>10, <1>11, <1>12, Zenon

\* The writes p of a Remove of the file in entry i: the map nm, then the directory nd.
Removes(name, i, nm, nd, fd, p) ==
    /\ i \in InUse(dir) /\ dir[i].name = name
    /\ nm = map \ Owned(dir, header, i) /\ nm \in SUBSET Sector
    /\ nd \in Table /\ fd \in Table /\ fd = FirstSectorOf(dir, nd)
    /\ InUse(nd) = InUse(dir) \ {i} /\ \A j \in Entry \ {i} : nd[j] = dir[j]
    /\ Keeps(nd, dir) /\ Keeps(nd, fd)
    /\ p \in Seq(Writes) /\ Pends(p, <<"map", "dir", "dir">>)
    /\ p[1].val = nm /\ p[2].val = fd /\ p[3].val = nd /\ p # <<>>

\* Remove writes that.
LEMMA RemoveWrites ==
    ASSUME FileInv, NEW name \in Name, Remove(name), Entries(dir, name) # {}
    PROVE  \E i, nm, nd, fd, p : Removes(name, i, nm, nd, fd, p) /\ Start(name, p)
  <1>1. dir \in Table /\ map \in SUBSET Sector
    BY CallHas DEF Remove
  <1>2. PICK i \in InUse(dir) : i = FindIndex(dir, name) /\ dir[i].name = name
    BY FindIndexIs
  <1>3. PICK nm : nm = Deallocate(map, header[dir[i].sector]) \ {dir[i].sector}
    OBVIOUS
  <1>4. PICK nd : nd = DirRemove(dir, name)
    OBVIOUS
  <1>5. PICK fd : fd = FirstSectorOf(dir, nd)
    OBVIOUS
  <1>6. /\ nd \in Table /\ fd \in Table
        /\ InUse(nd) = InUse(dir) \ {i} /\ \A j \in Entry \ {i} : nd[j] = dir[j]
        /\ Keeps(nd, dir) /\ Keeps(nd, fd)
    BY <1>1, <1>2, <1>4, <1>5, DirRemoveHas
  <1>7. nm = map \ Owned(dir, header, i)
    BY <1>3 DEF Deallocate, Owned
  <1>8. nm \in SUBSET Sector
    BY <1>1, <1>7
  <1> DEFINE q == <<[to |-> "map", val |-> nm], [to |-> "dir", val |-> fd], [to |-> "dir", val |-> nd]>>
  <1>9. /\ [to |-> "map", val |-> nm] \in Writes
        /\ [to |-> "dir", val |-> fd] \in Writes /\ [to |-> "dir", val |-> nd] \in Writes
        /\ q \in Seq(Writes)
    <2>1. /\ [to |-> "map", val |-> nm] \in Writes
          /\ [to |-> "dir", val |-> fd] \in Writes /\ [to |-> "dir", val |-> nd] \in Writes
      BY <1>6, <1>8 DEF Writes
    <2> QED
      BY <2>1
  <1>10. Start(name, q)
    <2>1. Start(name, WriteMap(Deallocate(map, header[dir[i].sector]) \ {dir[i].sector})
                        \o WriteDir(DirRemove(dir, name)))
      BY <1>2 DEF Remove
    <2>2. WriteMap(nm) \o WriteDir(nd) = q
      <3>1. WriteMap(nm) = <<[to |-> "map", val |-> nm]>>
        BY DEF WriteMap
      <3>2. WriteDir(nd) = <<[to |-> "dir", val |-> fd], [to |-> "dir", val |-> nd]>>
        BY <1>5 DEF WriteDir
      <3> QED
        BY <1>9, <3>1, <3>2, Joined, Zenon
    <2> QED
      BY <1>3, <1>4, <2>1, <2>2
  <1>11. PICK p \in Seq(Writes) : p = q
    BY <1>9
  <1>12. /\ Pends(p, <<"map", "dir", "dir">>)
         /\ p[1].val = nm /\ p[2].val = fd /\ p[3].val = nd /\ p # <<>>
    BY <1>11 DEF Pends
  <1>13. Removes(name, i, nm, nd, fd, p)
    BY <1>2, <1>5, <1>6, <1>7, <1>8, <1>12 DEF Removes
  <1> QED
    BY <1>10, <1>11, <1>13

\* Remove keeps the invariant: it writes the map before the directory.
LEMMA RemoveKeeps ==
    ASSUME FileInv, NEW name \in Name, Remove(name)
    PROVE  FileInv'
  <1>1. /\ pending = <<>> /\ ~damaged /\ dir \in Table /\ map \in SUBSET Sector
        /\ header \in [FileSector -> Header \cup {NoHeader}]
        /\ opened \in OpenType /\ Consistent(map, dir, header) /\ OpenIn(opened, dir, header)
    BY CallHas DEF Remove
  <1>2. Idle /\ UNCHANGED <<Disk, damaged>> /\ opened[name] = Closed
    BY DEF Remove
  <1>3. CASE Entries(dir, name) = {}
    <2>1. Refused
      BY <1>3 DEF Remove
    <2> QED
      BY <1>2, <2>1, RefusedKeeps
  <1>4. CASE Entries(dir, name) # {}
    <2>1. PICK i, nm, nd, fd, p : Removes(name, i, nm, nd, fd, p) /\ Start(name, p)
      BY <1>4, RemoveWrites
    <2>2. /\ i \in InUse(dir) /\ dir[i].name = name
          /\ nm = map \ Owned(dir, header, i)
          /\ InUse(nd) = InUse(dir) \ {i} /\ \A j \in InUse(nd) : nd[j] = dir[j]
          /\ Keeps(nd, dir) /\ Keeps(nd, fd)
          /\ p \in Seq(Writes) /\ Pends(p, <<"map", "dir", "dir">>)
          /\ p[1].val = nm /\ p[2].val = fd /\ p[3].val = nd /\ p # <<>>
      BY <2>1 DEF Removes, InUse
    <2>3. Consistent(nm, nd, header)
      BY <1>1, <2>2, RemovedConsistent
    <2>4. OpenIn(opened, nd, header)
      BY <1>1, <1>2, <2>2, RemovedOpen
    <2>5. LeadsTo(p, map, dir, header, nm, nd, header)
      <3>1. /\ p \in Seq(Writes) /\ Pends(p, <<"map", "dir", "dir">>)
            /\ p[1].val = nm /\ p[3].val = nd
        BY <2>2
      <3> QED
        BY <1>1, <3>1, ShrinkingLeadsTo
    <2>6. InPhase(p, dir)
      BY <2>2 DEF InPhase, Shrinking
    <2>7. opened' = opened
      BY <1>4 DEF Remove
    <2>8. opened' \in OpenType /\ OpenIn(opened', nd, header)
      BY <1>1, <2>4, <2>7
    <2> QED
      BY <1>1, <1>2, <2>1, <2>2, <2>3, <2>5, <2>6, <2>8, StartNext
  <1> QED
    BY <1>3, <1>4

-----------------------------------------------------------------------------
(* Create.                                                                 *)

\* Mark takes one clear sector.
LEMMA OneTaken ==
    ASSUME NEW M \in SUBSET Sector, NEW s \in Sector \ M
    PROVE  NumClear(M \cup {s}) = NumClear(M) - 1
  <1>1. Sector \ (M \cup {s}) = (Sector \ M) \ {s}
    OBVIOUS
  <1>2. IsFiniteSet(Sector \ M)
    BY FinitelyMany
  <1> QED
    BY <1>1, <1>2, FS_RemoveElement DEF NumClear

\* Allocate finds as many clear sectors as the length needs.
LEMMA AllocateHas ==
    ASSUME NEW M \in SUBSET Sector, 0..(SystemSectors - 1) \subseteq M,
           NEW size \in 0..MaxFileSize, divRoundUp(size, SectorSize) <= NumClear(M),
           NEW hdr, hdr = Allocate(M, size)
    PROVE  /\ hdr \in Header /\ hdr.numBytes = size
           /\ Len(hdr.dataSectors) = divRoundUp(size, SectorSize)
           /\ DataSectors(hdr) \subseteq FileSector \ M
           /\ \A s : s \notin DataSectors(hdr) =>
                 Cardinality({s} \cup DataSectors(hdr)) = 1 + Len(hdr.dataSectors)
  <1> DEFINE n == divRoundUp(size, SectorSize)
             f == [i \in 1..n |-> Find(M, i)]
  <1>1. hdr = [numBytes |-> size, dataSectors |-> f]
    BY DEF Allocate
  <1>2. MaxFileSize \in Nat /\ size \in Nat /\ size <= NumDirect * SectorSize
    BY Sizes, Times DEF MaxFileSize
  <1>3. n \in Nat /\ n <= NumDirect /\ n <= NumClear(M) /\ NumClear(M) \in Nat
    BY <1>2, Sizes, RoundUp, FinitelyMany
  <1> HIDE DEF n
  <1>4. \A i \in 1..n : Find(M, i) \in FileSector \ M
    <2>1. ASSUME NEW i \in 1..n PROVE Find(M, i) \in Sector \ M
      <3>1. i \in 1..NumClear(M)
        BY <1>3
      <3> QED
        BY <3>1, FindFinds
    <2>2. ASSUME NEW s \in Sector \ M PROVE s \in FileSector
      BY Sizes DEF Sector, FileSector
    <2> QED
      BY <2>1, <2>2
  <1>5. \A i, j \in 1..n : Find(M, i) = Find(M, j) => i = j
    <2>1. ASSUME NEW i \in 1..n, NEW j \in 1..n, Find(M, i) = Find(M, j) PROVE i = j
      <3>1. i \in 1..NumClear(M) /\ j \in 1..NumClear(M)
        BY <1>3
      <3> QED
        BY <2>1, <3>1, FindDiffers
    <2> QED
      BY <2>1
  <1>6. f \in [1..n -> FileSector]
    BY <1>4
  <1>7. n \in 0..NumDirect
    BY <1>3, Sizes
  <1>8. hdr \in Header
    <2>1. f \in UNION {[1..k -> FileSector] : k \in 0..NumDirect}
      BY <1>6, <1>7
    <2> HIDE DEF f
    <2> QED
      BY <1>1, <2>1 DEF Header
  <1>9. Len(f) = n /\ DOMAIN f = 1..n
    BY <1>3, <1>6
  <1> DEFINE D == DataSectors(hdr)
  <1>10. D = {f[i] : i \in 1..n}
    BY <1>1, <1>9 DEF DataSectors
  <1>11. D = {Find(M, i) : i \in 1..n}
    BY <1>10
  <1>12. D \subseteq FileSector \ M
    BY <1>4, <1>11
  <1>13. IsFiniteSet(D) /\ Cardinality(D) = n
    <2>1. f \in [1..n -> D] /\ \A s \in D : \E i \in 1..n : f[i] = s
      BY <1>11
    <2>2. \A i, j \in 1..n : f[i] = f[j] => i = j
      BY <1>5
    <2>3. f \in Bijection(1..n, D)
      <3> HIDE DEF f, D
      <3> QED
        BY <2>1, <2>2 DEF Bijection, Injection, Surjection, IsInjective
    <2>4. ExistsBijection(1..n, D)
      <3> HIDE DEF f, D
      <3> QED
        BY <2>3 DEF ExistsBijection
    <2>5. Cardinality(D) = n
      <3> HIDE DEF D
      <3> QED
        BY <1>3, <2>4, FS_CountingElements
    <2>6. IsFiniteSet(D)
      <3>1. D \in SUBSET Sector
        BY <1>12, SystemApart
      <3> HIDE DEF D
      <3> QED
        BY <3>1, FinitelyMany
    <2> QED
      BY <2>5, <2>6
  <1>14. ASSUME NEW s, s \notin D PROVE Cardinality({s} \cup D) = 1 + n
    <2>1. {s} \cup D = D \cup {s}
      OBVIOUS
    <2> HIDE DEF D
    <2> QED
      BY <1>3, <1>13, <1>14, <2>1, FS_AddElement
  <1>15. hdr.numBytes = size /\ Len(hdr.dataSectors) = n
    <2>1. hdr.numBytes = size /\ hdr.dataSectors = f
      BY <1>1
    <2> HIDE DEF f
    <2> QED
      BY <1>9, <2>1
  <1> QED
    BY <1>8, <1>12, <1>14, <1>15 DEF n

\* The directory with one more entry, and its first sector alone.
LEMMA AddHas ==
    ASSUME NEW d \in Table, FreeEntries(d) # {}, NEW name \in Name, NEW s \in Sector,
           NEW nd, nd = Add(d, name, s)
    PROVE  /\ nd \in Table /\ FirstSectorOf(d, nd) \in Table
           /\ Keeps(d, FirstSectorOf(d, nd)) /\ Keeps(FirstSectorOf(d, nd), nd)
           /\ \E e \in Entry \ InUse(d) :
                 /\ nd[e].sector = s /\ nd[e].name = name
                 /\ InUse(nd) = InUse(d) \cup {e} /\ \A j \in Entry \ {e} : nd[j] = d[j]
  <1>1. PICK e \in Entry : e = Min(FreeEntries(d)) /\ ~d[e].inUse
    <2>1. FreeEntries(d) \in SUBSET Nat
      BY DEF FreeEntries, Entry
    <2>2. Min(FreeEntries(d)) \in FreeEntries(d)
      BY <2>1, MinIn
    <2> QED
      BY <2>2 DEF FreeEntries
  <1> DEFINE row == [inUse |-> TRUE, sector |-> s, name |-> name]
  <1>2. nd = [d EXCEPT ![e] = row]
    BY <1>1 DEF Add
  <1>3. row \in [inUse : BOOLEAN, sector : Sector, name : Name \cup {NoName}]
    OBVIOUS
  <1>4. nd \in Table
    BY <1>2, <1>3 DEF Table
  <1>5. nd[e] = row /\ \A j \in Entry : j # e => nd[j] = d[j]
    BY <1>2 DEF Table
  <1>6. nd[e].inUse /\ nd[e].sector = s /\ nd[e].name = name
    BY <1>5
  <1> HIDE DEF row
  <1>7. e \notin InUse(d) /\ \A j \in InUse(d) : j \in Entry /\ j # e /\ nd[j] = d[j] /\ d[j].inUse
    BY <1>1, <1>5 DEF InUse
  <1>8. InUse(nd) = InUse(d) \cup {e}
    <2>1. ASSUME NEW j \in Entry PROVE nd[j].inUse <=> d[j].inUse \/ j = e
      BY <1>1, <1>5, <1>6
    <2> QED
      BY <2>1 DEF InUse
  <1>9. PICK fd \in Table :
           /\ fd = FirstSectorOf(d, nd)
           /\ \A j \in Entry : /\ j <= Straddle => fd[j].inUse = nd[j].inUse /\ fd[j].sector = nd[j].sector
                               /\ j > Straddle => fd[j] = d[j]
    BY <1>4, FirstSectorIs
  <1>10. Straddle \in Nat /\ \A j \in Entry : j \in Nat
    BY Sizes DEF Entry
  <1>11. Keeps(d, fd)
    <2>1. ASSUME NEW j \in InUse(d) PROVE fd[j].inUse /\ fd[j].sector = d[j].sector
      BY <1>7, <1>9, <1>10
    <2> QED
      BY <2>1 DEF Keeps
  <1>12. Keeps(fd, nd)
    <2>1. ASSUME NEW j \in InUse(fd) PROVE nd[j].inUse /\ nd[j].sector = fd[j].sector
      <3>1. j \in Entry /\ fd[j].inUse
        BY DEF InUse
      <3>2. CASE j <= Straddle
        BY <1>9, <3>1, <3>2
      <3>3. CASE j > Straddle
        <4>1. j \in InUse(d) /\ fd[j] = d[j]
          BY <1>9, <3>1, <3>3 DEF InUse
        <4> QED
          BY <1>7, <4>1
      <3> QED
        BY <1>10, <3>1, <3>2, <3>3
    <2> QED
      BY <2>1 DEF Keeps
  <1>13. e \in Entry \ InUse(d) /\ \A j \in Entry \ {e} : nd[j] = d[j]
    BY <1>5, <1>7
  <1> QED
    BY <1>4, <1>6, <1>8, <1>9, <1>11, <1>12, <1>13

\* A file that is new in nd has its header hdr in s and its bytes on clear sectors.
NewFile(m, d, h, s, hdr, e, nd, nh, nm) ==
    /\ Consistent(m, d, h) /\ nh = [h EXCEPT ![s] = hdr] /\ nm = (m \cup {s}) \cup DataSectors(hdr)
    /\ s \in FileSector \ m /\ hdr # NoHeader
    /\ DataSectors(hdr) \subseteq FileSector \ m /\ s \notin DataSectors(hdr)
    /\ Len(hdr.dataSectors) = divRoundUp(hdr.numBytes, SectorSize)
    /\ Cardinality({s} \cup DataSectors(hdr)) = 1 + Len(hdr.dataSectors)
    /\ e \notin InUse(d) /\ InUse(nd) = InUse(d) \cup {e} /\ nd[e].sector = s
    /\ \A j \in InUse(d) : nd[j] = d[j] /\ d[j].name # nd[e].name

\* The other entries and their headers are as they were.
OthersSame(d, h, s, nd, nh) ==
    \A j \in InUse(d) : nd[j] = d[j] /\ nh[d[j].sector] = h[d[j].sector] /\ d[j].sector # s

\* A consistent disk with one more file on clear sectors is consistent.
LEMMA AddedConsistent ==
    ASSUME NEW m, NEW d, NEW X, NEW h \in [FileSector -> X],
           NEW s, NEW hdr, NEW e, NEW nd, NEW nh, NEW nm, NewFile(m, d, h, s, hdr, e, nd, nh, nm)
    PROVE  Consistent(nm, nd, nh) /\ OthersSame(d, h, s, nd, nh)
  <1> DEFINE Sys == 0..(SystemSectors - 1)
             New == {s} \cup DataSectors(hdr)
             Alone(t, g, j) ==
                /\ t[j].sector \in FileSector /\ g[t[j].sector] # NoHeader
                /\ LET x == g[t[j].sector]
                   IN  /\ Len(x.dataSectors) = divRoundUp(x.numBytes, SectorSize)
                       /\ Cardinality(Owned(t, g, j)) = 1 + Len(x.dataSectors)
                       /\ Owned(t, g, j) \subseteq FileSector
  <1>0. /\ s \in FileSector \ m /\ hdr # NoHeader
        /\ DataSectors(hdr) \subseteq FileSector \ m /\ s \notin DataSectors(hdr)
        /\ Len(hdr.dataSectors) = divRoundUp(hdr.numBytes, SectorSize)
        /\ Cardinality({s} \cup DataSectors(hdr)) = 1 + Len(hdr.dataSectors)
        /\ e \notin InUse(d) /\ InUse(nd) = InUse(d) \cup {e} /\ nd[e].sector = s
        /\ \A j \in InUse(d) : nd[j] = d[j] /\ d[j].name # nd[e].name
        /\ nh = [h EXCEPT ![s] = hdr] /\ nm = (m \cup {s}) \cup DataSectors(hdr)
        /\ Consistent(m, d, h)
    BY DEF NewFile
  <1>1. \A j \in InUse(d) : Alone(d, h, j)
    BY <1>0, Zenon DEF Consistent
  <1>2. \A j, k \in InUse(d) : j # k => d[j].name # d[k].name /\ Owned(d, h, j) \cap Owned(d, h, k) = {}
    BY <1>0, Zenon DEF Consistent
  <1>3. m = Sys \cup UNION {Owned(d, h, j) : j \in InUse(d)}
    BY <1>0, Zenon DEF Consistent
  <1>4. \A j \in InUse(d) : Owned(d, h, j) \subseteq m
    BY <1>3
  <1>5. \A j \in InUse(d) : d[j].sector \in FileSector /\ d[j].sector # s
    <2>1. \A j \in InUse(d) : d[j].sector \in Owned(d, h, j)
      BY DEF Owned
    <2> QED
      BY <1>0, <1>1, <1>4, <2>1
  <1>6. nh[s] = hdr /\ \A r \in FileSector : r # s => nh[r] = h[r]
    BY <1>0
  <1>7. \A j \in InUse(d) : nd[j] = d[j] /\ nh[d[j].sector] = h[d[j].sector] /\ d[j].sector # s
    BY <1>0, <1>5, <1>6
  <1>8. \A j \in InUse(d) : Owned(nd, nh, j) = Owned(d, h, j)
    BY <1>7 DEF Owned
  <1>9. nh[nd[e].sector] = hdr /\ Owned(nd, nh, e) = New
    BY <1>0, <1>6 DEF Owned
  <1>10. New \subseteq FileSector /\ New \cap m = {}
    BY <1>0
  <1>11. Alone(nd, nh, e)
    <2> HIDE DEF New
    <2>1. Cardinality(New) = 1 + Len(hdr.dataSectors)
      BY <1>0 DEF New
    <2> QED
      BY <1>0, <1>9, <1>10, <2>1
  <1>12. \A j \in InUse(nd) : Alone(nd, nh, j)
    <2>1. ASSUME NEW j \in InUse(d) PROVE Alone(nd, nh, j)
      <3>1. /\ Alone(d, h, j) /\ nd[j] = d[j] /\ nh[d[j].sector] = h[d[j].sector]
            /\ Owned(nd, nh, j) = Owned(d, h, j)
        BY <1>1, <1>7, <1>8
      <3> QED
        BY <3>1
    <2> HIDE DEF Alone
    <2> QED
      BY <1>0, <1>11, <2>1
  <1>13. ASSUME NEW j \in InUse(nd), NEW k \in InUse(nd), j # k
         PROVE  nd[j].name # nd[k].name /\ Owned(nd, nh, j) \cap Owned(nd, nh, k) = {}
    <2> HIDE DEF New
    <2>1. CASE j \in InUse(d) /\ k \in InUse(d)
      <3>1. d[j].name # d[k].name /\ Owned(d, h, j) \cap Owned(d, h, k) = {}
        BY <1>2, <1>13, <2>1
      <3>2. /\ nd[j] = d[j] /\ nd[k] = d[k]
            /\ Owned(nd, nh, j) = Owned(d, h, j) /\ Owned(nd, nh, k) = Owned(d, h, k)
        BY <1>7, <1>8, <2>1
      <3> QED
        BY <3>1, <3>2
    <2>2. CASE j = e /\ k \in InUse(d)
      BY <1>0, <1>4, <1>8, <1>9, <1>10, <2>2
    <2>3. CASE j \in InUse(d) /\ k = e
      BY <1>0, <1>4, <1>8, <1>9, <1>10, <2>3
    <2>4. \/ j \in InUse(d) /\ k \in InUse(d)
          \/ j = e /\ k \in InUse(d)
          \/ j \in InUse(d) /\ k = e
      BY <1>0, <1>13
    <2> QED
      BY <2>1, <2>2, <2>3, <2>4, Zenon
  <1>14. nm = Sys \cup UNION {Owned(nd, nh, j) : j \in InUse(nd)}
    <2> HIDE DEF Sys
    <2>1. nm = m \cup New
      BY <1>0
    <2> HIDE DEF New
    <2>2. ASSUME NEW r
          PROVE  (\E j \in InUse(nd) : r \in Owned(nd, nh, j)) <=>
                    r \in New \/ \E j \in InUse(d) : r \in Owned(d, h, j)
      BY <1>0, <1>8, <1>9
    <2>3. ASSUME NEW r
          PROVE  r \in nm <=> r \in Sys \/ \E j \in InUse(nd) : r \in Owned(nd, nh, j)
      <3>1. r \in m <=> r \in Sys \/ \E j \in InUse(d) : r \in Owned(d, h, j)
        BY <1>3
      <3> QED
        BY <2>1, <2>2, <3>1
    <2> DEFINE U == UNION {Owned(nd, nh, j) : j \in InUse(nd)}
    <2>4. ASSUME NEW r
          PROVE  r \in U <=> \E j \in InUse(nd) : r \in Owned(nd, nh, j)
      OBVIOUS
    <2> HIDE DEF U
    <2>5. nm = Sys \cup U
      BY <2>3, <2>4
    <2> QED
      BY <2>5 DEF U
  <1>15. Consistent(nm, nd, nh)
    BY <1>12, <1>13, <1>14, Zenon DEF Consistent
  <1>16. OthersSame(d, h, s, nd, nh)
    BY <1>7 DEF OthersSame
  <1> QED
    BY <1>15, <1>16

\* The open files stay in a directory with one more entry.
LEMMA AddedOpen ==
    ASSUME NEW o, NEW d, NEW h, OpenIn(o, d, h), NEW nd, NEW nh, InUse(d) \subseteq InUse(nd),
           \A j \in InUse(d) : nd[j] = d[j] /\ nh[d[j].sector] = h[d[j].sector]
    PROVE  OpenIn(o, nd, nh)
  <1>1. ASSUME NEW n \in Name, o[n] # Closed
        PROVE  \E j \in InUse(nd) : nd[j].name = n /\ o[n].hdr = nh[nd[j].sector]
    <2>1. PICK j \in InUse(d) : d[j].name = n /\ o[n].hdr = h[d[j].sector]
      BY <1>1 DEF OpenIn
    <2>2. j \in InUse(nd) /\ nd[j] = d[j] /\ nh[d[j].sector] = h[d[j].sector]
      BY <2>1
    <2> QED
      BY <2>1, <2>2
  <1> QED
    BY <1>1 DEF OpenIn

\* The writes p of a Create of entry e: its header hdr in sector s, the directory nd
\* and the map nm.
Creates(name, size, s, hdr, e, nd, fd, nh, nm, p) ==
    /\ NewFile(map, dir, header, s, hdr, e, nd, nh, nm) /\ OthersSame(dir, header, s, nd, nh)
    /\ hdr \in Header /\ hdr.numBytes = size /\ nm \in SUBSET Sector
    /\ nd \in Table /\ fd \in Table /\ fd = FirstSectorOf(dir, nd)
    /\ e \in Entry /\ nd[e].name = name /\ \A j \in Entry \ {e} : nd[j] = dir[j]
    /\ Keeps(dir, fd) /\ Keeps(fd, nd)
    /\ p \in Seq(Writes) /\ Pends(p, <<"header", "dir", "dir", "map">>)
    /\ p[1].at = s /\ p[1].val = hdr /\ p[2].val = fd /\ p[3].val = nd /\ p[4].val = nm
    /\ p # <<>>

\* Create writes that.
LEMMA CreateWrites ==
    ASSUME FileInv, NEW name \in Name, NEW size \in 0..MaxFileSize, Create(name, size),
           CanCreate(name, size)
    PROVE  \E s, hdr, e, nd, fd, nh, nm, p :
              Creates(name, size, s, hdr, e, nd, fd, nh, nm, p) /\ Start(name, p)
  <1>1. /\ dir \in Table /\ map \in SUBSET Sector
        /\ header \in [FileSector -> Header \cup {NoHeader}] /\ Consistent(map, dir, header)
    BY CallHas DEF Create
  <1>2. /\ Entries(dir, name) = {} /\ NumClear(map) > 0 /\ FreeEntries(dir) # {}
        /\ NumClear(map) - 1 >= divRoundUp(size, SectorSize)
    BY DEF CanCreate
  <1>3. 0..(SystemSectors - 1) \subseteq map
    BY <1>1 DEF Consistent
  <1>4. PICK s \in FileSector \ map : s = Find(map, 1) /\ s \in Sector
    <2>1. 1 \in 1..NumClear(map)
      <3>1. NumClear(map) \in Nat
        BY <1>1, FinitelyMany, Zenon
      <3> QED
        BY <1>2, <3>1
    <2>2. Find(map, 1) \in Sector \ map
      BY <1>1, <2>1, FindFinds
    <2>3. ASSUME NEW r \in Sector \ map PROVE r \in FileSector
      BY <1>3, Sizes DEF Sector, FileSector
    <2> QED
      BY <2>2, <2>3
  <1>5. PICK M \in SUBSET Sector : M = map \cup {s}
    BY <1>1, <1>4
  <1>6. PICK hdr : hdr = Allocate(M, size)
    OBVIOUS
  <1>7. /\ hdr \in Header /\ hdr.numBytes = size
        /\ Len(hdr.dataSectors) = divRoundUp(size, SectorSize)
        /\ DataSectors(hdr) \subseteq FileSector \ M
        /\ \A r : r \notin DataSectors(hdr) =>
              Cardinality({r} \cup DataSectors(hdr)) = 1 + Len(hdr.dataSectors)
    <2>1. NumClear(M) = NumClear(map) - 1
      BY <1>1, <1>4, <1>5, OneTaken
    <2>2. divRoundUp(size, SectorSize) <= NumClear(M)
      <3>1. NumClear(map) \in Nat /\ size \in Nat /\ divRoundUp(size, SectorSize) \in Nat
        <4>1. MaxFileSize \in Nat
          BY <1>1, Sizes, Times DEF MaxFileSize
        <4>2. size \in Nat
          BY <4>1
        <4> QED
          BY <1>1, <4>2, Sizes, RoundUp, FinitelyMany
      <3> QED
        BY <1>2, <2>1, <3>1
    <2> QED
      <3>1. 0..(SystemSectors - 1) \subseteq M
        BY <1>3, <1>5
      <3> QED
        BY <1>6, <2>2, <3>1, AllocateHas, Zenon
  <1>8. hdr # NoHeader
    BY <1>7, NoHeaderAssumption
  <1>9. s \notin DataSectors(hdr) /\ DataSectors(hdr) \subseteq FileSector \ map
    BY <1>5, <1>7
  <1>10. PICK nd : nd = Add(dir, name, s)
    OBVIOUS
  <1>11. PICK fd : fd = FirstSectorOf(dir, nd)
    OBVIOUS
  <1>12. nd \in Table /\ fd \in Table /\ Keeps(dir, fd) /\ Keeps(fd, nd)
    BY <1>1, <1>2, <1>4, <1>10, <1>11, AddHas
  <1>13. PICK e \in Entry \ InUse(dir) :
            /\ nd[e].sector = s /\ nd[e].name = name
            /\ InUse(nd) = InUse(dir) \cup {e} /\ \A j \in Entry \ {e} : nd[j] = dir[j]
    BY <1>1, <1>2, <1>4, <1>10, AddHas
  <1>14. \A j \in InUse(dir) : nd[j] = dir[j] /\ dir[j].name # nd[e].name
    BY <1>2, <1>13 DEF Entries, InUse
  <1>15. PICK nh : nh = [header EXCEPT ![s] = hdr]
    OBVIOUS
  <1>16. PICK nm : nm = (map \cup {s}) \cup DataSectors(hdr)
    OBVIOUS
  <1>17. NewFile(map, dir, header, s, hdr, e, nd, nh, nm)
    <2>1. /\ Len(hdr.dataSectors) = divRoundUp(hdr.numBytes, SectorSize)
          /\ Cardinality({s} \cup DataSectors(hdr)) = 1 + Len(hdr.dataSectors)
      BY <1>7, <1>9
    <2> QED
      BY <1>1, <1>4, <1>8, <1>9, <1>13, <1>14, <1>15, <1>16, <2>1 DEF NewFile
  <1>18. OthersSame(dir, header, s, nd, nh)
    <2>1. PICK X : X = Header \cup {NoHeader} /\ header \in [FileSector -> X]
      BY <1>1
    <2> QED
      BY <1>17, <2>1, AddedConsistent, Zenon
  <1>19. nm \in SUBSET Sector
    BY <1>1, <1>4, <1>9, <1>16, SystemApart
  <1> DEFINE a == [to |-> "header", at |-> s, val |-> hdr]
             b == [to |-> "dir", val |-> fd]
             c == [to |-> "dir", val |-> nd]
             g == [to |-> "map", val |-> nm]
             q == <<a, b, c, g>>
  <1>20. a \in Writes /\ b \in Writes /\ c \in Writes /\ g \in Writes
    BY <1>4, <1>7, <1>12, <1>19 DEF Writes
  <1>21. q \in Seq(Writes)
    <2> HIDE DEF a, b, c, g
    <2> QED
      BY <1>20
  <1>22. Start(name, q)
    <2>1. Start(name, WriteHeader(s, hdr) \o WriteDir(nd) \o WriteMap(M \cup DataSectors(hdr)))
      BY <1>4, <1>5, <1>6, <1>10 DEF Create
    <2>2. WriteHeader(s, hdr) = <<a>>
      BY DEF WriteHeader
    <2>3. WriteDir(nd) = <<b, c>>
      BY <1>11 DEF WriteDir
    <2>4. WriteMap(M \cup DataSectors(hdr)) = <<g>>
      BY <1>5, <1>16 DEF WriteMap
    <2>5. (<<a>> \o <<b, c>>) \o <<g>> = q
      <3> HIDE DEF a, b, c, g
      <3> QED
        BY <1>20, Joined
    <2> HIDE DEF a, b, c, g, q
    <2> QED
      BY <2>1, <2>2, <2>3, <2>4, <2>5, Zenon
  <1>23. PICK p \in Seq(Writes) : p = q
    BY <1>21
  <1>24. /\ Pends(p, <<"header", "dir", "dir", "map">>)
         /\ p[1].at = s /\ p[1].val = hdr /\ p[2].val = fd /\ p[3].val = nd /\ p[4].val = nm
         /\ p # <<>>
    BY <1>23 DEF Pends
  <1> HIDE DEF a, b, c, g, q
  <1>25. Creates(name, size, s, hdr, e, nd, fd, nh, nm, p)
    BY <1>7, <1>11, <1>12, <1>13, <1>17, <1>18, <1>19, <1>24 DEF Creates
  <1> QED
    BY <1>22, <1>23, <1>25

\* Create keeps the invariant: header and directory are written before the map.
LEMMA CreateKeeps ==
    ASSUME FileInv, NEW name \in Name, NEW size \in 0..MaxFileSize, Create(name, size)
    PROVE  FileInv'
  <1>1. /\ pending = <<>> /\ ~damaged /\ header \in [FileSector -> Header \cup {NoHeader}]
        /\ opened \in OpenType /\ OpenIn(opened, dir, header)
    BY CallHas DEF Create
  <1>2. Idle /\ UNCHANGED <<Disk, damaged>>
    BY DEF Create
  <1>3. CASE ~CanCreate(name, size)
    <2>1. Refused
      BY <1>3 DEF Create
    <2> QED
      BY <1>2, <2>1, RefusedKeeps
  <1>4. CASE CanCreate(name, size)
    <2>1. PICK s, hdr, e, nd, fd, nh, nm, p :
              Creates(name, size, s, hdr, e, nd, fd, nh, nm, p) /\ Start(name, p)
      BY <1>4, CreateWrites
    <2>2. /\ NewFile(map, dir, header, s, hdr, e, nd, nh, nm) /\ OthersSame(dir, header, s, nd, nh)
          /\ Keeps(dir, fd) /\ Keeps(fd, nd)
          /\ p \in Seq(Writes) /\ Pends(p, <<"header", "dir", "dir", "map">>)
          /\ p[1].at = s /\ p[1].val = hdr /\ p[2].val = fd /\ p[3].val = nd /\ p[4].val = nm
          /\ p # <<>>
      BY <2>1 DEF Creates
    <2>3. Consistent(nm, nd, nh)
      <3>1. PICK X : X = Header \cup {NoHeader} /\ header \in [FileSector -> X]
        BY <1>1
      <3> QED
        BY <2>2, <3>1, AddedConsistent, Zenon
    <2>4. \A j \in InUse(dir) : /\ nd[j] = dir[j] /\ dir[j].sector # s
                                /\ nh[dir[j].sector] = header[dir[j].sector]
      BY <2>2 DEF OthersSame
    <2>5. nh = [header EXCEPT ![s] = hdr] /\ InUse(dir) \subseteq InUse(nd)
      BY <2>2 DEF NewFile
    <2>6. OpenIn(opened, nd, nh)
      <3>1. PICK o, d, h : o = opened /\ d = dir /\ h = header
        OBVIOUS
      <3>2. OpenIn(o, d, h) /\ InUse(d) \subseteq InUse(nd)
        BY <1>1, <2>5, <3>1
      <3>3. \A j \in InUse(d) : nd[j] = d[j] /\ nh[d[j].sector] = h[d[j].sector]
        BY <2>4, <3>1
      <3>4. OpenIn(o, nd, nh)
        BY <3>2, <3>3, AddedOpen
      <3> QED
        BY <3>1, <3>4
    <2>7. LeadsTo(p, map, dir, header, nm, nd, nh)
      BY <1>1, <2>2, <2>5, GrowingLeadsTo
    <2>8. InPhase(p, dir)
      <3>1. \A j \in InUse(dir) : dir[j].sector # p[1].at
        BY <2>2, <2>4
      <3> QED
        BY <2>2, <3>1 DEF InPhase, Growing
    <2>9. opened' = opened
      BY <1>4 DEF Create
    <2>10. opened' \in OpenType /\ OpenIn(opened', nd, nh)
      BY <1>1, <2>6, <2>9
    <2> QED
      BY <1>1, <1>2, <2>1, <2>2, <2>3, <2>7, <2>8, <2>10, StartNext
  <1> QED
    BY <1>3, <1>4

-----------------------------------------------------------------------------
(* Write.                                                                  *)

\* A header with as many sectors as its length needs.
Filled(hdr) == hdr \in Header /\ Len(hdr.dataSectors) = divRoundUp(hdr.numBytes, SectorSize)

\* A byte of a file is in one of its sectors, the one that its offset says.
LEMMA OffsetHas ==
    ASSUME NEW hdr, Filled(hdr), NEW offset \in Nat, offset < hdr.numBytes
    PROVE  /\ offset \div SectorSize + 1 \in 1..Len(hdr.dataSectors)
           /\ ByteToSector(hdr, offset) = hdr.dataSectors[offset \div SectorSize + 1]
           /\ ByteToSector(hdr, offset) \in DataSectors(hdr)
  <1> DEFINE k == offset \div SectorSize
  <1>1. /\ hdr \in Header /\ hdr.numBytes \in Nat /\ Len(hdr.dataSectors) \in Nat
        /\ \A j \in 1..Len(hdr.dataSectors) : hdr.dataSectors[j] \in DataSectors(hdr)
        /\ Len(hdr.dataSectors) = divRoundUp(hdr.numBytes, SectorSize)
    BY HeaderHas DEF Filled
  <1>2. SectorSize \in Nat \ {0}
    BY Sizes
  <1>3. k \in Nat
    BY <1>2, Quotient
  <1>4. k < Len(hdr.dataSectors)
    BY <1>1, <1>2, RoundUp
  <1>5. ByteToSector(hdr, offset) = hdr.dataSectors[k + 1]
    BY DEF ByteToSector
  <1> HIDE DEF k
  <1>6. k + 1 \in 1..Len(hdr.dataSectors)
    BY <1>1, <1>3, <1>4
  <1> QED
    BY <1>1, <1>5, <1>6 DEF k

\* ... and is a byte.
LEMMA ByteHas ==
    ASSUME NEW hdr, Filled(hdr), NEW offset \in Nat, offset < hdr.numBytes,
           data \in [FileSector -> Bytes]
    PROVE  /\ ByteToSector(hdr, offset) \in DataSectors(hdr)
           /\ DataSectors(hdr) \subseteq FileSector
           /\ ByteAt(hdr, offset) \in Byte
  <1> DEFINE r == offset % SectorSize
  <1>1. ByteToSector(hdr, offset) \in DataSectors(hdr) /\ DataSectors(hdr) \subseteq FileSector
    BY OffsetHas, HeaderHas DEF Filled
  <1>2. r \in Offset
    BY Sizes, Quotient DEF Offset
  <1>3. ByteAt(hdr, offset) = data[ByteToSector(hdr, offset)][r]
    BY DEF ByteAt
  <1> HIDE DEF r
  <1>4. ByteAt(hdr, offset) \in Byte
    BY <1>1, <1>2, <1>3 DEF Bytes
  <1> QED
    BY <1>1, <1>4

\* The buffer of a sector holds bytes.
LEMMA BufferType ==
    ASSUME NEW hdr, Filled(hdr), data \in [FileSector -> Bytes],
           NEW l \in Nat, NEW from \in [1..l -> Byte], NEW numBytes \in Nat, numBytes <= l,
           NEW pos \in Nat, NEW sector \in Nat, NEW garbage \in Byte
    PROVE  Buffer(hdr, from, numBytes, pos, sector, garbage) \in Bytes
  <1> DEFINE first == pos \div SectorSize
             last  == (pos + numBytes - 1) \div SectorSize
             wasRead == \/ sector = first /\ pos # first * SectorSize
                        \/ sector = last /\ pos + numBytes # (last + 1) * SectorSize
             b(o) == LET p == sector * SectorSize + o
                     IN  IF p - pos \in 0..(numBytes - 1) THEN from[p - pos + 1]
                         ELSE IF wasRead /\ p < hdr.numBytes THEN ByteAt(hdr, p)
                         ELSE garbage
  <1>1. Buffer(hdr, from, numBytes, pos, sector, garbage) = [o \in Offset |-> b(o)]
    BY DEF Buffer
  <1> HIDE DEF wasRead
  <1>2. ASSUME NEW o \in Offset PROVE b(o) \in Byte
    <2>1. PICK p \in Nat : p = sector * SectorSize + o
      <3>1. SectorSize \in Nat /\ o \in Nat
        BY Sizes DEF Offset
      <3>2. sector * SectorSize \in Nat
        BY <3>1, Times
      <3> QED
        BY <3>1, <3>2
    <2>2. b(o) = IF p - pos \in 0..(numBytes - 1) THEN from[p - pos + 1]
                 ELSE IF wasRead /\ p < hdr.numBytes THEN ByteAt(hdr, p)
                 ELSE garbage
      BY <2>1
    <2> HIDE DEF b
    <2>3. CASE p - pos \in 0..(numBytes - 1)
      <3>1. p - pos + 1 \in 1..l
        BY <2>1, <2>3
      <3>2. from[p - pos + 1] \in Byte
        BY <3>1
      <3> QED
        BY <2>2, <2>3, <3>2
    <2>4. CASE ~(p - pos \in 0..(numBytes - 1)) /\ wasRead /\ p < hdr.numBytes
      <3>1. ByteAt(hdr, p) \in Byte
        BY <2>4, ByteHas
      <3> QED
        BY <2>2, <2>4, <3>1
    <2>5. CASE ~(p - pos \in 0..(numBytes - 1)) /\ ~(wasRead /\ p < hdr.numBytes)
      BY <2>2, <2>5
    <2> QED
      BY <2>3, <2>4, <2>5, Zenon
  <1> HIDE DEF b
  <1>3. [o \in Offset |-> b(o)] \in [Offset -> Byte]
    BY <1>2
  <1> QED
    BY <1>1, <1>3 DEF Bytes

\* The start of the sector that a position is in.
LEMMA StartOfSector ==
    ASSUME NEW x \in Nat, NEW n \in Nat \ {0}
    PROVE  \E k \in Nat : k = x \div n /\ k * n \in Nat /\ k * n <= x
  <1> DEFINE k == x \div n
             r == x % n
  <1>1. k \in Nat /\ r \in 0..(n - 1) /\ k * n \in Nat /\ x = k * n + r
    BY Quotient
  <1>2. r \in Nat /\ x = k * n + r /\ k * n \in Nat
    BY <1>1
  <1> HIDE DEF k, r
  <1>3. k * n <= x
    <2> DEFINE y == k * n
    <2>1. r \in Nat /\ x = y + r /\ y \in Nat
      BY <1>2
    <2> HIDE DEF y
    <2>2. y <= x
      BY <2>1
    <2> QED
      BY <2>2 DEF y
  <1>4. k \in Nat /\ k = x \div n /\ k * n \in Nat /\ k * n <= x
    BY <1>1, <1>3 DEF k
  <1> QED
    BY <1>4

\* A request to write bytes of from, clipped to the file.
Request(hdr, l, from, numBytes, pos, garbage) ==
    /\ Filled(hdr) /\ l \in Nat /\ from \in [1..l -> Byte] /\ garbage \in Byte
    /\ numBytes \in Nat \ {0} /\ numBytes <= l /\ pos \in Nat /\ pos + numBytes <= hdr.numBytes

\* Writes to the sectors of one file.
WritesFile(p, hdr) ==
    /\ p \in Seq(Writes) /\ p # <<>>
    /\ \A i \in 1..Len(p) : p[i].to = "data" /\ p[i].at \in DataSectors(hdr)

\* WriteAt writes to the sectors of the file.
LEMMA WriteAtHas ==
    ASSUME data \in [FileSector -> Bytes], NEW hdr, NEW l, NEW from, NEW numBytes, NEW pos,
           NEW garbage, Request(hdr, l, from, numBytes, pos, garbage)
    PROVE  WritesFile(WriteAt(hdr, from, numBytes, pos, garbage), hdr)
  <1>0. /\ Filled(hdr) /\ l \in Nat /\ from \in [1..l -> Byte] /\ garbage \in Byte
        /\ numBytes \in Nat \ {0} /\ numBytes <= l /\ pos \in Nat /\ pos + numBytes <= hdr.numBytes
    BY DEF Request
  <1>14. PICK p : p = WriteAt(hdr, from, numBytes, pos, garbage)
    OBVIOUS
  <1>1. SectorSize \in Nat \ {0} /\ hdr.numBytes \in Nat
    BY <1>0, Sizes, HeaderHas DEF Filled
  <1>2. PICK first \in Nat : first = pos \div SectorSize /\ first * SectorSize \in Nat /\ first * SectorSize <= pos
    BY <1>0, <1>1, StartOfSector
  <1>3. PICK end \in Nat : end = pos + numBytes - 1 /\ end < hdr.numBytes
    BY <1>0, <1>1
  <1>4. PICK last \in Nat : /\ last = end \div SectorSize /\ last * SectorSize \in Nat
                            /\ last * SectorSize <= end
    BY <1>1, <1>3, StartOfSector
  <1>5. first <= last
    <2>1. PICK x \in Nat : x = first * SectorSize /\ x <= pos
      BY <1>2
    <2>2. x <= end
      BY <1>0, <1>3, <2>1
    <2>3. first * SectorSize <= end
      BY <2>1, <2>2
    <2> QED
      BY <1>1, <1>2, <1>4, <2>3, QuotientBetween
  <1>6. PICK n \in Nat \ {0} : n = last - first + 1
    BY <1>2, <1>4, <1>5
  <1> DEFINE at(i) == ByteToSector(hdr, (first + i - 1) * SectorSize)
             val(i) == Buffer(hdr, from, numBytes, pos, first + i - 1, garbage)
  <1>7. p = [i \in 1..n |-> WriteData(at(i), val(i))]
    BY <1>2, <1>3, <1>4, <1>6, <1>14 DEF WriteAt
  <1>8. ASSUME NEW i \in 1..n
        PROVE  at(i) \in DataSectors(hdr) /\ at(i) \in FileSector /\ val(i) \in Bytes
    <2>1. PICK k \in Nat : k = first + i - 1 /\ k <= last
      <3>1. i \in Nat /\ i >= 1 /\ i <= n
        BY <1>6
      <3>2. first + i - 1 \in Nat /\ first + i - 1 <= last
        <4>1. first \in Nat /\ last \in Nat /\ n \in Nat /\ n = last - first + 1
          BY <1>6
        <4> HIDE DEF at, val
        <4> QED
          BY <3>1, <4>1
      <3> QED
        BY <3>2
    <2>2. k * SectorSize \in Nat /\ k * SectorSize <= end
      <3>1. k * SectorSize \in Nat /\ k * SectorSize <= last * SectorSize
        BY <1>1, <1>4, <2>1, Times
      <3> QED
        BY <1>3, <1>4, <3>1
    <2> DEFINE offset == k * SectorSize
    <2>3. offset \in Nat /\ offset < hdr.numBytes
      BY <1>1, <1>3, <2>2
    <2> HIDE DEF offset
    <2>4. ByteToSector(hdr, offset) \in DataSectors(hdr) /\ DataSectors(hdr) \subseteq FileSector
      BY <1>0, <2>3, ByteHas
    <2>5. at(i) = ByteToSector(hdr, offset)
      BY <2>1 DEF offset
    <2>6. val(i) \in Bytes
      <3>1. Buffer(hdr, from, numBytes, pos, k, garbage) \in Bytes
        BY <1>0, <2>1, BufferType
      <3> QED
        BY <2>1, <3>1
    <2> QED
      BY <2>4, <2>5, <2>6
  <1> HIDE DEF at, val
  <1>9. ASSUME NEW i \in 1..n
        PROVE  /\ WriteData(at(i), val(i)) \in Writes
               /\ WriteData(at(i), val(i)).to = "data" /\ WriteData(at(i), val(i)).at = at(i)
    BY <1>8 DEF WriteData, Writes
  <1>10. p \in [1..n -> Writes] /\ DOMAIN p = 1..n
    BY <1>7, <1>9
  <1>11. p \in Seq(Writes) /\ Len(p) = n /\ p # <<>>
    BY <1>6, <1>10
  <1>12. \A i \in 1..n : p[i] = WriteData(at(i), val(i))
    BY <1>7
  <1>13. WritesFile(p, hdr)
    BY <1>8, <1>9, <1>11, <1>12 DEF WritesFile
  <1> QED
    BY <1>14, <1>13

\* Write keeps the invariant: it writes sectors of an open file, never a header.
LEMMA WriteKeeps ==
    ASSUME FileInv, NEW name \in Name, NEW n \in 1..MaxTransfer, NEW from \in [1..n -> Byte],
           Write(name, from)
    PROVE  FileInv'
  <1>1. /\ pending = <<>> /\ ~damaged /\ dir \in Table /\ map \in SUBSET Sector
        /\ header \in [FileSector -> Header \cup {NoHeader}] /\ data \in [FileSector -> Bytes]
        /\ opened \in OpenType /\ Consistent(map, dir, header) /\ OpenIn(opened, dir, header)
    BY CallHas DEF Write
  <1>2. Idle /\ UNCHANGED <<Disk, damaged>> /\ opened[name] # Closed
    BY DEF Write
  <1>3. PICK hdr \in Header, pos \in 0..MaxFileSize :
            hdr = opened[name].hdr /\ pos = opened[name].seekPosition
    BY <1>1, <1>2 DEF OpenType
  <1>4. n \in Nat /\ Len(from) = n
    <2>1. n \in Nat
      BY FileSystemAssumption
    <2> QED
      BY <2>1
  <1>5. PICK c : c = Clip(hdr, n, pos)
    OBVIOUS
  <1>6. /\ c \in Nat /\ pos + c \in 0..MaxFileSize
        /\ c # 0 => c <= n /\ pos + c <= hdr.numBytes
    BY <1>4, <1>5, ClipRange
  <1>7. /\ opened' = [opened EXCEPT ![name].seekPosition = pos + c]
        /\ IF c = 0 THEN UNCHANGED <<pending, busy>>
           ELSE \E garbage \in Byte : Start(name, WriteAt(hdr, from, c, pos, garbage))
    BY <1>3, <1>4, <1>5 DEF Write
  <1>8. opened' \in OpenType /\ OpenIn(opened', dir, header)
    <2>1. PICK q \in 0..MaxFileSize : q = pos + c
      BY <1>6
    <2>2. opened' = [opened EXCEPT ![name].seekPosition = q]
      BY <1>7, <2>1
    <2> QED
      BY <1>1, <1>2, <2>2, PositionNext
  <1>9. CASE c = 0
    <2>1. UNCHANGED <<pending, busy>>
      BY <1>7, <1>9
    <2> QED
      BY <1>2, <1>8, <2>1, QuietCall
  <1>10. CASE c # 0
    <2>1. PICK garbage \in Byte : Start(name, WriteAt(hdr, from, c, pos, garbage))
      BY <1>7, <1>10
    <2>2. PICK i \in InUse(dir) : hdr = header[dir[i].sector]
      BY <1>1, <1>2, <1>3 DEF OpenIn
    <2>3. Filled(hdr)
      <3>1. Len(hdr.dataSectors) = divRoundUp(hdr.numBytes, SectorSize)
        BY <1>1, <2>2, EntryHas
      <3> QED
        BY <3>1 DEF Filled
    <2>4. pos \in Nat /\ c \in Nat \ {0} /\ c <= n /\ pos + c <= hdr.numBytes
      <3>1. MaxFileSize \in Nat
        BY Sizes, Times DEF MaxFileSize
      <3> QED
        BY <1>6, <1>10, <3>1
    <2>5. Request(hdr, n, from, c, pos, garbage)
      BY <1>4, <2>3, <2>4 DEF Request
    <2>6. PICK p : /\ p = WriteAt(hdr, from, c, pos, garbage)
                   /\ p \in Seq(Writes) /\ p # <<>>
                   /\ \A k \in 1..Len(p) : p[k].to = "data" /\ p[k].at \in DataSectors(hdr)
      <3>1. WritesFile(WriteAt(hdr, from, c, pos, garbage), hdr)
        BY <1>1, <2>5, WriteAtHas, Zenon
      <3>2. PICK p : p = WriteAt(hdr, from, c, pos, garbage)
        OBVIOUS
      <3>3. WritesFile(p, hdr)
        BY <3>1, <3>2
      <3> QED
        BY <3>2, <3>3 DEF WritesFile
    <2>7. \A j \in InUse(dir) : dir[j].sector \notin DataSectors(hdr)
      <3>1. ASSUME NEW j \in InUse(dir), dir[j].sector \in DataSectors(hdr) PROVE FALSE
        <4>1. dir[j].sector \in Owned(dir, header, j) /\ dir[j].sector \in Owned(dir, header, i)
          BY <2>2, <3>1 DEF Owned
        <4>2. j = i
          BY <1>1, <4>1, Zenon DEF Consistent
        <4>3. dir[i].sector \notin DataSectors(hdr)
          BY <1>1, <2>2, EntryHas
        <4> QED
          BY <3>1, <4>2, <4>3
      <3> QED
        BY <3>1
    <2>8. Writing(p, dir)
      BY <2>6, <2>7 DEF Writing
    <2>9. LeadsTo(p, map, dir, header, map, dir, header)
      BY <1>1, <2>6, <2>8, WritingLeadsTo
    <2>10. InPhase(p, dir) /\ Start(name, p)
      BY <2>1, <2>6, <2>8 DEF InPhase
    <2> QED
      BY <1>1, <1>2, <1>8, <2>6, <2>9, <2>10, StartNext
  <1> QED
    BY <1>9, <1>10

-----------------------------------------------------------------------------
(* The theorems.                                                           *)

\* A formatted disk satisfies the invariant.
LEMMA FileInit ==
    ASSUME Init
    PROVE  FileInv
  <1>1. /\ map = 0..(SystemSectors - 1) /\ pending = <<>> /\ busy = Nobody /\ ~damaged
        /\ dir = [i \in Entry |-> [inUse |-> FALSE, sector |-> 0, name |-> NoName]]
        /\ header = [s \in FileSector |-> NoHeader]
        /\ data = [s \in FileSector |-> [o \in Offset |-> 0]]
        /\ opened = [n \in Name |-> Closed] /\ damaged = FALSE
    BY DEF Init
  <1>2. map \in SUBSET Sector
    BY <1>1, SystemApart
  <1>3. dir \in Table
    <2>1. 0 \in Sector
      BY Sizes DEF Sector
    <2> QED
      BY <1>1, <2>1 DEF Table
  <1>4. header \in [FileSector -> Header \cup {NoHeader}] /\ opened \in OpenType
    BY <1>1 DEF OpenType
  <1>5. data \in [FileSector -> Bytes]
    BY <1>1, Sizes DEF Bytes
  <1>6. TypeOK
    BY <1>1, <1>2, <1>3, <1>4, <1>5 DEF TypeOK, Table, Bytes, OpenType
  <1>7. InUse(dir) = {}
    BY <1>1 DEF InUse
  <1>8. Consistent(map, dir, header)
    <2>1. map = 0..(SystemSectors - 1) \cup UNION {Owned(dir, header, i) : i \in InUse(dir)}
      BY <1>1, <1>7
    <2> QED
      BY <1>7, <2>1 DEF Consistent
  <1>9. OpenIn(opened, dir, header)
    BY <1>1 DEF OpenIn
  <1>10. PICK p \in Seq(Writes) : p = <<>>
    BY EmptySeq
  <1>11. Writing(p, dir)
    <2>1. Writing(<<>>, dir)
      BY DEF Writing
    <2> QED
      BY <1>10, <2>1
  <1>12. LeadsTo(p, map, dir, header, map, dir, header)
    BY <1>4, <1>11, WritingLeadsTo
  <1>13. LogicalMap = map /\ LogicalDir = dir /\ LogicalHeader = header
    BY <1>1, <1>10, <1>12, LogicalParts DEF LeadsTo
  <1>14. pending \in Seq(Writes) /\ InPhase(pending, dir)
    BY <1>1, <1>10, <1>11 DEF InPhase
  <1>15. Marks(map, dir, header)
    BY <1>8, ConsistentMarks
  <1> QED
    BY <1>1, <1>6, <1>8, <1>9, <1>13, <1>14, <1>15 DEF FileInv

\* Every step keeps the invariant.
LEMMA FileNext ==
    ASSUME FileInv, [Next]_fsVars
    PROVE  FileInv'
  <1>1. CASE WriteSector
    BY <1>1, WriteSectorKeeps
  <1>2. CASE Return
    BY <1>2, ReturnKeeps
  <1>3. CASE Crash
    BY <1>3, CrashKeeps
  <1>4. ASSUME NEW name \in Name, Open(name)
        PROVE  FileInv'
    BY <1>4, OpenKeeps
  <1>5. ASSUME NEW name \in Name, Close(name)
        PROVE  FileInv'
    BY <1>5, CloseKeeps
  <1>6. ASSUME NEW name \in Name, Remove(name)
        PROVE  FileInv'
    BY <1>6, RemoveKeeps
  <1>7. ASSUME NEW name \in Name, NEW n \in 0..MaxFileSize, Create(name, n)
        PROVE  FileInv'
    BY <1>7, CreateKeeps
  <1>8. ASSUME NEW name \in Name, NEW n \in 0..MaxFileSize, Seek(name, n)
        PROVE  FileInv'
    BY <1>8, SeekKeeps
  <1>9. ASSUME NEW name \in Name, NEW n \in 1..MaxTransfer, Read(name, n)
        PROVE  FileInv'
    BY <1>9, ReadKeeps
  <1>10. ASSUME NEW name \in Name, NEW n \in 1..MaxTransfer, NEW from \in [1..n -> Byte],
                Write(name, from)
         PROVE  FileInv'
    BY <1>10, WriteKeeps
  <1>11. CASE UNCHANGED fsVars
    <2>1. /\ map' = map /\ dir' = dir /\ header' = header /\ data' = data /\ pending' = pending
          /\ busy' = busy /\ opened' = opened /\ result' = result /\ damaged' = damaged
      BY <1>11 DEF fsVars
    <2>2. TypeOK'
      BY <2>1 DEF FileInv, TypeOK
    <2>3. LogicalMap' = LogicalMap /\ LogicalDir' = LogicalDir /\ LogicalHeader' = LogicalHeader
      BY <2>1, LogicalParts, LogicalPartsNext
    <2>4. /\ pending' \in Seq(Writes) /\ Marks(map, dir, header)' /\ InPhase(pending, dir)'
          /\ damaged' => pending' = <<>> /\ result' = None
      BY <2>1 DEF FileInv
    <2>5. ~damaged' => /\ Consistent(LogicalMap, LogicalDir, LogicalHeader)'
                       /\ OpenIn(opened, LogicalDir, LogicalHeader)'
      BY <2>1, <2>3 DEF FileInv
    <2> QED
      BY <2>2, <2>4, <2>5 DEF FileInv
  <1> QED
    BY <1>1, <1>2, <1>3, <1>4, <1>5, <1>6, <1>7, <1>8, <1>9, <1>10, <1>11 DEF Next

\* FileInv is an invariant.
LEMMA FileInvariant == Spec => []FileInv
  <1>1. Init => FileInv
    BY FileInit
  <1>2. FileInv /\ [Next]_fsVars => FileInv'
    BY FileNext
  <1> QED
    BY <1>1, <1>2, PTL DEF Spec

(***************************************************************************)
(* Every operation leaves a consistent disk behind, ... (openfile.cc,       *)
(* filesys.cc, filehdr.cc, directory.cc)                                    *)
(***************************************************************************)
THEOREM DiskStaysExact == Spec => []SectorsExact
  <1>1. FileInv => SectorsExact
    BY DEF FileInv, SectorsExact
  <1> QED
    BY <1>1, FileInvariant, PTL

(***************************************************************************)
(* ... and no exit of Nachos, however many sectors an operation still had   *)
(* to write, loses a sector.                                                *)
(***************************************************************************)
THEOREM ExitLosesNothing == Spec => []NothingLeaks
  <1>1. FileInv => NothingLeaks
    BY DEF FileInv, Marks, NothingLeaks
  <1> QED
    BY <1>1, FileInvariant, PTL

-----------------------------------------------------------------------------
(* The files of a disk.                                                    *)

\* The contents of the file with this header, ...
ContentOf(hdr, b) ==
    [i \in 1..hdr.numBytes |-> b[ByteToSector(hdr, i - 1)][(i - 1) % SectorSize]]

\* ... of every file of the directory, ...
FilesOf(d, h, b) ==
    [n \in {m \in Name : Entries(d, m) # {}} |-> ContentOf(h[d[FindIndex(d, n)].sector], b)]

\* ... and the sectors with the writes p done.
DataOf(p, b) ==
    [s \in FileSector |->
        LET W == {i \in WritesIn(p, "data") : p[i].at = s}
        IN  IF W = {} THEN b[s] ELSE p[Max(W)].val]

\* These are the files of the model.
LogicalFiles == FilesOf(LogicalDir, LogicalHeader, DataOf(pending, data))

LEMMA FilesAre == ~damaged => FilesThere = LogicalFiles
  <1> SUFFICES ASSUME ~damaged
               PROVE  FilesThere = LogicalFiles
    OBVIOUS
  <1>1. LogicalData = DataOf(pending, data)
    BY DEF LogicalData, DataOf, WritesTo, WritesIn
  <1>2. \A n : Contents(n) = ContentOf(LogicalHeader[LogicalDir[FindIndex(LogicalDir, n)].sector], LogicalData)
    BY DEF Contents, ContentOf
  <1>3. {m \in Name : ~damaged /\ Entries(LogicalDir, m) # {}} = {m \in Name : Entries(LogicalDir, m) # {}}
    OBVIOUS
  <1> QED
    BY <1>1, <1>2, <1>3, Zenon DEF FilesThere, FilesOf, LogicalFiles

\* ... and after a step.
LEMMA FilesAreNext == (~damaged => FilesThere = LogicalFiles)'
  BY FilesAre, PTL

\* A file is there if there is an entry with its name.
LEMMA FileIs ==
    ASSUME NEW d, NEW h, NEW b
    PROVE  /\ DOMAIN FilesOf(d, h, b) = {m \in Name : Entries(d, m) # {}}
           /\ \A n \in Name : Entries(d, n) # {} =>
                  FilesOf(d, h, b)[n] = ContentOf(h[d[FindIndex(d, n)].sector], b)
  BY DEF FilesOf

\* Only the sectors of a file matter.
LEMMA SameContent ==
    ASSUME NEW hdr, Filled(hdr), NEW b, NEW c, \A s \in DataSectors(hdr) : b[s] = c[s]
    PROVE  ContentOf(hdr, b) = ContentOf(hdr, c)
  <1>1. ASSUME NEW i \in 1..hdr.numBytes
        PROVE  b[ByteToSector(hdr, i - 1)] = c[ByteToSector(hdr, i - 1)]
    <2>1. hdr.numBytes \in Nat
      BY HeaderHas DEF Filled
    <2>2. i - 1 \in Nat /\ i - 1 < hdr.numBytes
      BY <2>1
    <2>3. ByteToSector(hdr, i - 1) \in DataSectors(hdr)
      BY <2>2, OffsetHas
    <2> QED
      BY <2>3
  <1> QED
    BY <1>1 DEF ContentOf

\* The file n is the same on two disks.
SameFile(n, d, h, b, e, g, c) ==
    /\ n \in DOMAIN FilesOf(d, h, b) <=> n \in DOMAIN FilesOf(e, g, c)
    /\ n \in DOMAIN FilesOf(d, h, b) => FilesOf(e, g, c)[n] = FilesOf(d, h, b)[n]

\* It is if its entry, header and sectors are.
LEMMA SameFileIs ==
    ASSUME NEW n \in Name, NEW d, NEW h, NEW b, NEW e, NEW g, NEW c, Entries(e, n) = Entries(d, n),
           \A i \in Entries(d, n) :
              /\ e[i].sector = d[i].sector /\ g[d[i].sector] = h[d[i].sector]
              /\ Filled(h[d[i].sector]) /\ \A s \in DataSectors(h[d[i].sector]) : c[s] = b[s]
    PROVE  SameFile(n, d, h, b, e, g, c)
  <1>1. n \in DOMAIN FilesOf(d, h, b) <=> Entries(d, n) # {}
    BY FileIs
  <1>2. n \in DOMAIN FilesOf(e, g, c) <=> Entries(d, n) # {}
    BY FileIs
  <1>3. ASSUME Entries(d, n) # {}
        PROVE  FilesOf(e, g, c)[n] = FilesOf(d, h, b)[n]
    <2>1. PICK i \in Entries(d, n) : i = FindIndex(d, n)
      <3>1. Entries(d, n) \in SUBSET Nat
        BY DEF Entries, Entry
      <3> QED
        BY <1>3, <3>1, MinIn DEF FindIndex
    <2>2. FindIndex(e, n) = i
      BY <2>1 DEF FindIndex
    <2>3. PICK hdr : hdr = h[d[i].sector]
      OBVIOUS
    <2>4. g[e[i].sector] = hdr /\ Filled(hdr) /\ \A s \in DataSectors(hdr) : c[s] = b[s]
      BY <2>1, <2>3
    <2>5. ContentOf(hdr, c) = ContentOf(hdr, b)
      BY <2>4, SameContent
    <2>6. FilesOf(d, h, b)[n] = ContentOf(hdr, b)
      BY <1>3, <2>1, <2>3 DEF FilesOf
    <2>7. FilesOf(e, g, c)[n] = ContentOf(hdr, c)
      BY <1>3, <2>2, <2>4 DEF FilesOf
    <2> QED
      BY <2>5, <2>6, <2>7
  <1> QED
    BY <1>1, <1>2, <1>3 DEF SameFile

\* The headers of a consistent disk.
LEMMA ConsistentFilled ==
    ASSUME NEW m, NEW d, NEW h \in [FileSector -> Header \cup {NoHeader}], Consistent(m, d, h),
           NEW i \in InUse(d)
    PROVE  Filled(h[d[i].sector])
  BY EntryHas DEF Filled

\* All files are the same on two disks with the same directory.
LEMMA SameFiles ==
    ASSUME NEW m, NEW d, NEW h \in [FileSector -> Header \cup {NoHeader}], Consistent(m, d, h),
           NEW g, SameHeaders(d, g, h), NEW b, NEW c,
           \A i \in InUse(d) : \A s \in DataSectors(h[d[i].sector]) : c[s] = b[s]
    PROVE  FilesOf(d, g, c) = FilesOf(d, h, b)
  <1>1. ASSUME NEW n \in Name
        PROVE  SameFile(n, d, h, b, d, g, c)
    <2>1. ASSUME NEW i \in Entries(d, n)
          PROVE  /\ g[d[i].sector] = h[d[i].sector] /\ Filled(h[d[i].sector])
                 /\ \A s \in DataSectors(h[d[i].sector]) : c[s] = b[s]
      <3>1. i \in InUse(d)
        BY DEF Entries, InUse
      <3> QED
        BY <3>1, ConsistentFilled DEF SameHeaders
    <2> QED
      BY <2>1, SameFileIs
  <1>2. DOMAIN FilesOf(d, g, c) = DOMAIN FilesOf(d, h, b) /\ DOMAIN FilesOf(d, h, b) \subseteq Name
    BY FileIs
  <1>3. \A n \in DOMAIN FilesOf(d, h, b) : FilesOf(d, g, c)[n] = FilesOf(d, h, b)[n]
    BY <1>1, <1>2 DEF SameFile
  <1>4. /\ FilesOf(d, g, c) = [n \in DOMAIN FilesOf(d, g, c) |-> FilesOf(d, g, c)[n]]
        /\ FilesOf(d, h, b) = [n \in DOMAIN FilesOf(d, h, b) |-> FilesOf(d, h, b)[n]]
    BY DEF FilesOf
  <1> QED
    BY <1>2, <1>3, <1>4

-----------------------------------------------------------------------------
(* The sectors of files that are written.                                  *)

\* The greatest of some of the first L numbers.
LEMMA MaxIn ==
    ASSUME NEW L \in Nat, NEW V \in SUBSET (1..L), V # {}
    PROVE  Max(V) \in V /\ \A x \in V : x <= Max(V)
  <1> DEFINE T == {L - x : x \in V}
  <1>1. T \in SUBSET Nat /\ T # {}
    <2>1. \A x \in V : L - x \in Nat
      OBVIOUS
    <2> QED
      BY <2>1
  <1>2. PICK t \in T : \A y \in T : t <= y
    <2> HIDE DEF T
    <2> QED
      BY <1>1, Least
  <1>3. PICK k \in V : t = L - k
    BY <1>2
  <1>4. ASSUME NEW x \in V PROVE x <= k
    <2>1. L - x \in T
      OBVIOUS
    <2>2. L - k <= L - x
      BY <1>2, <1>3, <2>1
    <2>3. x \in Nat /\ k \in Nat
      OBVIOUS
    <2> QED
      BY <2>2, <2>3
  <1>5. V \in SUBSET Nat
    OBVIOUS
  <1>6. Max(V) = k
    BY <1>4, <1>5, MaxIs
  <1> QED
    BY <1>4, <1>6

\* Without such a write nothing changes.
LEMMA NoData ==
    ASSUME NEW p \in Seq(Writes), NEW X, NEW b \in [FileSector -> X],
           \A i \in 1..Len(p) : p[i].to # "data"
    PROVE  DataOf(p, b) = b
  <1> DOMAIN p = 1..Len(p) /\ Len(p) \in Nat
    BY LenProperties
  <1>1. WritesIn(p, "data") = {}
    BY DEF WritesIn
  <1>2. \A s \in FileSector : {i \in WritesIn(p, "data") : p[i].at = s} = {}
    BY <1>1
  <1>3. DataOf(p, b) = [s \in FileSector |-> b[s]]
    BY <1>2 DEF DataOf
  <1> QED
    BY <1>3

\* A sector that is not written, or by one write only.
LEMMA DataAt ==
    ASSUME NEW p \in Seq(Writes), NEW b, NEW s \in FileSector
    PROVE  /\ (\A i \in 1..Len(p) : p[i].to = "data" => p[i].at # s) => DataOf(p, b)[s] = b[s]
           /\ \A k \in 1..Len(p) :
                p[k].to = "data" /\ p[k].at = s
                /\ (\A i \in 1..Len(p) : p[i].to = "data" /\ p[i].at = s => i <= k)
                => DataOf(p, b)[s] = p[k].val
  <1> DEFINE W == {i \in WritesIn(p, "data") : p[i].at = s}
  <1>1. DataOf(p, b)[s] = IF W = {} THEN b[s] ELSE p[Max(W)].val
    BY DEF DataOf
  <1>2. W = {i \in 1..Len(p) : p[i].to = "data" /\ p[i].at = s} /\ Len(p) \in Nat
    BY LenProperties DEF WritesIn
  <1> HIDE DEF W
  <1>3. ASSUME \A i \in 1..Len(p) : p[i].to = "data" => p[i].at # s PROVE DataOf(p, b)[s] = b[s]
    BY <1>1, <1>2, <1>3
  <1>4. ASSUME NEW k \in 1..Len(p), p[k].to = "data", p[k].at = s,
               \A i \in 1..Len(p) : p[i].to = "data" /\ p[i].at = s => i <= k
        PROVE  DataOf(p, b)[s] = p[k].val
    <2>1. W \in SUBSET Nat /\ k \in W /\ \A i \in W : i <= k
      BY <1>2, <1>4
    <2>2. Max(W) = k
      BY <2>1, MaxIs
    <2> QED
      BY <1>1, <2>1, <2>2
  <1> QED
    BY <1>3, <1>4

\* The first of the writes is done.
LEMMA DataTail ==
    ASSUME NEW p \in Seq(Writes), p # <<>>, p[1].to = "data", NEW X, NEW b \in [FileSector -> X],
           NEW c, c = [b EXCEPT ![p[1].at] = p[1].val]
    PROVE  DataOf(Tail(p), c) = DataOf(p, b)
  <1>1. PICK t \in Seq(Writes) :
          /\ t = Tail(p) /\ Len(p) \in Nat \ {0} /\ Len(t) = Len(p) - 1
          /\ \A i \in 1..Len(t) : t[i] = p[i + 1]
    BY FirstDone
  <1>2. Len(t) \in Nat /\ 1 \in 1..Len(p)
    BY <1>1
  <1>3. ASSUME NEW s \in FileSector
        PROVE  DataOf(t, c)[s] = DataOf(p, b)[s]
    <2> DEFINE V == {i \in 1..Len(t) : t[i].to = "data" /\ t[i].at = s}
    <2>1. \A i \in 1..Len(p) : i = 1 \/ (i - 1 \in 1..Len(t) /\ t[i - 1] = p[i])
      <3>1. ASSUME NEW i \in 1..Len(p), i # 1 PROVE i - 1 \in 1..Len(t) /\ t[i - 1] = p[i]
        <4>1. PICK j \in 1..Len(t) : j = i - 1
          BY <1>1, <3>1
        <4>2. t[j] = p[j + 1] /\ j + 1 = i
          BY <1>1, <4>1
        <4> QED
          BY <4>1, <4>2
      <3> QED
        BY <3>1
    <2>2. c[s] = IF p[1].at = s THEN p[1].val ELSE b[s]
      OBVIOUS
    <2>3. CASE V = {}
      <3>1. DataOf(t, c)[s] = c[s]
        <4>1. \A i \in 1..Len(t) : t[i].to = "data" => t[i].at # s
          BY <2>3
        <4> QED
          BY <4>1, DataAt
      <3>2. \A i \in 1..Len(p) : p[i].to = "data" /\ p[i].at = s => i = 1
        BY <2>1, <2>3
      <3>3. CASE p[1].at = s
        <4>1. \A i \in 1..Len(p) : p[i].to = "data" /\ p[i].at = s => i <= 1
          BY <3>2
        <4>2. DataOf(p, b)[s] = p[1].val
          BY <1>2, <3>3, <4>1, DataAt
        <4> QED
          BY <2>2, <3>1, <3>3, <4>2
      <3>4. CASE p[1].at # s
        <4>1. \A i \in 1..Len(p) : p[i].to = "data" => p[i].at # s
          BY <3>2, <3>4
        <4>2. DataOf(p, b)[s] = b[s]
          BY <4>1, DataAt
        <4> QED
          BY <2>2, <3>1, <3>4, <4>2
      <3> QED
        BY <3>3, <3>4
    <2>4. CASE V # {}
      <3>1. PICK k \in V : \A x \in V : x <= k
        <4>1. V \in SUBSET (1..Len(t))
          OBVIOUS
        <4> HIDE DEF V
        <4> QED
          BY <1>2, <2>4, <4>1, MaxIn
      <3>2. k \in 1..Len(t) /\ t[k].to = "data" /\ t[k].at = s
        OBVIOUS
      <3>3. \A i \in 1..Len(t) : t[i].to = "data" /\ t[i].at = s => i <= k
        BY <3>1
      <3> HIDE DEF V
      <3>4. DataOf(t, c)[s] = t[k].val
        BY <3>2, <3>3, DataAt
      <3>5. PICK l \in 1..Len(p) : l = k + 1 /\ p[l] = t[k]
        BY <1>1, <3>2
      <3>6. ASSUME NEW i \in 1..Len(p), p[i].to = "data", p[i].at = s
            PROVE  i <= l
        <4>1. CASE i = 1
          BY <1>2, <3>2, <3>5, <4>1
        <4>2. CASE i - 1 \in 1..Len(t) /\ t[i - 1] = p[i]
          <5>1. i - 1 <= k
            BY <3>3, <3>6, <4>2
          <5> QED
            BY <1>2, <3>2, <3>5, <5>1
        <4> QED
          BY <2>1, <4>1, <4>2
      <3>7. DataOf(p, b)[s] = p[l].val
        BY <3>2, <3>5, <3>6, DataAt
      <3> QED
        BY <3>4, <3>5, <3>7
    <2> QED
      BY <2>3, <2>4
  <1>4. /\ DataOf(t, c) = [s \in FileSector |-> DataOf(t, c)[s]]
        /\ DataOf(p, b) = [s \in FileSector |-> DataOf(p, b)[s]]
    BY DEF DataOf
  <1>5. DataOf(t, c) = DataOf(p, b)
    BY <1>3, <1>4
  <1> QED
    BY <1>1, <1>5

-----------------------------------------------------------------------------
(* What an operation on file name may have changed so far.                 *)

\* Every entry in use has a name.
Known(d) == \A i \in InUse(d) : d[i].name \in Name

\* The directories d and nd differ in entry e only, which is or was that of name.
Differ(d, nd, name, e) ==
    /\ \A j \in Entry \ {e} : d[j] = nd[j] /\ (nd[j].inUse => nd[j].name # name)
    /\ nd[e].inUse => nd[e].name = name /\ (d[e].inUse => d[e].sector = nd[e].sector)
    /\ d[e].inUse => nd[e].inUse \/ d[e].name = name

\* The writes p lead to directory nd and headers nh: those of a Write go to the
\* sectors of the file, and a new file is the last to be marked in the map.
HalfwayAt(p, m, d, nd, nh, name, e) ==
    /\ Differ(d, nd, name, e)
    /\ \A i \in 1..Len(p) :
        /\ p[i].to = "dir" => Differ(p[i].val, nd, name, e)
        /\ p[i].to = "header" => nd[e].inUse /\ p[i].at = nd[e].sector
        /\ p[i].to = "data" => nd[e].inUse /\ p[i].at \in DataSectors(nh[nd[e].sector])
        /\ p[i].to = "map" /\ nd[e].inUse => i = Len(p)
    /\ \/ \A i \in 1..Len(p) : p[i].to = "data"
       \/ /\ \A i \in 1..Len(p) : p[i].to # "data"
          /\ nd[e].inUse => nd[e].sector \notin m

Halfway(p, m, d, nd, nh, name) ==
    p # <<>> => \E e \in Entry : HalfwayAt(p, m, d, nd, nh, name, e)

\* The invariant of the refinement.
RefInv ==
    /\ FileInv
    /\ ~damaged => /\ Known(LogicalDir)
                   /\ Halfway(pending, map, dir, LogicalDir, LogicalHeader, busy)

\* The writes that are left are the ones after the first.
LEMMA TailHas ==
    ASSUME NEW p \in Seq(Writes), p # <<>>
    PROVE  \A i \in 1..Len(Tail(p)) : /\ Tail(p)[i] = p[i + 1] /\ i + 1 \in 1..Len(p)
                                      /\ i + 1 = Len(p) => i = Len(Tail(p))
  <1>1. PICK t : t = Tail(p)
    OBVIOUS
  <1>2. PICK k \in Nat \ {0} : k = Len(p)
    BY FirstDone
  <1>3. Len(t) = k - 1 /\ \A i \in 1..Len(t) : t[i] = p[i + 1]
    BY <1>1, <1>2, FirstDone
  <1>4. \A i \in 1..(k - 1) : i + 1 \in 1..k /\ (i + 1 = k => i = k - 1)
    OBVIOUS
  <1> QED
    BY <1>1, <1>2, <1>3, <1>4

\* One write less.
LEMMA HalfwayRest ==
    ASSUME NEW p \in Seq(Writes), p # <<>>, Tail(p) # <<>>, NEW m, NEW d, NEW nd, NEW nh, NEW name,
           NEW e, HalfwayAt(p, m, d, nd, nh, name, e),
           NEW g, nd[e].inUse => g[nd[e].sector] = nh[nd[e].sector],
           NEW m2, m2 = IF p[1].to = "map" THEN p[1].val ELSE m,
           NEW d2, d2 = IF p[1].to = "dir" THEN p[1].val ELSE d
    PROVE  HalfwayAt(Tail(p), m2, d2, nd, g, name, e)
  <1>1. PICK t \in Seq(Writes) :
          /\ t = Tail(p) /\ Len(p) \in Nat \ {0} /\ Len(t) = Len(p) - 1
          /\ \A i \in 1..Len(t) : t[i] = p[i + 1]
          /\ t = <<>> <=> Len(p) = 1
    BY FirstDone
  <1>2. 1 \in 1..Len(p) /\ Len(p) # 1
    BY <1>1
  <1>3. ASSUME NEW i \in 1..Len(t)
        PROVE  \E k \in 1..Len(p) : t[i] = p[k] /\ (k = Len(p) => i = Len(t))
    BY <1>1, TailHas
  <1>4. Differ(d2, nd, name, e)
    BY <1>2 DEF HalfwayAt
  <1>5. ASSUME NEW i \in 1..Len(t)
        PROVE  /\ t[i].to = "dir" => Differ(t[i].val, nd, name, e)
               /\ t[i].to = "header" => nd[e].inUse /\ t[i].at = nd[e].sector
               /\ t[i].to = "data" => nd[e].inUse /\ t[i].at \in DataSectors(g[nd[e].sector])
               /\ t[i].to = "map" /\ nd[e].inUse => i = Len(t)
    <2>1. PICK k \in 1..Len(p) : t[i] = p[k] /\ (k = Len(p) => i = Len(t))
      BY <1>3
    <2>2. /\ p[k].to = "dir" => Differ(p[k].val, nd, name, e)
          /\ p[k].to = "header" => nd[e].inUse /\ p[k].at = nd[e].sector
          /\ p[k].to = "data" => nd[e].inUse /\ p[k].at \in DataSectors(nh[nd[e].sector])
          /\ p[k].to = "map" /\ nd[e].inUse => k = Len(p)
      BY DEF HalfwayAt
    <2> QED
      BY <2>1, <2>2
  <1>6. \/ \A i \in 1..Len(t) : t[i].to = "data"
        \/ /\ \A i \in 1..Len(t) : t[i].to # "data"
           /\ nd[e].inUse => nd[e].sector \notin m2
    <2>1. CASE \A i \in 1..Len(p) : p[i].to = "data"
      BY <1>3, <2>1
    <2>2. CASE /\ \A i \in 1..Len(p) : p[i].to # "data"
               /\ nd[e].inUse => nd[e].sector \notin m
      <3>1. \A i \in 1..Len(t) : t[i].to # "data"
        BY <1>3, <2>2
      <3>2. nd[e].inUse => p[1].to # "map"
        BY <1>2 DEF HalfwayAt
      <3> QED
        BY <2>2, <3>1, <3>2
    <2> QED
      BY <2>1, <2>2 DEF HalfwayAt
  <1>7. HalfwayAt(t, m2, d2, nd, g, name, e)
    BY <1>4, <1>5, <1>6 DEF HalfwayAt
  <1> QED
    BY <1>1, <1>7

\* The headers with the writes p done are headers.
LEMMA HeadersType ==
    ASSUME NEW p \in Seq(Writes), NEW h \in [FileSector -> Header \cup {NoHeader}]
    PROVE  HeadersOf(p, h) \in [FileSector -> Header \cup {NoHeader}]
  <1>1. ASSUME NEW s \in FileSector
        PROVE  HeadersOf(p, h)[s] \in Header \cup {NoHeader}
    <2> DEFINE W == {i \in WritesIn(p, "header") : p[i].at = s}
    <2>1. HeadersOf(p, h)[s] = IF W = {} THEN h[s] ELSE p[Max(W)].val
      BY DEF HeadersOf
    <2>2. W \in SUBSET (1..Len(p)) /\ Len(p) \in Nat /\ \A i \in W : p[i].to = "header"
      BY LenProperties DEF WritesIn
    <2> HIDE DEF W
    <2>3. CASE W # {}
      <3>1. PICK k \in W : k = Max(W)
        BY <2>2, <2>3, MaxIn
      <3>2. p[k] \in Writes /\ p[k].to = "header"
        BY <2>2, ElementOfSeq
      <3>3. p[k].val \in Header
        BY <3>2, WriteHolds
      <3> QED
        BY <2>1, <2>3, <3>1, <3>3
    <2> QED
      BY <2>1, <2>3
  <1>2. HeadersOf(p, h) = [s \in FileSector |-> HeadersOf(p, h)[s]]
    BY DEF HeadersOf
  <1> QED
    BY <1>1, <1>2

\* The sector of a header is not one of a file's contents.
LEMMA HeaderApart ==
    ASSUME NEW m, NEW d, NEW h \in [FileSector -> Header \cup {NoHeader}], Consistent(m, d, h),
           NEW e \in InUse(d), NEW i \in InUse(d)
    PROVE  d[e].sector \notin DataSectors(h[d[i].sector])
  <1>1. SUFFICES ASSUME d[e].sector \in DataSectors(h[d[i].sector]) PROVE FALSE
    OBVIOUS
  <1>2. d[e].sector \in Owned(d, h, e) /\ d[e].sector \in Owned(d, h, i)
    BY <1>1 DEF Owned
  <1>3. e = i
    BY <1>2, Zenon DEF Consistent
  <1> QED
    BY <1>1, <1>3, EntryHas

\* What holds while sectors are written.
LEMMA RefHas ==
    ASSUME RefInv, ~damaged
    PROVE  /\ pending \in Seq(Writes) /\ dir \in Table
           /\ header \in [FileSector -> Header \cup {NoHeader}]
           /\ data \in [FileSector -> Bytes] /\ opened \in OpenType
           /\ LogicalHeader \in [FileSector -> Header \cup {NoHeader}]
           /\ Consistent(LogicalMap, LogicalDir, LogicalHeader) /\ Known(LogicalDir)
           /\ OpenIn(opened, LogicalDir, LogicalHeader)
           /\ Halfway(pending, map, dir, LogicalDir, LogicalHeader, busy)
  <1>1. /\ pending \in Seq(Writes) /\ dir \in Table
        /\ header \in [FileSector -> Header \cup {NoHeader}]
        /\ data \in [FileSector -> Bytes] /\ opened \in OpenType
    BY DEF RefInv, FileInv, TypeOK, Table, Bytes, OpenType
  <1>2. /\ Consistent(LogicalMap, LogicalDir, LogicalHeader) /\ Known(LogicalDir)
        /\ OpenIn(opened, LogicalDir, LogicalHeader)
        /\ Halfway(pending, map, dir, LogicalDir, LogicalHeader, busy)
    BY DEF RefInv, FileInv
  <1>3. LogicalHeader \in [FileSector -> Header \cup {NoHeader}]
    BY <1>1, HeadersType, LogicalParts
  <1> QED
    BY <1>1, <1>2, <1>3

-----------------------------------------------------------------------------
(* WriteSector.                                                            *)

\* WriteSector changes no file: what it writes was there since the operation started.
LEMMA WriteSectorFiles ==
    ASSUME RefInv, WriteSector
    PROVE  RefInv' /\ ~damaged /\ FilesThere' = FilesThere
  <1>1. /\ FileInv /\ FileInv' /\ ~damaged /\ damaged' = damaged
        /\ SameEnd(pending, map, dir, header, Tail(pending), map', dir', header')
    BY WriteSectorLeads, WriteSectorKeeps DEF RefInv, WriteSector
  <1>2. PICK p \in Seq(Writes) : /\ p = pending /\ p # <<>> /\ p[1] \in Writes /\ Head(p) = p[1]
                                 /\ Tail(p) \in Seq(Writes) /\ 1 \in 1..Len(p)
                                 /\ Tail(p) = <<>> <=> Len(p) = 1
    <2>1. pending \in Seq(Writes) /\ pending # <<>>
      BY DEF RefInv, FileInv, WriteSector
    <2>2. 1 \in 1..Len(pending)
      BY <2>1, FirstDone
    <2> QED
      BY <2>1, <2>2, FirstDone
  <1>3. PICK lh, ld, lm : lh = LogicalHeader /\ ld = LogicalDir /\ lm = LogicalMap
    OBVIOUS
  <1>4. /\ lh \in [FileSector -> Header \cup {NoHeader}] /\ Consistent(lm, ld, lh)
        /\ Known(ld) /\ data \in [FileSector -> Bytes]
        /\ Halfway(p, map, dir, ld, lh, busy)
    BY <1>1, <1>2, <1>3, RefHas
  <1>5. LogicalDir' = ld /\ SameHeaders(ld, LogicalHeader', lh)
    <2>1. pending' = Tail(p)
      BY <1>2 DEF WriteSector
    <2> QED
      BY <1>1, <1>2, <1>3, <2>1, LogicalParts, LogicalPartsNext DEF SameEnd
  <1>6. PICK e \in Entry : HalfwayAt(p, map, dir, ld, lh, busy, e)
    BY <1>2, <1>4 DEF Halfway
  <1>7. /\ map' = IF p[1].to = "map" THEN p[1].val ELSE map
        /\ dir' = IF p[1].to = "dir" THEN p[1].val ELSE dir
        /\ data' = IF p[1].to = "header" THEN [data EXCEPT ![p[1].at] = Junk]
                   ELSE IF p[1].to = "data" THEN [data EXCEPT ![p[1].at] = p[1].val]
                   ELSE data
        /\ pending' = Tail(p) /\ busy' = IF Len(p) = 1 THEN Nobody ELSE busy
    BY <1>2 DEF WriteSector
  <1>8. Halfway(pending', map', dir', LogicalDir', LogicalHeader', busy')
    <2>1. SUFFICES ASSUME Tail(p) # <<>>
                   PROVE  HalfwayAt(Tail(p), map', dir', ld, LogicalHeader', busy, e)
      BY <1>2, <1>5, <1>7 DEF Halfway
    <2>2. PICK g : g = LogicalHeader'
      OBVIOUS
    <2>3. ld[e].inUse => g[ld[e].sector] = lh[ld[e].sector]
      BY <1>5, <2>2 DEF SameHeaders, InUse
    <2>4. PICK m2, d2 : m2 = map' /\ d2 = dir'
      OBVIOUS
    <2>5. m2 = (IF p[1].to = "map" THEN p[1].val ELSE map) /\ d2 = (IF p[1].to = "dir" THEN p[1].val ELSE dir)
      BY <1>7, <2>4
    <2>6. HalfwayAt(Tail(p), m2, d2, ld, g, busy, e)
      BY <1>2, <1>6, <2>1, <2>3, <2>5, HalfwayRest
    <2> QED
      BY <2>2, <2>4, <2>6
  <1>9. RefInv'
    BY <1>1, <1>4, <1>5, <1>8 DEF RefInv
  <1>10. PICK b, c : b = DataOf(p, data) /\ c = DataOf(Tail(p), data')
    OBVIOUS
  <1>11. \A i \in InUse(ld) : \A s \in DataSectors(lh[ld[i].sector]) : c[s] = b[s]
    <2>1. p[1].to \in {"map", "dir", "header", "data"} /\ (p[1].to \in {"header", "data"} => p[1].at \in FileSector)
      BY <1>2, WriteHolds
    <2>2. CASE p[1].to = "data"
      <3>1. data' = [data EXCEPT ![p[1].at] = p[1].val]
        BY <1>7, <2>2
      <3>2. c = b
        BY <1>2, <1>4, <1>10, <2>2, <3>1, DataTail
      <3> QED
        BY <3>2
    <2>3. CASE p[1].to # "data"
      <3>1. \A i \in 1..Len(p) : p[i].to # "data"
        BY <1>2, <1>6, <2>3 DEF HalfwayAt
      <3>2. b = data
        BY <1>2, <1>4, <1>10, <3>1, NoData
      <3>3. \A i \in 1..Len(Tail(p)) : Tail(p)[i].to # "data"
        BY <1>2, <3>1, TailHas
      <3>4. data' \in [FileSector -> Bytes]
        BY <1>1 DEF FileInv, TypeOK, Bytes
      <3>5. c = data'
        BY <1>2, <1>10, <3>3, <3>4, NoData
      <3>6. CASE p[1].to = "header"
        <4>1. ld[e].inUse /\ p[1].at = ld[e].sector
          BY <1>2, <1>6, <3>6 DEF HalfwayAt
        <4>2. e \in InUse(ld)
          BY <4>1 DEF InUse
        <4>3. ASSUME NEW i \in InUse(ld), NEW s \in DataSectors(lh[ld[i].sector])
              PROVE  c[s] = b[s]
          <5>1. s # p[1].at
            BY <1>4, <4>1, <4>2, HeaderApart
          <5>2. data' = [data EXCEPT ![p[1].at] = Junk]
            BY <1>7, <3>6
          <5>3. s \in FileSector
            BY <1>4, EntryHas
          <5> QED
            BY <1>4, <3>2, <3>5, <5>1, <5>2, <5>3
        <4> QED
          BY <4>3
      <3>7. CASE p[1].to # "header"
        <4>1. data' = data
          BY <1>7, <2>3, <3>7
        <4> QED
          BY <3>2, <3>5, <4>1
      <3> QED
        BY <3>6, <3>7
    <2> QED
      BY <2>2, <2>3
  <1>12. PICK g : g = LogicalHeader'
    OBVIOUS
  <1>13. FilesOf(ld, g, c) = FilesOf(ld, lh, b)
    BY <1>4, <1>5, <1>11, <1>12, SameFiles
  <1>14. FilesThere = FilesOf(ld, lh, b)
    BY <1>1, <1>2, <1>3, <1>10, FilesAre DEF LogicalFiles
  <1>15. FilesThere' = FilesOf(ld, g, c)
    BY <1>1, <1>5, <1>7, <1>10, <1>12, FilesAreNext DEF LogicalFiles
  <1> QED
    BY <1>1, <1>9, <1>13, <1>14, <1>15

-----------------------------------------------------------------------------
(* Crash.                                                                  *)

\* A header that is not written stays.
LEMMA HeaderStays ==
    ASSUME NEW p \in Seq(Writes), NEW h, NEW s \in FileSector,
           \A i \in 1..Len(p) : p[i].to = "header" => p[i].at # s
    PROVE  HeadersOf(p, h)[s] = h[s]
  <1>1. {i \in WritesIn(p, "header") : p[i].at = s} = {}
    BY LenProperties DEF WritesIn
  <1> QED
    BY <1>1 DEF HeadersOf

\* Nothing is pending.
LEMMA NothingPends ==
    ASSUME NEW p, p = <<>>, NEW m, NEW d, NEW X, NEW h \in [FileSector -> X],
           NEW Y, NEW b \in [FileSector -> Y]
    PROVE  /\ LastOf(p, "map", m) = m /\ LastOf(p, "dir", d) = d /\ HeadersOf(p, h) = h
           /\ DataOf(p, b) = b
  <1>1. p \in Seq(Writes) /\ \A i \in 1..Len(p) : FALSE
    BY EmptySeq
  <1> QED
    BY <1>1, NoneIs, NoHeaders, NoData

\* The length of a file.
LEMMA LengthIs ==
    ASSUME NEW hdr \in Header, NEW b
    PROVE  Len(ContentOf(hdr, b)) = hdr.numBytes /\ DOMAIN ContentOf(hdr, b) = 1..hdr.numBytes
  <1>1. hdr.numBytes \in Nat
    BY HeaderHas
  <1> QED
    BY <1>1 DEF ContentOf

\* All files but that of name are as they were, and no length has changed.
Survives(name, d, h, b, e, g, c) ==
    /\ \A n \in Name \ {name} : SameFile(n, d, h, b, e, g, c)
    /\ \A n \in DOMAIN FilesOf(d, h, b) \cap DOMAIN FilesOf(e, g, c) :
          Len(FilesOf(e, g, c)[n]) = Len(FilesOf(d, h, b)[n])

\* Files that are the same survive.
LEMMA SameSurvive ==
    ASSUME NEW name, NEW d, NEW h, NEW b, NEW e, NEW g, NEW c,
           \A n \in Name \ {name} : SameFile(n, d, h, b, e, g, c),
           name \in Name => Entries(d, name) = {} \/ Entries(e, name) = {}
    PROVE  Survives(name, d, h, b, e, g, c)
  <1>1. ASSUME NEW n \in DOMAIN FilesOf(d, h, b), n \in DOMAIN FilesOf(e, g, c)
        PROVE  Len(FilesOf(e, g, c)[n]) = Len(FilesOf(d, h, b)[n])
    <2>1. n \in Name /\ Entries(d, n) # {} /\ Entries(e, n) # {}
      BY <1>1, FileIs
    <2>2. n # name
      BY <2>1
    <2>3. FilesOf(e, g, c)[n] = FilesOf(d, h, b)[n]
      BY <2>1, <2>2 DEF SameFile
    <2> QED
      BY <2>3
  <1> QED
    BY <1>1 DEF Survives

\* A Write has changed some sectors of its file.
LEMMA WriteSurvives ==
    ASSUME NEW m, NEW d, NEW h \in [FileSector -> Header \cup {NoHeader}], Consistent(m, d, h),
           NEW b, NEW c, NEW e \in InUse(d),
           \A s \in FileSector : s \notin DataSectors(h[d[e].sector]) => c[s] = b[s]
    PROVE  Survives(d[e].name, d, h, b, d, h, c)
  <1>1. ASSUME NEW n \in Name \ {d[e].name}
        PROVE  SameFile(n, d, h, b, d, h, c)
    <2>1. ASSUME NEW i \in Entries(d, n)
          PROVE  Filled(h[d[i].sector]) /\ \A s \in DataSectors(h[d[i].sector]) : c[s] = b[s]
      <3>1. i \in InUse(d) /\ i # e
        BY DEF Entries, InUse
      <3>2. Filled(h[d[i].sector])
        BY <3>1, ConsistentFilled
      <3>3. ASSUME NEW s \in DataSectors(h[d[i].sector]) PROVE c[s] = b[s]
        <4>1. Owned(d, h, i) \cap Owned(d, h, e) = {}
          BY <3>1, Zenon DEF Consistent
        <4>2. s \notin DataSectors(h[d[e].sector])
          BY <4>1 DEF Owned
        <4>3. s \in FileSector
          BY <3>1, EntryHas
        <4> QED
          BY <4>2, <4>3
      <3> QED
        BY <3>2, <3>3
    <2> QED
      BY <2>1, SameFileIs
  <1>2. ASSUME NEW n \in DOMAIN FilesOf(d, h, b), n \in DOMAIN FilesOf(d, h, c)
        PROVE  Len(FilesOf(d, h, c)[n]) = Len(FilesOf(d, h, b)[n])
    <2>1. n \in Name /\ Entries(d, n) # {}
      BY FileIs
    <2>2. PICK i \in InUse(d) : i = FindIndex(d, n)
      BY <2>1, FindIndexIs
    <2>3. PICK hdr \in Header : hdr = h[d[i].sector]
      BY <2>2, EntryHas
    <2>4. FilesOf(d, h, c)[n] = ContentOf(hdr, c) /\ FilesOf(d, h, b)[n] = ContentOf(hdr, b)
      BY <2>1, <2>2, <2>3 DEF FilesOf
    <2> QED
      BY <2>4, LengthIs
  <1> QED
    BY <1>1, <1>2 DEF Survives

\* The disk n, o, g differs from the directory d and the headers h in entry e only.
Partly(d, h, name, e, n, o, g) ==
    /\ Differ(o, d, name, e) /\ (d[e].inUse => d[e].sector \notin n)
    /\ \A s \in FileSector : (d[e].inUse => s # d[e].sector) => g[s] = h[s]

\* The other entries of o are those of d.
OthersFrom(o, d, name) == \A i \in InUse(o) : (i \in InUse(d) /\ o[i] = d[i]) \/ o[i].name = name

\* A Create or a Remove has changed the directory, and the disk is consistent.
LEMMA ChangeSurvives ==
    ASSUME NEW m, NEW d, NEW h \in [FileSector -> Header \cup {NoHeader}], Consistent(m, d, h),
           NEW c, NEW e \in Entry, NEW name, NEW n, NEW o, NEW g, Consistent(n, o, g),
           Partly(d, h, name, e, n, o, g)
    PROVE  Survives(name, d, h, c, o, g, c) /\ OthersFrom(o, d, name)
  <1>0. /\ Differ(o, d, name, e) /\ (d[e].inUse => d[e].sector \notin n)
        /\ \A s \in FileSector : (d[e].inUse => s # d[e].sector) => g[s] = h[s]
    BY DEF Partly
  <1>1. ASSUME d[e].inUse PROVE ~o[e].inUse
    <2>1. SUFFICES ASSUME o[e].inUse PROVE FALSE
      OBVIOUS
    <2>2. e \in InUse(o) /\ o[e].sector = d[e].sector
      BY <1>0, <1>1, <2>1 DEF InUse, Differ
    <2>3. o[e].sector \in Owned(o, g, e)
      BY DEF Owned
    <2>4. n = 0..(SystemSectors - 1) \cup UNION {Owned(o, g, i) : i \in InUse(o)}
      BY Zenon DEF Consistent
    <2>5. o[e].sector \in n
      BY <2>2, <2>3, <2>4
    <2> QED
      BY <1>0, <1>1, <2>2, <2>5
  <1>2. \A j \in Entry : j # e => o[j] = d[j] /\ (d[j].inUse => d[j].name # name)
    BY <1>0 DEF Differ
  <1>3. /\ d[e].inUse => d[e].name = name
        /\ o[e].inUse => o[e].name = name
    BY <1>0, <1>1 DEF Differ
  <1>4. ASSUME NEW k \in Name \ {name}
        PROVE  SameFile(k, d, h, c, o, g, c)
    <2>1. Entries(o, k) = Entries(d, k)
      <3>1. ASSUME NEW j \in Entry
            PROVE  o[j].inUse /\ o[j].name = k <=> d[j].inUse /\ d[j].name = k
        BY <1>2, <1>3
      <3> QED
        BY <3>1 DEF Entries
    <2>2. ASSUME NEW i \in Entries(d, k)
          PROVE  /\ o[i].sector = d[i].sector /\ g[d[i].sector] = h[d[i].sector]
                 /\ Filled(h[d[i].sector])
      <3>1. i \in InUse(d) /\ i # e /\ o[i] = d[i]
        BY <1>2, <1>3 DEF Entries, InUse
      <3>2. Filled(h[d[i].sector]) /\ d[i].sector \in FileSector
        BY <3>1, ConsistentFilled, EntryHas
      <3>3. d[e].inUse => d[i].sector # d[e].sector
        <4>1. SUFFICES ASSUME d[e].inUse, d[i].sector = d[e].sector PROVE FALSE
          OBVIOUS
        <4>2. e \in InUse(d)
          BY <4>1 DEF InUse
        <4>3. d[i].sector \in Owned(d, h, i) /\ d[i].sector \in Owned(d, h, e)
          BY <4>1 DEF Owned
        <4> QED
          BY <3>1, <4>2, <4>3, Zenon DEF Consistent
      <3> QED
        BY <1>0, <3>1, <3>2, <3>3
    <2> QED
      BY <2>1, <2>2, SameFileIs
  <1>5. Entries(d, name) = {} \/ Entries(o, name) = {}
    BY <1>1, <1>2 DEF Entries
  <1>6. ASSUME NEW i \in InUse(o)
        PROVE  (i \in InUse(d) /\ o[i] = d[i]) \/ o[i].name = name
    BY <1>2, <1>3 DEF InUse
  <1> QED
    BY <1>4, <1>5, <1>6, SameSurvive DEF OthersFrom

\* An exit changes no file but that of the operation.
LEMMA CrashFiles ==
    ASSUME RefInv, Crash
    PROVE  /\ RefInv' /\ ~damaged
           /\ ~damaged' =>
                /\ \A n \in Name \ {busy} :
                      /\ n \in DOMAIN FilesThere' <=> n \in DOMAIN FilesThere
                      /\ n \in DOMAIN FilesThere => FilesThere'[n] = FilesThere[n]
                /\ \A n \in DOMAIN FilesThere \cap DOMAIN FilesThere' :
                      Len(FilesThere'[n]) = Len(FilesThere[n])
  <1>1. /\ ~damaged /\ pending' = <<>> /\ UNCHANGED Disk
        /\ damaged' = ~Consistent(map, dir, header)
    BY DEF Crash
  <1>2. FileInv'
    BY CrashKeeps DEF RefInv
  <1>3. CASE damaged'
    BY <1>1, <1>2, <1>3 DEF RefInv
  <1>4. CASE ~damaged'
    <2>1. Consistent(map, dir, header)
      BY <1>1, <1>4
    <2>2. PICK p \in Seq(Writes) : p = pending
      BY <1>1, RefHas
    <2>3. PICK lh, ld, lm : lh = LogicalHeader /\ ld = LogicalDir /\ lm = LogicalMap
      OBVIOUS
    <2>4. PICK b : b = DataOf(p, data)
      OBVIOUS
    <2>5. /\ lh \in [FileSector -> Header \cup {NoHeader}] /\ Consistent(lm, ld, lh)
          /\ Known(ld) /\ data \in [FileSector -> Bytes]
          /\ header \in [FileSector -> Header \cup {NoHeader}]
          /\ Halfway(p, map, dir, ld, lh, busy)
      BY <1>1, <2>2, <2>3, RefHas
    <2>6. lh = HeadersOf(p, header) /\ ld = LastOf(p, "dir", dir) /\ lm = LastOf(p, "map", map)
      BY <2>2, <2>3, LogicalParts
    <2>7. Survives(busy, ld, lh, b, dir, header, data) /\ Known(dir)
      <3>1. CASE p = <<>>
        <4>1. ld = dir /\ lh = header /\ b = data
          BY <2>4, <2>5, <2>6, <3>1, NothingPends
        <4>2. Survives(busy, dir, header, data, dir, header, data)
          BY DEF Survives, SameFile
        <4> QED
          BY <2>5, <4>1, <4>2
      <3>2. CASE p # <<>>
        <4>1. PICK e \in Entry : HalfwayAt(p, map, dir, ld, lh, busy, e)
          BY <2>5, <3>2 DEF Halfway
        <4>2. CASE \A i \in 1..Len(p) : p[i].to = "data"
          <5>1. \A i \in 1..Len(p) : p[i].to # "map" /\ p[i].to # "dir" /\ p[i].to # "header"
            BY <4>2
          <5>2. ld = dir /\ lh = header
            <6>1. LastOf(p, "dir", dir) = dir
              BY <5>1, NoneIs
            <6>2. HeadersOf(p, header) = header
              BY <2>5, <5>1, NoHeaders
            <6> QED
              BY <2>6, <6>1, <6>2
          <5>3. 1 \in 1..Len(p)
            BY <3>2, FirstDone
          <5>4. e \in InUse(dir) /\ dir[e].name = busy
            BY <4>1, <4>2, <5>2, <5>3 DEF HalfwayAt, Differ, InUse
          <5>5. ASSUME NEW s \in FileSector, s \notin DataSectors(header[dir[e].sector])
                PROVE  data[s] = b[s]
            <6>1. \A i \in 1..Len(p) : p[i].at # s
              BY <4>1, <4>2, <5>2, <5>5 DEF HalfwayAt
            <6> QED
              BY <2>4, <6>1, DataAt
          <5>6. Survives(dir[e].name, dir, header, b, dir, header, data)
            BY <2>1, <2>5, <5>4, <5>5, WriteSurvives
          <5> QED
            BY <2>5, <5>2, <5>4, <5>6
        <4>3. CASE /\ \A i \in 1..Len(p) : p[i].to # "data"
                   /\ ld[e].inUse => ld[e].sector \notin map
          <5>1. b = data
            BY <2>4, <2>5, <4>3, NoData
          <5>2. ASSUME NEW s \in FileSector, ld[e].inUse => s # ld[e].sector
                PROVE  header[s] = lh[s]
            <6>1. \A i \in 1..Len(p) : p[i].to = "header" => p[i].at # s
              BY <4>1, <5>2 DEF HalfwayAt
            <6> QED
              BY <2>6, <6>1, HeaderStays
          <5>3. Differ(dir, ld, busy, e)
            BY <4>1 DEF HalfwayAt
          <5>4. /\ Survives(busy, ld, lh, data, dir, header, data)
                /\ \A i \in InUse(dir) : (i \in InUse(ld) /\ dir[i] = ld[i]) \/ dir[i].name = busy
            <6>1. PICK m, d, h, c, name : /\ m = map /\ d = dir /\ h = header /\ c = data
                                          /\ name = busy
              OBVIOUS
            <6>2. Consistent(m, d, h) /\ Partly(ld, lh, name, e, m, d, h)
              BY <2>1, <4>3, <5>2, <5>3, <6>1 DEF Partly
            <6>3. Survives(name, ld, lh, c, d, h, c) /\ OthersFrom(d, ld, name)
              BY <2>5, <6>2, ChangeSurvives, Zenon
            <6> QED
              BY <6>1, <6>3 DEF OthersFrom
          <5>5. busy \in Name
            BY <2>2, <3>2 DEF RefInv, FileInv, TypeOK
          <5> QED
            BY <2>5, <5>1, <5>4, <5>5 DEF Known
        <4> QED
          BY <4>1, <4>2, <4>3 DEF HalfwayAt
      <3> QED
        BY <3>1, <3>2
    <2>8. LogicalDir' = dir /\ LogicalHeader' = header /\ DataOf(pending', data') = data
      <3>1. dir' = dir /\ header' = header /\ data' = data
        BY <1>1 DEF Disk
      <3>2. PICK q : q = pending' /\ q = <<>>
        BY <1>1
      <3> QED
        BY <2>5, <3>1, <3>2, NothingPends, LogicalPartsNext
    <2>9. FilesThere = FilesOf(ld, lh, b)
      BY <1>1, <2>2, <2>3, <2>4, FilesAre DEF LogicalFiles
    <2>10. FilesThere' = FilesOf(dir, header, data)
      BY <1>4, <2>8, FilesAreNext DEF LogicalFiles
    <2>11. RefInv'
      BY <1>1, <1>2, <2>7, <2>8 DEF RefInv, Halfway
    <2> QED
      BY <1>1, <2>7, <2>9, <2>10, <2>11, Zenon DEF Survives, SameFile
  <1> QED
    BY <1>3, <1>4

-----------------------------------------------------------------------------
(* Calls.                                                                  *)

\* A step of one of the operations of Files.
LEMMA CallStep ==
    ASSUME Idle, damaged' = damaged, NEW name \in Name,
           \/ F!Open(name) \/ F!Close(name) \/ F!Remove(name)
           \/ \E n \in 0..MaxFileSize : F!Create(name, n) \/ F!Seek(name, n)
           \/ \E n \in 1..MaxTransfer : F!Read(name, n)
           \/ \E n \in 1..MaxTransfer : \E from \in [1..n -> Byte] : F!Write(name, from)
    PROVE  F!Next
  <1>1. ~damaged /\ result = None
    BY DEF Idle
  <1> QED
    BY <1>1, Zenon DEF F!Next

\* The files when an operation is called.
LEMMA CallFiles ==
    ASSUME RefInv, pending = <<>>, ~damaged
    PROVE  /\ FilesThere = FilesOf(dir, header, data) /\ Known(dir) /\ Consistent(map, dir, header)
           /\ LogicalDir = dir /\ LogicalHeader = header /\ DataOf(pending, data) = data
  <1>1. PICK p : p = pending
    OBVIOUS
  <1>2. data \in [FileSector -> Bytes] /\ header \in [FileSector -> Header \cup {NoHeader}]
    BY RefHas
  <1>3. /\ LastOf(p, "map", map) = map /\ LastOf(p, "dir", dir) = dir
        /\ HeadersOf(p, header) = header /\ DataOf(p, data) = data
    BY <1>1, <1>2, NothingPends
  <1>4. LogicalMap = map /\ LogicalDir = dir /\ LogicalHeader = header /\ DataOf(pending, data) = data
    BY <1>1, <1>3, LogicalParts
  <1> QED
    BY <1>4, FilesAre, RefHas DEF LogicalFiles

\* A step that writes nothing changes no file.
LEMMA QuietFiles ==
    ASSUME RefInv, FileInv', pending = <<>>, pending' = <<>>, ~damaged, damaged' = damaged, UNCHANGED Disk
    PROVE  RefInv' /\ FilesThere' = FilesThere
  <1>1. dir' = dir /\ header' = header /\ data' = data
    BY DEF Disk
  <1>2. LogicalDir' = LogicalDir /\ LogicalHeader' = LogicalHeader
    BY <1>1, LogicalParts, LogicalPartsNext
  <1>3. Known(LogicalDir')
    BY <1>2, RefHas
  <1>4. RefInv'
    BY <1>3 DEF RefInv, Halfway
  <1>5. FilesThere' = FilesThere
    BY <1>1, <1>2, FilesAre, FilesAreNext DEF LogicalFiles
  <1> QED
    BY <1>4, <1>5

\* An open file has a position, which is not Closed.
LEMMA HandleHas ==
    ASSUME NEW x \in Handle
    PROVE  x # Closed /\ x.seekPosition # Closed /\ x.seekPosition \in 0..MaxFileSize
  <1>1. x.seekPosition \in 0..MaxFileSize
    BY DEF Handle
  <1> QED
    BY <1>1, ClosedAssumption DEF Handle

\* The positions of the files.
LEMMA PositionIs ==
    ASSUME opened \in OpenType, NEW n \in Name
    PROVE  /\ Positions[n] = IF opened[n] = Closed THEN Closed ELSE opened[n].seekPosition
           /\ Positions[n] = Closed <=> opened[n] = Closed
           /\ opened[n] # Closed => opened[n] \in Handle
  <1>1. opened[n] # Closed => opened[n] \in Handle
    BY DEF OpenType, Handle
  <1>2. Positions[n] = IF opened[n] = Closed THEN Closed ELSE opened[n].seekPosition
    BY DEF Positions
  <1> QED
    BY <1>1, <1>2, HandleHas

\* One position changes.
LEMMA PositionSet ==
    ASSUME opened \in OpenType, NEW name \in Name, NEW x, opened' = [opened EXCEPT ![name] = x]
    PROVE  Positions' = [Positions EXCEPT ![name] = IF x = Closed THEN Closed ELSE x.seekPosition]
  <1> DEFINE v(y) == IF y = Closed THEN Closed ELSE y.seekPosition
  <1>1. Positions = [n \in Name |-> v(opened[n])] /\ Positions' = [n \in Name |-> v(opened'[n])]
    BY DEF Positions
  <1>2. \A n \in Name : opened'[n] = IF n = name THEN x ELSE opened[n]
    BY DEF OpenType
  <1> HIDE DEF v
  <1>3. Positions' = [Positions EXCEPT ![name] = v(x)]
    BY <1>1, <1>2
  <1> QED
    BY <1>3 DEF v

\* An open file is moved.
LEMMA PositionMoved ==
    ASSUME opened \in OpenType, NEW name \in Name, opened[name] # Closed, NEW pos \in 0..MaxFileSize,
           opened' = [opened EXCEPT ![name].seekPosition = pos]
    PROVE  Positions' = [Positions EXCEPT ![name] = pos]
  <1> DEFINE x == [opened[name] EXCEPT !.seekPosition = pos]
  <1>1. opened[name] \in Handle
    BY PositionIs
  <1>2. x \in Handle /\ x.seekPosition = pos
    BY <1>1 DEF Handle
  <1>3. opened' = [opened EXCEPT ![name] = x]
    OBVIOUS
  <1> HIDE DEF x
  <1> QED
    BY <1>2, <1>3, HandleHas, PositionSet

\* The files when Nachos starts: none.
LEMMA FilesInit ==
    ASSUME Init
    PROVE  RefInv /\ F!Init
  <1>1. /\ pending = <<>> /\ ~damaged /\ busy = Nobody /\ result = None /\ damaged = FALSE
        /\ dir = [i \in Entry |-> [inUse |-> FALSE, sector |-> 0, name |-> NoName]]
        /\ opened = [n \in Name |-> Closed]
    BY DEF Init
  <1>2. FileInv
    BY FileInit
  <1>3. PICK p \in Seq(Writes) : p = pending /\ p = <<>>
    BY <1>1, EmptySeq
  <1>4. LastOf(p, "dir", dir) = dir
    <2>1. \A i \in 1..Len(p) : p[i].to # "dir"
      BY <1>3
    <2> QED
      BY <2>1, NoneIs
  <1>5. LogicalDir = dir
    BY <1>3, <1>4, LogicalParts
  <1>6. InUse(dir) = {} /\ \A n : Entries(dir, n) = {}
    BY <1>1 DEF InUse, Entries
  <1>7. RefInv
    BY <1>1, <1>2, <1>5, <1>6 DEF RefInv, Known, Halfway
  <1>8. FilesThere = [n \in {} |-> <<>>]
    <2>1. {m \in Name : ~damaged /\ Entries(LogicalDir, m) # {}} = {}
      BY <1>5, <1>6
    <2>2. FilesThere = [n \in {} |-> Contents(n)]
      BY <2>1 DEF FilesThere
    <2> QED
      BY <2>2
  <1>9. Positions = [n \in Name |-> Closed]
    BY <1>1 DEF Positions
  <1> QED
    BY <1>1, <1>7, <1>8, <1>9 DEF F!Init

\* WriteSector completes the operation with its last sector.
LEMMA WriteSectorStep ==
    ASSUME RefInv, WriteSector
    PROVE  RefInv' /\ [F!Next]_(F!fileVars)
  <1>1. RefInv' /\ ~damaged /\ FilesThere' = FilesThere
    BY WriteSectorFiles
  <1>2. /\ busy' = IF Len(pending) = 1 THEN Nobody ELSE busy
        /\ opened' = opened /\ result' = result /\ damaged' = damaged
    BY DEF WriteSector
  <1>3. Positions' = Positions
    BY <1>2 DEF Positions
  <1>4. CASE Len(pending) = 1
    <2>1. F!Completed
      BY <1>1, <1>2, <1>3, <1>4 DEF F!Completed
    <2> QED
      BY <1>1, <1>2, <2>1 DEF F!Next
  <1>5. CASE Len(pending) # 1
    BY <1>1, <1>2, <1>3, <1>5 DEF F!fileVars
  <1> QED
    BY <1>4, <1>5

\* Return.
LEMMA ReturnStep ==
    ASSUME RefInv, Return
    PROVE  RefInv' /\ F!Next
  <1>1. /\ pending = <<>> /\ pending' = <<>> /\ result # None /\ busy' = busy /\ opened' = opened
        /\ result' = None /\ damaged' = damaged /\ UNCHANGED Disk
    BY DEF Return
  <1>2. FileInv /\ FileInv'
    BY ReturnKeeps DEF RefInv
  <1>3. ~damaged /\ busy = Nobody
    BY <1>1, <1>2 DEF FileInv, TypeOK
  <1>4. RefInv' /\ FilesThere' = FilesThere
    BY <1>1, <1>2, <1>3, QuietFiles
  <1>5. Positions' = Positions
    BY <1>1 DEF Positions
  <1>6. F!Return
    BY <1>1, <1>3, <1>4, <1>5 DEF F!Return
  <1> QED
    BY <1>1, <1>3, <1>4, <1>6 DEF F!Next

\* Crash.
LEMMA CrashStep ==
    ASSUME RefInv, Crash
    PROVE  RefInv' /\ F!Next
  <1>1. /\ RefInv' /\ ~damaged
        /\ ~damaged' =>
                /\ \A n \in Name \ {busy} :
                      /\ n \in DOMAIN FilesThere' <=> n \in DOMAIN FilesThere
                      /\ n \in DOMAIN FilesThere => FilesThere'[n] = FilesThere[n]
                /\ \A n \in DOMAIN FilesThere \cap DOMAIN FilesThere' :
                      Len(FilesThere'[n]) = Len(FilesThere[n])
    BY CrashFiles
  <1>2. busy' = Nobody /\ opened' = [n \in Name |-> Closed] /\ result' = None
    BY DEF Crash
  <1>3. Positions' = [n \in Name |-> Closed]
    BY <1>2 DEF Positions
  <1>4. F!Crash
    BY <1>1, <1>2, <1>3 DEF F!Crash
  <1> QED
    BY <1>1, <1>4 DEF F!Next

-----------------------------------------------------------------------------
(* Operations that write nothing.                                          *)

\* An operation on open files.
LEMMA QuietCallFiles ==
    ASSUME RefInv, Idle, FileInv', UNCHANGED <<Disk, damaged, pending, busy>>
    PROVE  RefInv' /\ FilesThere' = FilesThere /\ busy' = busy /\ damaged' = damaged
  <1>1. pending = <<>> /\ ~damaged
    BY DEF Idle
  <1>2. pending' = <<>> /\ damaged' = damaged /\ busy' = busy /\ UNCHANGED Disk
    BY <1>1
  <1> QED
    BY <1>1, <1>2, QuietFiles

\* The files there are.
LEMMA FileThere ==
    ASSUME RefInv, Idle, NEW name \in Name
    PROVE  name \in DOMAIN FilesThere <=> Entries(dir, name) # {}
  <1>1. FilesThere = FilesOf(dir, header, data)
    BY CallFiles DEF Idle
  <1> QED
    BY <1>1, FileIs

\* Open.
LEMMA OpenStep ==
    ASSUME RefInv, NEW name \in Name, Open(name)
    PROVE  RefInv' /\ F!Next
  <1>1. /\ Idle /\ FileInv' /\ opened \in OpenType /\ opened[name] = Closed
        /\ UNCHANGED <<Disk, damaged, pending, busy>>
    <2>1. Idle /\ FileInv' /\ opened[name] = Closed /\ UNCHANGED <<Disk, damaged>>
      BY OpenKeeps DEF RefInv, Open
    <2>2. opened \in OpenType
      BY <2>1, CallHas DEF RefInv
    <2>3. UNCHANGED <<pending, busy>>
      BY DEF Open, Refused
    <2> QED
      BY <2>1, <2>2, <2>3
  <1>2. RefInv' /\ FilesThere' = FilesThere /\ busy' = busy /\ damaged' = damaged
    BY <1>1, QuietCallFiles
  <1>3. name \in DOMAIN FilesThere <=> Entries(dir, name) # {}
    BY <1>1, FileThere
  <1>4. Positions[name] = Closed
    BY <1>1, PositionIs
  <1>5. CASE Entries(dir, name) = {}
    <2>1. result' = [ok |-> FALSE, bytes |-> <<>>] /\ opened' = opened
      BY <1>5 DEF Open, Refused, Returns
    <2>2. Positions' = Positions
      BY <2>1 DEF Positions
    <2>3. [Positions EXCEPT ![name] = Closed] = Positions
      BY <1>4 DEF Positions
    <2>4. (name \in DOMAIN FilesThere) = FALSE
      BY <1>3, <1>5
    <2>5. F!Open(name)
      BY <1>2, <1>4, <2>1, <2>2, <2>3, <2>4 DEF F!Open, F!IsOpen, F!Returns
    <2> QED
      BY <1>1, <1>2, <2>5, CallStep
  <1>6. CASE Entries(dir, name) # {}
    <2> DEFINE x == [hdr |-> header[dir[FindIndex(dir, name)].sector], seekPosition |-> 0]
    <2>1. result' = [ok |-> TRUE, bytes |-> <<>>] /\ opened' = [opened EXCEPT ![name] = x]
      BY <1>6 DEF Open, Returns
    <2>2. x \in Handle
      <3>1. opened' \in OpenType /\ opened'[name] = x
        BY <1>1, <2>1 DEF FileInv, TypeOK, OpenType
      <3>2. /\ header \in [FileSector -> Header \cup {NoHeader}] /\ Consistent(map, dir, header)
        BY <1>1, CallHas DEF RefInv
      <3>3. PICK i \in InUse(dir) : i = FindIndex(dir, name)
        BY <1>6, FindIndexIs
      <3>4. header[dir[i].sector] \in Header
        BY <3>2, EntryHas
      <3> QED
        BY <3>3, <3>4, HeaderHas DEF Handle
    <2>3. x.seekPosition = 0
      OBVIOUS
    <2> HIDE DEF x
    <2>4. Positions' = [Positions EXCEPT ![name] = 0]
      BY <1>1, <2>1, <2>2, <2>3, HandleHas, PositionSet
    <2>5. (name \in DOMAIN FilesThere) = TRUE
      BY <1>3, <1>6
    <2>6. F!Open(name)
      BY <1>2, <1>4, <2>1, <2>4, <2>5 DEF F!Open, F!IsOpen, F!Returns
    <2> QED
      BY <1>1, <1>2, <2>6, CallStep
  <1> QED
    BY <1>5, <1>6

\* Close.
LEMMA CloseStep ==
    ASSUME RefInv, NEW name \in Name, Close(name)
    PROVE  RefInv' /\ F!Next
  <1>1. /\ Idle /\ FileInv' /\ opened \in OpenType /\ opened[name] # Closed
        /\ opened' = [opened EXCEPT ![name] = Closed] /\ result' = [ok |-> TRUE, bytes |-> <<>>]
        /\ UNCHANGED <<Disk, damaged, pending, busy>>
    BY CloseKeeps, CallHas DEF RefInv, Close, Returns
  <1>2. RefInv' /\ FilesThere' = FilesThere /\ busy' = busy /\ damaged' = damaged
    BY <1>1, QuietCallFiles
  <1>3. Positions' = [Positions EXCEPT ![name] = Closed]
    BY <1>1, PositionSet
  <1>4. Positions[name] # Closed
    BY <1>1, PositionIs
  <1>5. F!Close(name)
    BY <1>1, <1>2, <1>3, <1>4 DEF F!Close, F!IsOpen, F!Returns
  <1> QED
    BY <1>1, <1>2, <1>5, CallStep

\* Seek.
LEMMA SeekStep ==
    ASSUME RefInv, NEW name \in Name, NEW pos \in 0..MaxFileSize, Seek(name, pos)
    PROVE  RefInv' /\ F!Next
  <1>1. /\ Idle /\ FileInv' /\ opened \in OpenType /\ opened[name] # Closed
        /\ opened' = [opened EXCEPT ![name].seekPosition = pos]
        /\ result' = [ok |-> TRUE, bytes |-> <<>>]
        /\ UNCHANGED <<Disk, damaged, pending, busy>>
    BY SeekKeeps, CallHas DEF RefInv, Seek, Returns
  <1>2. RefInv' /\ FilesThere' = FilesThere /\ busy' = busy /\ damaged' = damaged
    BY <1>1, QuietCallFiles
  <1>3. Positions' = [Positions EXCEPT ![name] = pos]
    BY <1>1, PositionMoved
  <1>4. Positions[name] # Closed
    BY <1>1, PositionIs
  <1>5. F!Seek(name, pos)
    BY <1>1, <1>2, <1>3, <1>4 DEF F!Seek, F!IsOpen, F!Returns
  <1> QED
    BY <1>1, <1>2, <1>5, CallStep

-----------------------------------------------------------------------------
(* Read.                                                                   *)

\* The entry of a name is the only one.
LEMMA NamedIs ==
    ASSUME NEW m, NEW d, NEW h, Consistent(m, d, h), NEW i \in InUse(d)
    PROVE  Entries(d, d[i].name) = {i} /\ FindIndex(d, d[i].name) = i
  <1>1. \A j \in InUse(d) : d[j].name = d[i].name => j = i
    BY Zenon DEF Consistent
  <1>2. Entries(d, d[i].name) = {i}
    BY <1>1 DEF Entries, InUse
  <1>3. FindIndex(d, d[i].name) \in InUse(d) /\ d[FindIndex(d, d[i].name)].name = d[i].name
    BY <1>2, FindIndexIs
  <1> QED
    BY <1>1, <1>2, <1>3

\* The contents of a file are bytes.
LEMMA ContentType ==
    ASSUME data \in [FileSector -> Bytes], NEW hdr, Filled(hdr)
    PROVE  /\ ContentOf(hdr, data) \in [1..hdr.numBytes -> Byte]
           /\ ContentOf(hdr, data) \in Seq(Byte) /\ Len(ContentOf(hdr, data)) = hdr.numBytes
           /\ \A i \in 1..hdr.numBytes : ContentOf(hdr, data)[i] = ByteAt(hdr, i - 1)
  <1>1. hdr.numBytes \in Nat
    BY HeaderHas DEF Filled
  <1>2. ASSUME NEW i \in 1..hdr.numBytes
        PROVE  ContentOf(hdr, data)[i] = ByteAt(hdr, i - 1) /\ ByteAt(hdr, i - 1) \in Byte
    <2>1. i - 1 \in Nat /\ i - 1 < hdr.numBytes
      BY <1>1
    <2>2. ByteAt(hdr, i - 1) \in Byte
      BY <2>1, ByteHas
    <2>3. ContentOf(hdr, data)[i] = ByteAt(hdr, i - 1)
      BY DEF ContentOf, ByteAt
    <2> QED
      BY <2>2, <2>3
  <1>3. ContentOf(hdr, data) = [i \in 1..hdr.numBytes |-> ContentOf(hdr, data)[i]]
    BY DEF ContentOf
  <1>4. ContentOf(hdr, data) \in [1..hdr.numBytes -> Byte]
    BY <1>2, <1>3
  <1>5. ContentOf(hdr, data) \in Seq(Byte) /\ Len(ContentOf(hdr, data)) = hdr.numBytes
    BY <1>1, <1>4
  <1> QED
    BY <1>2, <1>4, <1>5

\* What an open file is.
LEMMA OpenFile ==
    ASSUME RefInv, Idle, NEW name \in Name, opened[name] # Closed
    PROVE  \E i \in InUse(dir), hdr \in Header, pos \in 0..MaxFileSize :
              /\ dir[i].name = name /\ FindIndex(dir, name) = i /\ Entries(dir, name) = {i}
              /\ hdr = header[dir[i].sector] /\ Filled(hdr)
              /\ opened[name].hdr = hdr /\ opened[name].seekPosition = pos
              /\ Positions[name] = pos /\ pos # Closed
              /\ name \in DOMAIN FilesThere /\ FilesThere[name] = ContentOf(hdr, data)
  <1>1. /\ opened \in OpenType /\ Consistent(map, dir, header) /\ OpenIn(opened, dir, header)
        /\ header \in [FileSector -> Header \cup {NoHeader}]
    BY CallHas DEF RefInv
  <1>2. PICK i \in InUse(dir) : dir[i].name = name /\ opened[name].hdr = header[dir[i].sector]
    BY <1>1 DEF OpenIn
  <1>3. FindIndex(dir, name) = i /\ Entries(dir, name) = {i}
    BY <1>1, <1>2, NamedIs
  <1>4. PICK hdr \in Header : hdr = header[dir[i].sector] /\ Filled(hdr)
    BY <1>1, EntryHas, ConsistentFilled
  <1>5. PICK pos \in 0..MaxFileSize : pos = opened[name].seekPosition /\ Positions[name] = pos /\ pos # Closed
    BY <1>1, PositionIs, HandleHas
  <1>6. FilesThere = FilesOf(dir, header, data)
    BY CallFiles DEF Idle
  <1>7. name \in DOMAIN FilesThere
    BY <1>3, FileThere
  <1>8. FilesThere[name] = ContentOf(hdr, data)
    BY <1>3, <1>4, <1>6 DEF FilesOf
  <1> QED
    BY <1>2, <1>3, <1>4, <1>5, <1>7, <1>8

\* Clipping is that of Files.
LEMMA ClipIs ==
    ASSUME NEW hdr \in Header, NEW k \in Nat \ {0}, NEW pos \in Nat
    PROVE  /\ Clip(hdr, k, pos) \in Nat
           /\ Clip(hdr, k, pos) = 0 <=> pos >= hdr.numBytes
           /\ pos < hdr.numBytes =>
                 Clip(hdr, k, pos) = IF pos + k > hdr.numBytes THEN hdr.numBytes - pos ELSE k
  <1>1. hdr.numBytes \in Nat
    BY HeaderHas
  <1>2. CASE pos >= hdr.numBytes
    BY <1>1, <1>2 DEF Clip
  <1>3. CASE pos < hdr.numBytes
    <2>1. PICK r \in Nat \ {0} : r = hdr.numBytes - pos
      BY <1>1, <1>3
    <2>2. Clip(hdr, k, pos) = Min({k, r})
      BY <1>1, <1>3, <2>1 DEF Clip
    <2>3. Min({k, r}) = IF k <= r THEN k ELSE r
      BY MinOfTwo
    <2> QED
      BY <1>1, <1>3, <2>1, <2>2, <2>3
  <1> QED
    BY <1>1, <1>2, <1>3

\* Read.
LEMMA ReadStep ==
    ASSUME RefInv, NEW name \in Name, NEW k \in 1..MaxTransfer, Read(name, k)
    PROVE  RefInv' /\ F!Next
  <1>1. /\ Idle /\ FileInv' /\ opened \in OpenType /\ opened[name] # Closed
        /\ data \in [FileSector -> Bytes] /\ UNCHANGED <<Disk, damaged, pending, busy>>
    BY ReadKeeps, CallHas DEF RefInv, Read
  <1>2. PICK hdr \in Header, pos \in 0..MaxFileSize :
              /\ Filled(hdr) /\ opened[name].hdr = hdr /\ opened[name].seekPosition = pos
              /\ Positions[name] = pos /\ pos # Closed
              /\ name \in DOMAIN FilesThere /\ FilesThere[name] = ContentOf(hdr, data)
    BY <1>1, OpenFile
  <1>3. RefInv' /\ FilesThere' = FilesThere /\ busy' = busy /\ damaged' = damaged
    BY <1>1, QuietCallFiles
  <1>4. k \in Nat \ {0} /\ pos \in Nat /\ hdr.numBytes \in Nat /\ MaxFileSize \in Nat
    BY FileSystemAssumption, HeaderHas
  <1>5. PICK c \in Nat : c = Clip(hdr, k, pos)
    BY <1>4, ClipIs
  <1>6. PICK into : into = ReadAt(hdr, k, pos)
    OBVIOUS
  <1>7. into = [i \in 1..c |-> ByteAt(hdr, pos + i - 1)]
    BY <1>5, <1>6 DEF ReadAt
  <1>8. Len(into) = c
    BY <1>7
  <1>9. /\ result' = [ok |-> TRUE, bytes |-> into]
        /\ opened' = [opened EXCEPT ![name].seekPosition = pos + c]
    BY <1>2, <1>6, <1>8 DEF Read, Returns
  <1>10. Positions' = [Positions EXCEPT ![name] = pos + c]
    <2>1. PICK q : q = pos + c
      OBVIOUS
    <2>2. pos + c \in 0..MaxFileSize
      BY <1>4, <1>5, ClipRange
    <2>3. q \in 0..MaxFileSize /\ opened' = [opened EXCEPT ![name].seekPosition = q]
      BY <1>9, <2>1, <2>2
    <2>4. Positions' = [Positions EXCEPT ![name] = q]
      BY <1>1, <2>3, PositionMoved
    <2> QED
      BY <2>1, <2>4
  <1>11. Len(FilesThere[name]) = hdr.numBytes
    BY <1>2, LengthIs
  <1>12. F!IsEmpty(name, k) <=> pos >= hdr.numBytes
    BY <1>2, <1>4, <1>11 DEF F!IsEmpty
  <1>13. CASE pos >= hdr.numBytes
    <2>1. c = 0
      BY <1>4, <1>5, <1>13, ClipIs
    <2>2. into = <<>>
      BY <1>7, <2>1
    <2>3. Positions' = Positions
      <3>1. pos + c = pos
        BY <1>4, <2>1
      <3>2. DOMAIN Positions = Name /\ Positions = [n \in Name |-> Positions[n]]
        BY DEF Positions
      <3> QED
        BY <1>2, <1>10, <3>1, <3>2
    <2>4. F!Read(name, k)
      BY <1>2, <1>3, <1>9, <1>12, <1>13, <2>2, <2>3 DEF F!Read, F!IsOpen, F!Returns
    <2> QED
      BY <1>1, <1>3, <2>4, CallStep
  <1>14. CASE pos < hdr.numBytes
    <2>1. c = (IF pos + k > hdr.numBytes THEN hdr.numBytes - pos ELSE k) /\ c # 0
      BY <1>4, <1>5, <1>14, ClipIs
    <2>2. F!Clip(name, k) = c
      BY <1>2, <1>11, <2>1 DEF F!Clip
    <2>3. pos + c <= hdr.numBytes
      BY <1>4, <2>1
    <2>4. PICK s : s = ContentOf(hdr, data)
      OBVIOUS
    <2>5. \A i \in (pos + 1)..(pos + c) : s[i] \in Byte /\ s[i] = ByteAt(hdr, i - 1)
      <3>1. \A i \in (pos + 1)..(pos + c) : i \in 1..hdr.numBytes
        BY <1>4, <2>3
      <3>2. s \in [1..hdr.numBytes -> Byte] /\ \A i \in 1..hdr.numBytes : s[i] = ByteAt(hdr, i - 1)
        BY <1>1, <1>2, <2>4, ContentType
      <3> QED
        BY <3>1, <3>2
    <2>6. PICK a \in Int, z \in Int : a = pos + 1 /\ z = pos + c
      BY <1>4
    <2>7. PICK t : t = SubSeq(s, a, z)
      OBVIOUS
    <2>8. t \in Seq(Byte) /\ Len(t) = c /\ \A i \in 1..c : t[i] = s[pos + i]
      <3>1. /\ t \in Seq(Byte) /\ Len(t) = (IF a <= z THEN z - a + 1 ELSE 0)
            /\ \A i \in 1..(z - a + 1) : t[i] = s[a + i - 1]
        BY <2>5, <2>6, <2>7, SubSeqProperties
      <3>2. a <= z /\ z - a + 1 = c /\ \A i \in 1..c : a + i - 1 = pos + i
        BY <1>4, <2>1, <2>6
      <3> QED
        BY <3>1, <3>2
    <2>9. into \in Seq(Byte) /\ \A i \in 1..c : into[i] = t[i]
      <3>1. ASSUME NEW i \in 1..c
            PROVE  into[i] = t[i] /\ into[i] \in Byte
        <4>1. PICK j \in (pos + 1)..(pos + c) : j = pos + i
          BY <1>4
        <4>2. t[i] = s[j] /\ s[j] = ByteAt(hdr, j - 1) /\ s[j] \in Byte
          BY <2>5, <2>8, <4>1
        <4>3. t[i] = ByteAt(hdr, pos + i - 1) /\ ByteAt(hdr, pos + i - 1) \in Byte
          BY <4>1, <4>2
        <4> QED
          BY <1>7, <4>3
      <3>2. into \in [1..c -> Byte]
        BY <1>7, <3>1
      <3> QED
        BY <3>1, <3>2
    <2>10. into = t
      BY <1>8, <2>8, <2>9, SeqEqual
    <2>11. F!Read(name, k)
      <3>1. SubSeq(FilesThere[name], Positions[name] + 1, Positions[name] + F!Clip(name, k)) = into
        BY <1>2, <2>2, <2>4, <2>6, <2>7, <2>10
      <3>2. Positions' = [Positions EXCEPT ![name] = @ + F!Clip(name, k)]
        BY <1>2, <1>10, <2>2
      <3>3. ~F!IsEmpty(name, k)
        BY <1>4, <1>12, <1>14
      <3> QED
        BY <1>2, <1>3, <1>9, <3>1, <3>2, <3>3, Zenon DEF F!Read, F!IsOpen, F!Returns
    <2> QED
      BY <1>1, <1>3, <2>11, CallStep
  <1> QED
    BY <1>4, <1>13, <1>14

-----------------------------------------------------------------------------
(* Write.                                                                  *)

\* The sectors of a file differ.
Apart(hdr) ==
    \A j, k \in 1..Len(hdr.dataSectors) : hdr.dataSectors[j] = hdr.dataSectors[k] => j = k

LEMMA SectorsDiffer ==
    ASSUME NEW m, NEW d, NEW h \in [FileSector -> Header \cup {NoHeader}], Consistent(m, d, h),
           NEW i \in InUse(d)
    PROVE  Apart(h[d[i].sector])
  <1>1. PICK hdr \in Header : hdr = h[d[i].sector]
    BY EntryHas
  <1>2. /\ Owned(d, h, i) = {d[i].sector} \cup DataSectors(hdr)
        /\ d[i].sector \notin DataSectors(hdr)
    BY <1>1, EntryHas
  <1>3. Cardinality(Owned(d, h, i)) = 1 + Len(hdr.dataSectors)
    BY <1>1, Zenon DEF Consistent
  <1>4. PICK f, n : f = hdr.dataSectors /\ n = Len(f)
    OBVIOUS
  <1>5. n \in Nat /\ DOMAIN f = 1..n /\ f \in [1..n -> FileSector]
    <2>1. PICK l \in 0..NumDirect : f \in [1..l -> FileSector]
      BY <1>1, <1>4 DEF Header
    <2>2. l \in Nat
      BY <2>1, Sizes
    <2>3. n = l
      BY <1>4, <2>1, <2>2
    <2> QED
      BY <2>1, <2>2, <2>3
  <1>6. PICK D \in SUBSET Sector : D = DataSectors(hdr) /\ D = {f[k] : k \in 1..n}
    <2>1. DataSectors(hdr) \in SUBSET Sector
      BY <1>1, HeaderHas, Sizes DEF FileSector, Sector
    <2>2. DataSectors(hdr) = {f[k] : k \in 1..n}
      BY <1>4, <1>5 DEF DataSectors
    <2> QED
      BY <2>1, <2>2
  <1>7. IsFiniteSet(D) /\ Cardinality(D) \in Nat
    BY <1>6, FinitelyMany
  <1>8. Cardinality(D) = n
    <2>1. Owned(d, h, i) = D \cup {d[i].sector} /\ d[i].sector \notin D
      BY <1>2, <1>6
    <2>2. Cardinality(Owned(d, h, i)) = Cardinality(D) + 1
      BY <1>7, <2>1, FS_AddElement
    <2> QED
      BY <1>3, <1>4, <1>5, <1>7, <2>2
  <1>9. f \in Surjection(1..n, D)
    BY <1>5, <1>6 DEF Surjection
  <1>10. IsFiniteSet(1..n) /\ Cardinality(1..n) = n
    BY <1>5, FS_Interval
  <1>11. f \in Injection(1..n, D)
    BY <1>8, <1>9, <1>10, FS_SurjSameCardinalityImpliesInj
  <1>12. \A j, k \in 1..n : f[j] = f[k] => j = k
    BY <1>11 DEF Injection, IsInjective
  <1> QED
    BY <1>1, <1>4, <1>12 DEF Apart

\* All writes to a sector write the same.
LEMMA DataIs ==
    ASSUME NEW p \in Seq(Writes), NEW b, NEW s \in FileSector
    PROVE  \A k \in 1..Len(p) :
              p[k].to = "data" /\ p[k].at = s
              /\ (\A i \in 1..Len(p) : p[i].to = "data" /\ p[i].at = s => p[i].val = p[k].val)
              => DataOf(p, b)[s] = p[k].val
  <1> DEFINE W == {i \in WritesIn(p, "data") : p[i].at = s}
  <1>1. DataOf(p, b)[s] = IF W = {} THEN b[s] ELSE p[Max(W)].val
    BY DEF DataOf
  <1>2. W = {i \in 1..Len(p) : p[i].to = "data" /\ p[i].at = s} /\ Len(p) \in Nat
    BY LenProperties DEF WritesIn
  <1> HIDE DEF W
  <1>3. ASSUME NEW k \in 1..Len(p), p[k].to = "data", p[k].at = s,
               \A i \in 1..Len(p) : p[i].to = "data" /\ p[i].at = s => p[i].val = p[k].val
        PROVE  DataOf(p, b)[s] = p[k].val
    <2>1. W \in SUBSET (1..Len(p)) /\ W # {}
      BY <1>2, <1>3
    <2>2. Max(W) \in W
      BY <1>2, <2>1, MaxIn
    <2> QED
      BY <1>1, <1>2, <1>3, <2>1, <2>2
  <1> QED
    BY <1>3

\* The byte at x after a write of numBytes bytes of from to pos, and before it.
NewByte(from, numBytes, pos, x, old) ==
    IF x - pos \in 0..(numBytes - 1) THEN from[x - pos + 1] ELSE old

\* The first and the last sector of a request.
LEMMA RequestHas ==
    ASSUME NEW hdr, NEW l, NEW from, NEW numBytes, NEW pos, NEW garbage,
           Request(hdr, l, from, numBytes, pos, garbage)
    PROVE  \E first \in Nat, last \in Nat :
              /\ first = pos \div SectorSize /\ last = (pos + numBytes - 1) \div SectorSize
              /\ first <= last
              /\ \A x \in Nat :
                   /\ x >= pos /\ x < pos + numBytes =>
                         first <= x \div SectorSize /\ x \div SectorSize <= last
                   /\ x < pos => x \div SectorSize <= first
                   /\ x >= pos + numBytes => last <= x \div SectorSize
  <1>1. /\ numBytes \in Nat \ {0} /\ pos \in Nat /\ SectorSize \in Nat \ {0}
    BY Sizes DEF Request
  <1>2. PICK end \in Nat : end = pos + numBytes - 1 /\ pos <= end
    BY <1>1
  <1>3. PICK first \in Nat : first = pos \div SectorSize /\ first * SectorSize \in Nat /\ first * SectorSize <= pos
    BY <1>1, StartOfSector
  <1>4. PICK last \in Nat : last = end \div SectorSize /\ last * SectorSize \in Nat /\ last * SectorSize <= end
    BY <1>1, <1>2, StartOfSector
  <1>5. ASSUME NEW x \in Nat, NEW y \in Nat, x <= y
        PROVE  x \div SectorSize \in Nat /\ y \div SectorSize \in Nat /\ x \div SectorSize <= y \div SectorSize
    <2>1. PICK k \in Nat : k = x \div SectorSize /\ k * SectorSize \in Nat /\ k * SectorSize <= x
      BY <1>1, StartOfSector
    <2>2. k * SectorSize <= y
      BY <1>5, <2>1
    <2>3. k <= y \div SectorSize
      BY <1>1, <2>1, <2>2, QuotientBetween
    <2>4. y \div SectorSize \in Nat
      BY <1>1, Quotient
    <2> QED
      BY <2>1, <2>3, <2>4
  <1>6. first <= last
    <2>1. pos \div SectorSize <= end \div SectorSize
      BY <1>1, <1>2, <1>5
    <2> QED
      BY <1>3, <1>4, <2>1
  <1>7. ASSUME NEW x \in Nat
        PROVE  /\ x >= pos /\ x < pos + numBytes =>
                     first <= x \div SectorSize /\ x \div SectorSize <= last
               /\ x < pos => x \div SectorSize <= first
               /\ x >= pos + numBytes => last <= x \div SectorSize
    <2>1. x >= pos => first <= x \div SectorSize
      BY <1>1, <1>3, <1>5
    <2>2. x < pos + numBytes => x <= end
      BY <1>1, <1>2
    <2>3. x <= end => x \div SectorSize <= last
      BY <1>2, <1>4, <1>5
    <2>4. x < pos => x \div SectorSize <= first
      BY <1>1, <1>3, <1>5
    <2>5. x >= pos + numBytes => end <= x
      BY <1>1, <1>2
    <2>6. end <= x => last <= x \div SectorSize
      BY <1>2, <1>4, <1>5
    <2> QED
      BY <2>1, <2>2, <2>3, <2>4, <2>5, <2>6
  <1> QED
    BY <1>2, <1>3, <1>4, <1>6, <1>7

\* The buffer holds the new bytes, and the old ones of the file next to them.
LEMMA BufferAt ==
    ASSUME NEW hdr, NEW l, NEW from, NEW numBytes, NEW pos, NEW garbage,
           Request(hdr, l, from, numBytes, pos, garbage), NEW x \in Nat, x < hdr.numBytes,
           NEW k \in Nat, k = x \div SectorSize, pos \div SectorSize <= k,
           k <= (pos + numBytes - 1) \div SectorSize
    PROVE  Buffer(hdr, from, numBytes, pos, k, garbage)[x % SectorSize]
              = NewByte(from, numBytes, pos, x, ByteAt(hdr, x))
  <1>1. /\ numBytes \in Nat \ {0} /\ pos \in Nat /\ SectorSize \in Nat \ {0}
    BY Sizes DEF Request
  <1>2. PICK first \in Nat, last \in Nat :
              /\ first = pos \div SectorSize /\ last = (pos + numBytes - 1) \div SectorSize
              /\ x < pos => x \div SectorSize <= first
              /\ x >= pos + numBytes => last <= x \div SectorSize
    <2>1. PICK first \in Nat, last \in Nat :
              /\ first = pos \div SectorSize /\ last = (pos + numBytes - 1) \div SectorSize
              /\ \A y \in Nat :
                   /\ y < pos => y \div SectorSize <= first
                   /\ y >= pos + numBytes => last <= y \div SectorSize
      BY RequestHas
    <2>2. /\ x < pos => x \div SectorSize <= first
          /\ x >= pos + numBytes => last <= x \div SectorSize
      BY <2>1
    <2> QED
      BY <2>1, <2>2
  <1>3. PICK o : o = x % SectorSize
    OBVIOUS
  <1>4. PICK z \in Nat : z = k * SectorSize /\ o \in 0..(SectorSize - 1) /\ x = z + o
    BY <1>1, <1>3, Quotient
  <1> DEFINE wasRead == \/ k = first /\ pos # first * SectorSize
                        \/ k = last /\ pos + numBytes # (last + 1) * SectorSize
             b(q) == LET p == k * SectorSize + q
                     IN  IF p - pos \in 0..(numBytes - 1) THEN from[p - pos + 1]
                         ELSE IF wasRead /\ p < hdr.numBytes THEN ByteAt(hdr, p)
                         ELSE garbage
  <1>5. Buffer(hdr, from, numBytes, pos, k, garbage) = [q \in Offset |-> b(q)]
    BY <1>2 DEF Buffer
  <1>6. o \in Offset
    BY <1>4 DEF Offset
  <1>7. k * SectorSize + o = x
    BY <1>4
  <1> HIDE DEF wasRead
  <1>8. b(o) = IF x - pos \in 0..(numBytes - 1) THEN from[x - pos + 1]
               ELSE IF wasRead /\ x < hdr.numBytes THEN ByteAt(hdr, x) ELSE garbage
    BY <1>7
  <1> HIDE DEF b
  <1>9. ASSUME x < pos PROVE wasRead
    <2>1. k = first
      BY <1>2, <1>9
    <2>2. pos # z
      BY <1>1, <1>4, <1>9
    <2> QED
      BY <1>4, <2>1, <2>2 DEF wasRead
  <1>10. ASSUME x >= pos + numBytes PROVE wasRead
    <2>1. k = last
      BY <1>2, <1>10
    <2>2. (k + 1) * SectorSize = z + SectorSize
      BY <1>1, <1>4
    <2>3. pos + numBytes # z + SectorSize
      BY <1>1, <1>4, <1>10
    <2> QED
      BY <2>1, <2>2, <2>3 DEF wasRead
  <1>11. ~(x - pos \in 0..(numBytes - 1)) => x < pos \/ x >= pos + numBytes
    BY <1>1
  <1>12. b(o) = IF x - pos \in 0..(numBytes - 1) THEN from[x - pos + 1] ELSE ByteAt(hdr, x)
    BY <1>8, <1>9, <1>10, <1>11
  <1> QED
    BY <1>3, <1>5, <1>6, <1>12 DEF NewByte

\* The writes p fill the sectors of a request with their buffers.
Fills(p, hdr, from, numBytes, pos, garbage) ==
    /\ \A k \in (pos \div SectorSize)..((pos + numBytes - 1) \div SectorSize) :
          \E i \in 1..Len(p) : p[i].at = hdr.dataSectors[k + 1]
    /\ \A i \in 1..Len(p) :
          \E k \in (pos \div SectorSize)..((pos + numBytes - 1) \div SectorSize) :
              /\ p[i].at = hdr.dataSectors[k + 1]
              /\ p[i].val = Buffer(hdr, from, numBytes, pos, k, garbage)

\* WriteAt does.
LEMMA WriteAtFills ==
    ASSUME NEW hdr, NEW l, NEW from, NEW numBytes, NEW pos,
           NEW garbage, Request(hdr, l, from, numBytes, pos, garbage)
    PROVE  Fills(WriteAt(hdr, from, numBytes, pos, garbage), hdr, from, numBytes, pos, garbage)
  <1>1. PICK p : p = WriteAt(hdr, from, numBytes, pos, garbage)
    OBVIOUS
  <1>2. PICK first \in Nat, last \in Nat :
              /\ first = pos \div SectorSize /\ last = (pos + numBytes - 1) \div SectorSize
              /\ first <= last
    BY RequestHas
  <1>3. PICK n \in Nat \ {0} : n = last - first + 1
    BY <1>2
  <1> DEFINE at(i) == ByteToSector(hdr, (first + i - 1) * SectorSize)
             val(i) == Buffer(hdr, from, numBytes, pos, first + i - 1, garbage)
  <1>4. p = [i \in 1..n |-> WriteData(at(i), val(i))]
    BY <1>1, <1>2, <1>3 DEF WriteAt
  <1>5. Len(p) = n
    BY <1>3, <1>4
  <1>6. ASSUME NEW i \in 1..n
        PROVE  p[i].at = at(i) /\ p[i].val = val(i)
    BY <1>4 DEF WriteData
  <1>7. ASSUME NEW i \in 1..n, NEW k \in Nat, k = first + i - 1
        PROVE  at(i) = hdr.dataSectors[k + 1] /\ val(i) = Buffer(hdr, from, numBytes, pos, k, garbage)
    <2>1. (k * SectorSize) \div SectorSize = k
      BY Sizes, SectorStart
    <2>2. at(i) = hdr.dataSectors[k + 1]
      BY <1>7, <2>1 DEF ByteToSector
    <2> QED
      BY <1>7, <2>2
  <1> HIDE DEF at, val
  <1>8. ASSUME NEW i \in 1..n
        PROVE  \E k \in first..last : /\ p[i].at = hdr.dataSectors[k + 1]
                                      /\ p[i].val = Buffer(hdr, from, numBytes, pos, k, garbage)
    <2>1. PICK k \in first..last : k \in Nat /\ k = first + i - 1
      BY <1>3
    <2> QED
      BY <1>6, <1>7, <2>1
  <1>9. ASSUME NEW k \in first..last
        PROVE  \E i \in 1..n : p[i].at = hdr.dataSectors[k + 1]
    <2>1. PICK i \in 1..n : k \in Nat /\ k = first + i - 1
      <3>1. k - first + 1 \in 1..n /\ k \in Nat /\ k = first + (k - first + 1) - 1
        BY <1>3
      <3> QED
        BY <3>1
    <2> QED
      BY <1>6, <1>7, <2>1
  <1> QED
    BY <1>1, <1>2, <1>5, <1>8, <1>9 DEF Fills

\* A byte of the file when the writes are done.
LEMMA ByteWritten ==
    ASSUME data \in [FileSector -> Bytes], NEW hdr, NEW l, NEW from, NEW numBytes, NEW pos,
           NEW garbage, Request(hdr, l, from, numBytes, pos, garbage), Apart(hdr),
           NEW p, WritesFile(p, hdr), Fills(p, hdr, from, numBytes, pos, garbage),
           NEW x \in Nat, x < hdr.numBytes
    PROVE  DataOf(p, data)[ByteToSector(hdr, x)][x % SectorSize]
              = NewByte(from, numBytes, pos, x, ByteAt(hdr, x))
  <1>1. Filled(hdr) /\ hdr \in Header /\ numBytes \in Nat \ {0} /\ pos \in Nat /\ pos + numBytes <= hdr.numBytes
    BY DEF Request, Filled
  <1>2. PICK k \in Nat : k = x \div SectorSize
    BY Sizes, Quotient
  <1>3. PICK s \in FileSector : s = ByteToSector(hdr, x) /\ s = hdr.dataSectors[k + 1] /\ k + 1 \in 1..Len(hdr.dataSectors)
    <2>1. DataSectors(hdr) \subseteq FileSector
      BY <1>1, HeaderHas
    <2> QED
      BY <1>1, <1>2, <2>1, OffsetHas
  <1>4. PICK first \in Nat, last \in Nat :
              /\ first = pos \div SectorSize /\ last = (pos + numBytes - 1) \div SectorSize
              /\ first <= last
              /\ \A y \in Nat : y >= pos /\ y < pos + numBytes =>
                         first <= y \div SectorSize /\ y \div SectorSize <= last
    BY RequestHas
  <1>5. /\ \A j \in first..last : \E i \in 1..Len(p) : p[i].at = hdr.dataSectors[j + 1]
        /\ \A i \in 1..Len(p) : \E j \in first..last :
              /\ p[i].at = hdr.dataSectors[j + 1]
              /\ p[i].val = Buffer(hdr, from, numBytes, pos, j, garbage)
    BY <1>4 DEF Fills
  <1>6. ASSUME NEW j \in first..last
        PROVE  j + 1 \in 1..Len(hdr.dataSectors)
    <2>1. PICK end \in Nat : end = pos + numBytes - 1 /\ end < hdr.numBytes
      BY <1>1, HeaderHas
    <2>2. end \div SectorSize + 1 \in 1..Len(hdr.dataSectors)
      BY <1>1, <2>1, OffsetHas
    <2>3. last + 1 \in 1..Len(hdr.dataSectors) /\ Len(hdr.dataSectors) \in Nat
      BY <1>1, <1>4, <2>1, <2>2, HeaderHas
    <2> QED
      BY <1>4, <2>3
  <1>7. \A i \in 1..Len(p) : p[i].to = "data"
    BY DEF WritesFile
  <1>8. p \in Seq(Writes)
    BY DEF WritesFile
  <1>9. CASE k \in first..last
    <2>1. PICK i \in 1..Len(p) : p[i].at = s
      BY <1>3, <1>5, <1>9
    <2>2. PICK v : v = Buffer(hdr, from, numBytes, pos, k, garbage)
      OBVIOUS
    <2>3. ASSUME NEW q \in 1..Len(p), p[q].at = s
          PROVE  p[q].val = v
      <3>1. PICK j \in first..last : /\ p[q].at = hdr.dataSectors[j + 1]
                                     /\ p[q].val = Buffer(hdr, from, numBytes, pos, j, garbage)
        BY <1>5
      <3>2. j + 1 = k + 1
        BY <1>3, <1>6, <2>3, <3>1 DEF Apart
      <3>3. j = k
        BY <1>9, <3>2
      <3> QED
        BY <2>2, <3>1, <3>3
    <2>4. DataOf(p, data)[s] = v
      <3>1. p[i].val = v
        BY <2>1, <2>3
      <3>2. p[i].to = "data" /\ \A q \in 1..Len(p) : p[q].to = "data" /\ p[q].at = s => p[q].val = p[i].val
        BY <1>7, <2>3, <3>1
      <3> QED
        BY <1>8, <2>1, <3>1, <3>2, DataIs
    <2>5. v[x % SectorSize] = NewByte(from, numBytes, pos, x, ByteAt(hdr, x))
      BY <1>2, <1>4, <1>9, <2>2, BufferAt
    <2> QED
      BY <1>3, <2>4, <2>5
  <1>10. CASE ~(k \in first..last)
    <2>1. \A i \in 1..Len(p) : p[i].at # s
      <3>1. SUFFICES ASSUME NEW i \in 1..Len(p), p[i].at = s PROVE FALSE
        OBVIOUS
      <3>2. PICK j \in first..last : p[i].at = hdr.dataSectors[j + 1]
        BY <1>5
      <3>3. j + 1 = k + 1
        BY <1>3, <1>6, <3>1, <3>2 DEF Apart
      <3> QED
        BY <1>2, <1>10, <3>2, <3>3
    <2>2. DataOf(p, data)[s] = data[s]
      BY <1>8, <2>1, DataAt
    <2>3. ~(x - pos \in 0..(numBytes - 1))
      <3>1. ~(x >= pos /\ x < pos + numBytes)
        BY <1>2, <1>4, <1>10
      <3> QED
        BY <1>1, <3>1
    <2> QED
      BY <1>3, <2>2, <2>3 DEF NewByte, ByteAt
  <1> QED
    BY <1>9, <1>10

\* The contents of the file when they are.
LEMMA ContentWritten ==
    ASSUME data \in [FileSector -> Bytes], NEW hdr, NEW l, NEW from, NEW numBytes, NEW pos,
           NEW garbage, Request(hdr, l, from, numBytes, pos, garbage), Apart(hdr),
           NEW p, WritesFile(p, hdr), Fills(p, hdr, from, numBytes, pos, garbage)
    PROVE  ContentOf(hdr, DataOf(p, data)) =
              [i \in DOMAIN ContentOf(hdr, data) |->
                  IF i - pos \in 1..numBytes THEN from[i - pos] ELSE ContentOf(hdr, data)[i]]
  <1>1. Filled(hdr) /\ hdr \in Header /\ numBytes \in Nat \ {0} /\ pos \in Nat /\ hdr.numBytes \in Nat
    BY HeaderHas DEF Request, Filled
  <1>2. PICK c : c = DataOf(p, data)
    OBVIOUS
  <1>3. PICK old : old = ContentOf(hdr, data)
    OBVIOUS
  <1>4. ASSUME NEW i \in 1..hdr.numBytes
        PROVE  ContentOf(hdr, c)[i] = IF i - pos \in 1..numBytes THEN from[i - pos] ELSE old[i]
    <2>1. PICK x \in Nat : x = i - 1 /\ x < hdr.numBytes
      BY <1>1
    <2>2. c[ByteToSector(hdr, x)][x % SectorSize] = NewByte(from, numBytes, pos, x, ByteAt(hdr, x))
      BY <1>2, <2>1, ByteWritten
    <2>3. ContentOf(hdr, c)[i] = c[ByteToSector(hdr, x)][x % SectorSize]
      BY <2>1 DEF ContentOf
    <2>4. old[i] = ByteAt(hdr, x)
      BY <1>3, <2>1 DEF ContentOf, ByteAt
    <2>5. (x - pos \in 0..(numBytes - 1) <=> i - pos \in 1..numBytes) /\ x - pos + 1 = i - pos
      BY <1>1, <2>1
    <2> QED
      BY <2>2, <2>3, <2>4, <2>5 DEF NewByte
  <1>5. DOMAIN old = 1..hdr.numBytes
    BY <1>3 DEF ContentOf
  <1>6. ContentOf(hdr, c) = [i \in 1..hdr.numBytes |-> ContentOf(hdr, c)[i]]
    BY DEF ContentOf
  <1>7. ContentOf(hdr, c) = [i \in DOMAIN old |-> IF i - pos \in 1..numBytes THEN from[i - pos] ELSE old[i]]
    BY <1>4, <1>5, <1>6
  <1> QED
    BY <1>2, <1>3, <1>7

\* The files f when numBytes bytes of from are written to file name at pos.
Overwritten(f, name, from, numBytes, pos) ==
    [f EXCEPT ![name] = [j \in DOMAIN @ |-> IF j - pos \in 1..numBytes THEN from[j - pos] ELSE @[j]]]

\* A Write starts: it changes the contents of its file, and no other file.
LEMMA WrittenFiles ==
    ASSUME RefInv, Idle, FileInv', UNCHANGED <<Disk, damaged>>,
           NEW i \in InUse(dir), NEW hdr, hdr = header[dir[i].sector],
           NEW l, NEW from, NEW numBytes, NEW pos, NEW garbage,
           Request(hdr, l, from, numBytes, pos, garbage),
           Start(dir[i].name, WriteAt(hdr, from, numBytes, pos, garbage))
    PROVE  RefInv' /\ FilesThere' = Overwritten(FilesThere, dir[i].name, from, numBytes, pos)
  <1>1. /\ pending = <<>> /\ ~damaged /\ data \in [FileSector -> Bytes]
        /\ header \in [FileSector -> Header \cup {NoHeader}] /\ Consistent(map, dir, header)
    BY CallHas DEF RefInv
  <1>2. PICK p : p = WriteAt(hdr, from, numBytes, pos, garbage)
    OBVIOUS
  <1>3. /\ map' = map /\ dir' = dir /\ header' = header /\ data' = data /\ damaged' = damaged
        /\ pending' = p /\ busy' = dir[i].name
    BY <1>2 DEF Disk, Start
  <1>4. WritesFile(p, hdr)
    BY <1>1, <1>2, WriteAtHas
  <1>5. Fills(p, hdr, from, numBytes, pos, garbage)
    BY <1>2, WriteAtFills
  <1>6. Apart(hdr)
    BY <1>1, SectorsDiffer
  <1>7. /\ p \in Seq(Writes) /\ p # <<>>
        /\ \A k \in 1..Len(p) : p[k].to = "data" /\ p[k].at \in DataSectors(hdr)
    BY <1>4 DEF WritesFile
  <1>8. LogicalDir' = dir /\ LogicalHeader' = header
    <2>1. \A k \in 1..Len(p) : p[k].to # "dir" /\ p[k].to # "header"
      BY <1>7
    <2>2. LastOf(p, "dir", dir) = dir
      BY <1>7, <2>1, NoneIs
    <2>3. HeadersOf(p, header) = header
      BY <1>1, <1>7, <2>1, NoHeaders
    <2> QED
      BY <1>3, <2>2, <2>3, LogicalPartsNext
  <1>9. FilesThere = FilesOf(dir, header, data) /\ Known(dir)
    BY <1>1, CallFiles
  <1>10. \A j \in InUse(dir) : dir[j].name = dir[i].name => j = i
    BY <1>1, Zenon DEF Consistent
  <1>11. HalfwayAt(p, map, dir, dir, header, dir[i].name, i)
    <2>1. Differ(dir, dir, dir[i].name, i)
      BY <1>10 DEF Differ, InUse
    <2>2. dir[i].inUse
      BY DEF InUse
    <2>3. ASSUME NEW k \in 1..Len(p)
          PROVE  /\ p[k].to = "dir" => Differ(p[k].val, dir, dir[i].name, i)
                 /\ p[k].to = "header" => dir[i].inUse /\ p[k].at = dir[i].sector
                 /\ p[k].to = "data" => dir[i].inUse /\ p[k].at \in DataSectors(header[dir[i].sector])
                 /\ p[k].to = "map" /\ dir[i].inUse => k = Len(p)
      BY <1>7, <2>2
    <2> QED
      BY <1>7, <2>1, <2>3 DEF HalfwayAt
  <1>12. RefInv'
    <2>1. i \in Entry
      BY DEF InUse
    <2>2. Halfway(pending', map', dir', LogicalDir', LogicalHeader', busy')
      BY <1>3, <1>8, <1>11, <2>1 DEF Halfway
    <2> QED
      BY <1>8, <1>9, <2>2 DEF RefInv
  <1>13. PICK c : c = DataOf(p, data)
    OBVIOUS
  <1>14. FilesThere' = FilesOf(dir, header, c)
    BY <1>1, <1>3, <1>8, <1>13, FilesAreNext DEF LogicalFiles
  <1>15. Survives(dir[i].name, dir, header, data, dir, header, c)
    <2>1. ASSUME NEW s \in FileSector, s \notin DataSectors(header[dir[i].sector])
          PROVE  c[s] = data[s]
      <3>1. \A k \in 1..Len(p) : p[k].at # s
        BY <1>7, <2>1
      <3> QED
        BY <1>7, <1>13, <3>1, DataAt
    <2> QED
      BY <1>1, <2>1, WriteSurvives
  <1>16. PICK f, g, name : /\ f = FilesOf(dir, header, data) /\ g = FilesOf(dir, header, c)
                           /\ name = dir[i].name
    OBVIOUS
  <1>17. /\ DOMAIN f = {m \in Name : Entries(dir, m) # {}} /\ DOMAIN g = DOMAIN f
         /\ f = [n \in DOMAIN f |-> f[n]] /\ g = [n \in DOMAIN f |-> g[n]]
    BY <1>16 DEF FilesOf
  <1>18. ASSUME NEW n \in DOMAIN f, n # name
         PROVE  g[n] = f[n]
    BY <1>15, <1>16, <1>17, <1>18 DEF Survives, SameFile
  <1>19. name \in DOMAIN f /\ f[name] = ContentOf(hdr, data) /\ g[name] = ContentOf(hdr, c)
    <2>1. Entries(dir, name) = {i} /\ FindIndex(dir, name) = i
      BY <1>1, <1>16, NamedIs
    <2>2. name \in Name
      BY <1>9, <1>16 DEF Known
    <2>3. name \in DOMAIN f
      BY <1>17, <2>1, <2>2
    <2> QED
      BY <1>16, <1>17, <2>1, <2>3 DEF FilesOf
  <1>20. ContentOf(hdr, c) = [j \in DOMAIN ContentOf(hdr, data) |->
                  IF j - pos \in 1..numBytes THEN from[j - pos] ELSE ContentOf(hdr, data)[j]]
    BY <1>1, <1>4, <1>5, <1>6, <1>13, ContentWritten
  <1> DEFINE new == [j \in DOMAIN f[name] |-> IF j - pos \in 1..numBytes THEN from[j - pos] ELSE f[name][j]]
  <1>21. g[name] = new
    BY <1>19, <1>20
  <1>22. g = [f EXCEPT ![name] = new]
    <2> HIDE DEF new
    <2> QED
      BY <1>17, <1>18, <1>19, <1>21
  <1> QED
    BY <1>9, <1>12, <1>14, <1>16, <1>22 DEF Overwritten

\* Write.
LEMMA WriteStep ==
    ASSUME RefInv, NEW name \in Name, NEW n \in 1..MaxTransfer, NEW from \in [1..n -> Byte],
           Write(name, from)
    PROVE  RefInv' /\ F!Next
  <1>1. /\ Idle /\ FileInv' /\ opened \in OpenType /\ opened[name] # Closed
        /\ UNCHANGED <<Disk, damaged>> /\ pending = <<>>
    BY WriteKeeps, CallHas DEF RefInv, Write
  <1>2. PICK i \in InUse(dir), hdr \in Header, pos \in 0..MaxFileSize :
              /\ dir[i].name = name /\ hdr = header[dir[i].sector] /\ Filled(hdr)
              /\ opened[name].hdr = hdr /\ opened[name].seekPosition = pos
              /\ Positions[name] = pos /\ pos # Closed
              /\ name \in DOMAIN FilesThere /\ FilesThere[name] = ContentOf(hdr, data)
    BY <1>1, OpenFile
  <1>3. /\ n \in Nat \ {0} /\ Len(from) = n /\ pos \in Nat /\ hdr.numBytes \in Nat
        /\ MaxFileSize \in Nat
    <2>1. n \in Nat \ {0}
      BY FileSystemAssumption
    <2> QED
      BY <2>1, HeaderHas
  <1>4. PICK c \in Nat : c = Clip(hdr, n, pos)
    BY <1>3, ClipIs
  <1>5. /\ result' = [ok |-> TRUE, bytes |-> <<>>]
        /\ opened' = [opened EXCEPT ![name].seekPosition = pos + c]
        /\ IF c = 0 THEN UNCHANGED <<pending, busy>>
           ELSE \E garbage \in Byte : Start(name, WriteAt(hdr, from, c, pos, garbage))
    BY <1>2, <1>3, <1>4 DEF Write, Returns
  <1>6. Positions' = [Positions EXCEPT ![name] = pos + c] /\ (c # 0 => c <= n /\ pos + c <= hdr.numBytes)
    <2>1. PICK q : q = pos + c
      OBVIOUS
    <2>2. pos + c \in 0..MaxFileSize /\ (c # 0 => c <= n /\ pos + c <= hdr.numBytes)
      BY <1>3, <1>4, ClipRange
    <2>3. q \in 0..MaxFileSize /\ opened' = [opened EXCEPT ![name].seekPosition = q]
      BY <1>5, <2>1, <2>2
    <2>4. Positions' = [Positions EXCEPT ![name] = q]
      BY <1>1, <2>3, PositionMoved
    <2> QED
      BY <2>1, <2>2, <2>4
  <1>7. Len(FilesThere[name]) = hdr.numBytes
    BY <1>2, LengthIs
  <1>8. F!IsEmpty(name, Len(from)) <=> pos >= hdr.numBytes
    BY <1>2, <1>3, <1>7 DEF F!IsEmpty
  <1>9. CASE pos >= hdr.numBytes
    <2>1. c = 0
      BY <1>3, <1>4, <1>9, ClipIs
    <2>2. UNCHANGED <<pending, busy>>
      BY <1>5, <2>1
    <2>3. RefInv' /\ FilesThere' = FilesThere /\ busy' = busy /\ damaged' = damaged
      BY <1>1, <2>2, QuietCallFiles
    <2>4. Positions' = Positions
      <3>1. pos + c = pos
        BY <1>3, <2>1
      <3>2. DOMAIN Positions = Name /\ Positions = [m \in Name |-> Positions[m]]
        BY DEF Positions
      <3> QED
        BY <1>2, <1>6, <3>1, <3>2
    <2>5. F!Write(name, from)
      BY <1>2, <1>5, <1>8, <1>9, <2>3, <2>4 DEF F!Write, F!IsOpen, F!Returns
    <2> QED
      BY <1>1, <2>3, <2>5, CallStep
  <1>10. CASE pos < hdr.numBytes
    <2>1. c = (IF pos + n > hdr.numBytes THEN hdr.numBytes - pos ELSE n) /\ c # 0
      <3>1. n \in Nat \ {0} /\ pos \in Nat /\ pos < hdr.numBytes
        BY <1>3, <1>10
      <3>2. /\ Clip(hdr, n, pos) = 0 <=> pos >= hdr.numBytes
            /\ Clip(hdr, n, pos) = IF pos + n > hdr.numBytes THEN hdr.numBytes - pos ELSE n
        BY <3>1, ClipIs
      <3> QED
        BY <1>3, <1>4, <3>1, <3>2
    <2>2. F!Clip(name, Len(from)) = c
      BY <1>2, <1>3, <1>7, <2>1 DEF F!Clip
    <2>3. PICK garbage \in Byte : Start(name, WriteAt(hdr, from, c, pos, garbage))
      BY <1>5, <2>1
    <2>4. Request(hdr, n, from, c, pos, garbage)
      BY <1>2, <1>3, <1>6, <2>1 DEF Request
    <2>5. RefInv' /\ FilesThere' = Overwritten(FilesThere, name, from, c, pos)
      <3>1. Start(dir[i].name, WriteAt(hdr, from, c, pos, garbage)) /\ hdr = header[dir[i].sector]
        BY <1>2, <2>3
      <3>2. RefInv' /\ FilesThere' = Overwritten(FilesThere, dir[i].name, from, c, pos)
        BY <1>1, <2>4, <3>1, WrittenFiles, Zenon
      <3> QED
        BY <1>2, <3>2
    <2>6. busy' = name /\ damaged' = damaged
      BY <1>1, <2>3 DEF Start
    <2>7. F!Write(name, from)
      <3>1. ~F!IsEmpty(name, Len(from))
        BY <1>3, <1>8, <1>10
      <3>2. Positions' = [Positions EXCEPT ![name] = @ + F!Clip(name, Len(from))]
        BY <1>2, <1>6, <2>2
      <3>3. FilesThere' = [FilesThere EXCEPT ![name] = [j \in DOMAIN @ |->
                IF j - Positions[name] \in 1..F!Clip(name, Len(from)) THEN from[j - Positions[name]] ELSE @[j]]]
        BY <1>2, <2>2, <2>5 DEF Overwritten
      <3> QED
        BY <1>2, <1>5, <2>6, <3>1, <3>2, <3>3, Zenon DEF F!Write, F!IsOpen, F!Returns
    <2> QED
      BY <1>1, <2>5, <2>6, <2>7, CallStep
  <1> QED
    BY <1>3, <1>9, <1>10

-----------------------------------------------------------------------------
(* Remove.                                                                 *)

\* The directory when only its first sector is written.
LEMMA FirstSectorRow ==
    ASSUME NEW d \in Table, NEW nd \in Table, NEW j \in Entry
    PROVE  /\ d[j] = nd[j] => FirstSectorOf(d, nd)[j] = nd[j]
           /\ j < Straddle => FirstSectorOf(d, nd)[j] = nd[j]
           /\ j = Straddle => /\ FirstSectorOf(d, nd)[j].inUse = nd[j].inUse
                              /\ FirstSectorOf(d, nd)[j].sector = nd[j].sector
           /\ j > Straddle => FirstSectorOf(d, nd)[j] = d[j]
           /\ j < Straddle \/ j = Straddle \/ j > Straddle
  <1>1. PICK x, y : /\ x = d[j] /\ y = nd[j]
                    /\ x \in [inUse : BOOLEAN, sector : Sector, name : Name \cup {NoName}]
                    /\ y \in [inUse : BOOLEAN, sector : Sector, name : Name \cup {NoName}]
    BY DEF Table
  <1>2. FirstSectorOf(d, nd)[j] = IF j < Straddle THEN y
                                  ELSE IF j = Straddle THEN [y EXCEPT !.name = x.name] ELSE x
    BY <1>1 DEF FirstSectorOf
  <1>3. /\ [y EXCEPT !.name = x.name].inUse = y.inUse /\ [y EXCEPT !.name = x.name].sector = y.sector
        /\ x = y => [y EXCEPT !.name = x.name] = y
    BY <1>1
  <1>4. j \in Nat /\ Straddle \in Nat
    BY Sizes DEF Entry
  <1> HIDE DEF Entry
  <1> QED
    BY <1>1, <1>2, <1>3, <1>4

\* The files without that of name.
Without(f, name) == [m \in DOMAIN f \ {name} |-> f[m]]

\* A directory without the entry of a file.
LEMMA RemovedFiles ==
    ASSUME NEW m, NEW d \in Table, NEW h \in [FileSector -> Header \cup {NoHeader}],
           Consistent(m, d, h), NEW b, NEW i \in InUse(d), NEW nd \in Table,
           InUse(nd) = InUse(d) \ {i}, \A j \in Entry \ {i} : nd[j] = d[j]
    PROVE  FilesOf(nd, h, b) = Without(FilesOf(d, h, b), d[i].name)
  <1>1. PICK name : name = d[i].name
    OBVIOUS
  <1>2. \A j \in InUse(d) : d[j].name = name => j = i
    BY <1>1, Zenon DEF Consistent
  <1>3. i \in Entry /\ d[i].inUse /\ ~nd[i].inUse
    BY DEF InUse
  <1>4. Entries(nd, name) = {}
    BY <1>2, <1>3 DEF Entries, InUse
  <1>5. ASSUME NEW n \in Name \ {name}
        PROVE  SameFile(n, d, h, b, nd, h, b)
    <2>1. Entries(nd, n) = Entries(d, n)
      <3>1. ASSUME NEW j \in Entry
            PROVE  nd[j].inUse /\ nd[j].name = n <=> d[j].inUse /\ d[j].name = n
        BY <1>1, <1>3
      <3> QED
        BY <3>1 DEF Entries
    <2>2. ASSUME NEW j \in Entries(d, n)
          PROVE  nd[j].sector = d[j].sector /\ Filled(h[d[j].sector])
      <3>1. j \in InUse(d) /\ j # i /\ j \in Entry
        BY <1>1 DEF Entries, InUse
      <3>2. Filled(h[d[j].sector])
        BY <3>1, ConsistentFilled
      <3> QED
        BY <3>1, <3>2
    <2> QED
      BY <2>1, <2>2, SameFileIs
  <1>6. PICK f, g : f = FilesOf(d, h, b) /\ g = FilesOf(nd, h, b)
    OBVIOUS
  <1>7. /\ DOMAIN f = {n \in Name : Entries(d, n) # {}} /\ DOMAIN g = {n \in Name : Entries(nd, n) # {}}
        /\ g = [n \in DOMAIN g |-> g[n]]
    BY <1>6 DEF FilesOf
  <1>8. DOMAIN g = DOMAIN f \ {name}
    BY <1>4, <1>5, <1>6, <1>7 DEF SameFile
  <1>9. \A n \in DOMAIN g : g[n] = f[n]
    BY <1>5, <1>6, <1>7, <1>8 DEF SameFile
  <1>10. g = [n \in DOMAIN f \ {name} |-> f[n]]
    BY <1>7, <1>8, <1>9
  <1> QED
    BY <1>1, <1>6, <1>10 DEF Without

\* A Remove starts: its file is there no more.
LEMMA RemoveStarts ==
    ASSUME RefInv, Idle, FileInv', UNCHANGED <<Disk, damaged>>, NEW name \in Name,
           NEW i, NEW nm, NEW nd, NEW fd, NEW p, Removes(name, i, nm, nd, fd, p), Start(name, p)
    PROVE  RefInv' /\ FilesThere' = Without(FilesThere, name)
  <1>1. /\ pending = <<>> /\ ~damaged /\ data \in [FileSector -> Bytes] /\ dir \in Table
        /\ header \in [FileSector -> Header \cup {NoHeader}] /\ Consistent(map, dir, header)
    BY CallHas DEF RefInv
  <1>2. /\ i \in InUse(dir) /\ dir[i].name = name
        /\ nd \in Table /\ fd \in Table /\ fd = FirstSectorOf(dir, nd)
        /\ InUse(nd) = InUse(dir) \ {i} /\ \A j \in Entry \ {i} : nd[j] = dir[j]
        /\ p \in Seq(Writes) /\ Pends(p, <<"map", "dir", "dir">>)
        /\ p[1].val = nm /\ p[2].val = fd /\ p[3].val = nd /\ p # <<>>
    BY DEF Removes
  <1>3. /\ map' = map /\ dir' = dir /\ header' = header /\ data' = data /\ damaged' = damaged
        /\ pending' = p /\ busy' = name
    BY DEF Disk, Start
  <1>4. LogicalDir' = nd /\ LogicalHeader' = header
    <2>1. LeadsTo(p, map, dir, header, nm, nd, header)
      BY <1>1, <1>2, ShrinkingLeadsTo
    <2> QED
      BY <1>3, <2>1, LogicalPartsNext DEF LeadsTo
  <1>5. /\ Len(p) = 3 /\ p[1].to = "map" /\ p[2].to = "dir" /\ p[3].to = "dir"
        /\ \A k \in 1..Len(p) : k = 1 \/ k = 2 \/ k = 3
    <2>1. Len(p) = 3 /\ p[1].to = "map" /\ p[2].to = "dir" /\ p[3].to = "dir"
      BY <1>2, PendsThree
    <2> QED
      BY <2>1
  <1>6. FilesThere = FilesOf(dir, header, data) /\ Known(dir)
    BY <1>1, CallFiles
  <1>7. FilesThere' = FilesOf(nd, header, data)
    <2>1. \A k \in 1..Len(p) : p[k].to # "data"
      BY <1>5
    <2>2. DataOf(p, data) = data
      BY <1>1, <1>2, <2>1, NoData
    <2> QED
      BY <1>1, <1>3, <1>4, <2>2, FilesAreNext DEF LogicalFiles
  <1>8. FilesOf(nd, header, data) = Without(FilesOf(dir, header, data), name)
    <2>1. FilesOf(nd, header, data) = Without(FilesOf(dir, header, data), dir[i].name)
      BY <1>1, <1>2, RemovedFiles
    <2> QED
      BY <1>2, <2>1
  <1>9. \A j \in InUse(dir) : dir[j].name = name => j = i
    BY <1>1, <1>2, Zenon DEF Consistent
  <1>10. i \in Entry /\ dir[i].inUse /\ ~nd[i].inUse
    BY <1>2 DEF InUse
  <1>11. ASSUME NEW j \in Entry \ {i}
         PROVE  dir[j] = nd[j] /\ fd[j] = nd[j] /\ (nd[j].inUse => nd[j].name # name)
    <2>1. dir[j] = nd[j]
      BY <1>2
    <2>2. fd[j] = nd[j]
      BY <1>1, <1>2, <2>1, FirstSectorRow
    <2>3. nd[j].inUse => nd[j].name # name
      BY <1>9, <2>1 DEF InUse
    <2> QED
      BY <2>1, <2>2, <2>3
  <1>12. Differ(dir, nd, name, i)
    BY <1>2, <1>10, <1>11 DEF Differ
  <1>13. Differ(nd, nd, name, i)
    BY <1>10, <1>11 DEF Differ
  <1>14. Differ(fd, nd, name, i)
    <2>1. fd[i].inUse => fd[i].name = name
      <3>1. \/ fd[i] = nd[i] \/ fd[i].inUse = nd[i].inUse \/ fd[i] = dir[i]
        BY <1>1, <1>2, <1>10, FirstSectorRow
      <3> QED
        BY <1>2, <1>10, <3>1
    <2> QED
      BY <1>10, <1>11, <2>1 DEF Differ
  <1>15. HalfwayAt(p, map, dir, nd, header, name, i)
    <2>1. ASSUME NEW k \in 1..Len(p)
          PROVE  /\ p[k].to = "dir" => Differ(p[k].val, nd, name, i)
                 /\ p[k].to = "header" => nd[i].inUse /\ p[k].at = nd[i].sector
                 /\ p[k].to = "data" => nd[i].inUse /\ p[k].at \in DataSectors(header[nd[i].sector])
                 /\ p[k].to = "map" /\ nd[i].inUse => k = Len(p)
                 /\ p[k].to # "data"
      BY <1>2, <1>5, <1>10, <1>13, <1>14
    <2> QED
      BY <1>10, <1>12, <2>1 DEF HalfwayAt
  <1>16. Known(nd)
    <2>1. ASSUME NEW j \in InUse(nd) PROVE nd[j].name \in Name
      <3>1. j \in InUse(dir) /\ j \in Entry \ {i}
        BY <1>2 DEF InUse
      <3> QED
        BY <1>2, <1>6, <3>1 DEF Known
    <2> QED
      BY <2>1 DEF Known
  <1>17. RefInv'
    <2>1. Halfway(pending', map', dir', LogicalDir', LogicalHeader', busy')
      BY <1>3, <1>4, <1>10, <1>15 DEF Halfway
    <2> QED
      BY <1>4, <1>16, <2>1 DEF RefInv
  <1> QED
    BY <1>6, <1>7, <1>8, <1>17

\* A call that fails.
LEMMA RefusedStep ==
    ASSUME RefInv, Idle, FileInv', UNCHANGED <<Disk, damaged>>, Refused
    PROVE  /\ RefInv' /\ FilesThere' = FilesThere /\ Positions' = Positions /\ busy' = busy
           /\ damaged' = damaged /\ result' = [ok |-> FALSE, bytes |-> <<>>]
  <1>1. /\ UNCHANGED <<Disk, damaged, pending, busy>> /\ opened' = opened
        /\ result' = [ok |-> FALSE, bytes |-> <<>>]
    BY DEF Refused, Returns
  <1>2. RefInv' /\ FilesThere' = FilesThere /\ busy' = busy /\ damaged' = damaged
    BY <1>1, QuietCallFiles
  <1>3. Positions' = Positions
    BY <1>1 DEF Positions
  <1> QED
    BY <1>1, <1>2, <1>3

\* Remove.
LEMMA RemoveStep ==
    ASSUME RefInv, NEW name \in Name, Remove(name)
    PROVE  RefInv' /\ F!Next
  <1>1. /\ Idle /\ FileInv /\ FileInv' /\ opened \in OpenType /\ opened[name] = Closed
        /\ UNCHANGED <<Disk, damaged>> /\ busy = Nobody
    BY RemoveKeeps, CallHas DEF RefInv, Remove
  <1>2. name \in DOMAIN FilesThere <=> Entries(dir, name) # {}
    BY <1>1, FileThere
  <1>3. Positions[name] = Closed
    BY <1>1, PositionIs
  <1>4. CASE Entries(dir, name) = {}
    <2>1. Refused
      BY <1>4 DEF Remove
    <2>2. /\ RefInv' /\ FilesThere' = FilesThere /\ Positions' = Positions /\ busy' = busy
          /\ damaged' = damaged /\ result' = [ok |-> FALSE, bytes |-> <<>>]
      BY <1>1, <2>1, RefusedStep
    <2>3. (name \in DOMAIN FilesThere) = FALSE
      BY <1>2, <1>4
    <2>4. FilesThere = [m \in DOMAIN FilesThere \ {name} |-> FilesThere[m]]
      <3>1. FilesThere = [m \in DOMAIN FilesThere |-> FilesThere[m]]
        BY DEF FilesThere
      <3>2. DOMAIN FilesThere = DOMAIN FilesThere \ {name}
        BY <2>3
      <3> QED
        BY <3>1, <3>2
    <2>5. F!Remove(name)
      <3>1. FilesThere' = [m \in DOMAIN FilesThere \ {name} |-> FilesThere[m]]
        BY <2>2, <2>4, Zenon
      <3>2. result' = [ok |-> name \in DOMAIN FilesThere, bytes |-> <<>>]
        BY <2>2, <2>3
      <3>3. busy' = IF name \in DOMAIN FilesThere THEN name ELSE Nobody
        BY <1>1, <2>2, <2>3
      <3> QED
        BY <1>3, <2>2, <3>1, <3>2, <3>3, Zenon DEF F!Remove, F!IsOpen, F!Returns
    <2> QED
      BY <1>1, <2>2, <2>5, CallStep
  <1>5. CASE Entries(dir, name) # {}
    <2>1. PICK i, nm, nd, fd, p : Removes(name, i, nm, nd, fd, p) /\ Start(name, p)
      BY <1>1, <1>5, RemoveWrites
    <2>2. RefInv' /\ FilesThere' = Without(FilesThere, name)
      BY <1>1, <2>1, RemoveStarts, Zenon
    <2>3. /\ opened' = opened /\ result' = [ok |-> TRUE, bytes |-> <<>>]
          /\ busy' = name /\ damaged' = damaged
      BY <1>1, <1>5, <2>1 DEF Remove, Start, Returns
    <2>4. Positions' = Positions
      BY <2>3 DEF Positions
    <2>5. (name \in DOMAIN FilesThere) = TRUE
      BY <1>2, <1>5
    <2>6. F!Remove(name)
      BY <1>3, <2>2, <2>3, <2>4, <2>5 DEF F!Remove, F!IsOpen, F!Returns, Without
    <2> QED
      BY <1>1, <2>2, <2>3, <2>6, CallStep
  <1> QED
    BY <1>4, <1>5

-----------------------------------------------------------------------------
(* The room that is left.                                                  *)

\* g is a bijection from pairs to S.
Pairing(g, N, L, S) ==
    /\ \A n \in N : \A k \in 0..L[n] : g[<<n, k>>] \in S
    /\ \A n, o \in N : \A k \in 0..L[n], l \in 0..L[o] : g[<<n, k>>] = g[<<o, l>>] => n = o /\ k = l
    /\ \A s \in S : \E n \in N : \E k \in 0..L[n] : s = g[<<n, k>>]

\* There are as many pairs as elements of S.
LEMMA PairsCount ==
    ASSUME NEW N, NEW L, NEW S, IsFiniteSet(S), NEW T, T = UNION {{n} \X (0..L[n]) : n \in N},
           NEW g, DOMAIN g = T, g = [t \in T |-> g[t]], Pairing(g, N, L, S)
    PROVE  Cardinality(T) = Cardinality(S)
  <1>0. /\ \A n \in N : \A k \in 0..L[n] : g[<<n, k>>] \in S
        /\ \A n, o \in N : \A k \in 0..L[n], l \in 0..L[o] : g[<<n, k>>] = g[<<o, l>>] => n = o /\ k = l
        /\ \A s \in S : \E n \in N : \E k \in 0..L[n] : s = g[<<n, k>>]
    BY DEF Pairing
  <1>1. ASSUME NEW t \in T PROVE \E n \in N : \E k \in 0..L[n] : t = <<n, k>>
    OBVIOUS
  <1>2. ASSUME NEW n \in N, NEW k \in 0..L[n] PROVE <<n, k>> \in T
    OBVIOUS
  <1>3. \A t \in T : g[t] \in S
    <2>1. SUFFICES ASSUME NEW t \in T PROVE g[t] \in S
      OBVIOUS
    <2>2. PICK n \in N : \E k \in 0..L[n] : t = <<n, k>>
      BY <1>1
    <2> QED
      BY <1>0, <2>2
  <1>4. g \in [T -> S]
    BY <1>3
  <1>5. ASSUME NEW t \in T, NEW u \in T, g[t] = g[u] PROVE t = u
    <2>1. PICK n \in N : \E k \in 0..L[n] : t = <<n, k>>
      BY <1>1
    <2>2. PICK k \in 0..L[n] : t = <<n, k>>
      BY <2>1
    <2>3. PICK o \in N : \E l \in 0..L[o] : u = <<o, l>>
      BY <1>1
    <2>4. PICK l \in 0..L[o] : u = <<o, l>>
      BY <2>3
    <2>5. g[<<n, k>>] = g[<<o, l>>]
      BY <1>5, <2>2, <2>4
    <2>6. n = o /\ k = l
      BY <1>0, <2>5
    <2> QED
      BY <2>2, <2>4, <2>6
  <1>6. ASSUME NEW s \in S PROVE \E t \in T : g[t] = s
    <2>1. PICK n \in N : \E k \in 0..L[n] : s = g[<<n, k>>]
      BY <1>0
    <2>2. PICK k \in 0..L[n] : s = g[<<n, k>>]
      BY <2>1
    <2>3. <<n, k>> \in T
      BY <1>2
    <2> QED
      BY <2>2, <2>3
  <1>7. g \in Injection(T, S)
    BY <1>4, <1>5 DEF Injection, IsInjective
  <1>8. g \in Surjection(T, S)
    BY <1>4, <1>6 DEF Surjection
  <1> QED
    BY <1>7, <1>8, FS_Injection

\* The sector that holds part k of a file: its header if k is 0, or its k'th data sector.
PartOf(d, h, n, k) ==
    LET sector == d[FindIndex(d, n)].sector
    IN  IF k = 0 THEN sector ELSE h[sector].dataSectors[k]

\* The sectors of all files of a directory.
AllOwned(d, h) == UNION {Owned(d, h, i) : i \in InUse(d)}

\* The parts of a file are in different sectors, which the file owns.
LEMMA PartsHas ==
    ASSUME NEW m, NEW d, NEW h \in [FileSector -> Header \cup {NoHeader}], Consistent(m, d, h),
           NEW i \in InUse(d), NEW l, l = Len(h[d[i].sector].dataSectors)
    PROVE  /\ l \in Nat
           /\ \A k \in 0..l : PartOf(d, h, d[i].name, k) \in Owned(d, h, i)
           /\ \A k, j \in 0..l : PartOf(d, h, d[i].name, k) = PartOf(d, h, d[i].name, j) => k = j
           /\ \A s \in Owned(d, h, i) : \E k \in 0..l : s = PartOf(d, h, d[i].name, k)
  <1>1. PICK hdr \in Header, sector \in FileSector :
            /\ hdr = h[d[i].sector] /\ sector = d[i].sector
            /\ Owned(d, h, i) = {sector} \cup DataSectors(hdr)
            /\ sector \notin DataSectors(hdr)
    BY EntryHas
  <1>2. FindIndex(d, d[i].name) = i
    BY NamedIs
  <1>3. \A k : PartOf(d, h, d[i].name, k) = IF k = 0 THEN sector ELSE hdr.dataSectors[k]
    BY <1>1, <1>2 DEF PartOf
  <1>4. Apart(hdr)
    BY <1>1, SectorsDiffer
  <1>5. PICK q : q = hdr.dataSectors
    OBVIOUS
  <1>6. /\ l \in Nat /\ l = Len(q) /\ DataSectors(hdr) = {q[k] : k \in 1..l}
        /\ \A k \in 1..l : q[k] \in DataSectors(hdr)
        /\ \A k, j \in 1..l : q[k] = q[j] => k = j
    BY <1>1, <1>4, <1>5, HeaderHas DEF DataSectors, Apart
  <1>7. \A k \in 0..l : k = 0 \/ k \in 1..l
    BY <1>6
  <1>8. \A k \in 1..l : k \in 0..l /\ k # 0
    BY <1>6
  <1>9. \A k : PartOf(d, h, d[i].name, k) = IF k = 0 THEN sector ELSE q[k]
    BY <1>3, <1>5
  <1>10. \A k \in 0..l : PartOf(d, h, d[i].name, k) \in Owned(d, h, i)
    BY <1>1, <1>6, <1>7, <1>9
  <1>11. ASSUME NEW k \in 0..l, NEW j \in 0..l,
                PartOf(d, h, d[i].name, k) = PartOf(d, h, d[i].name, j)
         PROVE  k = j
    <2>1. (IF k = 0 THEN sector ELSE q[k]) = (IF j = 0 THEN sector ELSE q[j])
      BY <1>9, <1>11
    <2> QED
      BY <1>1, <1>6, <1>7, <2>1
  <1>12. ASSUME NEW s \in Owned(d, h, i)
         PROVE  \E k \in 0..l : s = PartOf(d, h, d[i].name, k)
    <2>1. CASE s = sector
      <3>1. 0 \in 0..l
        BY <1>6
      <3> QED
        BY <1>9, <2>1, <3>1
    <2>2. CASE s \in DataSectors(hdr)
      <3>1. PICK k \in 1..l : s = q[k]
        BY <1>6, <2>2
      <3> QED
        BY <1>8, <1>9, <3>1
    <2> QED
      BY <1>1, <2>1, <2>2
  <1> QED
    BY <1>6, <1>10, <1>11, <1>12

\* The pairs T of the names N of all files with numbers up to their lengths L in sectors.
PartsOfAll(d, h, N, L, T) ==
    /\ N = {d[i].name : i \in InUse(d)}
    /\ \A i \in InUse(d) : L[d[i].name] = Len(h[d[i].sector].dataSectors)
    /\ T = UNION {{n} \X (0..L[n]) : n \in N}

\* The pairs of Files stand for the sectors of the files.
LEMMA TakenCount ==
    ASSUME NEW m, NEW d, NEW h \in [FileSector -> Header \cup {NoHeader}], Consistent(m, d, h),
           NEW N, NEW L, NEW T, PartsOfAll(d, h, N, L, T)
    PROVE  Cardinality(T) = Cardinality(AllOwned(d, h))
  <1>0. /\ N = {d[i].name : i \in InUse(d)}
        /\ \A i \in InUse(d) : L[d[i].name] = Len(h[d[i].sector].dataSectors)
        /\ T = UNION {{n} \X (0..L[n]) : n \in N}
    BY DEF PartsOfAll
  <1> DEFINE g == [t \in T |-> PartOf(d, h, t[1], t[2])]
  <1>1. \A n \in N : \E i \in InUse(d) : n = d[i].name
    BY <1>0
  <1>2. ASSUME NEW n \in N, NEW k \in 0..L[n]
        PROVE  <<n, k>> \in T /\ g[<<n, k>>] = PartOf(d, h, n, k)
    BY <1>0
  <1>3. DOMAIN g = T /\ g = [t \in T |-> g[t]]
    OBVIOUS
  <1> HIDE DEF g
  <1>4. ASSUME NEW n \in N, NEW k \in 0..L[n]
        PROVE  g[<<n, k>>] \in AllOwned(d, h)
    <2>1. PICK i \in InUse(d) : n = d[i].name
      BY <1>1
    <2>2. PICK l : l = Len(h[d[i].sector].dataSectors) /\ L[n] = l
      BY <1>0, <2>1
    <2>3. PartOf(d, h, n, k) \in Owned(d, h, i)
      BY <2>1, <2>2, PartsHas
    <2> QED
      BY <1>2, <2>3 DEF AllOwned
  <1>5. ASSUME NEW n \in N, NEW o \in N, NEW k \in 0..L[n], NEW j \in 0..L[o],
               g[<<n, k>>] = g[<<o, j>>]
        PROVE  n = o /\ k = j
    <2>1. PICK i \in InUse(d) : n = d[i].name
      BY <1>1
    <2>2. PICK e \in InUse(d) : o = d[e].name
      BY <1>1
    <2>3. PICK l : l = Len(h[d[i].sector].dataSectors) /\ L[n] = l
      BY <1>0, <2>1
    <2>4. PICK r : r = Len(h[d[e].sector].dataSectors) /\ L[o] = r
      BY <1>0, <2>2
    <2>5. PartOf(d, h, n, k) \in Owned(d, h, i)
      BY <2>1, <2>3, PartsHas
    <2>6. PartOf(d, h, o, j) \in Owned(d, h, e)
      BY <2>2, <2>4, PartsHas
    <2>7. PartOf(d, h, n, k) = PartOf(d, h, o, j)
      BY <1>2, <1>5
    <2>8. i = e
      BY <2>5, <2>6, <2>7, Zenon DEF Consistent
    <2>9. n = o /\ l = r
      BY <2>1, <2>2, <2>3, <2>4, <2>8
    <2>10. k = j
      <3>1. k \in 0..l /\ j \in 0..l /\ PartOf(d, h, d[i].name, k) = PartOf(d, h, d[i].name, j)
        BY <2>1, <2>3, <2>4, <2>7, <2>9
      <3> QED
        BY <2>3, <3>1, PartsHas
    <2> QED
      BY <2>9, <2>10
  <1>6. ASSUME NEW s \in AllOwned(d, h)
        PROVE  \E n \in N : \E k \in 0..L[n] : s = g[<<n, k>>]
    <2>1. PICK i \in InUse(d) : s \in Owned(d, h, i)
      BY DEF AllOwned
    <2>2. PICK n \in N : n = d[i].name
      BY <1>0
    <2>3. PICK l : l = Len(h[d[i].sector].dataSectors) /\ L[n] = l
      BY <1>0, <2>2
    <2>4. PICK k \in 0..l : s = PartOf(d, h, n, k)
      BY <2>1, <2>2, <2>3, PartsHas
    <2>5. s = g[<<n, k>>] /\ k \in 0..L[n]
      BY <1>2, <2>3, <2>4
    <2> QED
      BY <2>5
  <1>7. IsFiniteSet(AllOwned(d, h))
    <2>1. \A i \in InUse(d) : Owned(d, h, i) \subseteq FileSector
      BY EntryHas
    <2>2. AllOwned(d, h) \in SUBSET Sector
      BY <2>1, SystemApart DEF AllOwned
    <2> QED
      BY <2>2, FinitelyMany
  <1>8. PICK S : S = AllOwned(d, h)
    OBVIOUS
  <1>9. IsFiniteSet(S) /\ Pairing(g, N, L, S)
    BY <1>4, <1>5, <1>6, <1>7, <1>8 DEF Pairing
  <1>10. Cardinality(T) = Cardinality(S)
    BY <1>0, <1>3, <1>9, PairsCount
  <1> QED
    BY <1>8, <1>10

\* The sectors that are clear are those of no file and not the system's.
LEMMA ClearCount ==
    ASSUME NEW m \in SUBSET Sector, NEW d, NEW h \in [FileSector -> Header \cup {NoHeader}],
           Consistent(m, d, h)
    PROVE  /\ Cardinality(AllOwned(d, h)) \in Nat
           /\ NumClear(m) = NumSectors - SystemSectors - Cardinality(AllOwned(d, h))
  <1>1. PICK A, Sys : A = AllOwned(d, h) /\ Sys = 0..(SystemSectors - 1)
    OBVIOUS
  <1>2. A \subseteq FileSector
    <2>1. \A i \in InUse(d) : Owned(d, h, i) \subseteq FileSector
      BY EntryHas
    <2> QED
      BY <1>1, <2>1 DEF AllOwned
  <1>3. m = Sys \cup A /\ Sys \cap A = {} /\ A \in SUBSET Sector
    <2>1. m = 0..(SystemSectors - 1) \cup UNION {Owned(d, h, i) : i \in InUse(d)}
      BY Zenon DEF Consistent
    <2> QED
      BY <1>1, <1>2, <2>1, SystemApart DEF AllOwned
  <1>4. IsFiniteSet(A) /\ Cardinality(A) \in Nat
    BY <1>3, FinitelyMany
  <1>5. IsFiniteSet(Sys) /\ Cardinality(Sys) = SystemSectors
    BY <1>1, Sizes, FS_Interval
  <1>6. IsFiniteSet(Sector) /\ Cardinality(Sector) = NumSectors
    BY Sizes, FS_Interval DEF Sector
  <1>7. Cardinality(m) = SystemSectors + Cardinality(A)
    <2>1. Cardinality(Sys \cup A) = Cardinality(Sys) + Cardinality(A) - Cardinality(Sys \cap A)
      BY <1>4, <1>5, FS_Union
    <2>2. Cardinality({}) = 0
      BY FS_EmptySet
    <2>3. PICK a, s \in Nat : a = Cardinality(A) /\ s = SystemSectors /\ s = Cardinality(Sys)
      BY <1>4, <1>5, Sizes
    <2>4. Cardinality(Sys \cap A) = 0
      BY <1>3, <2>2
    <2>5. Cardinality(Sys \cup A) = s + a - 0
      BY <2>1, <2>3, <2>4
    <2>6. Cardinality(m) = Cardinality(Sys \cup A)
      BY <1>3
    <2>7. Cardinality(m) = s + a
      BY <2>5, <2>6
    <2> QED
      BY <2>3, <2>7
  <1>8. NumClear(m) = NumSectors - Cardinality(m)
    <2>1. Sector \cap m = m
      OBVIOUS
    <2>2. Cardinality(Sector \ m) = Cardinality(Sector) - Cardinality(Sector \cap m)
      BY <1>6, FS_Difference
    <2> QED
      BY <1>6, <2>1, <2>2 DEF NumClear
  <1> QED
    BY <1>1, <1>4, <1>7, <1>8, Sizes

\* There is an entry left unless there are as many files as entries.
LEMMA EntryCount ==
    ASSUME NEW m, NEW d, NEW h, Consistent(m, d, h), NEW N, N = {d[i].name : i \in InUse(d)}
    PROVE  Cardinality(N) < NumDirEntries <=> FreeEntries(d) # {}
  <1> DEFINE f == [i \in InUse(d) |-> d[i].name]
  <1>1. IsFiniteSet(Entry) /\ Cardinality(Entry) = NumDirEntries
    BY Sizes, FS_Interval DEF Entry
  <1>2. InUse(d) \in SUBSET Entry /\ FreeEntries(d) = Entry \ InUse(d)
    BY DEF InUse, FreeEntries
  <1>3. /\ IsFiniteSet(InUse(d)) /\ Cardinality(InUse(d)) <= NumDirEntries
        /\ Cardinality(InUse(d)) = NumDirEntries => InUse(d) = Entry
    BY <1>1, <1>2, FS_Subset
  <1>4. Cardinality(InUse(d)) \in Nat
    BY <1>3, FS_CardinalityType
  <1>5. \A i, j \in InUse(d) : d[i].name = d[j].name => i = j
    BY Zenon DEF Consistent
  <1>6. f \in Surjection(InUse(d), N)
    BY DEF Surjection
  <1>7. f \in Injection(InUse(d), N)
    BY <1>5 DEF Injection, IsInjective
  <1> HIDE DEF f
  <1>8. Cardinality(N) = Cardinality(InUse(d))
    BY <1>3, <1>6, <1>7, FS_Surjection
  <1>9. FreeEntries(d) # {} <=> InUse(d) # Entry
    BY <1>2
  <1>10. InUse(d) = Entry => Cardinality(InUse(d)) = NumDirEntries
    BY <1>1
  <1> QED
    BY <1>3, <1>4, <1>8, <1>9, <1>10, Sizes

\* The number of elements is the same in both modules.
LEMMA SameCount == \A S : F!Cardinality(S) = Cardinality(S)
  BY DEF F!Cardinality, Cardinality

\* There is room in the directory and on the disk when Files says so.
LEMMA RoomIs ==
    ASSUME RefInv, Idle, NEW size \in 0..MaxFileSize
    PROVE  F!HasRoomFor(size) <=>
              FreeEntries(dir) # {} /\ NumClear(map) - 1 >= divRoundUp(size, SectorSize)
  <1>0. PICK m, d, h : m = map /\ d = dir /\ h = header
    OBVIOUS
  <1>1. /\ m \in SUBSET Sector /\ h \in [FileSector -> Header \cup {NoHeader}]
        /\ Consistent(m, d, h)
    BY <1>0, CallHas, Zenon DEF RefInv
  <1>2. PICK f, b : f = FilesThere /\ b = data /\ f = FilesOf(d, h, b)
    BY <1>0, CallFiles DEF Idle
  <1>3. Known(d)
    BY <1>0, CallFiles DEF Idle
  <1>4. PICK N : N = {d[i].name : i \in InUse(d)}
    OBVIOUS
  <1>5. DOMAIN f = N
    <2>1. DOMAIN f = {n \in Name : Entries(d, n) # {}}
      BY <1>2, FileIs
    <2>2. ASSUME NEW n \in Name, Entries(d, n) # {} PROVE n \in N
      BY <1>4, <2>2 DEF Entries, InUse
    <2>3. ASSUME NEW i \in InUse(d) PROVE d[i].name \in Name /\ Entries(d, d[i].name) # {}
      BY <1>3 DEF Entries, InUse, Known
    <2> QED
      BY <1>4, <2>1, <2>2, <2>3
  <1>6. PICK L : L = [n \in N |-> F!NumSectorsOf(Len(f[n]))]
    OBVIOUS
  <1>7. ASSUME NEW i \in InUse(d)
        PROVE  L[d[i].name] = Len(h[d[i].sector].dataSectors)
    <2>1. PICK n \in Name : n = d[i].name
      BY <1>3 DEF Known
    <2>2. FindIndex(d, n) = i /\ Entries(d, n) = {i}
      BY <1>1, <2>1, NamedIs
    <2>3. PICK hdr \in Header : /\ hdr = h[d[i].sector]
                                /\ Len(hdr.dataSectors) = divRoundUp(hdr.numBytes, SectorSize)
      BY <1>1, EntryHas
    <2>4. f[n] = ContentOf(hdr, b)
      <3>1. Entries(d, n) # {}
        BY <2>2
      <3>2. f[n] = ContentOf(h[d[FindIndex(d, n)].sector], b)
        BY <1>2, <3>1 DEF FilesOf
      <3> QED
        BY <2>2, <2>3, <3>2
    <2>5. Len(f[n]) = hdr.numBytes
      BY <2>4, LengthIs
    <2>6. L[n] = divRoundUp(hdr.numBytes, SectorSize)
      <3>1. n \in N
        BY <1>4, <2>1
      <3>2. L[n] = F!NumSectorsOf(hdr.numBytes)
        BY <1>6, <2>5, <3>1
      <3> QED
        BY <3>2 DEF F!NumSectorsOf, divRoundUp
    <2> QED
      BY <2>1, <2>3, <2>6
  <1>8. PICK T : T = UNION {{n} \X (0..L[n]) : n \in N}
    OBVIOUS
  <1>9. F!Taken = T
    <2>1. F!Taken = UNION {{n} \X (0..F!NumSectorsOf(Len(f[n]))) : n \in N}
      BY <1>2, <1>5 DEF F!Taken
    <2>2. \A n \in N : L[n] = F!NumSectorsOf(Len(f[n]))
      BY <1>6
    <2> QED
      BY <1>8, <2>1, <2>2
  <1>10. Cardinality(T) = Cardinality(AllOwned(d, h))
    <2>1. PartsOfAll(d, h, N, L, T)
      BY <1>4, <1>7, <1>8 DEF PartsOfAll
    <2> QED
      BY <1>1, <2>1, TakenCount
  <1>11. PICK a \in Nat : a = Cardinality(T) /\ NumClear(m) = NumSectors - SystemSectors - a
    BY <1>1, <1>10, ClearCount
  <1>12. PICK k \in Nat : k = divRoundUp(size, SectorSize) /\ k = F!NumSectorsOf(size)
    <2>1. size \in Nat
      <3>1. MaxFileSize \in Nat
        BY Sizes, Times DEF MaxFileSize
      <3> QED
        BY <3>1
    <2> QED
      BY <2>1, Sizes, RoundUp DEF F!NumSectorsOf, divRoundUp
  <1>13. Cardinality(DOMAIN f) < NumDirEntries <=> FreeEntries(d) # {}
    BY <1>1, <1>4, <1>5, EntryCount
  <1>14. F!HasRoomFor(size) <=> /\ Cardinality(DOMAIN f) < NumDirEntries
                                /\ a + 1 + k <= NumSectors - SystemSectors
    <2>1. F!HasRoomFor(size) <=>
             /\ Cardinality(DOMAIN FilesThere) < NumDirEntries
             /\ Cardinality(F!Taken) + 1 + F!NumSectorsOf(size) <= NumSectors - SystemSectors
      BY SameCount, Zenon DEF F!HasRoomFor
    <2>2. /\ Cardinality(DOMAIN FilesThere) = Cardinality(DOMAIN f)
          /\ Cardinality(F!Taken) = a /\ F!NumSectorsOf(size) = k
      BY <1>2, <1>9, <1>11, <1>12
    <2> QED
      BY <2>1, <2>2
  <1>15. a + 1 + k <= NumSectors - SystemSectors <=> NumClear(m) - 1 >= k
    BY <1>11, Sizes
  <1> QED
    BY <1>0, <1>12, <1>13, <1>14, <1>15

\* Create succeeds when Files says so.
LEMMA CanCreateIs ==
    ASSUME RefInv, Idle, NEW name \in Name, NEW size \in 0..MaxFileSize
    PROVE  CanCreate(name, size) <=> name \notin DOMAIN FilesThere /\ F!HasRoomFor(size)
  <1>1. F!HasRoomFor(size) <=>
           FreeEntries(dir) # {} /\ NumClear(map) - 1 >= divRoundUp(size, SectorSize)
    BY RoomIs
  <1>2. name \in DOMAIN FilesThere <=> Entries(dir, name) # {}
    BY FileThere
  <1>3. PICK c, k \in Nat : c = NumClear(map) /\ k = divRoundUp(size, SectorSize)
    <2>1. size \in Nat
      <3>1. MaxFileSize \in Nat
        BY Sizes, Times DEF MaxFileSize
      <3> QED
        BY <3>1
    <2>2. map \in SUBSET Sector
      BY CallHas DEF RefInv
    <2> QED
      BY <2>1, <2>2, Sizes, RoundUp, FinitelyMany
  <1>4. c - 1 >= k => c > 0
    OBVIOUS
  <1> QED
    BY <1>1, <1>2, <1>3, <1>4 DEF CanCreate

-----------------------------------------------------------------------------
(* Create.                                                                 *)

\* The files with another one.
WithFile(f, name, content) ==
    [m \in DOMAIN f \cup {name} |-> IF m = name THEN content ELSE f[m]]

\* A directory with one more entry has one more file.
LEMMA AddedFiles ==
    ASSUME NEW m, NEW d, NEW h \in [FileSector -> Header \cup {NoHeader}], NEW b, NEW s, NEW hdr,
           NEW e \in Entry, NEW nd, NEW nh, NEW nm, NewFile(m, d, h, s, hdr, e, nd, nh, nm),
           OthersSame(d, h, s, nd, nh), \A j \in Entry \ {e} : nd[j] = d[j],
           NEW name \in Name, nd[e].name = name
    PROVE  FilesOf(nd, nh, b) = WithFile(FilesOf(d, h, b), name, ContentOf(hdr, b))
  <1>1. /\ Consistent(m, d, h) /\ nh = [h EXCEPT ![s] = hdr] /\ s \in FileSector
        /\ e \notin InUse(d) /\ InUse(nd) = InUse(d) \cup {e} /\ nd[e].sector = s
        /\ \A j \in InUse(d) : nd[j] = d[j] /\ d[j].name # name
    BY DEF NewFile
  <1>2. Consistent(nm, nd, nh)
    <2>1. PICK X : X = Header \cup {NoHeader}
      OBVIOUS
    <2>2. h \in [FileSector -> X]
      BY <2>1
    <2> QED
      BY <2>2, AddedConsistent, Zenon
  <1>3. FindIndex(nd, name) = e /\ Entries(nd, name) = {e}
    <2>1. e \in InUse(nd)
      BY <1>1
    <2>2. Entries(nd, nd[e].name) = {e} /\ FindIndex(nd, nd[e].name) = e
      BY <1>2, <2>1, NamedIs
    <2> QED
      BY <2>2
  <1>4. Entries(d, name) = {}
    BY <1>1 DEF Entries, InUse
  <1>5. ASSUME NEW n \in Name \ {name}
        PROVE  SameFile(n, d, h, b, nd, nh, b)
    <2>1. Entries(nd, n) = Entries(d, n)
      <3>1. ASSUME NEW j \in Entry
            PROVE  nd[j].inUse /\ nd[j].name = n <=> d[j].inUse /\ d[j].name = n
        BY <1>1 DEF InUse
      <3> QED
        BY <3>1 DEF Entries
    <2>2. ASSUME NEW j \in Entries(d, n)
          PROVE  /\ nd[j].sector = d[j].sector /\ nh[d[j].sector] = h[d[j].sector]
                 /\ Filled(h[d[j].sector])
      <3>1. j \in InUse(d)
        BY DEF Entries, InUse
      <3>2. Filled(h[d[j].sector])
        BY <1>1, <3>1, ConsistentFilled
      <3> QED
        BY <3>1, <3>2 DEF OthersSame
    <2> QED
      BY <2>1, <2>2, SameFileIs
  <1>6. PICK f, g, c : f = FilesOf(d, h, b) /\ g = FilesOf(nd, nh, b) /\ c = ContentOf(hdr, b)
    OBVIOUS
  <1>7. /\ DOMAIN f = {n \in Name : Entries(d, n) # {}} /\ DOMAIN g = {n \in Name : Entries(nd, n) # {}}
        /\ g = [n \in DOMAIN g |-> g[n]]
    BY <1>6 DEF FilesOf
  <1>8. DOMAIN g = DOMAIN f \cup {name}
    BY <1>3, <1>5, <1>6, <1>7 DEF SameFile
  <1>9. ASSUME NEW n \in DOMAIN g
        PROVE  g[n] = IF n = name THEN c ELSE f[n]
    <2>1. CASE n # name
      BY <1>5, <1>6, <1>7, <1>8, <2>1 DEF SameFile
    <2>2. CASE n = name
      <3>1. g[name] = ContentOf(nh[nd[e].sector], b)
        BY <1>3, <1>6 DEF FilesOf
      <3>2. nh[nd[e].sector] = hdr
        BY <1>1
      <3> QED
        BY <1>6, <2>2, <3>1, <3>2
    <2> QED
      BY <2>1, <2>2
  <1>10. g = [n \in DOMAIN f \cup {name} |-> IF n = name THEN c ELSE f[n]]
    BY <1>7, <1>8, <1>9
  <1> QED
    BY <1>6, <1>10 DEF WithFile

\* A Create starts: there is one more file.
LEMMA CreateStarts ==
    ASSUME RefInv, Idle, FileInv', UNCHANGED <<Disk, damaged>>, NEW name \in Name,
           NEW size \in 0..MaxFileSize, NEW s, NEW hdr, NEW e, NEW nd, NEW fd, NEW nh, NEW nm, NEW p,
           Creates(name, size, s, hdr, e, nd, fd, nh, nm, p), Start(name, p)
    PROVE  /\ RefInv'
           /\ \E content \in [1..size -> Byte] : FilesThere' = WithFile(FilesThere, name, content)
  <1>1. /\ pending = <<>> /\ ~damaged /\ data \in [FileSector -> Bytes] /\ dir \in Table
        /\ header \in [FileSector -> Header \cup {NoHeader}] /\ Consistent(map, dir, header)
    BY CallHas DEF RefInv
  <1>2. /\ NewFile(map, dir, header, s, hdr, e, nd, nh, nm) /\ OthersSame(dir, header, s, nd, nh)
        /\ hdr \in Header /\ hdr.numBytes = size
        /\ nd \in Table /\ fd \in Table /\ fd = FirstSectorOf(dir, nd)
        /\ e \in Entry /\ nd[e].name = name /\ \A j \in Entry \ {e} : nd[j] = dir[j]
        /\ p \in Seq(Writes) /\ Pends(p, <<"header", "dir", "dir", "map">>)
        /\ p[1].at = s /\ p[1].val = hdr /\ p[2].val = fd /\ p[3].val = nd /\ p[4].val = nm
        /\ p # <<>>
    BY DEF Creates
  <1>3. /\ nh = [header EXCEPT ![s] = hdr] /\ s \in FileSector /\ s \notin map
        /\ Len(hdr.dataSectors) = divRoundUp(hdr.numBytes, SectorSize)
        /\ e \notin InUse(dir) /\ InUse(nd) = InUse(dir) \cup {e} /\ nd[e].sector = s
        /\ \A j \in InUse(dir) : nd[j] = dir[j] /\ dir[j].name # name
    BY <1>2 DEF NewFile
  <1>4. /\ map' = map /\ dir' = dir /\ header' = header /\ data' = data /\ damaged' = damaged
        /\ pending' = p /\ busy' = name
    BY DEF Disk, Start
  <1>5. LogicalDir' = nd /\ LogicalHeader' = nh
    <2>1. LeadsTo(p, map, dir, header, nm, nd, nh)
      <3>1. LeadsTo(p, map, dir, header, p[4].val, p[3].val, [header EXCEPT ![p[1].at] = p[1].val])
        BY <1>1, <1>2, GrowingLeadsTo
      <3> QED
        BY <1>2, <1>3, <3>1
    <2> QED
      BY <1>4, <2>1, LogicalPartsNext DEF LeadsTo
  <1>6. /\ Len(p) = 4 /\ p[1].to = "header" /\ p[2].to = "dir" /\ p[3].to = "dir" /\ p[4].to = "map"
        /\ \A k \in 1..Len(p) : k = 1 \/ k = 2 \/ k = 3 \/ k = 4
    <2>1. Len(p) = 4 /\ p[1].to = "header" /\ p[2].to = "dir" /\ p[3].to = "dir" /\ p[4].to = "map"
      BY <1>2, PendsFour
    <2> QED
      BY <2>1
  <1>7. FilesThere = FilesOf(dir, header, data) /\ Known(dir)
    BY <1>1, CallFiles
  <1>8. FilesThere' = FilesOf(nd, nh, data)
    <2>1. \A k \in 1..Len(p) : p[k].to # "data"
      BY <1>6
    <2>2. DataOf(p, data) = data
      BY <1>1, <1>2, <2>1, NoData
    <2> QED
      BY <1>1, <1>4, <1>5, <2>2, FilesAreNext DEF LogicalFiles
  <1>9. FilesOf(nd, nh, data) = WithFile(FilesOf(dir, header, data), name, ContentOf(hdr, data))
    <2>1. PICK m, d, h, b : m = map /\ d = dir /\ h = header /\ b = data
      OBVIOUS
    <2>2. /\ NewFile(m, d, h, s, hdr, e, nd, nh, nm) /\ OthersSame(d, h, s, nd, nh)
          /\ h \in [FileSector -> Header \cup {NoHeader}]
      BY <1>1, <1>2, <2>1
    <2>3. e \in Entry /\ nd[e].name = name /\ \A j \in Entry \ {e} : nd[j] = d[j]
      BY <1>2, <2>1
    <2>4. FilesOf(nd, nh, b) = WithFile(FilesOf(d, h, b), name, ContentOf(hdr, b))
      BY <2>2, <2>3, AddedFiles
    <2> QED
      BY <2>1, <2>4
  <1>10. ContentOf(hdr, data) \in [1..size -> Byte]
    <2>1. Filled(hdr)
      BY <1>2, <1>3 DEF Filled
    <2> QED
      BY <1>1, <1>2, <2>1, ContentType
  <1>11. nd[e].inUse /\ ~dir[e].inUse
    BY <1>2, <1>3 DEF InUse
  <1>12. ASSUME NEW j \in Entry \ {e}
         PROVE  dir[j] = nd[j] /\ fd[j] = nd[j] /\ (nd[j].inUse => nd[j].name # name)
    <2>1. dir[j] = nd[j]
      BY <1>2
    <2>2. fd[j] = nd[j]
      BY <1>1, <1>2, <2>1, FirstSectorRow
    <2>3. nd[j].inUse => nd[j].name # name
      BY <1>3, <2>1 DEF InUse
    <2> QED
      BY <2>1, <2>2, <2>3
  <1>13. Differ(dir, nd, name, e)
    BY <1>2, <1>11, <1>12 DEF Differ
  <1>14. Differ(nd, nd, name, e)
    BY <1>2, <1>12 DEF Differ
  <1>15. Differ(fd, nd, name, e)
    <2>1. fd[e].inUse => fd[e].sector = nd[e].sector
      <3>1. \/ fd[e] = nd[e] \/ fd[e].sector = nd[e].sector \/ fd[e] = dir[e]
        BY <1>1, <1>2, FirstSectorRow
      <3> QED
        BY <1>11, <3>1
    <2> QED
      BY <1>2, <1>11, <1>12, <2>1 DEF Differ
  <1>16. HalfwayAt(p, map, dir, nd, nh, name, e)
    <2>1. ASSUME NEW k \in 1..Len(p)
          PROVE  /\ p[k].to = "dir" => Differ(p[k].val, nd, name, e)
                 /\ p[k].to = "header" => nd[e].inUse /\ p[k].at = nd[e].sector
                 /\ p[k].to = "data" => nd[e].inUse /\ p[k].at \in DataSectors(nh[nd[e].sector])
                 /\ p[k].to = "map" /\ nd[e].inUse => k = Len(p)
                 /\ p[k].to # "data"
      BY <1>2, <1>3, <1>6, <1>11, <1>14, <1>15
    <2>2. nd[e].sector \notin map
      BY <1>3
    <2> QED
      BY <1>13, <2>1, <2>2 DEF HalfwayAt
  <1>17. Known(nd)
    <2>1. ASSUME NEW j \in InUse(nd) PROVE nd[j].name \in Name
      <3>1. CASE j = e
        BY <1>2, <3>1
      <3>2. CASE j \in InUse(dir)
        BY <1>3, <1>7, <3>2 DEF Known
      <3> QED
        BY <1>3, <3>1, <3>2
    <2> QED
      BY <2>1 DEF Known
  <1>18. RefInv'
    <2>1. Halfway(pending', map', dir', LogicalDir', LogicalHeader', busy')
      BY <1>2, <1>4, <1>5, <1>16 DEF Halfway
    <2> QED
      BY <1>5, <1>17, <2>1 DEF RefInv
  <1> QED
    BY <1>7, <1>8, <1>9, <1>10, <1>18

\* Create.
LEMMA CreateStep ==
    ASSUME RefInv, NEW name \in Name, NEW size \in 0..MaxFileSize, Create(name, size)
    PROVE  RefInv' /\ F!Next
  <1>1. /\ Idle /\ FileInv /\ FileInv' /\ UNCHANGED <<Disk, damaged>>
    BY CreateKeeps DEF RefInv, Create
  <1>2. CanCreate(name, size) <=> name \notin DOMAIN FilesThere /\ F!HasRoomFor(size)
    BY <1>1, CanCreateIs
  <1>3. CASE ~CanCreate(name, size)
    <2>1. Refused
      BY <1>3 DEF Create
    <2>2. /\ RefInv' /\ FilesThere' = FilesThere /\ Positions' = Positions /\ busy' = busy
          /\ damaged' = damaged /\ result' = [ok |-> FALSE, bytes |-> <<>>]
      BY <1>1, <2>1, RefusedStep
    <2>3. ~(name \notin DOMAIN FilesThere /\ F!HasRoomFor(size))
      BY <1>2, <1>3
    <2>4. F!Create(name, size)
      BY <2>2, <2>3, Zenon DEF F!Create, F!Returns
    <2> QED
      BY <1>1, <2>2, <2>4, CallStep
  <1>4. CASE CanCreate(name, size)
    <2>1. PICK s, hdr, e, nd, fd, nh, nm, p :
              Creates(name, size, s, hdr, e, nd, fd, nh, nm, p) /\ Start(name, p)
      BY <1>1, <1>4, CreateWrites
    <2>2. /\ RefInv'
          /\ \E content \in [1..size -> Byte] : FilesThere' = WithFile(FilesThere, name, content)
      BY <1>1, <2>1, CreateStarts, Zenon
    <2>3. /\ opened' = opened /\ result' = [ok |-> TRUE, bytes |-> <<>>]
          /\ busy' = name /\ damaged' = damaged
      BY <1>1, <1>4, <2>1 DEF Create, Start, Returns
    <2>4. Positions' = Positions
      BY <2>3 DEF Positions
    <2>5. name \notin DOMAIN FilesThere /\ F!HasRoomFor(size)
      BY <1>2, <1>4
    <2>6. F!Create(name, size)
      BY <2>2, <2>3, <2>4, <2>5, Zenon DEF F!Create, F!Returns, WithFile
    <2> QED
      BY <1>1, <2>2, <2>3, <2>6, CallStep
  <1> QED
    BY <1>3, <1>4

\* Nothing changes.
LEMMA StutterStep ==
    ASSUME RefInv, UNCHANGED fsVars
    PROVE  RefInv' /\ UNCHANGED F!fileVars
  <1>1. /\ map' = map /\ dir' = dir /\ header' = header /\ data' = data /\ pending' = pending
        /\ busy' = busy /\ opened' = opened /\ result' = result /\ damaged' = damaged
    BY DEF fsVars
  <1>2. FileInv'
    BY FileNext DEF RefInv
  <1>3. LogicalDir' = LogicalDir /\ LogicalHeader' = LogicalHeader
    BY <1>1, LogicalParts, LogicalPartsNext
  <1>4. RefInv'
    BY <1>1, <1>2, <1>3 DEF RefInv
  <1>5. FilesThere' = FilesThere
    <2>1. CASE damaged
      <3>1. DOMAIN FilesThere = {} /\ FilesThere = [n \in {} |-> Contents(n)]
        BY <2>1 DEF FilesThere
      <3>2. FilesThere' = [n \in {} |-> Contents(n)']
        BY <1>1, <2>1 DEF FilesThere
      <3> QED
        BY <3>1, <3>2
    <2>2. CASE ~damaged
      BY <1>1, <1>3, <2>2, FilesAre, FilesAreNext DEF LogicalFiles
    <2> QED
      BY <2>1, <2>2
  <1>6. Positions' = Positions
    BY <1>1 DEF Positions
  <1> QED
    BY <1>1, <1>4, <1>5, <1>6 DEF F!fileVars

\* Every step of the file system is one of Files, or changes nothing there.
LEMMA RefStep ==
    ASSUME RefInv, [Next]_fsVars
    PROVE  RefInv' /\ [F!Next]_(F!fileVars)
  <1>1. CASE WriteSector
    BY <1>1, WriteSectorStep
  <1>2. CASE Return
    BY <1>2, ReturnStep
  <1>3. CASE Crash
    BY <1>3, CrashStep
  <1>4. ASSUME NEW name \in Name, Open(name)
        PROVE  RefInv' /\ F!Next
    BY <1>4, OpenStep
  <1>5. ASSUME NEW name \in Name, Close(name)
        PROVE  RefInv' /\ F!Next
    BY <1>5, CloseStep
  <1>6. ASSUME NEW name \in Name, Remove(name)
        PROVE  RefInv' /\ F!Next
    BY <1>6, RemoveStep
  <1>7. ASSUME NEW name \in Name, NEW n \in 0..MaxFileSize, Create(name, n)
        PROVE  RefInv' /\ F!Next
    BY <1>7, CreateStep
  <1>8. ASSUME NEW name \in Name, NEW n \in 0..MaxFileSize, Seek(name, n)
        PROVE  RefInv' /\ F!Next
    BY <1>8, SeekStep
  <1>9. ASSUME NEW name \in Name, NEW n \in 1..MaxTransfer, Read(name, n)
        PROVE  RefInv' /\ F!Next
    BY <1>9, ReadStep
  <1>10. ASSUME NEW name \in Name, NEW n \in 1..MaxTransfer, NEW from \in [1..n -> Byte],
                Write(name, from)
         PROVE  RefInv' /\ F!Next
    BY <1>10, WriteStep
  <1>11. CASE UNCHANGED fsVars
    BY <1>11, StutterStep
  <1> QED
    BY <1>1, <1>2, <1>3, <1>4, <1>5, <1>6, <1>7, <1>8, <1>9, <1>10, <1>11 DEF Next

(***************************************************************************)
(* The file system implements Files: every operation takes effect at once, *)
(* as a whole, however many sectors it writes, and an exit of Nachos that   *)
(* leaves the disk consistent changes only the file that the operation was  *)
(* called with, and not its length (filesys.cc, openfile.cc, filehdr.cc,    *)
(* directory.cc).                                                           *)
(***************************************************************************)
THEOREM FilesImplemented == Spec => ImplementsFiles
  <1>1. Init => RefInv /\ F!Init
    BY FilesInit
  <1>2. RefInv /\ [Next]_fsVars => RefInv' /\ [F!Next]_(F!fileVars)
    BY RefStep
  <1> QED
    BY <1>1, <1>2, PTL DEF Spec, ImplementsFiles, F!Spec
=============================================================================

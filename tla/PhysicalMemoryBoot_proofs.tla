--------------------- MODULE PhysicalMemoryBoot_proofs ---------------------
(***************************************************************************)
(* Physical memory at boot for every memory map the firmware may report    *)
(* and all sizes of pages and of the structures.                           *)
(***************************************************************************)
EXTENDS PhysicalMemoryBoot, TLAPS, FiniteSetTheorems, SequenceTheorems

-----------------------------------------------------------------------------
(* Arithmetic of pages. *)

LEMMA ProductIsNatural ==
  ASSUME NEW a \in Nat, NEW b \in Nat
  PROVE  a * b \in Nat /\ a * b = b * a
  OBVIOUS

LEMMA ProductIsPositive ==
  ASSUME NEW a \in Nat \ {0}, NEW b \in Nat \ {0}
  PROVE  a * b \in Nat \ {0}
  OBVIOUS

LEMMA ProductOfSum ==
  ASSUME NEW a \in Nat, NEW b \in Nat, NEW c \in Nat
  PROVE  (a + b) * c = a * c + b * c
  OBVIOUS

LEMMA ProductIsMonotone ==
  ASSUME NEW a \in Nat, NEW b \in Nat, NEW c \in Nat, a <= b
  PROVE  a * c <= b * c
<1>1. PICK d \in Nat : b = a + d
  <2>1. b - a \in Nat /\ b = a + (b - a)
    OBVIOUS
  <2> QED
    BY <2>1
<1>2. b * c = a * c + d * c
  BY <1>1, ProductOfSum
<1>3. a * c \in Nat /\ d * c \in Nat /\ b * c \in Nat
  BY ProductIsNatural
<1> QED
  BY <1>2, <1>3

LEMMA ProductIsStrict ==
  ASSUME NEW a \in Nat, NEW b \in Nat, NEW c \in Nat \ {0}, a < b
  PROVE  a * c + c <= b * c
<1>1. a + 1 \in Nat /\ a + 1 <= b /\ 1 * c = c
  OBVIOUS
<1>2. (a + 1) * c <= b * c
  BY <1>1, ProductIsMonotone
<1>3. (a + 1) * c = a * c + 1 * c
  BY ProductOfSum
<1> QED
  BY <1>1, <1>2, <1>3

LEMMA ProductCancels ==
  ASSUME NEW a \in Nat, NEW b \in Nat, NEW c \in Nat \ {0}, a * c = b * c
  PROVE  a = b
<1>1. a * c \in Nat /\ b * c \in Nat
  BY ProductIsNatural
<1>2. a < b => a * c + c <= b * c
  BY ProductIsStrict
<1>3. b < a => b * c + c <= a * c
  BY ProductIsStrict
<1> QED
  BY <1>1, <1>2, <1>3

(* Rounded up to whole pages there is room for all bytes. *)
LEMMA RoundedUp ==
  ASSUME NEW x \in Nat, NEW a \in Nat \ {0}
  PROVE  /\ (x + a - 1) \div a \in Nat
         /\ x <= ((x + a - 1) \div a) * a
<1> DEFINE y == x + a - 1
           q == y \div a
<1>1. y \in Nat /\ x + a - 1 = x + (a - 1)
  OBVIOUS
<1>2. q \in Nat /\ y < a * q + a
  BY <1>1
<1>3. a * q = q * a /\ q * a \in Nat
  BY <1>2, ProductIsNatural
<1>4. y = x + (a - 1)
  BY <1>1
<1> HIDE DEF q, y
<1>5. x <= q * a
  BY <1>2, <1>3, <1>4
<1> QED
  BY <1>2, <1>5 DEF q, y

LEMMA LeastNatural ==
  ASSUME NEW S \in SUBSET Nat, S # {}
  PROVE  \E n \in S : \A m \in S : n <= m
<1>1. PICK n \in S : \A m \in S : ~ (<<m, n>> \in OpToRel(<, Nat))
  BY NatLessThanWellFounded, WFMin, Zenon
<1>2. \A m \in S : ~(m < n)
  BY <1>1, Zenon DEF OpToRel
<1> QED
  BY <1>2

-----------------------------------------------------------------------------
(* Regions of memory that do not overlap, and the runs of neighbours of    *)
(* one kind that the iteration combines.                                   *)

KindOf(r) == <<r.type, r.usage, r.flags>>
Contains(r, x) == r.start <= x /\ x < End(r)
Bounded(r) == r.start \in Nat /\ End(r) \in Nat /\ r.start < End(r)

Disjoint(R) ==
  /\ \A a \in R : Bounded(a)
  /\ \A a, b \in R : a # b => End(a) <= b.start \/ End(b) <= a.start

(* What has been combined so far: regions of one kind without a gap, from  *)
(* the first of them on.                                                   *)
IsRun(R, r) ==
  /\ Bounded(r)
  /\ \E a \in R : a.start = r.start
  /\ \E a \in R : End(a) = End(r)
  /\ \A x \in Nat : Contains(r, x) => \E a \in R : Contains(a, x) /\ KindOf(a) = KindOf(r)
  /\ \A a \in R : End(a) = r.start => KindOf(a) # KindOf(r)

(* All that can be combined. *)
IsWhole(R, r) ==
  /\ IsRun(R, r)
  /\ \A a \in R : a.start = End(r) => KindOf(a) # KindOf(r)

LEMMA UniqueAt ==
  ASSUME NEW R, Disjoint(R), NEW a \in R, NEW b \in R, NEW x \in Nat, Contains(a, x), Contains(b, x)
  PROVE  a = b
<1>1. /\ a.start \in Nat /\ End(a) \in Nat /\ b.start \in Nat /\ End(b) \in Nat
      /\ a # b => End(a) <= b.start \/ End(b) <= a.start
  BY Zenon DEF Disjoint, Bounded
<1> QED
  BY <1>1 DEF Contains

LEMMA RunPassed ==
  ASSUME NEW R, Disjoint(R), NEW r, IsRun(R, r), NEW a \in R
  PROVE  /\ a.start < End(r) => End(a) <= End(r)
         /\ a.start < r.start => End(a) <= r.start
<1>1. PICK c \in R : End(c) = End(r)
  BY Zenon DEF IsRun
<1>2. PICK b \in R : b.start = r.start
  BY Zenon DEF IsRun
<1>3. Bounded(a) /\ Bounded(b) /\ Bounded(c) /\ Bounded(r)
  BY Zenon DEF Disjoint, IsRun
<1>4. /\ a # c => End(a) <= c.start \/ End(c) <= a.start
      /\ a # b => End(a) <= b.start \/ End(b) <= a.start
  BY Zenon DEF Disjoint
<1>5. a.start < End(r) => End(a) <= End(r)
  <2>1. CASE a = c
    BY <2>1, <1>1, <1>3 DEF Bounded
  <2>2. CASE a # c
    BY <2>2, <1>1, <1>3, <1>4 DEF Bounded
  <2> QED
    BY <2>1, <2>2
<1>6. a.start < r.start => End(a) <= r.start
  <2>1. CASE a = b
    BY <2>1, <1>2, <1>3 DEF Bounded
  <2>2. CASE a # b
    BY <2>2, <1>2, <1>3, <1>4 DEF Bounded
  <2> QED
    BY <2>1, <2>2
<1> QED
  BY <1>5, <1>6

LEMMA RunKind ==
  ASSUME NEW R, Disjoint(R), NEW r, IsRun(R, r), NEW a \in R, Contains(r, a.start)
  PROVE  KindOf(a) = KindOf(r)
<1>1. Bounded(a)
  BY Zenon DEF Disjoint
<1>2. a.start \in Nat /\ Contains(a, a.start)
  BY <1>1 DEF Bounded, Contains
<1>3. PICK b \in R : Contains(b, a.start) /\ KindOf(b) = KindOf(r)
  BY <1>2, Zenon DEF IsRun
<1>4. a = b
  BY <1>2, <1>3, UniqueAt, Zenon
<1> QED
  BY <1>3, <1>4, Zenon

(* A region inside a run, not the first, has a neighbour of its kind. *)
LEMMA RunInner ==
  ASSUME NEW R, Disjoint(R), NEW r, IsRun(R, r), NEW a \in R, r.start < a.start, a.start < End(r)
  PROVE  \E c \in R : End(c) = a.start /\ KindOf(c) = KindOf(a)
<1>1. Bounded(a) /\ Bounded(r)
  BY Zenon DEF Disjoint, IsRun
<1>2. a.start \in Nat /\ End(a) \in Nat /\ a.start < End(a) /\ r.start \in Nat /\ End(r) \in Nat
  BY <1>1, Zenon DEF Bounded
<1>3. a.start - 1 \in Nat /\ Contains(r, a.start - 1)
  BY <1>2 DEF Contains
<1>4. PICK c \in R : Contains(c, a.start - 1) /\ KindOf(c) = KindOf(r)
  BY <1>3, Zenon DEF IsRun
<1>5. c.start \in Nat /\ End(c) \in Nat
  BY Zenon DEF Disjoint, Bounded
<1>6. c.start < a.start /\ a.start <= End(c)
  BY <1>2, <1>4, <1>5 DEF Contains
<1>7. c # a
  BY <1>2, <1>6
<1>8. End(c) <= a.start \/ End(a) <= c.start
  BY <1>7, Zenon DEF Disjoint
<1>9. End(c) = a.start
  BY <1>2, <1>5, <1>6, <1>8
<1>10. Contains(r, a.start)
  BY <1>2 DEF Contains
<1>11. KindOf(a) = KindOf(r)
  BY <1>10, RunKind, Zenon
<1> QED
  BY <1>4, <1>9, <1>11, Zenon

LEMMA WholeNotShorter ==
  ASSUME NEW R, Disjoint(R), NEW r, NEW q, IsWhole(R, r), IsRun(R, q), r.start = q.start
  PROVE  ~(End(r) < End(q))
<1> SUFFICES ASSUME End(r) < End(q)
             PROVE  FALSE
  OBVIOUS
<1>1. IsRun(R, r) /\ Bounded(r) /\ Bounded(q)
  BY Zenon DEF IsWhole, IsRun
<1>2. /\ r.start \in Nat /\ End(r) \in Nat /\ r.start < End(r)
      /\ q.start \in Nat /\ End(q) \in Nat /\ q.start < End(q)
  BY <1>1, Zenon DEF Bounded
<1>3. KindOf(r) = KindOf(q)
  <2>1. Contains(r, r.start) /\ Contains(q, r.start)
    BY <1>2 DEF Contains
  <2>2. PICK a \in R : Contains(a, r.start) /\ KindOf(a) = KindOf(r)
    BY <2>1, <1>1, <1>2, Zenon DEF IsRun
  <2>3. PICK b \in R : Contains(b, r.start) /\ KindOf(b) = KindOf(q)
    BY <2>1, <1>2, Zenon DEF IsRun
  <2>4. a = b
    BY <2>2, <2>3, <1>2, UniqueAt, Zenon
  <2> QED
    BY <2>2, <2>3, <2>4, Zenon
<1>4. Contains(q, End(r))
  BY <1>2 DEF Contains
<1>5. PICK b \in R : Contains(b, End(r)) /\ KindOf(b) = KindOf(q)
  BY <1>2, <1>4, Zenon DEF IsRun
<1>6. PICK c \in R : End(c) = End(r)
  BY <1>1, Zenon DEF IsRun
<1>7. /\ b.start \in Nat /\ End(b) \in Nat /\ c.start \in Nat /\ c.start < End(c)
      /\ b # c => End(b) <= c.start \/ End(c) <= b.start
  BY Zenon DEF Disjoint, Bounded
<1>8. b.start <= End(r) /\ End(r) < End(b)
  BY <1>5, Zenon DEF Contains
<1>9. b.start = End(r)
  <2>1. b # c
    BY <1>2, <1>6, <1>7, <1>8
  <2> QED
    BY <2>1, <1>2, <1>6, <1>7, <1>8
<1>10. KindOf(b) # KindOf(r)
  BY <1>9, Zenon DEF IsWhole
<1> QED
  BY <1>3, <1>5, <1>10, Zenon

LEMMA WholeIsUnique ==
  ASSUME NEW R, Disjoint(R), NEW r, NEW q, IsWhole(R, r), IsWhole(R, q), r.start = q.start
  PROVE  End(r) = End(q)
<1>1. IsRun(R, r) /\ IsRun(R, q)
  BY Zenon DEF IsWhole
<1>2. ~(End(r) < End(q)) /\ ~(End(q) < End(r))
  BY <1>1, WholeNotShorter, Zenon
<1>3. End(r) \in Nat /\ End(q) \in Nat
  BY <1>1, Zenon DEF IsRun, Bounded
<1> QED
  BY <1>2, <1>3

LEMMA RunLast ==
  ASSUME NEW R, Disjoint(R), NEW r, IsRun(R, r), NEW a \in R, End(a) = End(r)
  PROVE  KindOf(a) = KindOf(r)
<1>1. /\ a.start \in Nat /\ End(a) \in Nat /\ a.start < End(a)
      /\ r.start \in Nat /\ r.start < End(r)
  BY Zenon DEF Disjoint, Bounded, IsRun
<1>2. End(r) - 1 \in Nat /\ Contains(r, End(r) - 1) /\ Contains(a, End(r) - 1)
  BY <1>1 DEF Contains
<1>3. PICK b \in R : Contains(b, End(r) - 1) /\ KindOf(b) = KindOf(r)
  BY <1>2, Zenon DEF IsRun
<1>4. a = b
  BY <1>2, <1>3, UniqueAt
<1> QED
  BY <1>3, <1>4, Zenon

(* The next region continues the run. *)
LEMMA CombineKeepsRun ==
  ASSUME NEW R, Disjoint(R), NEW r, IsRun(R, r), NEW q \in R, q.start = End(r), KindOf(q) = KindOf(r),
         NEW s, s.start = r.start, End(s) = End(q), KindOf(s) = KindOf(r)
  PROVE  IsRun(R, s)
<1>1. /\ q.start \in Nat /\ End(q) \in Nat /\ q.start < End(q)
      /\ r.start \in Nat /\ r.start < End(r)
  BY Zenon DEF Disjoint, Bounded, IsRun
<1>2. Bounded(s)
  BY <1>1 DEF Bounded
<1>3. ASSUME NEW x \in Nat, Contains(s, x)
      PROVE  \E a \in R : Contains(a, x) /\ KindOf(a) = KindOf(s)
  <2>1. Contains(r, x) \/ Contains(q, x)
    BY <1>1, <1>3 DEF Contains
  <2> QED
    BY <2>1, Zenon DEF IsRun
<1>4. \E a \in R : a.start = s.start
  BY Zenon DEF IsRun
<1>5. \A a \in R : End(a) = s.start => KindOf(a) # KindOf(s)
  BY Zenon DEF IsRun
<1> QED
  BY <1>2, <1>3, <1>4, <1>5, Zenon DEF IsRun

(* A region that continues nothing begins a run. *)
LEMMA NextIsRun ==
  ASSUME NEW R, Disjoint(R), NEW e \in Nat, NEW q \in R, q.start >= e,
         \A a \in R : a.start >= e => q.start <= a.start,
         \A a \in R : a.start < e => End(a) <= e,
         \A a \in R : End(a) = e /\ q.start = e => KindOf(a) # KindOf(q)
  PROVE  IsRun(R, q)
<1>1. Bounded(q)
  BY Zenon DEF Disjoint
<1>2. ASSUME NEW a \in R, End(a) = q.start
      PROVE  KindOf(a) # KindOf(q)
  <2>1. a.start \in Nat /\ End(a) \in Nat /\ a.start < End(a) /\ q.start \in Nat
    BY Zenon DEF Disjoint, Bounded
  <2>2. a.start < e
    BY <2>1, <1>2
  <2>3. End(a) = e /\ q.start = e
    BY <2>1, <2>2, <1>2
  <2> QED
    BY <2>3
<1> QED
  BY <1>1, <1>2, Zenon DEF IsRun

LEMMA RunIsWhole ==
  ASSUME NEW R, Disjoint(R), NEW r, IsRun(R, r), NEW q \in R, q.start >= End(r),
         \A a \in R : a.start >= End(r) => q.start <= a.start,
         ~(q.start = End(r) /\ KindOf(q) = KindOf(r))
  PROVE  IsWhole(R, r)
<1>1. ASSUME NEW a \in R, a.start = End(r)
      PROVE  KindOf(a) # KindOf(r)
  <2>1. /\ a.start \in Nat /\ End(a) \in Nat /\ a.start < End(a)
        /\ q.start \in Nat /\ End(q) \in Nat /\ q.start < End(q)
    BY Zenon DEF Disjoint, Bounded
  <2>2. q.start = a.start
    BY <2>1, <1>1
  <2>3. Contains(a, a.start) /\ Contains(q, a.start)
    BY <2>1, <2>2 DEF Contains
  <2>4. a = q
    BY <2>1, <2>3, UniqueAt, Zenon
  <2> QED
    BY <2>4, <1>1
<1> QED
  BY <1>1, Zenon DEF IsWhole

LEMMA LastRunIsWhole ==
  ASSUME NEW R, NEW r, IsRun(R, r), Disjoint(R), \A a \in R : ~(a.start >= End(r))
  PROVE  IsWhole(R, r)
<1>1. \A a \in R : a.start # End(r)
  BY DEF Disjoint, Bounded
<1> QED
  BY <1>1, Zenon DEF IsWhole

-----------------------------------------------------------------------------
(* The number of runs: each has one first region. *)

Heads(R) == {a \in R : \A c \in R : End(c) = a.start => KindOf(c) # KindOf(a)}
HeadsBelow(R, x) == {a \in Heads(R) : a.start < x}
NumBelow(R, x) == Cardinality(HeadsBelow(R, x))

LEMMA NumBelowType ==
  ASSUME NEW R, IsFiniteSet(R), NEW x
  PROVE  /\ IsFiniteSet(Heads(R)) /\ Cardinality(Heads(R)) \in Nat
         /\ IsFiniteSet(HeadsBelow(R, x)) /\ NumBelow(R, x) \in Nat
         /\ NumBelow(R, x) <= Cardinality(Heads(R))
<1>1. Heads(R) \in SUBSET R /\ HeadsBelow(R, x) \in SUBSET Heads(R)
  BY Zenon DEF Heads, HeadsBelow
<1>2. IsFiniteSet(Heads(R))
  BY <1>1, FS_Subset
<1>3. IsFiniteSet(HeadsBelow(R, x)) /\ Cardinality(HeadsBelow(R, x)) <= Cardinality(Heads(R))
  BY <1>1, <1>2, FS_Subset
<1> QED
  BY <1>2, <1>3, FS_CardinalityType DEF NumBelow

LEMMA NumBelowZero ==
  ASSUME NEW R, Disjoint(R)
  PROVE  NumBelow(R, 0) = 0
<1>1. HeadsBelow(R, 0) = {}
  BY DEF HeadsBelow, Heads, Disjoint, Bounded
<1> QED
  BY <1>1, FS_EmptySet DEF NumBelow

LEMMA NumBelowAll ==
  ASSUME NEW R, NEW x, \A a \in R : a.start < x
  PROVE  NumBelow(R, x) = Cardinality(Heads(R))
<1>1. HeadsBelow(R, x) = Heads(R)
  BY Zenon DEF HeadsBelow, Heads
<1> QED
  BY <1>1 DEF NumBelow

LEMMA OneMoreRun ==
  ASSUME NEW R, Disjoint(R), IsFiniteSet(R), NEW r, IsRun(R, r), NEW x \in Nat, x >= End(r),
         \A a \in R : a.start >= End(r) => a.start >= x
  PROVE  NumBelow(R, x) = NumBelow(R, r.start) + 1
<1>1. PICK h \in R : h.start = r.start
  BY Zenon DEF IsRun
<1>2. r.start \in Nat /\ End(r) \in Nat /\ r.start < End(r)
  BY Zenon DEF IsRun, Bounded
<1>3. h \in Heads(R)
  <2>1. Contains(r, h.start)
    BY <1>1, <1>2 DEF Contains
  <2>2. KindOf(h) = KindOf(r)
    BY <2>1, RunKind, Zenon
  <2>3. \A c \in R : End(c) = h.start => KindOf(c) # KindOf(h)
    BY <2>2, <1>1, Zenon DEF IsRun
  <2> QED
    BY <2>3, Zenon DEF Heads
<1>4. h \notin HeadsBelow(R, r.start)
  BY <1>1, <1>2 DEF HeadsBelow
<1>5. ASSUME NEW a \in Heads(R)
      PROVE  a.start < x <=> a.start < r.start \/ a = h
  <2>1. a \in R /\ a.start \in Nat /\ End(a) \in Nat /\ a.start < End(a)
    BY Zenon DEF Heads, Disjoint, Bounded
  <2>2. ~(r.start < a.start /\ a.start < End(r))
    BY <2>1, RunInner, Zenon DEF Heads
  <2>3. a.start = r.start => a = h
    <3>1. SUFFICES ASSUME a.start = r.start
                   PROVE  a = h
      OBVIOUS
    <3>2. End(h) \in Nat /\ h.start < End(h)
      BY Zenon DEF Disjoint, Bounded
    <3>3. Contains(a, a.start) /\ Contains(h, a.start)
      BY <3>1, <3>2, <2>1, <1>1 DEF Contains
    <3> QED
      BY <3>3, <2>1, UniqueAt, Zenon
  <2>4. a.start >= End(r) => a.start >= x
    BY <2>1
  <2>5. a = h => a.start = r.start
    BY <1>1
  <2> QED
    BY <2>1, <2>2, <2>3, <2>4, <2>5, <1>2
<1>6. HeadsBelow(R, x) = HeadsBelow(R, r.start) \cup {h}
  BY <1>3, <1>5, Zenon DEF HeadsBelow
<1>7. IsFiniteSet(HeadsBelow(R, r.start))
  BY NumBelowType
<1> QED
  BY <1>4, <1>6, <1>7, FS_AddElement DEF NumBelow

-----------------------------------------------------------------------------
(* What the second pass writes. *)

FlagSets == {{}} \cup {d.flags : d \in UNION EfiMaps}
EntrySet == [start : Nat, pages : Nat, flags : FlagSets, type : MemTypes, usage : Usages]

(* An entry for memory of a region: only the map's own pages change their  *)
(* usage.                                                                  *)
SameMemory(a, e) ==
  /\ a.type = e.type /\ a.flags = e.flags
  /\ \/ a.usage = e.usage
     \/ e.usage = "INITIAL_MEMMAP" /\ a.usage = "MAPPED" /\ a.type = "USABLE"

FromRegions(R, e) == \A x \in Nat : Contains(e, x) => \E a \in R : Contains(a, x) /\ SameMemory(a, e)

(* The entries of m are the memory below address y, in order. *)
Describes(R, m, y) ==
  /\ \A i \in DOMAIN m : Bounded(m[i]) /\ End(m[i]) <= y /\ FromRegions(R, m[i])
  /\ \A i, j \in DOMAIN m : i < j => End(m[i]) <= m[j].start
  /\ \A a \in R : \A x \in Nat :
       Contains(a, x) /\ x < y => \E i \in DOMAIN m : Contains(m[i], x) /\ SameMemory(a, m[i])

(* The map's own entry. *)
HasOwn(m, y, a) ==
  /\ \A i \in DOMAIN m : m[i].usage = "INITIAL_MEMMAP" =>
       m[i].start = a.address /\ m[i].type = "USABLE" /\ m[i].pages = RequiredPages(a)
  /\ a.address < y => \E i \in DOMAIN m : m[i].usage = "INITIAL_MEMMAP"

AtMost(R, m, y, a) == Len(m) <= NumBelow(R, y) + IF a.address < y THEN 1 ELSE 0

Written(R, m, y, a) == Describes(R, m, y) /\ HasOwn(m, y, a) /\ AtMost(R, m, y, a)

(* The region the first pass has chosen. *)
Chosen(R, a) ==
  \E q \in EntrySet :
    /\ IsWhole(R, q) /\ q.start = a.address /\ q.pages = a.pages
    /\ q.type = "USABLE" /\ q.usage = "MAPPED"

Allocated(R, a) ==
  /\ Chosen(R, a)
  /\ a.numRegions = Cardinality(Heads(R))
  /\ a.pages >= RequiredPages(a)

LEMMA Appended ==
  ASSUME NEW S, NEW m \in Seq(S), NEW e \in S
  PROVE  /\ Append(m, e) \in Seq(S)
         /\ Len(Append(m, e)) = Len(m) + 1 /\ Len(m) \in Nat
         /\ DOMAIN m = 1..Len(m) /\ DOMAIN Append(m, e) = 1..(Len(m) + 1)
         /\ \A i \in DOMAIN m : Append(m, e)[i] = m[i]
         /\ Append(m, e)[Len(m) + 1] = e
  OBVIOUS

(* The same with the indices told apart. *)
LEMMA AppendedIndices ==
  ASSUME NEW S, NEW m \in Seq(S), NEW e \in S
  PROVE  /\ \A i \in DOMAIN Append(m, e) : i \in DOMAIN m \/ i = Len(m) + 1
         /\ \A i \in DOMAIN m : i \in DOMAIN Append(m, e) /\ i < Len(m) + 1 /\ i # Len(m) + 1
         /\ Len(m) + 1 \in DOMAIN Append(m, e) /\ Len(m) + 1 \notin DOMAIN m
         /\ ~(Len(m) + 1 < Len(m) + 1)
         /\ \A i \in DOMAIN m : ~(Len(m) + 1 < i)
         /\ \A i \in DOMAIN m : Append(m, e)[i] = m[i]
         /\ Append(m, e)[Len(m) + 1] = e
<1>1. /\ Len(m) \in Nat
      /\ DOMAIN m = 1..Len(m) /\ DOMAIN Append(m, e) = 1..(Len(m) + 1)
      /\ \A i \in DOMAIN m : Append(m, e)[i] = m[i]
      /\ Append(m, e)[Len(m) + 1] = e
  OBVIOUS
<1> QED
  BY <1>1

LEMMA AppendDescribes ==
  ASSUME NEW R, NEW m \in Seq(EntrySet), NEW e \in EntrySet, NEW y \in Nat, NEW z \in Nat,
         Describes(R, m, y), Bounded(e), y <= e.start, End(e) <= z, FromRegions(R, e),
         \A a \in R : \A x \in Nat : Contains(a, x) /\ y <= x /\ x < z => Contains(e, x) /\ SameMemory(a, e)
  PROVE  Describes(R, Append(m, e), z)
<1> DEFINE n == Append(m, e)
           k == Len(m) + 1
<1>1. /\ \A i \in DOMAIN n : i \in DOMAIN m \/ i = k
      /\ \A i \in DOMAIN m : i \in DOMAIN n /\ i < k /\ i # k /\ ~(k < i) /\ n[i] = m[i]
      /\ k \in DOMAIN n /\ n[k] = e /\ ~(k < k)
  BY AppendedIndices, Zenon
<1>2. e.start \in Nat /\ End(e) \in Nat /\ e.start < End(e)
  BY Zenon DEF Bounded
<1> HIDE DEF n, k
<1>3. \A i \in DOMAIN m : Bounded(m[i]) /\ End(m[i]) <= y /\ FromRegions(R, m[i])
  BY Zenon DEF Describes
<1>4. \A i \in DOMAIN m : End(m[i]) <= e.start /\ End(m[i]) <= z
  BY <1>2, <1>3 DEF Bounded
<1>5. \A i \in DOMAIN n : Bounded(n[i]) /\ End(n[i]) <= z /\ FromRegions(R, n[i])
  BY <1>1, <1>3, <1>4, Zenon
<1>6. ASSUME NEW i \in DOMAIN n, NEW j \in DOMAIN n, i < j
      PROVE  End(n[i]) <= n[j].start
  <2>1. CASE i \in DOMAIN m /\ j \in DOMAIN m
    BY <2>1, <1>1, <1>6, Zenon DEF Describes
  <2>2. CASE i \in DOMAIN m /\ j = k
    BY <2>2, <1>1, <1>4, Zenon
  <2>3. CASE i = k
    BY <2>3, <1>1, <1>6, Zenon
  <2> QED
    BY <2>1, <2>2, <2>3, <1>1, Zenon
<1>7. ASSUME NEW a \in R, NEW x \in Nat, Contains(a, x), x < z
      PROVE  \E i \in DOMAIN n : Contains(n[i], x) /\ SameMemory(a, n[i])
  <2>1. CASE x < y
    <3>1. PICK i \in DOMAIN m : Contains(m[i], x) /\ SameMemory(a, m[i])
      BY <2>1, <1>7, Zenon DEF Describes
    <3> QED
      BY <3>1, <1>1, Zenon
  <2>2. CASE y <= x
    BY <2>2, <1>1, <1>7, Zenon
  <2> QED
    BY <2>1, <2>2
<1> QED
  BY <1>5, <1>6, <1>7, Zenon DEF Describes, n

AllocSet == [numRegions : Nat, address : Nat, pages : Nat]

LEMMA RequiredFacts ==
  ASSUME NEW a \in AllocSet
  PROVE  /\ RequiredSize(a) \in Nat \ {0} /\ RequiredPages(a) \in Nat \ {0}
         /\ RequiredSize(a) <= RequiredPages(a) * PageSize
<1>1. PageSize \in Nat \ {0} /\ MapEntrySize \in Nat \ {0}
  BY EfiMapsAssumption
<1>2. a.numRegions + 1 \in Nat \ {0}
  BY DEF AllocSet
<1> DEFINE s == RequiredSize(a)
<1>3. s \in Nat \ {0}
  BY <1>1, <1>2, ProductIsPositive DEF RequiredSize
<1> HIDE DEF s
<1>4. (s + PageSize - 1) \div PageSize \in Nat /\ s <= ((s + PageSize - 1) \div PageSize) * PageSize
  BY <1>1, <1>3, RoundedUp
<1>5. RequiredPages(a) = (s + PageSize - 1) \div PageSize
  BY DEF RequiredPages, s
<1>6. RequiredPages(a) \in Nat /\ s <= RequiredPages(a) * PageSize
  BY <1>4, <1>5
<1>7. RequiredPages(a) # 0
  <2>1. 0 * PageSize = 0
    BY <1>1
  <2> QED
    BY <2>1, <1>3, <1>6
<1> QED
  BY <1>3, <1>6, <1>7 DEF s

LEMMA NotFull ==
  ASSUME alloc \in AllocSet, NEW m \in Seq(EntrySet), Len(m) <= alloc.numRegions
  PROVE  ~Full(m)
<1>1. MapEntrySize \in Nat \ {0}
  BY EfiMapsAssumption
<1>2. alloc.numRegions \in Nat /\ Len(m) \in Nat
  BY DEF AllocSet
<1>3. alloc.numRegions + 1 \in Nat /\ Len(m) < alloc.numRegions + 1
  BY <1>2
<1>4. Len(m) * MapEntrySize + MapEntrySize <= (alloc.numRegions + 1) * MapEntrySize
  BY <1>1, <1>2, <1>3, ProductIsStrict
<1>5. Len(m) * MapEntrySize \in Nat /\ (alloc.numRegions + 1) * MapEntrySize \in Nat
  BY <1>1, <1>2, <1>3, ProductIsNatural
<1> QED
  BY <1>1, <1>4, <1>5 DEF Full, RequiredSize

LEMMA RunMemory ==
  ASSUME NEW R, Disjoint(R), NEW r, IsRun(R, r), NEW a \in R, NEW x \in Nat, Contains(a, x), Contains(r, x)
  PROVE  KindOf(a) = KindOf(r)
<1>1. PICK b \in R : Contains(b, x) /\ KindOf(b) = KindOf(r)
  BY Zenon DEF IsRun
<1>2. a = b
  BY <1>1, UniqueAt, Zenon
<1> QED
  BY <1>1, <1>2, Zenon

(* No memory lies between a run and the next region. *)
LEMMA NothingBetween ==
  ASSUME NEW R, Disjoint(R), NEW r, IsRun(R, r), NEW z \in Nat,
         \A a \in R : a.start >= End(r) => a.start >= z,
         NEW a \in R, NEW x \in Nat, Contains(a, x), r.start <= x, x < z
  PROVE  Contains(r, x)
<1>1. /\ a.start \in Nat /\ End(a) \in Nat /\ r.start \in Nat /\ End(r) \in Nat
  BY Zenon DEF Disjoint, Bounded, IsRun
<1>2. a.start < End(r) => End(a) <= End(r)
  BY RunPassed
<1>3. a.start <= x /\ x < End(a)
  BY DEF Contains
<1>4. a.start >= End(r) => a.start >= z
  OBVIOUS
<1>5. x < End(r)
  BY <1>1, <1>2, <1>3, <1>4
<1> QED
  BY <1>5 DEF Contains

(* The chosen region is a run of its own. *)
LEMMA ChosenIsNotInside ==
  ASSUME NEW R, Disjoint(R), NEW q, IsRun(R, q), NEW r, IsRun(R, r), NEW z \in Nat,
         \A a \in R : a.start >= End(r) => a.start >= z,
         q.start < z
  PROVE  q.start <= r.start
<1>1. PICK b \in R : b.start = q.start
  BY Zenon DEF IsRun
<1>2. /\ q.start \in Nat /\ End(q) \in Nat /\ q.start < End(q)
      /\ r.start \in Nat /\ End(r) \in Nat
  BY Zenon DEF Bounded, IsRun
<1>3. SUFFICES ASSUME r.start < q.start
               PROVE  FALSE
  BY <1>2
<1>4. b.start >= End(r) => b.start >= z
  OBVIOUS
<1>5. b.start < End(r)
  BY <1>1, <1>2, <1>4
<1>6. PICK c \in R : End(c) = b.start /\ KindOf(c) = KindOf(b)
  BY <1>1, <1>3, <1>5, RunInner, Zenon
<1>7. Contains(q, b.start)
  BY <1>1, <1>2 DEF Contains
<1>8. KindOf(b) = KindOf(q)
  BY <1>7, RunKind, Zenon
<1>9. KindOf(c) # KindOf(q)
  BY <1>1, <1>6, Zenon DEF IsRun
<1> QED
  BY <1>6, <1>8, <1>9, Zenon

LEMMA KindFields ==
  ASSUME NEW a, NEW r, KindOf(a) = KindOf(r)
  PROVE  a.type = r.type /\ a.usage = r.usage /\ a.flags = r.flags
  BY DEF KindOf

(* Entries for a part of a run. *)
LEMMA PartIsFromRegions ==
  ASSUME NEW R, Disjoint(R), NEW r, IsRun(R, r), NEW e,
         \A x \in Nat : Contains(e, x) => Contains(r, x),
         \A a \in R : KindOf(a) = KindOf(r) => SameMemory(a, e)
  PROVE  FromRegions(R, e)
<1> SUFFICES ASSUME NEW x \in Nat, Contains(e, x)
             PROVE  \E a \in R : Contains(a, x) /\ SameMemory(a, e)
  BY Zenon DEF FromRegions
<1>1. PICK a \in R : Contains(a, x) /\ KindOf(a) = KindOf(r)
  BY Zenon DEF IsRun
<1> QED
  BY <1>1, Zenon

LEMMA AppendOwn ==
  ASSUME NEW m \in Seq(EntrySet), NEW e \in EntrySet, NEW y \in Nat, NEW z \in Nat, NEW a,
         HasOwn(m, y, a),
         e.usage = "INITIAL_MEMMAP" =>
           e.start = a.address /\ e.type = "USABLE" /\ e.pages = RequiredPages(a),
         a.address < z => a.address < y \/ e.usage = "INITIAL_MEMMAP"
  PROVE  HasOwn(Append(m, e), z, a)
<1> DEFINE n == Append(m, e)
           k == Len(m) + 1
<1>1. /\ \A i \in DOMAIN n : i \in DOMAIN m \/ i = k
      /\ \A i \in DOMAIN m : i \in DOMAIN n /\ n[i] = m[i]
      /\ k \in DOMAIN n /\ n[k] = e
  <2>1. \A i \in DOMAIN n : i \in DOMAIN m \/ i = k
    BY AppendedIndices, Zenon
  <2>2. \A i \in DOMAIN m : i \in DOMAIN n
    BY AppendedIndices, Zenon
  <2>3. \A i \in DOMAIN m : n[i] = m[i]
    BY AppendedIndices, Zenon
  <2>4. k \in DOMAIN n /\ n[k] = e
    BY AppendedIndices, Zenon
  <2> QED
    BY <2>1, <2>2, <2>3, <2>4, Zenon
<1> HIDE DEF n, k
<1>2. \A i \in DOMAIN n : n[i].usage = "INITIAL_MEMMAP" =>
        n[i].start = a.address /\ n[i].type = "USABLE" /\ n[i].pages = RequiredPages(a)
  BY <1>1, Zenon DEF HasOwn
<1>3. a.address < z => \E i \in DOMAIN n : n[i].usage = "INITIAL_MEMMAP"
  BY <1>1, Zenon DEF HasOwn
<1> QED
  BY <1>2, <1>3, Zenon DEF HasOwn, n

LEMMA FillPlain ==
  ASSUME NEW R, Disjoint(R), IsFiniteSet(R),
         NEW r \in EntrySet, IsWhole(R, r), r.usage # "INITIAL_MEMMAP",
         NEW z \in Nat, End(r) <= z, \A a \in R : a.start >= End(r) => a.start >= z,
         NEW m \in Seq(EntrySet), alloc \in AllocSet, Allocated(R, alloc),
         Written(R, m, r.start, alloc), r.start # alloc.address
  PROVE  /\ Filled(r) = <<r>> /\ ~Full(m)
         /\ Written(R, Append(m, r), z, alloc)
<1>1. IsRun(R, r) /\ Bounded(r)
  BY Zenon DEF IsWhole, IsRun
<1>2. r.start \in Nat /\ End(r) \in Nat /\ r.start < End(r)
  BY <1>1, Zenon DEF Bounded
<1>3. Filled(r) = <<r>>
  BY DEF Filled
<1>4. \A a \in R : KindOf(a) = KindOf(r) => SameMemory(a, r)
  BY KindFields, Zenon DEF SameMemory
<1>5. FromRegions(R, r)
  BY <1>1, <1>4, PartIsFromRegions, Zenon
<1>6. \A a \in R : \A x \in Nat : Contains(a, x) /\ r.start <= x /\ x < z => Contains(r, x) /\ SameMemory(a, r)
  BY <1>1, <1>4, NothingBetween, RunMemory, Zenon
<1>7. r.start <= r.start
  BY <1>2
<1>8. Describes(R, Append(m, r), z)
  BY <1>1, <1>2, <1>5, <1>6, <1>7, AppendDescribes, Zenon DEF Written
<1>9. PICK q \in EntrySet : IsRun(R, q) /\ q.start = alloc.address
  BY Zenon DEF Allocated, Chosen, IsWhole
<1>10. alloc.address < z => alloc.address < r.start
  <2>1. q.start < z => q.start <= r.start
    BY <1>1, <1>9, ChosenIsNotInside, Zenon
  <2>2. alloc.address \in Nat
    BY DEF AllocSet
  <2> QED
    BY <2>1, <2>2, <1>2, <1>9
<1>11. HasOwn(Append(m, r), z, alloc)
  BY <1>2, <1>10, AppendOwn, Zenon DEF Written
<1>12. NumBelow(R, z) = NumBelow(R, r.start) + 1
  <2>1. z >= End(r)
    BY <1>2
  <2> QED
    BY <2>1, <1>1, OneMoreRun, Zenon
<1>13. /\ NumBelow(R, z) \in Nat /\ NumBelow(R, r.start) \in Nat
       /\ NumBelow(R, z) <= alloc.numRegions
  BY NumBelowType, Zenon DEF Allocated
<1>14. Len(m) \in Nat /\ Len(Append(m, r)) = Len(m) + 1
  OBVIOUS
<1>15. Len(m) <= NumBelow(R, r.start) + IF alloc.address < r.start THEN 1 ELSE 0
  BY Zenon DEF Written, AtMost
<1>16. alloc.address \in Nat /\ alloc.numRegions \in Nat
  BY DEF AllocSet
<1>17. AtMost(R, Append(m, r), z, alloc)
  BY <1>2, <1>12, <1>13, <1>14, <1>15, <1>16 DEF AtMost
<1>18. Len(m) <= alloc.numRegions
  BY <1>12, <1>13, <1>14, <1>15, <1>16
<1>19. ~Full(m)
  BY <1>18, NotFull
<1> QED
  BY <1>3, <1>8, <1>11, <1>17, <1>19, Zenon DEF Written

LEMMA SameStartSameKind ==
  ASSUME NEW R, Disjoint(R), NEW r, NEW q, IsRun(R, r), IsRun(R, q), r.start = q.start
  PROVE  KindOf(r) = KindOf(q)
<1>1. PICK b \in R : b.start = r.start
  BY Zenon DEF IsRun
<1>2. /\ r.start \in Nat /\ End(r) \in Nat /\ r.start < End(r)
      /\ q.start \in Nat /\ End(q) \in Nat /\ q.start < End(q)
  BY Zenon DEF IsRun, Bounded
<1>3. Contains(r, b.start) /\ Contains(q, b.start)
  BY <1>1, <1>2 DEF Contains
<1>4. KindOf(b) = KindOf(r)
  BY <1>3, RunKind, Zenon
<1>5. KindOf(b) = KindOf(q)
  BY <1>3, RunKind, Zenon
<1> QED
  BY <1>4, <1>5, Zenon

(* The region met again in the second pass is the one that was chosen. *)
LEMMA ChosenAgain ==
  ASSUME NEW R, Disjoint(R), NEW r \in EntrySet, IsWhole(R, r),
         NEW a \in AllocSet, Chosen(R, a), r.start = a.address
  PROVE  r.pages = a.pages /\ r.type = "USABLE" /\ r.usage = "MAPPED"
<1>1. PICK q \in EntrySet : /\ IsWhole(R, q) /\ q.start = a.address /\ q.pages = a.pages
                            /\ q.type = "USABLE" /\ q.usage = "MAPPED"
  BY Zenon DEF Chosen
<1>2. IsRun(R, r) /\ IsRun(R, q)
  BY <1>1, Zenon DEF IsWhole
<1>3. End(r) = End(q)
  BY <1>1, WholeIsUnique, Zenon
<1>4. KindOf(r) = KindOf(q)
  BY <1>1, <1>2, SameStartSameKind, Zenon
<1>5. r.pages \in Nat /\ q.pages \in Nat /\ r.start \in Nat
  BY DEF EntrySet
<1>6. PageSize \in Nat \ {0}
  BY EfiMapsAssumption
<1>7. r.start + r.pages * PageSize = r.start + q.pages * PageSize
  BY <1>1, <1>3 DEF End
<1>8. r.pages * PageSize = q.pages * PageSize
  BY <1>5, <1>6, <1>7, ProductIsNatural
<1>9. r.pages = q.pages
  BY <1>5, <1>6, <1>8, ProductCancels
<1> QED
  BY <1>1, <1>4, <1>9, KindFields, Zenon

OwnPart(r, own) == [r EXCEPT !.usage = "INITIAL_MEMMAP", !.pages = own]
RestOf(r, own) == [r EXCEPT !.start = @ + own * PageSize, !.pages = @ - own]

LEMMA PartsOfRegion ==
  ASSUME NEW r \in EntrySet, NEW own \in Nat \ {0}, own <= r.pages
  PROVE  /\ OwnPart(r, own) \in EntrySet
         /\ OwnPart(r, own).start = r.start /\ OwnPart(r, own).pages = own
         /\ OwnPart(r, own).usage = "INITIAL_MEMMAP"
         /\ OwnPart(r, own).type = r.type /\ OwnPart(r, own).flags = r.flags
         /\ Bounded(OwnPart(r, own)) /\ End(OwnPart(r, own)) <= End(r) /\ End(r) \in Nat
         /\ own = r.pages => End(OwnPart(r, own)) = End(r)
<1>1. r.start \in Nat /\ r.pages \in Nat
  BY DEF EntrySet
<1>2. PageSize \in Nat \ {0}
  BY EfiMapsAssumption
<1> DEFINE e == OwnPart(r, own)
<1>3. /\ e \in EntrySet /\ e.start = r.start /\ e.pages = own
      /\ e.usage = "INITIAL_MEMMAP" /\ e.type = r.type /\ e.flags = r.flags
  BY DEF EntrySet, OwnPart, Usages
<1> HIDE DEF e
<1>4. own * PageSize \in Nat \ {0} /\ r.pages * PageSize \in Nat /\ own * PageSize <= r.pages * PageSize
  BY <1>1, <1>2, ProductIsPositive, ProductIsNatural, ProductIsMonotone
<1>5. End(e) = r.start + own * PageSize /\ End(r) = r.start + r.pages * PageSize
  BY <1>3 DEF End
<1>6. Bounded(e) /\ End(e) <= End(r) /\ End(r) \in Nat /\ (own = r.pages => End(e) = End(r))
  BY <1>1, <1>3, <1>4, <1>5 DEF Bounded
<1> QED
  BY <1>3, <1>6 DEF e

LEMMA RestOfRegion ==
  ASSUME NEW r \in EntrySet, NEW own \in Nat \ {0}, own < r.pages
  PROVE  /\ RestOf(r, own) \in EntrySet
         /\ RestOf(r, own).start = End(OwnPart(r, own))
         /\ RestOf(r, own).usage = r.usage
         /\ RestOf(r, own).type = r.type /\ RestOf(r, own).flags = r.flags
         /\ Bounded(RestOf(r, own)) /\ End(RestOf(r, own)) = End(r)
<1>1. r.start \in Nat /\ r.pages \in Nat
  BY DEF EntrySet
<1>2. PageSize \in Nat \ {0}
  BY EfiMapsAssumption
<1> DEFINE e == RestOf(r, own)
           k == own * PageSize
           p == r.pages - own
<1>3. k \in Nat /\ p \in Nat \ {0}
  BY <1>1, <1>2, ProductIsNatural
<1>4. e.start = r.start + k /\ e.pages = p /\ e.usage = r.usage /\ e.type = r.type /\ e.flags = r.flags
  BY DEF EntrySet, RestOf
<1>5. e \in EntrySet
  <2>1. r.start + k \in Nat
    BY <1>1, <1>3
  <2>2. e = [r EXCEPT !.start = r.start + k, !.pages = p]
    BY DEF RestOf
  <2> HIDE DEF e, k, p
  <2> QED
    BY <2>1, <2>2, <1>3 DEF EntrySet
<1>6. p * PageSize \in Nat \ {0}
  BY <1>2, <1>3, ProductIsPositive
<1>7. (own + p) * PageSize = k + p * PageSize
  BY <1>2, <1>3, ProductOfSum
<1>8. own + p = r.pages
  BY <1>1
<1> HIDE DEF e, p
<1>9. End(e) = (r.start + k) + p * PageSize /\ End(r) = r.start + r.pages * PageSize
  BY <1>4 DEF End
<1>10. r.pages * PageSize = k + p * PageSize
  BY <1>7, <1>8
<1> HIDE DEF k
<1>11. End(e) = End(r)
  BY <1>1, <1>3, <1>6, <1>9, <1>10
<1>12. Bounded(e)
  BY <1>1, <1>3, <1>4, <1>6, <1>9 DEF Bounded
<1>13. End(OwnPart(r, own)) = r.start + k
  BY <1>1 DEF End, OwnPart, EntrySet, k
<1> QED
  BY <1>4, <1>5, <1>11, <1>12, <1>13 DEF e

(* The first part of the chosen region becomes the map's own entry. *)
LEMMA FillFirst ==
  ASSUME NEW R, Disjoint(R), NEW r \in EntrySet, IsWhole(R, r),
         NEW m \in Seq(EntrySet), NEW a \in AllocSet, Allocated(R, a), r.start = a.address,
         Describes(R, m, r.start), HasOwn(m, r.start, a), NEW z \in Nat,
         End(OwnPart(r, RequiredPages(a))) <= z,
         \A b \in R : \A x \in Nat : Contains(b, x) /\ r.start <= x /\ x < z =>
           Contains(OwnPart(r, RequiredPages(a)), x) /\ Contains(r, x)
  PROVE  /\ Describes(R, Append(m, OwnPart(r, RequiredPages(a))), z)
         /\ HasOwn(Append(m, OwnPart(r, RequiredPages(a))), z, a)
<1> DEFINE own == RequiredPages(a)
           e == OwnPart(r, own)
<1>1. own \in Nat \ {0}
  BY RequiredFacts
<1>2. r.pages = a.pages /\ r.type = "USABLE" /\ r.usage = "MAPPED"
  BY ChosenAgain, Zenon DEF Allocated
<1>3. own <= r.pages
  <2>1. a.pages >= own /\ a.pages \in Nat
    BY DEF Allocated, AllocSet
  <2> QED
    BY <2>1, <1>1, <1>2
<1> HIDE DEF own
<1>4. /\ e \in EntrySet /\ e.start = r.start /\ e.pages = own
      /\ e.usage = "INITIAL_MEMMAP" /\ e.type = r.type /\ e.flags = r.flags
      /\ Bounded(e) /\ End(e) <= End(r) /\ End(r) \in Nat
  BY <1>1, <1>3, PartsOfRegion, Zenon
<1> HIDE DEF e
<1>5. IsRun(R, r) /\ r.start \in Nat
  BY DEF IsWhole, EntrySet
<1>6. \A b \in R : KindOf(b) = KindOf(r) => SameMemory(b, e)
  BY <1>2, <1>4, KindFields, Zenon DEF SameMemory
<1>7. \A x \in Nat : Contains(e, x) => Contains(r, x)
  BY <1>4, <1>5 DEF Contains, Bounded
<1>8. FromRegions(R, e)
  BY <1>5, <1>6, <1>7, PartIsFromRegions, Zenon
<1>9. \A b \in R : \A x \in Nat : Contains(b, x) /\ r.start <= x /\ x < z => Contains(e, x) /\ SameMemory(b, e)
  BY <1>5, <1>6, RunMemory, Zenon DEF e, own
<1>10. r.start <= e.start /\ End(e) <= z
  BY <1>4, <1>5 DEF e, own
<1>11. Describes(R, Append(m, e), z)
  BY <1>4, <1>5, <1>8, <1>9, <1>10, AppendDescribes, Zenon
<1>12. e.start = a.address /\ e.type = "USABLE" /\ e.pages = RequiredPages(a)
  BY <1>2, <1>4 DEF own
<1>13. HasOwn(Append(m, e), z, a)
  BY <1>4, <1>5, <1>12, AppendOwn, Zenon
<1> QED
  BY <1>11, <1>13 DEF e, own

LEMMA AppendRest ==
  ASSUME NEW R, Disjoint(R), NEW r \in EntrySet, IsWhole(R, r),
         NEW m \in Seq(EntrySet), NEW a \in AllocSet, NEW own \in Nat \ {0}, own < r.pages,
         r.usage # "INITIAL_MEMMAP",
         Describes(R, m, End(OwnPart(r, own))), HasOwn(m, End(OwnPart(r, own)), a), r.start = a.address,
         NEW z \in Nat, End(r) <= z, \A b \in R : b.start >= End(r) => b.start >= z
  PROVE  /\ Describes(R, Append(m, RestOf(r, own)), z)
         /\ HasOwn(Append(m, RestOf(r, own)), z, a)
<1> DEFINE e == RestOf(r, own)
           y == End(OwnPart(r, own))
<1>1. own <= r.pages
  BY DEF EntrySet
<1>2. Bounded(OwnPart(r, own)) /\ OwnPart(r, own).start = r.start
  BY <1>1, PartsOfRegion, Zenon
<1>3. y \in Nat /\ r.start \in Nat /\ r.start < y
  BY <1>2, Zenon DEF Bounded
<1>4. /\ e \in EntrySet /\ e.start = y /\ e.usage = r.usage /\ e.type = r.type /\ e.flags = r.flags
      /\ Bounded(e) /\ End(e) = End(r)
  BY RestOfRegion, Zenon
<1> HIDE DEF e, y
<1>5. IsRun(R, r) /\ End(r) \in Nat
  BY <1>4, Zenon DEF IsWhole, Bounded
<1>6. \A b \in R : KindOf(b) = KindOf(r) => SameMemory(b, e)
  BY <1>4, KindFields, Zenon DEF SameMemory
<1>7. \A x \in Nat : Contains(e, x) => Contains(r, x)
  BY <1>3, <1>4 DEF Contains
<1>8. FromRegions(R, e)
  BY <1>5, <1>6, <1>7, PartIsFromRegions, Zenon
<1>9. ASSUME NEW b \in R, NEW x \in Nat, Contains(b, x), y <= x, x < z
      PROVE  Contains(e, x) /\ SameMemory(b, e)
  <2>1. r.start <= x
    BY <1>3, <1>9
  <2>2. Contains(r, x)
    BY <2>1, <1>5, <1>9, NothingBetween, Zenon
  <2>3. Contains(e, x)
    BY <2>2, <1>4, <1>9 DEF Contains
  <2> QED
    BY <2>2, <2>3, <1>5, <1>6, <1>9, RunMemory, Zenon
<1>10. y <= e.start /\ End(e) <= z
  BY <1>3, <1>4
<1>11. Describes(R, Append(m, e), z)
  BY <1>3, <1>4, <1>8, <1>9, <1>10, AppendDescribes, Zenon DEF y
<1>12. HasOwn(Append(m, e), z, a)
  BY <1>3, <1>4, AppendOwn, Zenon DEF y
<1> QED
  BY <1>11, <1>12 DEF e

LEMMA FillOwn ==
  ASSUME NEW R, Disjoint(R), IsFiniteSet(R),
         NEW r \in EntrySet, IsWhole(R, r), r.usage # "INITIAL_MEMMAP",
         NEW z \in Nat, End(r) <= z, \A a \in R : a.start >= End(r) => a.start >= z,
         NEW m \in Seq(EntrySet), alloc \in AllocSet, Allocated(R, alloc),
         Written(R, m, r.start, alloc), r.start = alloc.address
  PROVE  LET own == RequiredPages(alloc)
             e == OwnPart(r, own)
         IN  /\ ~Full(m)
             /\ e \in EntrySet
             /\ r.pages = own => Filled(r) = <<e>> /\ Written(R, Append(m, e), z, alloc)
             /\ r.pages # own =>
                  /\ Filled(r) = <<e, RestOf(r, own)>> /\ ~Full(Append(m, e))
                  /\ RestOf(r, own) \in EntrySet
                  /\ Written(R, Append(Append(m, e), RestOf(r, own)), z, alloc)
<1> DEFINE own == RequiredPages(alloc)
           e == OwnPart(r, own)
           f == RestOf(r, own)
           y == End(e)
<1>1. IsRun(R, r) /\ r.start \in Nat /\ End(r) \in Nat /\ r.start < End(r)
  BY Zenon DEF IsWhole, IsRun, Bounded
<1>2. own \in Nat \ {0}
  BY RequiredFacts
<1>3. r.pages = alloc.pages /\ r.type = "USABLE" /\ r.usage = "MAPPED"
  BY ChosenAgain, Zenon DEF Allocated
<1>4. own <= r.pages /\ r.pages \in Nat
  <2>1. alloc.pages >= own /\ alloc.pages \in Nat
    BY DEF Allocated, AllocSet
  <2> QED
    BY <2>1, <1>2, <1>3
<1>5. /\ r.pages = own => Filled(r) = <<e>>
      /\ r.pages # own => Filled(r) = <<e, f>>
  BY DEF Filled, OwnPart, RestOf
<1>6. /\ NumBelow(R, z) = NumBelow(R, r.start) + 1
      /\ NumBelow(R, z) \in Nat /\ NumBelow(R, r.start) \in Nat
      /\ NumBelow(R, z) <= alloc.numRegions
  <2>1. z >= End(r)
    BY <1>1
  <2>2. NumBelow(R, z) = NumBelow(R, r.start) + 1
    BY <2>1, <1>1, OneMoreRun, Zenon
  <2> QED
    BY <2>2, NumBelowType, Zenon DEF Allocated
<1>7. Len(m) <= NumBelow(R, r.start) /\ Len(m) \in Nat
  <2>1. Len(m) <= NumBelow(R, r.start) + IF alloc.address < r.start THEN 1 ELSE 0
    BY Zenon DEF Written, AtMost
  <2>2. ~(alloc.address < r.start)
    BY <1>1
  <2> QED
    BY <2>1, <2>2, <1>6
<1>8. alloc.numRegions \in Nat /\ alloc.address \in Nat /\ alloc.address < z
  BY <1>1 DEF AllocSet
<1>9. ~Full(m)
  <2>1. Len(m) <= alloc.numRegions
    BY <1>6, <1>7, <1>8
  <2> QED
    BY <2>1, NotFull
<1>10. Describes(R, m, r.start) /\ HasOwn(m, r.start, alloc)
  BY Zenon DEF Written
<1>11. /\ e \in EntrySet /\ Bounded(e) /\ e.start = r.start
       /\ End(e) <= End(r)
       /\ own = r.pages => End(e) = End(r)
  BY <1>2, <1>4, PartsOfRegion, Zenon
<1>12. Append(m, e) \in Seq(EntrySet) /\ Len(Append(m, e)) = Len(m) + 1
  BY <1>11, Appended
<1>13. CASE r.pages = own
  <2>1. \A b \in R : \A x \in Nat : Contains(b, x) /\ r.start <= x /\ x < z =>
          Contains(e, x) /\ Contains(r, x)
    <3>1. \A x \in Nat : Contains(r, x) => Contains(e, x)
      BY <1>11, <1>13 DEF Contains
    <3> QED
      BY <3>1, <1>1, NothingBetween, Zenon
  <2>2. End(e) <= z
    BY <1>11, <1>13
  <2>3. Describes(R, Append(m, e), z) /\ HasOwn(Append(m, e), z, alloc)
    BY <2>1, <2>2, <1>10, FillFirst, Zenon
  <2>4. AtMost(R, Append(m, e), z, alloc)
    BY <1>6, <1>7, <1>8, <1>12 DEF AtMost
  <2>5. Written(R, Append(m, e), z, alloc)
    BY <2>3, <2>4, Zenon DEF Written
  <2> QED
    BY <2>5, <1>5, <1>9, <1>11, <1>13, Zenon
<1>14. CASE r.pages # own
  <2>1. own < r.pages
    BY <1>2, <1>4, <1>14
  <2>2. y \in Nat /\ y <= y
    BY <1>11 DEF Bounded
  <2>3. \A b \in R : \A x \in Nat : Contains(b, x) /\ r.start <= x /\ x < y =>
          Contains(e, x) /\ Contains(r, x)
    BY <1>1, <1>11, <2>2 DEF Contains
  <2>4. Describes(R, Append(m, e), y) /\ HasOwn(Append(m, e), y, alloc)
    BY <2>2, <2>3, <1>10, FillFirst, Zenon
  <2>5. /\ Describes(R, Append(Append(m, e), f), z)
        /\ HasOwn(Append(Append(m, e), f), z, alloc)
    BY <2>1, <2>4, <1>2, <1>12, AppendRest, Zenon
  <2>6. f \in EntrySet
    BY <2>1, <1>2, RestOfRegion, Zenon
  <2>7. Len(Append(Append(m, e), f)) = Len(m) + 1 + 1
    BY <2>6, <1>12, Appended
  <2>8. AtMost(R, Append(Append(m, e), f), z, alloc)
    BY <2>7, <1>6, <1>7, <1>8 DEF AtMost
  <2>9. ~Full(Append(m, e))
    <3>1. Len(Append(m, e)) <= alloc.numRegions
      BY <1>6, <1>7, <1>8, <1>12
    <3> QED
      BY <3>1, <1>12, NotFull
  <2>10. Written(R, Append(Append(m, e), f), z, alloc)
    BY <2>5, <2>8, Zenon DEF Written
  <2> QED
    BY <2>6, <2>9, <2>10, <1>5, <1>9, <1>11, <1>14, Zenon
<1> QED
  BY <1>13, <1>14, Zenon

(* The callback of the second pass always has room. *)
LEMMA FillStep ==
  ASSUME NEW R, Disjoint(R), IsFiniteSet(R),
         NEW r \in EntrySet, IsWhole(R, r), r.usage # "INITIAL_MEMMAP",
         NEW z \in Nat, End(r) <= z, \A a \in R : a.start >= End(r) => a.start >= z,
         NEW m \in Seq(EntrySet), alloc \in AllocSet, Allocated(R, alloc),
         Written(R, m, r.start, alloc)
  PROVE  /\ Room(m, Filled(r)) = Len(Filled(r))
         /\ m \o SubSeq(Filled(r), 1, Room(m, Filled(r))) \in Seq(EntrySet)
         /\ Written(R, m \o SubSeq(Filled(r), 1, Room(m, Filled(r))), z, alloc)
<1>1. ASSUME NEW e \in EntrySet, Filled(r) = <<e>>, ~Full(m), Written(R, Append(m, e), z, alloc)
      PROVE  /\ Room(m, Filled(r)) = Len(Filled(r))
             /\ m \o SubSeq(Filled(r), 1, Room(m, Filled(r))) \in Seq(EntrySet)
             /\ Written(R, m \o SubSeq(Filled(r), 1, Room(m, Filled(r))), z, alloc)
  <2>1. <<e>> \in Seq(EntrySet) /\ Len(<<e>>) = 1
    OBVIOUS
  <2>2. Room(m, <<e>>) = 1
    BY <2>1, <1>1 DEF Room
  <2>3. SubSeq(<<e>>, 1, 1) = <<e>>
    BY <2>1, SubSeqFull
  <2>4. m \o <<e>> = Append(m, e)
    OBVIOUS
  <2>5. Append(m, e) \in Seq(EntrySet)
    BY Appended
  <2> QED
    BY <2>1, <2>2, <2>3, <2>4, <2>5, <1>1, Zenon
<1>2. ASSUME NEW e \in EntrySet, NEW f \in EntrySet, Filled(r) = <<e, f>>, ~Full(m), ~Full(Append(m, e)),
             Written(R, Append(Append(m, e), f), z, alloc)
      PROVE  /\ Room(m, Filled(r)) = Len(Filled(r))
             /\ m \o SubSeq(Filled(r), 1, Room(m, Filled(r))) \in Seq(EntrySet)
             /\ Written(R, m \o SubSeq(Filled(r), 1, Room(m, Filled(r))), z, alloc)
  <2>1. <<e, f>> \in Seq(EntrySet) /\ Len(<<e, f>>) = 2 /\ <<e, f>>[1] = e
    OBVIOUS
  <2>2. Room(m, <<e, f>>) = 2
    BY <2>1, <1>2 DEF Room
  <2>3. SubSeq(<<e, f>>, 1, 2) = <<e, f>>
    BY <2>1, SubSeqFull
  <2>4. m \o <<e, f>> = Append(Append(m, e), f)
    OBVIOUS
  <2>5. Append(Append(m, e), f) \in Seq(EntrySet)
    BY Appended
  <2> QED
    BY <2>1, <2>2, <2>3, <2>4, <2>5, <1>2, Zenon
<1>3. CASE r.start # alloc.address
  BY <1>1, <1>3, FillPlain, Zenon
<1>4. CASE r.start = alloc.address
  BY <1>1, <1>2, <1>4, FillOwn, Zenon
<1> QED
  BY <1>3, <1>4

-----------------------------------------------------------------------------
(* The initial memory map: the inductive invariant. *)

Regs == {Region(d) : d \in efi}

GenTypes ==
  /\ efi \in EfiMaps
  /\ gen \in [pass : {"count", "fill", "done", "failed"}, range : EntrySet,
              written : BOOLEAN, success : BOOLEAN]
  /\ alloc \in AllocSet
  /\ imap \in Seq(EntrySet)

(* The range collected so far. *)
ScanInv ==
  Iterating => IF gen.written THEN IsRun(Regs, gen.range) /\ gen.range.usage # "INITIAL_MEMMAP"
                              ELSE gen.range = NoRange

(* The first pass has counted the runs below its range and knows the       *)
(* largest free one; the second has written all memory below its range.    *)
PassInv ==
  /\ gen.success
  /\ gen.pass \in {"count", "failed"} => imap = << >>
  /\ gen.pass = "count" =>
       /\ alloc.numRegions = NumBelow(Regs, gen.range.start)
       /\ alloc.pages = 0 \/ Chosen(Regs, alloc)
  /\ gen.pass \in {"fill", "done"} => Allocated(Regs, alloc)
  /\ gen.pass = "fill" => Written(Regs, imap, gen.range.start, alloc)
  /\ gen.pass = "done" =>
       \E y \in Nat : /\ \A a \in Regs : End(a) <= y
                      /\ alloc.address < y
                      /\ Written(Regs, imap, y, alloc)

GenInv == GenTypes /\ ScanInv /\ PassInv

LEMMA RegionFacts ==
  ASSUME efi \in EfiMaps, NEW d \in efi
  PROVE  /\ Region(d) \in EntrySet /\ Region(d).usage # "INITIAL_MEMMAP"
         /\ Region(d).start = d.start /\ Region(d).pages = d.pages /\ End(Region(d)) = End(d)
         /\ Region(d).pages \in Nat \ {0} /\ Bounded(Region(d))
<1>1. d.start \in Nat /\ d.pages \in Nat \ {0} /\ PageSize \in Nat \ {0}
  BY EfiMapsAssumption, Zenon
<1>2. d.flags \in FlagSets
  BY DEF FlagSets
<1>3. ToDexprOSMemType(d.type) \in MemTypes
  BY DEF ToDexprOSMemType, MemTypes
<1>4. /\ ToDexprOSInitialMemMapUsage(d.type) \in Usages
      /\ ToDexprOSInitialMemMapUsage(d.type) # "INITIAL_MEMMAP"
  BY DEF ToDexprOSInitialMemMapUsage, Usages
<1> DEFINE r == Region(d)
<1>5. r = [start |-> d.start, pages |-> d.pages, flags |-> d.flags,
           type |-> ToDexprOSMemType(d.type), usage |-> ToDexprOSInitialMemMapUsage(d.type)]
  BY DEF Region
<1> HIDE DEF r
<1>6. r \in EntrySet /\ r.usage # "INITIAL_MEMMAP" /\ r.start = d.start /\ r.pages = d.pages
  BY <1>1, <1>2, <1>3, <1>4, <1>5 DEF EntrySet
<1>7. End(r) = End(d)
  BY <1>6 DEF End
<1>8. d.pages * PageSize \in Nat \ {0}
  BY <1>1, ProductIsPositive
<1>9. Bounded(r)
  BY <1>1, <1>6, <1>7, <1>8 DEF Bounded, End
<1> QED
  BY <1>1, <1>6, <1>7, <1>9 DEF r

LEMMA RegsFacts ==
  ASSUME efi \in EfiMaps
  PROVE  /\ Disjoint(Regs) /\ IsFiniteSet(Regs)
         /\ \A a \in Regs : a \in EntrySet /\ a.usage # "INITIAL_MEMMAP" /\ a.pages \in Nat \ {0}
<1>1. \A a \in Regs : a \in EntrySet /\ a.usage # "INITIAL_MEMMAP" /\ a.pages \in Nat \ {0} /\ Bounded(a)
  BY RegionFacts, Zenon DEF Regs
<1>2. ASSUME NEW a \in Regs, NEW b \in Regs, a # b
      PROVE  End(a) <= b.start \/ End(b) <= a.start
  <2>1. PICK d \in efi : a = Region(d)
    BY DEF Regs
  <2>2. PICK e \in efi : b = Region(e)
    BY DEF Regs
  <2>3. d # e
    BY <2>1, <2>2, <1>2
  <2>4. End(d) <= e.start \/ End(e) <= d.start
    BY <2>3, EfiMapsAssumption, Zenon
  <2> QED
    BY <2>1, <2>2, <2>4, RegionFacts, Zenon
<1>3. Disjoint(Regs)
  BY <1>1, <1>2, Zenon DEF Disjoint
<1>4. IsFiniteSet(efi)
  BY EfiMapsAssumption, Zenon
<1>5. [d \in efi |-> Region(d)] \in Surjection(efi, Regs)
  BY DEF Surjection, Regs
<1>6. IsFiniteSet(Regs)
  BY <1>4, <1>5, FS_Surjection
<1> QED
  BY <1>1, <1>3, <1>6, Zenon

LEMMA NextFacts ==
  ASSUME efi \in EfiMaps, HasNext
  PROVE  /\ NextRegion \in Regs /\ NextRegion.start >= End(gen.range)
         /\ \A a \in Regs : a.start >= End(gen.range) => NextRegion.start <= a.start
<1>1. \A d \in Above : d \in efi /\ d.start \in Nat /\ d.start >= End(gen.range)
  BY EfiMapsAssumption, Zenon DEF Above
<1> DEFINE S == {d.start : d \in Above}
<1>2. S \in SUBSET Nat /\ S # {}
  BY <1>1 DEF HasNext
<1>3. PICK n \in S : \A m \in S : n <= m
  BY <1>2, LeastNatural, Zenon
<1>4. PICK d \in Above : n = d.start
  BY <1>3
<1>5. \A e \in Above : d.start <= e.start
  BY <1>3, <1>4
<1> DEFINE c == CHOOSE x \in Above : \A e \in Above : x.start <= e.start
<1>6. c \in Above /\ \A e \in Above : c.start <= e.start
  BY <1>5
<1>7. NextRegion = Region(c)
  BY DEF NextRegion
<1> HIDE DEF c
<1>8. c \in efi /\ c.start >= End(gen.range)
  BY <1>1, <1>6
<1>9. NextRegion \in Regs /\ NextRegion.start = c.start
  BY <1>7, <1>8, RegionFacts, Zenon DEF Regs
<1>10. ASSUME NEW a \in Regs, a.start >= End(gen.range)
       PROVE  c.start <= a.start
  <2>1. PICK e \in efi : a = Region(e)
    BY DEF Regs
  <2>2. e \in Above /\ e.start = a.start
    BY <2>1, <1>10, RegionFacts, Zenon DEF Above
  <2> QED
    BY <2>2, <1>6, Zenon
<1> QED
  BY <1>8, <1>9, <1>10, Zenon

LEMMA NoNext ==
  ASSUME efi \in EfiMaps, ~HasNext, NEW a \in Regs
  PROVE  ~(a.start >= End(gen.range))
<1>1. PICK d \in efi : a = Region(d)
  BY DEF Regs
<1>2. a.start = d.start
  BY <1>1, RegionFacts, Zenon
<1> QED
  BY <1>2, Zenon DEF HasNext, Above

LEMMA NoRangeFacts ==
  /\ NoRange \in EntrySet /\ NoRange.start = 0 /\ NoRange.pages = 0 /\ End(NoRange) = 0
<1>1. NoRange \in EntrySet
  BY DEF NoRange, EntrySet, FlagSets, MemTypes, Usages
<1>2. PageSize \in Nat
  BY EfiMapsAssumption
<1> QED
  BY <1>1, <1>2 DEF NoRange, End

LEMMA RegsStay ==
  ASSUME efi' = efi
  PROVE  Regs' = Regs
  BY Zenon DEF Regs

LEMMA GenInvInit ==
  ASSUME Init
  PROVE  GenInv
<1>1. /\ efi \in EfiMaps /\ imap = << >>
      /\ gen = [pass |-> "count", range |-> NoRange, written |-> FALSE, success |-> TRUE]
      /\ alloc = [numRegions |-> 0, address |-> 0, pages |-> 0]
  BY DEF Init
<1>2. GenTypes
  BY <1>1, NoRangeFacts DEF GenTypes, AllocSet
<1>3. ScanInv
  BY <1>1 DEF ScanInv
<1>4. NumBelow(Regs, gen.range.start) = 0
  BY <1>1, NumBelowZero, RegsFacts, NoRangeFacts
<1>5. PassInv
  BY <1>1, <1>4 DEF PassInv
<1> QED
  BY <1>2, <1>3, <1>5 DEF GenInv

LEMMA CombinedRange ==
  ASSUME NEW r \in EntrySet, NEW q \in EntrySet, q.start = End(r)
  PROVE  /\ [r EXCEPT !.pages = @ + q.pages] \in EntrySet
         /\ [r EXCEPT !.pages = @ + q.pages].start = r.start
         /\ [r EXCEPT !.pages = @ + q.pages].usage = r.usage
         /\ KindOf([r EXCEPT !.pages = @ + q.pages]) = KindOf(r)
         /\ End([r EXCEPT !.pages = @ + q.pages]) = End(q)
<1> DEFINE s == [r EXCEPT !.pages = @ + q.pages]
<1>1. r.start \in Nat /\ r.pages \in Nat /\ q.pages \in Nat /\ PageSize \in Nat
  BY EfiMapsAssumption DEF EntrySet
<1>2. /\ s \in EntrySet /\ s.start = r.start /\ s.pages = r.pages + q.pages
      /\ s.type = r.type /\ s.usage = r.usage /\ s.flags = r.flags
  BY <1>1 DEF EntrySet
<1> HIDE DEF s
<1>3. (r.pages + q.pages) * PageSize = r.pages * PageSize + q.pages * PageSize
  BY <1>1, ProductOfSum
<1>4. r.pages * PageSize \in Nat /\ q.pages * PageSize \in Nat
  BY <1>1, ProductIsNatural
<1>5. End(s) = r.start + (r.pages + q.pages) * PageSize
  BY <1>2 DEF End
<1>6. End(q) = r.start + r.pages * PageSize + q.pages * PageSize
  BY DEF End
<1>7. End(s) = End(q)
  BY <1>1, <1>3, <1>4, <1>5, <1>6
<1> QED
  BY <1>2, <1>7 DEF s, KindOf

LEMMA GenInvOfCombine ==
  ASSUME GenInv, CombineRanges
  PROVE  GenInv'
<1> DEFINE r == gen.range
           q == NextRegion
           s == [r EXCEPT !.pages = @ + q.pages]
<1>1. /\ Iterating /\ HasNext /\ gen.written /\ q.start = End(r)
      /\ q.type = r.type /\ q.usage = r.usage /\ q.flags = r.flags
  BY Zenon DEF CombineRanges, Combines
<1>2. efi' = efi /\ alloc' = alloc /\ imap' = imap
  BY DEF CombineRanges
<1>3. GenTypes /\ efi \in EfiMaps /\ r \in EntrySet
  BY DEF GenInv, GenTypes
<1>4. gen'.range = s /\ gen'.pass = gen.pass /\ gen'.written = gen.written /\ gen'.success = gen.success
  BY <1>3 DEF CombineRanges, GenTypes
<1>5. q \in Regs /\ q \in EntrySet
  BY <1>1, <1>3, NextFacts, RegsFacts, Zenon
<1>6. s \in EntrySet /\ s.start = r.start /\ s.usage = r.usage /\ KindOf(s) = KindOf(r) /\ End(s) = End(q)
  BY <1>1, <1>3, <1>5, CombinedRange, Zenon
<1>7. IsRun(Regs, r) /\ r.usage # "INITIAL_MEMMAP"
  BY <1>1, Zenon DEF GenInv, ScanInv
<1>8. KindOf(q) = KindOf(r)
  BY <1>1 DEF KindOf
<1>9. gen' = [gen EXCEPT !.range = s]
  BY <1>3 DEF CombineRanges, GenTypes
<1> HIDE DEF s, q
<1>10. IsRun(Regs, s)
  BY <1>1, <1>3, <1>5, <1>6, <1>7, <1>8, CombineKeepsRun, RegsFacts, Zenon
<1>11. Regs' = Regs
  BY <1>2, RegsStay, Zenon
<1>12. GenTypes'
  <2>1. gen' \in [pass : {"count", "fill", "done", "failed"}, range : EntrySet,
                  written : BOOLEAN, success : BOOLEAN]
    BY <1>3, <1>6, <1>9 DEF GenTypes
  <2> QED
    BY <2>1, <1>2, <1>3, Zenon DEF GenTypes
<1>13. ScanInv'
  BY <1>1, <1>4, <1>6, <1>7, <1>10, <1>11, Zenon DEF ScanInv
<1>14. gen'.range.start = r.start
  BY <1>4, <1>6
<1>15. PassInv'
  BY <1>2, <1>4, <1>11, <1>14, Zenon DEF GenInv, PassInv
<1> QED
  BY <1>12, <1>13, <1>15, Zenon DEF GenInv

(* Before the first range nothing has been counted or written. *)
LEMMA NothingBelow ==
  ASSUME NEW R, Disjoint(R), IsFiniteSet(R), NEW q \in R, \A a \in R : a.start >= 0 => q.start <= a.start
  PROVE  NumBelow(R, q.start) = 0
<1>1. \A a \in R : a.start \in Nat
  BY Zenon DEF Disjoint, Bounded
<1>2. \A a \in R : ~(a.start < q.start)
  BY <1>1
<1>3. HeadsBelow(R, q.start) = {}
  BY <1>2, Zenon DEF HeadsBelow, Heads
<1> QED
  BY <1>3, FS_EmptySet DEF NumBelow

LEMMA ChosenStart ==
  ASSUME NEW R, NEW a, Chosen(R, a)
  PROVE  \E b \in R : b.start = a.address
<1>1. PICK q \in EntrySet : IsRun(R, q) /\ q.start = a.address
  BY Zenon DEF Chosen, IsWhole
<1>2. \E b \in R : b.start = q.start
  BY <1>1, Zenon DEF IsRun
<1> QED
  BY <1>1, <1>2

LEMMA WrittenSkips ==
  ASSUME NEW R, Disjoint(R), IsFiniteSet(R), NEW q \in R, \A a \in R : a.start >= 0 => q.start <= a.start,
         NEW m \in Seq(EntrySet), NEW a \in AllocSet, Allocated(R, a), Written(R, m, 0, a)
  PROVE  Written(R, m, q.start, a)
<1>1. \A b \in R : b.start \in Nat /\ q.start <= b.start
  BY DEF Disjoint, Bounded
<1>2. q.start \in Nat
  BY <1>1
<1>3. DOMAIN m = {}
  BY DEF Written, Describes, Bounded
<1>4. \A b \in R : \A x \in Nat : ~(Contains(b, x) /\ x < q.start)
  BY <1>1, <1>2 DEF Contains
<1>5. Describes(R, m, q.start)
  BY <1>3, <1>4, Zenon DEF Describes
<1>6. ~(a.address < q.start)
  <2>1. PICK b \in R : b.start = a.address
    BY ChosenStart, Zenon DEF Allocated
  <2>2. a.address \in Nat /\ q.start <= a.address
    BY <2>1, <1>1
  <2> QED
    BY <2>2, <1>2
<1>7. HasOwn(m, q.start, a)
  BY <1>3, <1>6, Zenon DEF HasOwn
<1>8. Len(m) = 0
  BY <1>3
<1>9. NumBelow(R, q.start) = 0
  BY NothingBelow, Zenon
<1>10. AtMost(R, m, q.start, a)
  BY <1>6, <1>8, <1>9 DEF AtMost
<1> QED
  BY <1>5, <1>7, <1>10, Zenon DEF Written

(* The next range is a run, and the range it replaces cannot grow. *)
LEMMA SubmittedIsWhole ==
  ASSUME GenInv, Iterating, HasNext, ~Combines
  PROVE  /\ IsRun(Regs, NextRegion)
         /\ gen.written => IsWhole(Regs, gen.range)
<1> DEFINE r == gen.range
           q == NextRegion
<1>1. efi \in EfiMaps /\ r \in EntrySet
  BY DEF GenInv, GenTypes
<1>2. Disjoint(Regs)
  BY <1>1, RegsFacts
<1>3. q \in Regs /\ q.start >= End(r) /\ \A a \in Regs : a.start >= End(r) => q.start <= a.start
  BY <1>1, NextFacts, Zenon
<1> HIDE DEF q
<1>4. CASE gen.written
  <2>1. IsRun(Regs, r)
    BY <1>4, Zenon DEF GenInv, ScanInv
  <2>2. ~(q.start = End(r) /\ KindOf(q) = KindOf(r))
    <3>1. ~(q.start = End(r) /\ q.type = r.type /\ q.usage = r.usage /\ q.flags = r.flags)
      BY <1>4, Zenon DEF Combines, q
    <3> QED
      BY <3>1, KindFields, Zenon
  <2>3. IsWhole(Regs, r)
    BY <2>1, <2>2, <1>2, <1>3, RunIsWhole, Zenon
  <2>4. End(r) \in Nat
    BY <2>1, Zenon DEF IsRun, Bounded
  <2>5. \A a \in Regs : a.start < End(r) => End(a) <= End(r)
    BY <2>1, <1>2, RunPassed, Zenon
  <2>6. \A a \in Regs : End(a) = End(r) /\ q.start = End(r) => KindOf(a) # KindOf(q)
    BY <2>1, <2>2, <1>2, RunLast, Zenon
  <2>7. IsRun(Regs, q)
    BY <2>4, <2>5, <2>6, <1>2, <1>3, NextIsRun, Zenon
  <2> QED
    BY <2>3, <2>7 DEF q
<1>5. CASE ~gen.written
  <2>1. End(r) = 0
    BY <1>5, NoRangeFacts, Zenon DEF GenInv, ScanInv
  <2>2. \A a \in Regs : a.start \in Nat /\ End(a) \in Nat /\ a.start < End(a)
    BY <1>2, Zenon DEF Disjoint, Bounded
  <2>3. End(r) \in Nat
    BY <2>1
  <2>4. \A a \in Regs : ~(a.start < End(r)) /\ End(a) # End(r)
    BY <2>1, <2>2
  <2>5. \A a \in Regs : a.start < End(r) => End(a) <= End(r)
    BY <2>4, Zenon
  <2>6. \A a \in Regs : End(a) = End(r) /\ q.start = End(r) => KindOf(a) # KindOf(q)
    BY <2>4, Zenon
  <2>7. IsRun(Regs, q)
    BY <2>3, <2>5, <2>6, <1>2, <1>3, NextIsRun, Zenon
  <2> QED
    BY <2>7, <1>5 DEF q
<1> QED
  BY <1>4, <1>5

(* The callback of the first pass. *)
LEMMA CountedFacts ==
  ASSUME alloc \in AllocSet, NEW R, NEW r \in EntrySet, IsWhole(R, r),
         alloc.pages = 0 \/ Chosen(R, alloc)
  PROVE  /\ Counted(r) \in AllocSet
         /\ Counted(r).numRegions = alloc.numRegions + 1
         /\ Counted(r).pages = 0 \/ Chosen(R, Counted(r))
<1>1. r.start \in Nat /\ r.pages \in Nat
  BY DEF EntrySet
<1>2. Counted(r) \in AllocSet /\ Counted(r).numRegions = alloc.numRegions + 1
  BY <1>1 DEF Counted, AllocSet
<1>3. CASE r.type = "USABLE" /\ r.usage = "MAPPED" /\ r.pages > alloc.pages
  <2>1. Counted(r).address = r.start /\ Counted(r).pages = r.pages
    BY <1>3 DEF Counted
  <2>2. Chosen(R, Counted(r))
    BY <2>1, <1>3, Zenon DEF Chosen
  <2> QED
    BY <2>2, <1>2
<1>4. CASE ~(r.type = "USABLE" /\ r.usage = "MAPPED" /\ r.pages > alloc.pages)
  <2>1. Counted(r).address = alloc.address /\ Counted(r).pages = alloc.pages
    BY <1>4 DEF Counted
  <2>2. Chosen(R, alloc) => Chosen(R, Counted(r))
    BY <2>1, Zenon DEF Chosen
  <2> QED
    BY <2>1, <2>2, <1>2
<1> QED
  BY <1>3, <1>4

LEMMA SubmitInCount ==
  ASSUME GenInv, SubmitRange, gen.pass = "count"
  PROVE  /\ alloc' \in AllocSet /\ imap' = << >> /\ Submitted.ok = TRUE
         /\ alloc'.numRegions = NumBelow(Regs, NextRegion.start)
         /\ alloc'.pages = 0 \/ Chosen(Regs, alloc')
<1> DEFINE r == gen.range
           q == NextRegion
<1>1. /\ Iterating /\ HasNext /\ ~Combines
      /\ alloc' = Submitted.alloc /\ imap' = Submitted.imap
  BY DEF SubmitRange
<1>2. /\ efi \in EfiMaps /\ r \in EntrySet /\ alloc \in AllocSet /\ imap = << >>
      /\ alloc.numRegions = NumBelow(Regs, r.start)
      /\ alloc.pages = 0 \/ Chosen(Regs, alloc)
  BY DEF GenInv, GenTypes, PassInv
<1>3. Disjoint(Regs) /\ IsFiniteSet(Regs)
  BY <1>2, RegsFacts
<1>4. q \in Regs /\ q.start >= End(r) /\ \A a \in Regs : a.start >= End(r) => q.start <= a.start
  BY <1>1, <1>2, NextFacts, Zenon
<1>5. CASE gen.written
  <2>1. Submitted = [alloc |-> Counted(r), imap |-> imap, ok |-> TRUE]
    BY <1>5 DEF Submitted
  <2>2. IsWhole(Regs, r) /\ IsRun(Regs, r)
    BY <1>1, <1>5, SubmittedIsWhole, Zenon DEF IsWhole
  <2>3. q.start \in Nat /\ \A a \in Regs : a.start \in Nat
    BY <1>3, <1>4, Zenon DEF Disjoint, Bounded
  <2>4. \A a \in Regs : a.start >= End(r) => a.start >= q.start
    BY <1>4, <2>3
  <2>5. NumBelow(Regs, q.start) = NumBelow(Regs, r.start) + 1
    BY <1>3, <1>4, <2>2, <2>3, <2>4, OneMoreRun, Zenon
  <2>6. /\ Counted(r) \in AllocSet
        /\ Counted(r).numRegions = alloc.numRegions + 1
        /\ Counted(r).pages = 0 \/ Chosen(Regs, Counted(r))
    BY <1>2, <2>2, CountedFacts, Zenon
  <2> QED
    BY <1>1, <1>2, <2>1, <2>5, <2>6
<1>6. CASE ~gen.written
  <2>1. Submitted = [alloc |-> alloc, imap |-> imap, ok |-> TRUE]
    BY <1>6 DEF Submitted
  <2>2. r.start = 0 /\ End(r) = 0
    BY <1>1, <1>6, NoRangeFacts, Zenon DEF GenInv, ScanInv
  <2>3. NumBelow(Regs, r.start) = 0
    BY <2>2, <1>3, NumBelowZero, Zenon
  <2>4. NumBelow(Regs, q.start) = 0
    BY <2>2, <1>3, <1>4, NothingBelow, Zenon
  <2> QED
    BY <1>1, <1>2, <2>1, <2>3, <2>4
<1> QED
  BY <1>5, <1>6

LEMMA SubmitInFill ==
  ASSUME GenInv, SubmitRange, gen.pass = "fill"
  PROVE  /\ alloc' = alloc /\ imap' \in Seq(EntrySet) /\ Submitted.ok = TRUE
         /\ Written(Regs, imap', NextRegion.start, alloc)
<1> DEFINE r == gen.range
           q == NextRegion
           new == Filled(r)
<1>1. /\ Iterating /\ HasNext /\ ~Combines
      /\ alloc' = Submitted.alloc /\ imap' = Submitted.imap
  BY DEF SubmitRange
<1>2. /\ efi \in EfiMaps /\ r \in EntrySet /\ alloc \in AllocSet /\ imap \in Seq(EntrySet)
      /\ Allocated(Regs, alloc) /\ Written(Regs, imap, r.start, alloc)
  BY DEF GenInv, GenTypes, PassInv
<1>3. Disjoint(Regs) /\ IsFiniteSet(Regs)
  BY <1>2, RegsFacts
<1>4. q \in Regs /\ q.start >= End(r) /\ \A a \in Regs : a.start >= End(r) => q.start <= a.start
  BY <1>1, <1>2, NextFacts, Zenon
<1>5. CASE gen.written
  <2>1. Submitted = [alloc |-> alloc, imap |-> imap \o SubSeq(new, 1, Room(imap, new)),
                     ok |-> Room(imap, new) = Len(new)]
    BY <1>5 DEF Submitted
  <2>2. IsWhole(Regs, r) /\ IsRun(Regs, r) /\ r.usage # "INITIAL_MEMMAP"
    BY <1>1, <1>5, SubmittedIsWhole, Zenon DEF IsWhole, GenInv, ScanInv
  <2>3. q.start \in Nat /\ End(r) \in Nat /\ \A a \in Regs : a.start \in Nat
    BY <1>3, <1>4, <2>2, Zenon DEF Disjoint, Bounded, IsRun
  <2>4. End(r) <= q.start /\ \A a \in Regs : a.start >= End(r) => a.start >= q.start
    BY <1>4, <2>3
  <2> HIDE DEF q
  <2>5. /\ Room(imap, new) = Len(new)
        /\ imap \o SubSeq(new, 1, Room(imap, new)) \in Seq(EntrySet)
        /\ Written(Regs, imap \o SubSeq(new, 1, Room(imap, new)), q.start, alloc)
    BY <1>2, <1>3, <2>2, <2>3, <2>4, FillStep, Zenon
  <2> HIDE DEF new
  <2>6. Submitted.alloc = alloc /\ Submitted.imap = imap \o SubSeq(new, 1, Room(imap, new))
        /\ Submitted.ok = (Room(imap, new) = Len(new))
    BY <2>1
  <2> QED
    BY <1>1, <2>5, <2>6, Zenon DEF q
<1>6. CASE ~gen.written
  <2>1. Submitted = [alloc |-> alloc, imap |-> imap, ok |-> TRUE]
    BY <1>6 DEF Submitted
  <2>2. r.start = 0 /\ End(r) = 0
    BY <1>1, <1>6, NoRangeFacts, Zenon DEF GenInv, ScanInv
  <2>3. Written(Regs, imap, q.start, alloc)
    <3>1. Written(Regs, imap, 0, alloc)
      BY <1>2, <2>2, Zenon
    <3>2. \A a \in Regs : a.start >= 0 => q.start <= a.start
      BY <1>4, <2>2, Zenon
    <3> HIDE DEF q
    <3> QED
      BY <3>1, <3>2, <1>2, <1>3, <1>4, WrittenSkips, Zenon
  <2> QED
    BY <1>1, <1>2, <2>1, <2>3
<1> QED
  BY <1>5, <1>6

LEMMA GenInvOfSubmit ==
  ASSUME GenInv, SubmitRange
  PROVE  GenInv'
<1> DEFINE q == NextRegion
<1>1. Iterating /\ HasNext /\ ~Combines /\ efi' = efi
  BY DEF SubmitRange
<1>2. gen \in [pass : {"count", "fill", "done", "failed"}, range : EntrySet,
               written : BOOLEAN, success : BOOLEAN]
  BY DEF GenInv, GenTypes
<1>3. efi \in EfiMaps /\ gen.success = TRUE
  BY <1>2 DEF GenInv, GenTypes, PassInv
<1>4. q \in Regs /\ q \in EntrySet /\ q.usage # "INITIAL_MEMMAP"
  BY <1>1, <1>3, NextFacts, RegsFacts, Zenon
<1>5. IsRun(Regs, q)
  BY <1>1, SubmittedIsWhole, Zenon
<1>6. gen.pass \in {"count", "fill"}
  BY <1>1 DEF Iterating
<1>7. Submitted.ok = TRUE
  BY <1>6, SubmitInCount, SubmitInFill, Zenon
<1>8. gen' = [gen EXCEPT !.range = q, !.written = TRUE, !.success = TRUE]
  BY <1>2, <1>3, <1>7 DEF SubmitRange
<1> HIDE DEF q
<1>9. gen'.range = q /\ gen'.pass = gen.pass /\ gen'.written = TRUE /\ gen'.success = TRUE
  BY <1>2, <1>8
<1>10. gen' \in [pass : {"count", "fill", "done", "failed"}, range : EntrySet,
                 written : BOOLEAN, success : BOOLEAN]
  BY <1>2, <1>4, <1>8
<1>11. Regs' = Regs
  BY <1>1, RegsStay, Zenon
<1>12. ScanInv'
  BY <1>4, <1>5, <1>9, <1>11, Zenon DEF ScanInv
<1>13. CASE gen.pass = "count"
  <2>1. /\ alloc' \in AllocSet /\ imap' = << >>
        /\ alloc'.numRegions = NumBelow(Regs, q.start)
        /\ alloc'.pages = 0 \/ Chosen(Regs, alloc')
    BY <1>13, SubmitInCount, Zenon DEF q
  <2>2. imap' \in Seq(EntrySet)
    BY <2>1
  <2>3. GenTypes'
    BY <1>1, <1>3, <1>10, <2>1, <2>2, Zenon DEF GenTypes
  <2>4. PassInv'
    BY <1>9, <1>11, <1>13, <2>1 DEF PassInv
  <2> QED
    BY <1>12, <2>3, <2>4, Zenon DEF GenInv
<1>14. CASE gen.pass = "fill"
  <2>1. alloc' = alloc /\ imap' \in Seq(EntrySet) /\ Written(Regs, imap', q.start, alloc)
    BY <1>14, SubmitInFill, Zenon DEF q
  <2>2. alloc \in AllocSet /\ Allocated(Regs, alloc)
    BY <1>14 DEF GenInv, GenTypes, PassInv
  <2>3. GenTypes'
    BY <1>1, <1>3, <1>10, <2>1, <2>2, Zenon DEF GenTypes
  <2>4. PassInv'
    BY <1>9, <1>11, <1>14, <2>1, <2>2 DEF PassInv
  <2> QED
    BY <1>12, <2>3, <2>4, Zenon DEF GenInv
<1> QED
  BY <1>6, <1>13, <1>14, Zenon

(* The end of a pass. *)
LEMMA LastRange ==
  ASSUME GenInv, Iterating, ~HasNext, gen.written
  PROVE  /\ IsWhole(Regs, gen.range) /\ IsRun(Regs, gen.range)
         /\ End(gen.range) \in Nat
         /\ \A a \in Regs : a.start < End(gen.range) /\ End(a) <= End(gen.range)
<1>1. efi \in EfiMaps
  BY DEF GenInv, GenTypes
<1>2. Disjoint(Regs)
  BY <1>1, RegsFacts
<1>3. IsRun(Regs, gen.range)
  BY Zenon DEF GenInv, ScanInv
<1>4. \A a \in Regs : ~(a.start >= End(gen.range))
  BY <1>1, NoNext, Zenon
<1>5. IsWhole(Regs, gen.range)
  BY <1>2, <1>3, <1>4, LastRunIsWhole, Zenon
<1>6. End(gen.range) \in Nat /\ \A a \in Regs : a.start \in Nat
  BY <1>2, <1>3, Zenon DEF IsRun, Bounded, Disjoint
<1>7. \A a \in Regs : a.start < End(gen.range)
  BY <1>4, <1>6
<1>8. \A a \in Regs : End(a) <= End(gen.range)
  BY <1>2, <1>3, <1>7, RunPassed, Zenon
<1> QED
  BY <1>3, <1>5, <1>6, <1>7, <1>8, Zenon

LEMMA NoRanges ==
  ASSUME GenInv, Iterating, ~HasNext, ~gen.written
  PROVE  Regs = {}
<1>1. efi \in EfiMaps
  BY DEF GenInv, GenTypes
<1>2. Disjoint(Regs)
  BY <1>1, RegsFacts
<1>3. End(gen.range) = 0
  BY NoRangeFacts, Zenon DEF GenInv, ScanInv
<1>4. \A a \in Regs : ~(a.start >= 0)
  BY <1>1, <1>3, NoNext, Zenon
<1>5. \A a \in Regs : a.start \in Nat
  BY <1>2, Zenon DEF Disjoint, Bounded
<1> QED
  BY <1>4, <1>5

(* All runs have been counted. *)
LEMMA AllCounted ==
  ASSUME GenInv, AllocInitMemMapMemory
  PROVE  /\ alloc' \in AllocSet
         /\ alloc'.numRegions = Cardinality(Heads(Regs))
         /\ alloc'.pages = 0 \/ Chosen(Regs, alloc')
<1> DEFINE r == gen.range
<1>1. gen.pass = "count" /\ Iterating /\ ~HasNext /\ alloc' = Submitted.alloc
  BY DEF AllocInitMemMapMemory, Iterating
<1>2. /\ efi \in EfiMaps /\ r \in EntrySet /\ alloc \in AllocSet
      /\ alloc.numRegions = NumBelow(Regs, r.start)
      /\ alloc.pages = 0 \/ Chosen(Regs, alloc)
  BY <1>1 DEF GenInv, GenTypes, PassInv
<1>3. Disjoint(Regs) /\ IsFiniteSet(Regs)
  BY <1>2, RegsFacts
<1>4. CASE gen.written
  <2>1. Submitted = [alloc |-> Counted(r), imap |-> imap, ok |-> TRUE]
    BY <1>1, <1>4 DEF Submitted
  <2>2. /\ IsWhole(Regs, r) /\ IsRun(Regs, r) /\ End(r) \in Nat
        /\ \A a \in Regs : a.start < End(r)
    BY <1>1, <1>4, LastRange, Zenon
  <2>3. End(r) >= End(r) /\ \A a \in Regs : a.start >= End(r) => a.start >= End(r)
    BY <2>2
  <2>4. NumBelow(Regs, End(r)) = NumBelow(Regs, r.start) + 1
    BY <1>3, <2>2, <2>3, OneMoreRun, Zenon
  <2>5. NumBelow(Regs, End(r)) = Cardinality(Heads(Regs))
    BY <2>2, NumBelowAll, Zenon
  <2>6. /\ Counted(r) \in AllocSet
        /\ Counted(r).numRegions = alloc.numRegions + 1
        /\ Counted(r).pages = 0 \/ Chosen(Regs, Counted(r))
    BY <1>2, <2>2, CountedFacts, Zenon
  <2> QED
    BY <1>1, <1>2, <2>1, <2>4, <2>5, <2>6
<1>5. CASE ~gen.written
  <2>1. Submitted = [alloc |-> alloc, imap |-> imap, ok |-> TRUE]
    BY <1>5 DEF Submitted
  <2>2. Regs = {}
    BY <1>1, <1>5, NoRanges, Zenon
  <2>3. NumBelow(Regs, r.start) = Cardinality(Heads(Regs))
    BY <2>2, NumBelowAll, Zenon
  <2> QED
    BY <1>1, <1>2, <2>1, <2>3
<1> QED
  BY <1>4, <1>5

LEMMA EmptyIsWritten ==
  ASSUME NEW R, Disjoint(R), NEW a \in AllocSet
  PROVE  Written(R, << >>, 0, a)
<1>1. DOMAIN << >> = {} /\ Len(<< >>) = 0
  OBVIOUS
<1>2. \A b \in R : \A x \in Nat : ~(Contains(b, x) /\ x < 0)
  OBVIOUS
<1>3. Describes(R, << >>, 0)
  BY <1>1, <1>2, Zenon DEF Describes
<1>4. ~(a.address < 0)
  BY DEF AllocSet
<1>5. HasOwn(<< >>, 0, a)
  BY <1>1, <1>4, Zenon DEF HasOwn
<1>6. AtMost(R, << >>, 0, a)
  BY <1>1, <1>4, NumBelowZero DEF AtMost
<1> QED
  BY <1>3, <1>5, <1>6, Zenon DEF Written

LEMMA GenInvOfAlloc ==
  ASSUME GenInv, AllocInitMemMapMemory
  PROVE  GenInv'
<1>1. /\ efi' = efi /\ imap' = imap
      /\ gen' = [pass |-> IF alloc'.pages >= RequiredPages(alloc') THEN "fill" ELSE "failed",
                 range |-> NoRange, written |-> FALSE, success |-> TRUE]
  BY DEF AllocInitMemMapMemory
<1>2. efi \in EfiMaps /\ imap = << >>
  BY DEF GenInv, GenTypes, PassInv, AllocInitMemMapMemory
<1>3. Disjoint(Regs)
  BY <1>2, RegsFacts
<1>4. /\ alloc' \in AllocSet
      /\ alloc'.numRegions = Cardinality(Heads(Regs))
      /\ alloc'.pages = 0 \/ Chosen(Regs, alloc')
  BY AllCounted, Zenon
<1>5. Regs' = Regs
  BY <1>1, RegsStay, Zenon
<1>6. gen'.range = NoRange /\ gen'.written = FALSE /\ gen'.success = TRUE /\ gen'.pass \in {"fill", "failed"}
  BY <1>1
<1>7. gen' \in [pass : {"count", "fill", "done", "failed"}, range : EntrySet,
                written : BOOLEAN, success : BOOLEAN]
  BY <1>1, NoRangeFacts
<1>8. imap' \in Seq(EntrySet) /\ imap' = << >>
  BY <1>1, <1>2
<1>9. GenTypes'
  BY <1>1, <1>2, <1>4, <1>7, <1>8, Zenon DEF GenTypes
<1>10. ScanInv'
  BY <1>6, Zenon DEF ScanInv
<1>11. CASE gen'.pass = "failed"
  <2>1. PassInv'
    BY <1>6, <1>8, <1>11 DEF PassInv
  <2> QED
    BY <2>1, <1>9, <1>10, Zenon DEF GenInv
<1>12. CASE gen'.pass = "fill"
  <2>1. alloc'.pages >= RequiredPages(alloc')
    BY <1>1, <1>12
  <2>2. RequiredPages(alloc') \in Nat \ {0}
    BY <1>4, RequiredFacts
  <2>3. alloc'.pages # 0
    BY <2>1, <2>2
  <2>4. Allocated(Regs, alloc')
    BY <2>1, <2>3, <1>4, Zenon DEF Allocated
  <2>5. Written(Regs, << >>, 0, alloc')
    BY <1>3, <1>4, EmptyIsWritten, Zenon
  <2>6. gen'.range.start = 0
    BY <1>6, NoRangeFacts
  <2>7. PassInv'
    BY <1>5, <1>6, <1>8, <1>12, <2>4, <2>5, <2>6 DEF PassInv
  <2> QED
    BY <2>7, <1>9, <1>10, Zenon DEF GenInv
<1> QED
  BY <1>6, <1>11, <1>12

LEMMA GenInvOfFinish ==
  ASSUME GenInv, FinishInitMemMap
  PROVE  GenInv'
<1> DEFINE r == gen.range
           new == Filled(r)
<1>1. /\ gen.pass = "fill" /\ Iterating /\ ~HasNext
      /\ efi' = efi /\ alloc' = alloc /\ imap' = Submitted.imap
  BY DEF FinishInitMemMap, Iterating
<1>2. /\ efi \in EfiMaps /\ r \in EntrySet /\ alloc \in AllocSet /\ imap \in Seq(EntrySet)
      /\ gen.success = TRUE
      /\ gen \in [pass : {"count", "fill", "done", "failed"}, range : EntrySet,
                  written : BOOLEAN, success : BOOLEAN]
  BY DEF GenInv, GenTypes, PassInv
<1>3. Allocated(Regs, alloc) /\ Written(Regs, imap, r.start, alloc)
  BY <1>1 DEF GenInv, PassInv
<1>4. Disjoint(Regs) /\ IsFiniteSet(Regs)
  BY <1>2, RegsFacts
<1>5. PICK b \in Regs : b.start = alloc.address
  BY <1>3, ChosenStart, Zenon DEF Allocated
<1>6. gen.written
  BY <1>1, <1>5, NoRanges
<1>7. /\ IsWhole(Regs, r) /\ End(r) \in Nat
      /\ \A a \in Regs : a.start < End(r) /\ End(a) <= End(r)
  BY <1>1, <1>6, LastRange, Zenon
<1>8. End(r) <= End(r) /\ \A a \in Regs : a.start >= End(r) => a.start >= End(r)
  BY <1>7
<1>9. r.usage # "INITIAL_MEMMAP"
  BY <1>1, <1>6, Zenon DEF GenInv, ScanInv
<1>10. /\ Room(imap, new) = Len(new)
       /\ imap \o SubSeq(new, 1, Room(imap, new)) \in Seq(EntrySet)
       /\ Written(Regs, imap \o SubSeq(new, 1, Room(imap, new)), End(r), alloc)
  BY <1>2, <1>3, <1>4, <1>7, <1>8, <1>9, FillStep, Zenon
<1>11. Submitted = [alloc |-> alloc, imap |-> imap \o SubSeq(new, 1, Room(imap, new)),
                    ok |-> Room(imap, new) = Len(new)]
  BY <1>1, <1>6 DEF Submitted
<1> HIDE DEF new
<1>12. Submitted.imap = imap \o SubSeq(new, 1, Room(imap, new)) /\ Submitted.ok = TRUE
  BY <1>10, <1>11
<1>13. imap' \in Seq(EntrySet) /\ Written(Regs, imap', End(r), alloc)
  BY <1>1, <1>10, <1>12, Zenon
<1>14. gen' = [gen EXCEPT !.success = TRUE, !.pass = "done"]
  BY <1>2, <1>12 DEF FinishInitMemMap
<1>15. /\ gen' \in [pass : {"count", "fill", "done", "failed"}, range : EntrySet,
                    written : BOOLEAN, success : BOOLEAN]
       /\ gen'.pass = "done" /\ gen'.success = TRUE
  BY <1>2, <1>14
<1>16. Regs' = Regs
  BY <1>1, RegsStay, Zenon
<1>17. GenTypes'
  BY <1>1, <1>2, <1>13, <1>15, Zenon DEF GenTypes
<1>18. ScanInv'
  BY <1>15 DEF ScanInv, Iterating
<1>19. alloc.address < End(r)
  BY <1>5, <1>7
<1>20. \E y \in Nat : /\ \A a \in Regs : End(a) <= y
                      /\ alloc.address < y
                      /\ Written(Regs, imap', y, alloc)
  BY <1>7, <1>13, <1>19, Zenon
<1>21. PassInv'
  BY <1>1, <1>3, <1>15, <1>16, <1>20 DEF PassInv
<1> QED
  BY <1>17, <1>18, <1>21, Zenon DEF GenInv

LEMMA GenInvStep ==
  ASSUME GenInv, [Next]_vars
  PROVE  GenInv'
<1>1. CASE UNCHANGED vars
  <2>1. efi' = efi /\ gen' = gen /\ alloc' = alloc /\ imap' = imap
    BY <1>1 DEF vars
  <2>2. Regs' = Regs
    BY <2>1, RegsStay, Zenon
  <2>3. GenTypes' /\ ScanInv' /\ PassInv'
    BY <2>1, <2>2 DEF GenInv, GenTypes, ScanInv, PassInv, Iterating
  <2> QED
    BY <2>3, Zenon DEF GenInv
<1> QED
  BY <1>1, GenInvOfCombine, GenInvOfSubmit, GenInvOfAlloc, GenInvOfFinish, Zenon DEF Next

-----------------------------------------------------------------------------
(* What the invariant says of the map. *)

(* The address of a page of a region. *)
LEMMA PageIsInside ==
  ASSUME NEW s \in Nat, NEW n \in Nat, NEW p \in 0..(n - 1)
  PROVE  /\ s + p * PageSize \in Nat /\ s <= s + p * PageSize
         /\ s + p * PageSize + PageSize <= s + n * PageSize
         /\ s + p * PageSize < s + n * PageSize
<1>1. PageSize \in Nat \ {0} /\ p \in Nat /\ p < n
  BY EfiMapsAssumption
<1>2. p * PageSize + PageSize <= n * PageSize
  BY <1>1, ProductIsStrict
<1>3. p * PageSize \in Nat /\ n * PageSize \in Nat
  BY <1>1, ProductIsNatural
<1> QED
  BY <1>1, <1>2, <1>3

LEMMA BoundedHasPages ==
  ASSUME NEW e \in EntrySet, Bounded(e)
  PROVE  e.pages > 0
<1>1. e.pages \in Nat /\ PageSize \in Nat
  BY EfiMapsAssumption DEF EntrySet
<1>2. e.pages = 0 => e.pages * PageSize = 0
  BY <1>1
<1> QED
  BY <1>1, <1>2 DEF Bounded, End

Sorted(m) ==
  /\ \A i \in DOMAIN m : m[i] \in EntrySet /\ Bounded(m[i])
  /\ \A i, j \in DOMAIN m : i < j => End(m[i]) <= m[j].start

LEMMA MapIsAlwaysSorted ==
  ASSUME GenInv
  PROVE  Sorted(imap) /\ MapIsSorted
<1>1. imap \in Seq(EntrySet) /\ gen.pass \in {"count", "fill", "done", "failed"}
  BY DEF GenInv, GenTypes
<1>2. \A i \in DOMAIN imap : imap[i] \in EntrySet
  BY <1>1
<1>3. CASE gen.pass \in {"count", "failed"}
  <2>1. DOMAIN imap = {}
    BY <1>3 DEF GenInv, PassInv
  <2> QED
    BY <2>1, Zenon DEF Sorted, MapIsSorted
<1>4. CASE gen.pass \in {"fill", "done"}
  <2>1. \E y : Describes(Regs, imap, y)
    BY <1>4, Zenon DEF GenInv, PassInv, Written
  <2>2. Sorted(imap)
    BY <2>1, <1>2, Zenon DEF Describes, Sorted
  <2> QED
    BY <2>2, BoundedHasPages, Zenon DEF Sorted, MapIsSorted
<1> QED
  BY <1>1, <1>3, <1>4

LEMMA MapDescribes ==
  ASSUME GenInv
  PROVE  MapDescribesMemory
<1>1. MapIsSorted /\ Sorted(imap)
  BY MapIsAlwaysSorted
<1> SUFFICES ASSUME gen.pass = "done"
    PROVE
      /\ \A d \in efi : \A p \in 0..(d.pages - 1) :
           \E i \in DOMAIN imap :
             /\ imap[i].start <= d.start + p * PageSize
             /\ d.start + p * PageSize < End(imap[i])
             /\ imap[i].type = ToDexprOSMemType(d.type)
             /\ imap[i].flags = d.flags
             /\ \/ imap[i].usage = ToDexprOSInitialMemMapUsage(d.type)
                \/ imap[i].usage = "INITIAL_MEMMAP" /\ d.type = "Conventional"
      /\ \A i \in DOMAIN imap : \A p \in 0..(imap[i].pages - 1) :
           \E d \in efi : d.start <= imap[i].start + p * PageSize
                          /\ imap[i].start + p * PageSize < End(d)
  BY <1>1, Zenon DEF MapDescribesMemory
<1>2. efi \in EfiMaps
  BY DEF GenInv, GenTypes
<1>3. PICK y \in Nat : (\A a \in Regs : End(a) <= y) /\ Describes(Regs, imap, y)
  BY Zenon DEF GenInv, PassInv, Written
<1>4. ASSUME NEW d \in efi, NEW p \in 0..(d.pages - 1)
      PROVE  \E i \in DOMAIN imap :
               /\ imap[i].start <= d.start + p * PageSize
               /\ d.start + p * PageSize < End(imap[i])
               /\ imap[i].type = ToDexprOSMemType(d.type)
               /\ imap[i].flags = d.flags
               /\ \/ imap[i].usage = ToDexprOSInitialMemMapUsage(d.type)
                  \/ imap[i].usage = "INITIAL_MEMMAP" /\ d.type = "Conventional"
  <2> DEFINE x == d.start + p * PageSize
             a == Region(d)
  <2>1. d.start \in Nat /\ d.pages \in Nat /\ d.type \in EfiTypes
    BY <1>2, EfiMapsAssumption, Zenon
  <2>2. x \in Nat /\ d.start <= x /\ x < End(d)
    BY <2>1, PageIsInside DEF End
  <2>3. /\ a \in Regs /\ a.start = d.start /\ End(a) = End(d) /\ End(a) \in Nat
        /\ a.type = ToDexprOSMemType(d.type) /\ a.flags = d.flags
        /\ a.usage = ToDexprOSInitialMemMapUsage(d.type)
    BY <1>2, RegionFacts DEF Regs, Region, Bounded
  <2> HIDE DEF x, a
  <2>4. Contains(a, x) /\ x < y
    BY <2>2, <2>3, <1>3 DEF Contains
  <2>5. PICK i \in DOMAIN imap : Contains(imap[i], x) /\ SameMemory(a, imap[i])
    BY <2>2, <2>3, <2>4, <1>3, Zenon DEF Describes
  <2>6. a.usage = "MAPPED" /\ a.type = "USABLE" => d.type = "Conventional"
    BY <2>1, <2>3 DEF ToDexprOSMemType, ToDexprOSInitialMemMapUsage, EfiTypes
  <2> QED
    BY <2>3, <2>5, <2>6, Zenon DEF x, Contains, SameMemory
<1>5. ASSUME NEW i \in DOMAIN imap, NEW p \in 0..(imap[i].pages - 1)
      PROVE  \E d \in efi : d.start <= imap[i].start + p * PageSize
                            /\ imap[i].start + p * PageSize < End(d)
  <2> DEFINE x == imap[i].start + p * PageSize
  <2>1. imap[i].start \in Nat /\ imap[i].pages \in Nat
    BY <1>1 DEF Sorted, EntrySet
  <2>2. x \in Nat /\ Contains(imap[i], x)
    BY <2>1, PageIsInside DEF End, Contains
  <2>3. FromRegions(Regs, imap[i])
    BY <1>3, Zenon DEF Describes
  <2> HIDE DEF x
  <2>4. PICK a \in Regs : Contains(a, x)
    BY <2>2, <2>3, Zenon DEF FromRegions
  <2>5. PICK d \in efi : a = Region(d)
    BY DEF Regs
  <2>6. d.start <= x /\ x < End(d)
    BY <2>4, <2>5, <1>2, RegionFacts, Zenon DEF Contains
  <2> QED
    BY <2>6 DEF x
<1> QED
  BY <1>4, <1>5, Zenon

(* The map's own entry, and its size. *)
LEMMA MapIsShortEnough ==
  ASSUME GenInv
  PROVE  /\ Len(imap) \in Nat
         /\ Len(imap) * MapEntrySize \in Nat
         /\ Len(imap) * MapEntrySize <= RequiredPages(alloc) * PageSize
<1>1. /\ imap \in Seq(EntrySet) /\ alloc \in AllocSet /\ efi \in EfiMaps
      /\ gen.pass \in {"count", "fill", "done", "failed"}
  BY DEF GenInv, GenTypes
<1>2. PageSize \in Nat \ {0} /\ MapEntrySize \in Nat \ {0}
  BY EfiMapsAssumption
<1>3. Len(imap) \in Nat /\ alloc.numRegions \in Nat
  BY <1>1 DEF AllocSet
<1>4. Len(imap) <= alloc.numRegions + 1
  <2>1. CASE gen.pass \in {"count", "failed"}
    <3>1. Len(imap) = 0
      BY <2>1 DEF GenInv, PassInv
    <3> QED
      BY <3>1, <1>3
  <2>2. CASE gen.pass \in {"fill", "done"}
    <3>1. PICK y : Written(Regs, imap, y, alloc)
      BY <2>2, Zenon DEF GenInv, PassInv
    <3>2. Len(imap) <= NumBelow(Regs, y) + IF alloc.address < y THEN 1 ELSE 0
      BY <3>1, Zenon DEF Written, AtMost
    <3>3. IsFiniteSet(Regs)
      BY <1>1, RegsFacts
    <3>4. NumBelow(Regs, y) \in Nat /\ NumBelow(Regs, y) <= Cardinality(Heads(Regs))
      BY <3>3, NumBelowType, Zenon
    <3>5. alloc.numRegions = Cardinality(Heads(Regs))
      BY <2>2 DEF GenInv, PassInv, Allocated
    <3> QED
      BY <3>2, <3>4, <3>5, <1>3
  <2> QED
    BY <1>1, <2>1, <2>2
<1>5. alloc.numRegions + 1 \in Nat
  BY <1>3
<1>6. Len(imap) * MapEntrySize <= RequiredSize(alloc)
  BY <1>2, <1>3, <1>4, <1>5, ProductIsMonotone DEF RequiredSize
<1>7. /\ RequiredSize(alloc) \in Nat /\ RequiredPages(alloc) \in Nat
      /\ RequiredSize(alloc) <= RequiredPages(alloc) * PageSize
  BY <1>1, RequiredFacts
<1>8. Len(imap) * MapEntrySize \in Nat /\ RequiredPages(alloc) * PageSize \in Nat
  BY <1>2, <1>3, <1>7, ProductIsNatural
<1> QED
  BY <1>3, <1>6, <1>7, <1>8

OwnAt(i) ==
  /\ imap[i].usage = "INITIAL_MEMMAP" /\ imap[i].type = "USABLE"
  /\ imap[i].start = alloc.address
  /\ imap[i].pages = RequiredPages(alloc)

LEMMA OwnEntry ==
  ASSUME GenInv, gen.pass = "done"
  PROVE  \E i \in DOMAIN imap :
           /\ OwnAt(i)
           /\ \A j \in DOMAIN imap : imap[j].usage = "INITIAL_MEMMAP" => j = i
<1>1. Sorted(imap) /\ imap \in Seq(EntrySet)
  BY MapIsAlwaysSorted DEF GenInv, GenTypes
<1>2. PICK y \in Nat : HasOwn(imap, y, alloc) /\ alloc.address < y
  BY Zenon DEF GenInv, PassInv, Written
<1>3. PICK i \in DOMAIN imap : imap[i].usage = "INITIAL_MEMMAP"
  BY <1>2, Zenon DEF HasOwn
<1>4. OwnAt(i)
  BY <1>2, <1>3, Zenon DEF HasOwn, OwnAt
<1>5. ASSUME NEW j \in DOMAIN imap, imap[j].usage = "INITIAL_MEMMAP"
      PROVE  j = i
  <2>1. imap[j].start = imap[i].start
    BY <1>2, <1>3, <1>5, Zenon DEF HasOwn
  <2>2. /\ i < j => End(imap[i]) <= imap[j].start
        /\ j < i => End(imap[j]) <= imap[i].start
    BY <1>1, Zenon DEF Sorted
  <2>3. /\ imap[i].start \in Nat /\ End(imap[i]) \in Nat /\ imap[i].start < End(imap[i])
        /\ imap[j].start \in Nat /\ End(imap[j]) \in Nat /\ imap[j].start < End(imap[j])
    BY <1>1, Zenon DEF Sorted, Bounded
  <2>4. i \in Nat /\ j \in Nat
    BY <1>1
  <2> QED
    BY <2>1, <2>2, <2>3, <2>4
<1> QED
  BY <1>4, <1>5, Zenon

LEMMA MapFits ==
  ASSUME GenInv
  PROVE  MapFitsItsRegion
<1>1. gen.success
  BY DEF GenInv, PassInv
<1>2. Len(imap) * MapEntrySize <= RequiredPages(alloc) * PageSize
  BY MapIsShortEnough
<1>3. ASSUME gen.pass = "done"
      PROVE  \E i \in DOMAIN imap :
               /\ imap[i].usage = "INITIAL_MEMMAP" /\ imap[i].type = "USABLE"
               /\ imap[i].start = alloc.address
               /\ imap[i].pages * PageSize >= Len(imap) * MapEntrySize
               /\ \A j \in DOMAIN imap : imap[j].usage = "INITIAL_MEMMAP" => j = i
  <2>1. PICK i \in DOMAIN imap :
          /\ OwnAt(i)
          /\ \A j \in DOMAIN imap : imap[j].usage = "INITIAL_MEMMAP" => j = i
    BY <1>3, OwnEntry, Zenon
  <2>2. alloc \in AllocSet
    BY DEF GenInv, GenTypes
  <2>3. RequiredPages(alloc) * PageSize \in Nat
    BY <2>2, RequiredFacts, ProductIsNatural, EfiMapsAssumption
  <2>4. RequiredPages(alloc) * PageSize >= Len(imap) * MapEntrySize
    BY <2>3, MapIsShortEnough
  <2>5. imap[i].pages * PageSize >= Len(imap) * MapEntrySize
    BY <2>1, <2>4 DEF OwnAt
  <2> QED
    BY <2>1, <2>5, Zenon DEF OwnAt
<1> QED
  BY <1>1, <1>2, <1>3, Zenon DEF MapFitsItsRegion

-----------------------------------------------------------------------------
(* The structures are made when the map is done and leave it alone.        *)

LEMMA StructsKeepMap ==
  ASSUME M!Next
  PROVE  imap' = imap
  BY DEF M!Next, M!SkipRange, M!CalcTreeEntryElements, M!CountMemoryRanges, M!EndPass,
         M!PlaceStructs, M!NoRoomForStructs, M!CreateEntry, M!CreateTreeLevels,
         M!FillTreeLevelStructs, M!CreateTreeLevelBlocks, M!SetAllTreePagesAvailable,
         M!MarkMapEntry, M!MarkStructs, M!FillAccelBlocks, M!EndAccelBlocks,
         M!FillMemMapEntry, M!FinishMemMap

LEMMA GenInvBootStep ==
  ASSUME GenInv, [BootNext]_<<vars, structs>>
  PROVE  GenInv'
<1>1. CASE MakeInitialMap
  BY <1>1, GenInvStep DEF MakeInitialMap
<1>2. CASE MakeStructs
  <2>1. UNCHANGED vars
    BY <1>2, StructsKeepMap DEF MakeStructs, vars
  <2> QED
    BY <2>1, GenInvStep
<1>3. CASE UNCHANGED <<vars, structs>>
  BY <1>3, GenInvStep
<1> QED
  BY <1>1, <1>2, <1>3 DEF BootNext

(* The initial map is sorted while entries are inserted into it and split  *)
(* in it, and when it is done (DexprOS_GenInitialMemMap) it has every page *)
(* the firmware described and no other, each with the type, the flags and  *)
(* the usage of its descriptor; only the pages the map itself took have    *)
(* changed their usage.                                                    *)
THEOREM MapIsRight == BootSpec => []MapDescribesMemory
<1>1. BootInit => GenInv
  BY GenInvInit DEF BootInit
<1>2. GenInv /\ [BootNext]_<<vars, structs>> => GenInv'
  BY GenInvBootStep
<1>3. GenInv => MapDescribesMemory
  BY MapDescribes
<1> QED
  BY <1>1, <1>2, <1>3, PTL DEF BootSpec

-----------------------------------------------------------------------------
(* The ranges that the iteration over the initial map makes of its         *)
(* entries.                                                                *)

LEMMA TopIsEnd ==
  ASSUME NEW r
  PROVE  M!Top(r) = End(r)
  BY DEF M!Top, End

Carries(m, i) == m[i + 1].type = m[i].type /\ m[i + 1].flags = m[i].flags /\ m[i + 1].start = End(m[i])

LastIn(m, i) ==
  CHOOSE j \in i..Len(m) :
    /\ \A k \in i..(j - 1) : Carries(m, k)
    /\ j = Len(m) \/ ~Carries(m, j)

LEMMA LastOfIsLast ==
  ASSUME NEW i
  PROVE  M!CarriesOn(i) = Carries(imap, i) /\ M!LastOf(i) = LastIn(imap, i)
<1>1. \A k : M!CarriesOn(k) = Carries(imap, k)
  BY DEF M!CarriesOn, Carries, M!Top, End
<1> QED
  BY <1>1 DEF M!LastOf, LastIn, M!CarriesOn, Carries, M!Top, End

LEMMA LastOfFacts ==
  ASSUME NEW m, Len(m) \in Nat, NEW i \in 1..Len(m)
  PROVE  /\ LastIn(m, i) \in i..Len(m)
         /\ \A k \in i..(LastIn(m, i) - 1) : Carries(m, k)
         /\ LastIn(m, i) = Len(m) \/ ~Carries(m, LastIn(m, i))
<1> DEFINE S == {j \in i..Len(m) : j = Len(m) \/ ~Carries(m, j)}
           IsLast(j) == /\ \A k \in i..(j - 1) : Carries(m, k)
                        /\ j = Len(m) \/ ~Carries(m, j)
<1>1. S \in SUBSET Nat /\ Len(m) \in S
  OBVIOUS
<1>2. PICK j \in S : \A k \in S : j <= k
  BY <1>1, LeastNatural, Zenon
<1>3. ASSUME NEW k \in i..(j - 1)
      PROVE  Carries(m, k)
  <2>1. k \notin S
    BY <1>2, <1>3
  <2>2. k \in i..Len(m)
    BY <1>2, <1>3
  <2> QED
    BY <2>1, <2>2, Zenon
<1>4. j \in i..Len(m) /\ IsLast(j)
  BY <1>2, <1>3
<1>5. LastIn(m, i) = CHOOSE x \in i..Len(m) : IsLast(x)
  BY DEF LastIn
<1> HIDE DEF IsLast
<1>6. LastIn(m, i) \in i..Len(m) /\ IsLast(LastIn(m, i))
  BY <1>4, <1>5, Zenon
<1> QED
  BY <1>6, Zenon DEF IsLast

(* The levels of a range, as the loops over them compute them.             *)
FirstMin(m, l) == IF l.n = 0 THEN m[l.pos].start ELSE l.min
FirstMax(m, l) == IF l.n = 0 THEN End(m[LastIn(m, l.pos)]) ELSE l.max
MinOf(m, l) == (FirstMin(m, l) \div l.bs) * l.bs
MaxOf(m, l) == ((FirstMax(m, l) + l.bs - 1) \div l.bs) * l.bs
NumOf(m, l) == (MaxOf(m, l) - MinOf(m, l)) \div l.bs

LEMMA LevelOfLoop ==
  M!Min = MinOf(imap, loop) /\ M!Max = MaxOf(imap, loop) /\ M!NumBlocks = NumOf(imap, loop)
<1>1. M!Min = MinOf(imap, loop)
  BY DEF M!Min, MinOf, FirstMin, M!RangeStart, M!First
<1>2. M!Max = MaxOf(imap, loop)
  BY TopIsEnd, LastOfIsLast DEF M!Max, MaxOf, FirstMax, M!RangeEnd
<1> QED
  BY <1>1, <1>2 DEF M!NumBlocks, NumOf

Steps == {"entry", "levels", "fill", "blocks"}
Loops == [pos : Nat \ {0}, step : Steps, n : Nat, bs : Nat \ {0}, min : Int, max : Int]

LEMMA RoundedType ==
  ASSUME NEW x \in Int, NEW b \in Nat \ {0}
  PROVE  (x \div b) * b \in Int /\ ((x + b - 1) \div b) * b \in Int /\ x \div b \in Int
<1>1. x \div b \in Int /\ x + b - 1 \in Int /\ b \in Int
  OBVIOUS
<1>2. (x + b - 1) \div b \in Int
  BY <1>1
<1>3. \A q \in Int : q * b \in Int
  OBVIOUS
<1> QED
  BY <1>1, <1>2, <1>3

LEMMA LevelTypes ==
  ASSUME NEW m, Sorted(m), Len(m) \in Nat, DOMAIN m = 1..Len(m),
         NEW l, l.pos \in 1..Len(m), l.n \in Nat, l.bs \in Nat \ {0}, l.min \in Int, l.max \in Int
  PROVE  /\ FirstMin(m, l) \in Int /\ FirstMax(m, l) \in Int
         /\ MinOf(m, l) \in Int /\ MaxOf(m, l) \in Int /\ NumOf(m, l) \in Int
<1>1. LastIn(m, l.pos) \in 1..Len(m)
  BY LastOfFacts
<1>2. m[l.pos].start \in Int /\ End(m[LastIn(m, l.pos)]) \in Int
  BY <1>1 DEF Sorted, Bounded
<1>3. FirstMin(m, l) \in Int /\ FirstMax(m, l) \in Int
  BY <1>2 DEF FirstMin, FirstMax
<1>4. MinOf(m, l) \in Int /\ MaxOf(m, l) \in Int
  BY <1>3, RoundedType DEF MinOf, MaxOf
<1>5. NumOf(m, l) \in Int
  <2>1. MaxOf(m, l) - MinOf(m, l) \in Int
    BY <1>4
  <2> QED
    BY <2>1, RoundedType DEF NumOf
<1> QED
  BY <1>3, <1>4, <1>5

Pcs == {"treeSize", "mapSize", "create", "available", "mark", "accel", "map", "done", "failed"}

StructTypes ==
  /\ pc \in Pcs
  /\ loop \in Loops
  /\ sizes \in [entries : Nat, levels : Nat, blocks : Nat, ranges : Nat]
  /\ buffer \in [address : Nat, size : Nat]

MapFacts == imap \in Seq(EntrySet) /\ Sorted(imap)

LEMMA RoundUpType ==
  ASSUME NEW x \in Nat
  PROVE  M!Align(x) \in Nat
<1>1. Alignment \in Nat \ {0}
  BY SizesAssumption
<1>2. (x + Alignment - 1) \div Alignment \in Nat
  BY <1>1, RoundedUp
<1> QED
  BY <1>1, <1>2, ProductIsNatural DEF M!Align

LEMMA BufferSizeType ==
  ASSUME StructTypes
  PROVE  M!BufferSize \in Nat
<1>1. /\ TreeEntrySize \in Nat /\ TreeLevelSize \in Nat /\ RangeSize \in Nat
      /\ sizes.entries \in Nat /\ sizes.levels \in Nat /\ sizes.blocks \in Nat /\ sizes.ranges \in Nat
  BY SizesAssumption DEF StructTypes
<1>2. /\ TreeEntrySize * sizes.entries \in Nat /\ TreeLevelSize * sizes.levels \in Nat
      /\ sizes.ranges * RangeSize \in Nat
  BY <1>1, ProductIsNatural
<1>3. M!LevelsOffset \in Nat
  BY <1>2, RoundUpType DEF M!LevelsOffset
<1>4. M!LevelsOffset + TreeLevelSize * sizes.levels \in Nat
  BY <1>2, <1>3
<1>5. M!BlocksOffset \in Nat
  BY <1>4, RoundUpType DEF M!BlocksOffset
<1>6. M!BlocksOffset + sizes.blocks \in Nat
  BY <1>1, <1>5
<1>7. M!MapOffset \in Nat
  BY <1>6, RoundUpType DEF M!MapOffset
<1> QED
  BY <1>2, <1>7 DEF M!BufferSize

LEMMA AtRangeFacts ==
  ASSUME MapFacts, loop \in Loops, M!AtRange
  PROVE  /\ Len(imap) \in Nat /\ DOMAIN imap = 1..Len(imap) /\ loop.pos \in 1..Len(imap)
         /\ LastIn(imap, loop.pos) \in loop.pos..Len(imap)
         /\ MinOf(imap, loop) \in Int /\ MaxOf(imap, loop) \in Int /\ NumOf(imap, loop) \in Int
<1>1. Len(imap) \in Nat /\ DOMAIN imap = 1..Len(imap) /\ Sorted(imap)
  BY DEF MapFacts
<1>2. loop.pos \in 1..Len(imap)
  BY <1>1 DEF M!AtRange, Loops
<1>3. loop.n \in Nat /\ loop.bs \in Nat \ {0} /\ loop.min \in Int /\ loop.max \in Int
  BY DEF Loops
<1>4. LastIn(imap, loop.pos) \in loop.pos..Len(imap)
  BY <1>1, <1>2, LastOfFacts
<1>5. MinOf(imap, loop) \in Int /\ MaxOf(imap, loop) \in Int /\ NumOf(imap, loop) \in Int
  BY <1>1, <1>2, <1>3, LevelTypes, Zenon
<1> QED
  BY <1>1, <1>2, <1>4, <1>5

LEMMA LoopAtType ==
  ASSUME NEW p \in Nat \ {0}, NEW s \in Steps
  PROVE  /\ M!LoopAt(p, s) \in Loops
         /\ M!LoopAt(p, s).pos = p /\ M!LoopAt(p, s).step = s /\ M!LoopAt(p, s).n = 0
         /\ M!LoopAt(p, s).bs = PageSize /\ M!LoopAt(p, s).min = 0 /\ M!LoopAt(p, s).max = 0
  BY EfiMapsAssumption DEF M!LoopAt, Loops

LEMMA NextRangeType ==
  ASSUME MapFacts, loop \in Loops, M!AtRange
  PROVE  /\ M!NextRange \in Loops /\ M!NextRange = M!LoopAt(LastIn(imap, loop.pos) + 1, "entry")
         /\ LastIn(imap, loop.pos) + 1 \in Nat \ {0}
<1>1. LastIn(imap, loop.pos) + 1 \in Nat \ {0}
  BY AtRangeFacts
<1>2. "entry" \in Steps
  BY DEF Steps
<1> QED
  BY <1>1, <1>2, LoopAtType, LastOfIsLast DEF M!NextRange

LEMMA NextLevelType ==
  ASSUME MapFacts, loop \in Loops, M!AtRange
  PROVE  /\ M!NextLevel \in Loops
         /\ M!NextLevel.pos = loop.pos /\ M!NextLevel.step = loop.step /\ M!NextLevel.n = loop.n + 1
         /\ M!NextLevel.bs = 2 * loop.bs /\ M!NextLevel.min = MinOf(imap, loop) /\ M!NextLevel.max = MaxOf(imap, loop)
<1>1. M!NextLevel = [loop EXCEPT !.n = @ + 1, !.bs = 2 * @, !.min = MinOf(imap, loop), !.max = MaxOf(imap, loop)]
  BY LevelOfLoop DEF M!NextLevel
<1>2. MinOf(imap, loop) \in Int /\ MaxOf(imap, loop) \in Int
  BY AtRangeFacts
<1>3. loop.n + 1 \in Nat /\ 2 * loop.bs \in Nat \ {0}
  BY DEF Loops
<1> QED
  BY <1>1, <1>2, <1>3 DEF Loops

LEMMA LoopStays ==
  ASSUME MapFacts, loop \in Loops, M!Next
  PROVE  loop' \in Loops
<1>0. Steps = {"entry", "levels", "fill", "blocks"} /\ 1 \in Nat \ {0} /\ loop.pos \in Nat \ {0}
  BY DEF Steps, Loops
<1>1. \A s \in Steps : M!LoopAt(1, s) \in Loops /\ M!LoopAt(loop.pos, s) \in Loops
  BY <1>0, LoopAtType, Zenon
<1>2. M!AtRange => M!NextRange \in Loops /\ M!NextLevel \in Loops
  BY NextRangeType, NextLevelType, Zenon
<1>3. [loop EXCEPT !.n = @ + 1] \in Loops /\ [loop EXCEPT !.pos = @ + 1] \in Loops
  BY DEF Loops
<1>4. M!LoopAt(loop.pos + 1, "entry") \in Loops
  <2>1. loop.pos + 1 \in Nat \ {0} /\ "entry" \in Steps
    BY <1>0
  <2> QED
    BY <2>1, LoopAtType, Zenon
<1>5. CASE M!SkipRange \/ M!CountMemoryRanges \/ M!FillMemMapEntry
  BY <1>5, <1>2 DEF M!SkipRange, M!CountMemoryRanges, M!FillMemMapEntry
<1>6. CASE M!CalcTreeEntryElements
  BY <1>6, <1>2 DEF M!CalcTreeEntryElements, M!Wanted
<1>7. CASE M!EndPass \/ M!PlaceStructs \/ M!NoRoomForStructs \/ M!FinishMemMap
  BY <1>7, <1>0, <1>1 DEF M!EndPass, M!PlaceStructs, M!NoRoomForStructs, M!FinishMemMap
<1>8. CASE M!CreateEntry
  BY <1>8, <1>0, <1>1, <1>2 DEF M!CreateEntry, M!Wanted
<1>9. CASE M!CreateTreeLevels
  BY <1>9, <1>0, <1>1, <1>2 DEF M!CreateTreeLevels, M!Wanted
<1>10. CASE M!FillTreeLevelStructs
  BY <1>10, <1>0, <1>1, <1>2 DEF M!FillTreeLevelStructs, M!Wanted
<1>11. CASE M!CreateTreeLevelBlocks
  BY <1>11, <1>2, <1>3 DEF M!CreateTreeLevelBlocks, M!Wanted
<1>12. CASE M!SetAllTreePagesAvailable \/ M!MarkStructs \/ M!EndAccelBlocks
  BY <1>12, <1>0, <1>1 DEF M!SetAllTreePagesAvailable, M!MarkStructs, M!EndAccelBlocks
<1>13. CASE M!MarkMapEntry
  BY <1>13, <1>3 DEF M!MarkMapEntry
<1>14. CASE M!FillAccelBlocks
  BY <1>14, <1>3, <1>4 DEF M!FillAccelBlocks
<1> QED
  BY <1>5, <1>6, <1>7, <1>8, <1>9, <1>10, <1>11, <1>12, <1>13, <1>14, Zenon DEF M!Next

(* The buffer lies at the beginning of a free entry that is large enough.  *)
BufferIn(e) == M!IsFree(e) /\ buffer.address = e.start /\ buffer.size <= e.pages * PageSize
BufferInv == buffer.size # 0 => \E i \in DOMAIN imap : BufferIn(imap[i])

LEMMA PlacedBuffer ==
  ASSUME MapFacts, StructTypes, M!PlaceStructs
  PROVE  buffer' \in [address : Nat, size : Nat] /\ BufferInv'
<1>1. imap' = imap
  BY DEF M!PlaceStructs
<1>2. PICK i \in DOMAIN imap :
        M!Large(imap[i]) /\ buffer' = [address |-> imap[i].start, size |-> M!BufferSize]
  BY DEF M!PlaceStructs
<1>3. M!BufferSize \in Nat
  BY BufferSizeType
<1>4. imap[i] \in EntrySet /\ imap[i].start \in Nat /\ imap[i].pages * PageSize \in Nat
  BY EfiMapsAssumption, ProductIsNatural DEF MapFacts, Sorted, EntrySet
<1>5. M!IsFree(imap[i]) /\ imap[i].pages * PageSize >= M!BufferSize
  BY <1>2 DEF M!Large
<1>6. buffer' \in [address : Nat, size : Nat]
  BY <1>2, <1>3, <1>4
<1>7. buffer'.address = imap[i].start /\ buffer'.size <= imap[i].pages * PageSize
  BY <1>2, <1>3, <1>4, <1>5
<1>8. \E j \in DOMAIN imap : M!IsFree(imap[j]) /\ buffer'.address = imap[j].start
                             /\ buffer'.size <= imap[j].pages * PageSize
  BY <1>5, <1>7, Zenon
<1>9. BufferInv'
  BY <1>1, <1>8, Zenon DEF BufferInv, BufferIn, M!IsFree
<1> QED
  BY <1>6, <1>9

LEMMA StructTypesStep ==
  ASSUME MapFacts, StructTypes, BufferInv, M!Next
  PROVE  StructTypes' /\ BufferInv'
<1>1. loop' \in Loops
  BY LoopStays, Zenon DEF StructTypes
<1>2. imap' = imap
  BY StructsKeepMap
<1>3. pc' \in Pcs
  BY DEF StructTypes, Pcs, M!Next, M!SkipRange, M!CalcTreeEntryElements, M!CountMemoryRanges, M!EndPass,
         M!PlaceStructs, M!NoRoomForStructs, M!CreateEntry, M!CreateTreeLevels,
         M!FillTreeLevelStructs, M!CreateTreeLevelBlocks, M!SetAllTreePagesAvailable,
         M!MarkMapEntry, M!MarkStructs, M!FillAccelBlocks, M!EndAccelBlocks,
         M!FillMemMapEntry, M!FinishMemMap
<1>4. sizes' \in [entries : Nat, levels : Nat, blocks : Nat, ranges : Nat]
  <2>1. CASE M!CalcTreeEntryElements
    <3>1. NumOf(imap, loop) \in Int /\ InPlace \in Nat
      BY <2>1, AtRangeFacts, SizesAssumption DEF M!CalcTreeEntryElements, M!Wanted, StructTypes
    <3>2. M!InPool(M!NumBlocks) => sizes.blocks + M!NumBlocks \in Nat
      BY <3>1, LevelOfLoop DEF M!InPool, StructTypes
    <3>3. sizes.entries \in Nat /\ sizes.blocks \in Nat /\ sizes.levels + 1 \in Nat
      BY DEF StructTypes
    <3>4. PICK e \in Nat, n \in Nat, b \in Nat :
            sizes' = [sizes EXCEPT !.entries = e, !.levels = n, !.blocks = b]
      <4>1. sizes' = [sizes EXCEPT !.entries = IF loop.n = 0 THEN sizes.entries + 1 ELSE sizes.entries,
                                   !.levels = sizes.levels + 1,
                                   !.blocks = IF M!InPool(M!NumBlocks) THEN sizes.blocks + M!NumBlocks
                                              ELSE sizes.blocks]
        BY <2>1 DEF M!CalcTreeEntryElements
      <4>2. (IF loop.n = 0 THEN sizes.entries + 1 ELSE sizes.entries) \in Nat
        BY <3>3
      <4>3. (IF M!InPool(M!NumBlocks) THEN sizes.blocks + M!NumBlocks ELSE sizes.blocks) \in Nat
        BY <3>2, <3>3
      <4> QED
        BY <3>3, <4>1, <4>2, <4>3
    <3> QED
      BY <3>4 DEF StructTypes
  <2>2. CASE M!CountMemoryRanges
    BY <2>2 DEF M!CountMemoryRanges, StructTypes
  <2>3. CASE ~M!CalcTreeEntryElements /\ ~M!CountMemoryRanges
    <3>1. sizes' = sizes
      BY <2>3 DEF M!Next, M!SkipRange, M!EndPass,
         M!PlaceStructs, M!NoRoomForStructs, M!CreateEntry, M!CreateTreeLevels,
         M!FillTreeLevelStructs, M!CreateTreeLevelBlocks, M!SetAllTreePagesAvailable,
         M!MarkMapEntry, M!MarkStructs, M!FillAccelBlocks, M!EndAccelBlocks,
         M!FillMemMapEntry, M!FinishMemMap
    <3> QED
      BY <3>1 DEF StructTypes
  <2> QED
    BY <2>1, <2>2, <2>3
<1>5. buffer' \in [address : Nat, size : Nat] /\ BufferInv'
  <2>1. CASE M!PlaceStructs
    BY <2>1, PlacedBuffer
  <2>2. CASE ~M!PlaceStructs
    <3>1. buffer' = buffer
      BY <2>2 DEF M!Next, M!SkipRange, M!CalcTreeEntryElements, M!CountMemoryRanges, M!EndPass,
         M!NoRoomForStructs, M!CreateEntry, M!CreateTreeLevels,
         M!FillTreeLevelStructs, M!CreateTreeLevelBlocks, M!SetAllTreePagesAvailable,
         M!MarkMapEntry, M!MarkStructs, M!FillAccelBlocks, M!EndAccelBlocks,
         M!FillMemMapEntry, M!FinishMemMap
    <3> QED
      BY <3>1, <1>2 DEF StructTypes, BufferInv, BufferIn
  <2> QED
    BY <2>1, <2>2
<1> QED
  BY <1>1, <1>3, <1>4, <1>5, Zenon DEF StructTypes

(* Before the map is done nothing has been counted. *)
StructsFresh ==
  /\ pc = "treeSize" /\ loop = M!LoopAt(1, "entry")
  /\ sizes = [entries |-> 0, levels |-> 0, blocks |-> 0, ranges |-> 0]
  /\ used = [entries |-> 0, levels |-> 0, blocks |-> 0]
  /\ buffer = [address |-> 0, size |-> 0]
  /\ tree = << >> /\ ranges = << >> /\ success = TRUE

LEMMA FreshTypes ==
  ASSUME StructsFresh
  PROVE  StructTypes /\ BufferInv
<1>1. loop \in Loops
  <2>1. 1 \in Nat \ {0} /\ "entry" \in Steps
    BY DEF Steps
  <2> QED
    BY <2>1, LoopAtType DEF StructsFresh
<1> QED
  BY <1>1 DEF StructsFresh, StructTypes, BufferInv, Pcs

(* The invariant of the whole boot: structures are made from a map that is *)
(* done.                                                                   *)
PlaceInv ==
  /\ GenInv /\ StructTypes /\ BufferInv
  /\ gen.pass # "done" => StructsFresh

LEMMA MapFactsHold ==
  ASSUME GenInv
  PROVE  MapFacts
  BY MapIsAlwaysSorted DEF MapFacts, GenInv, GenTypes

LEMMA FreshStays ==
  ASSUME StructsFresh, structs' = structs
  PROVE  StructsFresh'
  BY DEF StructsFresh, structs, M!LoopAt

LEMMA PlaceInvInit ==
  ASSUME BootInit
  PROVE  PlaceInv
<1>1. GenInv
  BY GenInvInit DEF BootInit
<1>2. StructsFresh
  BY DEF BootInit, M!Init, StructsFresh
<1> QED
  BY <1>1, <1>2, FreshTypes DEF PlaceInv

LEMMA NotDoneBefore ==
  ASSUME Next
  PROVE  gen.pass # "done"
  BY DEF Next, CombineRanges, SubmitRange, AllocInitMemMapMemory, FinishInitMemMap, Iterating

LEMMA PlaceInvStep ==
  ASSUME PlaceInv, [BootNext]_<<vars, structs>>
  PROVE  PlaceInv'
<1>1. GenInv'
  BY GenInvBootStep DEF PlaceInv
<1>2. CASE MakeInitialMap
  <2>1. gen.pass # "done" /\ structs' = structs
    BY <1>2, NotDoneBefore DEF MakeInitialMap
  <2>2. StructsFresh'
    BY <2>1, FreshStays DEF PlaceInv
  <2>3. (StructTypes /\ BufferInv)'
    BY <2>2, FreshTypes, PTL
  <2> QED
    BY <1>1, <2>2, <2>3 DEF PlaceInv
<1>3. CASE MakeStructs
  <2>1. StructTypes' /\ BufferInv'
    BY <1>3, StructTypesStep, MapFactsHold DEF MakeStructs, PlaceInv
  <2>2. gen'.pass = "done"
    BY <1>3 DEF MakeStructs
  <2> QED
    BY <1>1, <2>1, <2>2 DEF PlaceInv
<1>4. CASE UNCHANGED <<vars, structs>>
  <2>1. gen' = gen /\ imap' = imap /\ structs' = structs
    BY <1>4 DEF vars
  <2>2. StructTypes' /\ BufferInv'
    BY <2>1 DEF PlaceInv, StructTypes, BufferInv, BufferIn, structs
  <2>3. StructsFresh => StructsFresh'
    BY <2>1, FreshStays
  <2> QED
    BY <1>1, <2>1, <2>2, <2>3 DEF PlaceInv
<1> QED
  BY <1>2, <1>3, <1>4 DEF BootNext

(* An address in an entry of the map is the firmware's, of the entry's     *)
(* type.                                                                   *)
LEMMA EntryIsReported ==
  ASSUME GenInv, gen.pass = "done", NEW i \in DOMAIN imap, NEW x \in Nat, Contains(imap[i], x)
  PROVE  \E d \in efi : /\ d.start <= x /\ x < End(d) /\ d.type \in EfiTypes
                        /\ SameMemory(Region(d), imap[i])
<1>1. FromRegions(Regs, imap[i])
  BY Zenon DEF GenInv, PassInv, Written, Describes
<1>2. PICK a \in Regs : Contains(a, x) /\ SameMemory(a, imap[i])
  BY <1>1, Zenon DEF FromRegions
<1>3. PICK d \in efi : a = Region(d)
  BY DEF Regs
<1>4. efi \in EfiMaps
  BY DEF GenInv, GenTypes
<1>5. d.start <= x /\ x < End(d)
  BY <1>2, <1>3, <1>4, RegionFacts, Zenon DEF Contains
<1>6. d.type \in EfiTypes
  BY <1>4, EfiMapsAssumption, Zenon
<1> QED
  BY <1>2, <1>3, <1>5, <1>6, Zenon

LEMMA FreeIsConventional ==
  ASSUME NEW d, d.type \in EfiTypes, NEW e, SameMemory(Region(d), e), M!IsFree(e)
  PROVE  d.type = "Conventional"
<1>1. ToDexprOSMemType(d.type) = "USABLE" /\ ToDexprOSInitialMemMapUsage(d.type) = "MAPPED"
  BY DEF SameMemory, M!IsFree, Region
<1> QED
  BY <1>1 DEF ToDexprOSMemType, ToDexprOSInitialMemMapUsage, EfiTypes

LEMMA WholePagesBelow ==
  ASSUME NEW s \in Nat \ {0}, NEW p \in 0..((s - 1) \div PageSize)
  PROVE  p \in Nat /\ p * PageSize \in Nat /\ p * PageSize < s
<1> DEFINE q == (s - 1) \div PageSize
<1>1. PageSize \in Nat \ {0} /\ s - 1 \in Nat
  BY EfiMapsAssumption
<1>2. q \in Nat /\ PageSize * q <= s - 1
  BY <1>1
<1>3. p \in Nat /\ p <= q
  BY <1>2
<1> HIDE DEF q
<1>4. q * PageSize = PageSize * q /\ q * PageSize \in Nat
  BY <1>1, <1>2, ProductIsNatural
<1>5. p * PageSize <= q * PageSize /\ p * PageSize \in Nat
  BY <1>1, <1>2, <1>3, ProductIsMonotone, ProductIsNatural
<1> QED
  BY <1>1, <1>2, <1>3, <1>4, <1>5

LEMMA PlacedApart ==
  ASSUME PlaceInv
  PROVE  BuffersAreDisjoint
<1>1. MapFitsItsRegion
  BY MapFits DEF PlaceInv
<1>2. ASSUME buffer.size > 0
      PROVE  /\ \/ buffer.address + buffer.size <= alloc.address
                \/ alloc.address + Len(imap) * MapEntrySize <= buffer.address
             /\ \A p \in 0..((buffer.size - 1) \div PageSize) :
                  ReportedAs(buffer.address + p * PageSize, {"Conventional"})
  <2>1. gen.pass = "done" /\ buffer.size # 0
    BY <1>2 DEF PlaceInv, StructsFresh
  <2>2. /\ buffer.address \in Nat /\ buffer.size \in Nat /\ alloc \in AllocSet /\ alloc.address \in Nat
        /\ PageSize \in Nat \ {0}
    BY EfiMapsAssumption DEF PlaceInv, StructTypes, GenInv, GenTypes, AllocSet
  <2>3. PICK i \in DOMAIN imap : BufferIn(imap[i])
    BY <2>1, Zenon DEF PlaceInv, BufferInv
  <2>4. PICK o \in DOMAIN imap : OwnAt(o)
    BY <2>1, OwnEntry, Zenon DEF PlaceInv
  <2>5. Sorted(imap) /\ imap \in Seq(EntrySet)
    BY MapFactsHold DEF PlaceInv, MapFacts
  <2>6. /\ imap[i].start \in Nat /\ imap[i].pages * PageSize \in Nat
        /\ imap[o].start \in Nat /\ imap[o].pages * PageSize \in Nat
    BY <2>2, <2>5, ProductIsNatural DEF Sorted, EntrySet
  <2>7. buffer.address = imap[i].start /\ buffer.address + buffer.size <= End(imap[i])
    BY <2>2, <2>3, <2>6 DEF BufferIn, End
  <2>8. alloc.address = imap[o].start /\ alloc.address + Len(imap) * MapEntrySize <= End(imap[o])
    <3>1. Len(imap) * MapEntrySize \in Nat /\ Len(imap) * MapEntrySize <= RequiredPages(alloc) * PageSize
      BY MapIsShortEnough DEF PlaceInv
    <3>2. imap[o].start = alloc.address /\ imap[o].pages = RequiredPages(alloc)
      BY <2>4 DEF OwnAt
    <3> QED
      BY <3>1, <3>2, <2>2, <2>6 DEF End
  <2>9. i # o
    BY <2>3, <2>4 DEF BufferIn, M!IsFree, OwnAt
  <2>10. /\ i < o => End(imap[i]) <= imap[o].start
         /\ o < i => End(imap[o]) <= imap[i].start
    BY <2>5, Zenon DEF Sorted
  <2>11. i \in Nat /\ o \in Nat
    BY <2>5
  <2>12. End(imap[i]) \in Nat /\ End(imap[o]) \in Nat /\ Len(imap) * MapEntrySize \in Nat
    BY <2>5, MapIsShortEnough DEF Sorted, Bounded, PlaceInv
  <2>13. \/ buffer.address + buffer.size <= alloc.address
         \/ alloc.address + Len(imap) * MapEntrySize <= buffer.address
    <3>1. buffer.address \in Nat /\ alloc.address \in Nat
      BY <2>6, <2>7, <2>8
    <3>2. CASE i < o
      <4>1. buffer.address + buffer.size <= alloc.address
        BY <3>1, <3>2, <2>2, <2>7, <2>8, <2>10, <2>12
      <4> QED
        BY <4>1
    <3>3. CASE o < i
      <4>1. alloc.address + Len(imap) * MapEntrySize <= buffer.address
        BY <3>1, <3>3, <2>2, <2>7, <2>8, <2>10, <2>12
      <4> QED
        BY <4>1
    <3> QED
      BY <3>2, <3>3, <2>9, <2>11
  <2>14. ASSUME NEW p \in 0..((buffer.size - 1) \div PageSize)
         PROVE  ReportedAs(buffer.address + p * PageSize, {"Conventional"})
    <3> DEFINE x == buffer.address + p * PageSize
    <3>1. p * PageSize \in Nat /\ p * PageSize < buffer.size
      BY <2>1, <2>2, WholePagesBelow
    <3>5. x \in Nat /\ buffer.address <= x /\ x < buffer.address + buffer.size
      BY <3>1, <2>2
    <3> HIDE DEF x
    <3>2. x \in Nat /\ Contains(imap[i], x)
      BY <3>5, <2>2, <2>7, <2>12 DEF Contains
    <3>3. PICK d \in efi : /\ d.start <= x /\ x < End(d) /\ d.type \in EfiTypes
                           /\ SameMemory(Region(d), imap[i])
      BY <3>2, <2>1, EntryIsReported, Zenon DEF PlaceInv
    <3>4. d.type = "Conventional"
      BY <3>3, <2>3, FreeIsConventional, Zenon DEF BufferIn
    <3> QED
      BY <3>3, <3>4 DEF ReportedAs, x
  <2> QED
    BY <2>13, <2>14, Zenon
<1> QED
  BY <1>1, <1>2, Zenon DEF BuffersAreDisjoint

(* efi_main puts the structures for physical memory at the start of a free *)
(* entry of the initial map: that memory is conventional and is not where  *)
(* the initial map itself lies, however many entries were inserted since   *)
(* its region was chosen.                                                  *)
THEOREM BuffersNeverMeet == BootSpec => []BuffersAreDisjoint
<1>1. BootInit => PlaceInv
  BY PlaceInvInit
<1>2. PlaceInv /\ [BootNext]_<<vars, structs>> => PlaceInv'
  BY PlaceInvStep
<1>3. PlaceInv => BuffersAreDisjoint
  BY PlacedApart
<1> QED
  BY <1>1, <1>2, <1>3, PTL DEF BootSpec

-----------------------------------------------------------------------------
(* What the counting pass over the levels has gone through. The passes     *)
(* that fill the buffer go through the same, so the records of the first   *)
(* say how much is left for the second.                                    *)

Traces ==
  [pos : Nat \ {0}, n : Nat, bs : Nat \ {0}, min : Int, max : Int,
   entries : Nat, levels : Nat, blocks : Nat]

Managed(m, i) == M!ShouldCreateTreeForType(m[i].type)
PoolOf(m, l) == IF NumOf(m, l) > InPlace THEN NumOf(m, l) ELSE 0

PastRange(m, t) ==
  [t EXCEPT !.pos = LastIn(m, t.pos) + 1, !.n = 0, !.bs = PageSize, !.min = 0, !.max = 0]
Counting(m, t) ==
  [t EXCEPT !.entries = IF t.n = 0 THEN t.entries + 1 ELSE t.entries,
            !.levels = t.levels + 1, !.blocks = t.blocks + PoolOf(m, t)]
NextUp(m, t) == [t EXCEPT !.n = t.n + 1, !.bs = 2 * t.bs, !.min = MinOf(m, t), !.max = MaxOf(m, t)]

Advance(m, t) ==
  IF ~Managed(m, t.pos) THEN PastRange(m, t)
  ELSE IF NumOf(m, t) <= 1 THEN PastRange(m, Counting(m, t))
  ELSE NextUp(m, Counting(m, t))

IsMap(m) == m \in Seq(EntrySet) /\ Sorted(m)

LEMMA MapShape ==
  ASSUME NEW m, IsMap(m)
  PROVE  Len(m) \in Nat /\ DOMAIN m = 1..Len(m) /\ Sorted(m)
  BY DEF IsMap

LEMMA TraceLevel ==
  ASSUME NEW m, IsMap(m), NEW t \in Traces, t.pos <= Len(m)
  PROVE  /\ t.pos \in 1..Len(m) /\ LastIn(m, t.pos) \in t.pos..Len(m)
         /\ MinOf(m, t) \in Int /\ MaxOf(m, t) \in Int /\ NumOf(m, t) \in Int
         /\ PoolOf(m, t) \in Nat
<1>1. Len(m) \in Nat /\ DOMAIN m = 1..Len(m) /\ Sorted(m)
  BY MapShape
<1>2. t.pos \in 1..Len(m) /\ t.n \in Nat /\ t.bs \in Nat \ {0} /\ t.min \in Int /\ t.max \in Int
  BY <1>1 DEF Traces
<1>3. MinOf(m, t) \in Int /\ MaxOf(m, t) \in Int /\ NumOf(m, t) \in Int
  BY <1>1, <1>2, LevelTypes, Zenon
<1>4. LastIn(m, t.pos) \in t.pos..Len(m)
  BY <1>1, <1>2, LastOfFacts
<1>5. PoolOf(m, t) \in Nat
  BY <1>3, SizesAssumption DEF PoolOf
<1> QED
  BY <1>2, <1>3, <1>4, <1>5

LEMMA PastRangeFacts ==
  ASSUME NEW m, NEW t \in Traces, LastIn(m, t.pos) \in Nat
  PROVE  /\ PastRange(m, t) \in Traces
         /\ PastRange(m, t).pos = LastIn(m, t.pos) + 1 /\ PastRange(m, t).n = 0
         /\ PastRange(m, t).bs = PageSize /\ PastRange(m, t).min = 0 /\ PastRange(m, t).max = 0
         /\ PastRange(m, t).entries = t.entries /\ PastRange(m, t).levels = t.levels
         /\ PastRange(m, t).blocks = t.blocks
<1>1. PICK p \in Nat \ {0}, b \in Nat \ {0} : p = LastIn(m, t.pos) + 1 /\ b = PageSize
  BY EfiMapsAssumption
<1>2. PastRange(m, t) = [t EXCEPT !.pos = p, !.n = 0, !.bs = b, !.min = 0, !.max = 0]
  BY <1>1 DEF PastRange
<1>3. PastRange(m, t) = [pos |-> p, n |-> 0, bs |-> b, min |-> 0, max |-> 0, entries |-> t.entries,
                         levels |-> t.levels, blocks |-> t.blocks]
  BY <1>2 DEF Traces
<1>4. t.entries \in Nat /\ t.levels \in Nat /\ t.blocks \in Nat
  BY DEF Traces
<1>5. PastRange(m, t) \in Traces
  BY <1>3, <1>4 DEF Traces
<1> QED
  BY <1>1, <1>3, <1>5

LEMMA CountingFacts ==
  ASSUME NEW m, NEW t \in Traces, PoolOf(m, t) \in Nat
  PROVE  /\ Counting(m, t) \in Traces
         /\ Counting(m, t).pos = t.pos /\ Counting(m, t).n = t.n /\ Counting(m, t).bs = t.bs
         /\ Counting(m, t).min = t.min /\ Counting(m, t).max = t.max
         /\ Counting(m, t).entries = IF t.n = 0 THEN t.entries + 1 ELSE t.entries
         /\ Counting(m, t).levels = t.levels + 1
         /\ Counting(m, t).blocks = t.blocks + PoolOf(m, t)
<1>1. PICK e \in Nat : e = IF t.n = 0 THEN t.entries + 1 ELSE t.entries
  BY DEF Traces
<1>2. t.levels + 1 \in Nat /\ t.blocks + PoolOf(m, t) \in Nat
  BY DEF Traces
<1>3. Counting(m, t) = [t EXCEPT !.entries = e, !.levels = t.levels + 1, !.blocks = t.blocks + PoolOf(m, t)]
  BY <1>1 DEF Counting
<1> QED
  BY <1>1, <1>2, <1>3 DEF Traces

LEMMA NextUpFacts ==
  ASSUME NEW m, NEW t \in Traces, MinOf(m, t) \in Int, MaxOf(m, t) \in Int
  PROVE  /\ NextUp(m, t) \in Traces
         /\ NextUp(m, t).pos = t.pos /\ NextUp(m, t).n = t.n + 1 /\ NextUp(m, t).bs = 2 * t.bs
         /\ NextUp(m, t).min = MinOf(m, t) /\ NextUp(m, t).max = MaxOf(m, t)
         /\ NextUp(m, t).entries = t.entries /\ NextUp(m, t).levels = t.levels
         /\ NextUp(m, t).blocks = t.blocks
<1>1. t.n + 1 \in Nat /\ 2 * t.bs \in Nat \ {0}
  BY DEF Traces
<1> QED
  BY <1>1 DEF NextUp, Traces

SameLoop(l, t) == l.pos = t.pos /\ l.n = t.n /\ l.bs = t.bs /\ l.min = t.min /\ l.max = t.max

LEMMA SameLoopSameLevel ==
  ASSUME NEW m, NEW l, NEW t, SameLoop(l, t)
  PROVE  MinOf(m, l) = MinOf(m, t) /\ MaxOf(m, l) = MaxOf(m, t) /\ NumOf(m, l) = NumOf(m, t)
         /\ PoolOf(m, l) = PoolOf(m, t)
  BY DEF SameLoop, MinOf, MaxOf, NumOf, FirstMin, FirstMax, PoolOf

LEMMA AdvanceSkips ==
  ASSUME NEW m, IsMap(m), NEW t \in Traces, t.pos <= Len(m), ~Managed(m, t.pos)
  PROVE  /\ Advance(m, t) \in Traces
         /\ Advance(m, t).pos = LastIn(m, t.pos) + 1 /\ Advance(m, t).n = 0
         /\ Advance(m, t).bs = PageSize /\ Advance(m, t).min = 0 /\ Advance(m, t).max = 0
         /\ Advance(m, t).entries = t.entries /\ Advance(m, t).levels = t.levels
         /\ Advance(m, t).blocks = t.blocks
<1>1. LastIn(m, t.pos) \in Nat
  BY TraceLevel DEF Traces
<1>2. Advance(m, t) = PastRange(m, t)
  BY DEF Advance
<1> QED
  BY <1>1, <1>2, PastRangeFacts

LEMMA AdvanceLeaves ==
  ASSUME NEW m, IsMap(m), NEW t \in Traces, t.pos <= Len(m), Managed(m, t.pos), NumOf(m, t) <= 1
  PROVE  /\ Advance(m, t) \in Traces
         /\ Advance(m, t).pos = LastIn(m, t.pos) + 1 /\ Advance(m, t).n = 0
         /\ Advance(m, t).bs = PageSize /\ Advance(m, t).min = 0 /\ Advance(m, t).max = 0
         /\ Advance(m, t).entries = IF t.n = 0 THEN t.entries + 1 ELSE t.entries
         /\ Advance(m, t).levels = t.levels + 1
         /\ Advance(m, t).blocks = t.blocks + PoolOf(m, t)
<1>1. LastIn(m, t.pos) \in Nat /\ PoolOf(m, t) \in Nat
  BY TraceLevel DEF Traces
<1> DEFINE c == Counting(m, t)
<1>2. Advance(m, t) = PastRange(m, c)
  BY DEF Advance
<1>3. /\ c \in Traces /\ c.pos = t.pos
      /\ c.entries = IF t.n = 0 THEN t.entries + 1 ELSE t.entries
      /\ c.levels = t.levels + 1 /\ c.blocks = t.blocks + PoolOf(m, t)
  BY <1>1, CountingFacts
<1> HIDE DEF c
<1> QED
  BY <1>1, <1>2, <1>3, PastRangeFacts

LEMMA AdvanceRises ==
  ASSUME NEW m, IsMap(m), NEW t \in Traces, t.pos <= Len(m), Managed(m, t.pos), ~(NumOf(m, t) <= 1)
  PROVE  /\ Advance(m, t) \in Traces
         /\ Advance(m, t).pos = t.pos /\ Advance(m, t).n = t.n + 1
         /\ Advance(m, t).bs = 2 * t.bs
         /\ Advance(m, t).min = MinOf(m, t) /\ Advance(m, t).max = MaxOf(m, t)
         /\ Advance(m, t).entries = IF t.n = 0 THEN t.entries + 1 ELSE t.entries
         /\ Advance(m, t).levels = t.levels + 1
         /\ Advance(m, t).blocks = t.blocks + PoolOf(m, t)
<1>1. MinOf(m, t) \in Int /\ MaxOf(m, t) \in Int /\ PoolOf(m, t) \in Nat
  BY TraceLevel DEF Traces
<1> DEFINE c == Counting(m, t)
<1>2. Advance(m, t) = NextUp(m, c)
  BY DEF Advance
<1>3. /\ c \in Traces /\ SameLoop(c, t)
      /\ c.entries = IF t.n = 0 THEN t.entries + 1 ELSE t.entries
      /\ c.levels = t.levels + 1 /\ c.blocks = t.blocks + PoolOf(m, t)
  BY <1>1, CountingFacts DEF SameLoop
<1> HIDE DEF c
<1>4. MinOf(m, c) = MinOf(m, t) /\ MaxOf(m, c) = MaxOf(m, t)
  BY <1>3, SameLoopSameLevel, Zenon
<1>5. c.pos = t.pos /\ c.n = t.n /\ c.bs = t.bs
  BY <1>3 DEF SameLoop
<1> QED
  BY <1>1, <1>2, <1>3, <1>4, <1>5, NextUpFacts

LEMMA AdvanceGrows ==
  ASSUME NEW m, IsMap(m), NEW t \in Traces, t.pos <= Len(m)
  PROVE  /\ Advance(m, t) \in Traces
         /\ t.entries <= Advance(m, t).entries /\ t.levels <= Advance(m, t).levels
         /\ t.blocks <= Advance(m, t).blocks
<1>1. t.entries \in Nat /\ t.levels \in Nat /\ t.blocks \in Nat /\ PoolOf(m, t) \in Nat
  BY TraceLevel DEF Traces
<1>2. CASE ~Managed(m, t.pos)
  BY <1>1, <1>2, AdvanceSkips
<1>3. CASE Managed(m, t.pos) /\ NumOf(m, t) <= 1
  <2>1. /\ Advance(m, t) \in Traces
        /\ Advance(m, t).entries = IF t.n = 0 THEN t.entries + 1 ELSE t.entries
        /\ Advance(m, t).levels = t.levels + 1
        /\ Advance(m, t).blocks = t.blocks + PoolOf(m, t)
    BY <1>3, AdvanceLeaves, Zenon
  <2> QED
    BY <1>1, <2>1
<1>4. CASE Managed(m, t.pos) /\ ~(NumOf(m, t) <= 1)
  <2>1. /\ Advance(m, t) \in Traces
        /\ Advance(m, t).entries = IF t.n = 0 THEN t.entries + 1 ELSE t.entries
        /\ Advance(m, t).levels = t.levels + 1
        /\ Advance(m, t).blocks = t.blocks + PoolOf(m, t)
    BY <1>4, AdvanceRises, Zenon
  <2> QED
    BY <1>1, <2>1
<1> QED
  BY <1>2, <1>3, <1>4

StartOfTrace ==
  [pos |-> 1, n |-> 0, bs |-> PageSize, min |-> 0, max |-> 0, entries |-> 0, levels |-> 0, blocks |-> 0]

AtMostAs(u, t) == u.entries <= t.entries /\ u.levels <= t.levels /\ u.blocks <= t.blocks

TracedBy(m, T, t) ==
  /\ t \in T /\ StartOfTrace \in T
  /\ \A u \in T : u \in Traces /\ AtMostAs(u, t)
  /\ \A u \in T : u # t => u.pos <= Len(m) /\ Advance(m, u) \in T

LEMMA TraceStarts ==
  ASSUME NEW m
  PROVE  TracedBy(m, {StartOfTrace}, StartOfTrace)
<1>1. StartOfTrace \in Traces
  BY EfiMapsAssumption DEF StartOfTrace, Traces
<1>2. AtMostAs(StartOfTrace, StartOfTrace)
  BY DEF AtMostAs, StartOfTrace
<1> QED
  BY <1>1, <1>2, Zenon DEF TracedBy

LEMMA TraceGrows ==
  ASSUME NEW m, IsMap(m), NEW T, NEW t, TracedBy(m, T, t), t.pos <= Len(m)
  PROVE  TracedBy(m, T \cup {Advance(m, t)}, Advance(m, t))
<1> DEFINE s == Advance(m, t)
<1>1. t \in Traces
  BY Zenon DEF TracedBy
<1>2. s \in Traces /\ t.entries <= s.entries /\ t.levels <= s.levels /\ t.blocks <= s.blocks
  BY <1>1, AdvanceGrows, Zenon
<1> HIDE DEF s
<1>3. ASSUME NEW u \in T
      PROVE  AtMostAs(u, s)
  <2>1. AtMostAs(u, t) /\ u \in Traces
    BY Zenon DEF TracedBy
  <2>2. /\ u.entries <= t.entries /\ u.levels <= t.levels /\ u.blocks <= t.blocks
        /\ u.entries \in Nat /\ u.levels \in Nat /\ u.blocks \in Nat
        /\ t.entries \in Nat /\ t.levels \in Nat /\ t.blocks \in Nat
        /\ s.entries \in Nat /\ s.levels \in Nat /\ s.blocks \in Nat
    BY <2>1, <1>1, <1>2 DEF AtMostAs, Traces
  <2>3. u.entries <= s.entries
    BY <2>2, <1>2
  <2>4. u.levels <= s.levels
    BY <2>2, <1>2
  <2>5. u.blocks <= s.blocks
    BY <2>2, <1>2
  <2> QED
    BY <2>3, <2>4, <2>5 DEF AtMostAs
<1>4. AtMostAs(s, s)
  BY <1>2 DEF AtMostAs, Traces
<1>5. \A u \in T : u.pos <= Len(m) /\ Advance(m, u) \in T \cup {s}
  BY Zenon DEF TracedBy, s
<1> QED
  BY <1>2, <1>3, <1>4, <1>5, Zenon DEF TracedBy, s

LEMMA SameTrace ==
  ASSUME NEW t \in Traces, NEW u \in Traces, SameLoop(t, u),
         t.entries = u.entries, t.levels = u.levels, t.blocks = u.blocks
  PROVE  t = u
  BY DEF Traces, SameLoop

(* The record of a loop and of the numbers counted. *)
Here(l, s) ==
  [pos |-> l.pos, n |-> l.n, bs |-> l.bs, min |-> l.min, max |-> l.max,
   entries |-> s.entries, levels |-> s.levels, blocks |-> s.blocks]

LEMMA HereFacts ==
  ASSUME NEW l \in Loops, NEW s, s.entries \in Nat, s.levels \in Nat, s.blocks \in Nat
  PROVE  /\ Here(l, s) \in Traces /\ SameLoop(Here(l, s), l) /\ SameLoop(l, Here(l, s))
         /\ Here(l, s).pos = l.pos /\ Here(l, s).n = l.n
         /\ Here(l, s).entries = s.entries /\ Here(l, s).levels = s.levels /\ Here(l, s).blocks = s.blocks
  BY DEF Here, Loops, Traces, SameLoop

(* A new record with the loop of t and the numbers of s. *)
LEMMA HereIs ==
  ASSUME NEW l \in Loops, NEW s, s.entries \in Nat, s.levels \in Nat, s.blocks \in Nat,
         NEW t \in Traces, SameLoop(l, t), s.entries = t.entries, s.levels = t.levels, s.blocks = t.blocks
  PROVE  Here(l, s) = t
<1> DEFINE h == Here(l, s)
<1>1. /\ h \in Traces /\ SameLoop(h, l)
      /\ h.entries = s.entries /\ h.levels = s.levels /\ h.blocks = s.blocks
  BY HereFacts
<1> HIDE DEF h
<1>2. SameLoop(h, t)
  BY <1>1 DEF SameLoop
<1>3. h = t
  BY <1>1, <1>2, SameTrace
<1> QED
  BY <1>3 DEF h

LEMMA NextRangeFacts ==
  ASSUME MapFacts, loop \in Loops, M!AtRange
  PROVE  /\ M!NextRange \in Loops
         /\ M!NextRange = M!LoopAt(LastIn(imap, loop.pos) + 1, "entry")
         /\ M!NextRange.pos = LastIn(imap, loop.pos) + 1 /\ M!NextRange.step = "entry"
         /\ M!NextRange.n = 0 /\ M!NextRange.bs = PageSize
         /\ M!NextRange.min = 0 /\ M!NextRange.max = 0
<1>1. /\ M!NextRange \in Loops /\ M!NextRange = M!LoopAt(LastIn(imap, loop.pos) + 1, "entry")
      /\ LastIn(imap, loop.pos) + 1 \in Nat \ {0}
  BY NextRangeType
<1> QED
  BY <1>1 DEF M!LoopAt

(* The counting pass goes on by one record. *)
LEMMA CountingAdvances ==
  ASSUME MapFacts, StructTypes, pc = "treeSize", M!SkipRange \/ M!CalcTreeEntryElements
  PROVE  /\ Here(loop, sizes).pos <= Len(imap)
         /\ Here(loop', sizes') = Advance(imap, Here(loop, sizes))
<1> DEFINE t == Here(loop, sizes)
<1>1. IsMap(imap) /\ loop \in Loops /\ M!AtRange
  BY DEF IsMap, MapFacts, StructTypes, M!SkipRange, M!CalcTreeEntryElements, M!Wanted
<1>2. sizes.entries \in Nat /\ sizes.levels \in Nat /\ sizes.blocks \in Nat
  BY DEF StructTypes
<1>3. /\ t \in Traces /\ SameLoop(loop, t) /\ t.pos = loop.pos /\ t.n = loop.n
      /\ t.entries = sizes.entries /\ t.levels = sizes.levels /\ t.blocks = sizes.blocks
  BY <1>1, <1>2, HereFacts
<1> HIDE DEF t
<1>4. t.pos <= Len(imap)
  BY <1>1, <1>3 DEF M!AtRange
<1>5. /\ NumOf(imap, loop) = NumOf(imap, t) /\ MinOf(imap, loop) = MinOf(imap, t)
      /\ MaxOf(imap, loop) = MaxOf(imap, t)
      /\ PoolOf(imap, loop) = PoolOf(imap, t)
  BY <1>3, SameLoopSameLevel
<1>6. M!Wanted <=> Managed(imap, t.pos)
  BY <1>1, <1>3 DEF M!Wanted, Managed, M!First
<1>7. /\ M!NextRange \in Loops /\ M!NextRange.pos = LastIn(imap, t.pos) + 1
      /\ M!NextRange.n = 0 /\ M!NextRange.bs = PageSize
      /\ M!NextRange.min = 0 /\ M!NextRange.max = 0
  BY <1>1, <1>3, NextRangeFacts
<1>8. CASE M!SkipRange
  <2>1. loop' = M!NextRange /\ sizes' = sizes /\ ~M!Wanted
    BY <1>8 DEF M!SkipRange
  <2>2. /\ Advance(imap, t) \in Traces
        /\ Advance(imap, t).pos = LastIn(imap, t.pos) + 1 /\ Advance(imap, t).n = 0
        /\ Advance(imap, t).bs = PageSize /\ Advance(imap, t).min = 0 /\ Advance(imap, t).max = 0
        /\ Advance(imap, t).entries = t.entries /\ Advance(imap, t).levels = t.levels
        /\ Advance(imap, t).blocks = t.blocks
    BY <2>1, <1>1, <1>3, <1>4, <1>6, AdvanceSkips, Zenon
  <2>3. SameLoop(M!NextRange, Advance(imap, t))
    BY <2>2, <1>7 DEF SameLoop
  <2>4. Here(M!NextRange, sizes) = Advance(imap, t)
    BY <2>2, <2>3, <1>2, <1>3, <1>7, HereIs
  <2> QED
    BY <2>1, <2>4, <1>4 DEF t
<1>9. CASE M!CalcTreeEntryElements
  <2>1. /\ M!Wanted
        /\ loop' = IF M!NumBlocks <= 1 THEN M!NextRange ELSE M!NextLevel
        /\ sizes' = [sizes EXCEPT !.entries = IF loop.n = 0 THEN @ + 1 ELSE @,
                                  !.levels = @ + 1,
                                  !.blocks = IF M!InPool(M!NumBlocks) THEN @ + M!NumBlocks ELSE @]
    BY <1>9 DEF M!CalcTreeEntryElements
  <2>2. M!NumBlocks = NumOf(imap, t) /\ NumOf(imap, t) \in Int /\ PoolOf(imap, t) \in Nat
    BY <1>1, <1>3, <1>4, <1>5, LevelOfLoop, TraceLevel
  <2>3. /\ sizes'.entries = (IF t.n = 0 THEN t.entries + 1 ELSE t.entries)
        /\ sizes'.levels = t.levels + 1
        /\ sizes'.blocks = t.blocks + PoolOf(imap, t)
    <3>1. sizes.blocks + 0 = sizes.blocks
      BY <1>2
    <3>2. sizes'.blocks = sizes.blocks + PoolOf(imap, t)
      BY <2>1, <2>2, <3>1 DEF StructTypes, M!InPool, PoolOf
    <3>3. sizes'.entries = (IF loop.n = 0 THEN sizes.entries + 1 ELSE sizes.entries)
      BY <2>1 DEF StructTypes
    <3>4. sizes'.levels = sizes.levels + 1
      BY <2>1 DEF StructTypes
    <3> QED
      BY <3>2, <3>3, <3>4, <1>3
  <2>4. sizes'.entries \in Nat /\ sizes'.levels \in Nat /\ sizes'.blocks \in Nat
    BY <2>2, <2>3, <1>2, <1>3
  <2>5. CASE NumOf(imap, t) <= 1
    <3>1. /\ Advance(imap, t) \in Traces
          /\ Advance(imap, t).pos = LastIn(imap, t.pos) + 1 /\ Advance(imap, t).n = 0
          /\ Advance(imap, t).bs = PageSize /\ Advance(imap, t).min = 0 /\ Advance(imap, t).max = 0
          /\ Advance(imap, t).entries = (IF t.n = 0 THEN t.entries + 1 ELSE t.entries)
          /\ Advance(imap, t).levels = t.levels + 1
          /\ Advance(imap, t).blocks = t.blocks + PoolOf(imap, t)
      BY <2>1, <2>5, <1>1, <1>3, <1>4, <1>6, AdvanceLeaves, Zenon
    <3>2. loop' = M!NextRange
      BY <2>1, <2>2, <2>5
    <3>3. SameLoop(loop', Advance(imap, t)) /\ loop' \in Loops
      BY <3>1, <3>2, <1>7 DEF SameLoop
    <3>4. Here(loop', sizes') = Advance(imap, t)
      BY <3>1, <3>3, <2>3, <2>4, HereIs
    <3> QED
      BY <3>4, <1>4 DEF t
  <2>6. CASE ~(NumOf(imap, t) <= 1)
    <3>1. /\ Advance(imap, t) \in Traces
          /\ Advance(imap, t).pos = t.pos /\ Advance(imap, t).n = t.n + 1
          /\ Advance(imap, t).bs = 2 * t.bs
          /\ Advance(imap, t).min = MinOf(imap, t) /\ Advance(imap, t).max = MaxOf(imap, t)
          /\ Advance(imap, t).entries = (IF t.n = 0 THEN t.entries + 1 ELSE t.entries)
          /\ Advance(imap, t).levels = t.levels + 1
          /\ Advance(imap, t).blocks = t.blocks + PoolOf(imap, t)
      BY <2>1, <2>6, <1>1, <1>3, <1>4, <1>6, AdvanceRises, Zenon
    <3>2. loop' = M!NextLevel
      BY <2>1, <2>2, <2>6
    <3>3. /\ M!NextLevel \in Loops
          /\ M!NextLevel.pos = loop.pos /\ M!NextLevel.n = loop.n + 1
          /\ M!NextLevel.bs = 2 * loop.bs /\ M!NextLevel.min = MinOf(imap, t) /\ M!NextLevel.max = MaxOf(imap, t)
      BY <1>1, <1>5, NextLevelType
    <3>4. SameLoop(loop', Advance(imap, t)) /\ loop' \in Loops
      BY <3>1, <3>2, <3>3, <1>3 DEF SameLoop
    <3>5. Here(loop', sizes') = Advance(imap, t)
      BY <3>1, <3>4, <2>3, <2>4, HereIs
    <3> QED
      BY <3>5, <1>4 DEF t
  <2> QED
    BY <2>5, <2>6
<1> QED
  BY <1>8, <1>9

(* All that the counting pass has gone through, and its result. *)
Total(m, T, s) ==
  \E t : /\ TracedBy(m, T, t) /\ t.pos > Len(m)
         /\ t.entries = s.entries /\ t.levels = s.levels /\ t.blocks = s.blocks

LEMMA TotalFacts ==
  ASSUME NEW m, IsMap(m), NEW T, NEW s, Total(m, T, s), NEW u \in T
  PROVE  /\ u \in Traces
         /\ u.entries <= s.entries /\ u.levels <= s.levels /\ u.blocks <= s.blocks
         /\ u.pos <= Len(m) => Advance(m, u) \in T
         /\ ~(u.pos <= Len(m)) => u.entries = s.entries /\ u.levels = s.levels /\ u.blocks = s.blocks
<1>1. PICK t : /\ TracedBy(m, T, t) /\ t.pos > Len(m)
               /\ t.entries = s.entries /\ t.levels = s.levels /\ t.blocks = s.blocks
  BY Zenon DEF Total
<1>2. u \in Traces /\ t \in Traces /\ AtMostAs(u, t)
  BY <1>1, Zenon DEF TracedBy
<1>3. Len(m) \in Nat /\ t.pos \in Nat /\ u.pos \in Nat
  BY <1>2, MapShape DEF Traces
<1>4. u.pos <= Len(m) => u # t
  BY <1>1, <1>3
<1>5. u # t => u.pos <= Len(m) /\ Advance(m, u) \in T
  BY <1>1, Zenon DEF TracedBy
<1> QED
  BY <1>1, <1>2, <1>4, <1>5, Zenon DEF AtMostAs

(* The records of the levels of one range, from the pages up; k of them    *)
(* are followed by one more.                                               *)
Chain(m, g, k) ==
  /\ k \in Nat /\ \A j \in 0..k : g[j] \in Traces
  /\ g[0].pos <= Len(m) /\ Managed(m, g[0].pos)
  /\ g[0].n = 0 /\ g[0].bs = PageSize /\ g[0].min = 0 /\ g[0].max = 0
  /\ \A j \in 0..(k - 1) : g[j].n = j /\ g[j].pos = g[0].pos /\ g[j + 1] = Advance(m, g[j])
  /\ \A j \in 0..k : /\ g[j].levels = g[0].levels + j
                     /\ g[j].entries = IF j = 0 THEN g[0].entries ELSE g[0].entries + 1
                     /\ g[0].blocks <= g[j].blocks

Rising(m, g, k) == Chain(m, g, k) /\ g[k].n = k /\ g[k].pos = g[0].pos

Whole(m, g, k) ==
  /\ Chain(m, g, k) /\ k >= 1
  /\ g[k].pos = LastIn(m, g[0].pos) + 1
  /\ g[k].n = 0 /\ g[k].bs = PageSize /\ g[k].min = 0 /\ g[k].max = 0

Longer(m, g, k) == [j \in 0..(k + 1) |-> IF j <= k THEN g[j] ELSE Advance(m, g[k])]

LEMMA LongerFacts ==
  ASSUME NEW m, NEW g, NEW k \in Nat
  PROVE  /\ \A j \in 0..k : Longer(m, g, k)[j] = g[j]
         /\ Longer(m, g, k)[k + 1] = Advance(m, g[k])
         /\ k + 1 \in Nat /\ 0 \in 0..k /\ k \in 0..k
         /\ \A j \in 0..(k + 1) : j \in 0..k \/ j = k + 1
         /\ \A j \in 0..((k + 1) - 1) : j \in 0..(k - 1) \/ j = k
         /\ \A j \in 0..((k + 1) - 1) : j \in 0..k
  BY DEF Longer

LEMMA ChainStart ==
  ASSUME NEW m, NEW g, NEW k, Chain(m, g, k)
  PROVE  /\ k \in Nat /\ g[0] \in Traces /\ g[k] \in Traces /\ 0 \in 0..k /\ k \in 0..k
         /\ g[0].levels \in Nat /\ g[0].entries \in Nat /\ g[0].blocks \in Nat
<1>1. k \in Nat
  BY Zenon DEF Chain
<1>2. 0 \in 0..k /\ k \in 0..k
  BY <1>1
<1>3. g[0] \in Traces /\ g[k] \in Traces
  BY <1>2, Zenon DEF Chain
<1> QED
  BY <1>1, <1>2, <1>3 DEF Traces

LEMMA AdvanceCounts ==
  ASSUME NEW m, IsMap(m), NEW t \in Traces, t.pos <= Len(m), Managed(m, t.pos)
  PROVE  /\ Advance(m, t) \in Traces
         /\ Advance(m, t).entries = IF t.n = 0 THEN t.entries + 1 ELSE t.entries
         /\ Advance(m, t).levels = t.levels + 1
         /\ Advance(m, t).blocks = t.blocks + PoolOf(m, t)
         /\ PoolOf(m, t) \in Nat
<1>1. PoolOf(m, t) \in Nat
  BY TraceLevel, Zenon
<1>2. CASE NumOf(m, t) <= 1
  BY <1>1, <1>2, AdvanceLeaves, Zenon
<1>3. CASE ~(NumOf(m, t) <= 1)
  BY <1>1, <1>3, AdvanceRises, Zenon
<1> QED
  BY <1>2, <1>3

LEMMA ChainGrows ==
  ASSUME NEW m, IsMap(m), NEW g, NEW k, Rising(m, g, k)
  PROVE  Chain(m, Longer(m, g, k), k + 1)
<1> DEFINE h == Longer(m, g, k)
           s == Advance(m, g[k])
<1>1. /\ k \in Nat /\ g[0] \in Traces /\ g[k] \in Traces /\ Chain(m, g, k)
      /\ g[0].levels \in Nat /\ g[0].entries \in Nat /\ g[0].blocks \in Nat
      /\ g[k].n = k /\ g[k].pos = g[0].pos
  BY ChainStart, Zenon DEF Rising
<1>2. /\ \A j \in 0..k : h[j] = g[j]
      /\ h[k + 1] = s
      /\ k + 1 \in Nat /\ 0 \in 0..k /\ k \in 0..k
      /\ \A j \in 0..(k + 1) : j \in 0..k \/ j = k + 1
      /\ \A j \in 0..((k + 1) - 1) : j \in 0..(k - 1) \/ j = k
      /\ \A j \in 0..((k + 1) - 1) : j \in 0..k
  BY <1>1, LongerFacts
<1> HIDE DEF h
<1>3. h[0] = g[0] /\ h[k] = g[k]
  BY <1>2
<1>4. g[k].pos <= Len(m) /\ Managed(m, g[k].pos)
  BY <1>1, Zenon DEF Chain
<1>5. /\ s \in Traces
      /\ s.entries = IF g[k].n = 0 THEN g[k].entries + 1 ELSE g[k].entries
      /\ s.levels = g[k].levels + 1
      /\ s.blocks = g[k].blocks + PoolOf(m, g[k])
      /\ PoolOf(m, g[k]) \in Nat
  BY <1>1, <1>4, AdvanceCounts, Zenon
<1> HIDE DEF s
<1>6. /\ g[k].levels = g[0].levels + k
      /\ g[k].entries = IF k = 0 THEN g[0].entries ELSE g[0].entries + 1
      /\ g[0].blocks <= g[k].blocks
  BY <1>1, <1>2, Zenon DEF Chain
<1>7. g[k].levels \in Nat /\ g[k].entries \in Nat /\ g[k].blocks \in Nat
  BY <1>1 DEF Traces
<1>8. /\ s.levels = g[0].levels + (k + 1)
      /\ s.entries = g[0].entries + 1
      /\ g[0].blocks <= s.blocks /\ k + 1 # 0
  BY <1>1, <1>5, <1>6, <1>7
<1>9. \A j \in 0..(k + 1) : h[j] \in Traces
  BY <1>2, <1>5, <1>1, Zenon DEF Chain
<1>10. \A j \in 0..((k + 1) - 1) : h[j].n = j /\ h[j].pos = h[0].pos
  <2>1. \A j \in 0..(k - 1) : g[j].n = j /\ g[j].pos = g[0].pos
    BY <1>1, Zenon DEF Chain
  <2> QED
    BY <2>1, <1>1, <1>2, <1>3, Zenon
<1>11. \A j \in 0..((k + 1) - 1) : h[j + 1] = Advance(m, h[j])
  <2> TAKE j \in 0..((k + 1) - 1)
  <2>1. CASE j = k
    BY <2>1, <1>2, <1>3 DEF s
  <2>2. CASE j \in 0..(k - 1)
    <3>1. j + 1 \in 0..k /\ j \in 0..k
      BY <2>2, <1>1
    <3>2. g[j + 1] = Advance(m, g[j])
      BY <2>2, <1>1, Zenon DEF Chain
    <3> QED
      BY <3>1, <3>2, <1>2
  <2> QED
    BY <2>1, <2>2, <1>2
<1>12. \A j \in 0..(k + 1) : /\ h[j].levels = h[0].levels + j
                             /\ h[j].entries = IF j = 0 THEN h[0].entries ELSE h[0].entries + 1
                             /\ h[0].blocks <= h[j].blocks
  <2>1. \A j \in 0..k : /\ g[j].levels = g[0].levels + j
                        /\ g[j].entries = IF j = 0 THEN g[0].entries ELSE g[0].entries + 1
                        /\ g[0].blocks <= g[j].blocks
    BY <1>1, Zenon DEF Chain
  <2> TAKE j \in 0..(k + 1)
  <2>2. CASE j \in 0..k
    BY <2>1, <2>2, <1>2, <1>3
  <2>3. CASE j = k + 1
    BY <2>3, <1>2, <1>3, <1>8
  <2> QED
    BY <2>2, <2>3, <1>2
<1>13. /\ g[0].pos <= Len(m) /\ Managed(m, g[0].pos)
       /\ g[0].n = 0 /\ g[0].bs = PageSize /\ g[0].min = 0 /\ g[0].max = 0
  BY <1>1, Zenon DEF Chain
<1> QED
  BY <1>2, <1>3, <1>9, <1>10, <1>11, <1>12, <1>13, Zenon DEF Chain, h

LEMMA ChainRises ==
  ASSUME NEW m, IsMap(m), NEW g, NEW k, Rising(m, g, k), ~(NumOf(m, g[k]) <= 1)
  PROVE  /\ Rising(m, Longer(m, g, k), k + 1)
         /\ Advance(m, g[k]).pos = g[k].pos /\ Advance(m, g[k]).n = g[k].n + 1
         /\ Advance(m, g[k]).bs = 2 * g[k].bs
         /\ Advance(m, g[k]).min = MinOf(m, g[k]) /\ Advance(m, g[k]).max = MaxOf(m, g[k])
<1>1. Chain(m, Longer(m, g, k), k + 1)
  BY ChainGrows
<1>2. k \in Nat /\ g[k] \in Traces /\ g[k].n = k /\ g[k].pos = g[0].pos
  BY ChainStart, Zenon DEF Rising
<1>3. g[k].pos <= Len(m) /\ Managed(m, g[k].pos)
  BY Zenon DEF Rising, Chain
<1>4. /\ Advance(m, g[k]).pos = g[k].pos /\ Advance(m, g[k]).n = g[k].n + 1
      /\ Advance(m, g[k]).bs = 2 * g[k].bs
      /\ Advance(m, g[k]).min = MinOf(m, g[k]) /\ Advance(m, g[k]).max = MaxOf(m, g[k])
  <2>1. g[k] \in Traces
    BY <1>2
  <2> QED
    BY <2>1, <1>3, AdvanceRises, Zenon
<1>5. Longer(m, g, k)[k + 1] = Advance(m, g[k]) /\ Longer(m, g, k)[0] = g[0]
  BY <1>2, LongerFacts
<1> QED
  BY <1>1, <1>2, <1>4, <1>5 DEF Rising

LEMMA ChainEnds ==
  ASSUME NEW m, IsMap(m), NEW g, NEW k, Rising(m, g, k), NumOf(m, g[k]) <= 1
  PROVE  Whole(m, Longer(m, g, k), k + 1)
<1>1. Chain(m, Longer(m, g, k), k + 1)
  BY ChainGrows
<1>2. k \in Nat /\ g[k] \in Traces /\ g[k].n = k /\ g[k].pos = g[0].pos
  BY ChainStart, Zenon DEF Rising
<1>3. g[k].pos <= Len(m) /\ Managed(m, g[k].pos)
  BY Zenon DEF Rising, Chain
<1>4. /\ Advance(m, g[k]).pos = LastIn(m, g[k].pos) + 1 /\ Advance(m, g[k]).n = 0
      /\ Advance(m, g[k]).bs = PageSize /\ Advance(m, g[k]).min = 0 /\ Advance(m, g[k]).max = 0
  BY <1>2, <1>3, AdvanceLeaves, Zenon
<1>5. Longer(m, g, k)[k + 1] = Advance(m, g[k]) /\ Longer(m, g, k)[0] = g[0] /\ k + 1 >= 1
  BY <1>2, LongerFacts
<1> QED
  BY <1>1, <1>2, <1>4, <1>5 DEF Whole

(* One level of a range that has been gone through. *)
LEMMA ChainLevel ==
  ASSUME NEW m, IsMap(m), NEW g, NEW k, Chain(m, g, k), NEW j \in 0..(k - 1)
  PROVE  /\ g[j] \in Traces /\ g[j].pos <= Len(m) /\ Managed(m, g[j].pos) /\ g[j].n = j
         /\ g[j].pos = g[0].pos
         /\ g[j + 1] \in Traces /\ g[j + 1].blocks = g[j].blocks + PoolOf(m, g[j])
         /\ NumOf(m, g[j]) \in Int /\ MinOf(m, g[j]) \in Int /\ PoolOf(m, g[j]) \in Nat
<1>1. k \in Nat /\ g[j].n = j /\ g[j].pos = g[0].pos /\ g[j + 1] = Advance(m, g[j])
  BY Zenon DEF Chain
<1>2. j \in 0..k
  BY <1>1
<1>3. g[j] \in Traces /\ g[j].pos <= Len(m) /\ Managed(m, g[j].pos)
  BY <1>1, <1>2, Zenon DEF Chain
<1>4. /\ Advance(m, g[j]) \in Traces /\ Advance(m, g[j]).blocks = g[j].blocks + PoolOf(m, g[j])
      /\ PoolOf(m, g[j]) \in Nat
  BY <1>3, AdvanceCounts, Zenon
<1>5. NumOf(m, g[j]) \in Int /\ MinOf(m, g[j]) \in Int
  BY <1>3, TraceLevel
<1> QED
  BY <1>1, <1>3, <1>4, <1>5

LEMMA WholeRises ==
  ASSUME NEW m, IsMap(m), NEW g, NEW k, Whole(m, g, k), NEW j \in Nat, j + 1 < k
  PROVE  /\ g[j + 1].pos = g[j].pos /\ g[j + 1].n = g[j].n + 1
         /\ g[j + 1].bs = 2 * g[j].bs
         /\ g[j + 1].min = MinOf(m, g[j]) /\ g[j + 1].max = MaxOf(m, g[j])
<1>1. Chain(m, g, k) /\ k \in Nat
  BY Zenon DEF Whole, Chain
<1>2. j \in 0..(k - 1) /\ j + 1 \in 0..(k - 1)
  BY <1>1
<1>3. g[j] \in Traces /\ g[j].pos <= Len(m) /\ Managed(m, g[j].pos)
  BY <1>1, <1>2, ChainLevel, Zenon
<1>4. g[j + 1].n = j + 1 /\ g[j + 1] = Advance(m, g[j])
  BY <1>1, <1>2, Zenon DEF Chain
<1>5. ~(NumOf(m, g[j]) <= 1)
  <2>1. SUFFICES ASSUME NumOf(m, g[j]) <= 1
                 PROVE  FALSE
    OBVIOUS
  <2>2. Advance(m, g[j]).n = 0
    BY <2>1, <1>3, AdvanceLeaves, Zenon
  <2> QED
    BY <2>2, <1>4
<1>6. /\ Advance(m, g[j]).pos = g[j].pos /\ Advance(m, g[j]).n = g[j].n + 1
      /\ Advance(m, g[j]).bs = 2 * g[j].bs
      /\ Advance(m, g[j]).min = MinOf(m, g[j]) /\ Advance(m, g[j]).max = MaxOf(m, g[j])
  BY <1>3, <1>5, AdvanceRises, Zenon
<1> QED
  BY <1>4, <1>6

-----------------------------------------------------------------------------
(* The trees: their levels have the bounds the passes have computed, and   *)
(* the parts of the shared array they were given do not overlap.           *)

BlockFuns == {<< >>} \cup UNION {[0..(k - 1) -> 0..128] : k \in Int}
LevelSet == [start : Int, bs : Nat \ {0}, num : Int, at : Int, blocks : BlockFuns]
TreeSet == [type : MemTypes, start : Nat, end : Nat, numLevels : Nat, levels : Seq(LevelSet)]

LevelMade(m, v, t) == v.start = MinOf(m, t) /\ v.bs = t.bs /\ v.num = NumOf(m, t)
Filled128(v) == v.blocks \in [0..(v.num - 1) -> 0..128]

Placed(m, e, p) == e.type = m[p].type /\ e.start = m[p].start /\ e.end = End(m[LastIn(m, p)])

Complete(m, e) ==
  \E g : /\ Whole(m, g, e.numLevels) /\ Placed(m, e, g[0].pos)
         /\ Len(e.levels) = e.numLevels
         /\ \A j \in 1..e.numLevels :
              LevelMade(m, e.levels[j], g[e.numLevels - j]) /\ Filled128(e.levels[j])

OthersComplete(m, tr) == \A e \in DOMAIN tr : e # Len(tr) => Complete(m, tr[e])

Apart(v, w) == v.at + v.num <= w.at \/ w.at + w.num <= v.at

PoolInv(tr, b) ==
  /\ \A e \in DOMAIN tr : \A l \in DOMAIN tr[e].levels :
       LET v == tr[e].levels[l] IN v.at # -1 => v.at >= 0 /\ v.at + v.num <= b
  /\ \A e, f \in DOMAIN tr : \A l \in DOMAIN tr[e].levels : \A q \in DOMAIN tr[f].levels :
       <<e, l>> # <<f, q>> /\ tr[e].levels[l].at # -1 /\ tr[f].levels[q].at # -1 =>
         Apart(tr[e].levels[l], tr[f].levels[q])

(* The steps of the creation of a tree: the entry, its number of levels,   *)
(* its levels, their blocks.                                               *)
InEntry(m, T, l, us, tr) ==
  /\ l.n = 0 /\ l.bs = PageSize /\ l.min = 0 /\ l.max = 0
  /\ Here(l, us) \in T
  /\ \A e \in DOMAIN tr : Complete(m, tr[e])

InLevels(m, T, l, us, tr) ==
  /\ tr # << >> /\ OthersComplete(m, tr)
  /\ tr[Len(tr)].numLevels = l.n /\ tr[Len(tr)].levels = << >>
  /\ \E g : /\ Rising(m, g, l.n) /\ \A j \in 0..l.n : g[j] \in T
            /\ Placed(m, tr[Len(tr)], g[0].pos) /\ SameLoop(l, g[l.n])
            /\ us.entries = g[0].entries + 1 /\ us.levels = g[0].levels /\ us.blocks = g[0].blocks

InFill(m, T, l, us, tr) ==
  LET e == tr[Len(tr)]
      k == e.numLevels
  IN  /\ tr # << >> /\ OthersComplete(m, tr)
      /\ l.n < k /\ Len(e.levels) = l.n
      /\ \E g : /\ Whole(m, g, k) /\ \A j \in 0..k : g[j] \in T
                /\ Placed(m, e, g[0].pos) /\ SameLoop(l, g[l.n])
                /\ us.entries = g[k].entries /\ us.levels = g[k].levels /\ us.blocks = g[0].blocks
                /\ \A j \in 1..l.n : LevelMade(m, e.levels[j], g[l.n - j]) /\ e.levels[j].at = -1

InBlocks(m, T, l, us, tr) ==
  LET e == tr[Len(tr)]
      k == e.numLevels
  IN  /\ tr # << >> /\ OthersComplete(m, tr)
      /\ l.n < k /\ Len(e.levels) = k
      /\ \E g : /\ Whole(m, g, k) /\ \A j \in 0..k : g[j] \in T
                /\ Placed(m, e, g[0].pos) /\ l.pos = g[0].pos
                /\ us.entries = g[k].entries /\ us.levels = g[k].levels
                /\ us.blocks + g[k - l.n].blocks = g[0].blocks + g[k].blocks
                /\ \A j \in 1..k : /\ LevelMade(m, e.levels[j], g[k - j])
                                   /\ j > l.n => e.levels[j].at = -1
                                   /\ j <= l.n => Filled128(e.levels[j])

CreateInv(m, T, l, us, tr) ==
  /\ l.step = "entry" => InEntry(m, T, l, us, tr)
  /\ l.step = "levels" => InLevels(m, T, l, us, tr)
  /\ l.step = "fill" => InFill(m, T, l, us, tr)
  /\ l.step = "blocks" => InBlocks(m, T, l, us, tr)

TreeTypes ==
  /\ used \in [entries : Nat, levels : Nat, blocks : Nat]
  /\ tree \in Seq(TreeSet) /\ Len(tree) = used.entries
  /\ PoolInv(tree, used.blocks)

Created ==
  /\ success = TRUE /\ TreeTypes
  /\ \E T : Total(imap, T, sizes) /\ CreateInv(imap, T, loop, used, tree)

(* Another last tree. *)
LEMMA LastTree ==
  ASSUME NEW S, NEW tr \in Seq(S), tr # << >>, NEW f \in S
  PROVE  /\ Len(tr) \in DOMAIN tr /\ tr[Len(tr)] \in S /\ Len(tr) \in Nat
         /\ [tr EXCEPT ![Len(tr)] = f] \in Seq(S)
         /\ Len([tr EXCEPT ![Len(tr)] = f]) = Len(tr)
         /\ [tr EXCEPT ![Len(tr)] = f] # << >>
         /\ DOMAIN [tr EXCEPT ![Len(tr)] = f] = DOMAIN tr
         /\ [tr EXCEPT ![Len(tr)] = f][Len(tr)] = f
         /\ \A e \in DOMAIN tr : e # Len(tr) => [tr EXCEPT ![Len(tr)] = f][e] = tr[e]
  OBVIOUS

(* A tree with no part of the array yet, in place of another or new. *)
LEMMA PoolKept ==
  ASSUME NEW tr, NEW us, PoolInv(tr, us), NEW tr2, NEW n,
         \A e \in DOMAIN tr2 : e # n => e \in DOMAIN tr /\ tr2[e] = tr[e],
         \A l \in DOMAIN tr2[n].levels : tr2[n].levels[l].at = -1
  PROVE  PoolInv(tr2, us)
<1>1. ASSUME NEW e \in DOMAIN tr2, NEW l \in DOMAIN tr2[e].levels, tr2[e].levels[l].at # -1
      PROVE  /\ e \in DOMAIN tr /\ tr2[e] = tr[e]
             /\ tr2[e].levels[l].at >= 0 /\ tr2[e].levels[l].at + tr2[e].levels[l].num <= us
  <2>1. e # n
    BY <1>1, Zenon
  <2>2. e \in DOMAIN tr /\ tr2[e] = tr[e]
    BY <2>1, Zenon
  <2> QED
    BY <1>1, <2>2, Zenon DEF PoolInv
<1>2. ASSUME NEW e \in DOMAIN tr2, NEW f \in DOMAIN tr2, NEW l \in DOMAIN tr2[e].levels,
             NEW q \in DOMAIN tr2[f].levels, <<e, l>> # <<f, q>>,
             tr2[e].levels[l].at # -1, tr2[f].levels[q].at # -1
      PROVE  Apart(tr2[e].levels[l], tr2[f].levels[q])
  <2>1. e \in DOMAIN tr /\ tr2[e] = tr[e]
    BY <1>1, <1>2, Zenon
  <2>2. f \in DOMAIN tr /\ tr2[f] = tr[f]
    BY <1>1, <1>2, Zenon
  <2> QED
    BY <1>2, <2>1, <2>2, Zenon DEF PoolInv
<1> QED
  BY <1>1, <1>2, Zenon DEF PoolInv

LEMMA ChainOfOne ==
  ASSUME NEW m, NEW u \in Traces, u.pos <= Len(m), Managed(m, u.pos),
         u.n = 0, u.bs = PageSize, u.min = 0, u.max = 0
  PROVE  Rising(m, [j \in 0..0 |-> u], 0) /\ \A j \in 0..0 : [i \in 0..0 |-> u][j] = u
<1> DEFINE g == [j \in 0..0 |-> u]
<1>1. g[0] = u /\ \A j \in 0..0 : g[j] = u /\ j = 0
  OBVIOUS
<1>2. 0 \in Nat /\ 0..(0 - 1) = {}
  OBVIOUS
<1>3. u.levels \in Nat /\ u.blocks \in Nat
  BY DEF Traces
<1> HIDE DEF g
<1>4. u.levels = u.levels + 0 /\ u.blocks <= u.blocks
  BY <1>3
<1>5. \A j \in 0..0 : /\ g[j].levels = g[0].levels + j
                      /\ g[j].entries = IF j = 0 THEN g[0].entries ELSE g[0].entries + 1
                      /\ g[0].blocks <= g[j].blocks
  BY <1>1, <1>4
<1>6. Chain(m, g, 0)
  BY <1>1, <1>2, <1>5 DEF Chain
<1> QED
  BY <1>1, <1>6 DEF Rising, g

LEMMA CreateContext ==
  ASSUME MapFacts, StructTypes, Created
  PROVE  /\ IsMap(imap) /\ loop \in Loops /\ success = TRUE
         /\ used \in [entries : Nat, levels : Nat, blocks : Nat]
         /\ used.entries \in Nat /\ used.levels \in Nat /\ used.blocks \in Nat
         /\ tree \in Seq(TreeSet) /\ Len(tree) = used.entries /\ PoolInv(tree, used.blocks)
         /\ Len(imap) \in Nat /\ DOMAIN imap = 1..Len(imap) /\ Sorted(imap)
<1>1. IsMap(imap)
  BY DEF MapFacts, IsMap
<1>2. used \in [entries : Nat, levels : Nat, blocks : Nat]
  BY DEF Created, TreeTypes
<1> QED
  BY <1>1, <1>2, MapShape DEF StructTypes, Created, TreeTypes

LEMMA WantedFacts ==
  ASSUME MapFacts, loop \in Loops, M!Wanted
  PROVE  /\ M!AtRange /\ loop.pos \in 1..Len(imap) /\ loop.pos \in Nat \ {0} /\ loop.pos <= Len(imap)
         /\ Managed(imap, loop.pos) /\ LastIn(imap, loop.pos) \in 1..Len(imap)
         /\ NumOf(imap, loop) \in Int /\ MinOf(imap, loop) \in Int
         /\ M!NumBlocks = NumOf(imap, loop) /\ M!Min = MinOf(imap, loop)
<1>1. M!AtRange /\ Managed(imap, loop.pos)
  BY DEF M!Wanted, Managed, M!First
<1>2. /\ Len(imap) \in Nat /\ loop.pos \in 1..Len(imap) /\ LastIn(imap, loop.pos) \in loop.pos..Len(imap)
      /\ NumOf(imap, loop) \in Int /\ MinOf(imap, loop) \in Int
  BY <1>1, AtRangeFacts
<1> QED
  BY <1>1, <1>2, LevelOfLoop

LEMMA NewTree ==
  ASSUME MapFacts, loop \in Loops, M!Wanted,
         NEW e, e = [type |-> M!First.type, start |-> M!RangeStart, end |-> M!RangeEnd,
                     numLevels |-> 0, levels |-> << >>]
  PROVE  e \in TreeSet /\ Placed(imap, e, loop.pos) /\ e.numLevels = 0 /\ e.levels = << >>
<1>1. /\ loop.pos \in 1..Len(imap) /\ LastIn(imap, loop.pos) \in 1..Len(imap)
  BY WantedFacts
<1>2. DOMAIN imap = 1..Len(imap) /\ Sorted(imap)
  BY MapShape DEF IsMap, MapFacts
<1>3. /\ imap[loop.pos].type \in MemTypes /\ imap[loop.pos].start \in Nat
      /\ End(imap[LastIn(imap, loop.pos)]) \in Nat
  BY <1>1, <1>2 DEF Sorted, Bounded, EntrySet
<1>4. /\ M!First.type = imap[loop.pos].type /\ M!RangeStart = imap[loop.pos].start
      /\ M!RangeEnd = End(imap[LastIn(imap, loop.pos)])
  BY LastOfIsLast, TopIsEnd DEF M!First, M!RangeStart, M!RangeEnd
<1>5. << >> \in Seq(LevelSet)
  OBVIOUS
<1> QED
  BY <1>3, <1>4, <1>5 DEF TreeSet, Placed

LEMMA CreateEntryKeeps ==
  ASSUME MapFacts, StructTypes, Created, M!CreateEntry
  PROVE  Created'
<1> DEFINE u == Here(loop, used)
           e == [type |-> M!First.type, start |-> M!RangeStart, end |-> M!RangeEnd,
                 numLevels |-> 0, levels |-> << >>]
           g == [j \in 0..0 |-> u]
<1>1. /\ IsMap(imap) /\ loop \in Loops /\ success = TRUE
      /\ used \in [entries : Nat, levels : Nat, blocks : Nat]
      /\ used.entries \in Nat /\ used.levels \in Nat /\ used.blocks \in Nat
      /\ tree \in Seq(TreeSet) /\ Len(tree) = used.entries /\ PoolInv(tree, used.blocks)
  BY CreateContext, Zenon
<1>2. loop.step = "entry" /\ M!Wanted /\ imap' = imap /\ sizes' = sizes
  BY DEF M!CreateEntry
<1>3. PICK T : Total(imap, T, sizes) /\ InEntry(imap, T, loop, used, tree)
  BY <1>2, Zenon DEF Created, CreateInv
<1>4. /\ loop.pos \in Nat \ {0} /\ loop.pos <= Len(imap) /\ Managed(imap, loop.pos)
  BY <1>1, <1>2, WantedFacts, Zenon
<1>5. /\ u \in Traces /\ u.pos = loop.pos /\ u.n = 0 /\ u.bs = PageSize /\ u.min = 0 /\ u.max = 0
      /\ u.entries = used.entries /\ u.levels = used.levels /\ u.blocks = used.blocks
      /\ u \in T
  BY <1>1, <1>3, HereFacts DEF InEntry, SameLoop
<1> HIDE DEF u
<1>6. Advance(imap, u) \in T
  BY <1>1, <1>3, <1>4, <1>5, TotalFacts
<1>7. Advance(imap, u).entries <= sizes.entries
  BY <1>1, <1>3, <1>6, TotalFacts, Zenon
<1>8. Advance(imap, u).entries = used.entries + 1
  BY <1>1, <1>4, <1>5, AdvanceCounts
<1>9. used.entries + 1 <= sizes.entries
  BY <1>7, <1>8
<1>10. /\ used' = [used EXCEPT !.entries = @ + 1] /\ success' = TRUE
       /\ tree' = Append(tree, e) /\ loop' = M!LoopAt(loop.pos, "levels")
  BY <1>1, <1>9 DEF M!CreateEntry
<1>11. /\ used' \in [entries : Nat, levels : Nat, blocks : Nat]
       /\ used'.entries = used.entries + 1 /\ used'.levels = used.levels /\ used'.blocks = used.blocks
  BY <1>1, <1>10
<1>12. "levels" \in Steps
  BY DEF Steps
<1>13. /\ loop' \in Loops /\ loop'.pos = loop.pos /\ loop'.step = "levels" /\ loop'.n = 0
       /\ loop'.bs = PageSize /\ loop'.min = 0 /\ loop'.max = 0
  BY <1>4, <1>10, <1>12, LoopAtType
<1>14. e \in TreeSet /\ Placed(imap, e, loop.pos) /\ e.numLevels = 0 /\ e.levels = << >>
  BY <1>1, <1>2, NewTree
<1> HIDE DEF e
<1>15. /\ tree' \in Seq(TreeSet) /\ Len(tree') = Len(tree) + 1 /\ tree' # << >>
       /\ \A i \in DOMAIN tree' : i # Len(tree') => i \in DOMAIN tree /\ tree'[i] = tree[i]
       /\ tree'[Len(tree')] = e
  BY <1>1, <1>10, <1>14
<1>16. PoolInv(tree', used.blocks)
  <2>1. DOMAIN e.levels = {}
    BY <1>14
  <2>2. \A l \in DOMAIN tree'[Len(tree')].levels : tree'[Len(tree')].levels[l].at = -1
    BY <2>1, <1>15
  <2> QED
    BY <2>2, <1>1, <1>15, PoolKept
<1>17. TreeTypes'
  BY <1>1, <1>11, <1>15, <1>16 DEF TreeTypes
<1>18. Rising(imap, g, 0) /\ \A j \in 0..0 : g[j] = u
  BY <1>4, <1>5, ChainOfOne
<1>19. 0 \in 0..0
  OBVIOUS
<1>20. g[0] = u
  BY <1>18, <1>19, Zenon
<1> HIDE DEF g
<1>21. SameLoop(loop', u)
  BY <1>5, <1>13 DEF SameLoop
<1>22. OthersComplete(imap, tree')
  BY <1>3, <1>15, Zenon DEF InEntry, OthersComplete
<1>23. InLevels(imap, T, loop', used', tree')
  <2>1. \A j \in 0..0 : g[j] \in T
    BY <1>5, <1>18, Zenon
  <2>2. used'.entries = g[0].entries + 1 /\ used'.levels = g[0].levels /\ used'.blocks = g[0].blocks
    BY <1>5, <1>11, <1>20
  <2>3. Placed(imap, tree'[Len(tree')], g[0].pos)
    BY <1>5, <1>14, <1>15, <1>20, Zenon
  <2>4. \E f : /\ Rising(imap, f, loop'.n) /\ \A j \in 0..loop'.n : f[j] \in T
               /\ Placed(imap, tree'[Len(tree')], f[0].pos) /\ SameLoop(loop', f[loop'.n])
               /\ used'.entries = f[0].entries + 1 /\ used'.levels = f[0].levels /\ used'.blocks = f[0].blocks
    BY <2>1, <2>2, <2>3, <1>13, <1>18, <1>20, <1>21, Zenon
  <2> QED
    BY <2>4, <1>13, <1>14, <1>15, <1>22, Zenon DEF InLevels
<1>24. CreateInv(imap, T, loop', used', tree')
  BY <1>13, <1>23 DEF CreateInv
<1> QED
  BY <1>2, <1>3, <1>10, <1>17, <1>24, Zenon DEF Created

LEMMA TreeUpdate ==
  ASSUME NEW e \in TreeSet, NEW n \in Nat
  PROVE  /\ [e EXCEPT !.numLevels = n] \in TreeSet
         /\ [e EXCEPT !.numLevels = n].numLevels = n
         /\ [e EXCEPT !.numLevels = n].levels = e.levels
         /\ \A m, p : Placed(m, [e EXCEPT !.numLevels = n], p) = Placed(m, e, p)
  BY DEF TreeSet, Placed

LEMMA CreateTreeLevelsKeeps ==
  ASSUME MapFacts, StructTypes, Created, M!CreateTreeLevels
  PROVE  Created'
<1> DEFINE old == tree[Len(tree)]
           e == [old EXCEPT !.numLevels = loop.n + 1]
<1>1. /\ IsMap(imap) /\ loop \in Loops /\ success = TRUE
      /\ used \in [entries : Nat, levels : Nat, blocks : Nat]
      /\ used.entries \in Nat /\ used.levels \in Nat /\ used.blocks \in Nat
      /\ tree \in Seq(TreeSet) /\ Len(tree) = used.entries /\ PoolInv(tree, used.blocks)
  BY CreateContext, Zenon
<1>2. loop.step = "levels" /\ M!Wanted /\ imap' = imap /\ sizes' = sizes /\ M!N = Len(tree)
  BY DEF M!CreateTreeLevels, M!N
<1>3. PICK T : Total(imap, T, sizes) /\ InLevels(imap, T, loop, used, tree)
  BY <1>2, Zenon DEF Created, CreateInv
<1>4. PICK g : /\ Rising(imap, g, loop.n) /\ \A j \in 0..loop.n : g[j] \in T
               /\ Placed(imap, old, g[0].pos) /\ SameLoop(loop, g[loop.n])
               /\ used.entries = g[0].entries + 1 /\ used.levels = g[0].levels /\ used.blocks = g[0].blocks
  BY <1>3, Zenon DEF InLevels
<1>5. tree # << >> /\ OthersComplete(imap, tree) /\ old.numLevels = loop.n /\ old.levels = << >>
  BY <1>3, Zenon DEF InLevels
<1>6. /\ loop.n \in Nat /\ loop.pos \in Nat \ {0} /\ M!NumBlocks = NumOf(imap, loop) /\ M!AtRange
      /\ loop.n + 1 \in Nat /\ loop.pos <= Len(imap)
  BY <1>1, <1>2, WantedFacts DEF Loops
<1>7. old \in TreeSet /\ Len(tree) \in DOMAIN tree /\ Len(tree) \in Nat
  BY <1>1, <1>5, LastTree
<1> HIDE DEF old
<1>8. /\ e \in TreeSet /\ e.numLevels = loop.n + 1 /\ e.levels = << >>
      /\ Placed(imap, e, g[0].pos)
  BY <1>4, <1>5, <1>6, <1>7, TreeUpdate
<1>9. tree' = [tree EXCEPT ![Len(tree)] = e]
  BY <1>2, <1>5, <1>7 DEF M!CreateTreeLevels, old
<1> HIDE DEF e
<1>10. /\ tree' \in Seq(TreeSet) /\ Len(tree') = Len(tree) /\ tree' # << >>
       /\ DOMAIN tree' = DOMAIN tree /\ tree'[Len(tree)] = e
       /\ \A i \in DOMAIN tree : i # Len(tree) => tree'[i] = tree[i]
  BY <1>1, <1>5, <1>8, <1>9, LastTree
<1>11. PoolInv(tree', used.blocks)
  <2>1. DOMAIN e.levels = {}
    BY <1>8
  <2>2. \A l \in DOMAIN tree'[Len(tree)].levels : tree'[Len(tree)].levels[l].at = -1
    BY <2>1, <1>10
  <2>3. \A i \in DOMAIN tree' : i # Len(tree) => i \in DOMAIN tree /\ tree'[i] = tree[i]
    BY <1>10, Zenon
  <2> QED
    BY <2>2, <2>3, <1>1, PoolKept
<1>12. OthersComplete(imap, tree')
  BY <1>5, <1>10 DEF OthersComplete
<1> DEFINE h == Longer(imap, g, loop.n)
           k == loop.n + 1
<1>13. /\ \A j \in 0..loop.n : h[j] = g[j]
       /\ h[k] = Advance(imap, g[loop.n]) /\ 0 \in 0..loop.n /\ loop.n \in 0..loop.n
       /\ \A j \in 0..k : j \in 0..loop.n \/ j = k
  BY <1>6, LongerFacts
<1>14. g[loop.n] \in T /\ g[loop.n].pos <= Len(imap) /\ h[0] = g[0]
  BY <1>4, <1>6, <1>13, Zenon DEF SameLoop
<1>15. h[k] \in T
  BY <1>1, <1>3, <1>13, <1>14, TotalFacts
<1> HIDE DEF h
<1>16. \A j \in 0..k : h[j] \in T
  BY <1>4, <1>13, <1>15, Zenon
<1>17. NumOf(imap, loop) = NumOf(imap, g[loop.n]) /\ MinOf(imap, loop) = MinOf(imap, g[loop.n])
       /\ MaxOf(imap, loop) = MaxOf(imap, g[loop.n])
  BY <1>4, SameLoopSameLevel, Zenon
<1>18. CASE ~(M!NumBlocks <= 1)
  <2>0. ~(NumOf(imap, g[loop.n]) <= 1)
    BY <1>6, <1>17, <1>18
  <2>1. loop' = M!NextLevel /\ used' = used /\ success' = success
    BY <1>18 DEF M!CreateTreeLevels
  <2>2. /\ Rising(imap, h, k)
        /\ Advance(imap, g[loop.n]).pos = g[loop.n].pos /\ Advance(imap, g[loop.n]).n = g[loop.n].n + 1
        /\ Advance(imap, g[loop.n]).bs = 2 * g[loop.n].bs
        /\ Advance(imap, g[loop.n]).min = MinOf(imap, g[loop.n])
        /\ Advance(imap, g[loop.n]).max = MaxOf(imap, g[loop.n])
    BY <2>0, <1>1, <1>4, ChainRises DEF h
  <2>3. /\ loop' \in Loops /\ loop'.pos = loop.pos /\ loop'.step = "levels" /\ loop'.n = k
        /\ loop'.bs = 2 * loop.bs /\ loop'.min = MinOf(imap, loop) /\ loop'.max = MaxOf(imap, loop)
    BY <2>1, <1>1, <1>2, <1>6, NextLevelType
  <2>4. SameLoop(loop', h[k])
    BY <2>2, <2>3, <1>4, <1>13, <1>17 DEF SameLoop
  <2>5. Placed(imap, e, h[0].pos)
    BY <1>8, <1>14
  <2>6. used'.entries = h[0].entries + 1 /\ used'.levels = h[0].levels /\ used'.blocks = h[0].blocks
    BY <2>1, <1>4, <1>14
  <2> HIDE DEF k
  <2>7. \E f : /\ Rising(imap, f, loop'.n) /\ \A j \in 0..loop'.n : f[j] \in T
               /\ Placed(imap, tree'[Len(tree')], f[0].pos) /\ SameLoop(loop', f[loop'.n])
               /\ used'.entries = f[0].entries + 1 /\ used'.levels = f[0].levels /\ used'.blocks = f[0].blocks
    BY <2>2, <2>3, <2>4, <2>5, <2>6, <1>10, <1>16, Zenon
  <2>8. tree'[Len(tree')].numLevels = loop'.n /\ tree'[Len(tree')].levels = << >>
    BY <2>3, <1>8, <1>10 DEF k
  <2>9. InLevels(imap, T, loop', used', tree')
    BY <2>7, <2>8, <1>10, <1>12, Zenon DEF InLevels
  <2>10. CreateInv(imap, T, loop', used', tree')
    BY <2>3, <2>9 DEF CreateInv
  <2>11. TreeTypes'
    BY <2>1, <1>1, <1>10, <1>11 DEF TreeTypes
  <2> QED
    BY <2>1, <2>10, <2>11, <1>1, <1>2, <1>3, Zenon DEF Created
<1>19. CASE M!NumBlocks <= 1
  <2>0. NumOf(imap, g[loop.n]) <= 1
    BY <1>6, <1>17, <1>19
  <2>1. /\ used' = [used EXCEPT !.levels = @ + loop.n + 1]
        /\ success' = (success /\ used'.levels <= sizes.levels)
        /\ loop' = M!LoopAt(loop.pos, "fill")
    BY <1>19 DEF M!CreateTreeLevels
  <2>2. Whole(imap, h, k)
    BY <2>0, <1>1, <1>4, ChainEnds DEF h
  <2>3. "fill" \in Steps
    BY DEF Steps
  <2>4. /\ loop' \in Loops /\ loop'.pos = loop.pos /\ loop'.step = "fill" /\ loop'.n = 0
        /\ loop'.bs = PageSize /\ loop'.min = 0 /\ loop'.max = 0
    BY <2>1, <2>3, <1>6, LoopAtType
  <2>5. /\ h[0].n = 0 /\ h[0].bs = PageSize /\ h[0].min = 0 /\ h[0].max = 0
        /\ Chain(imap, h, k)
    BY <2>2, Zenon DEF Whole, Chain
  <2>6. g[0].pos = loop.pos
    BY <1>4 DEF Rising, SameLoop
  <2>7. SameLoop(loop', h[0])
    BY <2>4, <2>5, <2>6, <1>14 DEF SameLoop
  <2>8. k \in 0..k /\ k # 0 /\ 0 < k
    BY <1>6
  <2> HIDE DEF k
  <2>9. h[k].levels = h[0].levels + k /\ h[k].entries = h[0].entries + 1 /\ h[k] \in T
    BY <2>5, <2>8, <1>15, Zenon DEF Chain
  <2>10. h[k].levels <= sizes.levels
    BY <2>9, <1>1, <1>3, TotalFacts, Zenon
  <2>11. used'.levels = used.levels + loop.n + 1 /\ used'.entries = used.entries /\ used'.blocks = used.blocks
    BY <2>1, <1>1
  <2>12. used'.levels = h[k].levels
    BY <2>9, <2>11, <1>1, <1>4, <1>6, <1>14 DEF k
  <2>13. success' = TRUE
    BY <2>1, <2>10, <2>12, <1>1
  <2>14. used' \in [entries : Nat, levels : Nat, blocks : Nat]
    BY <2>1, <1>1, <1>6
  <2>15. used'.entries = h[k].entries /\ used'.blocks = h[0].blocks
    BY <2>9, <2>11, <1>4, <1>14
  <2>16. TreeTypes'
    BY <2>11, <2>14, <1>1, <1>10, <1>11 DEF TreeTypes
  <2>17. e.numLevels = k /\ Placed(imap, e, h[0].pos) /\ Len(e.levels) = 0
    BY <1>8, <1>14 DEF k
  <2>18. \A j \in 1..0 : LevelMade(imap, e.levels[j], h[0 - j]) /\ e.levels[j].at = -1
    OBVIOUS
  <2>19. InFill(imap, T, loop', used', tree')
    BY <2>2, <2>4, <2>7, <2>8, <2>12, <2>15, <2>17, <2>18, <1>10, <1>12, <1>16 DEF InFill
  <2>20. CreateInv(imap, T, loop', used', tree')
    BY <2>4, <2>19 DEF CreateInv
  <2> QED
    BY <2>13, <2>16, <2>20, <1>2, <1>3, Zenon DEF Created
<1> QED
  BY <1>18, <1>19

LEMMA LevelsUpdate ==
  ASSUME NEW e \in TreeSet, NEW s \in Seq(LevelSet)
  PROVE  /\ [e EXCEPT !.levels = s] \in TreeSet
         /\ [e EXCEPT !.levels = s].levels = s
         /\ [e EXCEPT !.levels = s].numLevels = e.numLevels
         /\ \A m, p : Placed(m, [e EXCEPT !.levels = s], p) = Placed(m, e, p)
  BY DEF TreeSet, Placed

LEMMA InFront ==
  ASSUME NEW S, NEW s \in Seq(S), NEW v \in S
  PROVE  /\ <<v>> \o s \in Seq(S) /\ Len(<<v>> \o s) = Len(s) + 1 /\ Len(s) \in Nat
         /\ DOMAIN s = 1..Len(s) /\ DOMAIN (<<v>> \o s) = 1..(Len(s) + 1)
         /\ (<<v>> \o s)[1] = v
         /\ \A j \in 2..(Len(s) + 1) : (<<v>> \o s)[j] = s[j - 1] /\ j - 1 \in 1..Len(s)
  OBVIOUS

LEMMA NewLevel ==
  ASSUME MapFacts, loop \in Loops, M!Wanted, NEW t, SameLoop(loop, t),
         NEW v, v = [start |-> M!Min, bs |-> loop.bs, num |-> M!NumBlocks, at |-> -1, blocks |-> << >>]
  PROVE  v \in LevelSet /\ v.at = -1 /\ LevelMade(imap, v, t)
<1>1. /\ NumOf(imap, loop) \in Int /\ MinOf(imap, loop) \in Int
      /\ M!NumBlocks = NumOf(imap, loop) /\ M!Min = MinOf(imap, loop)
  BY WantedFacts
<1>2. NumOf(imap, loop) = NumOf(imap, t) /\ MinOf(imap, loop) = MinOf(imap, t) /\ loop.bs = t.bs
  BY SameLoopSameLevel DEF SameLoop
<1>3. loop.bs \in Nat \ {0} /\ -1 \in Int /\ << >> \in BlockFuns
  BY DEF Loops, BlockFuns
<1> QED
  BY <1>1, <1>2, <1>3 DEF LevelSet, LevelMade

LEMMA FillTreeLevelStructsKeeps ==
  ASSUME MapFacts, StructTypes, Created, M!FillTreeLevelStructs
  PROVE  Created'
<1> DEFINE old == tree[Len(tree)]
           v == [start |-> M!Min, bs |-> loop.bs, num |-> M!NumBlocks, at |-> -1, blocks |-> << >>]
           s == <<v>> \o old.levels
           e == [old EXCEPT !.levels = s]
           k == old.numLevels
           n == loop.n
<1>1. /\ IsMap(imap) /\ loop \in Loops /\ success = TRUE
      /\ used \in [entries : Nat, levels : Nat, blocks : Nat]
      /\ used.entries \in Nat /\ used.levels \in Nat /\ used.blocks \in Nat
      /\ tree \in Seq(TreeSet) /\ Len(tree) = used.entries /\ PoolInv(tree, used.blocks)
  BY CreateContext, Zenon
<1>2. loop.step = "fill" /\ M!Wanted /\ imap' = imap /\ sizes' = sizes /\ M!N = Len(tree)
      /\ used' = used /\ success' = TRUE
  BY <1>1 DEF M!FillTreeLevelStructs, M!N
<1>3. PICK T : Total(imap, T, sizes) /\ InFill(imap, T, loop, used, tree)
  BY <1>2, Zenon DEF Created, CreateInv
<1>4. PICK g : /\ Whole(imap, g, k) /\ \A j \in 0..k : g[j] \in T
               /\ Placed(imap, old, g[0].pos) /\ SameLoop(loop, g[n])
               /\ used.entries = g[k].entries /\ used.levels = g[k].levels /\ used.blocks = g[0].blocks
               /\ \A j \in 1..n : LevelMade(imap, old.levels[j], g[n - j]) /\ old.levels[j].at = -1
  BY <1>3, Zenon DEF InFill
<1>5. tree # << >> /\ OthersComplete(imap, tree) /\ n < k /\ Len(old.levels) = n
  BY <1>3, Zenon DEF InFill
<1>6. n \in Nat /\ loop.pos \in Nat \ {0} /\ M!AtRange
  BY <1>1, <1>2, WantedFacts DEF Loops
<1>0. old \in TreeSet /\ Len(tree) \in DOMAIN tree /\ Len(tree) \in Nat
  BY <1>1, <1>5, LastTree
<1> HIDE DEF old
<1>7. k \in Nat /\ old.levels \in Seq(LevelSet)
  BY <1>0 DEF TreeSet
<1>8. v \in LevelSet /\ v.at = -1 /\ LevelMade(imap, v, g[n])
  BY <1>1, <1>2, <1>4, NewLevel
<1>9. tree' = [tree EXCEPT ![Len(tree)] = e]
  BY <1>2 DEF M!FillTreeLevelStructs, old
<1>10. loop' = IF n + 1 = k THEN M!LoopAt(loop.pos, "blocks") ELSE M!NextLevel
  BY <1>2 DEF M!FillTreeLevelStructs, old
<1> HIDE DEF v
<1>11. /\ s \in Seq(LevelSet) /\ Len(s) = n + 1
       /\ DOMAIN s = 1..(n + 1) /\ s[1] = v
       /\ \A j \in 2..(n + 1) : s[j] = old.levels[j - 1] /\ j - 1 \in 1..n
  BY <1>5, <1>7, <1>8, InFront
<1> HIDE DEF s
<1>12. /\ e \in TreeSet /\ e.levels = s /\ e.numLevels = k /\ Placed(imap, e, g[0].pos)
  BY <1>0, <1>4, <1>7, <1>11, LevelsUpdate
<1> HIDE DEF e
<1>13. \A j \in 1..(n + 1) : LevelMade(imap, s[j], g[(n + 1) - j]) /\ s[j].at = -1
  <2> TAKE j \in 1..(n + 1)
  <2>1. CASE j = 1
    <3>1. (n + 1) - j = n
      BY <2>1, <1>6
    <3> QED
      BY <3>1, <2>1, <1>8, <1>11
  <2>2. CASE j # 1
    <3>1. j \in 2..(n + 1) /\ (n + 1) - j = n - (j - 1)
      BY <2>2, <1>6
    <3>2. s[j] = old.levels[j - 1] /\ j - 1 \in 1..n
      BY <3>1, <1>11
    <3>3. LevelMade(imap, old.levels[j - 1], g[n - (j - 1)]) /\ old.levels[j - 1].at = -1
      BY <3>2, <1>4
    <3> QED
      BY <3>1, <3>2, <3>3
  <2> QED
    BY <2>1, <2>2
<1>14. /\ tree' \in Seq(TreeSet) /\ Len(tree') = Len(tree) /\ tree' # << >>
       /\ DOMAIN tree' = DOMAIN tree /\ tree'[Len(tree)] = e
       /\ \A i \in DOMAIN tree : i # Len(tree) => tree'[i] = tree[i]
  BY <1>1, <1>5, <1>9, <1>12, LastTree
<1>15. PoolInv(tree', used.blocks)
  <2>1. \A l \in DOMAIN s : s[l].at = -1
    BY <1>11, <1>13
  <2>2. \A l \in DOMAIN tree'[Len(tree)].levels : tree'[Len(tree)].levels[l].at = -1
    BY <2>1, <1>12, <1>14
  <2>3. \A i \in DOMAIN tree' : i # Len(tree) => i \in DOMAIN tree /\ tree'[i] = tree[i]
    BY <1>14, Zenon
  <2> QED
    BY <2>2, <2>3, <1>1, PoolKept
<1>16. OthersComplete(imap, tree')
  BY <1>5, <1>14 DEF OthersComplete
<1>17. TreeTypes'
  BY <1>1, <1>2, <1>14, <1>15 DEF TreeTypes
<1>18. CASE n + 1 = k
  <2>1. loop' = M!LoopAt(loop.pos, "blocks") /\ "blocks" \in Steps
    BY <1>10, <1>18 DEF Steps
  <2>2. loop'.pos = loop.pos /\ loop'.step = "blocks" /\ loop'.n = 0
    BY <2>1, <1>6, LoopAtType
  <2>3. loop.pos = g[0].pos
    <3>1. n \in 0..(k - 1)
      BY <1>5, <1>6, <1>7
    <3>2. g[n].pos = g[0].pos
      BY <3>1, <1>4, Zenon DEF Whole, Chain
    <3> QED
      BY <3>2, <1>4 DEF SameLoop
  <2>4. k - 0 = k /\ 0 < k
    BY <1>5, <1>6, <1>7
  <2>5. used.blocks + g[k - 0].blocks = g[0].blocks + g[k].blocks
    BY <2>4, <1>4
  <2>6. \A j \in 1..k : /\ LevelMade(imap, e.levels[j], g[k - j])
                        /\ j > 0 => e.levels[j].at = -1
                        /\ j <= 0 => Filled128(e.levels[j])
    BY <1>12, <1>13, <1>18
  <2>7. Len(e.levels) = k
    BY <1>11, <1>12, <1>18
  <2> HIDE DEF k, n
  <2>8. InBlocks(imap, T, loop', used', tree')
    <3>1. tree'[Len(tree')] = e /\ tree' # << >> /\ e.numLevels = k
      BY <1>12, <1>14
    <3>2. \E f : /\ Whole(imap, f, k) /\ \A j \in 0..k : f[j] \in T
                 /\ Placed(imap, e, f[0].pos) /\ loop'.pos = f[0].pos
                 /\ used'.entries = f[k].entries /\ used'.levels = f[k].levels
                 /\ used'.blocks + f[k - 0].blocks = f[0].blocks + f[k].blocks
                 /\ \A j \in 1..k : /\ LevelMade(imap, e.levels[j], f[k - j])
                                    /\ j > 0 => e.levels[j].at = -1
                                    /\ j <= 0 => Filled128(e.levels[j])
      BY <2>2, <2>3, <2>5, <2>6, <1>2, <1>4, <1>12, Zenon
    <3> QED
      BY <3>1, <3>2, <2>2, <2>4, <2>7, <1>16, Zenon DEF InBlocks
  <2>9. CreateInv(imap, T, loop', used', tree')
    BY <2>2, <2>8 DEF CreateInv
  <2> QED
    BY <2>9, <1>2, <1>3, <1>17, Zenon DEF Created
<1>19. CASE n + 1 # k
  <2>1. loop' = M!NextLevel /\ n + 1 < k
    BY <1>5, <1>6, <1>7, <1>10, <1>19
  <2>2. /\ g[n + 1].pos = g[n].pos /\ g[n + 1].n = g[n].n + 1
        /\ g[n + 1].bs = 2 * g[n].bs
        /\ g[n + 1].min = MinOf(imap, g[n]) /\ g[n + 1].max = MaxOf(imap, g[n])
    BY <2>1, <1>1, <1>4, <1>6, WholeRises
  <2>3. /\ loop'.pos = loop.pos /\ loop'.step = "fill" /\ loop'.n = n + 1
        /\ loop'.bs = 2 * loop.bs /\ loop'.min = MinOf(imap, loop) /\ loop'.max = MaxOf(imap, loop)
    BY <2>1, <1>1, <1>2, <1>6, NextLevelType
  <2>4. MinOf(imap, loop) = MinOf(imap, g[n]) /\ MaxOf(imap, loop) = MaxOf(imap, g[n])
    BY <1>4, SameLoopSameLevel, Zenon
  <2>5. SameLoop(loop', g[n + 1])
    BY <2>2, <2>3, <2>4, <1>4 DEF SameLoop
  <2>6. Len(e.levels) = n + 1 /\ \A j \in 1..(n + 1) : LevelMade(imap, e.levels[j], g[(n + 1) - j]) /\ e.levels[j].at = -1
    BY <1>11, <1>12, <1>13
  <2>7. loop'.n = n + 1
    BY <2>3
  <2> DEFINE o == n + 1
  <2> HIDE DEF k, n
  <2>8. o < k /\ Len(e.levels) = o /\ SameLoop(loop', g[o])
        /\ \A j \in 1..o : LevelMade(imap, e.levels[j], g[o - j]) /\ e.levels[j].at = -1
    BY <2>1, <2>5, <2>6
  <2> HIDE DEF o
  <2>9. loop'.n = o
    BY <2>7 DEF o
  <2>10. InFill(imap, T, loop', used', tree')
    <3>1. tree'[Len(tree')] = e /\ tree' # << >> /\ e.numLevels = k
      BY <1>12, <1>14
    <3>2. \E f : /\ Whole(imap, f, k) /\ \A j \in 0..k : f[j] \in T
                 /\ Placed(imap, e, f[0].pos) /\ SameLoop(loop', f[o])
                 /\ used'.entries = f[k].entries /\ used'.levels = f[k].levels
                 /\ used'.blocks = f[0].blocks
                 /\ \A j \in 1..o : LevelMade(imap, e.levels[j], f[o - j]) /\ e.levels[j].at = -1
      BY <2>8, <1>2, <1>4, <1>12, Zenon
    <3> QED
      BY <3>1, <3>2, <2>8, <2>9, <1>16, Zenon DEF InFill
  <2>11. CreateInv(imap, T, loop', used', tree')
    BY <2>3, <2>10 DEF CreateInv
  <2> QED
    BY <2>11, <1>2, <1>3, <1>17, Zenon DEF Created
<1> QED
  BY <1>18, <1>19

(* A level is given the next part of the array. *)
OtherLevelsStay(tr, tr2, n, l) ==
  /\ DOMAIN tr2 = DOMAIN tr /\ \A e \in DOMAIN tr : e # n => tr2[e] = tr[e]
  /\ DOMAIN tr2[n].levels = DOMAIN tr[n].levels
  /\ \A q \in DOMAIN tr[n].levels : q # l => tr2[n].levels[q] = tr[n].levels[q]
IsNextPart(w, b, c) == w.at # -1 => w.at = b /\ b + w.num <= c /\ w.num \in Int

LEMMA PoolTaken ==
  ASSUME NEW tr \in Seq(TreeSet), NEW b \in Nat, NEW c \in Nat, b <= c, PoolInv(tr, b),
         NEW tr2, NEW n \in DOMAIN tr, NEW l, OtherLevelsStay(tr, tr2, n, l), IsNextPart(tr2[n].levels[l], b, c)
  PROVE  PoolInv(tr2, c)
<1>0. /\ DOMAIN tr2 = DOMAIN tr /\ \A e \in DOMAIN tr : e # n => tr2[e] = tr[e]
      /\ DOMAIN tr2[n].levels = DOMAIN tr[n].levels
      /\ \A q \in DOMAIN tr[n].levels : q # l => tr2[n].levels[q] = tr[n].levels[q]
      /\ tr2[n].levels[l].at # -1 => /\ tr2[n].levels[l].at = b /\ b + tr2[n].levels[l].num <= c
                                     /\ tr2[n].levels[l].num \in Int
  BY Zenon DEF OtherLevelsStay, IsNextPart
<1>1. ASSUME NEW e \in DOMAIN tr2, NEW q \in DOMAIN tr2[e].levels, tr2[e].levels[q].at # -1, <<e, q>> # <<n, l>>
      PROVE  /\ e \in DOMAIN tr /\ q \in DOMAIN tr[e].levels /\ tr2[e].levels[q] = tr[e].levels[q]
             /\ tr2[e].levels[q].at \in Int /\ tr2[e].levels[q].num \in Int
             /\ tr2[e].levels[q].at >= 0 /\ tr2[e].levels[q].at + tr2[e].levels[q].num <= b
  <2>1. e \in DOMAIN tr /\ q \in DOMAIN tr[e].levels /\ tr2[e].levels[q] = tr[e].levels[q]
    BY <1>0, <1>1, Zenon
  <2>2. tr[e] \in TreeSet
    BY <2>1
  <2>3. tr[e].levels \in Seq(LevelSet)
    BY <2>2 DEF TreeSet
  <2>4. tr[e].levels[q] \in LevelSet
    BY <2>1, <2>3
  <2>5. tr[e].levels[q].at \in Int /\ tr[e].levels[q].num \in Int
    BY <2>4 DEF LevelSet
  <2>6. tr[e].levels[q].at >= 0 /\ tr[e].levels[q].at + tr[e].levels[q].num <= b
    BY <2>1, <1>1, Zenon DEF PoolInv
  <2> QED
    BY <2>1, <2>5, <2>6
<1>2. ASSUME NEW e \in DOMAIN tr2, NEW q \in DOMAIN tr2[e].levels, tr2[e].levels[q].at # -1
      PROVE  tr2[e].levels[q].at >= 0 /\ tr2[e].levels[q].at + tr2[e].levels[q].num <= c
  <2>1. CASE e = n /\ q = l
    BY <2>1, <1>0, <1>2
  <2>2. CASE ~(e = n /\ q = l)
    <3>1. <<e, q>> # <<n, l>>
      BY <2>2
    <3> QED
      BY <3>1, <1>1, <1>2
  <2> QED
    BY <2>1, <2>2
<1>3. ASSUME NEW e \in DOMAIN tr2, NEW q \in DOMAIN tr2[e].levels, tr2[e].levels[q].at # -1, <<e, q>> # <<n, l>>,
             tr2[n].levels[l].at # -1
      PROVE  Apart(tr2[e].levels[q], tr2[n].levels[l]) /\ Apart(tr2[n].levels[l], tr2[e].levels[q])
  <2>1. tr2[e].levels[q].at + tr2[e].levels[q].num <= tr2[n].levels[l].at
    BY <1>0, <1>1, <1>3
  <2> QED
    BY <2>1 DEF Apart
<1>4. ASSUME NEW e \in DOMAIN tr2, NEW f \in DOMAIN tr2, NEW i \in DOMAIN tr2[e].levels,
             NEW q \in DOMAIN tr2[f].levels, <<e, i>> # <<f, q>>,
             tr2[e].levels[i].at # -1, tr2[f].levels[q].at # -1
      PROVE  Apart(tr2[e].levels[i], tr2[f].levels[q])
  <2>1. CASE <<e, i>> = <<n, l>>
    <3>1. e = n /\ i = l
      BY <2>1
    <3>2. <<f, q>> # <<n, l>>
      BY <2>1, <1>4
    <3> QED
      BY <3>1, <3>2, <1>3, <1>4, Zenon
  <2>2. CASE <<f, q>> = <<n, l>>
    <3>1. f = n /\ q = l
      BY <2>2
    <3>2. <<e, i>> # <<n, l>>
      BY <2>2, <1>4
    <3> QED
      BY <3>1, <3>2, <1>3, <1>4, Zenon
  <2>3. CASE <<e, i>> # <<n, l>> /\ <<f, q>> # <<n, l>>
    <3>1. e \in DOMAIN tr /\ i \in DOMAIN tr[e].levels /\ tr2[e].levels[i] = tr[e].levels[i]
      BY <2>3, <1>1, <1>4, Zenon
    <3>2. f \in DOMAIN tr /\ q \in DOMAIN tr[f].levels /\ tr2[f].levels[q] = tr[f].levels[q]
      BY <2>3, <1>1, <1>4, Zenon
    <3> QED
      BY <3>1, <3>2, <1>4, Zenon DEF PoolInv
  <2> QED
    BY <2>1, <2>2, <2>3
<1> QED
  BY <1>2, <1>4, Zenon DEF PoolInv

LEMMA PlacedLevel ==
  ASSUME NEW v \in LevelSet, NEW a \in Int, v.num \in Int
  PROVE  LET w == [v EXCEPT !.at = a, !.blocks = [b \in 0..(v.num - 1) |-> M!Unavailable]]
         IN  /\ w \in LevelSet /\ w.at = a /\ w.num = v.num /\ Filled128(w)
             /\ \A m, t : LevelMade(m, v, t) => LevelMade(m, w, t)
<1> DEFINE f == [b \in 0..(v.num - 1) |-> M!Unavailable]
           w == [v EXCEPT !.at = a, !.blocks = f]
<1>1. f \in [0..(v.num - 1) -> 0..128]
  BY DEF M!Unavailable
<1>2. f \in BlockFuns
  BY <1>1 DEF BlockFuns
<1> HIDE DEF f
<1>3. w \in LevelSet /\ w.at = a /\ w.num = v.num /\ w.blocks = f /\ w.start = v.start /\ w.bs = v.bs
  BY <1>2 DEF LevelSet
<1>4. Filled128(w)
  BY <1>1, <1>3 DEF Filled128
<1>5. \A m, t : LevelMade(m, v, t) => LevelMade(m, w, t)
  BY <1>3 DEF LevelMade
<1> QED
  BY <1>3, <1>4, <1>5 DEF f

(* Another level in its place. *)
LEMMA InPlaceOf ==
  ASSUME NEW S, NEW s \in Seq(S), NEW l \in DOMAIN s, NEW w \in S
  PROVE  /\ [s EXCEPT ![l] = w] \in Seq(S) /\ Len([s EXCEPT ![l] = w]) = Len(s)
         /\ DOMAIN [s EXCEPT ![l] = w] = DOMAIN s /\ [s EXCEPT ![l] = w][l] = w
         /\ \A j \in DOMAIN s : j # l => [s EXCEPT ![l] = w][j] = s[j]
  OBVIOUS

(* What the level whose blocks come next takes of the array. *)
LEMMA NextPart ==
  ASSUME NEW m, IsMap(m), NEW g, NEW k, Whole(m, g, k), NEW n \in Nat, n < k, NEW b \in Nat,
         b + g[k - n].blocks = g[0].blocks + g[k].blocks
  PROVE  LET i == k - (n + 1)
         IN  /\ i \in 0..(k - 1) /\ NumOf(m, g[i]) \in Int /\ PoolOf(m, g[i]) \in Nat
             /\ (b + PoolOf(m, g[i])) + g[i].blocks = g[0].blocks + g[k].blocks
             /\ b + PoolOf(m, g[i]) <= g[k].blocks
<1> DEFINE i == k - (n + 1)
<1>1. Chain(m, g, k) /\ k \in Nat
  BY Zenon DEF Whole, Chain
<1>2. i \in 0..(k - 1) /\ i \in 0..k /\ i + 1 = k - n
  BY <1>1
<1> HIDE DEF i
<1>3. /\ g[i] \in Traces /\ g[i + 1].blocks = g[i].blocks + PoolOf(m, g[i])
      /\ NumOf(m, g[i]) \in Int /\ PoolOf(m, g[i]) \in Nat
  BY <1>1, <1>2, ChainLevel
<1>4. g[0].blocks <= g[i].blocks
  BY <1>1, <1>2, Zenon DEF Chain
<1>5. g[0].blocks \in Nat /\ g[k] \in Traces
  BY <1>1, ChainStart, Zenon
<1>6. g[i].blocks \in Nat /\ g[k].blocks \in Nat
  BY <1>3, <1>5 DEF Traces
<1>7. b + (g[i].blocks + PoolOf(m, g[i])) = g[0].blocks + g[k].blocks
  BY <1>2, <1>3
<1>8. (b + PoolOf(m, g[i])) + g[i].blocks = g[0].blocks + g[k].blocks
  BY <1>3, <1>6, <1>7
<1>9. b + PoolOf(m, g[i]) <= g[k].blocks
  BY <1>3, <1>4, <1>5, <1>6, <1>8
<1> QED
  BY <1>2, <1>3, <1>8, <1>9 DEF i

LEMMA CreateTreeLevelBlocksKeeps ==
  ASSUME MapFacts, StructTypes, Created, M!CreateTreeLevelBlocks
  PROVE  Created'
<1> DEFINE old == tree[Len(tree)]
           k == old.numLevels
           n == loop.n
           l == n + 1
           v == old.levels[l]
           i == k - l
<1>1. /\ IsMap(imap) /\ loop \in Loops /\ success = TRUE
      /\ used \in [entries : Nat, levels : Nat, blocks : Nat]
      /\ used.entries \in Nat /\ used.levels \in Nat /\ used.blocks \in Nat
      /\ tree \in Seq(TreeSet) /\ Len(tree) = used.entries /\ PoolInv(tree, used.blocks)
  BY CreateContext, Zenon
<1>2. loop.step = "blocks" /\ M!Wanted /\ imap' = imap /\ sizes' = sizes /\ M!N = Len(tree)
  BY <1>1 DEF M!CreateTreeLevelBlocks, M!N
<1>3. PICK T : Total(imap, T, sizes) /\ InBlocks(imap, T, loop, used, tree)
  BY <1>2, Zenon DEF Created, CreateInv
<1>4. PICK g : /\ Whole(imap, g, k) /\ \A j \in 0..k : g[j] \in T
               /\ Placed(imap, old, g[0].pos) /\ loop.pos = g[0].pos
               /\ used.entries = g[k].entries /\ used.levels = g[k].levels
               /\ used.blocks + g[k - n].blocks = g[0].blocks + g[k].blocks
               /\ \A j \in 1..k : /\ LevelMade(imap, old.levels[j], g[k - j])
                                  /\ j > n => old.levels[j].at = -1
                                  /\ j <= n => Filled128(old.levels[j])
  BY <1>3, Zenon DEF InBlocks
<1>5. tree # << >> /\ OthersComplete(imap, tree) /\ n < k /\ Len(old.levels) = k
  BY <1>3, Zenon DEF InBlocks
<1>6. n \in Nat /\ loop.pos \in Nat \ {0} /\ M!AtRange
  BY <1>1, <1>2, WantedFacts DEF Loops
<1>7. old \in TreeSet /\ Len(tree) \in DOMAIN tree /\ Len(tree) \in Nat
  BY <1>1, <1>5, LastTree
<1> DEFINE num == v.num
           at == IF M!InPool(num) THEN used.blocks ELSE -1
           w == [v EXCEPT !.at = at, !.blocks = [b \in 0..(num - 1) |-> M!Unavailable]]
           s == [old.levels EXCEPT ![l] = w]
           e == [old EXCEPT !.levels = s]
           fits == M!InPool(num) => used.blocks + num <= sizes.blocks
<1>8. /\ used' = IF M!InPool(num) THEN [used EXCEPT !.blocks = @ + num] ELSE used
      /\ tree' = [tree EXCEPT ![Len(tree)] = e]
      /\ success' = (success /\ fits)
      /\ loop' = IF fits /\ l < k THEN [loop EXCEPT !.n = @ + 1] ELSE M!NextRange
  BY <1>2, <1>7 DEF M!CreateTreeLevelBlocks
<1> HIDE DEF old
<1>9. k \in Nat /\ old.levels \in Seq(LevelSet) /\ DOMAIN old.levels = 1..k /\ l \in 1..k
  BY <1>5, <1>6, <1>7 DEF TreeSet
<1>10. v \in LevelSet
  BY <1>9
<1>11. v.num \in Int
  BY <1>10 DEF LevelSet
<1>12. LevelMade(imap, v, g[i])
  BY <1>4, <1>9
<1>13. /\ i \in 0..(k - 1) /\ NumOf(imap, g[i]) \in Int /\ PoolOf(imap, g[i]) \in Nat
       /\ (used.blocks + PoolOf(imap, g[i])) + g[i].blocks = g[0].blocks + g[k].blocks
       /\ used.blocks + PoolOf(imap, g[i]) <= g[k].blocks
  BY <1>1, <1>4, <1>5, <1>6, NextPart
<1> HIDE DEF v, k, i
<1>14. num = NumOf(imap, g[i])
  BY <1>12 DEF LevelMade
<1>15. k \in 0..k
  BY <1>9
<1>16. g[k] \in T
  BY <1>4, <1>15, Zenon
<1>17. g[k].blocks <= sizes.blocks /\ g[k] \in Traces
  BY <1>1, <1>3, <1>16, TotalFacts, Zenon
<1>18. used.blocks + PoolOf(imap, g[i]) <= sizes.blocks
  <2>1. sizes.blocks \in Nat
    BY DEF StructTypes
  <2>2. g[k].blocks \in Nat
    BY <1>17 DEF Traces
  <2>3. used.blocks + PoolOf(imap, g[i]) \in Nat
    BY <1>1, <1>13
  <2> QED
    BY <2>1, <2>2, <2>3, <1>13, <1>17
<1>19. fits
  BY <1>14, <1>18 DEF PoolOf, M!InPool
<1>20. success' = TRUE
  BY <1>1, <1>8, <1>19
<1>21. /\ used' \in [entries : Nat, levels : Nat, blocks : Nat]
       /\ used'.entries = used.entries /\ used'.levels = used.levels
       /\ used'.blocks = used.blocks + PoolOf(imap, g[i])
  <2>1. CASE M!InPool(num)
    <3>1. PoolOf(imap, g[i]) = num /\ used' = [used EXCEPT !.blocks = used.blocks + PoolOf(imap, g[i])]
      BY <2>1, <1>8, <1>14 DEF PoolOf, M!InPool
    <3> QED
      BY <3>1, <1>1, <1>13
  <2>2. CASE ~M!InPool(num)
    <3>1. PoolOf(imap, g[i]) = 0 /\ used' = used
      BY <2>2, <1>8, <1>14 DEF PoolOf, M!InPool
    <3> QED
      BY <3>1, <1>1
  <2> QED
    BY <2>1, <2>2
<1>22. at \in Int
  BY <1>1
<1>23. /\ w \in LevelSet /\ w.at = at /\ w.num = v.num /\ Filled128(w)
       /\ LevelMade(imap, w, g[i])
  <2> HIDE DEF at
  <2> QED
    BY <1>10, <1>11, <1>12, <1>22, PlacedLevel
<1> HIDE DEF w
<1>24. /\ s \in Seq(LevelSet) /\ Len(s) = k /\ DOMAIN s = 1..k /\ s[l] = w
       /\ \A j \in 1..k : j # l => s[j] = old.levels[j]
  BY <1>5, <1>9, <1>23, InPlaceOf
<1> HIDE DEF s
<1>25. /\ e \in TreeSet /\ e.levels = s /\ e.numLevels = k /\ Placed(imap, e, g[0].pos)
  BY <1>4, <1>7, <1>24, LevelsUpdate DEF k
<1> HIDE DEF e
<1>26. /\ tree' \in Seq(TreeSet) /\ Len(tree') = Len(tree) /\ tree' # << >>
       /\ DOMAIN tree' = DOMAIN tree /\ tree'[Len(tree)] = e
       /\ \A j \in DOMAIN tree : j # Len(tree) => tree'[j] = tree[j]
  BY <1>1, <1>5, <1>8, <1>25, LastTree
<1>27. PoolInv(tree', used'.blocks)
  <2>1. used'.blocks \in Nat /\ used.blocks <= used'.blocks
    BY <1>1, <1>13, <1>21
  <2>2. DOMAIN tree'[Len(tree)].levels = DOMAIN tree[Len(tree)].levels
    BY <1>9, <1>24, <1>25, <1>26 DEF old
  <2>3. \A q \in DOMAIN tree[Len(tree)].levels : q # l => tree'[Len(tree)].levels[q] = tree[Len(tree)].levels[q]
    BY <1>9, <1>24, <1>25, <1>26 DEF old
  <2>4. tree'[Len(tree)].levels[l] = w
    BY <1>24, <1>25, <1>26
  <2>5. w.at # -1 => w.at = used.blocks /\ used.blocks + w.num <= used'.blocks /\ w.num \in Int
    <3>1. CASE M!InPool(num)
      <4>1. PoolOf(imap, g[i]) = num
        BY <3>1, <1>14 DEF PoolOf, M!InPool
      <4> QED
        BY <3>1, <4>1, <1>1, <1>11, <1>21, <1>23
    <3>2. CASE ~M!InPool(num)
      BY <3>2, <1>23
    <3> QED
      BY <3>1, <3>2
  <2> HIDE DEF l
  <2>6. IsNextPart(tree'[Len(tree)].levels[l], used.blocks, used'.blocks)
    BY <2>4, <2>5 DEF IsNextPart
  <2>7. OtherLevelsStay(tree, tree', Len(tree), l)
    BY <2>2, <2>3, <1>26, Zenon DEF OtherLevelsStay
  <2> QED
    BY <2>1, <2>6, <2>7, <1>1, <1>7, PoolTaken, Zenon
<1>28. OthersComplete(imap, tree')
  BY <1>5, <1>26 DEF OthersComplete
<1>29. TreeTypes'
  BY <1>1, <1>21, <1>26, <1>27 DEF TreeTypes
<1>30. \A j \in 1..k : /\ LevelMade(imap, s[j], g[k - j])
                       /\ j > l => s[j].at = -1
                       /\ j <= l => Filled128(s[j])
  <2> TAKE j \in 1..k
  <2>1. CASE j = l
    BY <2>1, <1>9, <1>23, <1>24 DEF i
  <2>2. CASE j # l
    <3>1. s[j] = old.levels[j]
      BY <2>2, <1>24
    <3>2. (j > l => j > n) /\ (j <= l => j <= n)
      BY <2>2, <1>6
    <3> QED
      BY <3>1, <3>2, <1>4, Zenon
  <2> QED
    BY <2>1, <2>2
<1>31. CASE l < k
  <2>1. loop' = [loop EXCEPT !.n = l]
    BY <1>8, <1>19, <1>31
  <2>2. loop'.n = l /\ loop'.pos = loop.pos /\ loop'.step = "blocks"
    BY <2>1, <1>1, <1>2 DEF Loops
  <2>3. used'.blocks + g[k - l].blocks = g[0].blocks + g[k].blocks
    BY <1>13, <1>21 DEF i
  <2>4. tree'[Len(tree')] = e /\ e.numLevels = k /\ Len(e.levels) = k /\ e.levels = s
    BY <1>24, <1>25, <1>26
  <2> HIDE DEF l, n
  <2>5. \E f : /\ Whole(imap, f, k) /\ \A j \in 0..k : f[j] \in T
               /\ Placed(imap, e, f[0].pos) /\ loop'.pos = f[0].pos
               /\ used'.entries = f[k].entries /\ used'.levels = f[k].levels
               /\ used'.blocks + f[k - l].blocks = f[0].blocks + f[k].blocks
               /\ \A j \in 1..k : /\ LevelMade(imap, s[j], f[k - j])
                                  /\ j > l => s[j].at = -1
                                  /\ j <= l => Filled128(s[j])
    BY <2>2, <2>3, <1>4, <1>21, <1>25, <1>30, Zenon
  <2>6. InBlocks(imap, T, loop', used', tree')
    BY <2>2, <2>4, <2>5, <1>26, <1>28, <1>31, ZenonT(40) DEF InBlocks
  <2>7. CreateInv(imap, T, loop', used', tree')
    BY <2>2, <2>6 DEF CreateInv
  <2> QED
    BY <2>7, <1>2, <1>3, <1>20, <1>29, Zenon DEF Created
<1>32. CASE ~(l < k)
  <2>1. loop' = M!NextRange /\ i = 0 /\ l = k
    BY <1>8, <1>9, <1>32 DEF i
  <2>2. /\ loop' \in Loops /\ loop'.pos = LastIn(imap, loop.pos) + 1 /\ loop'.step = "entry"
        /\ loop'.n = 0 /\ loop'.bs = PageSize /\ loop'.min = 0 /\ loop'.max = 0
    BY <2>1, <1>1, <1>6, NextRangeFacts
  <2>3. /\ g[k].pos = LastIn(imap, g[0].pos) + 1
        /\ g[k].n = 0 /\ g[k].bs = PageSize /\ g[k].min = 0 /\ g[k].max = 0
    BY <1>4, Zenon DEF Whole
  <2>4. SameLoop(loop', g[k])
    BY <2>2, <2>3, <1>4 DEF SameLoop
  <2>5. used'.entries = g[k].entries /\ used'.levels = g[k].levels
    BY <1>4, <1>21
  <2>6. used'.blocks = g[k].blocks
    <3>1. g[0].blocks \in Nat /\ g[k].blocks \in Nat /\ used'.blocks \in Nat
      <4>1. g[0] \in Traces /\ g[k] \in Traces
        BY <1>4, ChainStart, Zenon DEF Whole
      <4> QED
        BY <4>1, <1>21 DEF Traces
    <3>2. used'.blocks + g[0].blocks = g[0].blocks + g[k].blocks
      BY <2>1, <1>13, <1>21
    <3> QED
      BY <3>1, <3>2
  <2>7. used'.entries \in Nat /\ used'.levels \in Nat /\ used'.blocks \in Nat
    BY <1>21
  <2>8. Here(loop', used') = g[k]
    BY <2>2, <2>4, <2>5, <2>6, <2>7, <1>17, HereIs, Zenon
  <2>9. Complete(imap, e)
    <3>1. \A j \in 1..k : LevelMade(imap, s[j], g[k - j]) /\ Filled128(s[j])
      <4>1. \A j \in 1..k : j <= l
        BY <2>1
      <4> QED
        BY <4>1, <1>30, Zenon
    <3>2. e.numLevels = k /\ e.levels = s /\ Len(s) = k
      BY <1>24, <1>25
    <3> QED
      BY <3>1, <3>2, <1>4, <1>25, Zenon DEF Complete
  <2>10. \A j \in DOMAIN tree' : Complete(imap, tree'[j])
    BY <2>9, <1>26, <1>28, Zenon DEF OthersComplete
  <2>11. InEntry(imap, T, loop', used', tree')
    BY <2>2, <2>8, <2>10, <1>16 DEF InEntry
  <2>12. CreateInv(imap, T, loop', used', tree')
    BY <2>2, <2>11 DEF CreateInv
  <2> QED
    BY <2>12, <1>2, <1>3, <1>20, <1>29, Zenon DEF Created
<1> QED
  BY <1>31, <1>32

(* A range that is no memory to allocate from is passed over.              *)
LEMMA SkipRangeKeeps ==
  ASSUME MapFacts, StructTypes, Created, pc = "create", M!SkipRange, loop.step = "entry"
  PROVE  Created'
<1> DEFINE u == Here(loop, used)
<1>1. /\ IsMap(imap) /\ loop \in Loops /\ success = TRUE
      /\ used.entries \in Nat /\ used.levels \in Nat /\ used.blocks \in Nat
  BY CreateContext, Zenon
<1>2. /\ M!AtRange /\ ~M!Wanted /\ imap' = imap /\ sizes' = sizes /\ loop' = M!NextRange
      /\ used' = used /\ tree' = tree /\ success' = success
  BY DEF M!SkipRange
<1>3. PICK T : Total(imap, T, sizes) /\ InEntry(imap, T, loop, used, tree)
  BY <1>2, Zenon DEF Created, CreateInv
<1>4. loop.pos <= Len(imap) /\ ~Managed(imap, loop.pos)
  BY <1>2 DEF M!AtRange, M!Wanted, Managed, M!First
<1>5. /\ u \in Traces /\ u.pos = loop.pos
      /\ u.entries = used.entries /\ u.levels = used.levels /\ u.blocks = used.blocks
      /\ u \in T
  BY <1>1, <1>3, HereFacts DEF InEntry
<1> HIDE DEF u
<1>6. Advance(imap, u) \in T
  BY <1>1, <1>3, <1>4, <1>5, TotalFacts
<1>7. /\ Advance(imap, u) \in Traces
      /\ Advance(imap, u).pos = LastIn(imap, u.pos) + 1 /\ Advance(imap, u).n = 0
      /\ Advance(imap, u).bs = PageSize /\ Advance(imap, u).min = 0 /\ Advance(imap, u).max = 0
      /\ Advance(imap, u).entries = u.entries /\ Advance(imap, u).levels = u.levels
      /\ Advance(imap, u).blocks = u.blocks
  BY <1>1, <1>4, <1>5, AdvanceSkips
<1>8. /\ loop' \in Loops /\ loop'.pos = LastIn(imap, loop.pos) + 1 /\ loop'.step = "entry"
      /\ loop'.n = 0 /\ loop'.bs = PageSize /\ loop'.min = 0 /\ loop'.max = 0
  BY <1>1, <1>2, NextRangeFacts
<1>9. SameLoop(loop', Advance(imap, u))
  BY <1>5, <1>7, <1>8 DEF SameLoop
<1>10. Here(loop', used) = Advance(imap, u)
  BY <1>1, <1>5, <1>7, <1>8, <1>9, HereIs
<1>11. InEntry(imap, T, loop', used, tree)
  BY <1>3, <1>6, <1>8, <1>10 DEF InEntry
<1>12. CreateInv(imap, T, loop', used, tree)
  BY <1>8, <1>11 DEF CreateInv
<1>13. TreeTypes'
  BY <1>2 DEF TreeTypes, Created
<1> QED
  BY <1>1, <1>2, <1>3, <1>12, <1>13, Zenon DEF Created

Within == used.entries <= sizes.entries /\ used.levels <= sizes.levels /\ used.blocks <= sizes.blocks

(* What is handed out was counted.                                         *)
LEMMA CreatedIsWithin ==
  ASSUME MapFacts, StructTypes, Created
  PROVE  Within
<1>1. /\ IsMap(imap) /\ loop \in Loops
      /\ used.entries \in Nat /\ used.levels \in Nat /\ used.blocks \in Nat
  BY CreateContext, Zenon
<1>2. PICK T : Total(imap, T, sizes) /\ CreateInv(imap, T, loop, used, tree)
  BY Zenon DEF Created
<1>3. sizes.entries \in Nat /\ sizes.levels \in Nat /\ sizes.blocks \in Nat
  BY DEF StructTypes
<1>4. \A u \in T : /\ u \in Traces /\ u.entries <= sizes.entries /\ u.levels <= sizes.levels /\ u.blocks <= sizes.blocks
                   /\ u.pos <= Len(imap) => Advance(imap, u) \in T
  BY <1>1, <1>2, TotalFacts, Zenon
<1>5. CASE loop.step = "entry"
  <2>1. Here(loop, used) \in T
    BY <1>2, <1>5 DEF CreateInv, InEntry
  <2>2. /\ Here(loop, used).entries = used.entries /\ Here(loop, used).levels = used.levels
        /\ Here(loop, used).blocks = used.blocks
    BY DEF Here
  <2> QED
    BY <2>1, <2>2, <1>4 DEF Within
<1>6. CASE loop.step = "levels"
  <2>1. PICK g : /\ Rising(imap, g, loop.n) /\ \A j \in 0..loop.n : g[j] \in T
                 /\ used.entries = g[0].entries + 1 /\ used.levels = g[0].levels /\ used.blocks = g[0].blocks
    BY <1>2, <1>6, Zenon DEF CreateInv, InLevels
  <2>2. g[0] \in Traces /\ 0 \in 0..loop.n
    BY <2>1, ChainStart, Zenon DEF Rising
  <2>3. g[0] \in T
    BY <2>1, <2>2, Zenon
  <2>4. g[0].n = 0 /\ g[0].pos <= Len(imap) /\ Managed(imap, g[0].pos)
    BY <2>1, Zenon DEF Rising, Chain
  <2>5. Advance(imap, g[0]) \in T
    BY <2>3, <2>4, <1>4, Zenon
  <2>6. Advance(imap, g[0]).entries = g[0].entries + 1
    BY <2>2, <2>4, <1>1, AdvanceCounts
  <2>7. used.entries <= sizes.entries
    BY <2>1, <2>5, <2>6, <1>4
  <2> QED
    BY <2>1, <2>3, <2>7, <1>4 DEF Within
<1> DEFINE k == tree[Len(tree)].numLevels
<1>7. CASE loop.step = "fill"
  <2>1. PICK g : /\ Whole(imap, g, k) /\ \A j \in 0..k : g[j] \in T
                 /\ used.entries = g[k].entries /\ used.levels = g[k].levels /\ used.blocks = g[0].blocks
    BY <1>2, <1>7, Zenon DEF CreateInv, InFill
  <2>2. 0 \in 0..k /\ k \in 0..k
    BY <2>1, ChainStart, Zenon DEF Whole
  <2>3. g[0] \in T /\ g[k] \in T
    BY <2>1, <2>2, Zenon
  <2> QED
    BY <2>1, <2>3, <1>4 DEF Within
<1>8. CASE loop.step = "blocks"
  <2>1. PICK g : /\ Whole(imap, g, k) /\ \A j \in 0..k : g[j] \in T
                 /\ used.entries = g[k].entries /\ used.levels = g[k].levels
                 /\ used.blocks + g[k - loop.n].blocks = g[0].blocks + g[k].blocks
    BY <1>2, <1>8, Zenon DEF CreateInv, InBlocks
  <2>2. 0 \in 0..k /\ k \in 0..k /\ k \in Nat /\ Chain(imap, g, k)
    BY <2>1, ChainStart, Zenon DEF Whole
  <2>3. g[0] \in T /\ g[k] \in T
    BY <2>1, <2>2, Zenon
  <2>4. loop.n < k /\ loop.n \in Nat
    BY <1>1, <1>2, <1>8 DEF CreateInv, InBlocks, Loops
  <2> HIDE DEF k
  <2>5. k - loop.n \in 0..k
    BY <2>2, <2>4
  <2>6. g[0].blocks <= g[k - loop.n].blocks /\ g[k - loop.n] \in T
    BY <2>1, <2>2, <2>5 DEF Chain
  <2>7. g[0].blocks \in Nat /\ g[k].blocks \in Nat /\ g[k - loop.n].blocks \in Nat
    BY <2>3, <2>6, <1>4 DEF Traces
  <2>8. used.blocks <= g[k].blocks
    BY <2>1, <2>6, <2>7, <1>1
  <2>9. g[k].entries <= sizes.entries /\ g[k].levels <= sizes.levels /\ g[k].blocks <= sizes.blocks
    BY <2>3, <1>4, Zenon
  <2>10. used.blocks <= sizes.blocks
    BY <2>7, <2>8, <2>9, <1>1, <1>3
  <2> QED
    BY <2>1, <2>9, <2>10 DEF Within
<1> QED
  BY <1>1, <1>5, <1>6, <1>7, <1>8 DEF Loops, Steps

(* A tree is made in a range that wants one. *)
LEMMA MakingIsWanted ==
  ASSUME MapFacts, StructTypes, Created, loop.step # "entry"
  PROVE  M!Wanted
<1>1. IsMap(imap) /\ loop \in Loops
  BY CreateContext, Zenon
<1>2. PICK T : CreateInv(imap, T, loop, used, tree)
  BY Zenon DEF Created
<1> DEFINE k == tree[Len(tree)].numLevels
<1>3. \E g : loop.pos = g[0].pos /\ g[0].pos <= Len(imap) /\ Managed(imap, g[0].pos)
  <2>1. CASE loop.step = "levels"
    <3>1. PICK g : Rising(imap, g, loop.n) /\ SameLoop(loop, g[loop.n])
      BY <1>2, <2>1, Zenon DEF CreateInv, InLevels
    <3>2. g[0].pos <= Len(imap) /\ Managed(imap, g[0].pos) /\ g[loop.n].pos = g[0].pos
      BY <3>1, Zenon DEF Rising, Chain
    <3> QED
      BY <3>1, <3>2, Zenon DEF SameLoop
  <2>2. CASE loop.step = "fill"
    <3>1. PICK g : Whole(imap, g, k) /\ SameLoop(loop, g[loop.n])
      BY <1>2, <2>2, Zenon DEF CreateInv, InFill
    <3>2. k \in Nat /\ Chain(imap, g, k)
      BY <3>1, ChainStart, Zenon DEF Whole
    <3>3. loop.n < k /\ loop.n \in Nat
      BY <1>1, <1>2, <2>2 DEF CreateInv, InFill, Loops
    <3> HIDE DEF k
    <3>4. loop.n \in 0..(k - 1)
      BY <3>2, <3>3
    <3>5. g[0].pos <= Len(imap) /\ Managed(imap, g[0].pos) /\ g[loop.n].pos = g[0].pos
      BY <3>2, <3>4, Zenon DEF Chain
    <3> QED
      BY <3>1, <3>5, Zenon DEF SameLoop
  <2>3. CASE loop.step = "blocks"
    <3>1. PICK g : Whole(imap, g, k) /\ loop.pos = g[0].pos
      BY <1>2, <2>3, Zenon DEF CreateInv, InBlocks
    <3>2. g[0].pos <= Len(imap) /\ Managed(imap, g[0].pos)
      BY <3>1, Zenon DEF Whole, Chain
    <3> QED
      BY <3>1, <3>2, Zenon
  <2> QED
    BY <1>1, <2>1, <2>2, <2>3 DEF Loops, Steps
<1> QED
  BY <1>3 DEF M!Wanted, M!AtRange, Managed, M!First

AllUsed == used = [entries |-> sizes.entries, levels |-> sizes.levels, blocks |-> sizes.blocks]
Made ==
  /\ success = TRUE /\ TreeTypes /\ AllUsed
  /\ \A e \in DOMAIN tree : Complete(imap, tree[e])

(* The creation ends with everything handed out and every tree complete.   *)
LEMMA CreationEnds ==
  ASSUME MapFacts, StructTypes, Created, ~M!AtRange
  PROVE  Made
<1>1. /\ IsMap(imap) /\ loop \in Loops
      /\ used \in [entries : Nat, levels : Nat, blocks : Nat]
      /\ used.entries \in Nat /\ used.levels \in Nat /\ used.blocks \in Nat
  BY CreateContext, Zenon
<1>2. loop.step = "entry"
  BY MakingIsWanted DEF M!Wanted
<1>3. PICK T : Total(imap, T, sizes) /\ InEntry(imap, T, loop, used, tree)
  BY <1>2, Zenon DEF Created, CreateInv
<1>4. Here(loop, used) \in T /\ Here(loop, used).pos = loop.pos
      /\ Here(loop, used).entries = used.entries /\ Here(loop, used).levels = used.levels
      /\ Here(loop, used).blocks = used.blocks
  BY <1>3 DEF InEntry, Here
<1>5. ~(Here(loop, used).pos <= Len(imap))
  BY <1>4 DEF M!AtRange
<1>6. used.entries = sizes.entries /\ used.levels = sizes.levels /\ used.blocks = sizes.blocks
  BY <1>1, <1>3, <1>4, <1>5, TotalFacts
<1>7. AllUsed
  BY <1>1, <1>6 DEF AllUsed
<1> QED
  BY <1>3, <1>7 DEF Made, Created, InEntry

(* What stays when the blocks of levels are written. *)
SameShape(e, f) ==
  /\ f \in TreeSet
  /\ f.type = e.type /\ f.start = e.start /\ f.end = e.end /\ f.numLevels = e.numLevels
  /\ Len(f.levels) = Len(e.levels)
  /\ \A l \in DOMAIN e.levels :
       /\ f.levels[l].start = e.levels[l].start /\ f.levels[l].bs = e.levels[l].bs
       /\ f.levels[l].num = e.levels[l].num /\ f.levels[l].at = e.levels[l].at
       /\ Filled128(f.levels[l])

LEMMA CompleteKept ==
  ASSUME NEW m, NEW e \in TreeSet, NEW f, Complete(m, e), SameShape(e, f)
  PROVE  Complete(m, f)
<1>1. PICK g : /\ Whole(m, g, e.numLevels) /\ Placed(m, e, g[0].pos)
               /\ Len(e.levels) = e.numLevels
               /\ \A j \in 1..e.numLevels :
                    LevelMade(m, e.levels[j], g[e.numLevels - j]) /\ Filled128(e.levels[j])
  BY Zenon DEF Complete
<1>2. DOMAIN e.levels = 1..e.numLevels
  BY <1>1 DEF TreeSet
<1>3. f.numLevels = e.numLevels /\ Len(f.levels) = e.numLevels /\ Placed(m, f, g[0].pos)
  BY <1>1 DEF SameShape, Placed
<1>4. \A j \in 1..e.numLevels : LevelMade(m, f.levels[j], g[e.numLevels - j]) /\ Filled128(f.levels[j])
  BY <1>1, <1>2 DEF SameShape, LevelMade
<1> QED
  BY <1>1, <1>3, <1>4, Zenon DEF Complete

LEMMA ShapeKept ==
  ASSUME Made, imap' = imap, sizes' = sizes, used' = used, success' = success,
         tree' \in Seq(TreeSet), Len(tree') = Len(tree),
         \A e \in DOMAIN tree : SameShape(tree[e], tree'[e])
  PROVE  Made'
<1>1. /\ used \in [entries : Nat, levels : Nat, blocks : Nat] /\ tree \in Seq(TreeSet)
      /\ Len(tree) = used.entries /\ PoolInv(tree, used.blocks)
  BY DEF Made, TreeTypes
<1>2. DOMAIN tree' = DOMAIN tree
  BY <1>1
<1>3. \A e \in DOMAIN tree : tree[e] \in TreeSet /\ tree'[e] \in TreeSet
  BY <1>1, <1>2
<1>4. \A e \in DOMAIN tree : DOMAIN tree'[e].levels = DOMAIN tree[e].levels
  <2> TAKE e \in DOMAIN tree
  <2>1. tree[e].levels \in Seq(LevelSet) /\ tree'[e].levels \in Seq(LevelSet)
    BY <1>3 DEF TreeSet
  <2>2. Len(tree'[e].levels) = Len(tree[e].levels)
    BY DEF SameShape
  <2> QED
    BY <2>1, <2>2
<1>5. \A e \in DOMAIN tree : \A l \in DOMAIN tree[e].levels :
        /\ tree'[e].levels[l].at = tree[e].levels[l].at
        /\ tree'[e].levels[l].num = tree[e].levels[l].num
  BY Zenon DEF SameShape
<1>6. PoolInv(tree', used.blocks)
  <2>1. ASSUME NEW e \in DOMAIN tree', NEW l \in DOMAIN tree'[e].levels, tree'[e].levels[l].at # -1
        PROVE  tree'[e].levels[l].at >= 0 /\ tree'[e].levels[l].at + tree'[e].levels[l].num <= used.blocks
    <3>1. e \in DOMAIN tree /\ l \in DOMAIN tree[e].levels
      BY <2>1, <1>2, <1>4
    <3>2. tree'[e].levels[l].at = tree[e].levels[l].at /\ tree'[e].levels[l].num = tree[e].levels[l].num
      BY <3>1, <1>5
    <3>3. tree[e].levels[l].at >= 0 /\ tree[e].levels[l].at + tree[e].levels[l].num <= used.blocks
      BY <3>1, <3>2, <2>1, <1>1, Zenon DEF PoolInv
    <3> QED
      BY <3>2, <3>3
  <2>2. ASSUME NEW e \in DOMAIN tree', NEW f \in DOMAIN tree', NEW l \in DOMAIN tree'[e].levels,
               NEW q \in DOMAIN tree'[f].levels, <<e, l>> # <<f, q>>,
               tree'[e].levels[l].at # -1, tree'[f].levels[q].at # -1
        PROVE  Apart(tree'[e].levels[l], tree'[f].levels[q])
    <3>1. e \in DOMAIN tree /\ l \in DOMAIN tree[e].levels /\ f \in DOMAIN tree /\ q \in DOMAIN tree[f].levels
      BY <2>2, <1>2, <1>4
    <3>2. /\ tree'[e].levels[l].at = tree[e].levels[l].at /\ tree'[e].levels[l].num = tree[e].levels[l].num
          /\ tree'[f].levels[q].at = tree[f].levels[q].at /\ tree'[f].levels[q].num = tree[f].levels[q].num
      BY <3>1, <1>5
    <3>3. Apart(tree[e].levels[l], tree[f].levels[q])
      BY <3>1, <3>2, <2>2, <1>1, Zenon DEF PoolInv
    <3> QED
      BY <3>2, <3>3 DEF Apart
  <2> QED
    BY <2>1, <2>2, Zenon DEF PoolInv
<1>7. TreeTypes'
  BY <1>1, <1>6 DEF TreeTypes
<1>8. \A e \in DOMAIN tree' : Complete(imap, tree'[e])
  <2> TAKE e \in DOMAIN tree'
  <2>1. e \in DOMAIN tree /\ tree[e] \in TreeSet
    BY <1>2, <1>3
  <2>2. Complete(imap, tree[e]) /\ SameShape(tree[e], tree'[e])
    BY <2>1 DEF Made
  <2> QED
    BY <2>1, <2>2, CompleteKept, Zenon
<1> QED
  BY <1>7, <1>8 DEF Made, AllUsed

LEMMA CompleteLevels ==
  ASSUME NEW m, NEW e \in TreeSet, Complete(m, e)
  PROVE  /\ e.levels \in Seq(LevelSet) /\ Len(e.levels) = e.numLevels /\ e.numLevels \in Nat /\ e.numLevels >= 1
         /\ DOMAIN e.levels = 1..e.numLevels /\ e.numLevels \in DOMAIN e.levels
         /\ \A l \in DOMAIN e.levels : /\ e.levels[l] \in LevelSet /\ Filled128(e.levels[l])
                                       /\ DOMAIN e.levels[l].blocks = 0..(e.levels[l].num - 1)
<1>1. PICK g : /\ Whole(m, g, e.numLevels) /\ Len(e.levels) = e.numLevels
               /\ \A j \in 1..e.numLevels : Filled128(e.levels[j])
  BY Zenon DEF Complete
<1>2. e.levels \in Seq(LevelSet) /\ e.numLevels \in Nat
  BY DEF TreeSet
<1>3. e.numLevels >= 1
  BY <1>1, Zenon DEF Whole
<1>4. DOMAIN e.levels = 1..e.numLevels /\ e.numLevels \in DOMAIN e.levels
  BY <1>1, <1>2, <1>3
<1>5. \A l \in DOMAIN e.levels : e.levels[l] \in LevelSet
  BY <1>2
<1>6. \A l \in DOMAIN e.levels : Filled128(e.levels[l])
  BY <1>1, <1>4
<1>7. \A l \in DOMAIN e.levels : DOMAIN e.levels[l].blocks = 0..(e.levels[l].num - 1)
  BY <1>6 DEF Filled128
<1> QED
  BY <1>1, <1>2, <1>3, <1>4, <1>5, <1>6, <1>7

(* One level has other values in its blocks. *)
LEMMA BlocksWritten ==
  ASSUME NEW m, NEW e \in TreeSet, Complete(m, e), NEW l \in DOMAIN e.levels,
         NEW f \in [0..(e.levels[l].num - 1) -> 0..128]
  PROVE  /\ SameShape(e, [e EXCEPT !.levels[l].blocks = f])
         /\ [e EXCEPT !.levels[l].blocks = f].levels[l].blocks = f
         /\ \A q \in DOMAIN e.levels : q # l => [e EXCEPT !.levels[l].blocks = f].levels[q] = e.levels[q]
<1> DEFINE w == [e.levels[l] EXCEPT !.blocks = f]
           s == [e.levels EXCEPT ![l] = w]
           d == [e EXCEPT !.levels = s]
<1>1. /\ e.levels \in Seq(LevelSet) /\ e.levels[l] \in LevelSet
      /\ \A q \in DOMAIN e.levels : Filled128(e.levels[q])
  BY CompleteLevels
<1>2. [e EXCEPT !.levels[l].blocks = f] = d
  BY DEF TreeSet
<1>3. e.levels[l].num \in Int
  BY <1>1 DEF LevelSet
<1>4. f \in BlockFuns
  BY <1>3 DEF BlockFuns
<1>5. /\ w \in LevelSet /\ w.start = e.levels[l].start /\ w.bs = e.levels[l].bs
      /\ w.num = e.levels[l].num /\ w.at = e.levels[l].at /\ w.blocks = f
  BY <1>1, <1>4 DEF LevelSet
<1>6. Filled128(w)
  BY <1>5 DEF Filled128
<1> HIDE DEF w
<1>7. /\ s \in Seq(LevelSet) /\ Len(s) = Len(e.levels) /\ DOMAIN s = DOMAIN e.levels /\ s[l] = w
      /\ \A q \in DOMAIN e.levels : q # l => s[q] = e.levels[q]
  BY <1>1, <1>5, InPlaceOf
<1> HIDE DEF s
<1>8. d \in TreeSet /\ d.levels = s /\ d.numLevels = e.numLevels
      /\ d.type = e.type /\ d.start = e.start /\ d.end = e.end
  BY <1>7 DEF TreeSet
<1> HIDE DEF d
<1>9. \A q \in DOMAIN e.levels : /\ s[q].start = e.levels[q].start /\ s[q].bs = e.levels[q].bs
                                 /\ s[q].num = e.levels[q].num /\ s[q].at = e.levels[q].at
                                 /\ Filled128(s[q])
  <2> TAKE q \in DOMAIN e.levels
  <2>1. CASE q = l
    BY <2>1, <1>5, <1>6, <1>7
  <2>2. CASE q # l
    BY <2>2, <1>1, <1>7
  <2> QED
    BY <2>1, <2>2
<1>10. SameShape(e, d)
  BY <1>7, <1>8, <1>9 DEF SameShape
<1> QED
  BY <1>2, <1>5, <1>7, <1>8, <1>10

LEMMA ShapeStays ==
  ASSUME NEW m, NEW e \in TreeSet, Complete(m, e)
  PROVE  SameShape(e, e)
  BY CompleteLevels DEF SameShape

LEMMA WithPagesKeepsShape ==
  ASSUME NEW e, tree[e] \in TreeSet, Complete(imap, tree[e]), NEW P, NEW v \in 0..128
  PROVE  SameShape(tree[e], M!WithPages(e, P, v))
<1> DEFINE l == tree[e].numLevels
           f == [b \in DOMAIN tree[e].levels[l].blocks |-> IF b \in P THEN v ELSE tree[e].levels[l].blocks[b]]
<1>1. l \in DOMAIN tree[e].levels /\ Filled128(tree[e].levels[l])
  BY CompleteLevels
<1>2. tree[e].levels[l].blocks \in [0..(tree[e].levels[l].num - 1) -> 0..128]
  BY <1>1 DEF Filled128
<1>3. f \in [0..(tree[e].levels[l].num - 1) -> 0..128]
  BY <1>2
<1>4. M!WithPages(e, P, v) = [tree[e] EXCEPT !.levels[l].blocks = f]
  BY <1>1 DEF M!WithPages, TreeSet
<1> HIDE DEF f, l
<1>5. SameShape(tree[e], [tree[e] EXCEPT !.levels[l].blocks = f])
  BY <1>1, <1>3, BlocksWritten, Zenon
<1> QED
  BY <1>4, <1>5, Zenon

LEMMA MadeContext ==
  ASSUME Made
  PROVE  /\ tree \in Seq(TreeSet) /\ Len(tree) \in Nat /\ DOMAIN tree = 1..Len(tree)
         /\ \A e \in DOMAIN tree : tree[e] \in TreeSet /\ Complete(imap, tree[e])
<1>1. tree \in Seq(TreeSet)
  BY DEF Made, TreeTypes
<1> QED
  BY <1>1 DEF Made

(* A new tree at every index. *)
LEMMA MadeFrom ==
  ASSUME Made, imap' = imap, sizes' = sizes, used' = used, success' = success,
         NEW F, tree' = [e \in DOMAIN tree |-> F[e]],
         \A e \in DOMAIN tree : SameShape(tree[e], F[e])
  PROVE  Made'
<1>1. tree \in Seq(TreeSet) /\ Len(tree) \in Nat /\ DOMAIN tree = 1..Len(tree)
  BY MadeContext
<1>2. \A e \in DOMAIN tree : F[e] \in TreeSet
  BY DEF SameShape
<1>3. tree' \in Seq(TreeSet) /\ Len(tree') = Len(tree)
  BY <1>1, <1>2
<1>4. \A e \in DOMAIN tree : SameShape(tree[e], tree'[e])
  BY Zenon
<1> QED
  BY <1>3, <1>4, ShapeKept

LEMMA SetAllKeeps ==
  ASSUME Made, M!SetAllTreePagesAvailable
  PROVE  Made'
<1> DEFINE New(e) == IF e \in M!Listed THEN M!WithPages(e, DOMAIN M!LastLevel(e).blocks, M!Available) ELSE tree[e]
           F == [e \in DOMAIN tree |-> New(e)]
<1>1. M!Available \in 0..128
  BY DEF M!Available
<1>2. \A e \in DOMAIN tree : SameShape(tree[e], New(e))
  <2> TAKE e \in DOMAIN tree
  <2>1. tree[e] \in TreeSet /\ Complete(imap, tree[e])
    BY MadeContext
  <2>2. SameShape(tree[e], tree[e]) /\ SameShape(tree[e], M!WithPages(e, DOMAIN M!LastLevel(e).blocks, M!Available))
    BY <2>1, <1>1, ShapeStays, WithPagesKeepsShape, Zenon
  <2> QED
    BY <2>2
<1>3. tree' = F
  BY DEF M!SetAllTreePagesAvailable
<1> HIDE DEF New
<1>4. tree' = [e \in DOMAIN tree |-> F[e]] /\ \A e \in DOMAIN tree : SameShape(tree[e], F[e])
  BY <1>2, <1>3
<1> HIDE DEF F
<1>5. imap' = imap /\ sizes' = sizes /\ used' = used /\ success' = success
  BY DEF M!SetAllTreePagesAvailable
<1> QED
  BY <1>4, <1>5, MadeFrom

LEMMA MarkKeeps ==
  ASSUME Made, imap' = imap, sizes' = sizes, used' = used, success' = success,
         NEW a, NEW s, tree' = M!MarkUsedTreePages(a, s)
  PROVE  Made'
<1> DEFINE F == M!MarkUsedTreePages(a, s)
<1>1. M!Unavailable \in 0..128
  BY DEF M!Unavailable
<1>2. \A e \in DOMAIN tree : \E P : F[e] = M!WithPages(e, P, M!Unavailable) \/ F[e] = tree[e]
  BY Zenon DEF M!MarkUsedTreePages
<1>3. \A e \in DOMAIN tree : SameShape(tree[e], F[e])
  <2> TAKE e \in DOMAIN tree
  <2>1. tree[e] \in TreeSet /\ Complete(imap, tree[e])
    BY MadeContext
  <2>2. PICK P : F[e] = M!WithPages(e, P, M!Unavailable) \/ F[e] = tree[e]
    BY <1>2, Zenon
  <2>3. SameShape(tree[e], tree[e]) /\ SameShape(tree[e], M!WithPages(e, P, M!Unavailable))
    BY <2>1, <1>1, ShapeStays, WithPagesKeepsShape, Zenon
  <2> QED
    BY <2>2, <2>3
<1>4. tree' = [e \in DOMAIN tree |-> F[e]]
  BY DEF M!MarkUsedTreePages
<1> HIDE DEF F
<1> QED
  BY <1>3, <1>4, MadeFrom

LEMMA SummaryIsBounded ==
  ASSUME NEW x \in 0..128, NEW y \in 0..128
  PROVE  M!Summary(x, y) \in 0..128
<1> DEFINE h == (x \div 2) + (y \div 2)
<1>1. h \in 0..128 /\ ((x % 2 = 1 \/ y % 2 = 1) => h <= 127)
  OBVIOUS
<1>2. \A i \in 0..127 : M!Or1(i) \in 0..128
  BY DEF M!Or1
<1> HIDE DEF h
<1> QED
  BY <1>1, <1>2 DEF M!Summary, h

LEMMA AccelBlocks ==
  ASSUME NEW v \in LevelSet, NEW w \in LevelSet, Filled128(w)
  PROVE  \E f \in [0..(v.num - 1) -> 0..128] :
           /\ M!FillTreeLevelAccelBlocks(v, w) = [v EXCEPT !.blocks = f]
<1> DEFINE o == (w.start - v.start) \div w.bs
           State(k) == IF k >= o /\ k < o + w.num THEN w.blocks[k - o] ELSE 0
           f == [b \in 0..(v.num - 1) |-> M!Summary(State(2 * b), State(2 * b + 1))]
<1>1. /\ v.num \in Int /\ w.num \in Int /\ w.blocks \in [0..(w.num - 1) -> 0..128]
  BY DEF LevelSet, Filled128
<1>2. o \in Int
  BY DEF LevelSet
<1> HIDE DEF o
<1>3. \A k \in Int : State(k) \in 0..128
  <2> TAKE k \in Int
  <2>1. CASE k >= o /\ k < o + w.num
    <3>1. k - o \in 0..(w.num - 1)
      BY <2>1, <1>1, <1>2
    <3> QED
      BY <3>1, <2>1, <1>1
  <2>2. CASE ~(k >= o /\ k < o + w.num)
    BY <2>2
  <2> QED
    BY <2>1, <2>2
<1> HIDE DEF State
<1>4. \A b \in 0..(v.num - 1) : M!Summary(State(2 * b), State(2 * b + 1)) \in 0..128
  <2> TAKE b \in 0..(v.num - 1)
  <2>1. 2 * b \in Int /\ 2 * b + 1 \in Int
    BY <1>1
  <2>2. State(2 * b) \in 0..128 /\ State(2 * b + 1) \in 0..128
    BY <2>1, <1>3
  <2> QED
    BY <2>2, SummaryIsBounded, Zenon
<1>5. f \in [0..(v.num - 1) -> 0..128]
  BY <1>4, Zenon
<1>6. M!FillTreeLevelAccelBlocks(v, w) = [v EXCEPT !.blocks = f]
  BY DEF M!FillTreeLevelAccelBlocks, o, State
<1> QED
  BY <1>5, <1>6, Zenon

LEMMA AccelKeeps ==
  ASSUME Made, StructTypes, M!FillAccelBlocks
  PROVE  Made'
<1>1. imap' = imap /\ sizes' = sizes /\ used' = used /\ success' = success
  BY DEF M!FillAccelBlocks
<1> DEFINE p == loop.pos
           l == tree[p].numLevels - loop.n - 1
<1>2. CASE l >= 1
  <2>1. p \in DOMAIN tree
    BY DEF M!FillAccelBlocks, M!Listed
  <2>2. tree[p] \in TreeSet /\ Complete(imap, tree[p]) /\ tree \in Seq(TreeSet)
    BY <2>1, MadeContext
  <2>3. /\ tree[p].numLevels \in Nat /\ DOMAIN tree[p].levels = 1..tree[p].numLevels
        /\ \A q \in DOMAIN tree[p].levels : tree[p].levels[q] \in LevelSet /\ Filled128(tree[p].levels[q])
    BY <2>2, CompleteLevels
  <2>4. loop.n \in Nat
    BY DEF StructTypes, Loops
  <2>5. l \in DOMAIN tree[p].levels /\ l + 1 \in DOMAIN tree[p].levels
    BY <2>3, <2>4, <1>2
  <2>6. tree' = [tree EXCEPT ![p].levels[l] = M!FillTreeLevelAccelBlocks(@, tree[p].levels[l + 1])]
    BY <1>2 DEF M!FillAccelBlocks
  <2> HIDE DEF l
  <2>7. PICK f \in [0..(tree[p].levels[l].num - 1) -> 0..128] :
          M!FillTreeLevelAccelBlocks(tree[p].levels[l], tree[p].levels[l + 1]) = [tree[p].levels[l] EXCEPT !.blocks = f]
    BY <2>3, <2>5, AccelBlocks
  <2> DEFINE e == [tree[p] EXCEPT !.levels[l].blocks = f]
  <2>8. SameShape(tree[p], e)
    BY <2>2, <2>5, BlocksWritten, Zenon
  <2>9. tree' = [tree EXCEPT ![p] = e]
    BY <2>1, <2>2, <2>5, <2>6, <2>7 DEF TreeSet
  <2> HIDE DEF e
  <2>10. e \in TreeSet
    BY <2>8 DEF SameShape
  <2>11. tree' \in Seq(TreeSet) /\ Len(tree') = Len(tree)
    BY <2>1, <2>2, <2>9, <2>10, InPlaceOf
  <2>12. \A i \in DOMAIN tree : SameShape(tree[i], tree'[i])
    <3> TAKE i \in DOMAIN tree
    <3>1. CASE i = p
      BY <3>1, <2>1, <2>2, <2>8, <2>9
    <3>2. CASE i # p
      <4>1. tree'[i] = tree[i]
        BY <3>2, <2>1, <2>2, <2>9
      <4> QED
        BY <4>1, MadeContext, ShapeStays, Zenon
    <3> QED
      BY <3>1, <3>2
  <2> QED
    BY <2>11, <2>12, <1>1, ShapeKept
<1>3. CASE ~(l >= 1)
  <2>1. tree' = tree
    BY <1>3 DEF M!FillAccelBlocks
  <2>2. \A i \in DOMAIN tree : SameShape(tree[i], tree[i])
    BY MadeContext, ShapeStays, Zenon
  <2> QED
    BY <2>1, <2>2, <1>1, ShapeKept, MadeContext
<1> QED
  BY <1>2, <1>3

-----------------------------------------------------------------------------
(* The ranges of the map are counted and listed in two passes as well: a   *)
(* pair is the entry that the next range starts with and the number of     *)
(* ranges before it.                                                       *)
After(m, u) == <<LastIn(m, u[1]) + 1, u[2] + 1>>
Pairs == (Nat \ {0}) \X Nat

ListedBy(m, R, u) ==
  /\ u \in R /\ <<1, 0>> \in R
  /\ \A v \in R : v \in Pairs /\ v[2] <= u[2]
  /\ \A v \in R : v # u => v[1] <= Len(m) /\ After(m, v) \in R

AllListed(m, R, c) == \E u : ListedBy(m, R, u) /\ u[1] > Len(m) /\ u[2] = c

LEMMA ListStarts ==
  ASSUME NEW m
  PROVE  ListedBy(m, {<<1, 0>>}, <<1, 0>>)
<1>1. <<1, 0>> \in Pairs /\ <<1, 0>>[2] = 0 /\ 0 <= 0
  BY DEF Pairs
<1> QED
  BY <1>1 DEF ListedBy

LEMMA AfterType ==
  ASSUME NEW m, IsMap(m), NEW u \in Pairs, u[1] <= Len(m)
  PROVE  After(m, u) \in Pairs /\ After(m, u)[1] = LastIn(m, u[1]) + 1 /\ After(m, u)[2] = u[2] + 1
<1>1. Len(m) \in Nat /\ u[1] \in 1..Len(m) /\ u[2] \in Nat
  BY MapShape DEF Pairs
<1>2. LastIn(m, u[1]) \in Nat
  BY <1>1, LastOfFacts
<1> QED
  BY <1>1, <1>2 DEF After, Pairs

LEMMA ListGrows ==
  ASSUME NEW m, IsMap(m), NEW R, NEW u, ListedBy(m, R, u), u[1] <= Len(m)
  PROVE  ListedBy(m, R \cup {After(m, u)}, After(m, u))
<1> DEFINE s == After(m, u)
<1>1. u \in Pairs /\ \A v \in R : v \in Pairs /\ v[2] <= u[2]
  BY DEF ListedBy
<1>2. s \in Pairs /\ s[2] = u[2] + 1
  BY <1>1, AfterType
<1> HIDE DEF s
<1>3. \A v \in R \cup {s} : v \in Pairs /\ v[2] <= s[2]
  BY <1>1, <1>2 DEF Pairs
<1>4. \A v \in R : v[1] <= Len(m) /\ After(m, v) \in R \cup {s}
  BY DEF ListedBy, s
<1> QED
  BY <1>3, <1>4 DEF ListedBy, s

LEMMA ListFacts ==
  ASSUME NEW m, IsMap(m), NEW R, NEW c, AllListed(m, R, c), NEW u \in R
  PROVE  /\ u \in Pairs /\ u[2] <= c
         /\ u[1] <= Len(m) => After(m, u) \in R /\ u[2] + 1 <= c
         /\ ~(u[1] <= Len(m)) => u[2] = c
<1>1. PICK t : ListedBy(m, R, t) /\ t[1] > Len(m) /\ t[2] = c
  BY Zenon DEF AllListed
<1>2. u \in Pairs /\ t \in Pairs /\ u[2] <= t[2]
  BY <1>1 DEF ListedBy
<1>3. Len(m) \in Nat /\ t[1] \in Nat /\ u[1] \in Nat
  BY <1>2, MapShape DEF Pairs
<1>4. u[1] <= Len(m) => u # t
  BY <1>1, <1>3
<1>5. u # t => u[1] <= Len(m) /\ After(m, u) \in R
  BY <1>1, Zenon DEF ListedBy
<1>6. ASSUME u[1] <= Len(m)
      PROVE  After(m, u) \in R /\ u[2] + 1 <= c
  <2>1. After(m, u) \in R
    BY <1>4, <1>5, <1>6
  <2>2. After(m, u)[2] <= t[2] /\ After(m, u)[2] = u[2] + 1
    BY <2>1, <1>1, <1>2, <1>6, AfterType DEF ListedBy
  <2> QED
    BY <2>1, <2>2, <1>1
<1> QED
  BY <1>1, <1>2, <1>5, <1>6

(* The total does not depend on the number of ranges. *)
LEMMA TotalStays ==
  ASSUME NEW m, NEW T, NEW s, NEW r, Total(m, T, s),
         r.entries = s.entries, r.levels = s.levels, r.blocks = s.blocks
  PROVE  Total(m, T, r)
  BY DEF Total

(* What the passes have counted and what they have used of it.             *)
Nothing == used = [entries |-> 0, levels |-> 0, blocks |-> 0] /\ tree = << >>

Later == pc \in {"available", "mark", "accel", "map", "done"}

CountInv ==
  /\ success = TRUE
  /\ pc = "treeSize" =>
       Nothing /\ sizes.ranges = 0 /\ \E T : TracedBy(imap, T, Here(loop, sizes))
  /\ pc = "mapSize" =>
       /\ Nothing /\ \E T : Total(imap, T, sizes)
       /\ \E R : ListedBy(imap, R, <<loop.pos, sizes.ranges>>)
  /\ pc = "failed" => Nothing
  /\ pc = "create" => Created
  /\ Later => Made
  /\ pc \in {"create"} \/ Later => \E R : AllListed(imap, R, sizes.ranges)
  /\ pc \notin {"map", "done"} => ranges = << >>
  /\ pc = "map" => \E R : AllListed(imap, R, sizes.ranges) /\ <<loop.pos, Len(ranges)>> \in R
  /\ pc = "done" => Len(ranges) = sizes.ranges

LEMMA FreshCounts ==
  ASSUME StructsFresh
  PROVE  CountInv
<1>1. loop.pos = 1 /\ loop.n = 0 /\ loop.bs = PageSize /\ loop.min = 0 /\ loop.max = 0
  BY DEF StructsFresh, M!LoopAt
<1>2. Here(loop, sizes) = StartOfTrace
  BY <1>1 DEF StructsFresh, Here, StartOfTrace
<1>3. TracedBy(imap, {StartOfTrace}, Here(loop, sizes))
  BY <1>2, TraceStarts
<1>4. Nothing /\ sizes.ranges = 0
  BY DEF StructsFresh, Nothing
<1> QED
  BY <1>3, <1>4 DEF StructsFresh, CountInv, Later

LEMMA CountingKeeps ==
  ASSUME MapFacts, StructTypes, CountInv, pc = "treeSize", M!SkipRange \/ M!CalcTreeEntryElements
  PROVE  CountInv'
<1>1. PICK T : TracedBy(imap, T, Here(loop, sizes))
  BY Zenon DEF CountInv
<1>2. IsMap(imap)
  BY DEF IsMap, MapFacts
<1>3. Here(loop, sizes).pos <= Len(imap) /\ Here(loop', sizes') = Advance(imap, Here(loop, sizes))
  BY CountingAdvances
<1>4. TracedBy(imap, T \cup {Advance(imap, Here(loop, sizes))}, Here(loop', sizes'))
  BY <1>1, <1>2, <1>3, TraceGrows, Zenon
<1>5. imap' = imap /\ pc' = pc /\ used' = used /\ tree' = tree /\ ranges' = ranges /\ success' = success
  BY DEF M!SkipRange, M!CalcTreeEntryElements
<1>6. sizes'.ranges = sizes.ranges
  BY DEF M!SkipRange, M!CalcTreeEntryElements, StructTypes
<1>7. \E U : TracedBy(imap', U, Here(loop', sizes'))
  BY <1>4, <1>5
<1> QED
  BY <1>5, <1>6, <1>7 DEF CountInv, Nothing, Later

LEMMA CountRangesKeeps ==
  ASSUME MapFacts, StructTypes, CountInv, M!CountMemoryRanges
  PROVE  CountInv'
<1>1. /\ pc = "mapSize" /\ M!AtRange /\ sizes' = [sizes EXCEPT !.ranges = @ + 1] /\ loop' = M!NextRange
      /\ imap' = imap /\ pc' = pc /\ used' = used /\ tree' = tree /\ ranges' = ranges /\ success' = success
  BY DEF M!CountMemoryRanges
<1>2. IsMap(imap) /\ loop \in Loops
  BY DEF IsMap, MapFacts, StructTypes
<1>3. PICK T : Total(imap, T, sizes)
  BY <1>1, Zenon DEF CountInv
<1>4. PICK R : ListedBy(imap, R, <<loop.pos, sizes.ranges>>)
  BY <1>1, Zenon DEF CountInv
<1> DEFINE u == <<loop.pos, sizes.ranges>>
<1>5. u[1] <= Len(imap)
  BY <1>1 DEF M!AtRange
<1>6. ListedBy(imap, R \cup {After(imap, u)}, After(imap, u))
  BY <1>2, <1>4, <1>5, ListGrows, Zenon
<1>7. loop'.pos = LastIn(imap, loop.pos) + 1
  BY <1>1, <1>2, NextRangeFacts
<1>8. /\ sizes'.ranges = sizes.ranges + 1 /\ sizes'.entries = sizes.entries
      /\ sizes'.levels = sizes.levels /\ sizes'.blocks = sizes.blocks
  BY <1>1 DEF StructTypes
<1>9. After(imap, u) = <<loop'.pos, sizes'.ranges>>
  BY <1>7, <1>8 DEF After
<1>10. \E Q : ListedBy(imap', Q, <<loop'.pos, sizes'.ranges>>)
  BY <1>1, <1>6, <1>9
<1>11. Total(imap', T, sizes')
  BY <1>1, <1>3, <1>8, TotalStays
<1> QED
  BY <1>1, <1>10, <1>11 DEF CountInv, Nothing, Later

LEMMA EndOfCounting ==
  ASSUME MapFacts, StructTypes, CountInv, pc = "treeSize", M!EndPass
  PROVE  CountInv'
<1>1. /\ ~M!AtRange /\ loop' = M!LoopAt(1, "entry") /\ pc' = "mapSize"
      /\ imap' = imap /\ sizes' = sizes /\ used' = used /\ tree' = tree /\ ranges' = ranges /\ success' = success
  BY DEF M!EndPass
<1>2. PICK T : TracedBy(imap, T, Here(loop, sizes))
  BY Zenon DEF CountInv
<1>3. loop \in Loops /\ IsMap(imap)
  BY DEF StructTypes, IsMap, MapFacts
<1>4. loop.pos > Len(imap)
  BY <1>1, <1>3, MapShape DEF M!AtRange, Loops
<1>5. Total(imap, T, sizes)
  <2> DEFINE t == Here(loop, sizes)
  <2>1. t.pos > Len(imap) /\ t.entries = sizes.entries /\ t.levels = sizes.levels /\ t.blocks = sizes.blocks
    BY <1>4 DEF Here
  <2> HIDE DEF t
  <2> QED
    BY <2>1, <1>2, Zenon DEF Total, t
<1>6. loop'.pos = 1
  BY <1>1 DEF M!LoopAt
<1>7. ListedBy(imap', {<<1, 0>>}, <<loop'.pos, sizes'.ranges>>)
  <2>1. sizes.ranges = 0
    BY DEF CountInv
  <2> QED
    BY <2>1, <1>1, <1>6, ListStarts
<1> QED
  BY <1>1, <1>5, <1>7 DEF CountInv, Nothing, Later

LEMMA PlaceKeeps ==
  ASSUME MapFacts, StructTypes, CountInv, M!PlaceStructs
  PROVE  CountInv'
<1>1. /\ pc = "mapSize" /\ ~M!AtRange /\ loop' = M!LoopAt(1, "entry") /\ pc' = "create"
      /\ imap' = imap /\ sizes' = sizes /\ used' = used /\ tree' = tree /\ ranges' = ranges /\ success' = success
  BY DEF M!PlaceStructs
<1>2. PICK T : Total(imap, T, sizes)
  BY <1>1, Zenon DEF CountInv
<1>3. PICK R : ListedBy(imap, R, <<loop.pos, sizes.ranges>>)
  BY <1>1, Zenon DEF CountInv
<1>4. loop \in Loops /\ IsMap(imap)
  BY DEF StructTypes, IsMap, MapFacts
<1>5. loop.pos > Len(imap)
  BY <1>1, <1>4, MapShape DEF M!AtRange, Loops
<1>6. AllListed(imap', R, sizes'.ranges)
  <2> DEFINE u == <<loop.pos, sizes.ranges>>
  <2>1. u[1] > Len(imap) /\ u[2] = sizes.ranges /\ ListedBy(imap, R, u)
    BY <1>3, <1>5
  <2> HIDE DEF u
  <2> QED
    BY <2>1, <1>1 DEF AllListed
<1>7. used = [entries |-> 0, levels |-> 0, blocks |-> 0] /\ tree = << >> /\ success = TRUE
  BY <1>1 DEF CountInv, Nothing
<1>8. TreeTypes'
  <2>1. << >> \in Seq(TreeSet) /\ Len(<< >>) = 0 /\ DOMAIN << >> = {}
    OBVIOUS
  <2>2. PoolInv(<< >>, 0)
    BY <2>1, Zenon DEF PoolInv
  <2> QED
    BY <2>1, <2>2, <1>1, <1>7 DEF TreeTypes
<1>9. StartOfTrace \in T
  BY <1>2, Zenon DEF Total, TracedBy
<1>10. /\ loop'.step = "entry" /\ loop'.pos = 1 /\ loop'.n = 0 /\ loop'.bs = PageSize
       /\ loop'.min = 0 /\ loop'.max = 0
  BY <1>1 DEF M!LoopAt
<1>11. Here(loop', used') = StartOfTrace
  BY <1>1, <1>7, <1>10 DEF Here, StartOfTrace
<1>12. InEntry(imap, T, loop', used', tree')
  BY <1>1, <1>7, <1>9, <1>10, <1>11 DEF InEntry
<1>13. CreateInv(imap, T, loop', used', tree')
  BY <1>10, <1>12 DEF CreateInv
<1>14. Created'
  BY <1>1, <1>2, <1>7, <1>8, <1>13, Zenon DEF Created
<1> QED
  BY <1>1, <1>6, <1>7, <1>14 DEF CountInv, Later

LEMMA NoRoomKeeps ==
  ASSUME CountInv, M!NoRoomForStructs
  PROVE  CountInv'
  BY DEF M!NoRoomForStructs, CountInv, Later, Nothing

LEMMA CreatingKeeps ==
  ASSUME MapFacts, StructTypes, CountInv, pc = "create",
         \/ M!SkipRange \/ M!CreateEntry \/ M!CreateTreeLevels \/ M!FillTreeLevelStructs
         \/ M!CreateTreeLevelBlocks
  PROVE  CountInv'
<1>1. Created
  BY DEF CountInv
<1>2. imap' = imap /\ pc' = pc /\ sizes' = sizes /\ ranges' = ranges
  BY DEF M!SkipRange, M!CreateEntry, M!CreateTreeLevels, M!FillTreeLevelStructs, M!CreateTreeLevelBlocks
<1>3. Created'
  <2>1. CASE M!SkipRange
    <3>1. loop.step = "entry"
      BY <2>1, <1>1, MakingIsWanted DEF M!SkipRange
    <3> QED
      BY <3>1, <2>1, <1>1, SkipRangeKeeps
  <2>2. CASE M!CreateEntry
    BY <2>2, <1>1, CreateEntryKeeps
  <2>3. CASE M!CreateTreeLevels
    BY <2>3, <1>1, CreateTreeLevelsKeeps
  <2>4. CASE M!FillTreeLevelStructs
    BY <2>4, <1>1, FillTreeLevelStructsKeeps
  <2>5. CASE M!CreateTreeLevelBlocks
    BY <2>5, <1>1, CreateTreeLevelBlocksKeeps
  <2> QED
    BY <2>1, <2>2, <2>3, <2>4, <2>5
<1>4. success' = TRUE
  BY <1>3 DEF Created
<1> QED
  BY <1>2, <1>3, <1>4 DEF CountInv, Later

LEMMA EndOfCreation ==
  ASSUME MapFacts, StructTypes, CountInv, pc = "create", M!EndPass
  PROVE  CountInv'
<1>1. /\ ~M!AtRange /\ pc' = "available"
      /\ imap' = imap /\ sizes' = sizes /\ used' = used /\ tree' = tree /\ ranges' = ranges /\ success' = success
  BY DEF M!EndPass, CountInv
<1>2. Made
  BY <1>1, CreationEnds DEF CountInv
<1>3. Made'
  BY <1>1, <1>2 DEF Made, AllUsed, TreeTypes
<1> QED
  BY <1>1, <1>3 DEF CountInv, Later

LEMMA LaterKeeps ==
  ASSUME MapFacts, StructTypes, CountInv,
         \/ M!SetAllTreePagesAvailable \/ M!MarkMapEntry \/ M!MarkStructs \/ M!FillAccelBlocks
         \/ M!EndAccelBlocks
  PROVE  CountInv'
<1>1. Made /\ pc \in {"available", "mark", "accel"}
  BY DEF CountInv, Later, M!SetAllTreePagesAvailable, M!MarkMapEntry, M!MarkStructs, M!FillAccelBlocks, M!EndAccelBlocks
<1>2. imap' = imap /\ sizes' = sizes /\ used' = used /\ ranges' = ranges /\ success' = success
  BY DEF M!SetAllTreePagesAvailable, M!MarkMapEntry, M!MarkStructs, M!FillAccelBlocks, M!EndAccelBlocks
<1>3. tree' = tree => Made'
  BY <1>1, <1>2 DEF Made, AllUsed, TreeTypes
<1>4. Made'
  <2>1. CASE M!SetAllTreePagesAvailable
    BY <2>1, <1>1, SetAllKeeps
  <2>2. CASE M!MarkMapEntry
    <3>1. tree' = M!MarkUsedTreePages(M!First.start, M!First.pages * PageSize) \/ tree' = tree
      BY <2>2 DEF M!MarkMapEntry
    <3> QED
      BY <3>1, <1>1, <1>2, <1>3, MarkKeeps, Zenon
  <2>3. CASE M!MarkStructs
    <3>1. tree' = M!MarkUsedTreePages(buffer.address, buffer.size)
      BY <2>3 DEF M!MarkStructs
    <3> QED
      BY <3>1, <1>1, <1>2, MarkKeeps, Zenon
  <2>4. CASE M!FillAccelBlocks
    BY <2>4, <1>1, AccelKeeps
  <2>5. CASE M!EndAccelBlocks
    BY <2>5, <1>3 DEF M!EndAccelBlocks
  <2> QED
    BY <2>1, <2>2, <2>3, <2>4, <2>5
<1>5. pc' \in {"mark", "accel", "map"}
  BY <1>1 DEF M!SetAllTreePagesAvailable, M!MarkMapEntry, M!MarkStructs, M!FillAccelBlocks, M!EndAccelBlocks
<1>6. PICK R : AllListed(imap, R, sizes.ranges)
  BY <1>1, Zenon DEF CountInv, Later
<1>7. pc' = "map" => loop'.pos = 1
  BY <1>1 DEF M!SetAllTreePagesAvailable, M!MarkMapEntry, M!MarkStructs, M!FillAccelBlocks, M!EndAccelBlocks, M!LoopAt
<1>8. ranges = << >> /\ Len(ranges) = 0
  BY <1>1 DEF CountInv
<1>9. <<1, 0>> \in R
  BY <1>6, Zenon DEF AllListed, ListedBy
<1>10. pc' = "map" => <<loop'.pos, Len(ranges')>> \in R
  BY <1>2, <1>7, <1>8, <1>9
<1> QED
  BY <1>1, <1>2, <1>4, <1>5, <1>6, <1>8, <1>10 DEF CountInv, Later

-----------------------------------------------------------------------------
(* The entries of the initial map begin on a page. *)
OnPage(x) == \E q \in Nat : x = q * PageSize
PageEntries ==
  {e \in [start : Nat, pages : Int, flags : FlagSets, type : MemTypes, usage : Usages] : OnPage(e.start)}

LEMMA OnPageFacts ==
  /\ \A x \in Nat : x % PageSize = 0 => OnPage(x)
  /\ \A x \in Nat, n \in Nat : OnPage(x) => OnPage(x + n * PageSize) /\ x + n * PageSize \in Nat
<1>1. PageSize \in Nat \ {0}
  BY EfiMapsAssumption
<1>2. ASSUME NEW x \in Nat, x % PageSize = 0
      PROVE  OnPage(x)
  <2>1. x \div PageSize \in Nat /\ x = PageSize * (x \div PageSize) + (x % PageSize)
    BY <1>1
  <2>2. x = (x \div PageSize) * PageSize
    BY <1>1, <1>2, <2>1
  <2> QED
    BY <2>1, <2>2 DEF OnPage
<1>3. ASSUME NEW x \in Nat, NEW n \in Nat, OnPage(x)
      PROVE  OnPage(x + n * PageSize) /\ x + n * PageSize \in Nat
  <2>1. PICK q \in Nat : x = q * PageSize
    BY <1>3 DEF OnPage
  <2>2. (q + n) * PageSize = q * PageSize + n * PageSize /\ q + n \in Nat
    BY <1>1, ProductOfSum
  <2>3. n * PageSize \in Nat
    BY <1>1, ProductIsNatural
  <2> QED
    BY <2>1, <2>2, <2>3 DEF OnPage
<1> QED
  BY <1>2, <1>3

LEMMA RunStartsOnPage ==
  ASSUME efi \in EfiMaps, NEW r, IsRun(Regs, r)
  PROVE  OnPage(r.start)
<1>1. PICK a \in Regs : a.start = r.start
  BY Zenon DEF IsRun
<1>2. PICK d \in efi : a = Region(d)
  BY DEF Regs
<1>3. a.start = d.start
  BY <1>2, RegionFacts, Zenon
<1>4. d.start \in Nat /\ d.start % PageSize = 0
  BY EfiMapsAssumption, Zenon
<1> QED
  BY <1>1, <1>3, <1>4, OnPageFacts, Zenon

LEMMA FilledOnPages ==
  ASSUME alloc \in AllocSet, NEW r \in EntrySet, OnPage(r.start)
  PROVE  Filled(r) \in Seq(PageEntries)
<1> DEFINE own == RequiredPages(alloc)
           first == [r EXCEPT !.usage = "INITIAL_MEMMAP", !.pages = own]
           rest == [r EXCEPT !.start = r.start + own * PageSize, !.pages = r.pages - own]
<1>1. own \in Nat
  BY RequiredFacts
<1> HIDE DEF own
<1>2. r.start + own * PageSize \in Nat /\ OnPage(r.start + own * PageSize)
  BY <1>1, OnPageFacts DEF EntrySet
<1>3. r \in PageEntries
  BY DEF PageEntries, EntrySet
<1>4. first \in PageEntries
  <2>1. "INITIAL_MEMMAP" \in Usages /\ own \in Int
    BY <1>1 DEF Usages
  <2>2. \A u \in Usages, n \in Int : [r EXCEPT !.usage = u, !.pages = n] \in PageEntries
    BY DEF PageEntries, EntrySet
  <2> QED
    BY <2>1, <2>2
<1>5. rest \in PageEntries
  <2>1. r.pages - own \in Int
    BY <1>1 DEF EntrySet
  <2>2. rest \in [start : Nat, pages : Int, flags : FlagSets, type : MemTypes, usage : Usages]
    BY <1>2, <2>1 DEF EntrySet
  <2>3. rest.start = r.start + own * PageSize
    BY DEF EntrySet
  <2> QED
    BY <1>2, <2>2, <2>3 DEF PageEntries
<1> HIDE DEF first, rest
<1>6. Filled(r) = <<r>> \/ Filled(r) = <<first>> \/ Filled(r) = <<first, rest>>
  BY DEF Filled, first, rest, own
<1>7. \A a, b \in PageEntries : <<a>> \in Seq(PageEntries) /\ <<a, b>> \in Seq(PageEntries)
  OBVIOUS
<1> QED
  BY <1>3, <1>4, <1>5, <1>6, <1>7, Zenon

OnPages == imap \in Seq(PageEntries)

LEMMA SubmittedOnPages ==
  ASSUME GenInv, OnPages, Iterating
  PROVE  Submitted.imap \in Seq(PageEntries)
<1>1. gen.range \in EntrySet /\ alloc \in AllocSet /\ efi \in EfiMaps
  BY DEF GenInv, GenTypes
<1>2. CASE gen.written
  <2> DEFINE new == Filled(gen.range)
             room == Room(imap, new)
  <2>1. OnPage(gen.range.start)
    BY <1>1, <1>2, RunStartsOnPage, Zenon DEF GenInv, ScanInv
  <2>2. new \in Seq(PageEntries) /\ new # << >>
    BY <1>1, <2>1, FilledOnPages DEF Filled
  <2>3. room \in 0..Len(new)
    <3>1. room = 0 \/ room = 1 \/ (room = 2 /\ Len(new) = 2)
      BY Zenon DEF Room
    <3>2. Len(new) \in Nat /\ Len(new) # 0
      BY <2>2
    <3> HIDE DEF new, room
    <3>3. \A n \in Nat : n # 0 => 0 \in 0..n /\ 1 \in 0..n
      OBVIOUS
    <3>4. \A n \in Nat : n = 2 => 2 \in 0..n
      OBVIOUS
    <3> QED
      BY <3>1, <3>2, <3>3, <3>4, Zenon
  <2> HIDE DEF new, room
  <2>4. SubSeq(new, 1, room) \in Seq(PageEntries)
    BY <2>2, <2>3
  <2>5. imap \o SubSeq(new, 1, room) \in Seq(PageEntries)
    BY <2>4 DEF OnPages
  <2> QED
    BY <1>2, <2>5 DEF Submitted, OnPages, new, room
<1>3. CASE ~gen.written
  BY <1>3 DEF Submitted, OnPages
<1> QED
  BY <1>2, <1>3

LEMMA OnPagesStep ==
  ASSUME GenInv, OnPages, [BootNext]_<<vars, structs>>
  PROVE  OnPages'
<1>1. CASE MakeInitialMap
  <2>1. imap' = imap \/ (imap' = Submitted.imap /\ Iterating)
    BY <1>1 DEF Iterating, MakeInitialMap, Next, CombineRanges, SubmitRange, AllocInitMemMapMemory, FinishInitMemMap
  <2> QED
    BY <2>1, SubmittedOnPages DEF OnPages
<1>2. CASE MakeStructs
  BY <1>2, StructsKeepMap DEF MakeStructs, OnPages
<1>3. CASE UNCHANGED <<vars, structs>>
  BY <1>3 DEF vars, OnPages
<1> QED
  BY <1>1, <1>2, <1>3 DEF BootNext

-----------------------------------------------------------------------------
(* The ranges of the physical memory map.                                  *)

LEMMA RunHasKind ==
  ASSUME NEW m, NEW i \in Nat, NEW j \in Nat, i <= j, \A k \in i..(j - 1) : Carries(m, k)
  PROVE  \A k \in i..j : m[k].type = m[i].type /\ m[k].flags = m[i].flags
<1> DEFINE S == {k \in i..j : ~(m[k].type = m[i].type /\ m[k].flags = m[i].flags)}
<1>1. SUFFICES ASSUME S # {}
               PROVE  FALSE
  OBVIOUS
<1>2. S \in SUBSET Nat
  OBVIOUS
<1>3. PICK k \in S : \A n \in S : k <= n
  BY <1>1, <1>2, LeastNatural, Zenon
<1>4. k # i /\ k \in i..j
  BY <1>3
<1>5. k - 1 \in i..(j - 1) /\ (k - 1) + 1 = k /\ k - 1 \in i..j /\ ~(k <= k - 1)
  BY <1>4
<1>6. m[k].type = m[k - 1].type /\ m[k].flags = m[k - 1].flags
  BY <1>5 DEF Carries
<1>7. k - 1 \notin S
  BY <1>3, <1>5
<1>8. m[k - 1].type = m[i].type /\ m[k - 1].flags = m[i].flags
  BY <1>5, <1>7
<1> QED
  BY <1>3, <1>6, <1>8

RangeSet == [type : MemTypes, start : Nat, end : Nat, flags : FlagSets]

(* Range r is made of the entries from i to j. *)
MadeOf(m, r, i, j) ==
  /\ i \in DOMAIN m /\ j \in DOMAIN m /\ i <= j
  /\ r.start = m[i].start /\ r.end = End(m[j]) /\ \A k \in i..(j - 1) : Carries(m, k)

InRange(e, r) == /\ r.start <= e.start /\ End(e) <= r.end
                 /\ r.type = e.type /\ r.flags = e.flags

Separate(a, b) == a.end <= b.start /\ (a.end = b.start => a.type # b.type \/ a.flags # b.flags)

(* The ranges rs of the entries before p. *)
RangesOf(m, rs, p) ==
  /\ p \in 1..(Len(m) + 1) /\ rs \in Seq(RangeSet)
  /\ \A r \in DOMAIN rs : \E i, j \in DOMAIN m : MadeOf(m, rs[r], i, j)
  /\ \A i \in 1..(p - 1) : \E r \in DOMAIN rs : InRange(m[i], rs[r])
  /\ \A r \in 1..(Len(rs) - 1) : Separate(rs[r], rs[r + 1])
  /\ rs # << >> =>
       /\ p > 1 /\ rs[Len(rs)].end = End(m[p - 1])
       /\ rs[Len(rs)].type = m[p - 1].type /\ rs[Len(rs)].flags = m[p - 1].flags
       /\ p <= Len(m) => ~Carries(m, p - 1)

LEMMA NextRangeOf ==
  ASSUME NEW m, IsMap(m), NEW rs, NEW p, RangesOf(m, rs, p), p <= Len(m),
         NEW r, r = [type |-> m[p].type, start |-> m[p].start, end |-> End(m[LastIn(m, p)]),
                     flags |-> m[p].flags]
  PROVE  RangesOf(m, Append(rs, r), LastIn(m, p) + 1)
<1> DEFINE j == LastIn(m, p)
           ss == Append(rs, r)
           n == Len(rs)
<1>1. Len(m) \in Nat /\ DOMAIN m = 1..Len(m) /\ Sorted(m)
  BY MapShape
<1>2. p \in 1..Len(m) /\ rs \in Seq(RangeSet)
  BY <1>1 DEF RangesOf
<1>3. /\ j \in p..Len(m) /\ \A k \in p..(j - 1) : Carries(m, k)
      /\ j = Len(m) \/ ~Carries(m, j)
  BY <1>1, <1>2, LastOfFacts
<1> HIDE DEF j
<1>4. /\ \A k \in DOMAIN m : m[k] \in EntrySet /\ m[k].start \in Nat /\ End(m[k]) \in Nat /\ m[k].start < End(m[k])
      /\ \A k, l \in DOMAIN m : k < l => End(m[k]) <= m[l].start
  BY <1>1, Zenon DEF Sorted, Bounded
<1>5. p \in DOMAIN m /\ j \in DOMAIN m /\ p <= j /\ j + 1 \in 1..(Len(m) + 1) /\ p \in Nat /\ j \in Nat
  <2>1. j \in p..Len(m)
    BY <1>3
  <2>2. p \in Nat /\ j \in Nat /\ p <= j /\ j <= Len(m) /\ 1 <= p
    BY <2>1, <1>1, <1>2
  <2> QED
    BY <2>2, <1>1
<1>6. \A k \in p..j : m[k].type = m[p].type /\ m[k].flags = m[p].flags
  BY <1>3, <1>5, RunHasKind, Zenon
<1>7. r.type = m[p].type /\ r.flags = m[p].flags /\ r.start = m[p].start /\ r.end = End(m[j])
  BY DEF j
<1>8. r \in RangeSet
  <2>1. m[p].type \in MemTypes /\ m[p].flags \in FlagSets /\ m[p].start \in Nat /\ End(m[j]) \in Nat
    BY <1>4, <1>5 DEF EntrySet
  <2> QED
    BY <2>1 DEF RangeSet, j
<1>9. MadeOf(m, r, p, j)
  BY <1>3, <1>5, <1>7 DEF MadeOf
<1>10. /\ ss \in Seq(RangeSet) /\ Len(ss) = n + 1 /\ n \in Nat /\ DOMAIN rs = 1..n
       /\ DOMAIN ss = 1..(n + 1) /\ \A k \in DOMAIN rs : ss[k] = rs[k]
       /\ ss[n + 1] = r /\ ss # << >>
  <2>1. ss # << >>
    BY <1>2, <1>8
  <2> QED
    BY <2>1, <1>2, <1>8, Appended
<1> HIDE DEF ss
<1>11. \A k \in DOMAIN ss : k \in DOMAIN rs \/ k = n + 1
  BY <1>10
<1>12. \A k \in DOMAIN ss : \E a, b \in DOMAIN m : MadeOf(m, ss[k], a, b)
  <2>1. \A k \in DOMAIN rs : \E a, b \in DOMAIN m : MadeOf(m, rs[k], a, b)
    BY DEF RangesOf
  <2> QED
    BY <2>1, <1>5, <1>9, <1>10, <1>11
<1>13. ASSUME NEW i \in 1..((j + 1) - 1)
       PROVE  \E k \in DOMAIN ss : InRange(m[i], ss[k])
  <2>1. CASE i \in 1..(p - 1)
    <3>1. PICK k \in DOMAIN rs : InRange(m[i], rs[k])
      BY <2>1 DEF RangesOf
    <3>2. k \in DOMAIN ss /\ ss[k] = rs[k]
      BY <1>10
    <3> QED
      BY <3>1, <3>2
  <2>2. CASE i \in p..j
    <3>1. i \in DOMAIN m /\ (p = i \/ p < i) /\ (i = j \/ i < j)
      BY <2>2, <1>1, <1>5
    <3>2. m[p].start <= m[i].start /\ End(m[i]) <= End(m[j])
      <4>1. /\ m[p].start \in Nat /\ m[i].start \in Nat /\ m[j].start \in Nat
            /\ End(m[p]) \in Nat /\ End(m[i]) \in Nat /\ End(m[j]) \in Nat
            /\ m[p].start < End(m[p]) /\ m[j].start < End(m[j])
        BY <3>1, <1>4, <1>5, Zenon
      <4>2. m[p].start <= m[i].start
        <5>1. CASE p = i
          BY <4>1, <5>1
        <5>2. CASE p < i
          <6>1. End(m[p]) <= m[i].start
            BY <5>2, <3>1, <1>4, <1>5, Zenon
          <6> QED
            BY <6>1, <4>1
        <5> QED
          BY <3>1, <5>1, <5>2
      <4>3. End(m[i]) <= End(m[j])
        <5>1. CASE i = j
          BY <4>1, <5>1
        <5>2. CASE i < j
          <6>1. End(m[i]) <= m[j].start
            BY <5>2, <3>1, <1>4, <1>5, Zenon
          <6> QED
            BY <6>1, <4>1
        <5> QED
          BY <3>1, <5>1, <5>2
      <4> QED
        BY <4>2, <4>3
    <3>3. InRange(m[i], r)
      BY <3>2, <2>2, <1>6, <1>7 DEF InRange
    <3>4. n + 1 \in DOMAIN ss
      BY <1>10
    <3> QED
      BY <3>3, <3>4, <1>10
  <2> QED
    BY <2>1, <2>2, <1>5
<1>14. ASSUME NEW k \in 1..(Len(ss) - 1)
       PROVE  Separate(ss[k], ss[k + 1])
  <2>1. CASE k \in 1..(n - 1)
    <3>1. k \in DOMAIN rs /\ k + 1 \in DOMAIN rs
      BY <2>1, <1>10
    <3>2. Separate(rs[k], rs[k + 1])
      BY <2>1 DEF RangesOf
    <3> QED
      BY <3>1, <3>2, <1>10
  <2>2. CASE k = n
    <3>1. k \in DOMAIN rs /\ rs # << >> /\ n >= 1
      BY <2>2, <1>10
    <3>2. /\ p > 1 /\ rs[n].end = End(m[p - 1])
          /\ rs[n].type = m[p - 1].type /\ rs[n].flags = m[p - 1].flags
          /\ ~Carries(m, p - 1)
      BY <3>1 DEF RangesOf
    <3>3. p - 1 \in DOMAIN m /\ p - 1 < p /\ (p - 1) + 1 = p
      BY <3>2, <1>1, <1>2
    <3>4. End(m[p - 1]) <= m[p].start
      BY <3>3, <1>4, <1>5
    <3>5. ~(m[p].type = m[p - 1].type /\ m[p].flags = m[p - 1].flags /\ m[p].start = End(m[p - 1]))
      BY <3>2, <3>3 DEF Carries
    <3>6. Separate(rs[n], r)
      BY <3>2, <3>4, <3>5, <1>7 DEF Separate
    <3> QED
      BY <3>1, <3>6, <2>2, <1>10
  <2>3. Len(ss) - 1 = n /\ n \in Nat
    BY <1>10
  <2>4. k \in 1..n
    BY <2>3
  <2>5. k \in 1..(n - 1) \/ k = n
    BY <2>3, <2>4
  <2> QED
    BY <2>1, <2>2, <2>5
<1>15. /\ j + 1 > 1 /\ ss[Len(ss)].end = End(m[(j + 1) - 1])
       /\ ss[Len(ss)].type = m[(j + 1) - 1].type /\ ss[Len(ss)].flags = m[(j + 1) - 1].flags
       /\ j + 1 <= Len(m) => ~Carries(m, (j + 1) - 1)
  <2>1. (j + 1) - 1 = j /\ j \in p..j /\ j + 1 > 1 /\ (j + 1 <= Len(m) => j # Len(m))
    BY <1>1, <1>5
  <2> QED
    BY <2>1, <1>3, <1>6, <1>7, <1>10
<1> HIDE DEF n
<1>16. RangesOf(m, ss, j + 1)
  BY <1>5, <1>10, <1>12, <1>13, <1>14, <1>15 DEF RangesOf
<1> QED
  BY <1>16 DEF ss, j

LEMMA NoRangesYet ==
  ASSUME NEW m, IsMap(m)
  PROVE  RangesOf(m, << >>, 1)
<1>1. Len(m) \in Nat
  BY MapShape
<1>2. 1 \in 1..(Len(m) + 1) /\ << >> \in Seq(RangeSet) /\ DOMAIN << >> = {} /\ 1..(1 - 1) = {} /\ 1..(Len(<< >>) - 1) = {}
  BY <1>1
<1> QED
  BY <1>2 DEF RangesOf

(* The first page and the last of a range.                                 *)
LEMMA PagesOfRange ==
  ASSUME NEW s \in Nat, NEW e \in Nat, s < e, OnPage(s), NEW p \in (s \div PageSize)..((e - 1) \div PageSize)
  PROVE  PageSize * p \in Nat /\ s <= PageSize * p /\ PageSize * p < e
<1>1. PageSize \in Nat \ {0} /\ e - 1 \in Nat
  BY EfiMapsAssumption
<1>2. PICK q \in Nat : s = q * PageSize
  BY DEF OnPage
<1>3. s \div PageSize \in Nat /\ PageSize * (s \div PageSize) <= s /\ s < PageSize * (s \div PageSize) + PageSize
  BY <1>1
<1> DEFINE a == s \div PageSize
           b == (e - 1) \div PageSize
<1>4. b \in Nat /\ PageSize * b <= e - 1
  BY <1>1
<1> HIDE DEF a, b
<1>5. a \in Nat /\ p \in Nat /\ a <= p /\ p <= b
  BY <1>3, <1>4 DEF a, b
<1>6. /\ PageSize * a = a * PageSize /\ PageSize * b = b * PageSize /\ PageSize * p = p * PageSize
      /\ a * PageSize \in Nat /\ b * PageSize \in Nat /\ p * PageSize \in Nat
  BY <1>1, <1>4, <1>5, ProductIsNatural
<1>7. a * PageSize <= p * PageSize /\ p * PageSize <= b * PageSize
  BY <1>1, <1>4, <1>5, ProductIsMonotone
<1>8. a < q => a * PageSize + PageSize <= q * PageSize
  BY <1>1, <1>2, <1>5, ProductIsStrict
<1>9. ~(a < q)
  BY <1>1, <1>2, <1>3, <1>6, <1>8 DEF a
<1>10. q * PageSize <= a * PageSize
  BY <1>1, <1>2, <1>5, <1>9, ProductIsMonotone
<1> QED
  BY <1>1, <1>2, <1>4, <1>6, <1>7, <1>10

(* No address of a run lies between its entries.                           *)
LEMMA InRunOfEntries ==
  ASSUME NEW m, IsMap(m), NEW r, NEW i, NEW j, MadeOf(m, r, i, j), NEW x \in Nat, r.start <= x, x < r.end
  PROVE  \E k \in DOMAIN m : k \in i..j /\ m[k].start <= x /\ x < End(m[k])
<1>1. Len(m) \in Nat /\ DOMAIN m = 1..Len(m) /\ Sorted(m)
  BY MapShape
<1>2. /\ i \in DOMAIN m /\ j \in DOMAIN m /\ i <= j
      /\ r.start = m[i].start /\ r.end = End(m[j]) /\ \A k \in i..(j - 1) : Carries(m, k)
  BY DEF MadeOf
<1> DEFINE S == {k \in i..j : x < End(m[k])}
<1>3. S \in SUBSET Nat /\ j \in S
  BY <1>1, <1>2
<1>4. PICK k \in S : \A n \in S : k <= n
  BY <1>3, LeastNatural, Zenon
<1>5. k \in DOMAIN m /\ x < End(m[k]) /\ k \in i..j
  BY <1>1, <1>2, <1>4
<1>6. m[k].start <= x
  <2>1. CASE k = i
    BY <2>1, <1>2
  <2>2. CASE k # i
    <3>1. k - 1 \in i..(j - 1) /\ (k - 1) + 1 = k /\ k - 1 \in i..j /\ ~(k <= k - 1) /\ k - 1 \in DOMAIN m
      BY <2>2, <1>1, <1>2, <1>5
    <3>2. k - 1 \notin S
      BY <3>1, <1>4
    <3>3. End(m[k - 1]) \in Nat
      BY <3>1, <1>1 DEF Sorted, Bounded
    <3>4. End(m[k - 1]) <= x
      BY <3>1, <3>2, <3>3
    <3>5. m[k].start = End(m[k - 1])
      BY <3>1, <1>2 DEF Carries
    <3> QED
      BY <3>4, <3>5
  <2> QED
    BY <2>1, <2>2
<1> QED
  BY <1>5, <1>6

LEMMA RangesAreRight ==
  ASSUME MapFacts, OnPages, RangesOf(imap, ranges, Len(imap) + 1)
  PROVE  M!RangesAreExact
<1>1. IsMap(imap) /\ Len(imap) \in Nat /\ DOMAIN imap = 1..Len(imap) /\ Sorted(imap)
  BY MapShape DEF IsMap, MapFacts
<1>2. /\ ranges \in Seq(RangeSet)
      /\ \A r \in DOMAIN ranges : \E i, j \in DOMAIN imap : MadeOf(imap, ranges[r], i, j)
      /\ \A i \in 1..((Len(imap) + 1) - 1) : \E r \in DOMAIN ranges : InRange(imap[i], ranges[r])
      /\ \A r \in 1..(Len(ranges) - 1) : Separate(ranges[r], ranges[r + 1])
  BY DEF RangesOf
<1>3. (Len(imap) + 1) - 1 = Len(imap)
  BY <1>1
<1>4. \A i \in DOMAIN imap : \E r \in DOMAIN ranges :
         /\ ranges[r].start <= imap[i].start /\ M!Top(imap[i]) <= ranges[r].end
         /\ ranges[r].type = imap[i].type /\ ranges[r].flags = imap[i].flags
  BY <1>1, <1>2, <1>3, TopIsEnd DEF InRange
<1>5. \A r \in 1..(Len(ranges) - 1) :
         /\ ranges[r].end <= ranges[r + 1].start
         /\ ranges[r].end = ranges[r + 1].start =>
              ranges[r].type # ranges[r + 1].type \/ ranges[r].flags # ranges[r + 1].flags
  BY <1>2 DEF Separate
<1>6. ASSUME NEW r \in DOMAIN ranges,
             NEW p \in (ranges[r].start \div PageSize)..((ranges[r].end - 1) \div PageSize)
      PROVE  \E i \in DOMAIN imap : M!Holds(imap[i], PageSize * p)
  <2>1. PICK i \in DOMAIN imap, j \in DOMAIN imap : MadeOf(imap, ranges[r], i, j)
    BY <1>2
  <2>2. /\ ranges[r].start = imap[i].start /\ ranges[r].end = End(imap[j]) /\ (i = j \/ i < j)
    BY <2>1, <1>1 DEF MadeOf
  <2>3. /\ imap[i].start \in Nat /\ End(imap[i]) \in Nat /\ imap[i].start < End(imap[i])
        /\ imap[j].start \in Nat /\ End(imap[j]) \in Nat /\ imap[j].start < End(imap[j])
    BY <2>1, <1>1, Zenon DEF Sorted, Bounded
  <2>4. i < j => End(imap[i]) <= imap[j].start
    BY <1>1, Zenon DEF Sorted
  <2>5. ranges[r].start \in Nat /\ ranges[r].end \in Nat /\ ranges[r].start < ranges[r].end
    BY <2>2, <2>3, <2>4
  <2>6. OnPage(ranges[r].start)
    <3>1. imap[i] \in PageEntries
      BY <1>1 DEF OnPages
    <3> QED
      BY <3>1, <2>2 DEF PageEntries
  <2>7. PageSize * p \in Nat /\ ranges[r].start <= PageSize * p /\ PageSize * p < ranges[r].end
    BY <2>5, <2>6, PagesOfRange
  <2>8. PICK k \in DOMAIN imap : imap[k].start <= PageSize * p /\ PageSize * p < End(imap[k])
    BY <2>1, <2>7, <1>1, InRunOfEntries
  <2> QED
    BY <2>8, TopIsEnd DEF M!Holds
<1>7. \A r \in DOMAIN ranges :
        \A a \in {PageSize * p : p \in (ranges[r].start \div PageSize)..((ranges[r].end - 1) \div PageSize)} :
           \E i \in DOMAIN imap : M!Holds(imap[i], a)
  BY <1>6
<1> QED
  BY <1>4, <1>5, <1>7 DEF M!RangesAreExact

RangesInv ==
  /\ pc = "map" => RangesOf(imap, ranges, loop.pos)
  /\ pc = "done" => RangesOf(imap, ranges, Len(imap) + 1)

LEMMA FillMapKeeps ==
  ASSUME MapFacts, StructTypes, CountInv, RangesInv, M!FillMemMapEntry
  PROVE  CountInv' /\ RangesInv'
<1>1. IsMap(imap) /\ loop \in Loops /\ pc = "map" /\ M!AtRange
  BY DEF IsMap, MapFacts, StructTypes, M!FillMemMapEntry
<1>2. PICK R : AllListed(imap, R, sizes.ranges) /\ <<loop.pos, Len(ranges)>> \in R
  BY <1>1, Zenon DEF CountInv
<1> DEFINE u == <<loop.pos, Len(ranges)>>
           r == [type |-> M!First.type, start |-> M!RangeStart, end |-> M!RangeEnd, flags |-> M!First.flags]
<1>3. u[1] = loop.pos /\ u[2] = Len(ranges) /\ u[1] <= Len(imap) /\ u \in R
  BY <1>1, <1>2 DEF M!AtRange
<1>4. u \in Pairs /\ After(imap, u) \in R /\ u[2] + 1 <= sizes.ranges
  <2>1. \A w \in R : w \in Pairs
                   /\ (w[1] <= Len(imap) => After(imap, w) \in R /\ w[2] + 1 <= sizes.ranges)
    BY <1>1, <1>2, ListFacts
  <2> HIDE DEF u
  <2> QED
    BY <1>3, <2>1, Zenon
<1>5. Len(ranges) \in Nat /\ Len(ranges) + 1 <= sizes.ranges
  BY <1>3, <1>4 DEF Pairs
<1>6. (Len(ranges) + 1) * RangeSize <= sizes.ranges * RangeSize
  <2>1. RangeSize \in Nat /\ sizes.ranges \in Nat /\ Len(ranges) + 1 \in Nat
    BY <1>5, SizesAssumption DEF StructTypes
  <2> QED
    BY <2>1, <1>5, ProductIsMonotone
<1>7. /\ ranges' = Append(ranges, r) /\ success' = success /\ loop' = M!NextRange
      /\ pc' = pc /\ imap' = imap /\ sizes' = sizes /\ used' = used /\ tree' = tree
  BY <1>6 DEF M!FillMemMapEntry, CountInv
<1>8. loop'.pos = LastIn(imap, loop.pos) + 1
  BY <1>1, <1>7, NextRangeFacts
<1>9. RangesOf(imap, ranges, loop.pos) /\ ranges \in Seq(RangeSet)
  BY <1>1 DEF RangesInv, RangesOf
<1>10. r = [type |-> imap[loop.pos].type, start |-> imap[loop.pos].start,
            end |-> End(imap[LastIn(imap, loop.pos)]), flags |-> imap[loop.pos].flags]
  BY LastOfIsLast, TopIsEnd DEF M!First, M!RangeStart, M!RangeEnd
<1> HIDE DEF r
<1>11. RangesOf(imap, ranges', loop'.pos)
  BY <1>1, <1>3, <1>7, <1>8, <1>9, <1>10, NextRangeOf
<1>12. Len(ranges') = Len(ranges) + 1
  BY <1>7, <1>9
<1>13. <<loop'.pos, Len(ranges')>> \in R
  BY <1>3, <1>4, <1>8, <1>12 DEF After
<1>14. Made'
  BY <1>1, <1>7 DEF CountInv, Later, Made, AllUsed, TreeTypes
<1>15. CountInv'
  BY <1>1, <1>2, <1>7, <1>13, <1>14 DEF CountInv, Later
<1> QED
  BY <1>1, <1>7, <1>11, <1>15 DEF RangesInv

LEMMA FinishMapKeeps ==
  ASSUME MapFacts, StructTypes, CountInv, RangesInv, M!FinishMemMap
  PROVE  CountInv' /\ RangesInv'
<1>1. /\ IsMap(imap) /\ loop \in Loops /\ pc = "map" /\ ~M!AtRange /\ pc' = "done"
      /\ loop' = loop /\ ranges' = ranges /\ success' = success
      /\ imap' = imap /\ sizes' = sizes /\ used' = used /\ tree' = tree
  BY DEF IsMap, MapFacts, StructTypes, M!FinishMemMap, CountInv
<1>2. PICK R : AllListed(imap, R, sizes.ranges) /\ <<loop.pos, Len(ranges)>> \in R
  BY <1>1, Zenon DEF CountInv
<1> DEFINE u == <<loop.pos, Len(ranges)>>
<1>3. u[2] = Len(ranges) /\ ~(u[1] <= Len(imap)) /\ u \in R
  BY <1>1, <1>2 DEF M!AtRange
<1>4. u[2] = sizes.ranges
  <2>1. \A w \in R : ~(w[1] <= Len(imap)) => w[2] = sizes.ranges
    BY <1>1, <1>2, ListFacts
  <2> HIDE DEF u
  <2> QED
    BY <1>3, <2>1, Zenon
<1>5. RangesOf(imap, ranges, loop.pos) /\ loop.pos \in 1..(Len(imap) + 1)
  BY <1>1 DEF RangesInv, RangesOf
<1>6. loop.pos = Len(imap) + 1
  BY <1>1, <1>5, MapShape DEF M!AtRange
<1>7. RangesInv'
  BY <1>1, <1>5, <1>6 DEF RangesInv
<1>8. Made'
  BY <1>1 DEF CountInv, Later, Made, AllUsed, TreeTypes
<1>9. CountInv'
  BY <1>1, <1>2, <1>3, <1>4, <1>8 DEF CountInv, Later
<1> QED
  BY <1>7, <1>9

LEMMA StructsKeepCounts ==
  ASSUME MapFacts, StructTypes, CountInv, RangesInv, M!Next
  PROVE  CountInv' /\ RangesInv'
<1>1. CASE M!FillMemMapEntry
  BY <1>1, FillMapKeeps
<1>2. CASE M!FinishMemMap
  BY <1>2, FinishMapKeeps
<1>3. CASE M!EndAccelBlocks
  <2>1. /\ pc = "accel" /\ pc' = "map" /\ loop' = M!LoopAt(1, "entry") /\ imap' = imap /\ ranges' = ranges
    BY <1>3 DEF M!EndAccelBlocks
  <2>2. ranges = << >> /\ loop'.pos = 1
    BY <2>1 DEF CountInv, M!LoopAt
  <2>3. RangesOf(imap', ranges', loop'.pos)
    BY <2>1, <2>2, NoRangesYet DEF IsMap, MapFacts
  <2>4. CountInv'
    BY <1>3, LaterKeeps
  <2> QED
    BY <2>1, <2>3, <2>4 DEF RangesInv
<1>4. CASE ~M!FillMemMapEntry /\ ~M!FinishMemMap /\ ~M!EndAccelBlocks
  <2>1. pc' \notin {"map", "done"}
    BY <1>4 DEF M!Next, M!SkipRange, M!CalcTreeEntryElements, M!CountMemoryRanges, M!EndPass,
         M!PlaceStructs, M!NoRoomForStructs, M!CreateEntry, M!CreateTreeLevels,
         M!FillTreeLevelStructs, M!CreateTreeLevelBlocks, M!SetAllTreePagesAvailable,
         M!MarkMapEntry, M!MarkStructs, M!FillAccelBlocks
  <2>2. RangesInv'
    BY <2>1 DEF RangesInv
  <2>3. CASE M!SkipRange \/ M!EndPass
    <3>1. pc = "treeSize" \/ pc = "create"
      BY <2>3 DEF M!SkipRange, M!EndPass
    <3> QED
      BY <2>2, <2>3, <3>1, CountingKeeps, CreatingKeeps, EndOfCounting, EndOfCreation, Zenon
  <2>4. CASE M!CalcTreeEntryElements
    <3>1. pc = "treeSize"
      BY <2>4 DEF M!CalcTreeEntryElements
    <3> QED
      BY <2>2, <2>4, <3>1, CountingKeeps, Zenon
  <2>5. CASE M!CountMemoryRanges \/ M!PlaceStructs \/ M!NoRoomForStructs
    BY <2>2, <2>5, CountRangesKeeps, PlaceKeeps, NoRoomKeeps, Zenon
  <2>6. CASE M!CreateEntry \/ M!CreateTreeLevels \/ M!FillTreeLevelStructs \/ M!CreateTreeLevelBlocks
    <3>1. pc = "create"
      BY <2>6 DEF M!CreateEntry, M!CreateTreeLevels, M!FillTreeLevelStructs, M!CreateTreeLevelBlocks
    <3> QED
      BY <2>2, <2>6, <3>1, CreatingKeeps, Zenon
  <2>7. CASE M!SetAllTreePagesAvailable \/ M!MarkMapEntry \/ M!MarkStructs \/ M!FillAccelBlocks
    BY <2>2, <2>7, LaterKeeps, Zenon
  <2> QED
    BY <1>4, <2>3, <2>4, <2>5, <2>6, <2>7, Zenon DEF M!Next
<1> QED
  BY <1>1, <1>2, <1>3, <1>4

(* The invariant: the passes that fill the buffer follow those that have   *)
(* counted what goes into it.                                              *)
BootInv == PlaceInv /\ OnPages /\ CountInv /\ RangesInv

LEMMA FreshRanges ==
  ASSUME StructsFresh
  PROVE  RangesInv
  BY DEF StructsFresh, RangesInv

LEMMA BootInvInit ==
  ASSUME BootInit
  PROVE  BootInv
<1>1. PlaceInv
  BY PlaceInvInit
<1>2. StructsFresh /\ imap = << >>
  BY DEF BootInit, Init, M!Init, StructsFresh
<1> QED
  BY <1>1, <1>2, FreshCounts, FreshRanges DEF BootInv, OnPages

LEMMA BootInvStep ==
  ASSUME BootInv, [BootNext]_<<vars, structs>>
  PROVE  BootInv'
<1>1. PlaceInv'
  BY PlaceInvStep DEF BootInv
<1>2. OnPages'
  BY OnPagesStep DEF BootInv, PlaceInv
<1>3. CASE MakeInitialMap
  <2>1. StructsFresh'
    BY <1>3, NotDoneBefore, FreshStays DEF MakeInitialMap, BootInv, PlaceInv
  <2>2. CountInv' /\ RangesInv'
    BY <2>1, FreshCounts, FreshRanges, PTL
  <2> QED
    BY <1>1, <1>2, <2>2 DEF BootInv
<1>4. CASE MakeStructs
  <2>1. CountInv' /\ RangesInv'
    BY <1>4, StructsKeepCounts, MapFactsHold DEF MakeStructs, BootInv, PlaceInv
  <2> QED
    BY <1>1, <1>2, <2>1 DEF BootInv
<1>5. CASE UNCHANGED <<vars, structs>>
  <2>1. /\ imap' = imap /\ pc' = pc /\ loop' = loop /\ sizes' = sizes /\ used' = used
        /\ tree' = tree /\ ranges' = ranges /\ success' = success
    BY <1>5 DEF vars, structs
  <2>2. CountInv' /\ RangesInv'
    BY <2>1 DEF BootInv, CountInv, RangesInv, Created, Made, AllUsed, TreeTypes, Nothing, Later
  <2> QED
    BY <1>1, <1>2, <2>2 DEF BootInv
<1> QED
  BY <1>3, <1>4, <1>5 DEF BootNext

LEMMA NothingIsWithin ==
  ASSUME StructTypes, Nothing
  PROVE  Within /\ PoolInv(tree, used.blocks) /\ tree \in Seq(TreeSet) /\ used.blocks \in Nat
<1>1. DOMAIN tree = {} /\ tree \in Seq(TreeSet)
  BY DEF Nothing
<1>2. PoolInv(tree, used.blocks)
  BY <1>1, Zenon DEF PoolInv
<1> QED
  BY <1>1, <1>2 DEF StructTypes, Nothing, Within

LEMMA SpansApart ==
  ASSUME NEW a \in Int, NEW n \in Int, NEW b \in Int, NEW k \in Int,
         a + n <= b \/ b + k <= a
  PROVE  (a..(a + n - 1)) \cap (b..(b + k - 1)) = {}
OBVIOUS

LEMMA SpanWithin ==
  ASSUME NEW a \in Int, NEW n \in Int, NEW b \in Int, NEW c \in Int, 0 <= a, a + n <= b, b <= c
  PROVE  a..(a + n - 1) \subseteq 0..(c - 1)
OBVIOUS

LEMMA BlocksAreNotShared ==
  ASSUME tree \in Seq(TreeSet), PoolInv(tree, used.blocks), used.blocks \in Nat, sizes.blocks \in Nat,
         used.blocks <= sizes.blocks
  PROVE  M!LevelsDoNotShareBlocks
<1> SUFFICES ASSUME NEW e \in DOMAIN tree, NEW f \in DOMAIN tree, NEW l \in DOMAIN tree[e].levels,
                    NEW q \in DOMAIN tree[f].levels, tree[e].levels[l].at >= 0,
                    tree[f].levels[q].at >= 0, <<e, l>> # <<f, q>>
             PROVE  /\ M!PoolPart(tree[e].levels[l]) \cap M!PoolPart(tree[f].levels[q]) = {}
                    /\ M!PoolPart(tree[e].levels[l]) \subseteq 0..(sizes.blocks - 1)
  BY DEF M!LevelsDoNotShareBlocks
<1> DEFINE v == tree[e].levels[l]
           w == tree[f].levels[q]
<1>1. v \in LevelSet /\ w \in LevelSet
  <2>1. tree[e].levels \in Seq(LevelSet) /\ tree[f].levels \in Seq(LevelSet)
    <3>1. tree[e] \in TreeSet /\ tree[f] \in TreeSet
      OBVIOUS
    <3> QED
      BY <3>1 DEF TreeSet
  <2> QED
    BY <2>1
<1>2. v.at \in Int /\ v.num \in Int /\ w.at \in Int /\ w.num \in Int
  BY <1>1 DEF LevelSet
<1>3. v.at # -1 /\ w.at # -1
  BY <1>2
<1>4. v.at + v.num <= used.blocks
  BY <1>3, Zenon DEF PoolInv
<1>5. Apart(v, w)
  BY <1>3, Zenon DEF PoolInv
<1>6. v.at >= 0
  OBVIOUS
<1> HIDE DEF v, w
<1>7. M!PoolPart(v) \cap M!PoolPart(w) = {}
  BY <1>2, <1>5, SpansApart DEF M!PoolPart, Apart
<1>8. M!PoolPart(v) \subseteq 0..(sizes.blocks - 1)
  <2>1. used.blocks \in Int /\ sizes.blocks \in Int /\ 0 <= v.at
    BY <1>2, <1>6
  <2> QED
    BY <2>1, <1>2, <1>4, SpanWithin DEF M!PoolPart
<1> QED
  BY <1>7, <1>8 DEF v, w

LEMMA CountsHold ==
  ASSUME BootInv
  PROVE  CountsAreExact
<1>1. MapFacts /\ StructTypes /\ CountInv /\ RangesInv /\ OnPages
  BY MapFactsHold DEF BootInv, PlaceInv
<1>2. /\ sizes.entries \in Nat /\ sizes.levels \in Nat /\ sizes.blocks \in Nat /\ pc \in Pcs
  BY <1>1 DEF StructTypes
<1>3. Within /\ PoolInv(tree, used.blocks) /\ tree \in Seq(TreeSet) /\ used.blocks \in Nat
  <2>1. CASE pc \in {"treeSize", "mapSize", "failed"}
    BY <2>1, <1>1, NothingIsWithin DEF CountInv
  <2>2. CASE pc = "create"
    <3>1. Created
      BY <2>2, <1>1 DEF CountInv
    <3> QED
      BY <3>1, <1>1, CreatedIsWithin, CreateContext
  <2>3. CASE Later
    <3>1. Made
      BY <2>3, <1>1 DEF CountInv
    <3> QED
      BY <3>1, <1>2 DEF Made, AllUsed, TreeTypes, Within
  <2> QED
    BY <1>2, <2>1, <2>2, <2>3 DEF Pcs, Later
<1>4. Later => /\ used = [entries |-> sizes.entries, levels |-> sizes.levels, blocks |-> sizes.blocks]
               /\ Len(tree) = sizes.entries
  BY <1>1 DEF CountInv, Made, AllUsed, TreeTypes
<1>5. M!LevelsDoNotShareBlocks
  BY <1>2, <1>3, BlocksAreNotShared DEF Within
<1>6. M!RangesAreExact
  <2>1. CASE pc = "done"
    BY <2>1, <1>1, RangesAreRight DEF RangesInv
  <2>2. CASE pc # "done"
    BY <2>2 DEF M!RangesAreExact
  <2> QED
    BY <2>1, <2>2
<1>7. success /\ (pc = "done" => Len(ranges) = sizes.ranges)
  BY <1>1 DEF CountInv
<1> QED
  BY <1>3, <1>4, <1>5, <1>6, <1>7 DEF CountsAreExact, M!CountsAreExact, Within, Later

(* The passes that fill the buffer of the structures (CreatePhysicalMemTree *)
(* and the callback of the physical memory map) write what the passes that *)
(* sized it counted and no more, give every level blocks of its own, and   *)
(* the list of ranges is the initial map with its entries combined.        *)
THEOREM CountsAgree == BootSpec => []CountsAreExact
<1>1. BootInit => BootInv
  BY BootInvInit
<1>2. BootInv /\ [BootNext]_<<vars, structs>> => BootInv'
  BY BootInvStep
<1>3. BootInv => CountsAreExact
  BY CountsHold
<1> QED
  BY <1>1, <1>2, <1>3, PTL DEF BootSpec

-----------------------------------------------------------------------------
(* The pages of a tree.  Addresses of pages are compared by their numbers. *)

LEMMA WholeQuotient ==
  ASSUME NEW n \in Nat, NEW a \in Nat \ {0}, NEW r \in Nat, r < a
  PROVE  (n * a + r) \div a = n
<1> DEFINE x == n * a + r
           q == x \div a
<1>1. n * a \in Nat
  BY ProductIsNatural
<1>2. x \in Nat
  BY <1>1
<1>3. q \in Nat /\ a * q <= x /\ x < a * q + a
  BY <1>2
<1>4. a * q = q * a /\ q * a \in Nat
  BY <1>3, ProductIsNatural
<1>5. x = n * a + r
  OBVIOUS
<1> HIDE DEF q, x
<1>6. n < q => n * a + a <= q * a
  BY <1>3, ProductIsStrict
<1>7. q < n => q * a + a <= n * a
  BY <1>3, ProductIsStrict
<1>8. ~(n < q)
  BY <1>1, <1>3, <1>4, <1>5, <1>6
<1>9. ~(q < n)
  BY <1>1, <1>3, <1>4, <1>5, <1>7
<1>10. q = n
  BY <1>3, <1>8, <1>9
<1> QED
  BY <1>10 DEF q, x

LEMMA PageNumber ==
  ASSUME NEW n \in Nat
  PROVE  /\ (n * PageSize) \div PageSize = n
         /\ (n * PageSize + PageSize - 1) \div PageSize = n
         /\ n * PageSize \in Nat
<1>1. PageSize \in Nat \ {0} /\ PageSize - 1 \in Nat /\ PageSize - 1 < PageSize /\ 0 < PageSize
  BY EfiMapsAssumption
<1>2. n * PageSize \in Nat
  BY <1>1, ProductIsNatural
<1>3. (n * PageSize + 0) \div PageSize = n
  BY <1>1, WholeQuotient
<1>4. (n * PageSize + (PageSize - 1)) \div PageSize = n
  BY <1>1, WholeQuotient
<1>5. n * PageSize + 0 = n * PageSize /\ n * PageSize + PageSize - 1 = n * PageSize + (PageSize - 1)
  BY <1>1, <1>2
<1> QED
  BY <1>2, <1>3, <1>4, <1>5

LEMMA PagesBetween ==
  ASSUME NEW n \in Nat, NEW k \in Nat, n <= k
  PROVE  /\ (k * PageSize - n * PageSize) \div PageSize = k - n
         /\ k * PageSize - n * PageSize \in Nat
         /\ n * PageSize <= k * PageSize
<1>1. PageSize \in Nat \ {0} /\ k - n \in Nat /\ k = n + (k - n)
  BY EfiMapsAssumption
<1>2. k * PageSize = n * PageSize + (k - n) * PageSize
  <2> DEFINE d == k - n
  <2>1. d \in Nat /\ k = n + d
    BY <1>1
  <2> HIDE DEF d
  <2>2. (n + d) * PageSize = n * PageSize + d * PageSize
    BY <2>1, <1>1, ProductOfSum
  <2> QED
    BY <2>1, <2>2 DEF d
<1>3. n * PageSize \in Nat /\ k * PageSize \in Nat /\ (k - n) * PageSize \in Nat
  BY <1>1, PageNumber
<1>4. k * PageSize - n * PageSize = (k - n) * PageSize
  BY <1>2, <1>3
<1>5. ((k - n) * PageSize) \div PageSize = k - n
  BY <1>1, PageNumber
<1> QED
  BY <1>2, <1>3, <1>4, <1>5

LEMMA PageOrder ==
  ASSUME NEW n \in Nat, NEW k \in Nat
  PROVE  /\ n < k <=> n * PageSize < k * PageSize
         /\ n <= k <=> n * PageSize <= k * PageSize
         /\ n < k => n * PageSize + PageSize <= k * PageSize
<1>1. PageSize \in Nat \ {0}
  BY EfiMapsAssumption
<1>2. n * PageSize \in Nat /\ k * PageSize \in Nat
  BY PageNumber
<1>3. n < k => n * PageSize + PageSize <= k * PageSize
  BY <1>1, ProductIsStrict
<1>4. k < n => k * PageSize + PageSize <= n * PageSize
  BY <1>1, ProductIsStrict
<1>5. n = k => n * PageSize = k * PageSize
  OBVIOUS
<1> QED
  BY <1>1, <1>2, <1>3, <1>4, <1>5

(* A region that starts on a page and has so many bytes reaches into the   *)
(* pages up to the one its end is rounded up to.                           *)
LEMMA PagesOfRegion ==
  ASSUME NEW n \in Nat, NEW s \in Nat
  PROVE  /\ M!PageDown(n * PageSize) = n * PageSize
         /\ \E k \in Nat : /\ M!PageUp(n * PageSize + s) = k * PageSize
                           /\ n <= k
                           /\ \A x \in Nat : Meets(x * PageSize, n * PageSize, s) <=> n <= x /\ x < k
<1>1. PageSize \in Nat \ {0}
  BY EfiMapsAssumption
<1>2. M!PageDown(n * PageSize) = n * PageSize
  BY PageNumber DEF M!PageDown
<1> DEFINE y == n * PageSize + s
           k == (y + PageSize - 1) \div PageSize
<1>3. n * PageSize \in Nat /\ y \in Nat /\ y + PageSize - 1 = y + (PageSize - 1)
  BY <1>1, PageNumber
<1>4. y = n * PageSize + s
  OBVIOUS
<1>5. M!PageUp(y) = k * PageSize
  BY DEF M!PageUp
<1> HIDE DEF y
<1>6. k \in Nat /\ y <= k * PageSize
  BY <1>1, <1>3, RoundedUp
<1>7. k * PageSize < y + PageSize
  <2>1. y + (PageSize - 1) \in Nat /\ k = (y + (PageSize - 1)) \div PageSize
    BY <1>1, <1>3
  <2>2. PageSize * k <= y + (PageSize - 1)
    BY <1>1, <2>1
  <2>3. PageSize * k = k * PageSize /\ k * PageSize \in Nat
    BY <1>1, <1>6, ProductIsNatural
  <2> HIDE DEF k
  <2> QED
    BY <1>1, <1>3, <2>2, <2>3
<1> HIDE DEF k
<1>8. n <= k
  <2>1. n * PageSize <= k * PageSize
    BY <1>3, <1>4, <1>6, PageNumber
  <2> QED
    BY <2>1, <1>6, PageOrder
<1>9. ASSUME NEW x \in Nat
      PROVE  Meets(x * PageSize, n * PageSize, s) <=> n <= x /\ x < k
  <2>1. x * PageSize \in Nat /\ k * PageSize \in Nat
    BY <1>6, PageNumber
  <2>2. Meets(x * PageSize, n * PageSize, s) <=> x * PageSize < y /\ n * PageSize < x * PageSize + PageSize
    BY <1>4 DEF Meets
  <2>3. n <= x <=> n * PageSize < x * PageSize + PageSize
    <3>1. n <= x => n * PageSize <= x * PageSize
      BY PageOrder
    <3>2. x < n => x * PageSize + PageSize <= n * PageSize
      BY PageOrder
    <3> QED
      BY <3>1, <3>2, <2>1, <1>1, <1>3
  <2>4. x < k <=> x * PageSize < y
    <3>1. x < k => x * PageSize + PageSize <= k * PageSize
      BY <1>6, PageOrder
    <3>2. k <= x => k * PageSize <= x * PageSize
      BY <1>6, PageOrder
    <3>3. x < k => x * PageSize < y
      BY <3>1, <2>1, <1>1, <1>3, <1>7
    <3>4. ~(x < k) => ~(x * PageSize < y)
      BY <3>2, <2>1, <1>3, <1>6
    <3> QED
      BY <3>3, <3>4
  <2> QED
    BY <2>2, <2>3, <2>4
<1> QED
  BY <1>2, <1>4, <1>5, <1>6, <1>8, <1>9 DEF y

Bottom(f) == f.levels[f.numLevels]

(* The pages of tree f are those from number n up to k. *)
TreeSpan(f, n, k) ==
  /\ n \in Nat /\ k \in Nat /\ n < k
  /\ f.start = n * PageSize /\ f.end = k * PageSize
  /\ Bottom(f).start = n * PageSize /\ Bottom(f).bs = PageSize /\ Bottom(f).num = k - n
  /\ DOMAIN Bottom(f).blocks = 0..(k - n - 1)

LEMMA SpanIsUnique ==
  ASSUME NEW f, NEW n, NEW k, TreeSpan(f, n, k), NEW q, NEW l, TreeSpan(f, q, l)
  PROVE  q = n /\ l = k
<1>1. /\ n \in Nat /\ k \in Nat /\ q \in Nat /\ l \in Nat
      /\ n * PageSize = q * PageSize /\ k * PageSize = l * PageSize
  BY DEF TreeSpan
<1>2. PageSize \in Nat \ {0}
  BY EfiMapsAssumption
<1> QED
  BY <1>1, <1>2, ProductCancels

(* Every entry of the map lies on whole pages. *)
LEMMA EntryPages ==
  ASSUME IsMap(imap), OnPages, NEW i \in DOMAIN imap
  PROVE  \E n, k \in Nat : imap[i].start = n * PageSize /\ End(imap[i]) = k * PageSize /\ n < k
<1>1. imap[i] \in PageEntries
  BY DEF OnPages
<1>2. imap[i] \in EntrySet /\ Bounded(imap[i])
  BY MapShape DEF Sorted
<1>3. imap[i].start \in Nat /\ imap[i].pages \in Nat /\ OnPage(imap[i].start)
  BY <1>1, <1>2 DEF EntrySet, PageEntries
<1>4. OnPage(End(imap[i]))
  BY <1>3, OnPageFacts DEF End
<1>5. PICK n \in Nat : imap[i].start = n * PageSize
  BY <1>3 DEF OnPage
<1>6. PICK k \in Nat : End(imap[i]) = k * PageSize
  BY <1>4 DEF OnPage
<1>7. n < k
  BY <1>2, <1>5, <1>6, PageOrder DEF Bounded
<1> QED
  BY <1>5, <1>6, <1>7

LEMMA TreeOnPages ==
  ASSUME IsMap(imap), OnPages, NEW f \in TreeSet, Complete(imap, f)
  PROVE  \E n, k \in Nat : TreeSpan(f, n, k)
<1>1. PICK g : /\ Whole(imap, g, f.numLevels) /\ Placed(imap, f, g[0].pos)
               /\ \A j \in 1..f.numLevels : LevelMade(imap, f.levels[j], g[f.numLevels - j])
  BY Zenon DEF Complete
<1>2. /\ f.numLevels \in Nat /\ f.numLevels >= 1 /\ f.numLevels \in DOMAIN f.levels
      /\ DOMAIN Bottom(f).blocks = 0..(Bottom(f).num - 1)
  BY CompleteLevels DEF Bottom
<1> DEFINE p == g[0].pos
           j == LastIn(imap, p)
<1>3. Chain(imap, g, f.numLevels) /\ g[0] \in Traces
  BY <1>1, ChainStart, Zenon DEF Whole
<1>4. p <= Len(imap) /\ g[0].n = 0 /\ g[0].bs = PageSize /\ p \in Nat \ {0}
  BY <1>3 DEF Chain, Traces
<1>5. Len(imap) \in Nat /\ DOMAIN imap = 1..Len(imap) /\ Sorted(imap)
  BY MapShape
<1>6. p \in 1..Len(imap)
  BY <1>4, <1>5
<1>7. j \in p..Len(imap)
  BY <1>5, <1>6, LastOfFacts
<1>8. p \in DOMAIN imap /\ j \in DOMAIN imap /\ (p = j \/ p < j)
  BY <1>5, <1>6, <1>7
<1>9. f.start = imap[p].start /\ f.end = End(imap[j])
  BY <1>1 DEF Placed
<1>10. PICK n \in Nat, l \in Nat : imap[p].start = n * PageSize /\ End(imap[p]) = l * PageSize /\ n < l
  BY <1>8, EntryPages
<1>11. PICK q \in Nat, k \in Nat : imap[j].start = q * PageSize /\ End(imap[j]) = k * PageSize /\ q < k
  BY <1>8, EntryPages
<1> HIDE DEF p, j
<1>12. n < k
  <2>1. CASE p = j
    <3>1. l * PageSize = k * PageSize
      BY <2>1, <1>10, <1>11
    <3>2. l <= k
      BY <3>1, PageOrder
    <3> QED
      BY <3>2, <1>10
  <2>2. CASE p < j
    <3>1. End(imap[p]) <= imap[j].start
      BY <2>2, <1>5, <1>8, Zenon DEF Sorted
    <3>2. l <= q
      BY <3>1, <1>10, <1>11, PageOrder
    <3> QED
      BY <3>2, <1>10, <1>11
  <2> QED
    BY <1>8, <2>1, <2>2
<1>13. MinOf(imap, g[0]) = n * PageSize
  <2>1. MinOf(imap, g[0]) = ((n * PageSize) \div PageSize) * PageSize
    BY <1>4, <1>10 DEF MinOf, FirstMin, p
  <2> QED
    BY <2>1, PageNumber
<1>14. MaxOf(imap, g[0]) = k * PageSize
  <2>1. MaxOf(imap, g[0]) = ((k * PageSize + PageSize - 1) \div PageSize) * PageSize
    BY <1>4, <1>11 DEF MaxOf, FirstMax, p, j
  <2> QED
    BY <2>1, PageNumber
<1>15. NumOf(imap, g[0]) = k - n
  <2>1. NumOf(imap, g[0]) = (k * PageSize - n * PageSize) \div PageSize
    BY <1>4, <1>13, <1>14 DEF NumOf
  <2> QED
    BY <2>1, <1>12, PagesBetween
<1>16. LevelMade(imap, Bottom(f), g[0])
  <2>1. f.numLevels \in 1..f.numLevels /\ f.numLevels - f.numLevels = 0
    BY <1>2
  <2> QED
    BY <2>1, <1>1 DEF Bottom
<1>17. Bottom(f).start = n * PageSize /\ Bottom(f).bs = PageSize /\ Bottom(f).num = k - n
  BY <1>4, <1>13, <1>15, <1>16 DEF LevelMade
<1> QED
  BY <1>2, <1>9, <1>10, <1>11, <1>12, <1>17 DEF TreeSpan

(* The pages with numbers in U are unavailable, and no others. *)
Shows(f, U) ==
  \A n, k \in Nat : TreeSpan(f, n, k) =>
    \A b \in 0..(k - n - 1) : Bottom(f).blocks[b] = IF n + b \in U THEN M!Unavailable ELSE M!Available

LEMMA BlocksRead ==
  ASSUME NEW e \in TreeSet, NEW l \in DOMAIN e.levels, NEW s
  PROVE  [e EXCEPT !.levels[l].blocks = s].levels[l].blocks = s
<1>1. e.levels \in Seq(LevelSet)
  BY DEF TreeSet
<1>2. e.levels[l] \in LevelSet
  BY <1>1
<1>3. [e.levels[l] EXCEPT !.blocks = s].blocks = s
  BY <1>2 DEF LevelSet
<1>4. [e.levels EXCEPT ![l] = [e.levels[l] EXCEPT !.blocks = s]][l] = [e.levels[l] EXCEPT !.blocks = s]
  BY <1>1
<1>5. [e EXCEPT !.levels[l].blocks = s].levels = [e.levels EXCEPT ![l] = [e.levels[l] EXCEPT !.blocks = s]]
  BY DEF TreeSet
<1> QED
  BY <1>3, <1>4, <1>5

(* Tree f is g with value v in the pages of P. *)
Rewritten(g, f, P, v) ==
  /\ \A n, k : TreeSpan(f, n, k) <=> TreeSpan(g, n, k)
  /\ \A b \in DOMAIN Bottom(g).blocks :
       Bottom(f).blocks[b] = IF b \in P THEN v ELSE Bottom(g).blocks[b]

LEMMA PagesWritten ==
  ASSUME NEW e, tree[e] \in TreeSet, Complete(imap, tree[e]), NEW P, NEW v \in 0..128,
         NEW f, f = M!WithPages(e, P, v)
  PROVE  Rewritten(tree[e], f, P, v)
<1> DEFINE s == [b \in DOMAIN Bottom(tree[e]).blocks |-> IF b \in P THEN v ELSE Bottom(tree[e]).blocks[b]]
<1>1. SameShape(tree[e], f)
  BY WithPagesKeepsShape, Zenon
<1>2. /\ tree[e].numLevels \in DOMAIN tree[e].levels /\ tree[e].levels \in Seq(LevelSet)
      /\ tree[e].levels[tree[e].numLevels] \in LevelSet
      /\ DOMAIN Bottom(tree[e]).blocks = 0..(Bottom(tree[e]).num - 1)
  BY CompleteLevels DEF Bottom
<1>3. f = [tree[e] EXCEPT !.levels[tree[e].numLevels].blocks = s]
  BY DEF M!WithPages, Bottom
<1>4. Bottom(f).blocks = s
  <2>1. Filled128(Bottom(tree[e]))
    BY <1>2, CompleteLevels DEF Bottom
  <2>2. s \in [0..(Bottom(tree[e]).num - 1) -> 0..128]
    BY <2>1 DEF Filled128
  <2> DEFINE l == tree[e].numLevels
  <2>3. s \in [0..(tree[e].levels[l].num - 1) -> 0..128]
    BY <2>2 DEF Bottom
  <2>4. l \in DOMAIN tree[e].levels
    BY <1>2
  <2>5. f.numLevels = l
    BY <1>1 DEF SameShape
  <2>6. f = [tree[e] EXCEPT !.levels[l].blocks = s]
    BY <1>3
  <2> HIDE DEF s, l
  <2>7. [tree[e] EXCEPT !.levels[l].blocks = s].levels[l].blocks = s
    BY <2>4, BlocksRead
  <2>8. f.levels[l].blocks = s
    BY <2>6, <2>7
  <2> QED
    BY <2>5, <2>8 DEF Bottom
<1>5. /\ f.start = tree[e].start /\ f.end = tree[e].end /\ f.numLevels = tree[e].numLevels
      /\ Bottom(f).start = Bottom(tree[e]).start /\ Bottom(f).bs = Bottom(tree[e]).bs
      /\ Bottom(f).num = Bottom(tree[e]).num
  BY <1>1, <1>2 DEF SameShape, Bottom
<1>6. DOMAIN Bottom(f).blocks = DOMAIN Bottom(tree[e]).blocks
  BY <1>4
<1>7. \A n, k : TreeSpan(f, n, k) <=> TreeSpan(tree[e], n, k)
  BY <1>5, <1>6 DEF TreeSpan
<1>8. \A b \in DOMAIN Bottom(tree[e]).blocks :
        Bottom(f).blocks[b] = IF b \in P THEN v ELSE Bottom(tree[e]).blocks[b]
  BY <1>4
<1> QED
  BY <1>7, <1>8 DEF Rewritten

RegionPages(address, size) == {x \in Nat : Meets(x * PageSize, address, size)}

(* Marking a region changes the pages it meets to unavailable. *)
LEMMA MarkShows ==
  ASSUME IsMap(imap), OnPages, NEW e \in M!Listed, tree[e] \in TreeSet, Complete(imap, tree[e]),
         NEW U, Shows(tree[e], U), NEW a \in Nat, NEW s \in Nat
  PROVE  Shows(M!MarkUsedTreePages(a * PageSize, s)[e], U \cup RegionPages(a * PageSize, s))
<1> DEFINE f == M!MarkUsedTreePages(a * PageSize, s)[e]
           V == U \cup RegionPages(a * PageSize, s)
<1>1. PICK n \in Nat, k \in Nat : TreeSpan(tree[e], n, k)
  BY TreeOnPages
<1>2. /\ n < k /\ tree[e].start = n * PageSize /\ tree[e].end = k * PageSize
      /\ Bottom(tree[e]).start = n * PageSize /\ Bottom(tree[e]).bs = PageSize
      /\ Bottom(tree[e]).num = k - n /\ DOMAIN Bottom(tree[e]).blocks = 0..(k - n - 1)
  BY <1>1 DEF TreeSpan
<1>3. /\ M!PageDown(a * PageSize) = a * PageSize
      /\ \E v \in Nat : /\ M!PageUp(a * PageSize + s) = v * PageSize /\ a <= v
                        /\ \A x \in Nat : Meets(x * PageSize, a * PageSize, s) <=> a <= x /\ x < v
  BY PagesOfRegion
<1>4. PICK v \in Nat : /\ M!PageUp(a * PageSize + s) = v * PageSize /\ a <= v
                       /\ \A x \in Nat : Meets(x * PageSize, a * PageSize, s) <=> a <= x /\ x < v
  BY <1>3
<1>5. \A x \in Nat : x \in V <=> x \in U \/ (a <= x /\ x < v)
  BY <1>4 DEF RegionPages
<1> HIDE DEF V
<1>6. \A b \in 0..(k - n - 1) :
        Bottom(tree[e]).blocks[b] = IF n + b \in U THEN M!Unavailable ELSE M!Available
  BY <1>1, Zenon DEF Shows
<1>7. e \in DOMAIN tree
  BY DEF M!Listed
<1> DEFINE lo == IF a > n THEN a ELSE n
           hi == IF v < k THEN v ELSE k
           first == (M!Larger(a * PageSize, n * PageSize) - n * PageSize) \div PageSize
           num == (M!Smaller(v * PageSize, k * PageSize) - M!Larger(a * PageSize, n * PageSize)) \div PageSize
<1>8. M!Larger(a * PageSize, n * PageSize) = lo * PageSize
  BY PageOrder DEF M!Larger
<1>9. M!Smaller(v * PageSize, k * PageSize) = hi * PageSize
  BY PageOrder DEF M!Smaller
<1>10. Bottom(tree[e]).start + Bottom(tree[e]).num * Bottom(tree[e]).bs = k * PageSize
  <2> DEFINE d == k - n
  <2>1. d \in Nat /\ k = n + d /\ PageSize \in Nat
    BY <1>2, EfiMapsAssumption
  <2>2. Bottom(tree[e]).start + Bottom(tree[e]).num * Bottom(tree[e]).bs = n * PageSize + d * PageSize
    BY <1>2
  <2> HIDE DEF d
  <2>3. (n + d) * PageSize = n * PageSize + d * PageSize
    BY <2>1, ProductOfSum
  <2> QED
    BY <2>1, <2>2, <2>3
<1>11. f = IF a * PageSize < k * PageSize /\ v * PageSize > n * PageSize
           THEN M!WithPages(e, first..(first + num - 1), M!Unavailable) ELSE tree[e]
  <2>1. M!LastLevel(e) = Bottom(tree[e])
    BY DEF M!LastLevel, Bottom
  <2> HIDE DEF first, num
  <2>2. (M!Larger(a * PageSize, n * PageSize) - n * PageSize) \div PageSize = first
    BY DEF first
  <2>3. (M!Smaller(v * PageSize, k * PageSize) - M!Larger(a * PageSize, n * PageSize)) \div PageSize = num
    BY DEF num
  <2> QED
    BY <1>2, <1>3, <1>4, <1>7, <1>10, <2>1, <2>2, <2>3 DEF M!MarkUsedTreePages
<1> HIDE DEF f
<1>12. a * PageSize < k * PageSize /\ v * PageSize > n * PageSize <=> a < k /\ n < v
  <2>1. /\ a * PageSize \in Nat /\ k * PageSize \in Nat /\ v * PageSize \in Nat /\ n * PageSize \in Nat
    BY PageNumber
  <2>2. a < k <=> a * PageSize < k * PageSize
    BY PageOrder
  <2>3. n < v <=> n * PageSize < v * PageSize
    BY PageOrder
  <2> QED
    BY <2>1, <2>2, <2>3
<1>13. CASE a < k /\ n < v
  <2>1. lo \in Nat /\ hi \in Nat /\ n <= lo /\ lo <= hi
    BY <1>2, <1>4, <1>13
  <2>2. first = lo - n
    <3> HIDE DEF lo, hi
    <3> QED
      BY <1>8, <2>1, PagesBetween
  <2>3. num = hi - lo
    <3> HIDE DEF lo, hi
    <3> QED
      BY <1>8, <1>9, <2>1, PagesBetween
  <2> HIDE DEF first, num
  <2> DEFINE P == first..(first + num - 1)
  <2>4. \A b \in 0..(k - n - 1) : b \in P <=> a <= n + b /\ n + b < v
    BY <2>1, <2>2, <2>3, <1>2, <1>4
  <2>5. f = M!WithPages(e, P, M!Unavailable)
    BY <1>11, <1>12, <1>13
  <2>6. M!Unavailable \in 0..128
    BY DEF M!Unavailable
  <2> HIDE DEF P
  <2>7. /\ \A q, l : TreeSpan(f, q, l) <=> TreeSpan(tree[e], q, l)
        /\ \A b \in DOMAIN Bottom(tree[e]).blocks :
              Bottom(f).blocks[b] = IF b \in P THEN M!Unavailable ELSE Bottom(tree[e]).blocks[b]
    <3>1. Rewritten(tree[e], f, P, M!Unavailable)
      BY <2>5, <2>6, PagesWritten, Zenon
    <3> QED
      BY <3>1 DEF Rewritten
  <2>8. \A b \in 0..(k - n - 1) : Bottom(f).blocks[b] = IF n + b \in V THEN M!Unavailable ELSE M!Available
    <3> TAKE b \in 0..(k - n - 1)
    <3>1. n + b \in Nat
      BY <1>2
    <3>2. n + b \in V <=> n + b \in U \/ b \in P
      BY <3>1, <1>5, <2>4
    <3>3. Bottom(f).blocks[b] = IF b \in P THEN M!Unavailable ELSE Bottom(tree[e]).blocks[b]
      BY <1>2, <2>7
    <3> QED
      BY <3>2, <3>3, <1>6
  <2>9. ASSUME NEW q, NEW l, TreeSpan(f, q, l)
        PROVE  q = n /\ l = k
    <3>1. TreeSpan(tree[e], q, l)
      BY <2>7, <2>9, Zenon
    <3> QED
      BY <3>1, <1>1, SpanIsUnique, Zenon
  <2> QED
    BY <2>8, <2>9 DEF Shows, f, V
<1>14. CASE ~(a < k /\ n < v)
  <2>1. f = tree[e]
    BY <1>11, <1>12, <1>14
  <2>2. \A b \in 0..(k - n - 1) : n + b \in V <=> n + b \in U
    <3> TAKE b \in 0..(k - n - 1)
    <3>1. n + b \in Nat /\ ~(a <= n + b /\ n + b < v)
      BY <1>2, <1>4, <1>14
    <3> QED
      BY <3>1, <1>5
  <2>3. \A b \in 0..(k - n - 1) : Bottom(f).blocks[b] = IF n + b \in V THEN M!Unavailable ELSE M!Available
    BY <2>1, <2>2, <1>6
  <2>4. \A q, l : TreeSpan(f, q, l) => q = n /\ l = k
    BY <1>1, <2>1, SpanIsUnique, Zenon
  <2> QED
    BY <2>3, <2>4 DEF Shows, f, V
<1> QED
  BY <1>13, <1>14

-----------------------------------------------------------------------------
(* The memory that should have a tree has one. *)
Spans(f, r) == f.start <= r.start /\ End(r) <= f.end
Covers(m, tr, p) ==
  \A i \in DOMAIN m : i < p /\ Managed(m, i) => \E e \in DOMAIN tr : Spans(tr[e], m[i])

SamePlaces(tr, tr2) ==
  \A e \in DOMAIN tr : e \in DOMAIN tr2 /\ tr2[e].start = tr[e].start /\ tr2[e].end = tr[e].end

LEMMA CoversStill ==
  ASSUME NEW m, NEW tr, NEW tr2, NEW p, Covers(m, tr, p), SamePlaces(tr, tr2)
  PROVE  Covers(m, tr2, p)
<1>1. ASSUME NEW i \in DOMAIN m, i < p, Managed(m, i)
      PROVE  \E e \in DOMAIN tr2 : Spans(tr2[e], m[i])
  <2>1. PICK e \in DOMAIN tr : Spans(tr[e], m[i])
    BY <1>1, Zenon DEF Covers
  <2>2. e \in DOMAIN tr2 /\ Spans(tr2[e], m[i])
    BY <2>1 DEF SamePlaces, Spans
  <2> QED
    BY <2>2
<1> QED
  BY <1>1, Zenon DEF Covers

LEMMA RunIsSpanned ==
  ASSUME NEW m, IsMap(m), NEW p \in DOMAIN m, NEW f, Placed(m, f, p), NEW i \in p..LastIn(m, p)
  PROVE  Spans(f, m[i])
<1> DEFINE j == LastIn(m, p)
<1>1. Len(m) \in Nat /\ DOMAIN m = 1..Len(m) /\ Sorted(m)
  BY MapShape
<1>2. j \in p..Len(m)
  BY <1>1, LastOfFacts
<1> HIDE DEF j
<1>3. p \in Nat /\ j \in Nat /\ j \in DOMAIN m
  BY <1>1, <1>2
<1>4. i \in p..j
  BY DEF j
<1>5. i \in DOMAIN m /\ (p = i \/ p < i) /\ (i = j \/ i < j)
  BY <1>1, <1>2, <1>3, <1>4
<1>6. f.start = m[p].start /\ f.end = End(m[j])
  BY DEF Placed, j
<1>7. /\ m[p].start \in Nat /\ m[i].start \in Nat /\ m[j].start \in Nat
      /\ End(m[p]) \in Nat /\ End(m[i]) \in Nat /\ End(m[j]) \in Nat
      /\ m[p].start < End(m[p]) /\ m[j].start < End(m[j])
  BY <1>1, <1>3, <1>5, Zenon DEF Sorted, Bounded
<1>8. m[p].start <= m[i].start
  <2>1. CASE p = i
    BY <1>7, <2>1
  <2>2. CASE p < i
    <3>1. End(m[p]) <= m[i].start
      BY <2>2, <1>1, <1>5, Zenon DEF Sorted
    <3> QED
      BY <3>1, <1>7
  <2> QED
    BY <1>5, <2>1, <2>2
<1>9. End(m[i]) <= End(m[j])
  <2>1. CASE i = j
    BY <1>7, <2>1
  <2>2. CASE i < j
    <3>1. End(m[i]) <= m[j].start
      BY <2>2, <1>1, <1>3, <1>5, Zenon DEF Sorted
    <3> QED
      BY <3>1, <1>7
  <2> QED
    BY <1>5, <2>1, <2>2
<1> QED
  BY <1>6, <1>8, <1>9 DEF Spans

LEMMA CoversRange ==
  ASSUME NEW m, IsMap(m), NEW tr, NEW p \in DOMAIN m, Covers(m, tr, p),
         Managed(m, p) => \E e \in DOMAIN tr : Placed(m, tr[e], p)
  PROVE  Covers(m, tr, LastIn(m, p) + 1)
<1> DEFINE j == LastIn(m, p)
<1>1. Len(m) \in Nat /\ DOMAIN m = 1..Len(m) /\ Sorted(m)
  BY MapShape
<1>2. j \in p..Len(m) /\ \A k \in p..(j - 1) : Carries(m, k)
  BY <1>1, LastOfFacts
<1>3. p \in Nat /\ j \in Nat /\ p <= j
  BY <1>1, <1>2
<1>4. \A k \in p..j : m[k].type = m[p].type
  <2> HIDE DEF j
  <2> QED
    BY <1>2, <1>3, RunHasKind
<1>5. ASSUME NEW i \in DOMAIN m, i < j + 1, Managed(m, i)
      PROVE  \E e \in DOMAIN tr : Spans(tr[e], m[i])
  <2>1. CASE i < p
    BY <2>1, <1>5, Zenon DEF Covers
  <2>2. CASE ~(i < p)
    <3>1. i \in p..j
      BY <2>2, <1>1, <1>3, <1>5
    <3>2. Managed(m, p)
      BY <3>1, <1>4, <1>5 DEF Managed
    <3>3. PICK e \in DOMAIN tr : Placed(m, tr[e], p)
      BY <3>2
    <3>4. Spans(tr[e], m[i])
      BY <3>1, <3>3, RunIsSpanned
    <3> QED
      BY <3>4
  <2> QED
    BY <2>1, <2>2
<1> QED
  BY <1>5 DEF Covers

LEMMA LastIsPlaced ==
  ASSUME MapFacts, StructTypes, Created, loop.step = "blocks"
  PROVE  Placed(imap, tree[Len(tree)], loop.pos) /\ Len(tree) \in DOMAIN tree
<1>1. PICK T : InBlocks(imap, T, loop, used, tree)
  BY Zenon DEF Created, CreateInv
<1>2. PICK g : Placed(imap, tree[Len(tree)], g[0].pos) /\ loop.pos = g[0].pos
  BY <1>1, Zenon DEF InBlocks
<1>3. tree # << >> /\ tree \in Seq(TreeSet)
  BY <1>1 DEF InBlocks, Created, TreeTypes
<1> QED
  BY <1>2, <1>3

CoverInv ==
  /\ pc = "create" => Covers(imap, tree, loop.pos)
  /\ Later => Covers(imap, tree, Len(imap) + 1)

LEMMA LevelsReplaced ==
  ASSUME NEW f \in TreeSet, NEW v
  PROVE  [f EXCEPT !.levels = v].start = f.start /\ [f EXCEPT !.levels = v].end = f.end
  BY DEF TreeSet

LEMMA WithPagesStays ==
  ASSUME NEW e, tree[e] \in TreeSet, NEW P, NEW v
  PROVE  M!WithPages(e, P, v).start = tree[e].start /\ M!WithPages(e, P, v).end = tree[e].end
  BY DEF M!WithPages, TreeSet

LEMMA OneReplaced ==
  ASSUME NEW tr \in Seq(TreeSet), NEW n, NEW f,
         n \in DOMAIN tr => f.start = tr[n].start /\ f.end = tr[n].end
  PROVE  SamePlaces(tr, [tr EXCEPT ![n] = f])
<1>1. DOMAIN [tr EXCEPT ![n] = f] = DOMAIN tr
  OBVIOUS
<1>2. \A e \in DOMAIN tr : [tr EXCEPT ![n] = f][e] = IF e = n THEN f ELSE tr[e]
  OBVIOUS
<1> QED
  BY <1>1, <1>2 DEF SamePlaces

LEMMA OneAppended ==
  ASSUME NEW tr \in Seq(TreeSet), NEW f
  PROVE  SamePlaces(tr, Append(tr, f))
<1>1. \A e \in DOMAIN tr : e \in DOMAIN Append(tr, f) /\ Append(tr, f)[e] = tr[e]
  OBVIOUS
<1> QED
  BY <1>1 DEF SamePlaces

LEMMA CoverWhileMade ==
  ASSUME MapFacts, StructTypes, Created, Created', Covers(imap, tree, loop.pos),
         M!CreateEntry \/ M!CreateTreeLevels \/ M!FillTreeLevelStructs
  PROVE  Covers(imap', tree', loop'.pos)
<1>1. tree \in Seq(TreeSet) /\ loop \in Loops /\ IsMap(imap) /\ Len(tree) \in Nat
  BY CreateContext
<1>2. success' = TRUE
  BY DEF Created
<1>3. CASE M!CreateEntry
  <2>1. used.entries + 1 <= sizes.entries
    BY <1>2, <1>3 DEF M!CreateEntry
  <2>2. \E f : tree' = Append(tree, f)
    BY <2>1, <1>3, Zenon DEF M!CreateEntry
  <2>3. SamePlaces(tree, tree')
    BY <2>2, <1>1, OneAppended
  <2>4. loop'.pos = loop.pos /\ imap' = imap
    BY <2>1, <1>3 DEF M!CreateEntry, M!LoopAt
  <2> QED
    BY <2>3, <2>4, CoversStill
<1>4. CASE M!CreateTreeLevels
  <2>1. M!AtRange
    BY <1>4 DEF M!CreateTreeLevels, M!Wanted
  <2>2. loop'.pos = loop.pos /\ imap' = imap
    BY <2>1, <1>1, <1>4, NextLevelType DEF M!CreateTreeLevels, M!LoopAt
  <2> DEFINE f == [tree[Len(tree)] EXCEPT !.numLevels = @ + 1]
  <2>3. tree' = [tree EXCEPT ![Len(tree)] = f]
    BY <1>4 DEF M!CreateTreeLevels, M!N
  <2>4. Len(tree) \in DOMAIN tree => f.start = tree[Len(tree)].start /\ f.end = tree[Len(tree)].end
    BY <1>1 DEF TreeSet
  <2> HIDE DEF f
  <2>5. SamePlaces(tree, tree')
    BY <2>3, <2>4, <1>1, OneReplaced
  <2> QED
    BY <2>2, <2>5, CoversStill
<1>5. CASE M!FillTreeLevelStructs
  <2>1. M!AtRange
    BY <1>5 DEF M!FillTreeLevelStructs, M!Wanted
  <2>2. loop'.pos = loop.pos /\ imap' = imap
    BY <2>1, <1>1, <1>5, NextLevelType DEF M!FillTreeLevelStructs, M!LoopAt
  <2>3. PICK v : tree' = [tree EXCEPT ![Len(tree)].levels = v]
    BY <1>5, Zenon DEF M!FillTreeLevelStructs, M!N
  <2> DEFINE f == [tree[Len(tree)] EXCEPT !.levels = v]
  <2>4. tree' = [tree EXCEPT ![Len(tree)] = f]
    BY <2>3
  <2>5. Len(tree) \in DOMAIN tree => f.start = tree[Len(tree)].start /\ f.end = tree[Len(tree)].end
    BY <1>1, LevelsReplaced
  <2> HIDE DEF f
  <2>6. SamePlaces(tree, tree')
    BY <2>4, <2>5, <1>1, OneReplaced
  <2> QED
    BY <2>2, <2>6, CoversStill
<1> QED
  BY <1>3, <1>4, <1>5

LEMMA CoverWithBlocks ==
  ASSUME MapFacts, StructTypes, Created, Created', Covers(imap, tree, loop.pos),
         M!CreateTreeLevelBlocks
  PROVE  Covers(imap', tree', loop'.pos)
<1>1. tree \in Seq(TreeSet) /\ loop \in Loops /\ IsMap(imap) /\ Len(tree) \in Nat
  BY CreateContext
<1>2. success' = TRUE
  BY DEF Created
<1>3. M!Wanted /\ loop.step = "blocks" /\ imap' = imap
  BY DEF M!CreateTreeLevelBlocks
<1>4. /\ M!AtRange /\ loop.pos \in 1..Len(imap) /\ DOMAIN imap = 1..Len(imap)
  BY <1>1, <1>3, WantedFacts, MapShape
<1>5. Placed(imap, tree[Len(tree)], loop.pos) /\ Len(tree) \in DOMAIN tree
  BY <1>3, LastIsPlaced
<1> DEFINE n == Len(tree)
           l == loop.n + 1
<1>6. PICK w : tree' = [tree EXCEPT ![n].levels[l] = w]
  BY Zenon DEF M!CreateTreeLevelBlocks, M!N
<1> DEFINE v == [tree[n].levels EXCEPT ![l] = w]
           f == [tree[n] EXCEPT !.levels = v]
<1>7. tree' = [tree EXCEPT ![n] = f]
  <2>1. tree[n] \in TreeSet
    BY <1>1, <1>5
  <2> QED
    BY <1>1, <1>5, <1>6, <2>1 DEF TreeSet
<1>8. f.start = tree[n].start /\ f.end = tree[n].end
  BY <1>1, <1>5, LevelsReplaced
<1> HIDE DEF f, n
<1>9. SamePlaces(tree, tree')
  BY <1>1, <1>7, <1>8, OneReplaced
<1>10. Covers(imap, tree', loop.pos)
  BY <1>9, CoversStill
<1>11. loop'.pos = loop.pos \/ loop' = M!NextRange
  BY <1>1 DEF M!CreateTreeLevelBlocks, Loops
<1>12. CASE loop'.pos = loop.pos
  BY <1>3, <1>10, <1>12
<1>13. CASE loop' = M!NextRange
  <2>1. loop'.pos = LastIn(imap, loop.pos) + 1
    BY <1>1, <1>4, <1>13, NextRangeFacts
  <2>2. \E e \in DOMAIN tree : Placed(imap, tree[e], loop.pos)
    BY <1>5, Zenon
  <2>3. Covers(imap, tree, LastIn(imap, loop.pos) + 1)
    <3>1. loop.pos \in DOMAIN imap
      BY <1>4
    <3> QED
      BY <3>1, <2>2, <1>1, CoversRange, Zenon
  <2>4. Covers(imap, tree', LastIn(imap, loop.pos) + 1)
    BY <2>3, <1>9, CoversStill, Zenon
  <2> QED
    BY <2>1, <2>4, <1>3
<1> QED
  BY <1>11, <1>12, <1>13

LEMMA CoverStep ==
  ASSUME MapFacts, StructTypes, CountInv, CountInv', CoverInv, M!Next
  PROVE  CoverInv'
<1>1. imap' = imap
  BY StructsKeepMap
<1>2. IsMap(imap) /\ loop \in Loops /\ Len(imap) \in Nat /\ DOMAIN imap = 1..Len(imap)
  BY MapShape DEF MapFacts, IsMap, StructTypes
<1>3. CASE M!PlaceStructs
  <2>1. pc' = "create" /\ loop'.pos = 1
    BY <1>3 DEF M!PlaceStructs, M!LoopAt
  <2>2. \A i \in DOMAIN imap : ~(i < 1)
    BY <1>2
  <2>3. Covers(imap', tree', loop'.pos)
    BY <1>1, <2>1, <2>2 DEF Covers
  <2> QED
    BY <2>1, <2>3 DEF CoverInv, Later
<1>4. CASE M!SkipRange /\ pc = "create"
  <2>1. /\ M!AtRange /\ ~M!Wanted /\ tree' = tree /\ pc' = "create" /\ loop' = M!NextRange
    BY <1>4 DEF M!SkipRange
  <2>2. loop.pos \in DOMAIN imap /\ loop'.pos = LastIn(imap, loop.pos) + 1
    <3>1. loop.pos \in 1..Len(imap)
      BY <2>1, <1>2, AtRangeFacts
    <3> QED
      BY <3>1, <2>1, <1>2, NextRangeFacts
  <2>3. ~Managed(imap, loop.pos)
    BY <2>1 DEF M!Wanted, Managed, M!First
  <2>4. Covers(imap, tree, LastIn(imap, loop.pos) + 1)
    BY <2>2, <2>3, <1>2, <1>4, CoversRange, Zenon DEF CoverInv
  <2> QED
    BY <2>1, <2>2, <2>4, <1>1 DEF CoverInv, Later
<1>5. CASE M!CreateEntry \/ M!CreateTreeLevels \/ M!FillTreeLevelStructs \/ M!CreateTreeLevelBlocks
  <2>1. pc = "create" /\ pc' = "create"
    BY <1>5 DEF M!CreateEntry, M!CreateTreeLevels, M!FillTreeLevelStructs, M!CreateTreeLevelBlocks
  <2>2. Created /\ Created' /\ Covers(imap, tree, loop.pos)
    BY <2>1 DEF CountInv, CoverInv
  <2>3. Covers(imap', tree', loop'.pos)
    BY <2>2, <1>5, CoverWhileMade, CoverWithBlocks
  <2> QED
    BY <2>1, <2>3 DEF CoverInv, Later
<1>6. CASE M!EndPass /\ pc = "create"
  <2>1. ~M!AtRange /\ tree' = tree /\ pc' \in {"available", "failed"}
    BY <1>6 DEF M!EndPass
  <2>2. \A i \in DOMAIN imap : i < loop.pos
    BY <2>1, <1>2 DEF M!AtRange, Loops
  <2>3. Covers(imap, tree, Len(imap) + 1)
    BY <2>2, <1>6, Zenon DEF Covers, CoverInv
  <2> QED
    BY <2>1, <2>3, <1>1 DEF CoverInv, Later
<1>7. CASE /\ \/ M!SetAllTreePagesAvailable \/ M!MarkMapEntry \/ M!MarkStructs \/ M!FillAccelBlocks
              \/ M!EndAccelBlocks \/ M!FillMemMapEntry \/ M!FinishMemMap
  <2>1. Later /\ pc' # "create"
    BY <1>7 DEF Later, M!SetAllTreePagesAvailable, M!MarkMapEntry, M!MarkStructs, M!FillAccelBlocks,
                M!EndAccelBlocks, M!FillMemMapEntry, M!FinishMemMap
  <2>2. Made /\ Covers(imap, tree, Len(imap) + 1)
    BY <2>1 DEF CountInv, CoverInv
  <2>3. tree \in Seq(TreeSet) /\ \A e \in DOMAIN tree : tree[e] \in TreeSet
    BY <2>2, MadeContext
  <2>4. SamePlaces(tree, tree)
    BY Zenon DEF SamePlaces
  <2>5. \A a, s : SamePlaces(tree, M!MarkUsedTreePages(a, s))
    <3> TAKE a, s
    <3> DEFINE F == M!MarkUsedTreePages(a, s)
    <3>1. DOMAIN F = DOMAIN tree
      BY DEF M!MarkUsedTreePages
    <3>2. \A e \in DOMAIN tree : \E P : F[e] = M!WithPages(e, P, M!Unavailable) \/ F[e] = tree[e]
      BY Zenon DEF M!MarkUsedTreePages
    <3> HIDE DEF F
    <3>3. \A e \in DOMAIN tree : F[e].start = tree[e].start /\ F[e].end = tree[e].end
      BY <3>2, <2>3, WithPagesStays
    <3>4. SamePlaces(tree, F)
      BY <3>1, <3>3 DEF SamePlaces
    <3> QED
      BY <3>4 DEF F
  <2>6. SamePlaces(tree, tree')
    <3>1. CASE M!SetAllTreePagesAvailable
      <4>1. DOMAIN tree' = DOMAIN tree
        BY <3>1 DEF M!SetAllTreePagesAvailable
      <4>2. \A e \in DOMAIN tree : \E P : tree'[e] = M!WithPages(e, P, M!Available) \/ tree'[e] = tree[e]
        BY <3>1, Zenon DEF M!SetAllTreePagesAvailable
      <4>3. \A e \in DOMAIN tree : tree'[e].start = tree[e].start /\ tree'[e].end = tree[e].end
        BY <4>2, <2>3, WithPagesStays
      <4> QED
        BY <4>1, <4>3 DEF SamePlaces
    <3>2. CASE M!MarkMapEntry
      <4>1. tree' = M!MarkUsedTreePages(M!First.start, M!First.pages * PageSize) \/ tree' = tree
        BY <3>2 DEF M!MarkMapEntry
      <4> QED
        BY <4>1, <2>4, <2>5, Zenon
    <3>3. CASE M!MarkStructs
      <4>1. tree' = M!MarkUsedTreePages(buffer.address, buffer.size)
        BY <3>3 DEF M!MarkStructs
      <4> QED
        BY <4>1, <2>5, Zenon
    <3>4. CASE M!FillAccelBlocks
      <4>1. \/ tree' = tree
            \/ \E l, v : tree' = [tree EXCEPT ![loop.pos].levels[l] = v]
        BY <3>4, Zenon DEF M!FillAccelBlocks
      <4>2. ASSUME NEW l, NEW v, tree' = [tree EXCEPT ![loop.pos].levels[l] = v]
            PROVE  SamePlaces(tree, tree')
        <5> DEFINE w == [tree[loop.pos].levels EXCEPT ![l] = v]
                   f == [tree[loop.pos] EXCEPT !.levels = w]
        <5>1. loop.pos \in DOMAIN tree
          BY <3>4 DEF M!FillAccelBlocks, M!Listed
        <5>2. tree' = [tree EXCEPT ![loop.pos] = f]
          BY <4>2, <5>1, <2>3 DEF TreeSet
        <5>3. f.start = tree[loop.pos].start /\ f.end = tree[loop.pos].end
          BY <5>1, <2>3, LevelsReplaced
        <5> HIDE DEF f
        <5> QED
          BY <5>2, <5>3, <2>3, OneReplaced
      <4> QED
        BY <4>1, <4>2, <2>4, Zenon
    <3>5. CASE M!EndAccelBlocks \/ M!FillMemMapEntry \/ M!FinishMemMap
      <4>1. tree' = tree
        BY <3>5 DEF M!EndAccelBlocks, M!FillMemMapEntry, M!FinishMemMap
      <4> QED
        BY <4>1, <2>4
    <3> QED
      BY <1>7, <3>1, <3>2, <3>3, <3>4, <3>5
  <2>7. Covers(imap, tree', Len(imap) + 1)
    BY <2>2, <2>6, CoversStill, Zenon
  <2> QED
    BY <2>1, <2>7, <1>1 DEF CoverInv
<1>8. CASE M!NoRoomForStructs \/ M!CalcTreeEntryElements \/ M!CountMemoryRanges
           \/ ((M!SkipRange \/ M!EndPass) /\ pc # "create")
  <2>1. pc' # "create" /\ ~(Later')
    BY <1>8 DEF Later, M!NoRoomForStructs, M!CalcTreeEntryElements, M!CountMemoryRanges, M!SkipRange, M!EndPass
  <2> QED
    BY <2>1 DEF CoverInv
<1> QED
  BY <1>3, <1>4, <1>5, <1>6, <1>7, <1>8, Zenon DEF M!Next

-----------------------------------------------------------------------------
(* The pages of the trees show which memory of the initial map is in use.  *)
IsTaken(r) == M!ShouldCreateTreeForType(r.type) /\ r.usage \in M!UsedUsages
EntryAt(m, i, x) == i \in DOMAIN m /\ IsTaken(m[i]) /\ Contains(m[i], x * PageSize)
TakenPages(m, p) == {x \in Nat : \E i \in DOMAIN m : i < p /\ EntryAt(m, i, x)}

InUse == TakenPages(imap, Len(imap) + 1) \cup RegionPages(buffer.address, buffer.size)

MarksInv ==
  /\ OnPage(buffer.address)
  /\ buffer.address # 0 =>
       /\ pc = "mark" => \A e \in DOMAIN tree : Shows(tree[e], TakenPages(imap, loop.pos))
       /\ pc \in {"accel", "map", "done"} => \A e \in DOMAIN tree : Shows(tree[e], InUse)

LEMMA EntryRegion ==
  ASSUME IsMap(imap), OnPages, NEW i \in DOMAIN imap
  PROVE  RegionPages(imap[i].start, imap[i].pages * PageSize) = {x \in Nat : Contains(imap[i], x * PageSize)}
<1>1. PICK n \in Nat, k \in Nat : imap[i].start = n * PageSize /\ End(imap[i]) = k * PageSize /\ n < k
  BY EntryPages
<1>2. imap[i].start + imap[i].pages * PageSize = k * PageSize
  BY <1>1 DEF End
<1>3. ASSUME NEW x \in Nat
      PROVE  Meets(x * PageSize, imap[i].start, imap[i].pages * PageSize) <=> Contains(imap[i], x * PageSize)
  <2>1. x * PageSize \in Nat /\ n * PageSize \in Nat /\ PageSize \in Nat \ {0}
    BY PageNumber, EfiMapsAssumption
  <2>2. n <= x => n * PageSize <= x * PageSize
    BY PageOrder
  <2>3. x < n => x * PageSize + PageSize <= n * PageSize
    BY PageOrder
  <2>4. n * PageSize < x * PageSize + PageSize <=> n * PageSize <= x * PageSize
    BY <2>1, <2>2, <2>3
  <2> QED
    BY <2>4, <1>1, <1>2 DEF Meets, Contains
<1> QED
  BY <1>3 DEF RegionPages

LEMMA OneMoreTaken ==
  ASSUME IsMap(imap), OnPages, NEW p \in DOMAIN imap
  PROVE  /\ IsTaken(imap[p]) => TakenPages(imap, p + 1) =
              TakenPages(imap, p) \cup RegionPages(imap[p].start, imap[p].pages * PageSize)
         /\ ~IsTaken(imap[p]) => TakenPages(imap, p + 1) = TakenPages(imap, p)
<1>1. DOMAIN imap \in SUBSET Nat
  BY MapShape
<1>2. \A i \in DOMAIN imap : i < p + 1 <=> i < p \/ i = p
  BY <1>1
<1>3. \A x \in Nat : x \in TakenPages(imap, p + 1) <=> x \in TakenPages(imap, p) \/ EntryAt(imap, p, x)
  BY <1>2, Zenon DEF TakenPages
<1>4. TakenPages(imap, p) \in SUBSET Nat /\ TakenPages(imap, p + 1) \in SUBSET Nat
  BY DEF TakenPages
<1>5. ~IsTaken(imap[p]) => TakenPages(imap, p + 1) = TakenPages(imap, p)
  BY <1>3, <1>4, Zenon DEF EntryAt
<1>6. ASSUME IsTaken(imap[p])
      PROVE  TakenPages(imap, p + 1) = TakenPages(imap, p) \cup RegionPages(imap[p].start, imap[p].pages * PageSize)
  <2>1. \A x \in Nat : x \in RegionPages(imap[p].start, imap[p].pages * PageSize) <=> EntryAt(imap, p, x)
    BY <1>6, EntryRegion DEF EntryAt
  <2>2. RegionPages(imap[p].start, imap[p].pages * PageSize) \in SUBSET Nat
    BY DEF RegionPages
  <2> QED
    BY <2>1, <2>2, <1>3, <1>4, Zenon
<1> QED
  BY <1>5, <1>6

LEMMA AllAreTaken ==
  ASSUME IsMap(imap), NEW p \in Nat, ~(p <= Len(imap))
  PROVE  TakenPages(imap, p) = TakenPages(imap, Len(imap) + 1)
<1>1. \A i \in DOMAIN imap : i < p /\ i < Len(imap) + 1
  BY MapShape
<1> QED
  BY <1>1, Zenon DEF TakenPages

LEMMA NoneIsTaken ==
  ASSUME IsMap(imap)
  PROVE  TakenPages(imap, 1) = {}
<1>1. \A i \in DOMAIN imap : ~(i < 1)
  BY MapShape
<1> QED
  BY <1>1, Zenon DEF TakenPages

(* All pages of a tree are made available. *)
LEMMA SetAllShows ==
  ASSUME IsMap(imap), OnPages, NEW e, tree[e] \in TreeSet, Complete(imap, tree[e])
  PROVE  Shows(M!WithPages(e, DOMAIN M!LastLevel(e).blocks, M!Available), {})
<1> DEFINE P == DOMAIN M!LastLevel(e).blocks
           f == M!WithPages(e, P, M!Available)
<1>1. M!Available \in 0..128
  BY DEF M!Available
<1>2. P = DOMAIN Bottom(tree[e]).blocks
  BY DEF M!LastLevel, Bottom
<1> HIDE DEF P
<1>3. Rewritten(tree[e], f, P, M!Available)
  BY <1>1, PagesWritten, Zenon
<1> HIDE DEF f
<1>4. ASSUME NEW n \in Nat, NEW k \in Nat, TreeSpan(f, n, k), NEW b \in 0..(k - n - 1)
      PROVE  Bottom(f).blocks[b] = IF n + b \in {} THEN M!Unavailable ELSE M!Available
  <2>1. TreeSpan(tree[e], n, k)
    BY <1>3, <1>4, Zenon DEF Rewritten
  <2>2. b \in DOMAIN Bottom(tree[e]).blocks
    BY <2>1 DEF TreeSpan
  <2>3. Bottom(f).blocks[b] = M!Available
    BY <2>2, <1>2, <1>3 DEF Rewritten
  <2> QED
    BY <2>3
<1> QED
  BY <1>4 DEF Shows, f, P

(* Blocks above the pages do not matter. *)
LEMMA OtherLevelShows ==
  ASSUME NEW m, NEW e \in TreeSet, Complete(m, e), NEW l \in DOMAIN e.levels, l # e.numLevels,
         NEW s \in [0..(e.levels[l].num - 1) -> 0..128], NEW U, Shows(e, U)
  PROVE  Shows([e EXCEPT !.levels[l].blocks = s], U)
<1> DEFINE f == [e EXCEPT !.levels[l].blocks = s]
<1>1. SameShape(e, f) /\ \A q \in DOMAIN e.levels : q # l => f.levels[q] = e.levels[q]
  BY BlocksWritten
<1>2. e.numLevels \in DOMAIN e.levels
  BY CompleteLevels
<1> HIDE DEF f
<1>3. f.numLevels = e.numLevels /\ f.start = e.start /\ f.end = e.end
  BY <1>1 DEF SameShape
<1>4. Bottom(f) = Bottom(e)
  BY <1>1, <1>2, <1>3 DEF Bottom
<1>5. \A n, k : TreeSpan(f, n, k) <=> TreeSpan(e, n, k)
  BY <1>3, <1>4, Zenon DEF TreeSpan
<1>6. Shows(f, U)
  BY <1>4, <1>5, Zenon DEF Shows
<1> QED
  BY <1>6 DEF f

LEMMA SetAllMarks ==
  ASSUME MapFacts, StructTypes, OnPages, Made, buffer.address # 0, M!SetAllTreePagesAvailable
  PROVE  pc' = "mark" /\ \A e \in DOMAIN tree' : Shows(tree'[e], TakenPages(imap', loop'.pos))
<1>1. IsMap(imap) /\ M!Listed = DOMAIN tree
  BY DEF MapFacts, IsMap, M!Listed
<1>2. pc' = "mark" /\ loop'.pos = 1 /\ imap' = imap
  BY DEF M!SetAllTreePagesAvailable, M!LoopAt
<1>3. TakenPages(imap', loop'.pos) = {}
  BY <1>1, <1>2, NoneIsTaken
<1>4. /\ DOMAIN tree' = DOMAIN tree
      /\ \A e \in DOMAIN tree : tree'[e] = M!WithPages(e, DOMAIN M!LastLevel(e).blocks, M!Available)
  BY <1>1 DEF M!SetAllTreePagesAvailable
<1>5. \A e \in DOMAIN tree : Shows(M!WithPages(e, DOMAIN M!LastLevel(e).blocks, M!Available), {})
  <2> TAKE e \in DOMAIN tree
  <2>1. tree[e] \in TreeSet /\ Complete(imap, tree[e])
    BY MadeContext
  <2> QED
    BY <2>1, <1>1, SetAllShows
<1> QED
  BY <1>2, <1>3, <1>4, <1>5

LEMMA MarkMarks ==
  ASSUME MapFacts, OnPages, Made, buffer.address # 0, NEW U, \A e \in DOMAIN tree : Shows(tree[e], U),
         NEW a \in Nat, NEW s \in Nat, tree' = M!MarkUsedTreePages(a * PageSize, s)
  PROVE  \A e \in DOMAIN tree' : Shows(tree'[e], U \cup RegionPages(a * PageSize, s))
<1>1. IsMap(imap) /\ M!Listed = DOMAIN tree
  BY DEF MapFacts, IsMap, M!Listed
<1>2. DOMAIN tree' = DOMAIN tree
  BY DEF M!MarkUsedTreePages
<1>3. \A e \in DOMAIN tree : Shows(M!MarkUsedTreePages(a * PageSize, s)[e], U \cup RegionPages(a * PageSize, s))
  <2> TAKE e \in DOMAIN tree
  <2>1. tree[e] \in TreeSet /\ Complete(imap, tree[e])
    BY MadeContext
  <2> QED
    BY <2>1, <1>1, MarkShows
<1> QED
  BY <1>2, <1>3

LEMMA MapEntryMarks ==
  ASSUME MapFacts, StructTypes, OnPages, Made, MarksInv, buffer.address # 0, M!MarkMapEntry
  PROVE  pc' = "mark" /\ \A e \in DOMAIN tree' : Shows(tree'[e], TakenPages(imap', loop'.pos))
<1>1. /\ IsMap(imap) /\ loop \in Loops
  BY DEF MapFacts, IsMap, StructTypes
<1>2. /\ pc = "mark" /\ pc' = "mark" /\ M!AtRange /\ imap' = imap
      /\ tree' = IF IsTaken(M!First)
                 THEN M!MarkUsedTreePages(M!First.start, M!First.pages * PageSize) ELSE tree
  BY DEF M!MarkMapEntry, IsTaken
<1>3. loop'.pos = loop.pos + 1
  BY <1>1 DEF M!MarkMapEntry, Loops
<1>4. loop.pos \in DOMAIN imap
  BY <1>1, <1>2, AtRangeFacts
<1> DEFINE p == loop.pos
<1>5. M!First = imap[p]
  BY DEF M!First
<1>6. \A e \in DOMAIN tree : Shows(tree[e], TakenPages(imap, p))
  BY <1>2 DEF MarksInv
<1> HIDE DEF p
<1>7. /\ IsTaken(imap[p]) => TakenPages(imap, p + 1) =
              TakenPages(imap, p) \cup RegionPages(imap[p].start, imap[p].pages * PageSize)
      /\ ~IsTaken(imap[p]) => TakenPages(imap, p + 1) = TakenPages(imap, p)
  <2>1. p \in DOMAIN imap
    BY <1>4 DEF p
  <2> QED
    BY <2>1, <1>1, OneMoreTaken
<1>8. TakenPages(imap', loop'.pos) = TakenPages(imap, p + 1)
  BY <1>2, <1>3 DEF p
<1>9. CASE IsTaken(imap[p])
  <2>1. PICK n \in Nat : imap[p].start = n * PageSize
    BY <1>1, <1>4, EntryPages DEF p
  <2>2. imap[p].pages * PageSize \in Nat
    <3>1. imap[p].pages \in Nat
      BY <1>1, <1>4, MapShape DEF p, Sorted, EntrySet
    <3> QED
      BY <3>1, PageNumber
  <2>3. tree' = M!MarkUsedTreePages(n * PageSize, imap[p].pages * PageSize)
    BY <1>2, <1>5, <1>9, <2>1
  <2>4. \A e \in DOMAIN tree' : Shows(tree'[e], TakenPages(imap, p) \cup RegionPages(n * PageSize, imap[p].pages * PageSize))
    BY <2>2, <2>3, <1>6, MarkMarks
  <2>5. \A e \in DOMAIN tree' : Shows(tree'[e], TakenPages(imap, p + 1))
    BY <2>1, <2>4, <1>7, <1>9
  <2> QED
    BY <2>5, <1>2, <1>8
<1>10. CASE ~IsTaken(imap[p])
  BY <1>2, <1>5, <1>6, <1>7, <1>8, <1>10
<1> QED
  BY <1>9, <1>10

LEMMA StructsMarks ==
  ASSUME MapFacts, StructTypes, OnPages, Made, MarksInv, buffer.address # 0, M!MarkStructs
  PROVE  pc' = "accel" /\ \A e \in DOMAIN tree' : Shows(tree'[e], InUse')
<1>1. /\ IsMap(imap) /\ loop \in Loops /\ loop.pos \in Nat
  BY DEF MapFacts, IsMap, StructTypes, Loops
<1>2. /\ pc = "mark" /\ pc' = "accel" /\ ~M!AtRange /\ imap' = imap /\ buffer' = buffer
      /\ tree' = M!MarkUsedTreePages(buffer.address, buffer.size)
  BY DEF M!MarkStructs
<1>3. TakenPages(imap, loop.pos) = TakenPages(imap, Len(imap) + 1)
  BY <1>1, <1>2, AllAreTaken DEF M!AtRange
<1>4. \A e \in DOMAIN tree : Shows(tree[e], TakenPages(imap, Len(imap) + 1))
  BY <1>2, <1>3 DEF MarksInv
<1>5. PICK n \in Nat : buffer.address = n * PageSize
  BY DEF MarksInv, OnPage
<1>6. buffer.size \in Nat
  BY DEF StructTypes
<1>7. tree' = M!MarkUsedTreePages(n * PageSize, buffer.size)
  BY <1>2, <1>5
<1>8. \A e \in DOMAIN tree' : Shows(tree'[e], TakenPages(imap, Len(imap) + 1) \cup RegionPages(n * PageSize, buffer.size))
  BY <1>4, <1>6, <1>7, MarkMarks
<1>9. InUse' = TakenPages(imap, Len(imap) + 1) \cup RegionPages(n * PageSize, buffer.size)
  BY <1>2, <1>5 DEF InUse
<1> QED
  BY <1>2, <1>8, <1>9

LEMMA AccelMarks ==
  ASSUME StructTypes, Made, NEW U, \A e \in DOMAIN tree : Shows(tree[e], U), M!FillAccelBlocks
  PROVE  \A e \in DOMAIN tree' : Shows(tree'[e], U)
<1> DEFINE p == loop.pos
           l == tree[p].numLevels - loop.n - 1
<1>1. CASE l >= 1
  <2>1. p \in DOMAIN tree
    BY DEF M!FillAccelBlocks, M!Listed
  <2>2. tree[p] \in TreeSet /\ Complete(imap, tree[p]) /\ tree \in Seq(TreeSet)
    BY <2>1, MadeContext
  <2>3. /\ tree[p].numLevels \in Nat /\ DOMAIN tree[p].levels = 1..tree[p].numLevels
        /\ \A q \in DOMAIN tree[p].levels : tree[p].levels[q] \in LevelSet /\ Filled128(tree[p].levels[q])
    BY <2>2, CompleteLevels
  <2>4. loop.n \in Nat
    BY DEF StructTypes, Loops
  <2>5. l \in DOMAIN tree[p].levels /\ l + 1 \in DOMAIN tree[p].levels /\ l # tree[p].numLevels
    BY <2>3, <2>4, <1>1
  <2>6. tree' = [tree EXCEPT ![p].levels[l] = M!FillTreeLevelAccelBlocks(@, tree[p].levels[l + 1])]
    BY <1>1 DEF M!FillAccelBlocks
  <2> HIDE DEF l
  <2>7. PICK f \in [0..(tree[p].levels[l].num - 1) -> 0..128] :
          M!FillTreeLevelAccelBlocks(tree[p].levels[l], tree[p].levels[l + 1]) = [tree[p].levels[l] EXCEPT !.blocks = f]
    BY <2>3, <2>5, AccelBlocks
  <2> DEFINE e == [tree[p] EXCEPT !.levels[l].blocks = f]
  <2>8. Shows(e, U)
    BY <2>1, <2>2, <2>5, OtherLevelShows
  <2>9. tree' = [tree EXCEPT ![p] = e]
    BY <2>1, <2>2, <2>5, <2>6, <2>7 DEF TreeSet
  <2> HIDE DEF e
  <2>10. \A i \in DOMAIN tree' : i \in DOMAIN tree /\ tree'[i] = IF i = p THEN e ELSE tree[i]
    BY <2>1, <2>2, <2>9
  <2> QED
    BY <2>8, <2>10
<1>2. CASE ~(l >= 1)
  BY <1>2 DEF M!FillAccelBlocks
<1> QED
  BY <1>1, <1>2

LEMMA MarksStep ==
  ASSUME MapFacts, StructTypes, OnPages, CountInv, MarksInv, M!Next
  PROVE  MarksInv'
<1>1. CASE M!PlaceStructs
  <2>1. PICK i \in DOMAIN imap : buffer'.address = imap[i].start
    BY <1>1 DEF M!PlaceStructs
  <2>2. OnPage(imap[i].start)
    BY DEF OnPages, PageEntries
  <2>3. pc' = "create"
    BY <1>1 DEF M!PlaceStructs
  <2> QED
    BY <2>1, <2>2, <2>3 DEF MarksInv
<1>2. CASE ~M!PlaceStructs
  <2>1. buffer' = buffer /\ OnPage(buffer'.address)
    BY <1>2 DEF MarksInv, M!Next, M!SkipRange, M!CalcTreeEntryElements, M!CountMemoryRanges, M!EndPass,
         M!NoRoomForStructs, M!CreateEntry, M!CreateTreeLevels,
         M!FillTreeLevelStructs, M!CreateTreeLevelBlocks, M!SetAllTreePagesAvailable,
         M!MarkMapEntry, M!MarkStructs, M!FillAccelBlocks, M!EndAccelBlocks,
         M!FillMemMapEntry, M!FinishMemMap
  <2> SUFFICES ASSUME buffer.address # 0
               PROVE  /\ pc' = "mark" => \A e \in DOMAIN tree' : Shows(tree'[e], TakenPages(imap', loop'.pos))
                      /\ pc' \in {"accel", "map", "done"} => \A e \in DOMAIN tree' : Shows(tree'[e], InUse')
    BY <2>1 DEF MarksInv
  <2>2. imap' = imap
    BY StructsKeepMap
  <2>3. InUse' = InUse
    BY <2>1, <2>2 DEF InUse
  <2>4. CASE M!SetAllTreePagesAvailable
    <3>1. Made
      BY <2>4 DEF M!SetAllTreePagesAvailable, CountInv, Later
    <3> QED
      BY <3>1, <2>4, SetAllMarks
  <2>5. CASE M!MarkMapEntry
    <3>1. Made
      BY <2>5 DEF M!MarkMapEntry, CountInv, Later
    <3> QED
      BY <3>1, <2>5, MapEntryMarks
  <2>6. CASE M!MarkStructs
    <3>1. Made
      BY <2>6 DEF M!MarkStructs, CountInv, Later
    <3> QED
      BY <3>1, <2>6, StructsMarks
  <2>7. CASE M!FillAccelBlocks
    <3>1. Made /\ pc = "accel" /\ pc' = "accel"
      BY <2>7 DEF M!FillAccelBlocks, CountInv, Later
    <3>2. \A e \in DOMAIN tree : Shows(tree[e], InUse)
      BY <3>1 DEF MarksInv
    <3>3. \A e \in DOMAIN tree' : Shows(tree'[e], InUse)
      BY <3>1, <3>2, <2>7, AccelMarks
    <3> QED
      BY <3>1, <3>3, <2>3
  <2>8. CASE M!EndAccelBlocks \/ M!FillMemMapEntry \/ M!FinishMemMap
    <3>1. pc \in {"accel", "map"} /\ pc' # "mark" /\ tree' = tree
      BY <2>8 DEF M!EndAccelBlocks, M!FillMemMapEntry, M!FinishMemMap
    <3> QED
      BY <3>1, <2>3 DEF MarksInv
  <2>9. CASE \/ M!SkipRange \/ M!CalcTreeEntryElements \/ M!CountMemoryRanges \/ M!EndPass
             \/ M!NoRoomForStructs \/ M!CreateEntry \/ M!CreateTreeLevels
             \/ M!FillTreeLevelStructs \/ M!CreateTreeLevelBlocks
    <3>1. pc' \notin {"mark", "accel", "map", "done"}
      BY <2>9 DEF M!SkipRange, M!CalcTreeEntryElements, M!CountMemoryRanges, M!EndPass,
         M!NoRoomForStructs, M!CreateEntry, M!CreateTreeLevels,
         M!FillTreeLevelStructs, M!CreateTreeLevelBlocks
    <3> QED
      BY <3>1
  <2> QED
    BY <1>2, <2>4, <2>5, <2>6, <2>7, <2>8, <2>9, Zenon DEF M!Next
<1> QED
  BY <1>1, <1>2

-----------------------------------------------------------------------------
(* What the trees offer.                                                   *)
InTree(x) == \E e \in DOMAIN tree : \E n, k \in Nat : TreeSpan(tree[e], n, k) /\ n <= x /\ x < k
ManagedAt(x) == \E i \in DOMAIN imap : Managed(imap, i) /\ Contains(imap[i], x * PageSize)

(* Address a is offered by entry e; it is that of a page from n up to k    *)
(* that is not in U.                                                       *)
Gives(e, a) ==
  \E b \in {c \in DOMAIN M!LastLevel(e).blocks : M!LastLevel(e).blocks[c] = M!Available} :
    a = M!LastLevel(e).start + b * PageSize
LeftBy(n, k, U, a) == \E x \in Nat : a = x * PageSize /\ n <= x /\ x < k /\ x \notin U

LEMMA OfferedFrom ==
  ASSUME NEW e, NEW n \in Nat, NEW k \in Nat, TreeSpan(tree[e], n, k), NEW U, Shows(tree[e], U), NEW a
  PROVE  Gives(e, a) <=> LeftBy(n, k, U, a)
<1> DEFINE B == Bottom(tree[e])
<1>1. M!LastLevel(e) = B
  BY DEF M!LastLevel, Bottom
<1>2. B.start = n * PageSize /\ DOMAIN B.blocks = 0..(k - n - 1) /\ n < k
  BY DEF TreeSpan
<1>3. \A b \in 0..(k - n - 1) : B.blocks[b] = M!Available <=> n + b \notin U
  <2>1. M!Available # M!Unavailable
    BY DEF M!Available, M!Unavailable
  <2>2. \A b \in 0..(k - n - 1) : B.blocks[b] = IF n + b \in U THEN M!Unavailable ELSE M!Available
    BY Zenon DEF Shows
  <2> QED
    BY <2>1, <2>2
<1>4. \A b \in Nat : (n + b) * PageSize = n * PageSize + b * PageSize
  BY ProductOfSum, EfiMapsAssumption
<1> HIDE DEF B
<1>5. ASSUME NEW b \in {c \in DOMAIN B.blocks : B.blocks[c] = M!Available}, a = B.start + b * PageSize
      PROVE  \E x \in Nat : a = x * PageSize /\ n <= x /\ x < k /\ x \notin U
  <2>1. b \in 0..(k - n - 1) /\ b \in Nat /\ B.blocks[b] = M!Available
    BY <1>2
  <2>2. n + b \in Nat /\ n <= n + b /\ n + b < k
    BY <1>2, <2>1
  <2>3. n + b \notin U
    BY <1>3, <2>1
  <2>4. a = (n + b) * PageSize
    BY <1>2, <1>4, <1>5, <2>1
  <2> QED
    BY <2>2, <2>3, <2>4
<1>6. ASSUME NEW x \in Nat, a = x * PageSize, n <= x, x < k, x \notin U
      PROVE  \E b \in {c \in DOMAIN B.blocks : B.blocks[c] = M!Available} : a = B.start + b * PageSize
  <2> DEFINE b == x - n
  <2>1. b \in Nat /\ b \in 0..(k - n - 1) /\ n + b = x
    BY <1>2, <1>6
  <2> HIDE DEF b
  <2>2. B.blocks[b] = M!Available
    BY <1>3, <1>6, <2>1
  <2>3. a = B.start + b * PageSize
    BY <1>2, <1>4, <1>6, <2>1
  <2> QED
    BY <1>2, <2>1, <2>2, <2>3
<1> QED
  BY <1>1, <1>5, <1>6 DEF Gives, LeftBy

LEMMA OfferedPages ==
  ASSUME MapFacts, OnPages, Made, buffer.address # 0, NEW U, \A e \in DOMAIN tree : Shows(tree[e], U), NEW a
  PROVE  a \in Offered <=> \E x \in Nat : a = x * PageSize /\ InTree(x) /\ x \notin U
<1>1. IsMap(imap) /\ M!Listed = DOMAIN tree
  BY DEF MapFacts, IsMap, M!Listed
<1>2. a \in Offered <=> \E e \in DOMAIN tree : Gives(e, a)
  BY <1>1 DEF Offered, Gives
<1>3. ASSUME NEW e \in DOMAIN tree
      PROVE  \E n, k \in Nat : TreeSpan(tree[e], n, k) /\ (Gives(e, a) <=> LeftBy(n, k, U, a))
  <2>1. tree[e] \in TreeSet /\ Complete(imap, tree[e])
    BY MadeContext
  <2>2. PICK n \in Nat, k \in Nat : TreeSpan(tree[e], n, k)
    BY <1>1, <2>1, TreeOnPages
  <2>3. Gives(e, a) <=> LeftBy(n, k, U, a)
    BY <2>2, OfferedFrom, Zenon
  <2> QED
    BY <2>2, <2>3, Zenon
<1>4. ASSUME NEW e \in DOMAIN tree, Gives(e, a)
      PROVE  \E x \in Nat : a = x * PageSize /\ InTree(x) /\ x \notin U
  BY <1>3, <1>4, Zenon DEF InTree, LeftBy
<1>5. ASSUME NEW x \in Nat, a = x * PageSize, InTree(x), x \notin U
      PROVE  \E e \in DOMAIN tree : Gives(e, a)
  <2>1. PICK e \in DOMAIN tree, n \in Nat, k \in Nat : TreeSpan(tree[e], n, k) /\ n <= x /\ x < k
    BY <1>5 DEF InTree
  <2>2. Gives(e, a) <=> LeftBy(n, k, U, a)
    BY <2>1, OfferedFrom, Zenon
  <2>3. LeftBy(n, k, U, a)
    BY <1>5, <2>1, Zenon DEF LeftBy
  <2> QED
    BY <2>2, <2>3, Zenon
<1> QED
  BY <1>2, <1>4, <1>5, Zenon

LEMMA TreesHoldManaged ==
  ASSUME MapFacts, OnPages, Made, Covers(imap, tree, Len(imap) + 1), NEW x \in Nat
  PROVE  InTree(x) <=> ManagedAt(x)
<1>1. IsMap(imap) /\ Len(imap) \in Nat /\ DOMAIN imap = 1..Len(imap) /\ Sorted(imap)
  BY MapShape DEF MapFacts, IsMap
<1>2. x * PageSize \in Nat
  BY PageNumber
<1>3. ASSUME InTree(x)
      PROVE  ManagedAt(x)
  <2>1. PICK e \in DOMAIN tree, n \in Nat, k \in Nat : TreeSpan(tree[e], n, k) /\ n <= x /\ x < k
    BY <1>3 DEF InTree
  <2>2. tree[e].start <= x * PageSize /\ x * PageSize < tree[e].end
    BY <2>1, PageOrder DEF TreeSpan
  <2>3. Complete(imap, tree[e])
    BY MadeContext
  <2>4. PICK g : Whole(imap, g, tree[e].numLevels) /\ Placed(imap, tree[e], g[0].pos)
    BY <2>3, Zenon DEF Complete
  <2> DEFINE p == g[0].pos
             j == LastIn(imap, p)
  <2>5. p <= Len(imap) /\ Managed(imap, p) /\ g[0] \in Traces
    BY <2>4, ChainStart, Zenon DEF Whole, Chain
  <2>6. p \in 1..Len(imap) /\ p \in Nat
    BY <2>5, <1>1 DEF Traces
  <2>7. j \in p..Len(imap) /\ \A i \in p..(j - 1) : Carries(imap, i)
    BY <2>6, <1>1, LastOfFacts
  <2> HIDE DEF j
  <2>8. j \in Nat /\ p <= j /\ p \in DOMAIN imap /\ j \in DOMAIN imap
    BY <2>6, <2>7, <1>1
  <2>9. tree[e].start = imap[p].start /\ tree[e].end = End(imap[j])
    BY <2>4 DEF Placed, j
  <2>10. MadeOf(imap, tree[e], p, j)
    BY <2>7, <2>8, <2>9 DEF MadeOf
  <2> HIDE DEF p
  <2>11. PICK i \in DOMAIN imap : i \in p..j /\ imap[i].start <= x * PageSize /\ x * PageSize < End(imap[i])
    BY <1>1, <1>2, <2>2, <2>10, InRunOfEntries
  <2>12. imap[i].type = imap[p].type
    <3>1. \A q \in p..j : imap[q].type = imap[p].type /\ imap[q].flags = imap[p].flags
      BY <2>6, <2>7, <2>8, RunHasKind
    <3> QED
      BY <2>11, <3>1
  <2>13. Managed(imap, i)
    BY <2>5, <2>12 DEF Managed, p
  <2> QED
    BY <2>11, <2>13 DEF ManagedAt, Contains
<1>4. ASSUME ManagedAt(x)
      PROVE  InTree(x)
  <2>1. PICK i \in DOMAIN imap : Managed(imap, i) /\ Contains(imap[i], x * PageSize)
    BY <1>4 DEF ManagedAt
  <2>2. i < Len(imap) + 1
    BY <1>1
  <2>3. PICK e \in DOMAIN tree : Spans(tree[e], imap[i])
    BY <2>1, <2>2, Zenon DEF Covers
  <2>4. tree[e] \in TreeSet /\ Complete(imap, tree[e])
    BY MadeContext
  <2>5. PICK n \in Nat, k \in Nat : TreeSpan(tree[e], n, k)
    BY <1>1, <2>4, TreeOnPages
  <2>6. n * PageSize <= imap[i].start /\ End(imap[i]) <= k * PageSize
    BY <2>3, <2>5 DEF Spans, TreeSpan
  <2>7. imap[i].start \in Nat /\ End(imap[i]) \in Nat
    BY <1>1 DEF Sorted, Bounded
  <2>8. n * PageSize \in Nat /\ k * PageSize \in Nat
    BY PageNumber
  <2>9. n * PageSize <= x * PageSize /\ x * PageSize < k * PageSize
    BY <1>2, <2>1, <2>6, <2>7, <2>8 DEF Contains
  <2>10. n <= x /\ x < k
    BY <2>9, PageOrder
  <2> QED
    BY <2>5, <2>10 DEF InTree
<1> QED
  BY <1>3, <1>4

-----------------------------------------------------------------------------
(* What the firmware reported.                                             *)
Free == {"Conventional", "Persistent"}

(* The pages that reach into the initial map's bytes are its own entry's.  *)
LEMMA OwnPages ==
  ASSUME GenInv, OnPages, NEW o \in DOMAIN imap, OwnAt(o), NEW x \in Nat
  PROVE  Meets(x * PageSize, alloc.address, RequiredSize(alloc)) <=> Contains(imap[o], x * PageSize)
<1> DEFINE s == RequiredSize(alloc)
           r == RequiredPages(alloc)
<1>1. /\ alloc \in AllocSet /\ IsMap(imap)
  BY MapFactsHold DEF GenInv, GenTypes, MapFacts, IsMap
<1>2. s \in Nat /\ r \in Nat /\ s <= r * PageSize /\ PageSize \in Nat \ {0}
  BY <1>1, RequiredFacts, EfiMapsAssumption
<1>3. r * PageSize < s + PageSize
  <2>1. r = (s + PageSize - 1) \div PageSize
    BY DEF RequiredPages
  <2>2. s + PageSize - 1 = s + (PageSize - 1) /\ s + (PageSize - 1) \in Nat
    BY <1>2
  <2> HIDE DEF s, r
  <2>3. PageSize * r <= s + (PageSize - 1)
    BY <1>2, <2>1, <2>2
  <2>4. PageSize * r = r * PageSize /\ r * PageSize \in Nat
    BY <1>2, ProductIsNatural
  <2> QED
    BY <1>2, <2>2, <2>3, <2>4
<1>4. imap[o].start = alloc.address /\ imap[o].pages = r
  BY DEF OwnAt
<1>5. PICK n \in Nat : alloc.address = n * PageSize
  BY <1>1, <1>4, EntryPages
<1>6. End(imap[o]) = n * PageSize + r * PageSize
  BY <1>4, <1>5 DEF End
<1>7. (n + r) * PageSize = n * PageSize + r * PageSize /\ n + r \in Nat
  BY <1>2, ProductOfSum
<1> HIDE DEF s, r
<1>8. x * PageSize \in Nat /\ n * PageSize \in Nat /\ r * PageSize \in Nat
  BY <1>2, PageNumber
<1>9. x < n + r => x * PageSize + PageSize <= (n + r) * PageSize
  BY <1>7, PageOrder
<1>10. ~(x < n + r) => (n + r) * PageSize <= x * PageSize
  BY <1>7, PageOrder
<1>11. n <= x => n * PageSize <= x * PageSize
  BY PageOrder
<1>12. x < n => x * PageSize + PageSize <= n * PageSize
  BY PageOrder
<1>13. n * PageSize < x * PageSize + PageSize <=> n * PageSize <= x * PageSize
  BY <1>2, <1>8, <1>11, <1>12
<1>14. x * PageSize < n * PageSize + s <=> x * PageSize < n * PageSize + r * PageSize
  BY <1>2, <1>3, <1>7, <1>8, <1>9, <1>10
<1> QED
  BY <1>4, <1>5, <1>6, <1>13, <1>14 DEF Meets, Contains, s

LEMMA EntriesAreApart ==
  ASSUME MapFacts, NEW i \in DOMAIN imap, NEW j \in DOMAIN imap, NEW y \in Nat,
         Contains(imap[i], y), Contains(imap[j], y)
  PROVE  i = j
<1>1. IsMap(imap) /\ DOMAIN imap = 1..Len(imap) /\ Len(imap) \in Nat /\ Sorted(imap)
  BY MapShape DEF MapFacts, IsMap
<1>2. /\ i < j => End(imap[i]) <= imap[j].start
      /\ j < i => End(imap[j]) <= imap[i].start
  BY <1>1, Zenon DEF Sorted
<1>3. /\ imap[i].start \in Nat /\ End(imap[i]) \in Nat /\ imap[j].start \in Nat /\ End(imap[j]) \in Nat
  BY <1>1, Zenon DEF Sorted, Bounded
<1>4. i \in Nat /\ j \in Nat
  BY <1>1
<1> QED
  BY <1>2, <1>3, <1>4 DEF Contains

LEMMA PageOfFirmware ==
  ASSUME efi \in EfiMaps, NEW d \in efi, NEW x \in Nat, d.start <= x * PageSize, x * PageSize < End(d)
  PROVE  x * PageSize \in Pages
<1>1. d.start \in Nat /\ d.start % PageSize = 0 /\ d.pages \in Nat
  BY EfiMapsAssumption, Zenon
<1>2. PICK n \in Nat : d.start = n * PageSize
  BY <1>1, OnPageFacts DEF OnPage
<1>3. n <= x
  BY <1>2, PageOrder
<1> DEFINE p == x - n
<1>4. p \in Nat /\ n + p = x
  BY <1>3
<1> HIDE DEF p
<1>5. x * PageSize = d.start + p * PageSize
  <2>1. (n + p) * PageSize = n * PageSize + p * PageSize
    BY <1>4, ProductOfSum, EfiMapsAssumption
  <2> QED
    BY <2>1, <1>2, <1>4
<1>6. p < d.pages
  <2>1. p * PageSize \in Nat /\ d.pages * PageSize \in Nat
    BY <1>1, <1>4, PageNumber
  <2>2. p * PageSize < d.pages * PageSize
    BY <2>1, <1>1, <1>5 DEF End
  <2> QED
    BY <2>2, <1>1, <1>4, PageOrder
<1>7. p \in 0..(d.pages - 1)
  BY <1>1, <1>4, <1>6
<1> QED
  BY <1>5, <1>7 DEF Pages

LEMMA PagesAreOnPages ==
  ASSUME efi \in EfiMaps, NEW a \in Pages
  PROVE  \E x \in Nat : a = x * PageSize
<1>0. PICK d \in efi : a \in {d.start + p * PageSize : p \in 0..(d.pages - 1)}
  BY DEF Pages
<1>1. PICK p \in 0..(d.pages - 1) : a = d.start + p * PageSize
  BY <1>0
<1>2. d.start \in Nat /\ d.start % PageSize = 0 /\ d.pages \in Nat
  BY EfiMapsAssumption, Zenon
<1>3. p \in Nat
  BY <1>2
<1>4. OnPage(a)
  BY <1>1, <1>2, <1>3, OnPageFacts
<1> QED
  BY <1>4 DEF OnPage

LEMMA FreeTypes ==
  ASSUME NEW d, d.type \in EfiTypes, NEW e, SameMemory(Region(d), e), e.usage # "INITIAL_MEMMAP"
  PROVE  (M!ShouldCreateTreeForType(e.type) /\ ~(e.usage \in M!UsedUsages)) <=> d.type \in Free
<1>1. e.type = ToDexprOSMemType(d.type) /\ e.usage = ToDexprOSInitialMemMapUsage(d.type)
  BY DEF SameMemory, Region
<1> QED
  BY <1>1 DEF ToDexprOSMemType, ToDexprOSInitialMemMapUsage, EfiTypes, M!ShouldCreateTreeForType,
              M!UsedUsages, Free

LEMMA DescriptorHasEntry ==
  ASSUME GenInv, gen.pass = "done", NEW d \in efi, NEW x \in Nat, d.start <= x, x < End(d)
  PROVE  d.type \in EfiTypes /\ \E i \in DOMAIN imap : Contains(imap[i], x) /\ SameMemory(Region(d), imap[i])
<1>1. efi \in EfiMaps
  BY DEF GenInv, GenTypes
<1>2. PICK y \in Nat : (\A a \in Regs : End(a) <= y) /\ Describes(Regs, imap, y)
  BY Zenon DEF GenInv, PassInv, Written
<1> DEFINE a == Region(d)
<1>3. a \in Regs /\ a.start = d.start /\ End(a) = End(d) /\ End(a) \in Nat
  BY <1>1, RegionFacts DEF Regs, Bounded
<1> HIDE DEF a
<1>4. Contains(a, x) /\ x < y
  BY <1>2, <1>3 DEF Contains
<1>5. \E i \in DOMAIN imap : Contains(imap[i], x) /\ SameMemory(a, imap[i])
  BY <1>2, <1>3, <1>4, Zenon DEF Describes
<1>6. d.type \in EfiTypes
  BY <1>1, EfiMapsAssumption, Zenon
<1> QED
  BY <1>5, <1>6 DEF a

(* The pages of the entries that have a tree and are not taken are those   *)
(* that the firmware reported as free and the initial map does not use.    *)
FreeAt(a) == ReportedAs(a, Free) /\ ~Meets(a, alloc.address, RequiredSize(alloc))

LEMMA ManagedIsFree ==
  ASSUME GenInv, OnPages, gen.pass = "done", NEW x \in Nat
  PROVE  ManagedAt(x) /\ x \notin TakenPages(imap, Len(imap) + 1) <=> x * PageSize \in Pages /\ FreeAt(x * PageSize)
<1> DEFINE a == x * PageSize
<1>1. /\ MapFacts /\ DOMAIN imap = 1..Len(imap) /\ Len(imap) \in Nat /\ efi \in EfiMaps
  BY MapFactsHold, MapShape DEF GenInv, GenTypes, MapFacts, IsMap
<1>2. a \in Nat
  BY PageNumber
<1>3. PICK o \in DOMAIN imap : OwnAt(o) /\ \A j \in DOMAIN imap : imap[j].usage = "INITIAL_MEMMAP" => j = o
  BY OwnEntry
<1>4. Meets(a, alloc.address, RequiredSize(alloc)) <=> Contains(imap[o], a)
  BY <1>3, OwnPages
<1>5. x \in TakenPages(imap, Len(imap) + 1) <=> \E i \in DOMAIN imap : IsTaken(imap[i]) /\ Contains(imap[i], a)
  <2>1. \A i \in DOMAIN imap : i < Len(imap) + 1
    BY <1>1
  <2> QED
    BY <2>1, Zenon DEF TakenPages, EntryAt
<1>6. IsTaken(imap[o]) /\ imap[o].usage = "INITIAL_MEMMAP"
  BY <1>3 DEF OwnAt, IsTaken, M!ShouldCreateTreeForType, M!UsedUsages
<1> HIDE DEF a
<1>7. ASSUME ManagedAt(x), x \notin TakenPages(imap, Len(imap) + 1)
      PROVE  a \in Pages /\ FreeAt(a)
  <2>1. PICK i \in DOMAIN imap : Managed(imap, i) /\ Contains(imap[i], a)
    BY <1>7 DEF ManagedAt, a
  <2>2. ~IsTaken(imap[i]) /\ ~Contains(imap[o], a)
    BY <1>5, <1>6, <1>7, <2>1, Zenon
  <2>3. PICK d \in efi : /\ d.start <= a /\ a < End(d) /\ d.type \in EfiTypes
                         /\ SameMemory(Region(d), imap[i])
    BY <1>2, <2>1, EntryIsReported, Zenon
  <2>4. imap[i].usage # "INITIAL_MEMMAP"
    BY <1>3, <2>1, <2>2, Zenon
  <2>5. M!ShouldCreateTreeForType(imap[i].type) /\ ~(imap[i].usage \in M!UsedUsages)
    BY <2>1, <2>2 DEF Managed, IsTaken
  <2>6. d.type \in Free
    BY <2>3, <2>4, <2>5, FreeTypes, Zenon
  <2>7. a \in Pages
    BY <1>1, <2>3, PageOfFirmware DEF a
  <2> QED
    BY <1>4, <2>2, <2>3, <2>6, <2>7 DEF FreeAt, ReportedAs
<1>8. ASSUME FreeAt(a)
      PROVE  ManagedAt(x) /\ x \notin TakenPages(imap, Len(imap) + 1)
  <2>1. PICK d \in efi : d.start <= a /\ a < End(d) /\ d.type \in Free
    BY <1>8 DEF FreeAt, ReportedAs
  <2>2. ~Contains(imap[o], a)
    BY <1>4, <1>8 DEF FreeAt
  <2>3. d.type \in EfiTypes
    BY <1>2, <2>1, DescriptorHasEntry
  <2>4. PICK i \in DOMAIN imap : Contains(imap[i], a) /\ SameMemory(Region(d), imap[i])
    BY <1>2, <2>1, DescriptorHasEntry
  <2>5. imap[i].usage # "INITIAL_MEMMAP"
    BY <1>3, <2>2, <2>4, Zenon
  <2>6. M!ShouldCreateTreeForType(imap[i].type) /\ ~(imap[i].usage \in M!UsedUsages)
    BY <2>1, <2>3, <2>4, <2>5, FreeTypes, Zenon
  <2>7. ManagedAt(x)
    BY <2>4, <2>6 DEF ManagedAt, Managed, a
  <2>8. ASSUME NEW j \in DOMAIN imap, IsTaken(imap[j]), Contains(imap[j], a)
        PROVE  FALSE
    <3>1. j = i
      BY <1>1, <1>2, <2>4, <2>8, EntriesAreApart
    <3> QED
      BY <3>1, <2>6, <2>8 DEF IsTaken
  <2> QED
    BY <1>5, <2>7, <2>8
<1> QED
  BY <1>7, <1>8 DEF a

LEMMA OfferedIsFree ==
  ASSUME BootInv, CoverInv, MarksInv, buffer.address # 0
  PROVE  OnlyFreeMemoryIsOffered
<1> SUFFICES ASSUME pc = "done"
             PROVE  Offered = {a \in Pages : /\ ReportedAs(a, {"Conventional", "Persistent"})
                                             /\ ~Meets(a, alloc.address, RequiredSize(alloc))
                                             /\ ~Meets(a, buffer.address, buffer.size)}
  BY DEF OnlyFreeMemoryIsOffered
<1>1. /\ GenInv /\ OnPages /\ MapFacts /\ gen.pass = "done" /\ efi \in EfiMaps
  BY MapFactsHold DEF BootInv, PlaceInv, StructsFresh, GenInv, GenTypes
<1>2. Made /\ Covers(imap, tree, Len(imap) + 1)
  BY DEF BootInv, CountInv, CoverInv, Later
<1>3. \A e \in DOMAIN tree : Shows(tree[e], InUse)
  BY DEF MarksInv
<1> DEFINE Wanted(a) == a \in Pages /\ FreeAt(a) /\ ~Meets(a, buffer.address, buffer.size)
<1>4. \A x \in Nat : x \in InUse <=> x \in TakenPages(imap, Len(imap) + 1) \/ Meets(x * PageSize, buffer.address, buffer.size)
  BY DEF InUse, RegionPages
<1>5. \A x \in Nat : InTree(x) /\ x \notin InUse <=> Wanted(x * PageSize)
  <2> TAKE x \in Nat
  <2>1. InTree(x) <=> ManagedAt(x)
    BY <1>1, <1>2, TreesHoldManaged
  <2>2. ManagedAt(x) /\ x \notin TakenPages(imap, Len(imap) + 1) <=> x * PageSize \in Pages /\ FreeAt(x * PageSize)
    BY <1>1, ManagedIsFree
  <2> QED
    BY <1>4, <2>1, <2>2
<1>6. \A a : a \in Offered <=> \E x \in Nat : a = x * PageSize /\ InTree(x) /\ x \notin InUse
  BY <1>1, <1>2, <1>3, OfferedPages
<1>7. \A a \in Pages : \E x \in Nat : a = x * PageSize
  BY <1>1, PagesAreOnPages
<1>8. \A a : Wanted(a) => a \in Pages
  OBVIOUS
<1>9. \A a : Wanted(a) <=> /\ a \in Pages /\ ReportedAs(a, {"Conventional", "Persistent"})
                           /\ ~Meets(a, alloc.address, RequiredSize(alloc))
                           /\ ~Meets(a, buffer.address, buffer.size)
  BY DEF FreeAt, Free
<1> HIDE DEF Wanted
<1>10. ASSUME NEW a
       PROVE  a \in Offered <=> Wanted(a)
  <2>1. ASSUME a \in Offered
        PROVE  Wanted(a)
    <3>1. PICK x \in Nat : a = x * PageSize /\ InTree(x) /\ x \notin InUse
      BY <1>6, <2>1, Zenon
    <3> QED
      BY <1>5, <3>1, Zenon
  <2>2. ASSUME Wanted(a)
        PROVE  a \in Offered
    <3>1. PICK x \in Nat : a = x * PageSize
      BY <1>7, <1>8, <2>2, Zenon
    <3>2. InTree(x) /\ x \notin InUse
      BY <1>5, <2>2, <3>1, Zenon
    <3> QED
      BY <1>6, <3>1, <3>2, Zenon
  <2> QED
    BY <2>1, <2>2
<1> QED
  BY <1>9, <1>10, Zenon

OfferInv == BootInv /\ CoverInv /\ MarksInv

LEMMA FreshOffers ==
  ASSUME StructsFresh
  PROVE  CoverInv /\ MarksInv
<1>1. pc = "treeSize" /\ buffer.address = 0
  BY DEF StructsFresh
<1>2. OnPage(0)
  <2>1. 0 \in Nat /\ 0 = 0 * PageSize
    BY EfiMapsAssumption
  <2> QED
    BY <2>1 DEF OnPage
<1> QED
  BY <1>1, <1>2 DEF CoverInv, MarksInv, Later

LEMMA OfferInvInit ==
  ASSUME BootInit
  PROVE  OfferInv
<1>1. StructsFresh
  BY DEF BootInit, M!Init, StructsFresh
<1> QED
  BY <1>1, BootInvInit, FreshOffers DEF OfferInv

LEMMA OfferInvStep ==
  ASSUME OfferInv, [BootNext]_<<vars, structs>>
  PROVE  OfferInv'
<1>1. BootInv'
  BY BootInvStep DEF OfferInv
<1>2. CASE MakeInitialMap
  <2>1. StructsFresh'
    BY <1>2, NotDoneBefore, FreshStays DEF MakeInitialMap, OfferInv, BootInv, PlaceInv
  <2>2. CoverInv' /\ MarksInv'
    BY <2>1, FreshOffers, PTL
  <2> QED
    BY <1>1, <2>2 DEF OfferInv
<1>3. CASE MakeStructs
  <2>1. MapFacts /\ StructTypes /\ OnPages /\ CountInv /\ M!Next /\ CountInv'
    BY <1>1, <1>3, MapFactsHold DEF MakeStructs, OfferInv, BootInv, PlaceInv
  <2>2. CoverInv'
    BY <2>1, CoverStep DEF OfferInv
  <2>3. MarksInv'
    BY <2>1, MarksStep DEF OfferInv
  <2> QED
    BY <1>1, <2>2, <2>3 DEF OfferInv
<1>4. CASE UNCHANGED <<vars, structs>>
  <2>1. /\ imap' = imap /\ pc' = pc /\ loop' = loop /\ buffer' = buffer /\ tree' = tree
    BY <1>4 DEF vars, structs
  <2>2. CoverInv' /\ MarksInv'
    BY <2>1 DEF OfferInv, CoverInv, MarksInv, InUse, Later
  <2> QED
    BY <1>1, <2>2 DEF OfferInv
<1> QED
  BY <1>2, <1>3, <1>4 DEF BootNext

(* When the trees of physical memory are finished (PhysicalMemTreeGen.c),  *)
(* the pages they offer are exactly those that the firmware reported as    *)
(* conventional or persistent and that neither the initial map nor the     *)
(* structures themselves reach into: no page that is in use is handed out, *)
(* and none is lost.  At address 0 the list of trees reads as empty, so    *)
(* the statement is about buffers that lie elsewhere.                      *)
THEOREM OfferedMemoryIsFree == BootSpec => [](buffer.address # 0 => OnlyFreeMemoryIsOffered)
<1>1. BootInit => OfferInv
  BY OfferInvInit
<1>2. OfferInv /\ [BootNext]_<<vars, structs>> => OfferInv'
  BY OfferInvStep
<1>3. OfferInv => (buffer.address # 0 => OnlyFreeMemoryIsOffered)
  BY OfferedIsFree DEF OfferInv
<1> QED
  BY <1>1, <1>2, <1>3, PTL DEF BootSpec

-----------------------------------------------------------------------------
(* The blocks above the pages.  A block of level h (the pages have level   *)
(* 0) covers s pages, two of the level below each; it holds v, and c of    *)
(* its pages are available.                                                *)

ErrorAt(h) == IF h <= 7 THEN 0 ELSE h - 7

SizeAt(h, s) ==
  /\ h \in Nat /\ s \in Nat \ {0}
  /\ h <= 7 => <<h, s>> \in {<<0, 1>>, <<1, 2>>, <<2, 4>>, <<3, 8>>, <<4, 16>>, <<5, 32>>, <<6, 64>>, <<7, 128>>}

Tells(h, s, v, c) ==
  /\ v \in 0..128 /\ c \in 0..s
  /\ v = 0 <=> c = 0
  /\ v = 128 <=> c = s
  /\ 128 * c - v * s <= ErrorAt(h) * s
  /\ v * s - 128 * c <= ErrorAt(h) * s

LEMMA SizeDoubles ==
  ASSUME NEW h, NEW s, SizeAt(h, s)
  PROVE  SizeAt(h + 1, 2 * s)
<1>1. h \in Nat /\ s \in Nat \ {0}
  BY DEF SizeAt
<1>2. h + 1 \in Nat /\ 2 * s \in Nat \ {0}
  BY <1>1
<1>3. h + 1 <= 7 => h <= 7 /\ h # 7
  BY <1>1
<1>4. h + 1 <= 7 => <<h + 1, 2 * s>> \in {<<0, 1>>, <<1, 2>>, <<2, 4>>, <<3, 8>>, <<4, 16>>, <<5, 32>>, <<6, 64>>, <<7, 128>>}
  BY <1>1, <1>3 DEF SizeAt
<1> QED
  BY <1>2, <1>4 DEF SizeAt

(* z is half of the sum of two values, rounded: down to 0 or up to 128     *)
(* only where that is exact.                                               *)
Halved(x, y, z) ==
  /\ z \in 0..128
  /\ z = 0 <=> x = 0 /\ y = 0
  /\ z = 128 <=> x = 128 /\ y = 128
  /\ x + y - 2 * z \in {-2, -1, 0, 1, 2}
  /\ x % 2 = 0 /\ y % 2 = 0 => x + y = 2 * z

LEMMA LowestBit ==
  ASSUME NEW x \in 0..128
  PROVE  /\ x \div 2 \in 0..64 /\ x % 2 \in {0, 1}
         /\ x = 2 * (x \div 2) + (x % 2)
  OBVIOUS

LEMMA SummaryFacts ==
  ASSUME NEW x \in 0..128, NEW y \in 0..128
  PROVE  Halved(x, y, M!Summary(x, y))
<1> DEFINE p == x \div 2
           q == y \div 2
           i == x % 2
           j == y % 2
           h == p + q
           k == h % 2
<1>1. /\ p \in 0..64 /\ i \in {0, 1} /\ x = 2 * p + i
      /\ q \in 0..64 /\ j \in {0, 1} /\ y = 2 * q + j
  BY LowestBit
<1>2. h \in 0..128
  <2> HIDE DEF p, q
  <2> QED
    BY <1>1
<1>3. k \in {0, 1} /\ \E r \in Int : h = 2 * r + k
  BY <1>2, LowestBit
<1>4. M!Summary(x, y) = IF i = 1 \/ j = 1 THEN h + 1 - k ELSE h
  BY DEF M!Summary, M!Or1
<1>5. h = p + q
  OBVIOUS
<1>6. i = x % 2 /\ j = y % 2
  OBVIOUS
<1> HIDE DEF p, q, i, j, h, k
<1> DEFINE z == IF i = 1 \/ j = 1 THEN h + 1 - k ELSE h
<1>7. /\ z \in 0..128
      /\ z = 0 <=> x = 0 /\ y = 0
      /\ z = 128 <=> x = 128 /\ y = 128
      /\ x + y - 2 * z \in {-2, -1, 0, 1, 2}
      /\ i = 0 /\ j = 0 => x + y = 2 * z
  BY <1>1, <1>2, <1>3, <1>5
<1>8. Halved(x, y, z)
  BY <1>6, <1>7 DEF Halved
<1> QED
  BY <1>4, <1>8

(* Up to 128 pages the value is exact. *)
LEMMA SmallSummary ==
  ASSUME NEW h, NEW s, SizeAt(h, s), h < 7,
         NEW v, NEW c, Tells(h, s, v, c), NEW w, NEW d, Tells(h, s, w, d)
  PROVE  Tells(h + 1, 2 * s, M!Summary(v, w), c + d)
<1>1. /\ h \in Nat /\ v \in 0..128 /\ w \in 0..128 /\ c \in Nat /\ d \in Nat
      /\ s \in {1, 2, 4, 8, 16, 32, 64} /\ c \in 0..s /\ d \in 0..s
      /\ ErrorAt(h) = 0 /\ ErrorAt(h + 1) = 0
  BY DEF SizeAt, Tells, ErrorAt
<1> DEFINE V == M!Summary(v, w)
<1>2. /\ V \in 0..128
      /\ V = 0 <=> v = 0 /\ w = 0
      /\ V = 128 <=> v = 128 /\ w = 128
      /\ v % 2 = 0 /\ w % 2 = 0 => v + w = 2 * V
  <2>1. Halved(v, w, V)
    BY <1>1, SummaryFacts
  <2> HIDE DEF V
  <2> QED
    BY <2>1 DEF Halved
<1> HIDE DEF V
<1>3. /\ v = 0 <=> c = 0
      /\ v = 128 <=> c = s
      /\ w = 0 <=> d = 0
      /\ w = 128 <=> d = s
      /\ 128 * c = v * s /\ 128 * d = w * s
  <2>1. /\ 128 * c - v * s <= 0 * s /\ v * s - 128 * c <= 0 * s
        /\ 128 * d - w * s <= 0 * s /\ w * s - 128 * d <= 0 * s
    BY <1>1 DEF Tells
  <2>2. 128 * c = v * s /\ 128 * d = w * s
    BY <2>1, <1>1
  <2> QED
    BY <2>2 DEF Tells
<1>4. v + w = 2 * V
  <2>1. v % 2 = 0 /\ w % 2 = 0
    BY <1>1, <1>3
  <2> QED
    BY <2>1, <1>2
<1>5. 128 * (c + d) = V * (2 * s)
  BY <1>1, <1>2, <1>3, <1>4
<1>6. c + d \in 0..(2 * s) /\ (c + d = 0 <=> c = 0 /\ d = 0) /\ (c + d = 2 * s <=> c = s /\ d = s)
  BY <1>1
<1>7. 128 * (c + d) - V * (2 * s) <= 0 * (2 * s) /\ V * (2 * s) - 128 * (c + d) <= 0 * (2 * s)
  BY <1>1, <1>2, <1>5
<1>8. Tells(h + 1, 2 * s, V, c + d)
  BY <1>1, <1>2, <1>3, <1>6, <1>7 DEF Tells
<1> QED
  BY <1>8 DEF V

LEMMA SumTimes ==
  ASSUME NEW x \in Nat, NEW y \in Nat, NEW z \in Nat, NEW s \in Nat,
         x + y - 2 * z \in {-2, -1, 0, 1, 2}
  PROVE  /\ x * s \in Nat /\ y * s \in Nat /\ z * s \in Nat
         /\ x * s + y * s <= 2 * (z * s) + 2 * s
         /\ 2 * (z * s) <= x * s + y * s + 2 * s
<1>1. x * s \in Nat /\ y * s \in Nat /\ z * s \in Nat
  BY ProductIsNatural
<1>2. x + y <= 2 * z + 2 /\ 2 * z <= x + y + 2 /\ x + y \in Nat /\ 2 * z + 2 \in Nat /\ 2 * z \in Nat /\ x + y + 2 \in Nat
  OBVIOUS
<1>3. (x + y) * s <= (2 * z + 2) * s /\ (2 * z) * s <= (x + y + 2) * s
  BY <1>2, ProductIsMonotone
<1>4. /\ (x + y) * s = x * s + y * s
      /\ (2 * z + 2) * s = (2 * z) * s + 2 * s
      /\ (x + y + 2) * s = (x + y) * s + 2 * s
      /\ (z + z) * s = z * s + z * s
  BY <1>2, ProductOfSum
<1>5. 2 * z = z + z
  OBVIOUS
<1>6. (2 * z) * s = z * s + z * s
  BY <1>4, <1>5
<1> HIDE DEF M!Summary
<1> QED
  BY <1>1, <1>3, <1>4, <1>6

LEMMA TimesDouble ==
  ASSUME NEW x \in Nat, NEW s \in Nat
  PROVE  x * (2 * s) = 2 * (x * s)
<1>1. 2 * s = s + s
  OBVIOUS
<1>2. (s + s) * x = s * x + s * x /\ s + s \in Nat
  BY ProductOfSum
<1>3. (s + s) * x = x * (s + s) /\ s * x = x * s /\ x * s \in Nat
  BY <1>2, ProductIsNatural
<1> QED
  BY <1>1, <1>2, <1>3

LEMMA ErrorsAdd ==
  ASSUME NEW c \in Nat, NEW d \in Nat, NEW p \in Nat, NEW q \in Nat, NEW r \in Nat, NEW e \in Nat, NEW t \in Nat,
         128 * c - p <= e, p - 128 * c <= e, 128 * d - q <= e, q - 128 * d <= e,
         p + q <= 2 * r + 2 * t, 2 * r <= p + q + 2 * t
  PROVE  128 * (c + d) - 2 * r <= 2 * (e + t) /\ 2 * r - 128 * (c + d) <= 2 * (e + t)
  OBVIOUS

(* Above, each level may add an error of one 128th. *)
LEMMA LargeSummary ==
  ASSUME NEW h, NEW s, SizeAt(h, s), ~(h < 7),
         NEW v, NEW c, Tells(h, s, v, c), NEW w, NEW d, Tells(h, s, w, d)
  PROVE  Tells(h + 1, 2 * s, M!Summary(v, w), c + d)
<1>1. /\ h \in Nat /\ v \in 0..128 /\ w \in 0..128 /\ c \in Nat /\ d \in Nat
      /\ s \in Nat \ {0} /\ c \in 0..s /\ d \in 0..s /\ c <= s /\ d <= s
  BY DEF SizeAt, Tells
<1> DEFINE V == M!Summary(v, w)
           b == h - 7
<1>2. /\ V \in 0..128
      /\ V = 0 <=> v = 0 /\ w = 0
      /\ V = 128 <=> v = 128 /\ w = 128
      /\ v + w - 2 * V \in {-2, -1, 0, 1, 2}
  <2>1. Halved(v, w, V)
    BY <1>1, SummaryFacts
  <2> HIDE DEF V
  <2> QED
    BY <2>1 DEF Halved
<1> HIDE DEF V
<1>3. b \in Nat /\ ErrorAt(h) = b /\ ErrorAt(h + 1) = b + 1
  BY <1>1 DEF ErrorAt
<1> HIDE DEF b
<1>4. /\ v = 0 <=> c = 0
      /\ v = 128 <=> c = s
      /\ w = 0 <=> d = 0
      /\ w = 128 <=> d = s
      /\ 128 * c - v * s <= b * s /\ v * s - 128 * c <= b * s
      /\ 128 * d - w * s <= b * s /\ w * s - 128 * d <= b * s
  BY <1>3 DEF Tells
<1>5. c + d \in 0..(2 * s) /\ (c + d = 0 <=> c = 0 /\ d = 0) /\ (c + d = 2 * s <=> c = s /\ d = s)
  BY <1>1
<1>6. v \in Nat /\ w \in Nat /\ V \in Nat /\ s \in Nat
  BY <1>1, <1>2
<1>7. /\ v * s \in Nat /\ w * s \in Nat /\ V * s \in Nat
      /\ v * s + w * s <= 2 * (V * s) + 2 * s
      /\ 2 * (V * s) <= v * s + w * s + 2 * s
  BY <1>2, <1>6, SumTimes
<1>8. V * (2 * s) = 2 * (V * s) /\ (b + 1) * (2 * s) = 2 * (b * s + s) /\ b * s \in Nat
  <2>1. b + 1 \in Nat /\ (b + 1) * s = b * s + 1 * s /\ b * s \in Nat
    BY <1>3, <1>6, ProductOfSum, ProductIsNatural
  <2>2. (b + 1) * (2 * s) = 2 * ((b + 1) * s)
    BY <2>1, <1>6, TimesDouble
  <2>3. V * (2 * s) = 2 * (V * s)
    BY <1>6, TimesDouble
  <2> QED
    BY <2>1, <2>2, <2>3, <1>6
<1>10. 128 * (c + d) - 2 * (V * s) <= 2 * (b * s + s) /\ 2 * (V * s) - 128 * (c + d) <= 2 * (b * s + s)
  BY <1>1, <1>4, <1>6, <1>7, <1>8, ErrorsAdd
<1>11. Tells(h + 1, 2 * s, V, c + d)
  BY <1>1, <1>2, <1>3, <1>4, <1>5, <1>8, <1>10 DEF Tells
<1> QED
  BY <1>11 DEF V

LEMMA SummaryTells ==
  ASSUME NEW h, NEW s, SizeAt(h, s),
         NEW v, NEW c, Tells(h, s, v, c), NEW w, NEW d, Tells(h, s, w, d)
  PROVE  Tells(h + 1, 2 * s, M!Summary(v, w), c + d)
  BY SmallSummary, LargeSummary, Zenon

-----------------------------------------------------------------------------
(* Where the levels of a tree lie.  In blocks of a level's own size it     *)
(* goes from number q up to r, and has the pages from n up to k within it. *)

LEMMA HalvedDown ==
  ASSUME NEW q \in Nat, NEW b \in Nat \ {0}
  PROVE  /\ q \div 2 \in Nat /\ q - 2 * (q \div 2) \in {0, 1}
         /\ (q * b) \div (2 * b) = q \div 2
         /\ q * b - (q \div 2) * (2 * b) = (q - 2 * (q \div 2)) * b
         /\ (q \div 2) * (2 * b) = (2 * (q \div 2)) * b
<1> DEFINE d == q \div 2
           o == q - 2 * d
<1>1. d \in Nat /\ o \in {0, 1} /\ q = 2 * d + o
  OBVIOUS
<1> HIDE DEF d, o
<1>2. /\ 2 * d \in Nat /\ 2 * b \in Nat \ {0}
      /\ (2 * d + o) * b = (2 * d) * b + o * b
  BY <1>1, ProductOfSum
<1>3. d * (2 * b) = 2 * (d * b) /\ d * b \in Nat /\ (d + d) * b = d * b + d * b /\ 2 * d = d + d
  BY <1>1, TimesDouble, ProductIsNatural, ProductOfSum
<1>4. (2 * d) * b = d * b + d * b
  BY <1>3
<1>5. o * b \in Nat /\ o * b < 2 * b
  BY <1>1
<1>6. q * b = d * (2 * b) + o * b
  BY <1>1, <1>2, <1>3, <1>4
<1>7. (d * (2 * b) + o * b) \div (2 * b) = d
  BY <1>1, <1>2, <1>5, WholeQuotient
<1>8. q * b - d * (2 * b) = o * b /\ d * (2 * b) = (2 * d) * b
  BY <1>3, <1>4, <1>5, <1>6
<1> QED
  BY <1>1, <1>6, <1>7, <1>8 DEF o, d

LEMMA HalvedUp ==
  ASSUME NEW r \in Nat, NEW b \in Nat \ {0}
  PROVE  /\ (r + 1) \div 2 \in Nat /\ r <= 2 * ((r + 1) \div 2)
         /\ (r * b + 2 * b - 1) \div (2 * b) = (r + 1) \div 2
<1> DEFINE d == (r + 1) \div 2
<1>1. d \in Nat /\ (r = 2 * d \/ r + 1 = 2 * d)
  OBVIOUS
<1> HIDE DEF d
<1>2. 2 * b \in Nat \ {0} /\ 2 * b - 1 \in Nat /\ b - 1 \in Nat /\ 2 * b - 1 < 2 * b /\ b - 1 < 2 * b
  OBVIOUS
<1>3. /\ d * (2 * b) = 2 * (d * b) /\ d * b \in Nat /\ r * b \in Nat
      /\ (d + d) * b = d * b + d * b /\ (r + 1) * b = r * b + 1 * b
  BY <1>1, TimesDouble, ProductIsNatural, ProductOfSum
<1>4. CASE r = 2 * d
  <2>1. r = d + d
    BY <1>1, <1>4
  <2>2. r * b = d * (2 * b)
    BY <2>1, <1>3
  <2>3. (d * (2 * b) + (2 * b - 1)) \div (2 * b) = d
    BY <1>1, <1>2, WholeQuotient
  <2>4. r * b + 2 * b - 1 = d * (2 * b) + (2 * b - 1)
    BY <2>2, <1>2, <1>3
  <2> QED
    BY <2>3, <2>4, <1>1 DEF d
<1>5. CASE r + 1 = 2 * d
  <2>1. r + 1 = d + d
    BY <1>1, <1>5
  <2>2. r * b + b = d * (2 * b)
    BY <2>1, <1>3
  <2>3. (d * (2 * b) + (b - 1)) \div (2 * b) = d
    BY <1>1, <1>2, WholeQuotient
  <2>4. r * b + 2 * b - 1 = d * (2 * b) + (b - 1)
    BY <2>2, <1>2, <1>3
  <2> QED
    BY <2>3, <2>4, <1>1 DEF d
<1> QED
  BY <1>1, <1>4, <1>5

LEMMA BlocksBetween ==
  ASSUME NEW q \in Nat, NEW r \in Nat, NEW b \in Nat \ {0}
  PROVE  (r * b - q * b) \div b = r - q
<1> DEFINE x == r * b - q * b
           d == x \div b
<1>1. q * b \in Nat /\ r * b \in Nat
  BY ProductIsNatural
<1>2. x = r * b - q * b /\ x \in Int
  BY <1>1
<1>3. d \in Int /\ b * d <= x /\ x < b * d + b
  BY <1>2
<1> HIDE DEF x, d
<1>4. \A i \in Int : b * i \in Int /\ b * i = i * b
  OBVIOUS
<1>5. r * b - q * b = (r - q) * b
  OBVIOUS
<1>6. (r - q) - d \in Int /\ ((r - q) - d) * b = (r - q) * b - d * b
  BY <1>3
<1> DEFINE i == (r - q) - d
<1>7. i \in Int /\ 0 <= i * b /\ i * b < b
  BY <1>1, <1>2, <1>3, <1>4, <1>5, <1>6
<1> HIDE DEF i
<1>8. i = 0
  BY <1>7
<1> QED
  BY <1>3, <1>8 DEF i, d, x

Bounds(n, k, s, q, r) ==
  n \in Nat /\ k \in Nat /\ s \in Nat \ {0} /\ q \in Nat /\ r \in Nat /\ q * s <= n /\ k <= r * s

LEMMA BoundsDouble ==
  ASSUME NEW n, NEW k, NEW s, NEW q, NEW r, Bounds(n, k, s, q, r)
  PROVE  Bounds(n, k, 2 * s, q \div 2, (r + 1) \div 2)
<1>1. /\ n \in Nat /\ k \in Nat /\ s \in Nat \ {0} /\ q \in Nat /\ r \in Nat
      /\ q * s <= n /\ k <= r * s
  BY DEF Bounds
<1>2. /\ q \div 2 \in Nat /\ 2 * (q \div 2) <= q /\ (q \div 2) * (2 * s) = (2 * (q \div 2)) * s
      /\ (r + 1) \div 2 \in Nat /\ r <= 2 * ((r + 1) \div 2)
  BY <1>1, HalvedDown, HalvedUp
<1> DEFINE d == q \div 2
           e == (r + 1) \div 2
<1>3. d \in Nat /\ e \in Nat /\ 2 * d \in Nat /\ 2 * e \in Nat /\ 2 * s \in Nat \ {0}
      /\ 2 * d <= q /\ r <= 2 * e /\ d * (2 * s) = (2 * d) * s
  BY <1>1, <1>2
<1> HIDE DEF d, e
<1>4. (2 * d) * s <= q * s /\ r * s <= (2 * e) * s
  BY <1>1, <1>3, ProductIsMonotone
<1>5. e * (2 * s) = 2 * (e * s) /\ (e + e) * s = e * s + e * s /\ e * s \in Nat
  BY <1>1, <1>3, TimesDouble, ProductOfSum, ProductIsNatural
<1>6. (2 * e) * s = e * s + e * s
  <2>1. 2 * e = e + e
    BY <1>3
  <2> QED
    BY <2>1, <1>5
<1>7. q * s \in Nat /\ r * s \in Nat /\ d * (2 * s) \in Nat
  BY <1>1, <1>3, ProductIsNatural
<1>8. d * (2 * s) <= n /\ k <= e * (2 * s)
  BY <1>1, <1>3, <1>4, <1>5, <1>6, <1>7
<1>9. Bounds(n, k, 2 * s, d, e)
  BY <1>1, <1>3, <1>8 DEF Bounds
<1> QED
  BY <1>9 DEF d, e

(* The bounds that the loop over levels has computed. *)
TraceLies(t, n, k, s, q, r) ==
  /\ Bounds(n, k, s, q, r) /\ SizeAt(t.n, s)
  /\ t.bs = s * PageSize /\ t.bs \in Nat \ {0}
  /\ MinOf(imap, t) = q * t.bs /\ MaxOf(imap, t) = r * t.bs

LEMMA TraceRises ==
  ASSUME NEW t, NEW u, NEW n, NEW k, NEW s, NEW q, NEW r, TraceLies(t, n, k, s, q, r),
         t.n \in Nat, u.n = t.n + 1, u.bs = 2 * t.bs, u.min = MinOf(imap, t), u.max = MaxOf(imap, t)
  PROVE  TraceLies(u, n, k, 2 * s, q \div 2, (r + 1) \div 2)
<1>1. /\ Bounds(n, k, s, q, r) /\ SizeAt(t.n, s) /\ t.bs = s * PageSize /\ t.bs \in Nat \ {0}
      /\ u.min = q * t.bs /\ u.max = r * t.bs
  BY DEF TraceLies
<1>2. Bounds(n, k, 2 * s, q \div 2, (r + 1) \div 2) /\ SizeAt(u.n, 2 * s)
  BY <1>1, BoundsDouble, SizeDoubles
<1>3. s \in Nat \ {0} /\ q \in Nat /\ r \in Nat /\ PageSize \in Nat \ {0}
  BY <1>1, EfiMapsAssumption DEF Bounds
<1>4. u.bs = (2 * s) * PageSize /\ u.bs \in Nat \ {0}
  <2>1. 2 * s = s + s /\ (s + s) * PageSize = s * PageSize + s * PageSize
    BY <1>3, ProductOfSum
  <2> QED
    BY <2>1, <1>1
<1>5. u.n # 0
  OBVIOUS
<1>6. MinOf(imap, u) = (q \div 2) * u.bs
  <2>1. MinOf(imap, u) = ((q * t.bs) \div (2 * t.bs)) * u.bs
    BY <1>1, <1>5 DEF MinOf, FirstMin
  <2> QED
    BY <2>1, <1>1, <1>3, HalvedDown
<1>7. MaxOf(imap, u) = ((r + 1) \div 2) * u.bs
  <2>1. MaxOf(imap, u) = ((r * t.bs + 2 * t.bs - 1) \div (2 * t.bs)) * u.bs
    BY <1>1, <1>5 DEF MaxOf, FirstMax
  <2> QED
    BY <2>1, <1>1, <1>3, HalvedUp
<1> QED
  BY <1>2, <1>4, <1>6, <1>7 DEF TraceLies

LevelLies(v, n, k, h, s, q, r) ==
  /\ Bounds(n, k, s, q, r) /\ SizeAt(h, s)
  /\ v.bs = s * PageSize /\ v.bs \in Nat \ {0}
  /\ v.start = q * v.bs /\ v.num = r - q

LEMMA LevelOfTrace ==
  ASSUME NEW v, NEW t, LevelMade(imap, v, t), NEW n, NEW k, NEW s, NEW q, NEW r, TraceLies(t, n, k, s, q, r)
  PROVE  LevelLies(v, n, k, t.n, s, q, r)
<1>1. /\ Bounds(n, k, s, q, r) /\ SizeAt(t.n, s) /\ t.bs = s * PageSize /\ t.bs \in Nat \ {0}
      /\ MinOf(imap, t) = q * t.bs /\ MaxOf(imap, t) = r * t.bs
  BY DEF TraceLies
<1>2. v.start = MinOf(imap, t) /\ v.bs = t.bs /\ v.num = NumOf(imap, t)
  BY DEF LevelMade
<1>3. q \in Nat /\ r \in Nat
  BY <1>1 DEF Bounds
<1>4. NumOf(imap, t) = (r * t.bs - q * t.bs) \div t.bs
  BY <1>1 DEF NumOf
<1>5. NumOf(imap, t) = r - q
  BY <1>1, <1>3, <1>4, BlocksBetween
<1> QED
  BY <1>1, <1>2, <1>5 DEF LevelLies

LEMMA PagesLie ==
  ASSUME IsMap(imap), NEW f, NEW g, Whole(imap, g, f.numLevels), Placed(imap, f, g[0].pos),
         NEW n, NEW k, TreeSpan(f, n, k)
  PROVE  TraceLies(g[0], n, k, 1, n, k)
<1>1. Chain(imap, g, f.numLevels) /\ g[0] \in Traces
  BY ChainStart, Zenon DEF Whole
<1>2. g[0].n = 0 /\ g[0].bs = PageSize
  BY <1>1, Zenon DEF Chain
<1>3. /\ n \in Nat /\ k \in Nat /\ imap[g[0].pos].start = n * PageSize
      /\ End(imap[LastIn(imap, g[0].pos)]) = k * PageSize
  BY DEF TreeSpan, Placed
<1>4. PageSize \in Nat \ {0} /\ 1 * PageSize = PageSize /\ n * 1 = n /\ k * 1 = k
  BY <1>3, EfiMapsAssumption
<1>5. MinOf(imap, g[0]) = n * PageSize
  <2>1. MinOf(imap, g[0]) = ((n * PageSize) \div PageSize) * PageSize
    BY <1>2, <1>3 DEF MinOf, FirstMin
  <2> QED
    BY <2>1, <1>3, PageNumber
<1>6. MaxOf(imap, g[0]) = k * PageSize
  <2>1. MaxOf(imap, g[0]) = ((k * PageSize + PageSize - 1) \div PageSize) * PageSize
    BY <1>2, <1>3 DEF MaxOf, FirstMax
  <2> QED
    BY <2>1, <1>3, PageNumber
<1>7. Bounds(n, k, 1, n, k)
  BY <1>3, <1>4 DEF Bounds
<1>8. SizeAt(0, 1)
  BY DEF SizeAt
<1> QED
  BY <1>2, <1>4, <1>5, <1>6, <1>7, <1>8 DEF TraceLies

LEMMA NextTraceLies ==
  ASSUME IsMap(imap), NEW g, NEW l, Whole(imap, g, l), NEW j \in Nat, j + 1 < l,
         NEW n, NEW k, NEW s, NEW q, NEW r, TraceLies(g[j], n, k, s, q, r)
  PROVE  TraceLies(g[j + 1], n, k, 2 * s, q \div 2, (r + 1) \div 2)
<1>1. /\ g[j + 1].n = g[j].n + 1
      /\ g[j + 1].bs = 2 * g[j].bs
      /\ g[j + 1].min = MinOf(imap, g[j]) /\ g[j + 1].max = MaxOf(imap, g[j])
  BY WholeRises
<1>2. g[j].n \in Nat
  BY DEF TraceLies, SizeAt
<1> DEFINE t == g[j]
           u == g[j + 1]
<1>3. /\ t.n \in Nat /\ u.n = t.n + 1 /\ u.bs = 2 * t.bs /\ u.min = MinOf(imap, t) /\ u.max = MaxOf(imap, t)
      /\ TraceLies(t, n, k, s, q, r)
  BY <1>1, <1>2
<1> HIDE DEF t, u
<1>4. TraceLies(u, n, k, 2 * s, q \div 2, (r + 1) \div 2)
  BY <1>3, TraceRises
<1> QED
  BY <1>4 DEF u

Lies(t, n, k) == \E s, q, r : TraceLies(t, n, k, s, q, r)

LEMMA TracesLie ==
  ASSUME IsMap(imap), NEW f, NEW g, Whole(imap, g, f.numLevels), Placed(imap, f, g[0].pos),
         f.numLevels \in Nat, NEW n, NEW k, TreeSpan(f, n, k), NEW j \in Nat, j < f.numLevels
  PROVE  Lies(g[j], n, k)
<1> DEFINE S == {i \in Nat : i < f.numLevels /\ ~Lies(g[i], n, k)}
<1>1. SUFFICES ASSUME S # {}
               PROVE  FALSE
  OBVIOUS
<1>2. PICK i \in S : \A m \in S : i <= m
  BY <1>1, LeastNatural
<1>3. i \in Nat /\ i < f.numLevels /\ ~Lies(g[i], n, k)
  BY <1>2
<1>4. i # 0
  <2>1. TraceLies(g[0], n, k, 1, n, k)
    BY PagesLie
  <2> QED
    BY <2>1, <1>3, Zenon DEF Lies
<1>5. PICK d \in Nat : i = d + 1
  <2>1. i - 1 \in Nat /\ i = (i - 1) + 1
    BY <1>3, <1>4
  <2> QED
    BY <2>1
<1>6. d < i /\ d < f.numLevels /\ d + 1 < f.numLevels
  BY <1>3, <1>5
<1>7. Lies(g[d], n, k)
  BY <1>2, <1>3, <1>6
<1>8. PICK s, q, r : TraceLies(g[d], n, k, s, q, r)
  BY <1>7, Zenon DEF Lies
<1>9. TraceLies(g[d + 1], n, k, 2 * s, q \div 2, (r + 1) \div 2)
  BY <1>6, <1>8, NextTraceLies
<1>10. Lies(g[d + 1], n, k)
  BY <1>9, Zenon DEF Lies
<1> QED
  BY <1>3, <1>5, <1>10

(* A level and the one below it. *)
LEMMA LevelsLie ==
  ASSUME IsMap(imap), NEW f \in TreeSet, Complete(imap, f), NEW n, NEW k, TreeSpan(f, n, k),
         NEW l \in 1..f.numLevels
  PROVE  /\ \E s, q, r : LevelLies(f.levels[l], n, k, f.numLevels - l, s, q, r)
         /\ l < f.numLevels =>
              \E s, q, r : /\ LevelLies(f.levels[l + 1], n, k, f.numLevels - (l + 1), s, q, r)
                           /\ LevelLies(f.levels[l], n, k, f.numLevels - l, 2 * s, q \div 2, (r + 1) \div 2)
<1>1. PICK g : /\ Whole(imap, g, f.numLevels) /\ Placed(imap, f, g[0].pos)
               /\ \A j \in 1..f.numLevels : LevelMade(imap, f.levels[j], g[f.numLevels - j])
  BY Zenon DEF Complete
<1>2. f.numLevels \in Nat
  BY DEF TreeSet
<1>3. \A j \in Nat : j < f.numLevels => g[j].n = j
  <2> TAKE j \in Nat
  <2> HAVE j < f.numLevels
  <2>1. j \in 0..(f.numLevels - 1)
    BY <1>2
  <2> QED
    BY <2>1, <1>1, Zenon DEF Whole, Chain
<1> DEFINE h == f.numLevels - l
<1>4. h \in Nat /\ h < f.numLevels /\ l \in 1..f.numLevels
  BY <1>2
<1>5. LevelMade(imap, f.levels[l], g[h]) /\ g[h].n = h
  BY <1>1, <1>3, <1>4
<1>6. ASSUME l < f.numLevels
      PROVE  \E i \in Nat : /\ i + 1 = h /\ i = f.numLevels - (l + 1)
                            /\ LevelMade(imap, f.levels[l + 1], g[i]) /\ g[i].n = i
  <2> DEFINE i == f.numLevels - (l + 1)
  <2>1. i \in Nat /\ i + 1 = h /\ l + 1 \in 1..f.numLevels /\ i < f.numLevels
    BY <1>2, <1>6
  <2>2. LevelMade(imap, f.levels[l + 1], g[i]) /\ g[i].n = i
    BY <2>1, <1>1, <1>3
  <2> QED
    BY <2>1, <2>2
<1>7. h = f.numLevels - l
  OBVIOUS
<1> HIDE DEF h
<1>8. \E s, q, r : LevelLies(f.levels[l], n, k, h, s, q, r)
  <2>1. Lies(g[h], n, k)
    BY <1>1, <1>2, <1>4, TracesLie
  <2>2. PICK s, q, r : TraceLies(g[h], n, k, s, q, r)
    BY <2>1, Zenon DEF Lies
  <2>3. LevelLies(f.levels[l], n, k, g[h].n, s, q, r)
    BY <2>2, <1>5, LevelOfTrace, Zenon
  <2> QED
    BY <2>3, <1>5
<1>9. ASSUME l < f.numLevels
      PROVE  \E s, q, r : /\ LevelLies(f.levels[l + 1], n, k, f.numLevels - (l + 1), s, q, r)
                          /\ LevelLies(f.levels[l], n, k, h, 2 * s, q \div 2, (r + 1) \div 2)
  <2>1. PICK i \in Nat : /\ i + 1 = h /\ i = f.numLevels - (l + 1)
                         /\ LevelMade(imap, f.levels[l + 1], g[i]) /\ g[i].n = i
    BY <1>6, <1>9
  <2>2. i < f.numLevels /\ i + 1 < f.numLevels
    BY <2>1, <1>2, <1>4
  <2>3. Lies(g[i], n, k)
    BY <2>2, <1>1, <1>2, TracesLie
  <2>4. PICK s, q, r : TraceLies(g[i], n, k, s, q, r)
    BY <2>3, Zenon DEF Lies
  <2>5. TraceLies(g[i + 1], n, k, 2 * s, q \div 2, (r + 1) \div 2)
    BY <2>2, <2>4, <1>1, NextTraceLies
  <2>6. LevelLies(f.levels[l + 1], n, k, g[i].n, s, q, r)
    BY <2>1, <2>4, LevelOfTrace, Zenon
  <2>7. TraceLies(g[h], n, k, 2 * s, q \div 2, (r + 1) \div 2)
    BY <2>1, <2>5
  <2>8. LevelLies(f.levels[l], n, k, g[h].n, 2 * s, q \div 2, (r + 1) \div 2)
    BY <2>7, <1>5, LevelOfTrace, Zenon
  <2>9. LevelLies(f.levels[l + 1], n, k, f.numLevels - (l + 1), s, q, r)
    BY <2>1, <2>6
  <2>10. LevelLies(f.levels[l], n, k, h, 2 * s, q \div 2, (r + 1) \div 2)
    BY <2>8, <1>5
  <2> QED
    BY <2>9, <2>10
<1> QED
  BY <1>7, <1>8, <1>9

(* The available ones of the s pages of tree f from number a.              *)
PagesIn(f, a, s) ==
  {p \in a..(a + s - 1) : p \in DOMAIN Bottom(f).blocks /\ Bottom(f).blocks[p] = M!Available}

NumIn(f, a, s) == Cardinality(PagesIn(f, a, s))

LEMMA PagesAreFinite ==
  ASSUME NEW f, NEW a \in Int, NEW s \in Nat
  PROVE  IsFiniteSet(PagesIn(f, a, s)) /\ NumIn(f, a, s) \in Nat
<1>1. a + s - 1 \in Int
  OBVIOUS
<1>2. IsFiniteSet(a..(a + s - 1))
  BY <1>1, FS_Interval
<1>3. PagesIn(f, a, s) \in SUBSET (a..(a + s - 1))
  BY DEF PagesIn
<1>4. IsFiniteSet(PagesIn(f, a, s))
  BY <1>2, <1>3, FS_Subset
<1> QED
  BY <1>4, FS_CardinalityType DEF NumIn

LEMMA PagesOfHalves ==
  ASSUME NEW f, NEW a \in Int, NEW s \in Nat
  PROVE  NumIn(f, a, 2 * s) = NumIn(f, a, s) + NumIn(f, a + s, s)
<1> DEFINE S == PagesIn(f, a, s)
           T == PagesIn(f, a + s, s)
<1>1. a + s \in Int
  OBVIOUS
<1>2. IsFiniteSet(S) /\ IsFiniteSet(T) /\ Cardinality(S) \in Nat /\ Cardinality(T) \in Nat
  BY <1>1, PagesAreFinite DEF NumIn
<1>3. PagesIn(f, a, 2 * s) = S \cup T
  BY DEF PagesIn
<1>4. S \cap T = {}
  BY DEF PagesIn
<1> HIDE DEF S, T
<1>5. Cardinality(S \cup T) = Cardinality(S) + Cardinality(T) - Cardinality(S \cap T)
  BY <1>2, FS_Union
<1>6. Cardinality(S \cap T) = 0
  BY <1>4, FS_EmptySet
<1>7. Cardinality(S \cup T) = Cardinality(S) + Cardinality(T)
  BY <1>2, <1>5, <1>6
<1> QED
  BY <1>3, <1>7 DEF NumIn, S, T

LEMMA NoPagesThere ==
  ASSUME NEW f, NEW n, NEW k, TreeSpan(f, n, k), NEW a \in Int, NEW s \in Nat, a + s <= 0 \/ k - n <= a
  PROVE  NumIn(f, a, s) = 0
<1>1. n \in Nat /\ k \in Nat /\ DOMAIN Bottom(f).blocks = 0..(k - n - 1)
  BY DEF TreeSpan
<1>2. PagesIn(f, a, s) = {}
  BY <1>1 DEF PagesIn
<1> QED
  BY <1>2, FS_EmptySet DEF NumIn

LEMMA NothingTells ==
  ASSUME NEW h, NEW s, SizeAt(h, s)
  PROVE  Tells(h, s, 0, 0)
<1>1. s \in Nat \ {0} /\ h \in Nat
  BY DEF SizeAt
<1>2. ErrorAt(h) \in Nat
  BY <1>1 DEF ErrorAt
<1>3. ErrorAt(h) * s \in Nat /\ 0 * s = 0 /\ 128 * 0 = 0
  BY <1>1, <1>2, ProductIsNatural
<1> QED
  BY <1>1, <1>3 DEF Tells

(* Block b of level v, which starts with block q of its size, summarises   *)
(* its pages.                                                              *)
BlockTells(f, v, h, n, s, q, b) == Tells(h, s, v.blocks[b], NumIn(f, (q + b) * s - n, s))

BlocksTell(f, v, h, n, s, q) == \A b \in 0..(v.num - 1) : BlockTells(f, v, h, n, s, q, b)

(* The value that is taken for block i of the level below, which starts    *)
(* with block o: the c-th of its size.                                     *)
StateOf(w, o, i) == IF i >= o /\ i < o + w.num THEN w.blocks[i - o] ELSE 0

LEMMA StateTells ==
  ASSUME NEW f, NEW n, NEW k, TreeSpan(f, n, k),
         NEW w, NEW h, NEW s, NEW q, NEW r, LevelLies(w, n, k, h, s, q, r), BlocksTell(f, w, h, n, s, q),
         NEW o \in Nat, NEW i \in Nat, NEW c \in Nat, q + i = c + o
  PROVE  Tells(h, s, StateOf(w, o, i), NumIn(f, c * s - n, s))
<1>1. /\ n \in Nat /\ k \in Nat /\ s \in Nat \ {0} /\ q \in Nat /\ r \in Nat
      /\ q * s <= n /\ k <= r * s /\ w.num = r - q /\ SizeAt(h, s)
  BY DEF LevelLies, Bounds
<1>2. CASE i >= o /\ i < o + w.num
  <2>1. i - o \in 0..(w.num - 1) /\ q + (i - o) = c
    BY <1>1, <1>2
  <2>2. Tells(h, s, w.blocks[i - o], NumIn(f, (q + (i - o)) * s - n, s))
    BY <2>1, Zenon DEF BlocksTell, BlockTells
  <2>3. StateOf(w, o, i) = w.blocks[i - o]
    BY <1>2 DEF StateOf
  <2> QED
    BY <2>1, <2>2, <2>3
<1>3. CASE ~(i >= o /\ i < o + w.num)
  <2>1. c * s \in Nat /\ q * s \in Nat /\ r * s \in Nat
    BY <1>1, ProductIsNatural
  <2>2. c * s - n \in Int /\ s \in Nat
    BY <2>1, <1>1
  <2>3. c < q \/ r <= c
    BY <1>1, <1>3
  <2>4. c < q => c * s + s <= q * s
    BY <1>1, ProductIsStrict
  <2>5. r <= c => r * s <= c * s
    BY <1>1, ProductIsMonotone
  <2>6. (c * s - n) + s <= 0 \/ k - n <= c * s - n
    BY <2>1, <2>3, <2>4, <2>5, <1>1
  <2>7. NumIn(f, c * s - n, s) = 0
    BY <2>2, <2>6, NoPagesThere
  <2>8. StateOf(w, o, i) = 0
    BY <1>3 DEF StateOf
  <2>9. Tells(h, s, 0, 0)
    BY <1>1, NothingTells
  <2> QED
    BY <2>7, <2>8, <2>9
<1> QED
  BY <1>2, <1>3

LEMMA OffsetOfLevel ==
  ASSUME NEW v, NEW w, NEW n, NEW k, NEW h, NEW s, NEW q, NEW r, LevelLies(w, n, k, h, s, q, r),
         LevelLies(v, n, k, h + 1, 2 * s, q \div 2, (r + 1) \div 2)
  PROVE  (w.start - v.start) \div w.bs = q - 2 * (q \div 2)
<1>1. /\ q \in Nat /\ s \in Nat \ {0} /\ w.bs = s * PageSize /\ w.bs \in Nat \ {0} /\ w.start = q * w.bs
      /\ v.bs = (2 * s) * PageSize /\ v.start = (q \div 2) * v.bs
  BY DEF LevelLies, Bounds
<1>2. v.bs = 2 * w.bs
  <2>1. PageSize \in Nat /\ 2 * s = s + s /\ s \in Nat
    BY <1>1, EfiMapsAssumption
  <2>2. (s + s) * PageSize = s * PageSize + s * PageSize
    BY <2>1, ProductOfSum
  <2> QED
    BY <2>1, <2>2, <1>1
<1>3. PICK e \in Nat \ {0} : e = w.bs
  BY <1>1
<1> DEFINE o == q - 2 * (q \div 2)
<1>4. o \in Nat /\ q * e - (q \div 2) * (2 * e) = o * e
  <2>1. q - 2 * (q \div 2) \in {0, 1} /\ q * e - (q \div 2) * (2 * e) = (q - 2 * (q \div 2)) * e
    BY <1>1, HalvedDown
  <2> QED
    BY <2>1
<1>5. w.start - v.start = o * e
  <2>1. w.start = q * e /\ v.start = (q \div 2) * (2 * e)
    BY <1>1, <1>2, <1>3
  <2> QED
    BY <2>1, <1>4
<1> HIDE DEF o
<1>6. (o * e + 0) \div e = o /\ o * e \in Nat
  BY <1>4, WholeQuotient, ProductIsNatural
<1>7. (w.start - v.start) \div w.bs = o
  BY <1>3, <1>5, <1>6
<1> QED
  BY <1>7 DEF o

(* A level is filled from the one below it.                                *)
LEMMA LevelTells ==
  ASSUME NEW f, NEW n, NEW k, TreeSpan(f, n, k), NEW v \in LevelSet,
         NEW w, NEW h, NEW s, NEW q, NEW r, LevelLies(w, n, k, h, s, q, r), BlocksTell(f, w, h, n, s, q),
         LevelLies(v, n, k, h + 1, 2 * s, q \div 2, (r + 1) \div 2)
  PROVE  BlocksTell(f, M!FillTreeLevelAccelBlocks(v, w), h + 1, n, 2 * s, q \div 2)
<1> DEFINE d == q \div 2
           o == q - 2 * d
           u == M!FillTreeLevelAccelBlocks(v, w)
<1>1. /\ n \in Nat /\ s \in Nat \ {0} /\ q \in Nat /\ SizeAt(h, s)
  BY DEF LevelLies, Bounds
<1>2. d \in Nat /\ o \in Nat /\ q = 2 * d + o
  BY <1>1
<1>3. (w.start - v.start) \div w.bs = o
  BY OffsetOfLevel
<1> HIDE DEF d, o
<1>4. u = [v EXCEPT !.blocks = [b \in 0..(v.num - 1) |-> M!Summary(StateOf(w, o, 2 * b), StateOf(w, o, 2 * b + 1))]]
  BY <1>3 DEF M!FillTreeLevelAccelBlocks, StateOf
<1> HIDE DEF u
<1>5. /\ u.num = v.num
      /\ \A b \in 0..(v.num - 1) : u.blocks[b] = M!Summary(StateOf(w, o, 2 * b), StateOf(w, o, 2 * b + 1))
  BY <1>4 DEF LevelSet
<1>6. ASSUME NEW b \in 0..(u.num - 1)
      PROVE  BlockTells(f, u, h + 1, n, 2 * s, d, b)
  <2> DEFINE c == 2 * d + 2 * b
             x == StateOf(w, o, 2 * b)
             y == StateOf(w, o, 2 * b + 1)
  <2>1. b \in Nat /\ 2 * b \in Nat /\ 2 * b + 1 \in Nat
    BY <1>5 DEF LevelSet
  <2>2. c \in Nat /\ c + 1 \in Nat /\ q + 2 * b = c + o /\ q + (2 * b + 1) = (c + 1) + o /\ c = (d + b) + (d + b)
        /\ d + b \in Nat
    BY <2>1, <1>2, <1>1
  <2> HIDE DEF c
  <2>3. Tells(h, s, x, NumIn(f, c * s - n, s))
    BY <2>1, <2>2, <1>2, StateTells
  <2>4. Tells(h, s, y, NumIn(f, (c + 1) * s - n, s))
    BY <2>1, <2>2, <1>2, StateTells
  <2>5. u.blocks[b] = M!Summary(x, y)
    BY <1>5
  <2> HIDE DEF x, y
  <2>6. Tells(h + 1, 2 * s, M!Summary(x, y), NumIn(f, c * s - n, s) + NumIn(f, (c + 1) * s - n, s))
    BY <2>3, <2>4, <1>1, SummaryTells
  <2>7. c * s \in Nat /\ (c + 1) * s = c * s + s /\ (d + b) * (2 * s) = c * s
    <3>1. c * s \in Nat /\ (c + 1) * s = c * s + 1 * s /\ 1 * s = s
      BY <2>2, <1>1, ProductOfSum, ProductIsNatural
    <3>2. (d + b) * (2 * s) = 2 * ((d + b) * s) /\ (d + b) * s \in Nat
          /\ ((d + b) + (d + b)) * s = (d + b) * s + (d + b) * s
      BY <2>2, <1>1, TimesDouble, ProductOfSum, ProductIsNatural
    <3> QED
      BY <3>1, <3>2, <2>2
  <2>8. c * s - n \in Int /\ (c + 1) * s - n = (c * s - n) + s /\ s \in Nat
    BY <2>7, <1>1
  <2>9. NumIn(f, c * s - n, 2 * s) = NumIn(f, c * s - n, s) + NumIn(f, (c * s - n) + s, s)
    BY <2>8, PagesOfHalves
  <2>10. Tells(h + 1, 2 * s, u.blocks[b], NumIn(f, (d + b) * (2 * s) - n, 2 * s))
    BY <2>5, <2>6, <2>7, <2>8, <2>9
  <2> QED
    BY <2>10 DEF BlockTells
<1> QED
  BY <1>6, Zenon DEF BlocksTell, u, d

LEMMA LiesOnce ==
  ASSUME NEW v, NEW n, NEW k, NEW h, NEW s, NEW q, NEW r, LevelLies(v, n, k, h, s, q, r),
         NEW t, NEW i, NEW j, LevelLies(v, n, k, h, t, i, j)
  PROVE  t = s /\ i = q /\ j = r
<1>1. /\ s \in Nat \ {0} /\ q \in Nat /\ r \in Nat /\ v.bs = s * PageSize /\ v.start = q * v.bs /\ v.num = r - q
      /\ t \in Nat \ {0} /\ i \in Nat /\ j \in Nat /\ v.bs = t * PageSize /\ v.start = i * v.bs /\ v.num = j - i
      /\ v.bs \in Nat \ {0}
  BY DEF LevelLies, Bounds
<1>2. PageSize \in Nat \ {0}
  BY EfiMapsAssumption
<1>3. t = s
  <2>1. t * PageSize = s * PageSize
    BY <1>1
  <2> QED
    BY <2>1, <1>1, <1>2, ProductCancels
<1>4. i = q
  <2>1. i * v.bs = q * v.bs
    BY <1>1
  <2> QED
    BY <2>1, <1>1, ProductCancels
<1> QED
  BY <1>1, <1>3, <1>4

(* All blocks of a level of tree f summarise their pages.                  *)
Summarised(f, l) ==
  \A n, k, s, q, r :
    TreeSpan(f, n, k) /\ LevelLies(f.levels[l], n, k, f.numLevels - l, s, q, r) =>
      BlocksTell(f, f.levels[l], f.numLevels - l, n, s, q)

LEMMA OnePage ==
  ASSUME NEW f, NEW n, NEW k, TreeSpan(f, n, k), NEW b \in 0..(k - n - 1),
         Bottom(f).blocks[b] \in {M!Available, M!Unavailable}
  PROVE  Tells(0, 1, Bottom(f).blocks[b], NumIn(f, b, 1))
<1>1. n \in Nat /\ k \in Nat /\ DOMAIN Bottom(f).blocks = 0..(k - n - 1)
  BY DEF TreeSpan
<1>2. b \in Int /\ b + 1 - 1 = b /\ b..b = {b}
  BY <1>1
<1>3. PagesIn(f, b, 1) = IF Bottom(f).blocks[b] = M!Available THEN {b} ELSE {}
  BY <1>1, <1>2 DEF PagesIn
<1>4. NumIn(f, b, 1) = IF Bottom(f).blocks[b] = M!Available THEN 1 ELSE 0
  BY <1>3, FS_Singleton, FS_EmptySet DEF NumIn
<1>5. Tells(0, 1, 128, 1) /\ Tells(0, 1, 0, 0)
  BY DEF Tells, ErrorAt
<1> QED
  BY <1>4, <1>5 DEF M!Available, M!Unavailable

LEMMA PagesSummarised ==
  ASSUME NEW f \in TreeSet, NEW U, Shows(f, U)
  PROVE  Summarised(f, f.numLevels)
<1> SUFFICES ASSUME NEW n, NEW k, NEW s, NEW q, NEW r, TreeSpan(f, n, k),
                    LevelLies(f.levels[f.numLevels], n, k, f.numLevels - f.numLevels, s, q, r)
             PROVE  BlocksTell(f, f.levels[f.numLevels], f.numLevels - f.numLevels, n, s, q)
  BY Zenon DEF Summarised
<1>1. f.numLevels - f.numLevels = 0
  BY DEF TreeSet
<1>2. /\ SizeAt(0, s) /\ q \in Nat /\ Bottom(f).bs = s * PageSize /\ Bottom(f).bs \in Nat \ {0}
      /\ Bottom(f).start = q * Bottom(f).bs /\ Bottom(f).num = r - q
  BY <1>1 DEF LevelLies, Bounds, Bottom
<1>3. /\ n \in Nat /\ k \in Nat /\ Bottom(f).start = n * PageSize /\ Bottom(f).bs = PageSize
      /\ Bottom(f).num = k - n
  BY DEF TreeSpan
<1>4. s = 1
  BY <1>2 DEF SizeAt
<1>5. q = n
  <2>1. q * PageSize = n * PageSize /\ PageSize \in Nat \ {0}
    BY <1>2, <1>3
  <2> QED
    BY <2>1, <1>2, <1>3, ProductCancels
<1>6. ASSUME NEW b \in 0..(Bottom(f).num - 1)
      PROVE  BlockTells(f, Bottom(f), 0, n, s, q, b)
  <2>1. b \in 0..(k - n - 1)
    BY <1>3
  <2>2. Bottom(f).blocks[b] \in {M!Available, M!Unavailable}
    BY <2>1, <1>3 DEF Shows
  <2>3. (q + b) * s - n = b
    BY <2>1, <1>3, <1>4, <1>5
  <2>4. Tells(0, 1, Bottom(f).blocks[b], NumIn(f, b, 1))
    BY <2>1, <2>2, OnePage
  <2> QED
    BY <2>3, <2>4, <1>4 DEF BlockTells
<1>7. BlocksTell(f, Bottom(f), 0, n, s, q)
  BY <1>6, Zenon DEF BlocksTell
<1> QED
  BY <1>1, <1>7 DEF Bottom

(* The same pages and the same blocks of the level. *)
LEMMA StillSummarised ==
  ASSUME NEW f, NEW g, NEW l, Summarised(f, l), Bottom(g) = Bottom(f), g.numLevels = f.numLevels,
         \A n, k : TreeSpan(g, n, k) <=> TreeSpan(f, n, k), g.levels[l] = f.levels[l]
  PROVE  Summarised(g, l)
<1> SUFFICES ASSUME NEW n, NEW k, NEW s, NEW q, NEW r, TreeSpan(g, n, k),
                    LevelLies(g.levels[l], n, k, g.numLevels - l, s, q, r)
             PROVE  BlocksTell(g, g.levels[l], g.numLevels - l, n, s, q)
  BY Zenon DEF Summarised
<1>1. TreeSpan(f, n, k) /\ LevelLies(f.levels[l], n, k, f.numLevels - l, s, q, r)
  BY Zenon
<1>2. BlocksTell(f, f.levels[l], f.numLevels - l, n, s, q)
  BY <1>1, Zenon DEF Summarised
<1>3. \A a, c : NumIn(g, a, c) = NumIn(f, a, c)
  BY Zenon DEF NumIn, PagesIn
<1> QED
  BY <1>2, <1>3, Zenon DEF BlocksTell, BlockTells

(* Level l of a tree is now filled, the others stay. *)
FilledNow(f, g, l) ==
  /\ Summarised(g, l)
  /\ \A j \in DOMAIN f.levels : j # l /\ Summarised(f, j) => Summarised(g, j)

LEMMA LevelSummarised ==
  ASSUME IsMap(imap), NEW f \in TreeSet, Complete(imap, f),
         NEW l \in DOMAIN f.levels, l < f.numLevels, Summarised(f, l + 1),
         NEW x \in [0..(f.levels[l].num - 1) -> 0..128],
         M!FillTreeLevelAccelBlocks(f.levels[l], f.levels[l + 1]) = [f.levels[l] EXCEPT !.blocks = x],
         NEW g, g = [f EXCEPT !.levels[l].blocks = x]
  PROVE  FilledNow(f, g, l)
<1>1. /\ SameShape(f, g) /\ \A q \in DOMAIN f.levels : q # l => g.levels[q] = f.levels[q]
  <2> DEFINE e == [f EXCEPT !.levels[l].blocks = x]
  <2>1. SameShape(f, e) /\ \A q \in DOMAIN f.levels : q # l => e.levels[q] = f.levels[q]
    BY BlocksWritten, ZenonT(60)
  <2>2. g = e
    OBVIOUS
  <2> HIDE DEF e
  <2> QED
    BY <2>1, <2>2
<1>2. /\ f.numLevels \in DOMAIN f.levels /\ DOMAIN f.levels = 1..f.numLevels /\ f.numLevels \in Nat
      /\ f.levels \in Seq(LevelSet) /\ f.levels[l] \in LevelSet
  BY CompleteLevels
<1>3. g.numLevels = f.numLevels /\ g.start = f.start /\ g.end = f.end
  BY <1>1 DEF SameShape
<1>4. Bottom(g) = Bottom(f)
  BY <1>1, <1>2, <1>3 DEF Bottom
<1>5. \A n, k : TreeSpan(g, n, k) <=> TreeSpan(f, n, k)
  BY <1>3, <1>4, Zenon DEF TreeSpan
<1> DEFINE u == M!FillTreeLevelAccelBlocks(f.levels[l], f.levels[l + 1])
<1>6. g.levels[l] = u
  <2>1. [f EXCEPT !.levels[l].blocks = x].levels = [f.levels EXCEPT ![l] = [f.levels[l] EXCEPT !.blocks = x]]
    BY DEF TreeSet
  <2>2. [f.levels EXCEPT ![l] = [f.levels[l] EXCEPT !.blocks = x]][l] = [f.levels[l] EXCEPT !.blocks = x]
    BY <1>2
  <2> QED
    BY <2>1, <2>2
<1> HIDE DEF u
<1>7. /\ g.levels[l].start = f.levels[l].start /\ g.levels[l].bs = f.levels[l].bs
      /\ g.levels[l].num = f.levels[l].num
  BY <1>1 DEF SameShape
<1>8. Summarised(g, l)
  <2> SUFFICES ASSUME NEW n, NEW k, NEW s, NEW q, NEW r, TreeSpan(g, n, k),
                      LevelLies(g.levels[l], n, k, g.numLevels - l, s, q, r)
               PROVE  BlocksTell(g, g.levels[l], g.numLevels - l, n, s, q)
    BY Zenon DEF Summarised
  <2>1. TreeSpan(f, n, k)
    BY <1>5
  <2>2. LevelLies(f.levels[l], n, k, f.numLevels - l, s, q, r)
    BY <1>3, <1>7 DEF LevelLies
  <2>3. PICK t, i, j : /\ LevelLies(f.levels[l + 1], n, k, f.numLevels - (l + 1), t, i, j)
                       /\ LevelLies(f.levels[l], n, k, f.numLevels - l, 2 * t, i \div 2, (j + 1) \div 2)
    <3>1. l \in 1..f.numLevels
      BY <1>2
    <3> QED
      BY <3>1, <2>1, LevelsLie
  <2>4. s = 2 * t /\ q = i \div 2
    BY <2>2, <2>3, LiesOnce
  <2>5. BlocksTell(f, f.levels[l + 1], f.numLevels - (l + 1), n, t, i)
    BY <2>1, <2>3, Zenon DEF Summarised
  <2>6. (f.numLevels - (l + 1)) + 1 = f.numLevels - l
    BY <1>2
  <2>7. LevelLies(f.levels[l], n, k, (f.numLevels - (l + 1)) + 1, 2 * t, i \div 2, (j + 1) \div 2)
    BY <2>3, <2>6
  <2>8. BlocksTell(f, u, (f.numLevels - (l + 1)) + 1, n, 2 * t, i \div 2)
    BY <2>1, <2>3, <2>5, <2>7, <1>2, LevelTells DEF u
  <2>9. BlocksTell(f, g.levels[l], g.numLevels - l, n, s, q)
    BY <2>4, <2>6, <2>8, <1>3, <1>6
  <2>10. \A a, c : NumIn(g, a, c) = NumIn(f, a, c)
    BY <1>4, Zenon DEF NumIn, PagesIn
  <2> QED
    BY <2>9, <2>10, Zenon DEF BlocksTell, BlockTells
<1>9. ASSUME NEW j \in DOMAIN f.levels, j # l, Summarised(f, j)
      PROVE  Summarised(g, j)
  <2>1. g.levels[j] = f.levels[j]
    BY <1>1, <1>9
  <2> QED
    BY <2>1, <1>3, <1>4, <1>5, <1>9, StillSummarised
<1> QED
  BY <1>8, <1>9 DEF FilledNow

LEMMA ErrorInBytes ==
  ASSUME NEW c \in Nat, NEW v \in Nat, NEW s \in Nat, NEW d \in Nat, NEW a \in Nat \ {0},
         128 * c - v * s <= d * s, v * s - 128 * c <= d * s
  PROVE  /\ 128 * c * a - v * (s * a) <= d * (s * a)
         /\ v * (s * a) - 128 * c * a <= d * (s * a)
         /\ 128 * c * a \in Nat /\ v * (s * a) \in Nat /\ d * (s * a) \in Nat
<1>1. v * s \in Nat /\ d * s \in Nat /\ s * a \in Nat /\ 128 * c \in Nat
  BY ProductIsNatural
<1>2. /\ (v * s) * a \in Nat /\ (d * s) * a \in Nat /\ 128 * c * a \in Nat
      /\ v * (s * a) \in Nat /\ d * (s * a) \in Nat
  BY <1>1, ProductIsNatural
<1>3. v * (s * a) = (v * s) * a /\ d * (s * a) = (d * s) * a
  OBVIOUS
<1>4. 128 * c <= d * s + v * s /\ v * s <= d * s + 128 * c
  BY <1>1
<1>5. d * s + v * s \in Nat /\ d * s + 128 * c \in Nat
  BY <1>1
<1>6. (128 * c) * a <= (d * s + v * s) * a /\ (v * s) * a <= (d * s + 128 * c) * a
  BY <1>1, <1>4, <1>5, ProductIsMonotone
<1>7. /\ (d * s + v * s) * a = (d * s) * a + (v * s) * a
      /\ (d * s + 128 * c) * a = (d * s) * a + (128 * c) * a
  BY <1>1, ProductOfSum
<1> QED
  BY <1>2, <1>3, <1>6, <1>7

LEMMA PagesOfBlock ==
  ASSUME NEW e, NEW n, NEW k, TreeSpan(tree[e], n, k),
         NEW v, NEW h, NEW s, NEW q, NEW r, LevelLies(v, n, k, h, s, q, r), NEW b \in Nat
  PROVE  M!PagesBelow(e, v, b) = PagesIn(tree[e], (q + b) * s - n, s)
<1>1. /\ q \in Nat /\ s \in Nat \ {0} /\ n \in Nat /\ v.bs = s * PageSize /\ v.start = q * v.bs
      /\ M!LastLevel(e) = Bottom(tree[e]) /\ M!LastLevel(e).start = n * PageSize
      /\ PageSize \in Nat \ {0}
  BY EfiMapsAssumption DEF LevelLies, Bounds, TreeSpan, M!LastLevel, Bottom
<1> DEFINE c == q + b
           x == c * s
<1>2. c \in Nat /\ c = q + b /\ x \in Nat
  BY <1>1, ProductIsNatural
<1>3. v.start + b * v.bs = x * PageSize
  <2>1. s * PageSize \in Nat
    BY <1>1, ProductIsNatural
  <2>2. (q + b) * (s * PageSize) = q * (s * PageSize) + b * (s * PageSize)
    BY <1>1, <2>1, ProductOfSum
  <2>3. c * (s * PageSize) = (c * s) * PageSize
    BY <1>1, <1>2
  <2> QED
    BY <1>1, <1>2, <2>2, <2>3
<1> HIDE DEF c, x
<1>4. (x * PageSize - n * PageSize) \div PageSize = x - n
  BY <1>1, <1>2, BlocksBetween
<1>5. v.bs \div PageSize = s
  <2>1. (s * PageSize + 0) \div PageSize = s /\ s * PageSize \in Nat
    BY <1>1, WholeQuotient, ProductIsNatural
  <2> QED
    BY <2>1, <1>1
<1>6. (v.start + b * v.bs - M!LastLevel(e).start) \div PageSize = x - n
  <2> DEFINE y == v.start + b * v.bs - M!LastLevel(e).start
             z == b * v.bs
  <2>1. v.start \in Nat /\ z \in Nat /\ x * PageSize \in Nat /\ n * PageSize \in Nat
    <3>1. s * PageSize \in Nat
      BY <1>1, ProductIsNatural
    <3> QED
      BY <3>1, <1>1, <1>2, ProductIsNatural
  <2>2. v.start + z = x * PageSize
    BY <1>3
  <2> HIDE DEF z
  <2>3. v.start + (z - M!LastLevel(e).start) = x * PageSize - n * PageSize
    BY <2>1, <2>2, <1>1
  <2>4. y = x * PageSize - n * PageSize
    BY <2>3 DEF z
  <2> QED
    BY <2>4, <1>4
<1>7. M!PagesBelow(e, v, b) = PagesIn(tree[e], x - n, s)
  BY <1>1, <1>5, <1>6 DEF M!PagesBelow, PagesIn
<1> QED
  BY <1>7 DEF x, c

LEMMA SameCardinality == \A S : M!Cardinality(S) = Cardinality(S)
  BY Zenon DEF M!Cardinality, Cardinality

(* What BlocksSummarisePages says of one block. *)
IsSummary(e, l, b) ==
  LET level == tree[e].levels[l]
      pages == M!PagesBelow(e, level, b)
      above == tree[e].numLevels - l
      error == M!Available * M!Cardinality(pages) * PageSize - level.blocks[b] * level.bs
      bound == (IF above <= 7 THEN 0 ELSE above - 7) * level.bs
  IN  /\ level.blocks[b] \in 0..M!Available
      /\ level.blocks[b] = 0 <=> pages = {}
      /\ level.blocks[b] = M!Available <=> M!Cardinality(pages) * PageSize = level.bs
      /\ error \in (-bound)..bound

LEMMA TellsSummary ==
  ASSUME NEW e, NEW n, NEW k, TreeSpan(tree[e], n, k), NEW l,
         NEW s, NEW q, NEW r, LevelLies(tree[e].levels[l], n, k, tree[e].numLevels - l, s, q, r),
         NEW b \in Nat, BlockTells(tree[e], tree[e].levels[l], tree[e].numLevels - l, n, s, q, b)
  PROVE  IsSummary(e, l, b)
<1> DEFINE v == tree[e].levels[l]
           h == tree[e].numLevels - l
           a == (q + b) * s - n
           S == PagesIn(tree[e], a, s)
           c == Cardinality(S)
           x == v.blocks[b]
<1>1. /\ q \in Nat /\ s \in Nat \ {0} /\ n \in Nat /\ v.bs = s * PageSize /\ PageSize \in Nat \ {0} /\ h \in Nat
  BY EfiMapsAssumption DEF LevelLies, Bounds, SizeAt
<1>2. a \in Int
  BY <1>1
<1>3. M!PagesBelow(e, v, b) = S
  BY PagesOfBlock
<1>4. Tells(h, s, x, c)
  BY DEF BlockTells, NumIn
<1> HIDE DEF a
<1>5. IsFiniteSet(S) /\ c \in Nat /\ (c = 0 <=> S = {})
  BY <1>1, <1>2, PagesAreFinite, FS_EmptySet DEF NumIn
<1> HIDE DEF S, c, x
<1> DEFINE d == ErrorAt(h)
<1>6. d \in Nat
  BY <1>1 DEF ErrorAt
<1>7. /\ x \in 0..128 /\ x \in Nat /\ (x = 0 <=> c = 0) /\ (x = 128 <=> c = s)
      /\ 128 * c - x * s <= d * s /\ x * s - 128 * c <= d * s
  BY <1>4 DEF Tells
<1>8. d = IF h <= 7 THEN 0 ELSE h - 7
  BY DEF ErrorAt
<1> HIDE DEF d
<1>9. /\ 128 * c * PageSize - x * v.bs <= d * v.bs
      /\ x * v.bs - 128 * c * PageSize <= d * v.bs
      /\ 128 * c * PageSize \in Nat /\ x * v.bs \in Nat /\ d * v.bs \in Nat
  <2>1. /\ 128 * c * PageSize - x * (s * PageSize) <= d * (s * PageSize)
        /\ x * (s * PageSize) - 128 * c * PageSize <= d * (s * PageSize)
        /\ 128 * c * PageSize \in Nat /\ x * (s * PageSize) \in Nat /\ d * (s * PageSize) \in Nat
    BY <1>1, <1>5, <1>6, <1>7, ErrorInBytes
  <2> QED
    BY <2>1, <1>1
<1>10. 128 * c * PageSize - x * v.bs \in (-(d * v.bs))..(d * v.bs)
  BY <1>9
<1>11. c = s <=> c * PageSize = v.bs
  <2>1. c * PageSize = s * PageSize => c = s
    BY <1>1, <1>5, ProductCancels
  <2> QED
    BY <2>1, <1>1
<1>12. x = v.blocks[b] /\ c = M!Cardinality(S)
  BY SameCardinality DEF x, c
<1>13. /\ x \in 0..128
       /\ x = 0 <=> S = {}
       /\ x = 128 <=> c * PageSize = v.bs
  BY <1>5, <1>7, <1>11
<1> QED
  BY <1>3, <1>8, <1>10, <1>12, <1>13, Zenon DEF IsSummary, M!Available

(* The levels that are said to be filled summarise the pages; pc is        *)
(* "accel" while they are filled.                                          *)
FilledIn(e) == \A l \in M!FilledLevels(e) : Summarised(tree[e], l)

SummaryInv ==
  pc \in {"accel", "map", "done"} /\ buffer.address # 0 =>
    /\ \A e \in DOMAIN tree : FilledIn(e)
    /\ pc = "accel" /\ loop.pos \in DOMAIN tree => loop.n < tree[loop.pos].numLevels

LEMMA SummariesHold ==
  ASSUME IsMap(imap), OnPages, StructTypes, CountInv, SummaryInv
  PROVE  BlocksSummarisePages
<1> SUFFICES ASSUME NEW e \in M!Listed, NEW l \in M!FilledLevels(e), NEW b \in DOMAIN tree[e].levels[l].blocks
             PROVE  IsSummary(e, l, b)
  BY DEF BlocksSummarisePages, M!BlocksSummarisePages, IsSummary
<1>1. buffer.address # 0 /\ e \in DOMAIN tree
  BY DEF M!Listed
<1>2. pc \in {"accel", "map", "done"}
  BY DEF M!FilledLevels
<1>3. Made
  BY <1>2 DEF CountInv, Later
<1>4. tree[e] \in TreeSet /\ Complete(imap, tree[e]) /\ DOMAIN tree = 1..Len(tree) /\ Len(tree) \in Nat
  BY <1>1, <1>3, MadeContext
<1>5. /\ tree[e].numLevels \in Nat /\ DOMAIN tree[e].levels = 1..tree[e].numLevels
      /\ \A j \in DOMAIN tree[e].levels : DOMAIN tree[e].levels[j].blocks = 0..(tree[e].levels[j].num - 1)
  BY <1>4, CompleteLevels
<1>6. Summarised(tree[e], l)
  BY <1>1, <1>2, Zenon DEF SummaryInv, FilledIn
<1>7. l \in 1..tree[e].numLevels
  <2>1. CASE e = loop.pos /\ pc = "accel"
    <3>1. loop.n < tree[e].numLevels /\ loop.n \in Nat
      BY <2>1, <1>1 DEF SummaryInv, StructTypes, Loops
    <3>2. l \in (tree[e].numLevels - loop.n)..tree[e].numLevels
      <4>1. ~(e < loop.pos)
        BY <2>1, <1>1, <1>4
      <4> QED
        BY <2>1, <4>1 DEF M!FilledLevels
    <3> QED
      BY <3>1, <3>2, <1>5
  <2>2. CASE ~(e = loop.pos /\ pc = "accel")
    BY <2>2 DEF M!FilledLevels
  <2> QED
    BY <2>1, <2>2
<1>8. PICK n \in Nat, k \in Nat : TreeSpan(tree[e], n, k)
  BY <1>4, TreeOnPages
<1>9. PICK s, q, r : LevelLies(tree[e].levels[l], n, k, tree[e].numLevels - l, s, q, r)
  BY <1>4, <1>7, <1>8, LevelsLie
<1>10. BlocksTell(tree[e], tree[e].levels[l], tree[e].numLevels - l, n, s, q)
  BY <1>6, <1>8, <1>9, Zenon DEF Summarised
<1>11. b \in 0..(tree[e].levels[l].num - 1) /\ b \in Nat
  <2>1. DOMAIN tree[e].levels[l].blocks = 0..(tree[e].levels[l].num - 1)
    BY <1>5, <1>7
  <2> QED
    BY <2>1
<1>12. BlockTells(tree[e], tree[e].levels[l], tree[e].numLevels - l, n, s, q, b)
  BY <1>10, <1>11, Zenon DEF BlocksTell
<1> QED
  BY <1>8, <1>9, <1>11, <1>12, TellsSummary

LEMMA StructsSummarised ==
  ASSUME Made', MarksInv', buffer'.address # 0, M!MarkStructs
  PROVE  /\ \A e \in DOMAIN tree' : FilledIn(e)'
         /\ loop'.pos \in DOMAIN tree' => loop'.n < tree'[loop'.pos].numLevels
<1>1. pc' = "accel" /\ loop'.pos = 1 /\ loop'.n = 0
  BY DEF M!MarkStructs, M!LoopAt
<1>2. /\ DOMAIN tree' = 1..Len(tree') /\ Len(tree') \in Nat
      /\ \A e \in DOMAIN tree' : tree'[e] \in TreeSet /\ Complete(imap', tree'[e])
  BY DEF Made, TreeTypes
<1>3. \A e \in DOMAIN tree' : Shows(tree'[e], InUse')
  BY <1>1 DEF MarksInv
<1>4. ASSUME NEW e \in DOMAIN tree', NEW l \in M!FilledLevels(e)'
      PROVE  Summarised(tree'[e], l)
  <2>1. e \in Nat /\ e >= 1 /\ tree'[e].numLevels \in Nat
    BY <1>2 DEF TreeSet
  <2>2. l = tree'[e].numLevels
    BY <1>1, <2>1 DEF M!FilledLevels
  <2> QED
    BY <2>2, <1>2, <1>3, PagesSummarised
<1>5. \A e \in DOMAIN tree' : tree'[e].numLevels >= 1 /\ tree'[e].numLevels \in Nat
  BY <1>2, CompleteLevels
<1> QED
  BY <1>1, <1>4, <1>5 DEF FilledIn

LEMMA EntrySummarised ==
  ASSUME MapFacts, OnPages, StructTypes, Made, Made', MarksInv', SummaryInv, buffer.address # 0,
         buffer' = buffer, imap' = imap, M!FillAccelBlocks
  PROVE  /\ \A e \in DOMAIN tree' : FilledIn(e)'
         /\ loop'.pos \in DOMAIN tree' => loop'.n < tree'[loop'.pos].numLevels
<1> DEFINE p == loop.pos
           l == tree[p].numLevels - loop.n - 1
<1>1. pc = "accel" /\ pc' = "accel" /\ p \in DOMAIN tree /\ IsMap(imap)
  BY DEF M!FillAccelBlocks, M!Listed, MapFacts, IsMap
<1>2. /\ tree \in Seq(TreeSet) /\ DOMAIN tree = 1..Len(tree) /\ Len(tree) \in Nat
      /\ \A e \in DOMAIN tree : tree[e] \in TreeSet /\ Complete(imap, tree[e])
  BY MadeContext
<1>3. loop.n \in Nat /\ p \in Nat /\ loop.n < tree[p].numLevels
  BY <1>1 DEF SummaryInv, StructTypes, Loops
<1>4. /\ tree[p].numLevels \in Nat /\ DOMAIN tree[p].levels = 1..tree[p].numLevels
      /\ \A q \in DOMAIN tree[p].levels : tree[p].levels[q] \in LevelSet /\ Filled128(tree[p].levels[q])
  BY <1>1, <1>2, CompleteLevels
<1>5. \A e \in DOMAIN tree : FilledIn(e)
  BY <1>1 DEF SummaryInv
<1>6. CASE l >= 1
  <2>1. l \in DOMAIN tree[p].levels /\ l + 1 \in DOMAIN tree[p].levels /\ l < tree[p].numLevels
    BY <1>3, <1>4, <1>6
  <2>2. /\ tree' = [tree EXCEPT ![p].levels[l] = M!FillTreeLevelAccelBlocks(@, tree[p].levels[l + 1])]
        /\ loop'.pos = p /\ loop'.n = loop.n + 1
    BY <1>6 DEF M!FillAccelBlocks, StructTypes, Loops
  <2>3. /\ l + 1 = tree[p].numLevels - loop.n
        /\ loop'.n < tree[p].numLevels
    BY <1>3, <1>4, <1>6, <2>2
  <2>4. \A i \in (tree[p].numLevels - loop'.n)..tree[p].numLevels :
          i = l \/ (i # l /\ i \in DOMAIN tree[p].levels /\ i \in (tree[p].numLevels - loop.n)..tree[p].numLevels)
    BY <1>3, <1>4, <1>6, <2>2
  <2> HIDE DEF l
  <2>5. PICK x \in [0..(tree[p].levels[l].num - 1) -> 0..128] :
          M!FillTreeLevelAccelBlocks(tree[p].levels[l], tree[p].levels[l + 1]) = [tree[p].levels[l] EXCEPT !.blocks = x]
    BY <1>4, <2>1, AccelBlocks
  <2> DEFINE f == tree[p]
             g == [f EXCEPT !.levels[l].blocks = x]
  <2>6. \A i \in (tree[p].numLevels - loop.n)..tree[p].numLevels : Summarised(f, i)
    <3>1. M!FilledLevels(p) = (tree[p].numLevels - loop.n)..tree[p].numLevels
      BY <1>1, <1>3 DEF M!FilledLevels
    <3> QED
      BY <3>1, <1>1, <1>5 DEF FilledIn
  <2>7. tree' = [tree EXCEPT ![p] = g]
    BY <1>1, <1>2, <2>1, <2>2, <2>5 DEF TreeSet
  <2>8. Summarised(f, l + 1)
    <3>1. l + 1 \in (tree[p].numLevels - loop.n)..tree[p].numLevels
      BY <2>3, <1>3, <1>4
    <3> QED
      BY <3>1, <2>6
  <2>9. FilledNow(f, g, l)
    <3>1. f \in TreeSet /\ Complete(imap, f) /\ l \in DOMAIN f.levels /\ l < f.numLevels
          /\ x \in [0..(f.levels[l].num - 1) -> 0..128]
          /\ M!FillTreeLevelAccelBlocks(f.levels[l], f.levels[l + 1]) = [f.levels[l] EXCEPT !.blocks = x]
      BY <1>1, <1>2, <2>1, <2>5
    <3> HIDE DEF f
    <3>2. g = [f EXCEPT !.levels[l].blocks = x]
      OBVIOUS
    <3> HIDE DEF g
    <3> QED
      BY <3>1, <3>2, <2>8, <1>1, LevelSummarised
  <2>10. g.numLevels = tree[p].numLevels
    BY <1>1, <1>2 DEF TreeSet
  <2>11. f = tree[p]
    OBVIOUS
  <2> HIDE DEF f, g
  <2>12. DOMAIN tree' = DOMAIN tree /\ tree'[p] = g /\ \A e \in DOMAIN tree : e # p => tree'[e] = tree[e]
    BY <1>1, <1>2, <2>7
  <2>13. ASSUME NEW e \in DOMAIN tree', NEW i \in M!FilledLevels(e)'
         PROVE  Summarised(tree'[e], i)
    <3>1. e \in Nat /\ e \in DOMAIN tree
      BY <2>12, <1>2
    <3>2. CASE e = p
      <4>1. i \in (tree[p].numLevels - loop'.n)..tree[p].numLevels
        BY <3>2, <3>1, <1>1, <2>2, <2>10, <2>12 DEF M!FilledLevels
      <4>2. CASE i = l
        BY <4>2, <3>2, <2>9, <2>12 DEF FilledNow
      <4>3. CASE i # l
        <5>1. i \in DOMAIN f.levels /\ Summarised(f, i)
          BY <4>1, <4>3, <2>4, <2>6, <2>11
        <5> QED
          BY <5>1, <4>3, <3>2, <2>9, <2>12 DEF FilledNow
      <4> QED
        BY <4>2, <4>3
    <3>3. CASE e # p
      <4>1. tree'[e] = tree[e]
        BY <3>1, <3>3, <2>12
      <4>2. i \in M!FilledLevels(e)
        BY <4>1, <3>3, <1>1, <2>2 DEF M!FilledLevels
      <4> QED
        BY <4>1, <4>2, <3>1, <1>5 DEF FilledIn
    <3> QED
      BY <3>2, <3>3
  <2>14. tree'[loop'.pos].numLevels = tree[p].numLevels
    BY <2>2, <2>10, <2>12
  <2> QED
    BY <2>3, <2>13, <2>14 DEF FilledIn
<1>7. CASE ~(l >= 1)
  <2>1. tree' = tree /\ loop'.pos = p + 1 /\ loop'.n = 0
    BY <1>7 DEF M!FillAccelBlocks, M!LoopAt
  <2>2. tree[p].numLevels - loop.n <= 1
    BY <1>3, <1>4, <1>7
  <2>3. \A e \in DOMAIN tree : Shows(tree[e], InUse')
    BY <1>1, <2>1 DEF MarksInv
  <2>4. ASSUME NEW e \in DOMAIN tree', NEW i \in M!FilledLevels(e)'
        PROVE  Summarised(tree'[e], i)
    <3>1. e \in Nat /\ e \in DOMAIN tree /\ tree[e].numLevels \in Nat
      BY <2>1, <1>2 DEF TreeSet
    <3>2. CASE e = p
      <4>1. i \in 1..tree[p].numLevels
        BY <3>1, <3>2, <1>1, <2>1 DEF M!FilledLevels
      <4>2. i \in (tree[p].numLevels - loop.n)..tree[p].numLevels
        BY <4>1, <2>2, <1>3, <1>4
      <4>3. i \in M!FilledLevels(p)
        BY <4>2, <1>1, <1>3 DEF M!FilledLevels
      <4> QED
        BY <4>3, <3>2, <1>1, <1>5, <2>1 DEF FilledIn
    <3>3. CASE e = p + 1
      <4>1. i = tree[e].numLevels
        BY <3>1, <3>3, <1>1, <2>1 DEF M!FilledLevels
      <4> QED
        BY <4>1, <3>1, <1>2, <2>1, <2>3, PagesSummarised
    <3>4. CASE e # p /\ e # p + 1
      <4>1. i \in M!FilledLevels(e)
        BY <3>1, <3>4, <1>1, <1>3, <2>1 DEF M!FilledLevels
      <4> QED
        BY <4>1, <3>1, <1>5, <2>1 DEF FilledIn
    <3> QED
      BY <3>2, <3>3, <3>4
  <2>5. \A e \in DOMAIN tree : tree[e].numLevels >= 1 /\ tree[e].numLevels \in Nat
    BY <1>2, CompleteLevels
  <2> QED
    BY <2>1, <2>4, <2>5 DEF FilledIn
<1> QED
  BY <1>6, <1>7

LEMMA AllSummarised ==
  ASSUME StructTypes, Made, SummaryInv, buffer.address # 0, M!EndAccelBlocks
  PROVE  \A e \in DOMAIN tree' : FilledIn(e)'
<1>1. /\ pc = "accel" /\ pc' = "map" /\ tree' = tree /\ loop.pos \notin DOMAIN tree
  BY DEF M!EndAccelBlocks, M!Listed
<1>2. DOMAIN tree = 1..Len(tree) /\ Len(tree) \in Nat /\ loop.pos \in Nat \ {0}
  BY MadeContext DEF StructTypes, Loops
<1>3. ASSUME NEW e \in DOMAIN tree
      PROVE  M!FilledLevels(e)' = M!FilledLevels(e)
  <2>1. e < loop.pos
    BY <1>1, <1>2
  <2> QED
    BY <2>1, <1>1 DEF M!FilledLevels
<1> QED
  BY <1>1, <1>3 DEF SummaryInv, FilledIn

LEMMA SummaryStep ==
  ASSUME MapFacts, OnPages, StructTypes, CountInv, CountInv', MarksInv', SummaryInv, M!Next
  PROVE  SummaryInv'
<1>1. CASE M!MarkStructs
  <2>1. Made'
    BY <1>1 DEF CountInv, Later, M!MarkStructs
  <2> QED
    BY <2>1, <1>1, StructsSummarised DEF SummaryInv
<1>2. CASE M!FillAccelBlocks
  <2>1. Made /\ Made' /\ buffer' = buffer
    BY <1>2 DEF CountInv, Later, M!FillAccelBlocks
  <2>2. imap' = imap
    BY StructsKeepMap
  <2> QED
    BY <2>1, <2>2, <1>2, EntrySummarised DEF SummaryInv
<1>3. CASE M!EndAccelBlocks
  <2>1. Made /\ buffer' = buffer /\ pc' = "map"
    BY <1>3 DEF CountInv, Later, M!EndAccelBlocks
  <2> QED
    BY <2>1, <1>3, AllSummarised DEF SummaryInv
<1>4. CASE M!FillMemMapEntry \/ M!FinishMemMap
  <2>1. pc = "map" /\ pc' \in {"map", "done", "failed"} /\ tree' = tree /\ buffer' = buffer
    BY <1>4 DEF M!FillMemMapEntry, M!FinishMemMap
  <2>2. pc' # "failed" => \A e : M!FilledLevels(e)' = M!FilledLevels(e)
    BY <2>1 DEF M!FilledLevels
  <2> QED
    BY <2>1, <2>2 DEF SummaryInv, FilledIn
<1>5. CASE \/ M!SkipRange \/ M!CalcTreeEntryElements \/ M!CountMemoryRanges \/ M!EndPass
           \/ M!PlaceStructs \/ M!NoRoomForStructs \/ M!CreateEntry \/ M!CreateTreeLevels
           \/ M!FillTreeLevelStructs \/ M!CreateTreeLevelBlocks
           \/ M!SetAllTreePagesAvailable \/ M!MarkMapEntry
  <2>1. pc' \notin {"accel", "map", "done"}
    BY <1>5 DEF M!SkipRange, M!CalcTreeEntryElements, M!CountMemoryRanges, M!EndPass,
       M!PlaceStructs, M!NoRoomForStructs, M!CreateEntry, M!CreateTreeLevels,
       M!FillTreeLevelStructs, M!CreateTreeLevelBlocks, M!SetAllTreePagesAvailable, M!MarkMapEntry
  <2> QED
    BY <2>1 DEF SummaryInv
<1> QED
  BY <1>1, <1>2, <1>3, <1>4, <1>5, Zenon DEF M!Next

-----------------------------------------------------------------------------
LEMMA OfferInvInStructs ==
  ASSUME OfferInv, OfferInv', gen.pass = "done", M!Next
  PROVE  MapFacts /\ OnPages /\ StructTypes /\ CountInv /\ CountInv' /\ MarksInv'
  BY MapFactsHold DEF OfferInv, BootInv, PlaceInv

FillInv == OfferInv /\ SummaryInv

LEMMA FillInvInit ==
  ASSUME BootInit
  PROVE  FillInv
<1>1. pc = "treeSize"
  BY DEF BootInit, M!Init
<1> QED
  BY <1>1, OfferInvInit DEF FillInv, SummaryInv

LEMMA FillInvStep ==
  ASSUME FillInv, [BootNext]_<<vars, structs>>
  PROVE  FillInv'
<1>1. OfferInv /\ OfferInv'
  BY OfferInvStep DEF FillInv
<1>2. CASE MakeInitialMap
  <2>1. pc' = pc /\ loop' = loop /\ buffer' = buffer /\ tree' = tree
    BY <1>2 DEF MakeInitialMap, structs
  <2>2. \A e : M!FilledLevels(e)' = M!FilledLevels(e)
    BY <2>1 DEF M!FilledLevels
  <2>3. SummaryInv'
    BY <2>1, <2>2 DEF FillInv, SummaryInv, FilledIn
  <2> QED
    BY <1>1, <2>3 DEF FillInv
<1>3. CASE MakeStructs
  <2>1. SummaryInv'
    BY <1>1, <1>3, OfferInvInStructs, SummaryStep DEF FillInv, MakeStructs
  <2> QED
    BY <1>1, <2>1 DEF FillInv
<1>4. CASE UNCHANGED <<vars, structs>>
  <2>1. pc' = pc /\ loop' = loop /\ buffer' = buffer /\ tree' = tree
    BY <1>4 DEF structs
  <2>2. \A e : M!FilledLevels(e)' = M!FilledLevels(e)
    BY <2>1 DEF M!FilledLevels
  <2>3. SummaryInv'
    BY <2>1, <2>2 DEF FillInv, SummaryInv, FilledIn
  <2> QED
    BY <1>1, <2>3 DEF FillInv
<1> QED
  BY <1>2, <1>3, <1>4 DEF BootNext

LEMMA FillInvHolds ==
  ASSUME FillInv
  PROVE  BlocksSummarisePages
<1>1. IsMap(imap)
  BY MapFactsHold DEF FillInv, OfferInv, BootInv, PlaceInv, MapFacts, IsMap
<1>2. OnPages /\ StructTypes /\ CountInv /\ SummaryInv
  BY DEF FillInv, OfferInv, BootInv, PlaceInv
<1> QED
  BY <1>1, <1>2, SummariesHold

(* FillTreeAccelBlocks (PhysicalMemTreeGen.c) works up every tree, of any  *)
(* size: a block it has filled is 0 exactly if none of the pages below it  *)
(* is available, and 128 exactly if all of them are.  A block of up to 128 *)
(* pages holds their exact share, and each level above adds an error of at *)
(* most one 128th.                                                         *)
THEOREM SummariesAreSound == BootSpec => []BlocksSummarisePages
<1>1. BootInit => FillInv
  BY FillInvInit
<1>2. FillInv /\ [BootNext]_<<vars, structs>> => FillInv'
  BY FillInvStep
<1>3. FillInv => BlocksSummarisePages
  BY FillInvHolds DEF FillInv
<1> QED
  BY <1>1, <1>2, <1>3, PTL DEF BootSpec
=============================================================================

-------------------- MODULE InitialPageMapSetup_proofs --------------------
(***************************************************************************)
(* The initial page map for every page size and fanout, every memory map   *)
(* the firmware may report and every place of the framebuffer.             *)
(***************************************************************************)
EXTENDS InitialPageMapSetup, TLAPS, FiniteSetTheorems

-----------------------------------------------------------------------------
(* Arithmetic of addresses and table indices. *)

LEMMA DivisionBounds ==
  ASSUME NEW y \in Nat, NEW a \in Nat \ {0}
  PROVE  /\ y \div a \in Nat
         /\ a * (y \div a) <= y
         /\ y < a * (y \div a) + a
  OBVIOUS

LEMMA ProductGrows ==
  ASSUME NEW a \in Nat \ {0}, NEW p \in Nat, NEW q \in Nat, p + 1 <= q
  PROVE  a * p + a <= a * q
<1>1. PICK d \in Nat : q = p + 1 + d
  <2>1. q - (p + 1) \in Nat /\ q = p + 1 + (q - (p + 1))
    OBVIOUS
  <2> QED
    BY <2>1
<1>2. a * q = a * p + a + a * d
  BY <1>1
<1>3. a * d \in Nat /\ a * p \in Nat
  OBVIOUS
<1> QED
  BY <1>2, <1>3

LEMMA ProductIsNatural ==
  ASSUME NEW a \in Nat, NEW b \in Nat
  PROVE  a * b \in Nat /\ a * b = b * a
  OBVIOUS

(* A quotient is at least every factor that fits. *)
LEMMA FactorFits ==
  ASSUME NEW y \in Nat, NEW a \in Nat \ {0}, NEW q \in Nat, a * q <= y
  PROVE  q <= y \div a
<1> DEFINE p == y \div a
<1>1. p \in Nat /\ y < a * p + a
  BY DivisionBounds
<1>2. a * p \in Nat /\ a * q \in Nat
  BY <1>1, ProductIsNatural
<1>3. SUFFICES ASSUME ~(q <= p)
               PROVE  FALSE
  OBVIOUS
<1> HIDE DEF p
<1>4. p + 1 <= q
  BY <1>1, <1>3
<1>5. a * p + a <= a * q
  BY <1>1, <1>4, ProductGrows
<1> QED
  BY <1>1, <1>2, <1>5

LEMMA DivisionIsMonotone ==
  ASSUME NEW x \in Nat, NEW y \in Nat, x <= y, NEW a \in Nat \ {0}
  PROVE  x \div a <= y \div a
<1>1. x \div a \in Nat /\ a * (x \div a) <= x
  BY DivisionBounds
<1>2. a * (x \div a) \in Nat
  BY <1>1, ProductIsNatural
<1> QED
  BY <1>1, <1>2, FactorFits

(* The address of a page lies in the same table as any address of it. *)
LEMMA PageInTables ==
  ASSUME NEW s \in Nat, NEW e \in Nat, NEW a \in Nat \ {0}, NEW k \in Nat \ {0},
         NEW p \in Nat, s \div a <= p, p <= e \div a
  PROVE  /\ s \div (a * k) <= (p * a) \div (a * k)
         /\ (p * a) \div (a * k) <= e \div (a * k)
<1> DEFINE m == a * k
           q == s \div m
<1>1. m \in Nat \ {0} /\ p * a \in Nat /\ p * a = a * p
  BY ProductIsNatural
<1> HIDE DEF m
<1>2. q \in Nat /\ m * q <= s
  BY <1>1, DivisionBounds
<1> HIDE DEF q
<1>3. k * q \in Nat /\ m * q = a * (k * q)
  BY <1>2 DEF m
<1>4. k * q <= s \div a
  BY <1>2, <1>3, FactorFits
<1>5. k * q <= p
  BY <1>4, <1>3, DivisionBounds
<1>6. a * (k * q) <= a * p
  <2>1. CASE k * q = p
    BY <2>1, <1>1
  <2>2. CASE k * q + 1 <= p
    <3>1. a * (k * q) + a <= a * p
      BY <2>2, <1>3, ProductGrows
    <3> QED
      BY <3>1, <1>3, <1>1, ProductIsNatural
  <2> QED
    BY <2>1, <2>2, <1>5, <1>3
<1>7. q <= (p * a) \div m
  BY <1>1, <1>2, <1>3, <1>6, FactorFits
<1>8. p * a <= e
  <2>1. e \div a \in Nat /\ a * (e \div a) <= e
    BY DivisionBounds
  <2>2. a * p <= a * (e \div a)
    <3>1. CASE p = e \div a
      BY <3>1, <1>1, <2>1, ProductIsNatural
    <3>2. CASE p + 1 <= e \div a
      <4>1. a * p + a <= a * (e \div a)
        BY <3>2, <2>1, ProductGrows
      <4> QED
        BY <4>1, <2>1, <1>1, ProductIsNatural
    <3> QED
      BY <3>1, <3>2, <2>1
  <2> QED
    BY <2>1, <2>2, <1>1, ProductIsNatural
<1>9. (p * a) \div m <= e \div m
  BY <1>1, <1>8, DivisionIsMonotone
<1> QED
  BY <1>7, <1>9 DEF q, m

(* A table manages a whole number of pages. *)
LEMMA ManagedIsPages ==
  ASSUME NEW l \in 1..4
  PROVE  /\ Managed(l) \in Nat \ {0}
         /\ \E k \in Nat \ {0} : Managed(l) = PageSize * k
<1>1. PageSize \in Nat \ {0} /\ Fanout \in Nat \ {0}
  BY RequestsAssumption
<1>2. \A a, b \in Nat \ {0} : a * b \in Nat \ {0}
  OBVIOUS
<1> DEFINE f2 == Fanout * Fanout
           f3 == Fanout * Fanout * Fanout
           f4 == Fanout * Fanout * Fanout * Fanout
<1>3. f2 \in Nat \ {0}
  BY <1>1, <1>2
<1>4. f3 \in Nat \ {0}
  BY <1>1, <1>2, <1>3
<1>5. f4 \in Nat \ {0}
  BY <1>1, <1>2, <1>4
<1>6. /\ l = 1 => Managed(l) = PageSize * Fanout
      /\ l = 2 => Managed(l) = PageSize * f2
      /\ l = 3 => Managed(l) = PageSize * f3
      /\ l = 4 => Managed(l) = PageSize * f4
  BY DEF Managed, ManagedBytes
<1> HIDE DEF f2, f3, f4
<1>7. l = 1 \/ l = 2 \/ l = 3 \/ l = 4
  OBVIOUS
<1>8. \E k \in Nat \ {0} : Managed(l) = PageSize * k
  BY <1>1, <1>3, <1>4, <1>5, <1>6, <1>7, Zenon
<1> QED
  BY <1>1, <1>2, <1>8

(* The least element of a set of natural numbers. *)
LEMMA LeastNatural ==
  ASSUME NEW S \in SUBSET Nat, S # {}
  PROVE  \E n \in S : \A m \in S : n <= m
<1>1. PICK n \in S : \A m \in S : ~ (<<m, n>> \in OpToRel(<, Nat))
  BY NatLessThanWellFounded, WFMin, Zenon
<1>2. \A m \in S : ~(m < n)
  BY <1>1, Zenon DEF OpToRel
<1> QED
  BY <1>2

-----------------------------------------------------------------------------
(* The inductive invariant. *)

Ranges == {r \in [start : Nat, end : Nat] : r.start < r.end}

Types ==
  /\ req \in Requests
  /\ TypeOK

(* The firmware's map has each page once, and the framebuffer is not in    *)
(* memory that is mapped as such.                                          *)
NoOverlap(r, q) == r.end <= q.start \/ q.end <= r.start
Apart == \A r, q \in ToMap : r # q => NoOverlap(r, q)

(* The indices of the tables of a level that a set of ranges needs. *)
Indices(S, l) == UNION {StartIndex(r, l)..EndIndex(r, l) : r \in S}

Counted == {r \in ToMap : r.end <= calc.resolved}

(* The count is exact at each level for the ranges below the address the   *)
(* pass has got to, and the highest index of the last range is the only    *)
(* one that a later range can share.                                       *)
ExactAt(l) ==
  /\ IsFiniteSet(Indices(Counted, l))
  /\ calc.num[l] = Cardinality(Indices(Counted, l))
  /\ \A i \in Indices(Counted, l) : i <= calc.highest[l]
  /\ calc.num[l] # 0 => calc.highest[l] \in Indices(Counted, l)
  /\ \A x \in Nat : x >= calc.resolved => calc.highest[l] <= x \div Managed(l)

CountInv ==
  /\ \A r \in ToMap : r.end <= calc.resolved \/ r.start >= calc.resolved
  /\ \A l \in Levels : ExactAt(l)
  /\ pc # "count" => Counted = ToMap

(* What has been made is what the ranges gone through so far need. *)
RangeOf(i) == MemoryRange(req.descs[i].start, req.descs[i].start + req.descs[i].pages * PageSize)
Before(n) == {RangeOf(i) : i \in {j \in DOMAIN req.descs : j < n /\ ShouldInclude(req.descs[j])}}
Handled == Before(next) \cup IF pc = "done" /\ HasFramebuffer THEN {Framebuffer} ELSE {}

TablesOf(S) == UNION {TablesFor(r) : r \in S}
PagesIn(S) == UNION {PagesOf(r) : r \in S}

MapInv ==
  /\ pc = "count" => next = 1 /\ tables = {} /\ mapped = {}
  /\ pc \in {"map", "framebuffer", "done"} =>
       /\ tables = TablesOf(Handled)
       /\ mapped = PagesIn(Handled)
  /\ pc \in {"framebuffer", "done"} => next > Len(req.descs)
  /\ pc = "framebuffer" => HasFramebuffer

NeverShort == pc # "failed"

IInv == Types /\ MapInv /\ (Apart => CountInv /\ NeverShort)

-----------------------------------------------------------------------------
(* Ranges, their tables and their pages. *)

LEMMA LevelsFacts ==
  /\ Levels \subseteq 1..4
  /\ {1, 2, 3} \subseteq Levels
  BY DEF Levels

LEMMA ElementOfSeq ==
  ASSUME NEW S, NEW s \in Seq(S), NEW i \in DOMAIN s
  PROVE  s[i] \in S
  OBVIOUS

LEMMA DescriptorRange ==
  ASSUME req \in Requests, NEW i \in DOMAIN req.descs
  PROVE  RangeOf(i) \in Ranges
<1> DEFINE d == req.descs[i]
<1>1. d \in [start : Nat, pages : Nat \ {0}, type : STRING, runtime : BOOLEAN]
  <2>1. req.descs \in Seq([start : Nat, pages : Nat \ {0}, type : STRING, runtime : BOOLEAN])
    BY RequestsAssumption, Zenon
  <2> QED
    BY <2>1, ElementOfSeq, Zenon
<1>2. PageSize \in Nat \ {0}
  BY RequestsAssumption
<1> HIDE DEF d
<1>3. d.start \in Nat /\ d.pages \in Nat \ {0}
  BY <1>1
<1>4. d.pages * PageSize \in Nat \ {0}
  BY <1>2, <1>3
<1>5. d.start < d.start + d.pages * PageSize /\ d.start + d.pages * PageSize \in Nat
  BY <1>3, <1>4
<1>6. RangeOf(i) = [start |-> d.start, end |-> d.start + d.pages * PageSize]
  BY DEF RangeOf, MemoryRange, d
<1> QED
  BY <1>3, <1>5, <1>6 DEF Ranges

LEMMA FramebufferRange ==
  ASSUME req \in Requests
  PROVE  Framebuffer \in Ranges
<1>1. req.fb.start \in Nat /\ req.fb.size \in Nat \ {0}
  BY RequestsAssumption
<1> QED
  BY <1>1 DEF Framebuffer, MemoryRange, Ranges

LEMMA IncludedIsBefore ==
  Included = {RangeOf(i) : i \in {j \in DOMAIN req.descs : ShouldInclude(req.descs[j])}}
  BY Zenon DEF Included, RangeOf

LEMMA BeforeIsIncluded ==
  ASSUME NEW n
  PROVE  Before(n) \subseteq Included
  BY IncludedIsBefore, Zenon DEF Before

LEMMA ToMapRanges ==
  ASSUME req \in Requests
  PROVE  /\ \A r \in ToMap : r \in Ranges
         /\ Included \subseteq ToMap
<1>1. \A r \in Included : r \in Ranges
  BY IncludedIsBefore, DescriptorRange, Zenon
<1> QED
  BY <1>1, FramebufferRange, Zenon DEF ToMap

LEMMA RangeFields ==
  ASSUME NEW r \in Ranges
  PROVE  /\ r.start \in Nat /\ r.end \in Nat /\ r.start < r.end
         /\ r.end - 1 \in Nat /\ r.start <= r.end - 1
<1>1. r.start \in Nat /\ r.end \in Nat /\ r.start < r.end
  BY DEF Ranges
<1> QED
  BY <1>1

LEMMA IndexBounds ==
  ASSUME NEW r \in Ranges, NEW l \in 1..4
  PROVE  /\ StartIndex(r, l) \in Nat /\ EndIndex(r, l) \in Nat
         /\ StartIndex(r, l) <= EndIndex(r, l)
<1>1. Managed(l) \in Nat \ {0}
  BY ManagedIsPages
<1>2. r.start \in Nat /\ r.end - 1 \in Nat /\ r.start <= r.end - 1
  BY RangeFields
<1>3. StartIndex(r, l) \in Nat
  BY <1>1, <1>2, DivisionBounds DEF StartIndex
<1>4. EndIndex(r, l) \in Nat
  BY <1>1, <1>2, DivisionBounds DEF EndIndex
<1> QED
  BY <1>1, <1>2, <1>3, <1>4, DivisionIsMonotone DEF StartIndex, EndIndex

LEMMA InTablesFor ==
  ASSUME NEW r, NEW t
  PROVE  t \in TablesFor(r)
           <=> \E l \in Levels : \E i \in StartIndex(r, l)..EndIndex(r, l) : t = <<l, i>>
  BY DEF TablesFor

LEMMA TablesForType ==
  ASSUME NEW r \in Ranges
  PROVE  TablesFor(r) \subseteq Levels \X Nat
<1> SUFFICES ASSUME NEW t \in TablesFor(r)
             PROVE  t \in Levels \X Nat
  OBVIOUS
<1>1. PICK l \in Levels : \E i \in StartIndex(r, l)..EndIndex(r, l) : t = <<l, i>>
  BY InTablesFor
<1>2. PICK i \in StartIndex(r, l)..EndIndex(r, l) : t = <<l, i>>
  BY <1>1
<1>3. StartIndex(r, l) \in Nat /\ EndIndex(r, l) \in Nat
  BY IndexBounds, LevelsFacts
<1>4. i \in Nat
  BY <1>3
<1> QED
  BY <1>2, <1>4

LEMMA PagesOfType ==
  ASSUME NEW r \in Ranges
  PROVE  /\ r.start \div PageSize \in Nat /\ (r.end - 1) \div PageSize \in Nat
         /\ PagesOf(r) \subseteq Nat
<1>1. PageSize \in Nat \ {0}
  BY RequestsAssumption
<1>2. r.start \in Nat /\ r.end - 1 \in Nat
  BY RangeFields
<1>3. r.start \div PageSize \in Nat /\ (r.end - 1) \div PageSize \in Nat
  BY <1>1, <1>2, DivisionBounds
<1> QED
  BY <1>3 DEF PagesOf

(* Every address of a range is in a page that is mapped for it. *)
LEMMA AddressIsMapped ==
  ASSUME NEW r \in Ranges, NEW a \in r.start..(r.end - 1)
  PROVE  a \div PageSize \in PagesOf(r)
<1>1. PageSize \in Nat \ {0}
  BY RequestsAssumption
<1>2. r.start \in Nat /\ r.end - 1 \in Nat
  BY RangeFields
<1>3. a \in Nat /\ r.start <= a /\ a <= r.end - 1
  BY <1>2
<1>4. a \div PageSize \in Nat
  BY <1>1, <1>3, DivisionBounds
<1>5. r.start \div PageSize <= a \div PageSize /\ a \div PageSize <= (r.end - 1) \div PageSize
  BY <1>1, <1>2, <1>3, DivisionIsMonotone
<1>6. r.start \div PageSize \in Nat /\ (r.end - 1) \div PageSize \in Nat
  BY PagesOfType
<1> QED
  BY <1>4, <1>5, <1>6 DEF PagesOf

(* A page that is mapped for a range meets it. *)
LEMMA PageMeetsRange ==
  ASSUME NEW r \in Ranges, NEW p \in PagesOf(r)
  PROVE  r.start < (p + 1) * PageSize /\ p * PageSize < r.end
<1> DEFINE s == r.start \div PageSize
           e == (r.end - 1) \div PageSize
<1>1. PageSize \in Nat \ {0}
  BY RequestsAssumption
<1>2. r.start \in Nat /\ r.end \in Nat /\ r.end - 1 \in Nat
  BY RangeFields
<1>3. s \in Nat /\ r.start < PageSize * s + PageSize
  BY <1>1, <1>2, DivisionBounds
<1>4. e \in Nat /\ PageSize * e <= r.end - 1
  BY <1>1, <1>2, DivisionBounds
<1>5. p \in s..e
  BY DEF PagesOf
<1> HIDE DEF s, e
<1>6. p \in Nat /\ s <= p /\ p <= e
  BY <1>3, <1>4, <1>5
<1>7. PageSize * s <= PageSize * p /\ PageSize * p <= PageSize * e
  <2>1. \A x, y \in Nat : x <= y => PageSize * x <= PageSize * y
    <3> SUFFICES ASSUME NEW x \in Nat, NEW y \in Nat, x <= y
                 PROVE  PageSize * x <= PageSize * y
      OBVIOUS
    <3>1. CASE x = y
      BY <3>1, <1>1, ProductIsNatural
    <3>2. CASE x + 1 <= y
      <4>1. PageSize * x + PageSize <= PageSize * y
        BY <3>2, <1>1, ProductGrows
      <4>2. PageSize * x \in Nat /\ PageSize * y \in Nat
        BY <1>1, ProductIsNatural
      <4> QED
        BY <4>1, <4>2, <1>1
    <3> QED
      BY <3>1, <3>2
  <2> QED
    BY <2>1, <1>3, <1>4, <1>6
<1>8. p * PageSize = PageSize * p /\ (p + 1) * PageSize = PageSize * p + PageSize
  BY <1>1, <1>6
<1>9. PageSize * p \in Nat /\ PageSize * s \in Nat /\ PageSize * e \in Nat
  BY <1>1, <1>3, <1>4, <1>6, ProductIsNatural
<1> QED
  BY <1>1, <1>2, <1>3, <1>4, <1>7, <1>8, <1>9

(* A page that is mapped for a range has a table at each level. *)
LEMMA PageHasTables ==
  ASSUME NEW r \in Ranges, NEW p \in PagesOf(r), NEW l \in Levels
  PROVE  <<l, (p * PageSize) \div Managed(l)>> \in TablesFor(r)
<1>1. PageSize \in Nat \ {0}
  BY RequestsAssumption
<1>2. l \in 1..4
  BY LevelsFacts
<1>3. PICK k \in Nat \ {0} : Managed(l) = PageSize * k
  BY <1>2, ManagedIsPages
<1>4. r.start \in Nat /\ r.end - 1 \in Nat
  BY RangeFields
<1>5. r.start \div PageSize \in Nat /\ (r.end - 1) \div PageSize \in Nat
  BY PagesOfType
<1>6. p \in Nat /\ r.start \div PageSize <= p /\ p <= (r.end - 1) \div PageSize
  BY <1>5 DEF PagesOf
<1> DEFINE i == (p * PageSize) \div Managed(l)
<1>7. StartIndex(r, l) <= i /\ i <= EndIndex(r, l)
  BY <1>1, <1>3, <1>4, <1>6, PageInTables DEF StartIndex, EndIndex
<1>8. i \in Nat
  BY <1>1, <1>2, <1>6, ManagedIsPages, ProductIsNatural, DivisionBounds
<1>9. StartIndex(r, l) \in Nat /\ EndIndex(r, l) \in Nat
  BY <1>2, IndexBounds
<1> HIDE DEF i
<1>10. i \in StartIndex(r, l)..EndIndex(r, l)
  BY <1>7, <1>8, <1>9
<1>11. <<l, i>> \in TablesFor(r)
  BY <1>10, InTablesFor, Zenon
<1> QED
  BY <1>11 DEF i

-----------------------------------------------------------------------------
(* Types. *)

LEMMA RequestStays ==
  ASSUME req' = req
  PROVE  /\ Levels' = Levels /\ Included' = Included /\ ToMap' = ToMap
         /\ HasFramebuffer' = HasFramebuffer /\ Framebuffer' = Framebuffer
         /\ Apart' = Apart
<1>1. Included' = Included
  BY Zenon DEF Included, ShouldInclude
<1>2. HasFramebuffer' = HasFramebuffer /\ Framebuffer' = Framebuffer
  BY Zenon DEF HasFramebuffer, Framebuffer
<1>3. ToMap' = ToMap
  BY <1>1, <1>2, Zenon DEF ToMap
<1>4. Levels' = Levels
  BY Zenon DEF Levels
<1> QED
  BY <1>1, <1>2, <1>3, <1>4, Zenon DEF Apart

LEMMA LowestExists ==
  ASSUME req \in Requests, Candidates # {}
  PROVE  /\ Lowest \in Candidates
         /\ \A q \in Candidates : Lowest.start <= q.start
<1>1. Candidates \subseteq Included
  BY Zenon DEF Candidates
<1>2. \A q \in Candidates : q.start \in Nat
  BY <1>1, ToMapRanges, RangeFields
<1> DEFINE S == {q.start : q \in Candidates}
<1>3. S \in SUBSET Nat /\ S # {}
  BY <1>2
<1>4. PICK n \in S : \A m \in S : n <= m
  BY <1>3, LeastNatural, Zenon
<1>5. PICK r \in Candidates : n = r.start
  BY <1>4
<1>6. \A q \in Candidates : r.start <= q.start
  BY <1>4, <1>5
<1> QED
  BY <1>6 DEF Lowest

LEMMA NextRange ==
  ASSUME req \in Requests, HasNext
  PROVE  /\ FindNextMemoryRange \in ToMap
         /\ FindNextMemoryRange \in Ranges
         /\ FindNextMemoryRange.start >= calc.resolved
<1>1. CASE FramebufferIsNext
  <2>1. FindNextMemoryRange = Framebuffer /\ HasFramebuffer /\ Framebuffer.start >= calc.resolved
    BY <1>1, Zenon DEF FindNextMemoryRange, FramebufferIsNext
  <2>2. Framebuffer \in ToMap
    BY <2>1, Zenon DEF ToMap
  <2> QED
    BY <2>1, <2>2, FramebufferRange, Zenon
<1>2. CASE ~FramebufferIsNext
  <2>1. FindNextMemoryRange = Lowest /\ Candidates # {}
    BY <1>2, Zenon DEF FindNextMemoryRange, HasNext
  <2>2. Lowest \in Candidates
    BY <2>1, LowestExists, Zenon
  <2>3. Lowest \in Included /\ Lowest.start >= calc.resolved
    BY <2>2, Zenon DEF Candidates
  <2> QED
    BY <2>1, <2>3, ToMapRanges, Zenon
<1> QED
  BY <1>1, <1>2

LEMMA NewTablesType ==
  ASSUME TypeOK, NEW r \in Ranges, NEW l \in Levels
  PROVE  NewTables(r, l) \in Nat
<1>1. StartIndex(r, l) \in Nat /\ EndIndex(r, l) \in Nat /\ StartIndex(r, l) <= EndIndex(r, l)
  BY IndexBounds, LevelsFacts
<1>2. EndIndex(r, l) - StartIndex(r, l) \in Nat
  BY <1>1
<1> QED
  BY <1>2 DEF NewTables

LEMMA TypesOfCount ==
  ASSUME Types, CountTables
  PROVE  Types'
<1>1. req' = req /\ req \in Requests /\ HasNext /\ TypeOK
  BY Zenon DEF CountTables, Types
<1>2. Levels' = Levels
  BY <1>1, RequestStays, Zenon
<1> DEFINE r == FindNextMemoryRange
<1>3. r \in Ranges
  BY <1>1, NextRange, Zenon
<1>4. calc' = [resolved |-> r.end,
               num |-> [l \in Levels |-> calc.num[l] + NewTables(r, l)],
               highest |-> [l \in Levels |-> EndIndex(r, l)]]
  BY Zenon DEF CountTables
<1> HIDE DEF r
<1>5. \A l \in Levels : calc.num[l] + NewTables(r, l) \in Nat
  <2> TAKE l \in Levels
  <2>1. calc.num[l] \in Nat
    BY <1>1 DEF TypeOK
  <2> QED
    BY <2>1, <1>1, <1>3, NewTablesType
<1>6. \A l \in Levels : EndIndex(r, l) \in Nat
  BY <1>3, IndexBounds, LevelsFacts
<1>7. r.end \in Nat
  BY <1>3, RangeFields
<1>8. calc' \in [resolved : Nat, num : [Levels -> Nat], highest : [Levels -> Nat]]
  BY <1>4, <1>5, <1>6, <1>7
<1> QED
  BY <1>1, <1>2, <1>8, Zenon DEF Types, TypeOK, CountTables

LEMMA TypesOfMapping ==
  ASSUME req \in Requests, TypeOK, NEW r \in Ranges, NEW then, MapMemoryRange(r, then)
  PROVE  /\ tables' \subseteq Levels \X Nat
         /\ mapped' \subseteq Nat
         /\ pc' \in {then, "failed"}
<1>1. TablesFor(r) \subseteq Levels \X Nat /\ PagesOf(r) \subseteq Nat
  BY TablesForType, PagesOfType
<1>2. tables \subseteq Levels \X Nat /\ mapped \subseteq Nat
  BY Zenon DEF TypeOK
<1>3. \/ tables' = tables \cup TablesFor(r) /\ mapped' = mapped \cup PagesOf(r) /\ pc' = then
      \/ tables' = tables /\ mapped' = mapped /\ pc' = "failed"
  BY Zenon DEF MapMemoryRange
<1>4. pc' \in {then, "failed"}
  BY <1>3, Zenon
<1>5. CASE tables' = tables \cup TablesFor(r) /\ mapped' = mapped \cup PagesOf(r)
  BY <1>1, <1>2, <1>4, <1>5, Zenon
<1>6. CASE tables' = tables /\ mapped' = mapped
  BY <1>2, <1>4, <1>6, Zenon
<1> QED
  BY <1>3, <1>5, <1>6, Zenon

LEMMA TypesOfDescriptor ==
  ASSUME Types, MapDescriptor
  PROVE  Types'
<1>1. req' = req /\ calc' = calc /\ req \in Requests /\ TypeOK /\ next' = next + 1 /\ pc = "map"
  BY DEF MapDescriptor, Types
<1>2. Levels' = Levels
  BY <1>1, RequestStays, Zenon
<1>3. next \in DOMAIN req.descs
  <2>1. next \in Nat \ {0} /\ next <= Len(req.descs)
    BY <1>1, Zenon DEF MapDescriptor, TypeOK
  <2>2. req.descs \in Seq([start : Nat, pages : Nat \ {0}, type : STRING, runtime : BOOLEAN])
    BY <1>1, RequestsAssumption, Zenon
  <2>3. DOMAIN req.descs = 1..Len(req.descs) /\ Len(req.descs) \in Nat
    BY <2>2
  <2> QED
    BY <2>1, <2>3
<1>4. next' \in Nat \ {0}
  BY <1>1 DEF TypeOK
<1>5. MapMemoryRange(RangeOf(next), "map") \/ UNCHANGED <<pc, tables, mapped>>
  BY Zenon DEF MapDescriptor, RangeOf
<1>6. RangeOf(next) \in Ranges
  BY <1>1, <1>3, DescriptorRange, Zenon
<1>7. /\ tables' \subseteq Levels \X Nat
      /\ mapped' \subseteq Nat
      /\ pc' \in {"map", "failed"}
  <2>1. CASE MapMemoryRange(RangeOf(next), "map")
    BY <2>1, <1>1, <1>6, TypesOfMapping, Zenon
  <2>2. CASE UNCHANGED <<pc, tables, mapped>>
    BY <2>2, <1>1 DEF TypeOK
  <2> QED
    BY <2>1, <2>2, <1>5
<1>8. pc' \in {"count", "map", "framebuffer", "done", "failed"}
  BY <1>7, Zenon
<1> QED
  BY <1>1, <1>2, <1>4, <1>7, <1>8, Zenon DEF Types, TypeOK

LEMMA TypesOfFramebuffer ==
  ASSUME Types, MapFramebuffer
  PROVE  Types'
<1>1. /\ req' = req /\ calc' = calc /\ next' = next /\ req \in Requests /\ TypeOK
      /\ MapMemoryRange(Framebuffer, "done")
  BY DEF MapFramebuffer, Types
<1>2. Levels' = Levels
  BY <1>1, RequestStays, Zenon
<1>3. Framebuffer \in Ranges
  BY <1>1, FramebufferRange
<1>4. /\ tables' \subseteq Levels \X Nat
      /\ mapped' \subseteq Nat
      /\ pc' \in {"done", "failed"}
  BY <1>1, <1>3, TypesOfMapping, Zenon
<1>5. pc' \in {"count", "map", "framebuffer", "done", "failed"}
  BY <1>4, Zenon
<1> QED
  BY <1>1, <1>2, <1>4, <1>5, Zenon DEF Types, TypeOK

LEMMA TypesStep ==
  ASSUME Types, [Next]_vars
  PROVE  Types'
<1>1. CASE CountTables
  BY <1>1, TypesOfCount
<1>2. CASE MapDescriptor
  BY <1>2, TypesOfDescriptor
<1>3. CASE MapFramebuffer
  BY <1>3, TypesOfFramebuffer
<1>4. CASE CountingEnds \/ DescriptorsEnd \/ UNCHANGED vars
  <2>1. /\ req' = req /\ calc' = calc /\ next' = next /\ tables' = tables /\ mapped' = mapped
        /\ pc' \in {pc, "map", "framebuffer", "done"}
    BY <1>4 DEF CountingEnds, DescriptorsEnd, vars
  <2>2. Levels' = Levels
    BY <2>1, RequestStays, Zenon
  <2>3. pc' \in {"count", "map", "framebuffer", "done", "failed"}
    BY <2>1, Zenon DEF Types, TypeOK
  <2> QED
    BY <2>1, <2>2, <2>3, Zenon DEF Types, TypeOK
<1> QED
  BY <1>1, <1>2, <1>3, <1>4, Zenon DEF Next

LEMMA TypesInit ==
  ASSUME Init
  PROVE  Types
<1>1. /\ req \in Requests /\ pc = "count" /\ next = 1 /\ tables = {} /\ mapped = {}
      /\ calc = [resolved |-> 0, num |-> [l \in Levels |-> 0], highest |-> [l \in Levels |-> 0]]
  BY DEF Init
<1>2. calc \in [resolved : Nat, num : [Levels -> Nat], highest : [Levels -> Nat]]
  BY <1>1
<1> QED
  BY <1>1, <1>2 DEF Types, TypeOK

(* The types of the variables: for every page size, fanout and memory map. *)
THEOREM TypeCorrect == Spec => []TypeOK
<1>1. Init => Types
  BY TypesInit
<1>2. Types /\ [Next]_vars => Types'
  BY TypesStep
<1>3. Types => TypeOK
  BY DEF Types
<1> QED
  BY <1>1, <1>2, <1>3, PTL DEF Spec

-----------------------------------------------------------------------------
(* What has been mapped. *)

LEMMA TablesStay ==
  ASSUME req' = req
  PROVE  \A S : TablesOf(S)' = TablesOf(S) /\ PagesIn(S)' = PagesIn(S)
<1>1. Levels' = Levels
  BY RequestStays, Zenon
<1>2. \A r : TablesFor(r)' = TablesFor(r)
  BY <1>1, Zenon DEF TablesFor, StartIndex, EndIndex, Managed, ManagedBytes
<1>3. \A S : TablesOf(S)' = TablesOf(S)
  BY <1>2, Zenon DEF TablesOf
<1> QED
  BY <1>3, Zenon DEF PagesIn, PagesOf

LEMMA TablesOfMore ==
  ASSUME NEW S, NEW r
  PROVE  TablesOf(S \cup {r}) = TablesOf(S) \cup TablesFor(r)
  BY DEF TablesOf

LEMMA PagesOfMore ==
  ASSUME NEW S, NEW r
  PROVE  PagesIn(S \cup {r}) = PagesIn(S) \cup PagesOf(r)
  BY DEF PagesIn

LEMMA DescriptorsDomain ==
  ASSUME req \in Requests
  PROVE  DOMAIN req.descs = 1..Len(req.descs) /\ Len(req.descs) \in Nat
<1>1. req.descs \in Seq([start : Nat, pages : Nat \ {0}, type : STRING, runtime : BOOLEAN])
  BY RequestsAssumption, Zenon
<1> QED
  BY <1>1

LEMMA BeforeFirst ==
  ASSUME req \in Requests
  PROVE  Before(1) = {}
  BY DescriptorsDomain DEF Before

LEMMA BeforeNext ==
  ASSUME req \in Requests, NEW n \in DOMAIN req.descs
  PROVE  Before(n + 1) = IF ShouldInclude(req.descs[n]) THEN Before(n) \cup {RangeOf(n)}
                                                         ELSE Before(n)
<1>1. n \in Nat
  BY DescriptorsDomain
<1>2. \A j \in DOMAIN req.descs : j < n + 1 <=> j < n \/ j = n
  BY <1>1, DescriptorsDomain
<1>3. ~(n < n)
  BY <1>1
<1> QED
  BY <1>2, <1>3, Zenon DEF Before

LEMMA BeforeEnd ==
  ASSUME req \in Requests, NEW n \in Nat, n > Len(req.descs)
  PROVE  Before(n) = Included
<1>1. \A j \in DOMAIN req.descs : j < n
  BY DescriptorsDomain
<1> QED
  BY <1>1, IncludedIsBefore, Zenon DEF Before

LEMMA BeforeStays ==
  ASSUME req' = req
  PROVE  \A n : Before(n)' = Before(n)
  BY Zenon DEF Before, RangeOf, ShouldInclude

LEMMA MapInvOfCounting ==
  ASSUME Types, MapInv, CountTables \/ CountingEnds
  PROVE  MapInv'
<1>1. /\ pc = "count" /\ req' = req /\ next' = next /\ tables' = tables /\ mapped' = mapped
      /\ pc' \in {"count", "map"}
  BY DEF CountTables, CountingEnds
<1>2. next = 1 /\ tables = {} /\ mapped = {} /\ req \in Requests
  BY <1>1, Zenon DEF MapInv, Types
<1>3. Before(1)' = {}
  BY <1>1, <1>2, BeforeStays, BeforeFirst, Zenon
<1>4. Handled' = {}
  <2>1. next' = 1 /\ pc' # "done"
    BY <1>1, <1>2
  <2> QED
    BY <2>1, <1>3, Zenon DEF Handled
<1>5. TablesOf({})' = {} /\ PagesIn({})' = {}
  BY DEF TablesOf, PagesIn
<1>6. tables' = TablesOf(Handled)' /\ mapped' = PagesIn(Handled)'
  BY <1>1, <1>2, <1>4, <1>5, Zenon
<1>7. pc' # "framebuffer" /\ pc' # "done"
  BY <1>1
<1> QED
  BY <1>1, <1>2, <1>6, <1>7, Zenon DEF MapInv

LEMMA NextIsDescriptor ==
  ASSUME Types, next <= Len(req.descs)
  PROVE  next \in DOMAIN req.descs
<1>1. next \in Nat \ {0} /\ req \in Requests
  BY Zenon DEF Types, TypeOK
<1> QED
  BY <1>1, DescriptorsDomain

LEMMA MapInvOfDescriptor ==
  ASSUME Types, MapInv, MapDescriptor
  PROVE  MapInv'
<1>1. pc = "map" /\ req' = req /\ next' = next + 1 /\ req \in Requests
  BY DEF MapDescriptor, Types
<1>2. next \in DOMAIN req.descs
  BY NextIsDescriptor DEF MapDescriptor
<1>3. tables = TablesOf(Before(next)) /\ mapped = PagesIn(Before(next))
  <2>1. Handled = Before(next)
    BY <1>1 DEF Handled
  <2> QED
    BY <2>1, <1>1, Zenon DEF MapInv
<1> DEFINE B == Before(next + 1)
<1>4. pc' = "map" => Handled' = B
  <2>1. SUFFICES ASSUME pc' = "map"
                 PROVE  Handled' = B
    OBVIOUS
  <2>2. pc' # "done"
    BY <2>1
  <2> QED
    BY <1>1, <2>2, Zenon DEF Handled, Before, RangeOf, ShouldInclude
<1>5. CASE ShouldInclude(req.descs[next]) /\ pc' = "map"
  <2>1. B = Before(next) \cup {RangeOf(next)}
    BY <1>1, <1>2, <1>5, BeforeNext, Zenon
  <2>2. tables' = tables \cup TablesFor(RangeOf(next)) /\ mapped' = mapped \cup PagesOf(RangeOf(next))
    <3>1. MapMemoryRange(RangeOf(next), "map")
      BY <1>5, Zenon DEF MapDescriptor, RangeOf
    <3> QED
      BY <3>1, <1>5 DEF MapMemoryRange
  <2>3. tables' = TablesOf(B) /\ mapped' = PagesIn(B)
    BY <2>1, <2>2, <1>3, TablesOfMore, PagesOfMore, Zenon
  <2> HIDE DEF B
  <2>4. tables' = TablesOf(Handled)' /\ mapped' = PagesIn(Handled)'
    BY <2>3, <1>1, <1>4, <1>5, TablesStay, Zenon
  <2> QED
    BY <1>5, <2>4 DEF MapInv
<1>6. CASE ~ShouldInclude(req.descs[next])
  <2>1. B = Before(next)
    BY <1>1, <1>2, <1>6, BeforeNext, Zenon
  <2>2. tables' = tables /\ mapped' = mapped /\ pc' = "map"
    BY <1>1, <1>6 DEF MapDescriptor
  <2> HIDE DEF B
  <2>4. tables' = TablesOf(Handled)' /\ mapped' = PagesIn(Handled)'
    BY <2>1, <2>2, <1>1, <1>3, <1>4, TablesStay, Zenon
  <2> QED
    BY <2>2, <2>4 DEF MapInv
<1>7. CASE pc' = "failed"
  BY <1>7 DEF MapInv
<1>8. ShouldInclude(req.descs[next]) => pc' \in {"map", "failed"}
  BY Zenon DEF MapDescriptor, MapMemoryRange
<1> QED
  BY <1>5, <1>6, <1>7, <1>8, Zenon

LEMMA MapInvOfEnd ==
  ASSUME Types, MapInv, DescriptorsEnd
  PROVE  MapInv'
<1>1. /\ pc = "map" /\ req' = req /\ next' = next /\ tables' = tables /\ mapped' = mapped
      /\ next > Len(req.descs)
      /\ pc' = IF HasFramebuffer THEN "framebuffer" ELSE "done"
  BY DEF DescriptorsEnd
<1>2. tables = TablesOf(Before(next)) /\ mapped = PagesIn(Before(next))
  <2>1. Handled = Before(next)
    BY <1>1 DEF Handled
  <2> QED
    BY <2>1, <1>1, Zenon DEF MapInv
<1>3. HasFramebuffer' = HasFramebuffer
  BY <1>1, RequestStays, Zenon
<1>4. Handled' = Before(next)
  <2>1. ~(pc' = "done" /\ HasFramebuffer')
    BY <1>1, <1>3
  <2>2. Before(next)' = Before(next)
    BY <1>1, Zenon DEF Before, RangeOf, ShouldInclude
  <2> QED
    BY <2>1, <2>2, Zenon DEF Handled
<1>5. tables' = TablesOf(Handled)' /\ mapped' = PagesIn(Handled)'
  BY <1>1, <1>2, <1>4, TablesStay, Zenon
<1>6. pc' # "count" /\ (pc' = "framebuffer" => HasFramebuffer')
  BY <1>1, <1>3
<1> QED
  BY <1>1, <1>5, <1>6, Zenon DEF MapInv

LEMMA MapInvOfFramebuffer ==
  ASSUME Types, MapInv, MapFramebuffer
  PROVE  MapInv'
<1>1. /\ pc = "framebuffer" /\ req' = req /\ next' = next
      /\ MapMemoryRange(Framebuffer, "done")
  BY DEF MapFramebuffer
<1>2. tables = TablesOf(Before(next)) /\ mapped = PagesIn(Before(next))
  <2>1. Handled = Before(next)
    BY <1>1 DEF Handled
  <2> QED
    BY <2>1, <1>1, Zenon DEF MapInv
<1>3. HasFramebuffer' /\ Framebuffer' = Framebuffer /\ next > Len(req.descs)
  <2>1. HasFramebuffer /\ next > Len(req.descs)
    BY <1>1, Zenon DEF MapInv
  <2> QED
    BY <2>1, <1>1, RequestStays, Zenon
<1>4. CASE pc' = "failed"
  BY <1>4 DEF MapInv
<1>5. CASE pc' = "done"
  <2>1. tables' = tables \cup TablesFor(Framebuffer) /\ mapped' = mapped \cup PagesOf(Framebuffer)
    BY <1>1, <1>5 DEF MapMemoryRange
  <2>2. Handled' = Before(next) \cup {Framebuffer}
    <3>1. Before(next)' = Before(next)
      BY <1>1, Zenon DEF Before, RangeOf, ShouldInclude
    <3> QED
      BY <3>1, <1>3, <1>5, Zenon DEF Handled
  <2>3. /\ tables' = TablesOf(Before(next) \cup {Framebuffer})
        /\ mapped' = PagesIn(Before(next) \cup {Framebuffer})
    BY <1>2, <2>1, TablesOfMore, PagesOfMore, Zenon
  <2>4. tables' = TablesOf(Handled)' /\ mapped' = PagesIn(Handled)'
    BY <2>2, <2>3, <1>1, TablesStay, Zenon
  <2>5. next' > Len(req'.descs)
    BY <1>1, <1>3
  <2> QED
    BY <1>5, <2>4, <2>5 DEF MapInv
<1> QED
  BY <1>1, <1>4, <1>5, Zenon DEF MapMemoryRange

LEMMA MapInvStep ==
  ASSUME Types, MapInv, [Next]_vars
  PROVE  MapInv'
<1>1. CASE UNCHANGED vars
  <2>1. /\ req' = req /\ pc' = pc /\ next' = next /\ tables' = tables /\ mapped' = mapped
    BY <1>1 DEF vars
  <2>2. HasFramebuffer' = HasFramebuffer /\ Framebuffer' = Framebuffer
    BY <2>1, RequestStays, Zenon
  <2>3. Handled' = Handled
    BY <2>1, <2>2, Zenon DEF Handled, Before, RangeOf, ShouldInclude
  <2>4. TablesOf(Handled)' = TablesOf(Handled) /\ PagesIn(Handled)' = PagesIn(Handled)
    BY <2>1, <2>3, TablesStay, Zenon
  <2> QED
    BY <2>1, <2>2, <2>4, Zenon DEF MapInv
<1> QED
  BY <1>1, MapInvOfCounting, MapInvOfDescriptor, MapInvOfEnd, MapInvOfFramebuffer, Zenon DEF Next

LEMMA AllIsHandled ==
  ASSUME Types, MapInv, pc = "done"
  PROVE  Handled = ToMap
<1>1. next > Len(req.descs) /\ next \in Nat /\ req \in Requests
  BY Zenon DEF MapInv, Types, TypeOK
<1>2. Before(next) = Included
  BY <1>1, BeforeEnd
<1> QED
  BY <1>2, Zenon DEF Handled, ToMap

LEMMA AllIsMapped ==
  ASSUME Types, MapInv
  PROVE  AllAndOnlyIncludedIsMapped
<1> SUFFICES ASSUME pc = "done"
             PROVE  /\ \A r \in ToMap : \A a \in r.start..(r.end - 1) : a \div PageSize \in mapped
                    /\ \A p \in mapped : \E r \in ToMap : r.start < (p + 1) * PageSize /\ p * PageSize < r.end
                    /\ \A p \in mapped : \A l \in Levels : <<l, (p * PageSize) \div Managed(l)>> \in tables
  BY Zenon DEF AllAndOnlyIncludedIsMapped
<1>1. tables = TablesOf(ToMap) /\ mapped = PagesIn(ToMap)
  BY AllIsHandled, Zenon DEF MapInv
<1>2. \A r \in ToMap : r \in Ranges
  BY ToMapRanges, Zenon DEF Types
<1>3. \A r \in ToMap : \A a \in r.start..(r.end - 1) : a \div PageSize \in mapped
  BY <1>1, <1>2, AddressIsMapped, Zenon DEF PagesIn
<1>4. \A p \in mapped : \E r \in ToMap : r.start < (p + 1) * PageSize /\ p * PageSize < r.end
  BY <1>1, <1>2, PageMeetsRange, Zenon DEF PagesIn
<1>5. \A p \in mapped : \A l \in Levels : <<l, (p * PageSize) \div Managed(l)>> \in tables
  BY <1>1, <1>2, PageHasTables, Zenon DEF TablesOf, PagesIn
<1> QED
  BY <1>3, <1>4, <1>5, Zenon

-----------------------------------------------------------------------------
(* The count. *)

LEMMA DisjointUnion ==
  ASSUME NEW S, IsFiniteSet(S), NEW T, IsFiniteSet(T), S \cap T = {}
  PROVE  /\ IsFiniteSet(S \cup T)
         /\ Cardinality(S \cup T) = Cardinality(S) + Cardinality(T)
<1>1. Cardinality(S) \in Nat /\ Cardinality(T) \in Nat
  BY FS_CardinalityType
<1>2. Cardinality(S \cap T) = 0
  BY FS_EmptySet
<1>3. IsFiniteSet(S \cup T) /\ Cardinality(S \cup T) = Cardinality(S) + Cardinality(T) - Cardinality(S \cap T)
  BY FS_Union
<1> QED
  BY <1>1, <1>2, <1>3

Fresh(n, h, s, e) == (e - s) + IF h < s \/ n = 0 THEN 1 ELSE 0

CountOf(I, n, h) ==
  /\ IsFiniteSet(I)
  /\ n = Cardinality(I)
  /\ \A i \in I : i <= h
  /\ n # 0 => h \in I

(* An interval that shares at most its first index with what is counted. *)
LEMMA AddInterval ==
  ASSUME NEW I \in SUBSET Nat, NEW n, NEW h \in Nat, CountOf(I, n, h),
         NEW s \in Nat, NEW e \in Nat, s <= e, h <= s
  PROVE  CountOf(I \cup (s..e), n + Fresh(n, h, s, e), e)
<1> USE DEF CountOf
<1>1. IsFiniteSet(s..e) /\ Cardinality(s..e) = e - s + 1
  BY FS_Interval
<1>2. n \in Nat /\ (n = 0 <=> I = {})
  BY FS_CardinalityType, FS_EmptySet
<1>3. IsFiniteSet(I \cup (s..e))
  BY <1>1, FS_Union
<1>4. \A i \in I \cup (s..e) : i <= e
  OBVIOUS
<1>5. e \in I \cup (s..e)
  OBVIOUS
<1>6. CASE h < s \/ n = 0
  <2>1. I \cap (s..e) = {}
    BY <1>2, <1>6
  <2>2. Cardinality(I \cup (s..e)) = Cardinality(I) + Cardinality(s..e)
    BY <2>1, <1>1, DisjointUnion
  <2> QED
    BY <2>2, <1>1, <1>2, <1>3, <1>4, <1>5, <1>6 DEF Fresh
<1>7. CASE ~(h < s \/ n = 0)
  <2>1. h = s /\ h \in I
    BY <1>7
  <2>2. I \cap (s..e) = {s}
    BY <2>1
  <2>3. Cardinality(I \cap (s..e)) = 1
    BY <2>2, FS_Singleton
  <2>4. Cardinality(I \cup (s..e)) = Cardinality(I) + Cardinality(s..e) - Cardinality(I \cap (s..e))
    BY <1>1, FS_Union
  <2>5. Cardinality(I \cup (s..e)) = n + (e - s)
    BY <2>3, <2>4, <1>1, <1>2
  <2> QED
    BY <2>5, <1>3, <1>4, <1>5, <1>7 DEF Fresh
<1> QED
  BY <1>6, <1>7

LEMMA IndicesMore ==
  ASSUME NEW S, NEW r, NEW l
  PROVE  Indices(S \cup {r}, l) = Indices(S, l) \cup (StartIndex(r, l)..EndIndex(r, l))
  BY DEF Indices

LEMMA IndicesType ==
  ASSUME NEW S \in SUBSET Ranges, NEW l \in 1..4
  PROVE  Indices(S, l) \in SUBSET Nat
<1> SUFFICES ASSUME NEW r \in S, NEW i \in StartIndex(r, l)..EndIndex(r, l)
             PROVE  i \in Nat
  BY Zenon DEF Indices
<1>1. StartIndex(r, l) \in Nat /\ EndIndex(r, l) \in Nat
  BY IndexBounds
<1> QED
  BY <1>1

LEMMA CountedRanges ==
  ASSUME Types
  PROVE  Counted \in SUBSET Ranges
  BY ToMapRanges, Zenon DEF Types, Counted

(* The pass goes by address: no range that is left starts before the end   *)
(* of the one it takes.                                                    *)
LEMMA NextIsFirst ==
  ASSUME req \in Requests, Apart, HasNext, calc.resolved \in Nat,
         NEW q \in ToMap, q # FindNextMemoryRange, q.start >= calc.resolved
  PROVE  FindNextMemoryRange.end <= q.start
<1> DEFINE r == FindNextMemoryRange
<1>1. r \in ToMap /\ r \in Ranges /\ r.start >= calc.resolved
  BY NextRange, Zenon
<1>2. q \in Ranges
  BY ToMapRanges, Zenon
<1>3. /\ r.start \in Nat /\ r.end \in Nat /\ r.start < r.end
      /\ q.start \in Nat /\ q.end \in Nat /\ q.start < q.end
  BY <1>1, <1>2, RangeFields
<1>4. NoOverlap(r, q)
  BY <1>1, Zenon DEF Apart
<1>5. r.start <= q.start => r.end <= q.start
  BY <1>3, <1>4 DEF NoOverlap
<1>6. q \in Included => q \in Candidates
  BY Zenon DEF Candidates
<1>7. CASE FramebufferIsNext
  <2>1. r = Framebuffer /\ HasFramebuffer
    BY <1>7, Zenon DEF FindNextMemoryRange, FramebufferIsNext
  <2>2. q \in Included
    BY <2>1, Zenon DEF ToMap
  <2>3. Candidates # {} /\ q \in Candidates
    BY <2>2, <1>6, Zenon
  <2>4. Lowest \in Candidates /\ Lowest.start <= q.start
    BY <2>3, LowestExists, Zenon
  <2>5. Lowest \in ToMap /\ Lowest \in Ranges
    BY <2>4, ToMapRanges, Zenon DEF Candidates
  <2>6. Lowest.start \in Nat /\ Lowest.end \in Nat /\ Lowest.start < Lowest.end
    BY <2>5, RangeFields
  <2>7. r.start < Lowest.end
    BY <1>7, <2>1, <2>3, Zenon DEF FramebufferIsNext
  <2>8. CASE Lowest = r
    BY <2>8, <2>4, <1>5, Zenon
  <2>9. CASE Lowest # r
    <3>1. NoOverlap(r, Lowest)
      BY <2>9, <2>5, <1>1, Zenon DEF Apart
    <3>2. r.end <= Lowest.start
      BY <3>1, <2>6, <2>7, <1>3 DEF NoOverlap
    <3> QED
      BY <3>2, <2>4, <2>6, <1>3
  <2> QED
    BY <2>8, <2>9
<1>8. CASE ~FramebufferIsNext
  <2>1. r = Lowest /\ Candidates # {}
    BY <1>8, Zenon DEF FindNextMemoryRange, HasNext
  <2>2. CASE q \in Included
    BY <2>1, <2>2, <1>5, <1>6, LowestExists, Zenon
  <2>3. CASE q \notin Included
    <3>1. q = Framebuffer /\ HasFramebuffer
      BY <2>3, Zenon DEF ToMap
    <3>2. ~(q.start < r.end)
      BY <3>1, <2>1, <1>8, Zenon DEF FramebufferIsNext
    <3> QED
      BY <3>2, <1>3
  <2> QED
    BY <2>2, <2>3
<1> QED
  BY <1>7, <1>8

LEMMA CountInvInit ==
  ASSUME Init
  PROVE  CountInv
<1>1. req \in Requests /\ pc = "count"
  BY DEF Init
<1>2. calc = [resolved |-> 0, num |-> [l \in Levels |-> 0], highest |-> [l \in Levels |-> 0]]
  BY DEF Init
<1>3. calc.resolved = 0
  BY <1>2
<1>4. \A r \in ToMap : r.start >= 0 /\ ~(r.end <= 0)
  BY <1>1, ToMapRanges, RangeFields
<1>5. Counted = {}
  BY <1>3, <1>4 DEF Counted
<1>6. ASSUME NEW l \in Levels
      PROVE  ExactAt(l)
  <2>1. calc.num[l] = 0 /\ calc.highest[l] = 0
    BY <1>2
  <2>2. Indices(Counted, l) = {}
    BY <1>5 DEF Indices
  <2>3. Managed(l) \in Nat \ {0}
    BY ManagedIsPages, LevelsFacts
  <2>4. \A x \in Nat : 0 <= x \div Managed(l)
    BY <2>3, DivisionBounds
  <2> QED
    BY <2>1, <2>2, <2>4, FS_EmptySet DEF ExactAt
<1> QED
  BY <1>1, <1>3, <1>4, <1>6 DEF CountInv

LEMMA CountedMore ==
  ASSUME Types, Apart, CountInv, CountTables
  PROVE  /\ Counted' = Counted \cup {FindNextMemoryRange}
         /\ \A q \in ToMap' : q.end <= calc'.resolved \/ q.start >= calc'.resolved
<1> DEFINE r == FindNextMemoryRange
<1>1. req' = req /\ req \in Requests /\ HasNext /\ calc.resolved \in Nat
  BY DEF CountTables, Types, TypeOK
<1>2. calc'.resolved = r.end
  BY DEF CountTables
<1>3. ToMap' = ToMap
  BY <1>1, RequestStays, Zenon
<1>4. r \in ToMap /\ r \in Ranges /\ r.start >= calc.resolved
  BY <1>1, NextRange, Zenon
<1>5. \A q \in ToMap : q # r /\ q.start >= calc.resolved => r.end <= q.start
  BY <1>1, NextIsFirst, Zenon
<1>6. \A q \in ToMap : q.end <= calc.resolved \/ q.start >= calc.resolved
  BY Zenon DEF CountInv
<1>7. \A q \in ToMap : q.start \in Nat /\ q.end \in Nat /\ q.start < q.end
  BY <1>1, ToMapRanges, RangeFields
<1> HIDE DEF r
<1>8. r.start \in Nat /\ r.end \in Nat /\ r.start < r.end
  BY <1>4, <1>7
<1>9. ASSUME NEW q \in ToMap
      PROVE  /\ q.end <= r.end <=> q.end <= calc.resolved \/ q = r
             /\ q.end <= r.end \/ q.start >= r.end
  <2>1. q.start \in Nat /\ q.end \in Nat /\ q.start < q.end
    BY <1>7
  <2>2. CASE q.end <= calc.resolved
    BY <2>1, <2>2, <1>1, <1>4, <1>8
  <2>3. CASE q = r
    BY <2>3, <1>8
  <2>4. CASE q # r /\ ~(q.end <= calc.resolved)
    <3>1. r.end <= q.start
      BY <2>4, <1>5, <1>6
    <3> QED
      BY <3>1, <2>1, <2>4, <1>8
  <2> QED
    BY <2>2, <2>3, <2>4
<1>10. Counted' = Counted \cup {r}
  BY <1>2, <1>3, <1>4, <1>9, Zenon DEF Counted
<1>11. \A q \in ToMap' : q.end <= calc'.resolved \/ q.start >= calc'.resolved
  BY <1>2, <1>3, <1>9, Zenon
<1> QED
  BY <1>10, <1>11 DEF r

LEMMA IndicesStay ==
  \A S, l : Indices(S, l)' = Indices(S, l)
  BY Zenon DEF Indices, StartIndex, EndIndex, Managed, ManagedBytes

LEMMA ExactStep ==
  ASSUME Types, Apart, CountInv, CountTables, NEW l \in Levels
  PROVE  ExactAt(l)'
<1> DEFINE r == FindNextMemoryRange
           I == Indices(Counted, l)
           s == StartIndex(r, l)
           e == EndIndex(r, l)
           h == calc.highest[l]
           n == calc.num[l]
<1>1. req \in Requests /\ HasNext /\ calc.resolved \in Nat
  BY DEF CountTables, Types, TypeOK
<1>2. r \in Ranges /\ r.start >= calc.resolved
  BY <1>1, NextRange, Zenon
<1>3. l \in 1..4
  BY LevelsFacts
<1>4. s \in Nat /\ e \in Nat /\ s <= e
  BY <1>2, <1>3, IndexBounds
<1>5. I \in SUBSET Nat
  BY <1>3, IndicesType, CountedRanges, Zenon
<1>6. h \in Nat
  BY DEF Types, TypeOK
<1>7. ExactAt(l)
  BY Zenon DEF CountInv
<1>8. CountOf(I, n, h)
  BY <1>7, Zenon DEF ExactAt, CountOf
<1>9. h <= s
  <2>1. \A x \in Nat : x >= calc.resolved => h <= x \div Managed(l)
    BY <1>7, Zenon DEF ExactAt
  <2>2. r.start \in Nat
    BY <1>2, RangeFields
  <2> QED
    BY <2>1, <2>2, <1>2, Zenon DEF StartIndex
<1>10. CountOf(I \cup (s..e), n + Fresh(n, h, s, e), e)
  <2> HIDE DEF I, s, e, h, n
  <2> QED
    BY <1>4, <1>5, <1>6, <1>8, <1>9, AddInterval, Zenon
<1>11. Indices(Counted, l)' = I \cup (s..e)
  <2>1. Counted' = Counted \cup {r}
    BY CountedMore, Zenon
  <2>2. Indices(Counted \cup {r}, l) = I \cup (s..e)
    BY IndicesMore, Zenon
  <2> QED
    BY <2>1, <2>2, IndicesStay, Zenon
<1>12. /\ calc'.num[l] = n + NewTables(r, l)
       /\ calc'.highest[l] = e
       /\ calc'.resolved = r.end
  BY DEF CountTables
<1>13. calc'.num[l] = n + Fresh(n, h, s, e)
  BY <1>12, Zenon DEF NewTables, Fresh
<1>14. ASSUME NEW x \in Nat, x >= r.end
       PROVE  e <= x \div Managed(l)
  <2>1. r.end \in Nat /\ r.end - 1 \in Nat
    BY <1>2, RangeFields
  <2>2. r.end - 1 <= x
    BY <2>1, <1>14
  <2>3. Managed(l) \in Nat \ {0}
    BY <1>3, ManagedIsPages
  <2> QED
    BY <2>1, <2>2, <2>3, DivisionIsMonotone DEF EndIndex
<1>15. \A x \in Nat : x >= calc'.resolved => calc'.highest[l] <= x \div Managed(l)
  BY <1>12, <1>14, Zenon
<1>16. (Managed(l))' = Managed(l)
  BY Zenon DEF Managed, ManagedBytes
<1> HIDE DEF r, I, s, e, h, n
<1> QED
  BY <1>10, <1>11, <1>12, <1>13, <1>15, <1>16, Zenon DEF ExactAt, CountOf

LEMMA CountInvOfCount ==
  ASSUME Types, Apart, CountInv, CountTables
  PROVE  CountInv'
<1>1. req' = req /\ pc' = "count"
  BY DEF CountTables
<1>2. Levels' = Levels
  BY <1>1, RequestStays, Zenon
<1>3. \A l \in Levels : ExactAt(l)'
  BY ExactStep
<1>4. \A q \in ToMap' : q.end <= calc'.resolved \/ q.start >= calc'.resolved
  BY CountedMore, Zenon
<1> QED
  BY <1>1, <1>2, <1>3, <1>4, Zenon DEF CountInv

LEMMA AllAreCounted ==
  ASSUME Types, CountInv, ~HasNext
  PROVE  Counted = ToMap
<1>1. req \in Requests /\ calc.resolved \in Nat
  BY DEF Types, TypeOK
<1>2. Candidates = {} /\ ~FramebufferIsNext
  BY Zenon DEF HasNext
<1>3. \A r \in ToMap : ~(r.start >= calc.resolved)
  BY <1>2, Zenon DEF ToMap, Candidates, FramebufferIsNext
<1> QED
  BY <1>3, Zenon DEF CountInv, Counted

LEMMA CountInvOfOthers ==
  ASSUME Types, CountInv, req' = req, calc' = calc,
         pc = "count" => pc' = "count" \/ ~HasNext
  PROVE  CountInv'
<1>1. Levels' = Levels /\ ToMap' = ToMap
  BY RequestStays, Zenon
<1>2. Counted' = Counted
  BY <1>1, Zenon DEF Counted
<1>3. \A l : (Managed(l))' = Managed(l)
  BY Zenon DEF Managed, ManagedBytes
<1>4. \A l : Indices(Counted, l)' = Indices(Counted, l)
  BY <1>2, IndicesStay, Zenon
<1>5. \A l \in Levels : ExactAt(l)'
  <2> TAKE l \in Levels
  <2>1. ExactAt(l)
    BY Zenon DEF CountInv
  <2> QED
    BY <2>1, <1>3, <1>4, Zenon DEF ExactAt
<1>6. pc' # "count" => Counted = ToMap
  BY AllAreCounted, Zenon DEF CountInv
<1> QED
  BY <1>1, <1>2, <1>5, <1>6, Zenon DEF CountInv

LEMMA CountInvStep ==
  ASSUME Types, Apart, CountInv, [Next]_vars
  PROVE  CountInv'
<1>1. CASE CountTables
  BY <1>1, CountInvOfCount
<1>2. CASE ~CountTables
  <2>1. req' = req /\ calc' = calc /\ (pc = "count" => pc' = "count" \/ ~HasNext)
    BY <1>2 DEF Next, CountingEnds, MapDescriptor, DescriptorsEnd, MapFramebuffer, vars
  <2> QED
    BY <2>1, CountInvOfOthers, Zenon
<1> QED
  BY <1>1, <1>2

-----------------------------------------------------------------------------
(* The buffer is as large as the tables that are made. *)

LevelTables(S, l) == {l} \X Indices(S, l)

LEMMA LevelTablesCount ==
  ASSUME NEW S, NEW l, IsFiniteSet(Indices(S, l))
  PROVE  /\ IsFiniteSet(LevelTables(S, l))
         /\ Cardinality(LevelTables(S, l)) = Cardinality(Indices(S, l))
<1>1. IsFiniteSet({l}) /\ Cardinality({l}) = 1
  BY FS_Singleton, Zenon
<1>2. /\ IsFiniteSet({l} \X Indices(S, l))
      /\ Cardinality({l} \X Indices(S, l)) = Cardinality({l}) * Cardinality(Indices(S, l))
  BY <1>1, FS_Product
<1>3. Cardinality(Indices(S, l)) \in Nat
  BY FS_CardinalityType
<1> QED
  BY <1>1, <1>2, <1>3 DEF LevelTables

LEMMA TablesByLevel ==
  ASSUME NEW S
  PROVE  TablesOf(S) = UNION {LevelTables(S, l) : l \in Levels}
  BY DEF TablesOf, TablesFor, LevelTables, Indices

LEMMA LevelsAreDisjoint ==
  ASSUME NEW S, NEW l, NEW m, l # m
  PROVE  LevelTables(S, l) \cap LevelTables(S, m) = {}
  BY DEF LevelTables

LEMMA TotalIsExact ==
  ASSUME Types, CountInv, pc # "count"
  PROVE  /\ IsFiniteSet(TablesOf(ToMap))
         /\ 1 + Cardinality(TablesOf(ToMap)) = TotalTables
<1> DEFINE T(l) == LevelTables(ToMap, l)
           C(l) == Cardinality(T(l))
<1>1. ASSUME NEW l \in Levels
      PROVE  /\ IsFiniteSet(T(l)) /\ C(l) \in Nat
             /\ calc.num[l] = C(l)
  <2>1. IsFiniteSet(Indices(ToMap, l)) /\ calc.num[l] = Cardinality(Indices(ToMap, l))
    BY Zenon DEF CountInv, ExactAt
  <2> QED
    BY <2>1, LevelTablesCount, FS_CardinalityType, Zenon
<1>2. /\ T(1) \cap T(2) = {} /\ T(1) \cap T(3) = {} /\ T(2) \cap T(3) = {}
      /\ T(1) \cap T(4) = {} /\ T(2) \cap T(4) = {} /\ T(3) \cap T(4) = {}
  BY LevelsAreDisjoint
<1>3. TablesOf(ToMap) = UNION {T(l) : l \in Levels}
  BY TablesByLevel, Zenon
<1> HIDE DEF T
<1>4. 1 \in Levels /\ 2 \in Levels /\ 3 \in Levels
  BY LevelsFacts
<1>5. /\ IsFiniteSet(T(1) \cup T(2))
      /\ Cardinality(T(1) \cup T(2)) = C(1) + C(2)
  BY <1>1, <1>2, <1>4, DisjointUnion, Zenon
<1>6. /\ IsFiniteSet((T(1) \cup T(2)) \cup T(3))
      /\ Cardinality((T(1) \cup T(2)) \cup T(3)) = (C(1) + C(2)) + C(3)
  <2>1. (T(1) \cup T(2)) \cap T(3) = {}
    BY <1>2
  <2>2. IsFiniteSet(T(3))
    BY <1>1, <1>4
  <2>3. /\ IsFiniteSet((T(1) \cup T(2)) \cup T(3))
        /\ Cardinality((T(1) \cup T(2)) \cup T(3)) = Cardinality(T(1) \cup T(2)) + Cardinality(T(3))
    BY <2>1, <2>2, <1>5, DisjointUnion
  <2> QED
    BY <2>3, <1>5, Zenon
<1>7. CASE req.kind # "map5"
  <2>1. Levels = {1, 2, 3}
    BY <1>7 DEF Levels
  <2>2. UNION {T(l) : l \in Levels} = (T(1) \cup T(2)) \cup T(3)
    BY <2>1
  <2>3. TotalTables = C(1) + C(2) + C(3) + 0 + 1
    BY <1>1, <1>4, <1>7 DEF TotalTables
  <2>4. C(1) \in Nat /\ C(2) \in Nat /\ C(3) \in Nat
    BY <1>1, <1>4
  <2> HIDE DEF C
  <2>5. 1 + ((C(1) + C(2)) + C(3)) = C(1) + C(2) + C(3) + 0 + 1
    BY <2>4
  <2> QED
    BY <2>2, <2>3, <2>5, <1>3, <1>6, Zenon
<1>8. CASE req.kind = "map5"
  <2>1. Levels = {1, 2, 3, 4}
    BY <1>8 DEF Levels
  <2>2. UNION {T(l) : l \in Levels} = ((T(1) \cup T(2)) \cup T(3)) \cup T(4)
    BY <2>1
  <2>3. TotalTables = C(1) + C(2) + C(3) + C(4) + 1
    BY <2>1, <1>1, <1>8 DEF TotalTables
  <2>4. C(1) \in Nat /\ C(2) \in Nat /\ C(3) \in Nat /\ C(4) \in Nat
    BY <2>1, <1>1
  <2>5. ((T(1) \cup T(2)) \cup T(3)) \cap T(4) = {}
    BY <1>2
  <2>6. /\ IsFiniteSet(((T(1) \cup T(2)) \cup T(3)) \cup T(4))
        /\ Cardinality(((T(1) \cup T(2)) \cup T(3)) \cup T(4)) = ((C(1) + C(2)) + C(3)) + C(4)
    <3>1. IsFiniteSet(T(4))
      BY <2>1, <1>1
    <3>2. /\ IsFiniteSet(((T(1) \cup T(2)) \cup T(3)) \cup T(4))
          /\ Cardinality(((T(1) \cup T(2)) \cup T(3)) \cup T(4))
               = Cardinality((T(1) \cup T(2)) \cup T(3)) + Cardinality(T(4))
      BY <3>1, <2>5, <1>6, DisjointUnion
    <3> QED
      BY <3>2, <1>6, Zenon
  <2> HIDE DEF C
  <2>7. 1 + (((C(1) + C(2)) + C(3)) + C(4)) = C(1) + C(2) + C(3) + C(4) + 1
    BY <2>4
  <2> QED
    BY <2>2, <2>3, <2>6, <2>7, <1>3, Zenon
<1> QED
  BY <1>7, <1>8

LEMMA RangeFits ==
  ASSUME Types, MapInv, CountInv, pc \in {"map", "framebuffer"}, NEW r \in ToMap
  PROVE  Fits(TablesFor(r))
<1>1. IsFiniteSet(TablesOf(ToMap)) /\ 1 + Cardinality(TablesOf(ToMap)) = TotalTables
  BY TotalIsExact
<1>2. Handled \subseteq ToMap
  <2>1. pc # "done"
    OBVIOUS
  <2> QED
    BY <2>1, BeforeIsIncluded, Zenon DEF Handled, ToMap
<1>3. tables = TablesOf(Handled)
  BY DEF MapInv
<1>4. tables \cup TablesFor(r) \in SUBSET TablesOf(ToMap)
  BY <1>2, <1>3, Zenon DEF TablesOf
<1>5. Cardinality(tables \cup TablesFor(r)) <= Cardinality(TablesOf(ToMap))
  BY <1>1, <1>4, FS_Subset
<1>6. Cardinality(TablesOf(ToMap)) \in Nat /\ Cardinality(tables \cup TablesFor(r)) \in Nat
  BY <1>1, <1>4, FS_Subset, FS_CardinalityType
<1> QED
  BY <1>1, <1>5, <1>6 DEF Fits

LEMMA NeverShortStep ==
  ASSUME Types, MapInv, CountInv, NeverShort, [Next]_vars
  PROVE  NeverShort'
<1>1. CASE MapDescriptor
  <2>1. pc = "map" /\ next \in DOMAIN req.descs
    BY <1>1, NextIsDescriptor DEF MapDescriptor
  <2>2. CASE ShouldInclude(req.descs[next])
    <3>1. RangeOf(next) \in ToMap
      BY <2>1, <2>2, IncludedIsBefore, Zenon DEF ToMap
    <3>2. Fits(TablesFor(RangeOf(next)))
      BY <3>1, <2>1, RangeFits
    <3>3. MapMemoryRange(RangeOf(next), "map")
      BY <1>1, <2>2, Zenon DEF MapDescriptor, RangeOf
    <3> QED
      BY <3>2, <3>3 DEF MapMemoryRange, NeverShort
  <2>3. CASE ~ShouldInclude(req.descs[next])
    BY <1>1, <2>3 DEF MapDescriptor, NeverShort
  <2> QED
    BY <2>2, <2>3
<1>2. CASE MapFramebuffer
  <2>1. pc = "framebuffer" /\ MapMemoryRange(Framebuffer, "done")
    BY <1>2 DEF MapFramebuffer
  <2>2. HasFramebuffer
    BY <2>1 DEF MapInv
  <2>3. Framebuffer \in ToMap
    BY <2>2, Zenon DEF ToMap
  <2>4. Fits(TablesFor(Framebuffer))
    BY <2>1, <2>3, RangeFits
  <2> QED
    BY <2>1, <2>4 DEF MapMemoryRange, NeverShort
<1>3. CASE CountTables \/ CountingEnds \/ DescriptorsEnd \/ UNCHANGED vars
  BY <1>3 DEF CountTables, CountingEnds, DescriptorsEnd, vars, NeverShort
<1> QED
  BY <1>1, <1>2, <1>3, Zenon DEF Next

LEMMA TablesSuffice ==
  ASSUME Types, MapInv, CountInv, NeverShort
  PROVE  CountedTablesSuffice
<1>1. CASE pc # "done"
  BY <1>1 DEF CountedTablesSuffice, NeverShort
<1>2. CASE pc = "done"
  <2>1. tables = TablesOf(ToMap)
    BY <1>2, AllIsHandled DEF MapInv
  <2>2. 1 + Cardinality(tables) = TotalTables
    BY <1>2, <2>1, TotalIsExact
  <2> QED
    BY <1>2, <2>2 DEF CountedTablesSuffice
<1> QED
  BY <1>1, <1>2

-----------------------------------------------------------------------------

LEMMA IInvInit ==
  ASSUME Init
  PROVE  IInv
<1>1. Types /\ CountInv
  BY TypesInit, CountInvInit
<1>2. NeverShort /\ MapInv
  BY DEF Init, NeverShort, MapInv
<1> QED
  BY <1>1, <1>2 DEF IInv

LEMMA IInvStep ==
  ASSUME IInv, [Next]_vars
  PROVE  IInv'
<1>1. Types /\ MapInv /\ (Apart => CountInv /\ NeverShort)
  BY Zenon DEF IInv
<1>2. Types' /\ MapInv'
  BY <1>1, TypesStep, MapInvStep, Zenon
<1>3. req' = req
  BY DEF Next, CountTables, CountingEnds, MapDescriptor, DescriptorsEnd, MapFramebuffer, vars
<1>4. Apart' = Apart
  BY <1>3, RequestStays, Zenon
<1>5. Apart => CountInv' /\ NeverShort'
  BY <1>1, CountInvStep, NeverShortStep, Zenon
<1> QED
  BY <1>2, <1>4, <1>5, Zenon DEF IInv

LEMMA Invariance == Spec => []IInv
<1>1. Init => IInv
  BY IInvInit
<1>2. IInv /\ [Next]_vars => IInv'
  BY IInvStep
<1> QED
  BY <1>1, <1>2, PTL DEF Spec

(* For every memory map, in any order, whose ranges lie apart from each    *)
(* other and from the framebuffer, and for maps of either depth: making    *)
(* the page map never runs out of the tables that were counted before the  *)
(* buffer was allocated, and uses every one of them.  Where the            *)
(* framebuffer lies inside a range it takes the place of the rest of that  *)
(* range in the count, which can then be short.                            *)
THEOREM CountIsExact == Spec => [](Apart => CountedTablesSuffice)
<1>1. IInv => (Apart => CountedTablesSuffice)
  BY TablesSuffice DEF IInv
<1> QED
  BY <1>1, Invariance, PTL

(* For every memory map, overlapping or not, and every framebuffer,        *)
(* aligned or not: a page map that is done maps each address that has to   *)
(* be mapped, with a table at each level, and no page without any.         *)
THEOREM EverythingIsMapped == Spec => []AllAndOnlyIncludedIsMapped
<1>1. IInv => AllAndOnlyIncludedIsMapped
  BY AllIsMapped DEF IInv
<1> QED
  BY <1>1, Invariance, PTL
=============================================================================

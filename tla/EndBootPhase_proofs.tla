------------------------ MODULE EndBootPhase_proofs ------------------------
(***************************************************************************)
(* The end of the boot phase for every page map size, every size of the    *)
(* buffers and any number of firmware events and failed allocations.       *)
(***************************************************************************)
EXTENDS EndBootPhase, TLAPS, FiniteSetTheorems

-----------------------------------------------------------------------------
(* Arithmetic of the layout. *)

LEMMA DivisionBounds ==
  ASSUME NEW y \in Nat, NEW a \in Nat \ {0}
  PROVE  /\ y \div a \in Nat
         /\ a * (y \div a) <= y
         /\ y < a * (y \div a) + a
  OBVIOUS

LEMMA AlignUpBounds ==
  ASSUME NEW x \in Nat, NEW a \in Nat \ {0}
  PROVE  /\ AlignUp(x, a) \in Nat
         /\ AlignUp(x, a) >= x
<1> DEFINE y == x + a - 1
           q == y \div a
<1>1. y \in Nat
  OBVIOUS
<1>2. q \in Nat /\ y < a * q + a
  BY <1>1, DivisionBounds
<1>3. a * q = q * a /\ q * a \in Nat
  BY <1>2
<1> QED
  BY <1>1, <1>2, <1>3 DEF AlignUp

LEMMA PagesArePositive ==
  ASSUME NEW x \in Nat \ {0}, NEW a \in Nat \ {0}
  PROVE  AlignUp(x, a) \div a \in Nat \ {0}
<1> DEFINE z == AlignUp(x, a)
<1>1. z \in Nat /\ z >= x
  BY AlignUpBounds
<1>2. z \div a \in Nat /\ z < a * (z \div a) + a
  BY <1>1, DivisionBounds
<1> QED
  BY <1>1, <1>2 DEF AlignUp
-----------------------------------------------------------------------------
(* The inductive invariant. *)

Places == [offset : Nat, size : Nat]
Layouts == [map : Places, tmp : Places, reloc : Places, scratch : Places, total : Nat]
PartNames == {"map", "tmp", "reloc", "scratch"}

Rooms == Nat \ {0}
Pages == [num : Nat \ {0}, low : BOOLEAN]
Buffers(V) == UNION {[S -> V] : S \in SUBSET Int}

Types ==
  /\ fw \in [descs : 1..MaxDescs, pool : Buffers(Rooms), pages : Buffers(Pages),
             events : 0..MaxEvents, poolFailures : 0..PoolFailures, pageFailures : 0..PageFailures]
  /\ pc \in {"freePages", "allocPages", "freePool", "allocPool", "getMap", "fill", "exit",
             "setup", "switch", "done", "error"}
  /\ setup \in [type : SetupTypes, codeLow : BOOLEAN]
  /\ map \in [buf : Nat, room : Nat \ {0}, current : BOOLEAN,
              copy : [descs : 1..MaxDescs, pool : SUBSET Int, pages : SUBSET Int]]
  /\ pmb \in [buf : Nat \cup {FourGiB}, pages : Nat]
  /\ num \in [prev : Nat, new : Nat \ {0}]
  /\ parts \in Layouts
  /\ paging \in {"firmware", "transitional", "kernel"}

(* At most one page map buffer is allocated, the one the code knows, and   *)
(* FreePages is called with the number of pages it was allocated with.     *)
PagesInv ==
  /\ DOMAIN fw.pages \subseteq {pmb.buf}
  /\ pc = "allocPages" => DOMAIN fw.pages = {}
  /\ pc = "freePages" /\ num.prev = 0 => DOMAIN fw.pages = {}
  /\ PagesWereAllocated =>
       /\ pc = "freePages" /\ num.prev # 0 =>
            pmb.buf \in DOMAIN fw.pages /\ fw.pages[pmb.buf].num = num.prev
       /\ pc \in {"freePool", "allocPool", "getMap", "fill", "exit", "setup", "switch", "done"} =>
            /\ pmb.buf \in DOMAIN fw.pages
            /\ fw.pages[pmb.buf].num = num.new
            /\ setup.type = "4to5" => fw.pages[pmb.buf].low

(* So it is with the memory map's buffer. *)
PoolInv ==
  /\ pc \in {"freePages", "allocPages", "freePool"} =>
       DOMAIN fw.pool = IF map.buf = Null THEN {} ELSE {map.buf}
  /\ pc = "allocPool" => DOMAIN fw.pool = {}
  /\ pc \in {"getMap", "fill", "exit", "setup", "switch", "done"} =>
       map.buf # Null /\ DOMAIN fw.pool = {map.buf}

(* As long as the key is good the copy is the firmware's map. *)
KeyInv ==
  /\ map.current => map.copy = Snapshot
  /\ Exited => map.current

(* What ExitBootServices is tried with was laid out for the map just read. *)
LayoutInv ==
  pc \in {"exit", "setup", "switch", "done"} =>
    /\ parts = PartsOf(map.copy.descs)
    /\ num.new * PageSize >= parts.total
    /\ pmb.pages = num.new

BootInv == Types /\ PagesInv /\ PoolInv /\ KeyInv /\ LayoutInv
-----------------------------------------------------------------------------
(* The firmware's tables of buffers. *)

LEMMA WithoutType ==
  ASSUME NEW V, NEW f \in Buffers(V), NEW x
  PROVE  /\ Without(f, x) \in Buffers(V)
         /\ DOMAIN Without(f, x) = DOMAIN f \ {x}
<1>1. PICK S \in SUBSET Int : f \in [S -> V]
  BY DEF Buffers
<1>2. Without(f, x) \in [S \ {x} -> V]
  BY <1>1 DEF Without
<1>3. S \ {x} \in SUBSET Int
  OBVIOUS
<1> QED
  BY <1>1, <1>2, <1>3 DEF Buffers

LEMMA WithDomain ==
  ASSUME NEW f, NEW x, NEW v
  PROVE  DOMAIN With(f, x, v) = DOMAIN f \cup {x}
BY DEF With

LEMMA WithValue ==
  ASSUME NEW f, NEW x, NEW v
  PROVE  With(f, x, v)[x] = v
BY DEF With

LEMMA WithType ==
  ASSUME NEW V, NEW f \in Buffers(V), NEW x \in Int, NEW v \in V
  PROVE  With(f, x, v) \in Buffers(V)
<1>1. PICK S \in SUBSET Int : f \in [S -> V]
  BY DEF Buffers
<1>2. With(f, x, v) \in [S \cup {x} -> V]
  BY <1>1 DEF With
<1>3. S \cup {x} \in SUBSET Int
  OBVIOUS
<1> QED
  BY <1>2, <1>3 DEF Buffers

LEMMA DomainType ==
  ASSUME NEW V, NEW f \in Buffers(V)
  PROVE  DOMAIN f \in SUBSET Int
BY DEF Buffers

LEMMA EmptyType ==
  ASSUME NEW V
  PROVE  << >> \in Buffers(V) /\ DOMAIN << >> = {}
<1>1. << >> \in [{} -> V]
  OBVIOUS
<1> QED
  BY <1>1 DEF Buffers

LEMMA FreshOfNone == Fresh({}) = 1
<1>1. Cardinality({}) = 0
  BY FS_EmptySet
<1>2. \E n \in 1..1 : n \notin {}
  OBVIOUS
<1>3. Fresh({}) \in 1..1
  BY <1>1, <1>2 DEF Fresh
<1> QED
  BY <1>3

(* FillPageMapSizes puts the parts one after the other, for each type. *)
LEMMA PartsOfLayout ==
  ASSUME Types, NEW d \in 1..MaxDescs
  PROVE  LET p == PartsOf(d)
         IN  /\ p \in Layouts /\ p.total > 0
             /\ p.map = Part(0, IF setup.type = "4" THEN Need4[d] ELSE Need5[d])
             /\ \A i \in PartNames : p[i].offset + p[i].size <= p.total
             /\ \A i, j \in PartNames : i # j /\ p[i].size > 0 /\ p[j].size > 0 =>
                  \/ p[i].offset + p[i].size <= p[j].offset
                  \/ p[j].offset + p[j].size <= p[i].offset
             /\ Copied => p.reloc.size = RelocSize /\ p.tmp.size = NeedTmp[d]
<1> DEFINE tmpAt == AlignUp(Need5[d], PageSize)
           relocAt == AlignUp(tmpAt + NeedTmp[d], PageSize)
           scratchLow == AlignUp(Need5[d], ScratchAlign)
           scratchHigh == AlignUp(relocAt + RelocSize, ScratchAlign)
           p == PartsOf(d)
<1>1. /\ {Need4[d], Need5[d], NeedTmp[d]} \subseteq Nat \ {0}
      /\ {PageSize, RelocSize, ScratchSize, ScratchAlign} \subseteq Nat \ {0}
  BY SizesAssumption
<1>2. tmpAt \in Nat /\ tmpAt >= Need5[d]
  BY <1>1, AlignUpBounds
<1>3. relocAt \in Nat /\ relocAt >= tmpAt + NeedTmp[d]
  BY <1>1, <1>2, AlignUpBounds
<1>4. scratchLow \in Nat /\ scratchLow >= Need5[d]
  BY <1>1, AlignUpBounds
<1>5. scratchHigh \in Nat /\ scratchHigh >= relocAt + RelocSize
  BY <1>1, <1>3, AlignUpBounds
<1> HIDE DEF tmpAt, relocAt, scratchLow, scratchHigh
<1>6. setup.type \in {"4", "5", "4to5"} /\ setup.codeLow \in BOOLEAN
  BY SizesAssumption DEF Types
<1>7. CASE setup.type = "4"
  <2>1. p = [map |-> Part(0, Need4[d]), tmp |-> None, reloc |-> None, scratch |-> None,
             total |-> Need4[d]]
    BY <1>7 DEF PartsOf
  <2> QED
    BY <1>1, <1>7, <2>1 DEF Layouts, Places, PartNames, Part, None, Copied
<1>8. CASE setup.type = "5"
  <2>1. p = [map |-> Part(0, Need5[d]), tmp |-> None, reloc |-> None, scratch |-> None,
             total |-> Need5[d]]
    BY <1>8 DEF PartsOf
  <2> QED
    BY <1>1, <1>8, <2>1 DEF Layouts, Places, PartNames, Part, None, Copied
<1>9. CASE setup.type = "4to5" /\ setup.codeLow
  <2>1. p = [map |-> Part(0, Need5[d]), tmp |-> None, reloc |-> None,
             scratch |-> Part(scratchLow, ScratchSize), total |-> scratchLow + ScratchSize]
    BY <1>9 DEF PartsOf, scratchLow
  <2> QED
    BY <1>1, <1>4, <1>9, <2>1 DEF Layouts, Places, PartNames, Part, None, Copied
<1>10. CASE setup.type = "4to5" /\ ~setup.codeLow
  <2>1. p = [map |-> Part(0, Need5[d]), tmp |-> Part(tmpAt, NeedTmp[d]),
             reloc |-> Part(relocAt, RelocSize),
             scratch |-> Part(scratchHigh, ScratchSize), total |-> scratchHigh + ScratchSize]
    BY <1>10 DEF PartsOf, tmpAt, relocAt, scratchHigh
  <2> HIDE DEF p
  <2>2. p \in Layouts /\ p.total > 0 /\ p.map = Part(0, Need5[d])
    BY <1>1, <1>2, <1>3, <1>5, <2>1 DEF Layouts, Places, Part
  <2>3. /\ p.map.offset = 0 /\ p.map.size = Need5[d]
        /\ p.tmp.offset = tmpAt /\ p.tmp.size = NeedTmp[d]
        /\ p.reloc.offset = relocAt /\ p.reloc.size = RelocSize
        /\ p.scratch.offset = scratchHigh /\ p.scratch.size = ScratchSize
        /\ p.total = scratchHigh + ScratchSize
    BY <2>1 DEF Part
  <2>4. \A i \in PartNames : p[i].offset + p[i].size <= p.total
    BY <1>1, <1>2, <1>3, <1>5, <2>3 DEF PartNames
  <2>5. \A i, j \in PartNames : i # j =>
          \/ p[i].offset + p[i].size <= p[j].offset
          \/ p[j].offset + p[j].size <= p[i].offset
    BY <1>1, <1>2, <1>3, <1>5, <2>3 DEF PartNames
  <2> QED
    BY <1>10, <2>2, <2>3, <2>4, <2>5 DEF p
<1> QED
  BY <1>6, <1>7, <1>8, <1>9, <1>10
-----------------------------------------------------------------------------
(* The invariant holds, and what follows from it. *)

LEMMA BoundsType == MaxEvents \in Nat /\ PoolFailures \in Nat /\ PageFailures \in Nat
BY SizesAssumption

(* Fields of the firmware's state, for the steps that change some. *)
LEMMA FirmwareFields ==
  ASSUME Types
  PROVE  /\ fw.pool \in Buffers(Rooms)
         /\ fw.pages \in Buffers(Pages)
         /\ fw.events \in Nat /\ fw.events <= MaxEvents
         /\ fw.poolFailures \in Nat /\ fw.poolFailures <= PoolFailures
         /\ fw.pageFailures \in Nat /\ fw.pageFailures <= PageFailures
BY BoundsType DEF Types

LEMMA InitBootInv == Init => BootInv
<1> SUFFICES ASSUME Init PROVE BootInv
  OBVIOUS
<1>1. DOMAIN fw.pool = {} /\ DOMAIN fw.pages = {}
  BY EmptyType DEF Init
<1>2. /\ fw.pool \in Buffers(Rooms)
      /\ fw.pages \in Buffers(Pages)
  BY EmptyType DEF Init
<1>3. Types
  BY <1>2, SizesAssumption DEF Init, Types, Layouts, Places, None, Part, Null
<1> QED
  BY <1>1, <1>3 DEF Init, BootInv, PagesInv, PoolInv, KeyInv, LayoutInv, Exited

(* An event or a call of the firmware that leaves the buffers alone. *)
LEMMA FirmwareEventKeeps == BootInv /\ FirmwareEvent => BootInv'
<1> SUFFICES ASSUME BootInv, FirmwareEvent PROVE BootInv'
  OBVIOUS
<1>1. /\ UNCHANGED <<pc, setup, pmb, num, parts, paging>>
      /\ map' = [map EXCEPT !.current = FALSE]
  BY DEF FirmwareEvent
<1>0. fw.events - 1 \in 0..MaxEvents
  BY FirmwareFields, BoundsType DEF FirmwareEvent, BootInv
<1>2. PICK d \in 1..MaxDescs : fw' = [fw EXCEPT !.descs = d, !.events = @ - 1]
  BY DEF FirmwareEvent, Descs
<1>3. Types'
  BY <1>0, <1>1, <1>2 DEF BootInv, Types
<1>4. fw'.pool = fw.pool /\ fw'.pages = fw.pages /\ fw'.pageFailures = fw.pageFailures
  BY <1>2 DEF BootInv, Types
<1>5. map'.current = FALSE /\ map'.copy = map.copy /\ map'.buf = map.buf
  BY <1>1 DEF BootInv, Types
<1>6. PagesInv'
  BY <1>1, <1>4 DEF BootInv, PagesInv, PagesWereAllocated
<1>7. PoolInv'
  BY <1>1, <1>4, <1>5 DEF BootInv, PoolInv
<1>8. KeyInv'
  BY <1>1, <1>5 DEF BootInv, KeyInv, Exited, FirmwareEvent
<1>9. LayoutInv'
  BY <1>1, <1>5 DEF BootInv, LayoutInv, PartsOf
<1> QED
  BY <1>3, <1>6, <1>7, <1>8, <1>9 DEF BootInv

LEMMA FreePagesKeeps == BootInv /\ FreePages => BootInv'
<1> SUFFICES ASSUME BootInv, FreePages PROVE BootInv'
  OBVIOUS
<1>1. pc = "freePages" /\ UNCHANGED <<setup, pmb, num, parts, paging>>
  BY DEF FreePages
<1>2. CASE num.prev = 0
  BY <1>1, <1>2 DEF FreePages, BootInv, Types, PagesInv, PoolInv, KeyInv, LayoutInv,
     Exited, PagesWereAllocated, Snapshot
<1>3. CASE num.prev # 0 /\ pmb.buf \in DOMAIN fw.pages /\ fw.pages[pmb.buf].num = num.prev
  <2>1. /\ pc' = "allocPages"
        /\ map' = [map EXCEPT !.current = FALSE]
    BY <1>3 DEF FreePages
  <2>2. PICK d \in 1..MaxDescs :
          fw' = [fw EXCEPT !.pages = Without(@, pmb.buf), !.descs = d]
    BY <1>3 DEF FreePages, Descs
  <2>3. /\ fw'.pages = Without(fw.pages, pmb.buf) /\ fw'.pool = fw.pool
        /\ map'.current = FALSE /\ map'.buf = map.buf
    BY <2>1, <2>2 DEF BootInv, Types
  <2>4. /\ fw'.pages \in Buffers(Pages)
        /\ DOMAIN fw'.pages = {}
    <3>1. fw.pages \in Buffers(Pages)
      BY FirmwareFields DEF BootInv
    <3>2. DOMAIN fw.pages \ {pmb.buf} = {}
      BY DEF BootInv, PagesInv
    <3>3. /\ Without(fw.pages, pmb.buf) \in Buffers(Pages)
          /\ DOMAIN Without(fw.pages, pmb.buf) = DOMAIN fw.pages \ {pmb.buf}
      BY <3>1, WithoutType, Zenon
    <3> QED
      BY <2>3, <3>2, <3>3
  <2>5. Types'
    BY <1>1, <2>1, <2>2, <2>3, <2>4 DEF BootInv, Types
  <2> QED
    BY <1>1, <2>1, <2>3, <2>4, <2>5 DEF BootInv, PagesInv, PoolInv, KeyInv, LayoutInv,
       Exited
<1>4. CASE num.prev # 0 /\ ~(pmb.buf \in DOMAIN fw.pages /\ fw.pages[pmb.buf].num = num.prev)
  <2>1. pc' = "freePool" /\ UNCHANGED <<fw, map>>
    BY <1>4 DEF FreePages
  <2>2. ~PagesWereAllocated
    BY <1>1, <1>4 DEF BootInv, PagesInv
  <2> QED
    BY <1>1, <2>1, <2>2 DEF BootInv, Types, PagesInv, PoolInv, KeyInv, LayoutInv, Exited,
       PagesWereAllocated, Snapshot
<1> QED
  BY <1>2, <1>3, <1>4

LEMMA AllocatePagesKeeps == BootInv /\ AllocatePages => BootInv'
<1> SUFFICES ASSUME BootInv, AllocatePages PROVE BootInv'
  OBVIOUS
<1>1. /\ pc = "allocPages" /\ pc' = "freePool"
      /\ UNCHANGED <<setup, num, parts, paging>>
      /\ map' = [map EXCEPT !.current = FALSE]
  BY DEF AllocatePages
<1>2. Fresh(DOMAIN fw.pages) = 1
  BY <1>1, FreshOfNone DEF BootInv, PagesInv
<1>3. PICK d \in 1..MaxDescs, low \in BOOLEAN :
        /\ setup.type = "4to5" => low
        /\ fw' = [fw EXCEPT !.pages = With(@, 1, [num |-> num.new, low |-> low]), !.descs = d]
        /\ pmb' = [pmb EXCEPT !.buf = 1]
  BY <1>2 DEF AllocatePages, Descs
<1> DEFINE got == [num |-> num.new, low |-> low]
<1>4. /\ fw'.pages = With(fw.pages, 1, got) /\ fw'.pool = fw.pool
      /\ fw'.pageFailures = fw.pageFailures
      /\ map'.current = FALSE /\ map'.buf = map.buf /\ pmb'.buf = 1
  BY <1>1, <1>3 DEF BootInv, Types
<1>5. got \in Pages /\ got.num = num.new /\ got.low = low
  BY DEF BootInv, Types, Pages
<1> HIDE DEF got
<1>6. /\ fw'.pages \in Buffers(Pages)
      /\ DOMAIN fw'.pages = {1} /\ fw'.pages[1] = got
  <2>1. fw.pages \in Buffers(Pages)
    BY FirmwareFields DEF BootInv
  <2>2. DOMAIN fw.pages = {}
    BY <1>1 DEF BootInv, PagesInv
  <2>3. DOMAIN With(fw.pages, 1, got) = DOMAIN fw.pages \cup {1}
    BY WithDomain
  <2>4. With(fw.pages, 1, got)[1] = got
    BY WithValue
  <2>5. With(fw.pages, 1, got) \in Buffers(Pages)
    BY <1>5, <2>1, WithType
  <2> QED
    BY <1>4, <2>2, <2>3, <2>4, <2>5
<1>7. Types'
  BY <1>1, <1>3, <1>4, <1>6 DEF BootInv, Types
<1>8. PagesInv'
  BY <1>1, <1>3, <1>4, <1>5, <1>6 DEF BootInv, PagesInv
<1> QED
  BY <1>1, <1>4, <1>7, <1>8 DEF BootInv, PoolInv, KeyInv, LayoutInv, Exited

LEMMA AllocatePagesFailsKeeps == BootInv /\ AllocatePagesFails => BootInv'
<1> SUFFICES ASSUME BootInv, AllocatePagesFails PROVE BootInv'
  OBVIOUS
<1>1. /\ pc = "allocPages" /\ pc' = "freePool" /\ fw.pageFailures > 0
      /\ fw' = [fw EXCEPT !.pageFailures = @ - 1]
      /\ pmb' = IF setup.type = "4to5" THEN [pmb EXCEPT !.buf = FourGiB] ELSE pmb
      /\ UNCHANGED <<setup, map, num, parts, paging>>
  BY DEF AllocatePagesFails
<1>2. /\ fw'.pages = fw.pages /\ fw'.pool = fw.pool /\ fw'.descs = fw.descs
      /\ fw'.pageFailures = fw.pageFailures - 1
  BY <1>1 DEF BootInv, Types
<1>3. /\ fw'.pageFailures \in 0..PageFailures
      /\ fw'.pageFailures # PageFailures
  BY <1>1, <1>2, FirmwareFields, BoundsType DEF BootInv
<1>4. PagesInv'
  <2>1. ~PagesWereAllocated'
    BY <1>3 DEF PagesWereAllocated
  <2>2. DOMAIN fw'.pages = {}
    BY <1>1, <1>2 DEF BootInv, PagesInv
  <2> QED
    BY <1>1, <2>1, <2>2 DEF PagesInv
<1>5. Types'
  BY <1>1, <1>2, <1>3 DEF BootInv, Types
<1> QED
  BY <1>1, <1>2, <1>4, <1>5 DEF BootInv, PoolInv, KeyInv, LayoutInv, Exited, Snapshot

LEMMA FreePoolKeeps == BootInv /\ FreePool => BootInv'
<1> SUFFICES ASSUME BootInv, FreePool PROVE BootInv'
  OBVIOUS
<1>1. /\ pc = "freePool" /\ pc' = "allocPool"
      /\ UNCHANGED <<setup, pmb, num, parts, paging>>
  BY DEF FreePool
<1>2. CASE map.buf = Null
  <2>1. UNCHANGED <<fw, map>>
    BY <1>2 DEF FreePool
  <2> QED
    BY <1>1, <1>2, <2>1 DEF BootInv, Types, PagesInv, PoolInv, KeyInv, LayoutInv, Exited,
       PagesWereAllocated, Snapshot
<1>3. CASE map.buf # Null
  <2>1. map' = [map EXCEPT !.current = FALSE]
    BY <1>3 DEF FreePool
  <2>2. PICK d \in 1..MaxDescs : fw' = [fw EXCEPT !.pool = Without(@, map.buf), !.descs = d]
    BY <1>3 DEF FreePool, Descs
  <2>3. /\ fw'.pool = Without(fw.pool, map.buf) /\ fw'.pages = fw.pages
        /\ fw'.pageFailures = fw.pageFailures
        /\ map'.current = FALSE /\ map'.buf = map.buf
    BY <2>1, <2>2 DEF BootInv, Types
  <2>4. fw'.pool \in Buffers(Rooms) /\ DOMAIN fw'.pool = {}
    <3>1. fw.pool \in Buffers(Rooms)
      BY FirmwareFields DEF BootInv
    <3>2. DOMAIN fw.pool \ {map.buf} = {}
      BY <1>1, <1>3 DEF BootInv, PoolInv
    <3>3. /\ Without(fw.pool, map.buf) \in Buffers(Rooms)
          /\ DOMAIN Without(fw.pool, map.buf) = DOMAIN fw.pool \ {map.buf}
      BY <3>1, WithoutType, Zenon
    <3> QED
      BY <2>3, <3>2, <3>3
  <2>5. Types'
    BY <1>1, <2>1, <2>2, <2>3, <2>4 DEF BootInv, Types
  <2>6. PagesInv'
    BY <1>1, <2>3 DEF BootInv, PagesInv, PagesWereAllocated
  <2> QED
    BY <1>1, <2>3, <2>4, <2>5, <2>6 DEF BootInv, PoolInv, KeyInv, LayoutInv, Exited
<1> QED
  BY <1>2, <1>3

LEMMA AllocatePoolKeeps == BootInv /\ AllocatePool => BootInv'
<1> SUFFICES ASSUME BootInv, AllocatePool PROVE BootInv'
  OBVIOUS
<1>1. /\ pc = "allocPool" /\ pc' = "getMap"
      /\ UNCHANGED <<setup, pmb, num, parts, paging>>
  BY DEF AllocatePool
<1>2. DOMAIN fw.pool = {}
  BY <1>1 DEF BootInv, PoolInv
<1>3. Fresh(DOMAIN fw.pool) = 1
  BY <1>2, FreshOfNone
<1>4. PICK d \in 1..MaxDescs :
        /\ fw' = [fw EXCEPT !.pool = With(@, 1, map.room), !.descs = d]
        /\ map' = [map EXCEPT !.buf = 1, !.current = FALSE]
  BY <1>3 DEF AllocatePool, Descs
<1>5. /\ fw'.pool = With(fw.pool, 1, map.room) /\ fw'.pages = fw.pages
      /\ fw'.pageFailures = fw.pageFailures
      /\ map'.current = FALSE /\ map'.buf = 1
  BY <1>4 DEF BootInv, Types
<1>6. fw'.pool \in Buffers(Rooms) /\ DOMAIN fw'.pool = {1}
  <2>1. fw.pool \in Buffers(Rooms) /\ map.room \in Rooms
    BY FirmwareFields DEF BootInv, Types, Rooms
  <2>2. DOMAIN With(fw.pool, 1, map.room) = DOMAIN fw.pool \cup {1}
    BY WithDomain
  <2>3. With(fw.pool, 1, map.room) \in Buffers(Rooms)
    BY <2>1, WithType
  <2> QED
    BY <1>2, <1>5, <2>2, <2>3
<1>7. Types'
  BY <1>1, <1>4, <1>5, <1>6 DEF BootInv, Types
<1>8. PagesInv'
  BY <1>1, <1>5 DEF BootInv, PagesInv, PagesWereAllocated
<1> QED
  BY <1>1, <1>5, <1>6, <1>7, <1>8 DEF BootInv, PoolInv, KeyInv, LayoutInv, Exited, Null

LEMMA AllocatePoolFailsKeeps == BootInv /\ AllocatePoolFails => BootInv'
<1> SUFFICES ASSUME BootInv, AllocatePoolFails PROVE BootInv'
  OBVIOUS
<1>1. /\ pc' = "error" /\ fw.poolFailures > 0
      /\ fw' = [fw EXCEPT !.poolFailures = @ - 1]
      /\ UNCHANGED <<setup, map, pmb, num, parts, paging>>
  BY DEF AllocatePoolFails
<1>2. fw.poolFailures - 1 \in 0..PoolFailures
  BY <1>1, FirmwareFields, BoundsType DEF BootInv
<1>3. /\ fw'.pages = fw.pages /\ fw'.pool = fw.pool /\ fw'.descs = fw.descs
  BY <1>1 DEF BootInv, Types
<1>4. Types'
  BY <1>1, <1>2 DEF BootInv, Types
<1> QED
  BY <1>1, <1>3, <1>4 DEF BootInv, PagesInv, PoolInv, KeyInv, LayoutInv, Exited, Snapshot

LEMMA GetMemoryMapKeeps == BootInv /\ GetMemoryMap => BootInv'
<1> SUFFICES ASSUME BootInv, GetMemoryMap PROVE BootInv'
  OBVIOUS
<1>1. pc = "getMap" /\ UNCHANGED <<fw, setup, pmb, num, parts, paging>>
  BY DEF GetMemoryMap
<1>2. fw.descs \in 1..MaxDescs /\ fw.descs \in Nat \ {0} /\ fw.descs + 2 \in Nat \ {0}
  <2>1. fw.descs \in 1..MaxDescs
    BY DEF BootInv, Types
  <2>2. MaxDescs \in Nat
    BY SizesAssumption
  <2> QED
    BY <2>1, <2>2
<1>3. Snapshot \in [descs : 1..MaxDescs, pool : SUBSET Int, pages : SUBSET Int]
  <2>1. fw.pool \in Buffers(Rooms) /\ fw.pages \in Buffers(Pages)
    BY FirmwareFields DEF BootInv
  <2>2. DOMAIN fw.pool \in SUBSET Int
    BY <2>1, DomainType
  <2>3. DOMAIN fw.pages \in SUBSET Int
    BY <2>1, DomainType
  <2> QED
    BY <1>2, <2>2, <2>3 DEF Snapshot
<1>4. CASE map.room >= fw.descs
  <2>1. /\ map' = [map EXCEPT !.current = TRUE, !.room = fw.descs, !.copy = Snapshot]
        /\ pc' = "fill"
    BY <1>4 DEF GetMemoryMap
  <2>2. Types'
    BY <1>1, <1>2, <1>3, <2>1 DEF BootInv, Types
  <2>3. map'.copy = Snapshot /\ map'.buf = map.buf
    BY <2>1 DEF BootInv, Types
  <2> QED
    BY <1>1, <2>1, <2>2, <2>3 DEF BootInv, PagesInv, PoolInv, KeyInv, LayoutInv, Exited,
       PagesWereAllocated, Snapshot
<1>5. CASE ~(map.room >= fw.descs)
  <2>1. map' = [map EXCEPT !.room = fw.descs + 2] /\ pc' = "freePool"
    BY <1>5 DEF GetMemoryMap
  <2>2. Types'
    BY <1>1, <1>2, <2>1 DEF BootInv, Types
  <2>3. map'.copy = map.copy /\ map'.buf = map.buf /\ map'.current = map.current
    BY <2>1 DEF BootInv, Types
  <2> QED
    BY <1>1, <2>1, <2>2, <2>3 DEF BootInv, PagesInv, PoolInv, KeyInv, LayoutInv, Exited,
       PagesWereAllocated, Snapshot
<1> QED
  BY <1>4, <1>5

LEMMA FillPageMapSizesKeeps == BootInv /\ FillPageMapSizes => BootInv'
<1> SUFFICES ASSUME BootInv, FillPageMapSizes PROVE BootInv'
  OBVIOUS
<1> DEFINE p == PartsOf(map.copy.descs)
           required == AlignUp(p.total, PageSize) \div PageSize
<1>1. /\ pc = "fill" /\ parts' = p
      /\ pmb' = [pmb EXCEPT !.pages = num.new]
      /\ UNCHANGED <<fw, setup, map, paging>>
  BY DEF FillPageMapSizes
<1>2. map.copy.descs \in 1..MaxDescs
  BY DEF BootInv, Types
<1>3. p \in Layouts /\ p.total > 0
  BY <1>2, PartsOfLayout DEF BootInv
<1>4. p.total \in Nat \ {0}
  BY <1>3 DEF Layouts
<1>5. required \in Nat \ {0} /\ PageSize \in Nat
  BY <1>4, PagesArePositive, SizesAssumption
<1>6. p' = p
  BY <1>1 DEF PartsOf
<1> HIDE DEF p, required
<1>7. pmb'.buf = pmb.buf /\ pmb'.pages = num.new /\ num.new \in Nat \ {0}
  BY <1>1 DEF BootInv, Types
<1>8. CASE num.new * PageSize >= p.total
  <2>1. pc' = "exit" /\ UNCHANGED num
    BY <1>8 DEF FillPageMapSizes, p
  <2>2. Types'
    BY <1>1, <1>3, <1>7, <2>1 DEF BootInv, Types
  <2>3. LayoutInv'
    BY <1>1, <1>6, <1>7, <1>8, <2>1 DEF LayoutInv, p
  <2> QED
    BY <1>1, <1>7, <2>1, <2>2, <2>3 DEF BootInv, PagesInv, PoolInv, KeyInv, Exited,
       PagesWereAllocated, Snapshot
<1>9. CASE ~(num.new * PageSize >= p.total)
  <2>1. pc' = "freePages" /\ num' = [prev |-> num.new, new |-> 2 * required]
    BY <1>9 DEF FillPageMapSizes, p, required
  <2>2. 2 * required \in Nat \ {0}
    BY <1>5
  <2>3. Types'
    BY <1>1, <1>3, <1>7, <2>1, <2>2 DEF BootInv, Types
  <2> QED
    BY <1>1, <1>7, <2>1, <2>3 DEF BootInv, PagesInv, PoolInv, KeyInv, LayoutInv, Exited,
       PagesWereAllocated, Snapshot
<1> QED
  BY <1>8, <1>9

LEMMA ExitBootServicesKeeps == BootInv /\ ExitBootServices => BootInv'
<1> SUFFICES ASSUME BootInv, ExitBootServices PROVE BootInv'
  OBVIOUS
<1>1. pc = "exit" /\ UNCHANGED <<fw, setup, map, pmb, parts, paging>>
  BY DEF ExitBootServices
<1>2. pmb.pages = num.new /\ num.new \in Nat \ {0}
  BY <1>1 DEF BootInv, Types, LayoutInv
<1>3. CASE map.current
  <2>1. pc' = "setup" /\ UNCHANGED num
    BY <1>3 DEF ExitBootServices
  <2> QED
    BY <1>1, <1>3, <2>1 DEF BootInv, Types, PagesInv, PoolInv, KeyInv, LayoutInv, Exited,
       PagesWereAllocated, Snapshot, PartsOf
<1>4. CASE ~map.current
  <2>1. pc' = "freePages" /\ num' = [prev |-> pmb.pages, new |-> pmb.pages]
    BY <1>4 DEF ExitBootServices
  <2> QED
    BY <1>1, <1>2, <2>1 DEF BootInv, Types, PagesInv, PoolInv, KeyInv, LayoutInv, Exited,
       PagesWereAllocated, Snapshot
<1> QED
  BY <1>3, <1>4

LEMMA SwitchKeeps ==
  BootInv /\ (SetupTransitionalPageMap \/ SetupInitialPageMap \/ SwitchPageMap) => BootInv'
<1> SUFFICES ASSUME BootInv,
                    SetupTransitionalPageMap \/ SetupInitialPageMap \/ SwitchPageMap
             PROVE  BootInv'
  OBVIOUS
<1>1. /\ pc \in {"setup", "switch"} /\ pc' \in {"setup", "switch", "done", "error"}
      /\ paging' \in {"firmware", "transitional", "kernel"}
      /\ UNCHANGED <<fw, setup, map, pmb, num, parts>>
  BY DEF SetupTransitionalPageMap, SetupInitialPageMap, SwitchPageMap, BootInv, Types
<1>2. Types'
  BY <1>1 DEF BootInv, Types
<1>3. LayoutInv'
  BY <1>1 DEF BootInv, LayoutInv, PartsOf
<1> QED
  BY <1>1, <1>2, <1>3 DEF BootInv, PagesInv, PoolInv, KeyInv, Exited, PagesWereAllocated,
     Snapshot

LEMMA StutterKeeps == BootInv /\ UNCHANGED vars => BootInv'
BY DEF vars, BootInv, Types, PagesInv, PoolInv, KeyInv, LayoutInv, Exited,
   PagesWereAllocated, Snapshot, PartsOf

LEMMA NextBootInv == BootInv /\ [Next]_vars => BootInv'
BY FirmwareEventKeeps, FreePagesKeeps, AllocatePagesKeeps, AllocatePagesFailsKeeps,
   FreePoolKeeps, AllocatePoolKeeps, AllocatePoolFailsKeeps, GetMemoryMapKeeps,
   FillPageMapSizesKeeps, ExitBootServicesKeeps, SwitchKeeps, StutterKeeps DEF Next, Code

LEMMA BootInvariant == Spec => []BootInv
BY InitBootInv, NextBootInv, PTL DEF Spec

LEMMA BootInvImplies ==
  BootInv => TypeOK /\ MapIsOfTheEnd /\ PartsFitTheBuffer /\ NothingIsLeaked
<1> SUFFICES ASSUME BootInv
             PROVE  TypeOK /\ MapIsOfTheEnd /\ PartsFitTheBuffer /\ NothingIsLeaked
  OBVIOUS
<1>1. TypeOK
  <2>1. \A b \in DOMAIN fw.pages : fw.pages[b] \in Pages
    <3>1. Types
      BY DEF BootInv
    <3>2. fw.pages \in Buffers(Pages)
      BY <3>1, FirmwareFields
    <3> QED
      BY <3>2 DEF Buffers
  <2> QED
    BY <2>1 DEF BootInv, Types, TypeOK, Pages
<1>2. NothingIsLeaked
  BY DEF BootInv, NothingIsLeaked, PoolInv, PagesInv, Exited
<1>3. MapIsOfTheEnd
  <2> SUFFICES ASSUME Exited PROVE MapIsOfTheEnd
    BY DEF MapIsOfTheEnd
  <2>1. map.copy = Snapshot
    BY DEF BootInv, KeyInv
  <2>2. map.copy.pool = DOMAIN fw.pool /\ map.copy.pages = DOMAIN fw.pages
    BY <2>1 DEF Snapshot
  <2> QED
    BY <1>2, <2>1, <2>2 DEF NothingIsLeaked, MapIsOfTheEnd
<1>4. PartsFitTheBuffer
  <2> SUFFICES ASSUME Exited, PagesWereAllocated PROVE PartsFitTheBuffer
    BY DEF PartsFitTheBuffer
  <2>1. /\ pmb.buf \in DOMAIN fw.pages /\ fw.pages[pmb.buf].num = num.new
        /\ parts = PartsOf(map.copy.descs) /\ num.new * PageSize >= parts.total
        /\ map.copy.descs \in 1..MaxDescs
        /\ setup.type = "4to5" => fw.pages[pmb.buf].low
    BY DEF BootInv, PagesInv, LayoutInv, Exited, Types
  <2>2. /\ parts \in Layouts
        /\ parts.map = Part(0, IF setup.type = "4" THEN Need4[map.copy.descs]
                                                  ELSE Need5[map.copy.descs])
        /\ \A i \in PartNames : parts[i].offset + parts[i].size <= parts.total
        /\ \A i, j \in PartNames : i # j /\ parts[i].size > 0 /\ parts[j].size > 0 =>
             \/ parts[i].offset + parts[i].size <= parts[j].offset
             \/ parts[j].offset + parts[j].size <= parts[i].offset
        /\ Copied => parts.reloc.size = RelocSize /\ parts.tmp.size = NeedTmp[map.copy.descs]
    BY <2>1, PartsOfLayout DEF BootInv
  <2>3. num.new * PageSize \in Int /\ parts.total \in Int
    <3>1. num.new \in Nat /\ parts.total \in Nat
      BY DEF BootInv, Types, Layouts
    <3>2. PageSize \in Nat
      BY SizesAssumption
    <3> QED
      BY <3>1, <3>2
  <2>4. \A i \in PartNames : parts[i].offset + parts[i].size \in Int
    BY <2>2 DEF PartNames, Layouts, Places
  <2>5. \A i \in PartNames : parts[i].offset + parts[i].size <= num.new * PageSize
    BY <2>1, <2>2, <2>3, <2>4
  <2>6. parts.map.size = Needed
    BY <2>2 DEF Part, Needed
  <2> QED
    BY <2>1, <2>2, <2>5, <2>6 DEF PartsFitTheBuffer, PartNames
<1> QED
  BY <1>1, <1>2, <1>3, <1>4

(* The end of the boot phase keeps its types, whatever the firmware does   *)
(* between its calls.                                                      *)
THEOREM TypeCorrect == Spec => []TypeOK
BY BootInvariant, BootInvImplies, PTL

(* ExitBootServicesAndGetBuffer ends with the firmware's last memory map,  *)
(* which has both buffers as loader data.                                  *)
THEOREM LastMapIsKept == Spec => []MapIsOfTheEnd
BY BootInvariant, BootInvImplies, PTL

(* FillPageMapSizes and GetMemoryMapAndPageMapBuffer: the parts of the     *)
(* page map lie apart in the buffer, which was allocated large enough and,  *)
(* for a transition to five levels, below 4 GiB.                           *)
THEOREM PartsFit == Spec => []PartsFitTheBuffer
BY BootInvariant, BootInvImplies, PTL

(* ReAllocPageMapBuffer and GetMemoryMap give back every buffer but the    *)
(* last, for any number of retries.                                        *)
THEOREM NoLeak == Spec => []NothingIsLeaked
BY BootInvariant, BootInvImplies, PTL

(* The switch to the new page map cannot fail after ExitBootServices.      *)
THEOREM NothingFailsAfterExit == Spec => NoWayBack
<1>1. BootInv /\ [Next]_vars => [Exited => pc' # "error"]_vars
  <2> SUFFICES ASSUME BootInv, Next, Exited PROVE pc' # "error"
    OBVIOUS
  <2>1. /\ parts = PartsOf(map.copy.descs) /\ map.copy.descs \in 1..MaxDescs
    BY DEF BootInv, LayoutInv, Exited, Types
  <2>2. /\ parts.map = Part(0, IF setup.type = "4" THEN Need4[map.copy.descs]
                                                  ELSE Need5[map.copy.descs])
        /\ Copied => parts.tmp.size = NeedTmp[map.copy.descs]
    BY <2>1, PartsOfLayout DEF BootInv
  <2>3. /\ Need4[map.copy.descs] \in Nat /\ Need5[map.copy.descs] \in Nat
        /\ NeedTmp[map.copy.descs] \in Nat
    BY <2>1, SizesAssumption
  <2>4. parts.map.size >= Needed
    BY <2>2, <2>3 DEF Part, Needed
  <2>5. CASE SetupTransitionalPageMap
    BY <2>2, <2>3, <2>5 DEF SetupTransitionalPageMap
  <2>6. CASE SetupInitialPageMap
    BY <2>4, <2>6 DEF SetupInitialPageMap
  <2>7. CASE SwitchPageMap
    BY <2>7 DEF SwitchPageMap
  <2>8. CASE FirmwareEvent
    BY <2>8 DEF FirmwareEvent, Exited
  <2> QED
    BY <2>5, <2>6, <2>7, <2>8 DEF Next, Code, Exited, FreePages, AllocatePages,
       AllocatePagesFails, FreePool, AllocatePool, AllocatePoolFails, GetMemoryMap,
       FillPageMapSizes, ExitBootServices
<1> QED
  BY <1>1, BootInvariant, PTL DEF Spec, NoWayBack
=============================================================================

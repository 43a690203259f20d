---------------------------- MODULE EndBootPhase ----------------------------
(***************************************************************************)
(* The end of the boot phase (src/Boot/x86_64-efi/EndBootPhase.c): get the *)
(* firmware's memory map and a buffer for the page map whose size depends  *)
(* on that map, leave boot services with the key of the map, and switch to *)
(* a page map made in the buffer.  Each call of a boot service is a step.  *)
(* Getting either buffer changes the memory map, and so may the firmware's *)
(* own events between two calls; ExitBootServices refuses an old key, and  *)
(* all is done again.                                                      *)
(*                                                                         *)
(* The memory map is represented by its number of descriptors and by the   *)
(* buffers it has as loader data.                                          *)
(***************************************************************************)
EXTENDS Integers, FiniteSets

CONSTANTS
  SetupTypes,      \* the page map setup types the CPU may ask for
  MaxDescs,        \* the most descriptors the firmware's map may have
  InitialRoom,     \* descriptors in the first 512 bytes
  Need4, Need5,    \* bytes of a page map of 4 and of 5 levels and of the
  NeedTmp,         \*   transitional one, for each number of descriptors
  PageSize,
  RelocSize,       \* bytes of the code that switches paging modes
  ScratchSize,     \* and of its scratch buffer
  ScratchAlign,
  InitialPages,    \* pages in the first buffer
  MaxEvents,       \* how often the firmware changes the map on its own,
  PoolFailures,    \*   how often AllocatePool fails
  PageFailures     \*   and how often AllocatePages does

ASSUME SizesAssumption ==
  /\ SetupTypes \subseteq {"4", "5", "4to5"}
  /\ {MaxDescs, InitialRoom, PageSize, RelocSize, ScratchSize, ScratchAlign, InitialPages} \subseteq Nat \ {0}
  /\ {Need4, Need5, NeedTmp} \subseteq [1..MaxDescs -> Nat \ {0}]
  /\ {MaxEvents, PoolFailures, PageFailures} \subseteq Nat

VARIABLES
  fw,     \* the firmware: [descs, pool, pages, events, poolFailures, pageFailures]
          \*   pool: buffer -> descriptors it can hold, pages: buffer -> [num, low]
  pc,
  setup,  \* [type, codeLow]: the setup type, and whether the code that
          \*   switches paging modes was loaded below 4 GiB
  map,    \* [buf, room, current, copy]: the memory map; current says that the
          \*   firmware's map has the key, copy what GetMemoryMap returned
  pmb,    \* [buf, pages]: the page map buffer as the code knows it
  num,    \* [prev, new]: numPreviousPages and numNewEfiPages
  parts,  \* the parts of the buffer: part -> [offset, size], and the total
  paging  \* the page map in use

vars == <<fw, pc, setup, map, pmb, num, parts, paging>>

Null == 0
FourGiB == -1   \* the address ReAllocPageMapBuffer passes to AllocatePages

-----------------------------------------------------------------------------
(* FillPageMapSizes for a map with d descriptors. *)
AlignUp(x, a) == ((x + a - 1) \div a) * a

Part(offset, size) == [offset |-> offset, size |-> size]
None == Part(0, 0)

PartsOf(d) ==
  LET tmpAt == AlignUp(Need5[d], PageSize)
      relocAt == AlignUp(tmpAt + NeedTmp[d], PageSize)
      scratchLow == AlignUp(Need5[d], ScratchAlign)
      scratchHigh == AlignUp(relocAt + RelocSize, ScratchAlign)
  IN  CASE setup.type = "4" ->
             [map |-> Part(0, Need4[d]), tmp |-> None, reloc |-> None, scratch |-> None,
              total |-> Need4[d]]
        [] setup.type = "5" ->
             [map |-> Part(0, Need5[d]), tmp |-> None, reloc |-> None, scratch |-> None,
              total |-> Need5[d]]
        [] setup.type = "4to5" /\ setup.codeLow ->
             [map |-> Part(0, Need5[d]), tmp |-> None, reloc |-> None,
              scratch |-> Part(scratchLow, ScratchSize), total |-> scratchLow + ScratchSize]
        [] OTHER ->
             [map |-> Part(0, Need5[d]), tmp |-> Part(tmpAt, NeedTmp[d]),
              reloc |-> Part(relocAt, RelocSize),
              scratch |-> Part(scratchHigh, ScratchSize), total |-> scratchHigh + ScratchSize]

-----------------------------------------------------------------------------
(* The firmware. *)
Fresh(used) == CHOOSE n \in 1..(Cardinality(used) + 1) : n \notin used
Without(f, x) == [y \in DOMAIN f \ {x} |-> f[y]]
With(f, x, v) == [y \in DOMAIN f \cup {x} |-> IF y = x THEN v ELSE f[y]]

(* Handing out or taking back memory splits or joins descriptors. *)
Descs == {d \in (fw.descs - 1)..(fw.descs + 1) : d \in 1..MaxDescs}

(* A timer or another event of the firmware changes the map. *)
FirmwareEvent ==
  /\ fw.events > 0 /\ pc \notin {"setup", "switch", "done", "error"}
  /\ \E d \in Descs : fw' = [fw EXCEPT !.descs = d, !.events = @ - 1]
  /\ map' = [map EXCEPT !.current = FALSE]
  /\ UNCHANGED <<pc, setup, pmb, num, parts, paging>>

-----------------------------------------------------------------------------
Init ==
  /\ \E d \in 1..MaxDescs :
       fw = [descs |-> d, pool |-> << >>, pages |-> << >>, events |-> MaxEvents,
             poolFailures |-> PoolFailures, pageFailures |-> PageFailures]
  /\ setup \in [type : SetupTypes, codeLow : BOOLEAN]
  /\ pc = "freePages"
  /\ map = [buf |-> Null, room |-> InitialRoom, current |-> FALSE,
            copy |-> [descs |-> 1, pool |-> {}, pages |-> {}]]
  /\ pmb = [buf |-> Null, pages |-> 0]
  /\ num = [prev |-> 0, new |-> InitialPages]
  /\ parts = [map |-> None, tmp |-> None, reloc |-> None, scratch |-> None, total |-> 0]
  /\ paging = "firmware"

(* ReAllocPageMapBuffer.  FreePages knows only what was allocated; its     *)
(* error ends the call without another buffer, and the caller goes on.     *)
FreePages ==
  /\ pc = "freePages"
  /\ IF num.prev = 0
     THEN pc' = "allocPages" /\ UNCHANGED <<fw, map>>
     ELSE IF pmb.buf \in DOMAIN fw.pages /\ fw.pages[pmb.buf].num = num.prev
     THEN /\ \E d \in Descs : fw' = [fw EXCEPT !.pages = Without(@, pmb.buf), !.descs = d]
          /\ map' = [map EXCEPT !.current = FALSE]
          /\ pc' = "allocPages"
     ELSE pc' = "freePool" /\ UNCHANGED <<fw, map>>
  /\ UNCHANGED <<setup, pmb, num, parts, paging>>

(* For a transition the buffer has to be below 4 GiB. *)
AllocatePages ==
  /\ pc = "allocPages"
  /\ \E d \in Descs, low \in BOOLEAN :
       /\ setup.type = "4to5" => low
       /\ LET b == Fresh(DOMAIN fw.pages)
          IN  /\ fw' = [fw EXCEPT !.pages = With(@, b, [num |-> num.new, low |-> low]), !.descs = d]
              /\ pmb' = [pmb EXCEPT !.buf = b]
  /\ map' = [map EXCEPT !.current = FALSE]
  /\ pc' = "freePool"
  /\ UNCHANGED <<setup, num, parts, paging>>

(* The status is not looked at; the address is the one passed in. *)
AllocatePagesFails ==
  /\ pc = "allocPages" /\ fw.pageFailures > 0
  /\ fw' = [fw EXCEPT !.pageFailures = @ - 1]
  /\ pmb' = IF setup.type = "4to5" THEN [pmb EXCEPT !.buf = FourGiB] ELSE pmb
  /\ pc' = "freePool"
  /\ UNCHANGED <<setup, map, num, parts, paging>>

-----------------------------------------------------------------------------
(* GetMemoryMap: a buffer of the size last asked for, until it is enough.  *)
FreePool ==
  /\ pc = "freePool"
  /\ IF map.buf = Null THEN UNCHANGED <<fw, map>>
     ELSE /\ \E d \in Descs : fw' = [fw EXCEPT !.pool = Without(@, map.buf), !.descs = d]
          /\ map' = [map EXCEPT !.current = FALSE]
  /\ pc' = "allocPool"
  /\ UNCHANGED <<setup, pmb, num, parts, paging>>

AllocatePool ==
  /\ pc = "allocPool"
  /\ \E d \in Descs :
       LET b == Fresh(DOMAIN fw.pool)
       IN  /\ fw' = [fw EXCEPT !.pool = With(@, b, map.room), !.descs = d]
           /\ map' = [map EXCEPT !.buf = b, !.current = FALSE]
  /\ pc' = "getMap"
  /\ UNCHANGED <<setup, pmb, num, parts, paging>>

AllocatePoolFails ==
  /\ pc = "allocPool" /\ fw.poolFailures > 0
  /\ fw' = [fw EXCEPT !.poolFailures = @ - 1]
  /\ pc' = "error"
  /\ UNCHANGED <<setup, map, pmb, num, parts, paging>>

Snapshot == [descs |-> fw.descs, pool |-> DOMAIN fw.pool, pages |-> DOMAIN fw.pages]

(* Faulty variant: the next buffer has the same size. *)
GetMemoryMapTight ==
  /\ pc = "getMap"
  /\ IF map.room >= fw.descs
     THEN /\ map' = [map EXCEPT !.current = TRUE, !.room = fw.descs, !.copy = Snapshot]
          /\ pc' = "fill"
     ELSE map' = map /\ pc' = "freePool"
  /\ UNCHANGED <<fw, setup, pmb, num, parts, paging>>

(* If the buffer is too small the firmware says how large the map is, and  *)
(* the next buffer has room for two descriptors more.                      *)
GetMemoryMap ==
  /\ pc = "getMap"
  /\ IF map.room >= fw.descs
     THEN /\ map' = [map EXCEPT !.current = TRUE, !.room = fw.descs, !.copy = Snapshot]
          /\ pc' = "fill"
     ELSE map' = [map EXCEPT !.room = fw.descs + 2] /\ pc' = "freePool"
  /\ UNCHANGED <<fw, setup, pmb, num, parts, paging>>

-----------------------------------------------------------------------------
(* Faulty variant: the size is compared in pages, rounded down. *)
FillPageMapSizesRoundedDown ==
  LET p == PartsOf(map.copy.descs)
      required == AlignUp(p.total, PageSize) \div PageSize
  IN  /\ pc = "fill"
      /\ parts' = p
      /\ pmb' = [pmb EXCEPT !.pages = num.new]
      /\ IF num.new >= p.total \div PageSize
         THEN pc' = "exit" /\ UNCHANGED num
         ELSE pc' = "freePages" /\ num' = [prev |-> num.new, new |-> 2 * required]
      /\ UNCHANGED <<fw, setup, map, paging>>

(* Faulty variant: the sizes of the first map are kept. *)
FillPageMapSizesOnce ==
  LET p == PartsOf(map.copy.descs)
      required == AlignUp(p.total, PageSize) \div PageSize
  IN  /\ pc = "fill"
      /\ parts' = IF parts.total = 0 THEN p ELSE parts
      /\ pmb' = [pmb EXCEPT !.pages = num.new]
      /\ IF num.new * PageSize >= p.total
         THEN pc' = "exit" /\ UNCHANGED num
         ELSE pc' = "freePages" /\ num' = [prev |-> num.new, new |-> 2 * required]
      /\ UNCHANGED <<fw, setup, map, paging>>

(* The rest of GetMemoryMapAndPageMapBuffer: is the buffer large enough    *)
(* for the map just read?  If not, the next has twice the size.            *)
FillPageMapSizes ==
  LET p == PartsOf(map.copy.descs)
      required == AlignUp(p.total, PageSize) \div PageSize
  IN  /\ pc = "fill"
      /\ parts' = p
      /\ pmb' = [pmb EXCEPT !.pages = num.new]
      /\ IF num.new * PageSize >= p.total
         THEN pc' = "exit" /\ UNCHANGED num
         ELSE pc' = "freePages" /\ num' = [prev |-> num.new, new |-> 2 * required]
      /\ UNCHANGED <<fw, setup, map, paging>>

(* Faulty variant: the old buffer is forgotten. *)
ExitBootServicesKeepsBuffer ==
  /\ pc = "exit"
  /\ IF map.current THEN pc' = "setup" /\ UNCHANGED num
     ELSE pc' = "allocPages" /\ num' = [prev |-> 0, new |-> pmb.pages]
  /\ UNCHANGED <<fw, setup, map, pmb, parts, paging>>

(* Faulty variant: the status is not looked at. *)
ExitBootServicesOnce ==
  /\ pc = "exit"
  /\ pc' = "setup"
  /\ UNCHANGED <<fw, setup, map, pmb, num, parts, paging>>

(* ExitBootServicesAndGetBuffer tries again with a new map and a new       *)
(* buffer of the same size when the key is not that of the current map.    *)
ExitBootServices ==
  /\ pc = "exit"
  /\ IF map.current THEN pc' = "setup" /\ UNCHANGED num
     ELSE pc' = "freePages" /\ num' = [prev |-> pmb.pages, new |-> pmb.pages]
  /\ UNCHANGED <<fw, setup, map, pmb, parts, paging>>

-----------------------------------------------------------------------------
(* SwitchToIdentityPageMap.  A page map is made if its part of the buffer  *)
(* is as large as the memory map asks for.                                 *)
Copied == setup.type = "4to5" /\ ~setup.codeLow
Needed == IF setup.type = "4" THEN Need4[map.copy.descs] ELSE Need5[map.copy.descs]

SetupTransitionalPageMap ==
  /\ pc = "setup" /\ Copied /\ paging = "firmware"
  /\ IF parts.tmp.size >= NeedTmp[map.copy.descs]
     THEN paging' = "transitional" /\ UNCHANGED pc
     ELSE pc' = "error" /\ UNCHANGED paging
  /\ UNCHANGED <<fw, setup, map, pmb, num, parts>>

SetupInitialPageMap ==
  /\ pc = "setup" /\ (Copied => paging = "transitional")
  /\ pc' = IF parts.map.size >= Needed THEN "switch" ELSE "error"
  /\ UNCHANGED <<fw, setup, map, pmb, num, parts, paging>>

SwitchPageMap ==
  /\ pc = "switch"
  /\ paging' = "kernel"
  /\ pc' = "done"
  /\ UNCHANGED <<fw, setup, map, pmb, num, parts>>

Code ==
  \/ FreePages \/ AllocatePages \/ AllocatePagesFails
  \/ FreePool \/ AllocatePool \/ AllocatePoolFails \/ GetMemoryMap
  \/ FillPageMapSizes \/ ExitBootServices
  \/ SetupTransitionalPageMap \/ SetupInitialPageMap \/ SwitchPageMap

Next == Code \/ FirmwareEvent

(* The code runs on; that the firmware's events are finitely many is the   *)
(* bound MaxEvents.                                                        *)
Spec == Init /\ [][Next]_vars /\ WF_vars(Code)

-----------------------------------------------------------------------------
(* The types of the variables. *)
TypeOK ==
  /\ fw.descs \in 1..MaxDescs /\ fw.events \in 0..MaxEvents
  /\ \A b \in DOMAIN fw.pages : fw.pages[b] \in [num : Nat \ {0}, low : BOOLEAN]
  /\ pc \in {"freePages", "allocPages", "freePool", "allocPool", "getMap", "fill", "exit",
             "setup", "switch", "done", "error"}
  /\ map.room \in Nat \ {0} /\ map.copy.descs \in 1..MaxDescs /\ map.current \in BOOLEAN
  /\ pmb \in [buf : Nat \cup {FourGiB}, pages : Nat]
  /\ num \in [prev : Nat, new : Nat \ {0}]
  /\ paging \in {"firmware", "transitional", "kernel"}

Exited == pc \in {"setup", "switch", "done"}

(* AllocatePages has not failed; what happens if it does is left to        *)
(* BufferIsBelow4G.                                                        *)
PagesWereAllocated == fw.pageFailures = PageFailures

(* The memory map the kernel goes on with is the firmware's last, and it   *)
(* has both buffers as loader data, however often the map changed while    *)
(* they were being got: the kernel will not take them for free memory.     *)
MapIsOfTheEnd ==
  Exited => /\ map.copy = Snapshot
            /\ map.buf \in map.copy.pool
            /\ PagesWereAllocated => pmb.buf \in map.copy.pages

(* The page map's parts lie in the buffer one after the other, and the     *)
(* buffer has been allocated with that size and where the code needs it.   *)
PartsFitTheBuffer ==
  Exited /\ PagesWereAllocated =>
    LET used == {p \in {"map", "tmp", "reloc", "scratch"} : parts[p].size > 0}
        EndOf(p) == parts[p].offset + parts[p].size
    IN  /\ pmb.buf \in DOMAIN fw.pages
        /\ setup.type = "4to5" => fw.pages[pmb.buf].low
        /\ \A p \in used : EndOf(p) <= fw.pages[pmb.buf].num * PageSize
        /\ \A p, q \in used : p # q => EndOf(p) <= parts[q].offset \/ EndOf(q) <= parts[p].offset
        /\ parts.map.size = Needed
        /\ Copied => parts.reloc.size = RelocSize /\ parts.tmp.size = NeedTmp[map.copy.descs]

(* All that was got on the way and is not used in the end was given back.  *)
NothingIsLeaked ==
  Exited => /\ DOMAIN fw.pool = {map.buf}
            /\ PagesWereAllocated => DOMAIN fw.pages = {pmb.buf}

(* Once boot services have ended nothing can fail any more: the page map   *)
(* that is made of the last memory map fits its part of the buffer.        *)
NoWayBack == [][Exited => pc' # "error"]_vars

(* "The buffer we have is guaranteed to be in this region [the first 4     *)
(* GiBs of RAM] thanks to the allocating function" (EndBootPhase.c:561).   *)
BufferIsBelow4G ==
  Exited /\ setup.type = "4to5" => pmb.buf \in DOMAIN fw.pages /\ fw.pages[pmb.buf].low

(* The boot phase ends: each of the retries, for a larger buffer for the   *)
(* memory map, for a larger page map and for a new key, comes to an end.   *)
BootPhaseEnds == <>(pc \in {"done", "error"})
=============================================================================

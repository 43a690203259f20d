------------------------- MODULE PhysicalMemStructs -------------------------
(***************************************************************************)
(* The kernel's structures for physical memory: the tree of available      *)
(* pages (src/Kernel/Memory/PhysicalMemTreeGen.c) and the list of ranges   *)
(* (PhysicalMemMapGen.c), made in one buffer (PhysicalMemStructsGen.c)     *)
(* that efi_main takes from the initial memory map.                        *)
(*                                                                         *)
(* Passes over the combined ranges of the initial map count what is        *)
(* needed ("treeSize", "mapSize"), the buffer is placed, and further       *)
(* passes fill it ("create", "map").  In between the pages in use are      *)
(* marked, and each level of the tree above the last summarises the level  *)
(* below it.  A step is one iteration of a loop over levels, or one call   *)
(* where there is no such loop.                                            *)
(***************************************************************************)
EXTENDS Integers, Sequences, FiniteSets

CONSTANTS
  PageSize,
  InitialMaps,    \* the initial memory maps: [start, pages, flags, type, usage]
  TreeEntrySize,  \* sizeof(DexprOS_PhysicalMemTreeEntry)
  TreeLevelSize,  \* sizeof(DexprOS_PhysicalMemTreeLevel)
  RangeSize,      \* sizeof(DexprOS_PhysicalMemoryRange)
  Alignment,      \* DEXPROS_FUNDAMENTAL_ALIGNMENT
  InPlace         \* blocks that fit into a level: sizeof(uint8_t*)

Top(r) == r.start + r.pages * PageSize

VARIABLES
  imap,    \* the initial memory map
  pc,
  loop,    \* [pos, step, n, bs, min, max]: the entry the next range starts with,
           \* and the state of the loop over the levels of the range
  sizes,   \* [entries, levels, blocks, ranges]: what the passes have counted
  used,    \* [entries, levels, blocks]: what has been handed out of the buffer
  buffer,  \* [address, size]
  tree,    \* a sequence of [type, start, end, levels], levels root first:
           \* [start, bs, num, at, blocks], at the index of pBlocks
  ranges,  \* the physical memory map
  success

vars == <<imap, pc, loop, sizes, used, buffer, tree, ranges, success>>

Available == 128
Unavailable == 0

-----------------------------------------------------------------------------
(* DexprOS_IterateInitialMemMapCombinedPhysRanges: entry i + 1 carries on  *)
(* the range that entry i is in; a range runs from i to LastOf(i).         *)
CarriesOn(i) ==
  /\ imap[i + 1].type = imap[i].type
  /\ imap[i + 1].flags = imap[i].flags
  /\ imap[i + 1].start = Top(imap[i])

LastOf(i) ==
  CHOOSE j \in i..Len(imap) :
    /\ \A k \in i..(j - 1) : CarriesOn(k)
    /\ j = Len(imap) \/ ~CarriesOn(j)

ShouldCreateTreeForType(type) == type \in {"USABLE", "USABLE_PERSISTENT"}

AtRange == loop.pos <= Len(imap)
First == imap[loop.pos]
RangeStart == First.start
RangeEnd == Top(imap[LastOf(loop.pos)])
Wanted == AtRange /\ ShouldCreateTreeForType(First.type)

(* The state of the iteration at the beginning of a pass and of a range.   *)
LoopAt(pos, step) == [pos |-> pos, step |-> step, n |-> 0, bs |-> PageSize, min |-> 0, max |-> 0]
NextRange == LoopAt(LastOf(loop.pos) + 1, "entry")

(* The loop over levels, from the pages up: the bounds are widened to      *)
(* whole blocks, and the blocks double until one is enough.                *)
Min == LET m == IF loop.n = 0 THEN RangeStart ELSE loop.min IN (m \div loop.bs) * loop.bs
Max == LET m == IF loop.n = 0 THEN RangeEnd ELSE loop.max
       IN  ((m + loop.bs - 1) \div loop.bs) * loop.bs
NumBlocks == (Max - Min) \div loop.bs

NextLevel == [loop EXCEPT !.n = @ + 1, !.bs = 2 * @, !.min = Min, !.max = Max]

InPool(num) == num > InPlace

-----------------------------------------------------------------------------
Init ==
  /\ imap \in InitialMaps
  /\ pc = "treeSize"
  /\ loop = LoopAt(1, "entry")
  /\ sizes = [entries |-> 0, levels |-> 0, blocks |-> 0, ranges |-> 0]
  /\ used = [entries |-> 0, levels |-> 0, blocks |-> 0]
  /\ buffer = [address |-> 0, size |-> 0]
  /\ tree = << >>
  /\ ranges = << >>
  /\ success = TRUE

(* Both callbacks of the tree leave other memory alone. *)
SkipRange ==
  /\ pc \in {"treeSize", "create"} /\ AtRange /\ ~Wanted
  /\ loop' = NextRange
  /\ UNCHANGED <<imap, pc, sizes, used, buffer, tree, ranges, success>>

(* Faulty variant: small levels are counted too, large ones only when      *)
(* there is more than one block too many.                                  *)
CalcTreeEntryElementsOffByOne ==
  /\ pc = "treeSize" /\ Wanted
  /\ sizes' = [sizes EXCEPT !.entries = IF loop.n = 0 THEN @ + 1 ELSE @,
                            !.levels = @ + 1,
                            !.blocks = IF NumBlocks > InPlace + 1 THEN @ + NumBlocks ELSE @]
  /\ loop' = IF NumBlocks <= 1 THEN NextRange ELSE NextLevel
  /\ UNCHANGED <<imap, pc, used, buffer, tree, ranges, success>>

CalcTreeEntryElements ==
  /\ pc = "treeSize" /\ Wanted
  /\ sizes' = [sizes EXCEPT !.entries = IF loop.n = 0 THEN @ + 1 ELSE @,
                            !.levels = @ + 1,
                            !.blocks = IF InPool(NumBlocks) THEN @ + NumBlocks ELSE @]
  /\ loop' = IF NumBlocks <= 1 THEN NextRange ELSE NextLevel
  /\ UNCHANGED <<imap, pc, used, buffer, tree, ranges, success>>

CountMemoryRanges ==
  /\ pc = "mapSize" /\ AtRange
  /\ sizes' = [sizes EXCEPT !.ranges = @ + 1]
  /\ loop' = NextRange
  /\ UNCHANGED <<imap, pc, used, buffer, tree, ranges, success>>

EndPass ==
  /\ pc \in {"treeSize", "create"} /\ ~AtRange
  /\ loop' = LoopAt(1, "entry")
  /\ pc' = IF pc = "treeSize" THEN "mapSize" ELSE IF success THEN "available" ELSE "failed"
  /\ UNCHANGED <<imap, sizes, used, buffer, tree, ranges, success>>

-----------------------------------------------------------------------------
Align(x) == ((x + Alignment - 1) \div Alignment) * Alignment

LevelsOffset == Align(TreeEntrySize * sizes.entries)
BlocksOffset == Align(LevelsOffset + TreeLevelSize * sizes.levels)
MapOffset == Align(BlocksOffset + sizes.blocks)
BufferSize == MapOffset + sizes.ranges * RangeSize

(* Faulty variant: the usage is not looked at. *)
IsFreeAnyUsage(e) == e.type = "USABLE"

(* "An entry is available for allocation for any purpose if its type is    *)
(* USABLE and its usage is MAPPED" (InitialMemMap.h:36).                    *)
IsFree(e) == e.type = "USABLE" /\ e.usage = "MAPPED"
Large(e) == IsFree(e) /\ e.pages * PageSize >= BufferSize

(* efi_main: the buffer is the beginning of the first large free entry.    *)
PlaceStructs ==
  /\ pc = "mapSize" /\ ~AtRange
  /\ \E i \in DOMAIN imap :
       /\ Large(imap[i]) /\ \A j \in 1..(i - 1) : ~Large(imap[j])
       /\ buffer' = [address |-> imap[i].start, size |-> BufferSize]
  /\ pc' = "create"
  /\ loop' = LoopAt(1, "entry")
  /\ UNCHANGED <<imap, sizes, used, tree, ranges, success>>

NoRoomForStructs ==
  /\ pc = "mapSize" /\ ~AtRange
  /\ \A i \in DOMAIN imap : ~Large(imap[i])
  /\ pc' = "failed"
  /\ UNCHANGED <<imap, loop, sizes, used, buffer, tree, ranges, success>>

-----------------------------------------------------------------------------
(* CreateTreeForMemoryRange: a new entry, its number of levels, its levels *)
(* from the pages up, and the blocks of the levels from the root down.     *)
N == Len(tree)

CreateEntry ==
  LET fits == used.entries + 1 <= sizes.entries
  IN  /\ pc = "create" /\ Wanted /\ loop.step = "entry"
      /\ used' = [used EXCEPT !.entries = @ + 1]
      /\ success' = (success /\ fits)
      /\ tree' = IF fits THEN Append(tree, [type |-> First.type, start |-> RangeStart, end |-> RangeEnd,
                                            numLevels |-> 0, levels |-> << >>])
                         ELSE tree
      /\ loop' = IF fits THEN LoopAt(loop.pos, "levels") ELSE NextRange
      /\ UNCHANGED <<imap, pc, sizes, buffer, ranges>>

CreateTreeLevels ==
  /\ pc = "create" /\ Wanted /\ loop.step = "levels"
  /\ tree' = [tree EXCEPT ![N].numLevels = @ + 1]
  /\ IF NumBlocks <= 1
     THEN /\ used' = [used EXCEPT !.levels = @ + loop.n + 1]
          /\ success' = (success /\ used'.levels <= sizes.levels)
          /\ loop' = LoopAt(loop.pos, "fill")
     ELSE loop' = NextLevel /\ UNCHANGED <<used, success>>
  /\ UNCHANGED <<imap, pc, sizes, buffer, ranges>>

FillTreeLevelStructs ==
  LET level == [start |-> Min, bs |-> loop.bs, num |-> NumBlocks, at |-> -1, blocks |-> << >>]
  IN  /\ pc = "create" /\ Wanted /\ loop.step = "fill"
      /\ tree' = [tree EXCEPT ![N].levels = <<level>> \o @]
      /\ loop' = IF loop.n + 1 = tree[N].numLevels THEN LoopAt(loop.pos, "blocks") ELSE NextLevel
      /\ UNCHANGED <<imap, pc, sizes, used, buffer, ranges, success>>

(* blocks is indexed from 0 as pBlocks is; at is -1 where the level keeps  *)
(* its blocks itself.                                                      *)
CreateTreeLevelBlocks ==
  LET l == loop.n + 1
      num == tree[N].levels[l].num
      fits == InPool(num) => used.blocks + num <= sizes.blocks
  IN  /\ pc = "create" /\ Wanted /\ loop.step = "blocks"
      /\ used' = IF InPool(num) THEN [used EXCEPT !.blocks = @ + num] ELSE used
      /\ tree' = [tree EXCEPT ![N].levels[l] =
                    [@ EXCEPT !.at = IF InPool(num) THEN used.blocks ELSE -1,
                              !.blocks = [b \in 0..(num - 1) |-> Unavailable]]]
      /\ success' = (success /\ fits)
      /\ loop' = IF fits /\ l < tree[N].numLevels THEN [loop EXCEPT !.n = @ + 1] ELSE NextRange
      /\ UNCHANGED <<imap, pc, sizes, buffer, ranges>>

-----------------------------------------------------------------------------
(* The list of entries begins at the address of the buffer; address 0 is   *)
(* NULL, the end of a list.                                                *)
Listed == IF buffer.address = 0 THEN {} ELSE DOMAIN tree

LastLevel(e) == tree[e].levels[tree[e].numLevels]

(* The tree with the blocks of some last-level pages of e set.             *)
WithPages(e, pages, value) ==
  [tree[e] EXCEPT !.levels[tree[e].numLevels].blocks =
     [b \in DOMAIN @ |-> IF b \in pages THEN value ELSE @[b]]]

SetAllTreePagesAvailable ==
  /\ pc = "available"
  /\ tree' = [e \in DOMAIN tree |->
                IF e \in Listed THEN WithPages(e, DOMAIN LastLevel(e).blocks, Available) ELSE tree[e]]
  /\ pc' = "mark"
  /\ loop' = LoopAt(1, "entry")
  /\ UNCHANGED <<imap, sizes, used, buffer, ranges, success>>

PageDown(a) == (a \div PageSize) * PageSize
PageUp(a) == ((a + PageSize - 1) \div PageSize) * PageSize
Larger(a, b) == IF a > b THEN a ELSE b
Smaller(a, b) == IF a < b THEN a ELSE b

(* Faulty variant: the end of the region is rounded down. *)
MarkUsedTreePagesShort(start, size) ==
  [e \in DOMAIN tree |->
     LET level == LastLevel(e)
         min == Larger(PageDown(start), level.start)
         max == Smaller(PageDown(start + size), level.start + level.num * level.bs)
         first == (min - level.start) \div level.bs
         num == (max - min) \div level.bs
     IN  IF e \in Listed /\ PageDown(start) < tree[e].end /\ PageDown(start + size) > tree[e].start
         THEN WithPages(e, first..(first + num - 1), Unavailable) ELSE tree[e]]

(* The pages of the region are taken out of every entry it meets. *)
MarkUsedTreePages(start, size) ==
  [e \in DOMAIN tree |->
     LET level == LastLevel(e)
         min == Larger(PageDown(start), level.start)
         max == Smaller(PageUp(start + size), level.start + level.num * level.bs)
         first == (min - level.start) \div level.bs
         num == (max - min) \div level.bs
     IN  IF e \in Listed /\ PageDown(start) < tree[e].end /\ PageUp(start + size) > tree[e].start
         THEN WithPages(e, first..(first + num - 1), Unavailable) ELSE tree[e]]

UsedUsages == {"KERNEL_CODE", "KERNEL_DATA", "BOOT_CODE", "BOOT_DATA", "INITIAL_MEMMAP"}

(* DexprOS_MarkPhysicalMemTreeRegions, one entry of the initial map. *)
MarkMapEntry ==
  /\ pc = "mark" /\ AtRange
  /\ tree' = IF ShouldCreateTreeForType(First.type) /\ First.usage \in UsedUsages
             THEN MarkUsedTreePages(First.start, First.pages * PageSize) ELSE tree
  /\ loop' = [loop EXCEPT !.pos = @ + 1]
  /\ UNCHANGED <<imap, pc, sizes, used, buffer, ranges, success>>

(* The region the caller adds: the buffer of these structures. *)
MarkStructs ==
  /\ pc = "mark" /\ ~AtRange
  /\ tree' = MarkUsedTreePages(buffer.address, buffer.size)
  /\ pc' = "accel"
  /\ loop' = LoopAt(1, "entry")
  /\ UNCHANGED <<imap, sizes, used, buffer, ranges, success>>

-----------------------------------------------------------------------------
(* A block from the two it covers in the next level: half of each, and the *)
(* lowest bit stays when it is set in one of them.                         *)
Or1(x) == x + 1 - (x % 2)

(* Faulty variant: the lowest bit is dropped. *)
SummaryTruncated(s0, s1) == (s0 \div 2) + (s1 \div 2)

Summary(s0, s1) ==
  LET half == (s0 \div 2) + (s1 \div 2)
  IN  IF s0 % 2 = 1 \/ s1 % 2 = 1 THEN Or1(half) ELSE half

FillTreeLevelAccelBlocks(level, next) ==
  LET offset == (next.start - level.start) \div next.bs
      State(k) == IF k >= offset /\ k < offset + next.num THEN next.blocks[k - offset] ELSE 0
  IN  [level EXCEPT !.blocks = [b \in 0..(level.num - 1) |-> Summary(State(2 * b), State(2 * b + 1))]]

(* Faulty variant: the loop does not go up. *)
FillAccelBlocksStuck ==
  /\ pc = "accel" /\ loop.pos \in Listed
  /\ LET l == tree[loop.pos].numLevels - loop.n - 1
     IN  IF l >= 1
         THEN /\ tree' = [tree EXCEPT ![loop.pos].levels[l] =
                            FillTreeLevelAccelBlocks(@, tree[loop.pos].levels[l + 1])]
              /\ loop' = loop
         ELSE loop' = LoopAt(loop.pos + 1, "entry") /\ UNCHANGED tree
  /\ UNCHANGED <<imap, pc, sizes, used, buffer, ranges, success>>

(* FillTreeAccelBlocks: from the level above the pages to the root. pos is *)
(* the entry and n the number of levels filled in it.                      *)
FillAccelBlocks ==
  /\ pc = "accel" /\ loop.pos \in Listed
  /\ LET l == tree[loop.pos].numLevels - loop.n - 1
     IN  IF l >= 1
         THEN /\ tree' = [tree EXCEPT ![loop.pos].levels[l] =
                            FillTreeLevelAccelBlocks(@, tree[loop.pos].levels[l + 1])]
              /\ loop' = [loop EXCEPT !.n = @ + 1]
         ELSE loop' = LoopAt(loop.pos + 1, "entry") /\ UNCHANGED tree
  /\ UNCHANGED <<imap, pc, sizes, used, buffer, ranges, success>>

EndAccelBlocks ==
  /\ pc = "accel" /\ loop.pos \notin Listed
  /\ pc' = "map"
  /\ loop' = LoopAt(1, "entry")
  /\ UNCHANGED <<imap, sizes, used, buffer, tree, ranges, success>>

-----------------------------------------------------------------------------
FillMemMapEntry ==
  LET fits == (Len(ranges) + 1) * RangeSize <= sizes.ranges * RangeSize
  IN  /\ pc = "map" /\ AtRange
      /\ ranges' = IF fits THEN Append(ranges, [type |-> First.type, start |-> RangeStart,
                                                end |-> RangeEnd, flags |-> First.flags])
                           ELSE ranges
      /\ success' = (success /\ fits)
      /\ loop' = NextRange
      /\ UNCHANGED <<imap, pc, sizes, used, buffer, tree>>

FinishMemMap ==
  /\ pc = "map" /\ ~AtRange
  /\ pc' = IF success THEN "done" ELSE "failed"
  /\ UNCHANGED <<imap, loop, sizes, used, buffer, tree, ranges, success>>

Next ==
  \/ SkipRange \/ CalcTreeEntryElements \/ CountMemoryRanges \/ EndPass
  \/ PlaceStructs \/ NoRoomForStructs
  \/ CreateEntry \/ CreateTreeLevels \/ FillTreeLevelStructs \/ CreateTreeLevelBlocks
  \/ SetAllTreePagesAvailable \/ MarkMapEntry \/ MarkStructs
  \/ FillAccelBlocks \/ EndAccelBlocks
  \/ FillMemMapEntry \/ FinishMemMap

Spec == Init /\ [][Next]_vars

-----------------------------------------------------------------------------
(* The levels with more blocks than fit into them have disjoint parts of   *)
(* the shared array: no two levels write the same block.                   *)
PoolPart(level) == level.at..(level.at + level.num - 1)
LevelsDoNotShareBlocks ==
  \A e, f \in DOMAIN tree : \A l \in DOMAIN tree[e].levels : \A m \in DOMAIN tree[f].levels :
    /\ tree[e].levels[l].at >= 0
    /\ tree[f].levels[m].at >= 0
    /\ <<e, l>> # <<f, m>>
    => /\ PoolPart(tree[e].levels[l]) \cap PoolPart(tree[f].levels[m]) = {}
       /\ PoolPart(tree[e].levels[l]) \subseteq 0..(sizes.blocks - 1)

Holds(e, address) == e.start <= address /\ address < Top(e)

(* The levels of entry e that hold their final blocks. *)
FilledLevels(e) ==
  IF pc \in {"map", "done"} \/ (pc = "accel" /\ e < loop.pos) THEN 1..tree[e].numLevels
  ELSE IF pc = "accel" /\ e = loop.pos THEN (tree[e].numLevels - loop.n)..tree[e].numLevels
  ELSE {}

(* The available pages of entry e in a block of one of its levels. *)
PagesBelow(e, level, b) ==
  LET last == LastLevel(e)
      first == (level.start + b * level.bs - last.start) \div PageSize
  IN  {p \in first..(first + (level.bs \div PageSize) - 1) :
         p \in DOMAIN last.blocks /\ last.blocks[p] = Available}

(* A block above the pages is a sound summary of the pages it covers: 0    *)
(* exactly if none of them is available and 128 exactly if all are, so an  *)
(* allocator that goes down the tree meets neither a block that promises   *)
(* pages it lacks nor misses a page.  In between, the bits of a block are  *)
(* 128ths of it (PhysicalMemTree.h:26): up to 128 pages the value is       *)
(* exact, and each level above adds an error of at most one 128th.         *)
BlocksSummarisePages ==
  \A e \in Listed : \A l \in FilledLevels(e) : \A b \in DOMAIN tree[e].levels[l].blocks :
    LET level == tree[e].levels[l]
        pages == PagesBelow(e, level, b)
        above == tree[e].numLevels - l
        error == Available * Cardinality(pages) * PageSize - level.blocks[b] * level.bs
        bound == (IF above <= 7 THEN 0 ELSE above - 7) * level.bs
    IN  /\ level.blocks[b] \in 0..Available
        /\ level.blocks[b] = 0 <=> pages = {}
        /\ level.blocks[b] = Available <=> Cardinality(pages) * PageSize = level.bs
        /\ error \in (-bound)..bound

(* The physical memory map has the memory of the initial one, no more and  *)
(* no less, in ranges that cannot be combined any further.                 *)
RangesAreExact ==
  pc = "done" =>
    /\ \A i \in DOMAIN imap : \E r \in DOMAIN ranges :
         /\ ranges[r].start <= imap[i].start /\ Top(imap[i]) <= ranges[r].end
         /\ ranges[r].type = imap[i].type /\ ranges[r].flags = imap[i].flags
    /\ \A r \in DOMAIN ranges : \A a \in {PageSize * p : p \in (ranges[r].start \div PageSize)..((ranges[r].end - 1) \div PageSize)} :
         \E i \in DOMAIN imap : Holds(imap[i], a)
    /\ \A r \in 1..(Len(ranges) - 1) :
         /\ ranges[r].end <= ranges[r + 1].start
         /\ ranges[r].end = ranges[r + 1].start =>
              ranges[r].type # ranges[r + 1].type \/ ranges[r].flags # ranges[r + 1].flags

(* The passes that count and the passes that fill the buffer agree: no     *)
(* write goes past the buffer's arrays, and nothing in them is left over;  *)
(* the levels of the trees have blocks of their own, and the ranges of the *)
(* physical memory map hold what they should (RangesAreExact).             *)
CountsAreExact ==
  /\ success
  /\ used.entries <= sizes.entries /\ used.levels <= sizes.levels /\ used.blocks <= sizes.blocks
  /\ pc \in {"available", "mark", "accel", "map", "done"} =>
       /\ used = [entries |-> sizes.entries, levels |-> sizes.levels, blocks |-> sizes.blocks]
       /\ Len(tree) = sizes.entries
  /\ LevelsDoNotShareBlocks
  /\ pc = "done" => Len(ranges) = sizes.ranges
  /\ RangesAreExact

(* What the comment in DexprOS_MarkPhysicalMemTreeRegions takes for        *)
(* granted: the usable memory is "managed by the tree".                    *)
UsableMemoryIsManaged ==
  pc = "done" => \A i \in DOMAIN imap :
                   ShouldCreateTreeForType(imap[i].type) =>
                     \E e \in Listed : tree[e].start <= imap[i].start /\ Top(imap[i]) <= tree[e].end
=============================================================================

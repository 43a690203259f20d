------------------------ MODULE InitialPageMapSetup ------------------------
(***************************************************************************)
(* The identity page map made at the end of the boot phase                 *)
(* (src/Boot/x86_64-efi/InitialPageMapSetup.c).  One pass goes through the *)
(* memory ranges by address and counts the page tables; after the buffer   *)
(* has been allocated another one, in the order of the firmware's map,     *)
(* makes the tables.  A step is one memory range.                          *)
(*                                                                         *)
(* A table is named by its level and its index among all tables of that    *)
(* level: addr \div Managed(level).  The one table of the top level is     *)
(* not in tables.                                                          *)
(***************************************************************************)
EXTENDS Integers, Sequences, FiniteSets

CONSTANTS
  PageSize,
  Fanout,      \* entries of a table
  Requests     \* [kind, descs, fb]: the map asked for, the firmware's memory
               \* map, a sequence of [start, pages, type, runtime], and the
               \* framebuffer [start, size]

Kinds == {"map4", "map5", "transitional4"}

ASSUME RequestsAssumption ==
  /\ PageSize \in Nat \ {0} /\ Fanout \in Nat \ {0, 1}
  /\ \A r \in Requests :
       /\ r.kind \in Kinds
       /\ r.fb.start \in Nat /\ r.fb.size \in Nat \ {0}
       /\ r.descs \in Seq([start : Nat, pages : Nat \ {0}, type : STRING, runtime : BOOLEAN])
       /\ \A i \in DOMAIN r.descs : r.descs[i].start % PageSize = 0

VARIABLES
  req,
  pc,       \* "count", "map", "framebuffer", then "done", or "failed" (NULL)
  calc,     \* [resolved, num, highest]: highestResolvedAddress, and for each
            \* level numTablesPerLevel and highestTableIndices
  next,     \* the next descriptor to map
  tables,   \* the tables made, without the one of the top level
  mapped    \* the numbers of the pages mapped

vars == <<req, pc, calc, next, tables, mapped>>

-----------------------------------------------------------------------------
Levels == IF req.kind = "map5" THEN 1..4 ELSE 1..3
ManagedBytes ==
  <<PageSize * Fanout,
    PageSize * (Fanout * Fanout),
    PageSize * (Fanout * Fanout * Fanout),
    PageSize * (Fanout * Fanout * Fanout * Fanout)>>
Managed(level) == ManagedBytes[level]

(* ShouldIncludeInPageMap and ShouldIncludeInTransitionalPageMap. *)
ShouldInclude(d) ==
  \/ d.type \in {"LoaderCode", "LoaderData", "RuntimeServicesCode", "RuntimeServicesData",
                 "BootServicesCode", "BootServicesData"}
  \/ d.type = "Conventional" /\ req.kind # "transitional4"
  \/ d.runtime

MemoryRange(start, end) == [start |-> start, end |-> end]
Included == {MemoryRange(d.start, d.start + d.pages * PageSize) :
               d \in {req.descs[i] : i \in {j \in DOMAIN req.descs : ShouldInclude(req.descs[j])}}}
HasFramebuffer == req.kind # "transitional4"
Framebuffer == MemoryRange(req.fb.start, req.fb.start + req.fb.size)
ToMap == Included \cup IF HasFramebuffer THEN {Framebuffer} ELSE {}

(* FindNextMemoryRange: the lowest range of the memory map that starts at  *)
(* or after the resolved addresses, but the framebuffer if it starts       *)
(* before that range ends.                                                 *)
Candidates == {r \in Included : r.start >= calc.resolved}
Lowest == CHOOSE r \in Candidates : \A q \in Candidates : r.start <= q.start
FramebufferIsNext ==
  /\ HasFramebuffer /\ Framebuffer.start >= calc.resolved
  /\ Candidates # {} => Framebuffer.start < Lowest.end
HasNext == Candidates # {} \/ FramebufferIsNext
FindNextMemoryRange == IF FramebufferIsNext THEN Framebuffer ELSE Lowest

StartIndex(r, level) == r.start \div Managed(level)
EndIndex(r, level) == (r.end - 1) \div Managed(level)

(* Faulty variant: the first table of a range is always a new one. *)
NewTablesAlways(r, level) == EndIndex(r, level) - StartIndex(r, level) + 1

NewTables(r, level) ==
  EndIndex(r, level) - StartIndex(r, level)
    + IF calc.highest[level] < StartIndex(r, level) \/ calc.num[level] = 0 THEN 1 ELSE 0

Init ==
  /\ req \in Requests
  /\ pc = "count"
  /\ calc = [resolved |-> 0, num |-> [l \in Levels |-> 0], highest |-> [l \in Levels |-> 0]]
  /\ next = 1
  /\ tables = {} /\ mapped = {}

CountTables ==
  /\ pc = "count" /\ HasNext
  /\ LET r == FindNextMemoryRange
     IN  calc' = [resolved |-> r.end,
                  num |-> [l \in Levels |-> calc.num[l] + NewTables(r, l)],
                  highest |-> [l \in Levels |-> EndIndex(r, l)]]
  /\ UNCHANGED <<req, pc, next, tables, mapped>>

(* The top table is counted last; the buffer has this size. *)
TotalTables ==
  calc.num[1] + calc.num[2] + calc.num[3] + (IF req.kind = "map5" THEN calc.num[4] ELSE 0) + 1

CountingEnds ==
  /\ pc = "count" /\ ~HasNext
  /\ pc' = "map"
  /\ UNCHANGED <<req, calc, next, tables, mapped>>

-----------------------------------------------------------------------------
(* MapMemoryRangeInLevel4Table and ...5Table with the functions that       *)
(* prepare the tables below: a table for each level and each part of the   *)
(* range it covers, a new one unless it is present, and an entry for each  *)
(* page; no table is made past the end of the buffer.                      *)
TablesFor(r) == UNION {{<<l, i>> : i \in StartIndex(r, l)..EndIndex(r, l)} : l \in Levels}

(* Faulty variant: the page of the last bytes is left out. *)
PagesOfDown(r) == (r.start \div PageSize)..((r.end \div PageSize) - 1)

PagesOf(r) == (r.start \div PageSize)..((r.end - 1) \div PageSize)
Fits(new) == 1 + Cardinality(tables \cup new) <= TotalTables

MapMemoryRange(r, then) ==
  IF Fits(TablesFor(r))
  THEN /\ tables' = tables \cup TablesFor(r)
       /\ mapped' = mapped \cup PagesOf(r)
       /\ pc' = then
  ELSE /\ pc' = "failed"
       /\ UNCHANGED <<tables, mapped>>

MapDescriptor ==
  /\ pc = "map" /\ next <= Len(req.descs)
  /\ LET d == req.descs[next]
     IN  IF ShouldInclude(d)
         THEN MapMemoryRange(MemoryRange(d.start, d.start + d.pages * PageSize), "map")
         ELSE UNCHANGED <<pc, tables, mapped>>
  /\ next' = next + 1
  /\ UNCHANGED <<req, calc>>

DescriptorsEnd ==
  /\ pc = "map" /\ next > Len(req.descs)
  /\ pc' = IF HasFramebuffer THEN "framebuffer" ELSE "done"
  /\ UNCHANGED <<req, calc, next, tables, mapped>>

MapFramebuffer ==
  /\ pc = "framebuffer"
  /\ MapMemoryRange(Framebuffer, "done")
  /\ UNCHANGED <<req, calc, next>>

Next == CountTables \/ CountingEnds \/ MapDescriptor \/ DescriptorsEnd \/ MapFramebuffer

Spec == Init /\ [][Next]_vars

-----------------------------------------------------------------------------
(* The types of the variables. *)
TypeOK ==
  /\ pc \in {"count", "map", "framebuffer", "done", "failed"}
  /\ calc \in [resolved : Nat, num : [Levels -> Nat], highest : [Levels -> Nat]]
  /\ next \in Nat \ {0}
  /\ tables \subseteq Levels \X Nat
  /\ mapped \subseteq Nat

(* The tables that are made are as many as were counted before the buffer  *)
(* was allocated, so the page map can be made after boot services have     *)
(* ended, when there is no other memory to be had; the counting goes by    *)
(* address, the making by the order of the firmware's map.  The header     *)
(* (InitialPageMapSetup.h:17): "Calculates size of a 4-level page map that *)
(* identity maps each usable memory region, ... and the framebuffer".      *)
CountedTablesSuffice ==
  /\ pc # "failed"
  /\ pc = "done" => 1 + Cardinality(tables) = TotalTables

(* Each page of the memory to be mapped is mapped, with a table at every   *)
(* level above it, and no other page: one that was forgotten is a fault    *)
(* once the page map is in use.                                            *)
AllAndOnlyIncludedIsMapped ==
  pc = "done" =>
    /\ \A r \in ToMap : \A a \in r.start..(r.end - 1) : a \div PageSize \in mapped
    /\ \A p \in mapped : \E r \in ToMap : r.start < (p + 1) * PageSize /\ p * PageSize < r.end
    /\ \A p \in mapped : \A l \in Levels : <<l, (p * PageSize) \div Managed(l)>> \in tables
=============================================================================

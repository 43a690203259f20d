------------------------ MODULE InitialMemMapGenEfi ------------------------
(***************************************************************************)
(* The initial memory map made from the firmware's memory map after boot   *)
(* services have ended (src/Kernel/efi/InitialMemMapGenEfi.c).  The        *)
(* firmware's descriptors come in any order.  They are visited by address  *)
(* twice, with neighbours of one kind combined: the first pass counts the  *)
(* regions and looks for the largest free one, the second writes the map   *)
(* into the beginning of that region.  A step is one iteration of          *)
(* IterEfiMemMapAsInitMap together with the callback it makes.             *)
(***************************************************************************)
EXTENDS Integers, Sequences, FiniteSets

CONSTANTS
  PageSize,       \* bytes in a page, the firmware's and the kernel's
  MapEntrySize,   \* sizeof(DexprOS_InitialMemMapEntry)
  EfiMaps         \* the memory maps the firmware may return: sets of
                  \* [start, pages, type, flags]

EfiTypes ==
  {"Reserved", "LoaderCode", "LoaderData", "BootServicesCode", "BootServicesData",
   "RuntimeServicesCode", "RuntimeServicesData", "Conventional", "Unusable",
   "ACPIReclaim", "ACPINVS", "MMIO", "MMIOPortSpace", "PalCode", "Persistent",
   "Unaccepted"}

MemTypes ==
  {"UNUSABLE", "FIRMWARE_RESERVED", "UNACCEPTED", "USABLE", "USABLE_PERSISTENT",
   "ACPI_RECLAIM", "ACPI_NVS", "BOOT_SERVICES_CODE", "BOOT_SERVICES_DATA",
   "RUNTIME_SERVICES_CODE", "RUNTIME_SERVICES_DATA", "Max"}

Usages ==
  {"NONE", "MAPPED", "KERNEL_CODE", "KERNEL_DATA", "BOOT_CODE", "BOOT_DATA",
   "INITIAL_MEMMAP"}

End(r) == r.start + r.pages * PageSize

(* What UEFI promises of a memory map: finitely many page-aligned          *)
(* descriptors that are not empty and do not overlap.                      *)
ASSUME EfiMapsAssumption ==
  /\ PageSize \in Nat \ {0} /\ MapEntrySize \in Nat \ {0}
  /\ \A m \in EfiMaps : IsFiniteSet(m)
  /\ \A m \in EfiMaps : \A d \in m :
       /\ d.start \in Nat /\ d.start % PageSize = 0
       /\ d.pages \in Nat \ {0} /\ d.type \in EfiTypes
       /\ \A e \in m \ {d} : End(d) <= e.start \/ End(e) <= d.start

VARIABLES
  efi,    \* the firmware's memory map
  gen,    \* [pass, range, written, success]: combinedRange, anyRangeWritten
  alloc,  \* [numRegions, address, pages]: the regions and the largest free one
  imap    \* the initial memory map

vars == <<efi, gen, alloc, imap>>

-----------------------------------------------------------------------------
ToDexprOSMemType(type) ==
  CASE type = "Unusable" -> "UNUSABLE"
    [] type = "Unaccepted" -> "UNACCEPTED"
    [] type \in {"Conventional", "LoaderCode", "LoaderData"} -> "USABLE"
    [] type = "Persistent" -> "USABLE_PERSISTENT"
    [] type = "ACPIReclaim" -> "ACPI_RECLAIM"
    [] type = "ACPINVS" -> "ACPI_NVS"
    [] type = "BootServicesCode" -> "BOOT_SERVICES_CODE"
    [] type = "BootServicesData" -> "BOOT_SERVICES_DATA"
    [] type = "RuntimeServicesCode" -> "RUNTIME_SERVICES_CODE"
    [] type = "RuntimeServicesData" -> "RUNTIME_SERVICES_DATA"
    [] OTHER -> "FIRMWARE_RESERVED"

ToDexprOSInitialMemMapUsage(type) ==
  CASE type \in {"Conventional", "Persistent", "BootServicesCode", "BootServicesData",
                 "RuntimeServicesCode", "RuntimeServicesData"} -> "MAPPED"
    [] type = "LoaderCode" -> "KERNEL_CODE"
    [] type = "LoaderData" -> "KERNEL_DATA"
    [] OTHER -> "NONE"

(* The attribute bits are renamed one by one; the names stand for both.    *)
Region(d) ==
  [start |-> d.start, pages |-> d.pages, flags |-> d.flags,
   type |-> ToDexprOSMemType(d.type), usage |-> ToDexprOSInitialMemMapUsage(d.type)]

NoRange == [start |-> 0, pages |-> 0, flags |-> {}, type |-> "Max", usage |-> "NONE"]

(* GetNextEfiMapEntry: the lowest descriptor from the end of the range on. *)
Above == {d \in efi : d.start >= End(gen.range)}
HasNext == Above # {}
NextRegion == Region(CHOOSE d \in Above : \A e \in Above : d.start <= e.start)

(* Faulty variant: the usage is forgotten. *)
CombinesAnyUsage ==
  /\ gen.written
  /\ NextRegion.start = End(gen.range)
  /\ NextRegion.type = gen.range.type
  /\ NextRegion.flags = gen.range.flags

Combines ==
  /\ gen.written
  /\ NextRegion.start = End(gen.range)
  /\ NextRegion.type = gen.range.type
  /\ NextRegion.usage = gen.range.usage
  /\ NextRegion.flags = gen.range.flags

-----------------------------------------------------------------------------
(* InitMemMapAllocCallback. *)
Counted(r) ==
  LET larger == r.type = "USABLE" /\ r.usage = "MAPPED" /\ r.pages > alloc.pages
  IN  [numRegions |-> alloc.numRegions + 1,
       address |-> IF larger THEN r.start ELSE alloc.address,
       pages |-> IF larger THEN r.pages ELSE alloc.pages]

(* The map has one region more than were counted: its own. *)
RequiredSize(a) == (a.numRegions + 1) * MapEntrySize
RequiredPages(a) == (RequiredSize(a) + PageSize - 1) \div PageSize

Full(m) == Len(m) * MapEntrySize >= RequiredSize(alloc)

(* FillInitMemMapEntry: the entries that stand for a region. *)
Filled(r) ==
  LET own == RequiredPages(alloc)
      first == [r EXCEPT !.usage = "INITIAL_MEMMAP", !.pages = own]
      rest == [r EXCEPT !.start = @ + own * PageSize, !.pages = @ - own]
  IN  IF r.start # alloc.address THEN <<r>>
      ELSE IF r.pages = own THEN <<first>>
      ELSE <<first, rest>>

(* As many of them as there is room for. *)
Room(m, new) ==
  IF Full(m) THEN 0
  ELSE IF Len(new) = 2 /\ ~Full(Append(m, new[1])) THEN 2
  ELSE 1

(* The callback, made for the range collected so far if there is one.      *)
(* ok is the success flag of the second pass.                              *)
Submitted ==
  LET new == Filled(gen.range)
      room == Room(imap, new)
  IN  CASE ~gen.written -> [alloc |-> alloc, imap |-> imap, ok |-> TRUE]
        [] gen.written /\ gen.pass = "count" ->
             [alloc |-> Counted(gen.range), imap |-> imap, ok |-> TRUE]
        [] OTHER -> [alloc |-> alloc, imap |-> imap \o SubSeq(new, 1, room),
                     ok |-> room = Len(new)]

Iterating == gen.pass \in {"count", "fill"}

-----------------------------------------------------------------------------
Init ==
  /\ efi \in EfiMaps
  /\ gen = [pass |-> "count", range |-> NoRange, written |-> FALSE, success |-> TRUE]
  /\ alloc = [numRegions |-> 0, address |-> 0, pages |-> 0]
  /\ imap = << >>

CombineRanges ==
  /\ Iterating /\ HasNext /\ Combines
  /\ gen' = [gen EXCEPT !.range.pages = @ + NextRegion.pages]
  /\ UNCHANGED <<efi, alloc, imap>>

SubmitRange ==
  /\ Iterating /\ HasNext /\ ~Combines
  /\ gen' = [gen EXCEPT !.range = NextRegion, !.written = TRUE,
                        !.success = @ /\ Submitted.ok]
  /\ alloc' = Submitted.alloc
  /\ imap' = Submitted.imap
  /\ UNCHANGED efi

(* The first pass is over: take the beginning of the largest free region   *)
(* for the map, or give up.                                                *)
AllocInitMemMapMemory ==
  /\ gen.pass = "count" /\ ~HasNext
  /\ alloc' = Submitted.alloc
  /\ gen' = [pass |-> IF alloc'.pages >= RequiredPages(alloc') THEN "fill" ELSE "failed",
             range |-> NoRange, written |-> FALSE, success |-> TRUE]
  /\ UNCHANGED <<efi, imap>>

FinishInitMemMap ==
  /\ gen.pass = "fill" /\ ~HasNext
  /\ imap' = Submitted.imap
  /\ gen' = [gen EXCEPT !.success = @ /\ Submitted.ok,
                        !.pass = IF gen.success /\ Submitted.ok THEN "done" ELSE "failed"]
  /\ UNCHANGED <<efi, alloc>>

Next ==
  \/ CombineRanges
  \/ SubmitRange
  \/ AllocInitMemMapMemory
  \/ FinishInitMemMap

Spec == Init /\ [][Next]_vars /\ WF_vars(Next)

-----------------------------------------------------------------------------
Entries == [start : Nat, pages : Nat, flags : SUBSET {"WB", "XP"}, type : MemTypes, usage : Usages]

(* The types of the variables. *)
TypeOK ==
  /\ gen \in [pass : {"count", "fill", "done", "failed"}, range : Entries,
              written : BOOLEAN, success : BOOLEAN]
  /\ alloc \in [numRegions : Nat, address : Nat, pages : Nat]
  /\ \A i \in DOMAIN imap : imap[i] \in Entries

(* "The map's entries must be always sorted from the lowest physical       *)
(* address to the highest" (InitialMemMap.h:33), and they do not overlap;  *)
(* no entry is empty, the one left of the map's own region included.       *)
MapIsSorted ==
  /\ \A i \in DOMAIN imap : imap[i].pages > 0
  /\ \A i, j \in DOMAIN imap : i < j => End(imap[i]) <= imap[j].start

(* The room found by the first pass is enough for what the second writes:  *)
(* FillInitMemMapEntry never meets the end of the buffer, and the map's    *)
(* bytes lie in pages the map itself says are taken by it.                 *)
MapFitsItsRegion ==
  /\ gen.success
  /\ Len(imap) * MapEntrySize <= RequiredPages(alloc) * PageSize
  /\ gen.pass = "done" =>
       \E i \in DOMAIN imap :
         /\ imap[i].usage = "INITIAL_MEMMAP" /\ imap[i].type = "USABLE"
         /\ imap[i].start = alloc.address
         /\ imap[i].pages * PageSize >= Len(imap) * MapEntrySize
         /\ \A j \in DOMAIN imap : imap[j].usage = "INITIAL_MEMMAP" => j = i

(* Every page the firmware described, and no other, is in an entry, with   *)
(* the type, the flags and the usage of its descriptor; only the map's own *)
(* pages have changed their usage, from free.  The entries are sorted.     *)
MapDescribesMemory ==
  /\ MapIsSorted
  /\ gen.pass = "done" =>
      /\ \A d \in efi : \A p \in 0..(d.pages - 1) :
           \E i \in DOMAIN imap :
             /\ imap[i].start <= d.start + p * PageSize
             /\ d.start + p * PageSize < End(imap[i])
             /\ imap[i].type = ToDexprOSMemType(d.type)
             /\ imap[i].flags = d.flags
             /\ \/ imap[i].usage = ToDexprOSInitialMemMapUsage(d.type)
                \/ imap[i].usage = "INITIAL_MEMMAP" /\ d.type = "Conventional"
      /\ \A i \in DOMAIN imap : \A p \in 0..(imap[i].pages - 1) :
           \E d \in efi : d.start <= imap[i].start + p * PageSize
                          /\ imap[i].start + p * PageSize < End(d)
=============================================================================

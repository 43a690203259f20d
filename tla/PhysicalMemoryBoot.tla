------------------------- MODULE PhysicalMemoryBoot -------------------------
(***************************************************************************)
(* What efi_main does with physical memory once boot services have ended   *)
(* (src/Boot/x86_64-efi/UefiBoot.c): the initial map is made from the      *)
(* firmware's, and the tree and the map of physical memory from the        *)
(* initial map, in memory that the initial map says is free.               *)
(***************************************************************************)
EXTENDS InitialMemMapGenEfi

CONSTANTS TreeEntrySize, TreeLevelSize, RangeSize, Alignment, InPlace

ASSUME SizesAssumption ==
  /\ TreeEntrySize \in Nat /\ TreeLevelSize \in Nat /\ RangeSize \in Nat
  /\ Alignment \in Nat \ {0} /\ InPlace \in Nat

VARIABLES pc, loop, sizes, used, buffer, tree, ranges, success

structs == <<pc, loop, sizes, used, buffer, tree, ranges, success>>

M == INSTANCE PhysicalMemStructs WITH InitialMaps <- {<< >>}

BootInit == Init /\ M!Init

MakeInitialMap == Next /\ UNCHANGED structs

MakeStructs == gen.pass = "done" /\ M!Next /\ UNCHANGED <<efi, gen, alloc>>

BootNext == MakeInitialMap \/ MakeStructs

BootSpec == BootInit /\ [][BootNext]_<<vars, structs>> /\ WF_<<vars, structs>>(BootNext)

-----------------------------------------------------------------------------
(* Sizes counted before the buffer was placed are the sizes used, and the  *)
(* list of ranges has the memory of the initial map, combined.             *)
CountsAreExact == M!CountsAreExact

(* The blocks above the pages summarise the pages below them. *)
BlocksSummarisePages == M!BlocksSummarisePages

(* The usable memory is in the list that starts with pFirstEntry. *)
UsableMemoryIsManaged == M!UsableMemoryIsManaged

Pages == UNION {{d.start + p * PageSize : p \in 0..(d.pages - 1)} : d \in efi}
ReportedAs(address, types) ==
  \E d \in efi : d.start <= address /\ address < End(d) /\ d.type \in types

(* A page the tree offers is memory that the firmware reported as          *)
(* conventional or persistent, so not the kernel's, the firmware's or a    *)
(* device's, and neither the buffer of the initial map nor that of the     *)
(* tree and the map of physical memory reaches into it; and every other    *)
(* such page is offered.                                                   *)
Meets(page, address, size) == page < address + size /\ address < page + PageSize
Offered ==
  UNION {{M!LastLevel(e).start + b * PageSize :
            b \in {c \in DOMAIN M!LastLevel(e).blocks : M!LastLevel(e).blocks[c] = M!Available}} :
         e \in M!Listed}
OnlyFreeMemoryIsOffered ==
  pc = "done" =>
    Offered = {a \in Pages : /\ ReportedAs(a, {"Conventional", "Persistent"})
                             /\ ~Meets(a, alloc.address, RequiredSize(alloc))
                             /\ ~Meets(a, buffer.address, buffer.size)}

(* The initial map fits the region found for it; it and the structures     *)
(* made from it never lie on the same bytes, and all of them on memory the *)
(* firmware reported as conventional.                                      *)
BuffersAreDisjoint ==
  /\ MapFitsItsRegion
  /\ buffer.size > 0 =>
       /\ \/ buffer.address + buffer.size <= alloc.address
          \/ alloc.address + Len(imap) * MapEntrySize <= buffer.address
       /\ \A p \in 0..((buffer.size - 1) \div PageSize) :
            ReportedAs(buffer.address + p * PageSize, {"Conventional"})

(* Physical memory is set up, or efi_main gives up for want of room. *)
MemoryIsSetUp == <>(pc \in {"done", "failed"} \/ gen.pass = "failed")
=============================================================================

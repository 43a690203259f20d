------------------------ MODULE MCPhysicalMemoryBoot ------------------------
(* Memory maps of up to MaxDescriptors descriptors, the first of them at   *)
(* page Base, with or without a gap before the others.                     *)
EXTENDS PhysicalMemoryBoot

CONSTANTS MaxDescriptors, Sizes, Base, LargeSizes, LargeGaps

Kinds == {<<"Conventional", {"WB"}>>, <<"Conventional", {"WB", "XP"}>>, <<"LoaderData", {"WB"}>>,
          <<"BootServicesData", {"WB"}>>, <<"Persistent", {"WB"}>>}

Layouts == UNION {[1..n -> [kind : Kinds, pages : Sizes, gap : {0, 1}]] : n \in 1..MaxDescriptors}

PagesUpTo(f, n) == LET s[i \in 0..n] == IF i = 0 THEN Base ELSE s[i - 1] + f[i].pages + f[i].gap IN s[n]

MapOf(layout) ==
  {[start |-> (PagesUpTo(layout, i) - layout[i].pages) * PageSize, pages |-> layout[i].pages,
    type |-> layout[i].kind[1], flags |-> layout[i].kind[2]] : i \in DOMAIN layout}

(* Larger maps, free memory and the loader's in turn from the page after   *)
(* the gap on: their trees have up to eleven levels.                       *)
LargeLayouts ==
  {[i \in DOMAIN f |->
      [kind |-> IF i % 2 = 1 THEN <<"Conventional", {"WB"}>> ELSE <<"LoaderData", {"WB"}>>,
       pages |-> f[i], gap |-> IF i = 1 THEN gap ELSE 0]] :
     f \in [1..5 -> LargeSizes], gap \in LargeGaps}

MCEfiMaps == {MapOf(l) : l \in {m \in Layouts : m[1].gap = 0} \cup LargeLayouts}
=============================================================================

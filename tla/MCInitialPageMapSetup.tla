----------------------- MODULE MCInitialPageMapSetup -----------------------
(* Memory maps of NumDescs descriptors, from the lowest up or from the     *)
(* highest down, with gaps, and a framebuffer at one of the given places.  *)
EXTENDS InitialPageMapSetup

CONSTANTS NumDescs, Sizes, Gaps, FramebufferAt, FramebufferSizes, Overlaps

Descs == [kind : {<<"LoaderData", FALSE>>, <<"Conventional", FALSE>>, <<"Reserved", TRUE>>},
          pages : Sizes, gap : Gaps]

PagesUpTo(f, n) == LET s[i \in 0..n] == IF i = 0 THEN 0 ELSE s[i - 1] + f[i].pages + f[i].gap IN s[n]

Upwards(f) ==
  [i \in DOMAIN f |-> [start |-> (PagesUpTo(f, i) - f[i].pages) * PageSize, pages |-> f[i].pages,
                       type |-> f[i].kind[1], runtime |-> f[i].kind[2]]]
Downwards(s) == [i \in DOMAIN s |-> s[Len(s) + 1 - i]]

Meets(fb, d) == fb.start < d.start + d.pages * PageSize /\ d.start < fb.start + fb.size

MCRequests ==
  {r \in [kind : Kinds,
          descs : {Upwards(f) : f \in [1..NumDescs -> Descs]} \cup {Downwards(Upwards(f)) : f \in [1..NumDescs -> Descs]},
          fb : [start : FramebufferAt, size : FramebufferSizes]] :
     \A i \in DOMAIN r.descs : r.descs[i].type # "Reserved" \/ ~Overlaps => ~Meets(r.fb, r.descs[i])}
=============================================================================

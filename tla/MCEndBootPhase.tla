--------------------------- MODULE MCEndBootPhase ---------------------------
(* Page maps that outgrow the first buffer for some of the memory maps. *)
EXTENDS EndBootPhase

MCNeed4 == [d \in 1..MaxDescs |-> PageSize * (1 + d)]
MCNeed5 == [d \in 1..MaxDescs |-> PageSize * (2 + d)]
MCNeedTmp == [d \in 1..MaxDescs |-> PageSize * d]
=============================================================================

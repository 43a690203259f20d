--------------------------- MODULE MCKernelString ---------------------------
(* Every remainder of both pointers modulo 8, every kind of overlap, and   *)
(* lengths around the word sizes.                                          *)
EXTENDS KernelString

Memory == 0..40
Values == -1..40
Distinct == {[a \in Memory |-> a]}

(* Memories in which two bytes differ from the others. *)
FewDifferences ==
  {[a \in Memory |-> IF a = p THEN 2 ELSE IF a = q THEN 1 ELSE 0] :
     p \in {12, 17, 24}, q \in {10, 18, 25}}

Starts == 0..16
Lengths == {0, 1, 2, 3, 4, 7, 8, 9, 13, 16, 17}

CallsOf(functions, starts, lengths) ==
  [fn : functions, dest : starts, src : starts, count : lengths]

CopyCalls == CallsOf({"memcpy", "memmove"}, Starts, Lengths)
SetCalls == [fn : {"memset"}, dest : Starts, src : {40}, count : Lengths]
WriteCalls == CopyCalls \cup SetCalls

CompareCalls == CallsOf({"memcmp"}, {1, 2, 4, 8, 9, 10, 16, 17}, {1, 3, 4, 8, 9, 16, 17})

AllCalls == WriteCalls \cup CompareCalls
AllContents == Distinct \cup FewDifferences

OverlapCalls == CallsOf({"memcpy", "memmove"}, 1..16, {4, 8, 16})
=============================================================================

---------------------------- MODULE MCInterrupts ----------------------------
(* The keyboard, the line of spurious interrupts and the mouse, which is   *)
(* on the second chip; an NMI, a page fault and an exception with an error *)
(* code that the stub handles.                                             *)
EXTENDS Interrupts
=============================================================================

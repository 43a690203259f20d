----------------------------- MODULE Interrupts -----------------------------
(***************************************************************************)
(* Interrupts and exceptions of the running kernel: the gates of the       *)
(* interrupt descriptor table (src/Kernel/x86_64/IdtCreator.c), the        *)
(* service routines (Interrupts.S), the handlers they call                 *)
(* (InterruptHandlers.c) with their end-of-interrupt commands, and the     *)
(* kernel panic (KernelPanic.c, KernelPanicHalt.S).                        *)
(*                                                                         *)
(* The CPU runs the booting thread, which sets up the PICs and enables     *)
(* interrupts, until an interrupt or an exception puts an activation of a  *)
(* service routine on top of it.  A register holds a value that some       *)
(* activation has put there: its number in the sequence of activations.    *)
(***************************************************************************)
EXTENDS PICDriver, SequencesExt

CONSTANTS
  Exceptions,    \* vectors of exceptions that may occur
  MaxRequests,   \* requests the devices make
  MaxExceptions

ASSUME InterruptsAssumption == MaxRequests \in Nat /\ MaxExceptions \in Nat

VARIABLES
  cpu,    \* [if, inta]: the interrupt flag, and the chip it asks for a vector
  run,    \* the activations: [vector, step, n], the last one is running
  stack,  \* a sequence of [is, value], the last one is the top
  regs,   \* the registers a called function may change
  left    \* [requests, exceptions]: how many may still happen

vars == <<pic, cpu, run, stack, regs, left>>

Thread == -1

(* What Interrupts.S pushes, in this order. *)
SavedRegisters == <<"rax", "rcx", "rdx", "r8", "r9", "r10", "r11">>
Registers == Range(SavedRegisters) \cup {"xmm"}

Depth == Len(run)
Current == run[Depth]
Going == cpu.inta = "nobody"   \* the CPU executes instructions
At(step) == Going /\ Current.step = step
Step(step) == run' = [run EXCEPT ![Depth].step = step]

-----------------------------------------------------------------------------
(* Faulty variant: the lines get trap gates, too. *)
InterruptGateForNmiOnly(vector) == vector = 2

(* DexprOS_SetupIDT: an interrupt gate clears the interrupt flag, a trap   *)
(* gate, which all other exceptions have, does not.                        *)
InterruptGate(vector) == vector = 2 \/ vector \in 32..47

(* Exceptions for which the CPU pushes an error code. *)
PushesErrorCode == {8, 10, 11, 12, 13, 14, 17, 21, 29, 30}

(* Faulty variant: the routine is like that of an exception without code. *)
PopsCodeOfPanicsOnly(vector) == vector \in {8, 10, 11, 12, 13, 14, 17}

(* The service routines that take the error code off the stack. *)
PopsErrorCode(vector) == vector \in {8, 10, 11, 12, 13, 14, 17, 21, 29, 30}

(* The exceptions whose handlers call DexprOS_KernelPanic; the handler of  *)
(* the others that have one is DexprOS_HandleInterrupt_Stub.               *)
Panics == (0..8) \cup (10..14) \cup {16, 17, 18}
Stubs == {19, 20, 21, 28, 29, 30}

ASSUME ExceptionsAssumption == Exceptions \subseteq Panics \cup Stubs

IsIrq(vector) == vector \in 32..47
LineOf(vector) == vector - 32

(* All handlers of lines send an EOI but the one of line 7, which takes    *)
(* its interrupt for a spurious one.                                       *)
SendsEoi(line) == line \notin {2, 7}

(* The keyboard's handler draws, with floating point operations. *)
Changes(vector) ==
  Range(SavedRegisters) \cup (IF vector = 33 THEN {"xmm"} ELSE {})
Clobber == regs' = [r \in Registers |-> IF r \in Changes(Current.vector) THEN Depth ELSE regs[r]]

-----------------------------------------------------------------------------
Init ==
  /\ PicInit
  /\ cpu = [if |-> FALSE, inta |-> "nobody"]
  /\ run = <<[vector |-> Thread, step |-> "pic", n |-> 1]>>
  /\ stack = <<>>
  /\ regs = [r \in Registers |-> 1]
  /\ left = [requests |-> MaxRequests, exceptions |-> MaxExceptions]

(* The booting thread: DexprOS_InitialisePIC(32, 40), the rest of the      *)
(* setup, DexprOS_EnableInterrupts, and what it shows before it halts.     *)
InitialisePIC ==
  LET words == InitWords(32, 40)
  IN  /\ At("pic")
      /\ InitialiseStep(words[Current.n], Current.n)
      /\ run' = [run EXCEPT ![Depth].n = @ + 1,
                            ![Depth].step = IF Current.n < Len(words) THEN @ ELSE "enable"]
      /\ UNCHANGED <<cpu, stack, regs, left>>

EnableInterrupts ==
  /\ At("enable")
  /\ cpu' = [cpu EXCEPT !.if = TRUE]
  /\ Step("show")
  /\ UNCHANGED <<pic, stack, regs, left>>

-----------------------------------------------------------------------------
(* Devices. *)

DeviceRequests(line) ==
  /\ left.requests > 0
  /\ Request(line)
  /\ left' = [left EXCEPT !.requests = @ - 1]
  /\ UNCHANGED <<cpu, run, stack, regs>>

DeviceWithdraws(line) ==
  /\ Withdraw(line)
  /\ UNCHANGED <<cpu, run, stack, regs, left>>

(* The CPU: the frame it pushes has the interrupt flag, and with it (which *)
(* the CPU does not know) what the registers were.                         *)
Enter(vector) ==
  /\ cpu' = [if |-> cpu.if /\ ~InterruptGate(vector), inta |-> "nobody"]
  /\ run' = Append(run, [vector |-> vector, step |-> "push", n |-> 1])
  /\ stack' = Append(stack, [is |-> "frame", value |-> [if |-> cpu.if, regs |-> regs]])
              \o (IF vector \in PushesErrorCode THEN <<[is |-> "code", value |-> 0]>> ELSE <<>>)
  /\ UNCHANGED regs

AcceptInterrupt ==
  /\ Going /\ cpu.if /\ Urgent0 # {}
  /\ cpu' = [cpu EXCEPT !.inta = "PIC0"]
  /\ UNCHANGED <<pic, run, stack, regs, left>>

(* The request that was accepted may have gone, or a more urgent one come. *)
AcknowledgePIC0 ==
  /\ cpu.inta = "PIC0"
  /\ pic' = [pic EXCEPT !["PIC0"] = Taken("PIC0", Urgent0)]
  /\ IF Answer(Urgent0) = 2
     THEN cpu' = [cpu EXCEPT !.inta = "PIC1"] /\ UNCHANGED <<run, stack, regs>>
     ELSE Enter(pic["PIC0"].offset + Answer(Urgent0))
  /\ UNCHANGED left

AcknowledgePIC1 ==
  /\ cpu.inta = "PIC1"
  /\ pic' = [pic EXCEPT !["PIC1"] = Taken("PIC1", Urgent1)]
  /\ Enter(pic["PIC1"].offset + Answer(Urgent1))
  /\ UNCHANGED left

Halted == Current.step = "halt"
NmiBlocked == \E i \in DOMAIN run : run[i].vector = 2

Exception(vector) ==
  /\ Going /\ left.exceptions > 0
  /\ IF vector = 2 THEN ~NmiBlocked ELSE ~Halted
  /\ Enter(vector)
  /\ left' = [left EXCEPT !.exceptions = @ - 1]
  /\ UNCHANGED pic

-----------------------------------------------------------------------------
(* The service routines. *)

PushRegisters ==
  /\ At("push")
  /\ stack' = stack \o [i \in DOMAIN SavedRegisters |->
                          [is |-> "register", value |-> regs[SavedRegisters[i]]]]
  /\ Step("call")
  /\ UNCHANGED <<pic, cpu, regs, left>>

(* The call of a handler, up to its first EOI or the panic's first step.   *)
CallHandler ==
  /\ At("call")
  /\ Clobber
  /\ Step(IF Current.vector \in Panics THEN "cli"
          ELSE IF IsIrq(Current.vector) /\ SendsEoi(LineOf(Current.vector)) THEN "eoi"
          ELSE "pop")
  /\ UNCHANGED <<pic, cpu, stack, left>>

SendEOI ==
  LET chips == EoiChips(LineOf(Current.vector))
  IN  /\ At("eoi")
      /\ ToCommand(chips[Current.n], "EOI")
      /\ run' = [run EXCEPT ![Depth].n = @ + 1,
                            ![Depth].step = IF Current.n < Len(chips) THEN @ ELSE "pop"]
      /\ UNCHANGED <<cpu, stack, regs, left>>

PopRegisters ==
  LET n == Len(SavedRegisters)
  IN  /\ At("pop")
      /\ regs' = [r \in Registers |->
                    IF \E i \in 1..n : SavedRegisters[i] = r
                    THEN stack[Len(stack) - n + (CHOOSE i \in 1..n : SavedRegisters[i] = r)].value
                    ELSE regs[r]]
      /\ stack' = SubSeq(stack, 1, Len(stack) - n)
      /\ Step("iret")
      /\ UNCHANGED <<pic, cpu, left>>

(* The stack that iretq finds. *)
AtIretq == IF PopsErrorCode(Current.vector) THEN Front(stack) ELSE stack

Iretq ==
  /\ At("iret")
  /\ cpu' = [cpu EXCEPT !.if = Last(AtIretq).value.if]
  /\ stack' = Front(AtIretq)
  /\ run' = Front(run)
  /\ UNCHANGED <<pic, regs, left>>

(* Faulty variant: interrupts stay enabled. *)
PanicDisablesInterruptsMissing ==
  /\ At("cli")
  /\ Step("print")
  /\ UNCHANGED <<pic, cpu, stack, regs, left>>

(* DexprOS_KernelPanic: no interrupts any more, the message, and the halt  *)
(* loop, in which the CPU stays.                                           *)
PanicDisablesInterrupts ==
  /\ At("cli")
  /\ cpu' = [cpu EXCEPT !.if = FALSE]
  /\ Step("print")
  /\ UNCHANGED <<pic, stack, regs, left>>

PanicPrints ==
  /\ At("print")
  /\ Step("halt")
  /\ UNCHANGED <<pic, cpu, stack, regs, left>>

-----------------------------------------------------------------------------
Cpu ==
  \/ InitialisePIC \/ EnableInterrupts
  \/ AcceptInterrupt \/ AcknowledgePIC0 \/ AcknowledgePIC1
  \/ PushRegisters \/ CallHandler \/ SendEOI \/ PopRegisters \/ Iretq
  \/ PanicDisablesInterrupts \/ PanicPrints

Next ==
  \/ Cpu
  \/ \E line \in Lines : DeviceRequests(line) \/ DeviceWithdraws(line)
  \/ \E vector \in Exceptions : Exception(vector)

(* The CPU does not stop but in the halt loops. *)
Spec == Init /\ [][Next]_vars /\ WF_vars(Cpu)

-----------------------------------------------------------------------------
(* Once the chips are set up, an input is in service only while its        *)
(* handler is active and has not ended it: an EOI, which names no input,   *)
(* always hits its own, and none is left behind to hold back less urgent   *)
(* ones.  Line 7 is the exception, whose handler takes every interrupt for *)
(* a spurious one: once a device has used it, it stays in service.         *)
Handling(line) == \E i \in DOMAIN run : run[i].vector = 32 + line /\ run[i].step \in {"push", "call", "eoi"}
InServiceIsHandled ==
  run[1].step # "pic" =>
    /\ \A i \in pic["PIC0"].isr : i \in {2, 7} \/ Handling(i)
    /\ \A i \in pic["PIC1"].isr : Handling(8 + i)
    /\ 2 \in pic["PIC0"].isr => cpu.inta = "PIC1" \/ \E line \in 8..15 : Handling(line)

(* A handler of a line runs to its end before that of another: what the    *)
(* keyboard driver and the shell do in a handler is not interrupted by     *)
(* their own handlers, not even through an exception's trap gate.          *)
HandlersDoNotNest ==
  \A i, j \in DOMAIN run : IsIrq(run[i].vector) /\ IsIrq(run[j].vector) => i = j

(* Every routine returns with the frame that was pushed for it on top of   *)
(* the stack, with or without an error code, and with the registers that   *)
(* it saves as they were.                                                  *)
ReturnsAsItCame ==
  Current.step = "iret" =>
    /\ AtIretq # <<>> /\ Last(AtIretq).is = "frame"
    /\ \A r \in Range(SavedRegisters) : Last(AtIretq).value.regs[r] = regs[r]
    /\ Cardinality({i \in DOMAIN AtIretq : AtIretq[i].is = "frame"}) = Depth - 1

(* "Push the caller-saved variables on to the stack" (Interrupts.S:75): an *)
(* interrupted function finds all registers that a called function may     *)
(* change as they were.                                                    *)
CallerSavedAreKept ==
  Current.step = "iret" => \A r \in Registers : Last(AtIretq).value.regs[r] = regs[r]

(* "Stay in the halted state even if the machine has received a NMI"       *)
(* (KernelPanicHalt.S:7): once a panic has disabled interrupts it is never *)
(* returned from, and interrupts stay disabled, whatever happens.          *)
Panicking(r) == {i \in DOMAIN r : r[i].step \in {"print", "halt"}}
PanicIsFinal == [][Panicking(run) # {} => Panicking(run) \subseteq Panicking(run') /\ ~cpu'.if]_vars

(* Every request is served, or withdrawn, unless the kernel panics: no     *)
(* spurious interrupt and no exception in between holds it back for ever.  *)
(* Not so on line 7.                                                       *)
RequestsAreServed ==
  \A line \in Lines \ {7} : Requested(line) ~> ~Requested(line) \/ Panicking(run) # {}
=============================================================================

----------------------------- MODULE PICDriver -----------------------------
(***************************************************************************)
(* The two interrupt controllers and the driver that sets them up and      *)
(* acknowledges interrupts (src/Drivers/PICDriver.c).  PIC1 is connected   *)
(* to input 2 of PIC0; lines 0 to 7 are inputs of PIC0, 8 to 15 of PIC1.   *)
(*                                                                         *)
(* The chips are modelled by what the driver's commands rely on: fixed     *)
(* priorities, a request that is latched until it is acknowledged, an      *)
(* in-service bit that holds back all requests that are not more urgent,   *)
(* and an end-of-interrupt command that clears the most urgent such bit.   *)
(***************************************************************************)
EXTENDS Integers, Sequences, FiniteSets

CONSTANT Lines  \* the lines with a device

ASSUME LinesAssumption == Lines \subseteq (0..15) \ {2}

VARIABLE pic    \* [Chips -> [expects, offset, cascade, mask, irr, isr]]

Chips == {"PIC0", "PIC1"}
ChipOf(line) == IF line > 7 THEN "PIC1" ELSE "PIC0"
Input(line) == line % 8

Lowest(S) == CHOOSE i \in S : \A j \in S : i <= j

-----------------------------------------------------------------------------
(* The chips. *)

(* Inputs that may interrupt: requested, not masked and more urgent than   *)
(* all that is in service.                                                 *)
Urgent(chip, requests) ==
  {i \in requests \ pic[chip].mask : pic[chip].expects = "nothing" /\ \A s \in pic[chip].isr : i < s}

Connected == pic["PIC0"].cascade = 4 /\ pic["PIC1"].cascade = 2

Urgent1 == Urgent("PIC1", pic["PIC1"].irr)
Urgent0 ==
  Urgent("PIC0", pic["PIC0"].irr \cup (IF Connected /\ Urgent1 # {} THEN {2} ELSE {}))

(* The chip puts its most urgent input into service.  If the request has   *)
(* gone it answers with input 7 and puts nothing into service.             *)
Taken(chip, urgent) ==
  IF urgent = {} THEN pic[chip]
  ELSE [pic[chip] EXCEPT !.isr = @ \cup {Lowest(urgent)}, !.irr = @ \ {Lowest(urgent)}]
Answer(urgent) == IF urgent = {} THEN 7 ELSE Lowest(urgent)

(* A chip after the byte v is written to its command or its data port.     *)
Command(c, v) ==
  CASE v = "INITIALIZE" -> [c EXCEPT !.expects = "offset", !.irr = {}, !.isr = {}, !.mask = {}]
    [] v = "EOI"        -> [c EXCEPT !.isr = IF @ = {} THEN @ ELSE @ \ {Lowest(@)}]

Data(c, v) ==
  CASE c.expects = "offset"  -> [c EXCEPT !.offset = v, !.expects = "cascade"]
    [] c.expects = "cascade" -> [c EXCEPT !.cascade = v, !.expects = "mode"]
    [] c.expects = "mode"    -> [c EXCEPT !.expects = "nothing"]
    [] c.expects = "nothing" -> [c EXCEPT !.mask = v]

(* What the firmware leaves: its own offsets, the timer in service. *)
PicInit ==
  pic = [c \in Chips |->
           [expects |-> "nothing", offset |-> IF c = "PIC0" THEN 8 ELSE 112, cascade |-> 0,
            mask |-> 0..7, irr |-> {}, isr |-> IF c = "PIC0" THEN {0} ELSE {}]]

(* A device asks for an interrupt, or takes its request back.              *)
Requested(line) == Input(line) \in pic[ChipOf(line)].irr
Request(line) ==
  /\ ~Requested(line)
  /\ pic' = [pic EXCEPT ![ChipOf(line)].irr = @ \cup {Input(line)}]
Withdraw(line) ==
  /\ Requested(line)
  /\ pic' = [pic EXCEPT ![ChipOf(line)].irr = @ \ {Input(line)}]

-----------------------------------------------------------------------------
(* The driver. *)

ToCommand(chip, v) == pic' = [pic EXCEPT ![chip] = Command(@, v)]
ToData(chip, v) == pic' = [pic EXCEPT ![chip] = Data(@, v)]

(* Faulty variant: both chips get the same offset. *)
InitWordsSameOffset(int0Offset, int1Offset) ==
  <<<<"PIC0", "INITIALIZE">>, <<"PIC1", "INITIALIZE">>,
    <<"PIC0", int0Offset>>, <<"PIC1", int0Offset>>,
    <<"PIC0", 4>>, <<"PIC1", 2>>,
    <<"PIC0", "8086">>, <<"PIC1", "8086">>,
    <<"PIC0", {}>>, <<"PIC1", {}>>>>

(* DexprOS_InitialisePIC: what is written to which chip; the first two go  *)
(* to the command ports, the others to the data ports.                     *)
InitWords(int0Offset, int1Offset) ==
  <<<<"PIC0", "INITIALIZE">>, <<"PIC1", "INITIALIZE">>,
    <<"PIC0", int0Offset>>, <<"PIC1", int1Offset>>,
    <<"PIC0", 4>>, <<"PIC1", 2>>,
    <<"PIC0", "8086">>, <<"PIC1", "8086">>,
    <<"PIC0", {}>>, <<"PIC1", {}>>>>

InitialiseStep(word, i) ==
  IF i <= 2 THEN ToCommand(word[1], word[2]) ELSE ToData(word[1], word[2])

(* Faulty variant: PIC1 is forgotten. *)
EoiChipsFirstOnly(irqNumber) == <<"PIC0">>

(* DexprOS_PIC_SendEOI: the chips it writes to, in this order. *)
EoiChips(irqNumber) == IF irqNumber > 7 THEN <<"PIC1", "PIC0">> ELSE <<"PIC0">>
=============================================================================

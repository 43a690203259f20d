---------------------------- MODULE KernelString ----------------------------
(***************************************************************************)
(* memset, memcpy, memmove and memcmp of the kernel                        *)
(* (src/Kernel/kstdlib/string.c).  Each function works in three loops: a   *)
(* few bytes, then words of 8, 4 or 2 bytes, then the bytes that are left. *)
(* A behaviour is one call, a step one iteration of a loop; an iteration   *)
(* reads its bytes before it writes them.  Memory is a function from       *)
(* addresses to bytes, 0 is the address of NULL.                           *)
(***************************************************************************)
EXTENDS Integers

CONSTANTS
  Addresses,  \* a range of addresses
  Bytes,
  Contents,   \* what the memory may hold before the call
  Calls       \* [fn, dest, src, count]; memset's src is the byte to set,
              \* memcmp's dest and src are lhs and rhs

Functions == {"memset", "memcpy", "memmove", "memcmp"}
CallRecords == [fn : Functions, dest : Nat, src : Nat, count : Nat]

(* The arguments are buffers in memory. *)
ASSUME CallsAssumption ==
  /\ Addresses \subseteq Nat /\ Bytes \subseteq Int
  /\ Contents \subseteq [Addresses -> Bytes]
  /\ Calls \subseteq CallRecords
  /\ \A c \in Calls :
       /\ c.dest..(c.dest + c.count - 1) \subseteq Addresses
       /\ IF c.fn = "memset" THEN c.src \in Bytes
                             ELSE c.src..(c.src + c.count - 1) \subseteq Addresses

VARIABLES
  mem,     \* address -> byte
  old,     \* history: the memory before the call
  call,
  run,     \* [pc, unit, align, words, rem, offset]: iterations left in each of
           \* the loops, and how many bytes have been dealt with
  result   \* what memcmp returns

vars == <<mem, old, call, run, result>>

-----------------------------------------------------------------------------
ReturnsAtOnce(c) ==
  \/ c.dest = 0 \/ c.count = 0
  \/ c.fn # "memset" /\ (c.src = 0 \/ c.src = c.dest)

(* memcpy hands these to memmove, and memmove all others to memcpy. *)
Backward(c) ==
  /\ c.fn \in {"memcpy", "memmove"}
  /\ c.dest > c.src
  /\ c.src + c.count > c.dest

(* The widest word that fits and for which both pointers leave the same    *)
(* remainder (then so do the ends of the buffers).                         *)
Suits(c, w) == c.count >= w /\ c.dest % w = c.src % w

WordSizes == {1, 2, 4, 8}

Unit(c) ==
  IF c.fn = "memset" THEN 8
  ELSE CHOOSE w \in WordSizes : Suits(c, w) /\ \A v \in WordSizes : Suits(c, v) => v <= w

(* The first loop takes as many bytes as the address is past a boundary;   *)
(* memset takes all of a short buffer there.                               *)
AlignBytes(c) ==
  IF Backward(c) THEN (c.dest + c.count) % Unit(c)
  ELSE IF c.fn = "memset" /\ c.count < (c.dest % 8) + 8 THEN c.count
  ELSE c.dest % Unit(c)

(* Faulty variant: no loop for the bytes left after the words. *)
LoopsWithoutRest(c) ==
  LET rest == c.count - AlignBytes(c)
  IN  [pc |-> "looping", unit |-> Unit(c), align |-> AlignBytes(c),
       words |-> rest \div Unit(c), rem |-> 0, offset |-> 0]

Loops(c) ==
  LET rest == c.count - AlignBytes(c)
  IN  [pc |-> "looping", unit |-> Unit(c), align |-> AlignBytes(c),
       words |-> rest \div Unit(c), rem |-> rest % Unit(c), offset |-> 0]

NotLooping(pc) == [pc |-> pc, unit |-> 1, align |-> 0, words |-> 0, rem |-> 0, offset |-> 0]

Init ==
  /\ call \in Calls
  /\ mem \in Contents
  /\ old = mem
  /\ run = NotLooping("entry")
  /\ result = 0

Enter ==
  /\ run.pc = "entry"
  /\ run' = IF ReturnsAtOnce(call) THEN NotLooping("done") ELSE Loops(call)
  /\ UNCHANGED <<mem, old, call, result>>

-----------------------------------------------------------------------------
(* The iterations.  A loop starts when those before it have ended. *)
Byte1 == run.pc = "looping" /\ run.align > 0
Word == run.pc = "looping" /\ run.align = 0 /\ run.words > 0
Byte2 == run.pc = "looping" /\ run.align = 0 /\ run.words = 0 /\ run.rem > 0

Width == IF Word THEN run.unit ELSE 1

Iterated ==
  IF Byte1 THEN [run EXCEPT !.align = @ - 1, !.offset = @ + 1]
  ELSE IF Word THEN [run EXCEPT !.words = @ - 1, !.offset = @ + run.unit]
  ELSE [run EXCEPT !.rem = @ - 1, !.offset = @ + 1]

(* mem with the Width bytes from source on copied to dest on. *)
Copied(dest, source) ==
  [a \in Addresses |-> IF a \in dest..(dest + Width - 1) THEN mem[source + (a - dest)] ELSE mem[a]]

SetForward ==
  /\ Byte1 \/ Word \/ Byte2
  /\ call.fn = "memset"
  /\ mem' = [a \in Addresses |->
               IF a \in (call.dest + run.offset)..(call.dest + run.offset + Width - 1)
               THEN call.src ELSE mem[a]]
  /\ run' = Iterated
  /\ UNCHANGED <<old, call, result>>

CopyForward ==
  /\ Byte1 \/ Word \/ Byte2
  /\ call.fn \in {"memcpy", "memmove"} /\ ~Backward(call)
  /\ mem' = Copied(call.dest + run.offset, call.src + run.offset)
  /\ run' = Iterated
  /\ UNCHANGED <<old, call, result>>

(* Faulty variant: the index is not decremented before it is used. *)
CopyBackwardOffByOne ==
  LET left == IF Byte1 THEN run.align ELSE IF Word THEN run.words ELSE run.rem
      dest == call.dest + call.count - 1 - run.offset
  IN  /\ Byte1 \/ Word \/ Byte2
      /\ Backward(call)
      /\ mem' = Copied(dest, call.src + Width * left)
      /\ run' = Iterated
      /\ UNCHANGED <<old, call, result>>

(* Each loop counts its own iterations down and reads at that index from   *)
(* the start of the source; the destination pointer starts at the last     *)
(* byte, which is where a word is written too.                             *)
CopyBackward ==
  LET left == IF Byte1 THEN run.align ELSE IF Word THEN run.words ELSE run.rem
      dest == call.dest + call.count - 1 - run.offset
  IN  /\ Byte1 \/ Word \/ Byte2
      /\ Backward(call)
      /\ mem' = Copied(dest, call.src + Width * (left - 1))
      /\ run' = Iterated
      /\ UNCHANGED <<old, call, result>>

Different(from, width) ==
  {i \in from..(from + width - 1) : mem[call.dest + i] # mem[call.src + i]}

(* Faulty variant: words compared as little-endian numbers. *)
CompareWords ==
  LET differ == Different(run.offset, Width)
      last == CHOOSE i \in differ : \A j \in differ : i >= j
  IN  /\ Byte1 \/ Word \/ Byte2
      /\ call.fn = "memcmp"
      /\ IF differ = {}
         THEN run' = Iterated /\ UNCHANGED result
         ELSE run' = NotLooping("done") /\ result' = mem[call.dest + last] - mem[call.src + last]
      /\ UNCHANGED <<mem, old, call>>

Compare ==
  LET differ == Different(run.offset, Width)
      first == CHOOSE i \in differ : \A j \in differ : i <= j
  IN  /\ Byte1 \/ Word \/ Byte2
      /\ call.fn = "memcmp"
      /\ IF differ = {}
         THEN run' = Iterated /\ UNCHANGED result
         ELSE run' = NotLooping("done") /\ result' = mem[call.dest + first] - mem[call.src + first]
      /\ UNCHANGED <<mem, old, call>>

Return ==
  /\ run.pc = "looping" /\ run.align = 0 /\ run.words = 0 /\ run.rem = 0
  /\ run' = NotLooping("done")
  /\ UNCHANGED <<mem, old, call, result>>

Next == Enter \/ SetForward \/ CopyForward \/ CopyBackward \/ Compare \/ Return

Spec == Init /\ [][Next]_vars

-----------------------------------------------------------------------------
(* Properties. *)
Done == run.pc = "done"
Buffer(c) == c.dest..(c.dest + c.count - 1)

(* Bytes outside the buffer are never touched, not even for a moment,      *)
(* whatever the alignment and the length, by every function but a copy     *)
(* that has to go backwards.                                               *)
StaysInBuffer ==
  ~Backward(call) => \A a \in Addresses \ Buffer(call) : mem[a] = old[a]

(* What memset, memcpy and memmove leave behind: the byte, or what the     *)
(* source held before the call, although a source above the destination    *)
(* is overwritten in words while it is being read.                         *)
ForwardIsExact ==
  Done /\ ~Backward(call) /\ call.dest # 0 =>
    \A i \in 0..(call.count - 1) :
      CASE call.fn = "memset" -> mem[call.dest + i] = call.src
        [] call.fn \in {"memcpy", "memmove"} /\ call.src # 0 ->
             mem[call.dest + i] = old[call.src + i]
        [] OTHER -> mem[call.dest + i] = old[call.dest + i]

(* A copy that has to go backwards is exact when it goes byte by byte.     *)
BytewiseBackwardIsExact ==
  Done /\ Backward(call) /\ call.src # 0 /\ Unit(call) = 1 =>
    \A a \in Addresses :
      mem[a] = IF a \in Buffer(call) THEN old[call.src + (a - call.dest)] ELSE old[a]

(* memcmp returns the difference of the first bytes that differ, 0 if none *)
(* does, although it compares words first.                                 *)
ComparesBytes ==
  Done /\ call.fn = "memcmp" /\ ~ReturnsAtOnce(call) =>
    LET differ == Different(0, call.count)
    IN  IF differ = {} THEN result = 0
        ELSE \E i \in differ :
               /\ \A j \in differ : i <= j
               /\ result = old[call.dest + i] - old[call.src + i]

(* Overlapping regions are copied as if through a buffer of their own,     *)
(* which the comments of memcpy and memmove promise in either direction.   *)
OverlapIsExact ==
  Done /\ call.fn \in {"memcpy", "memmove"} /\ call.src # 0 /\ call.dest # 0 =>
    \A i \in 0..(call.count - 1) : mem[call.dest + i] = old[call.src + i]
=============================================================================

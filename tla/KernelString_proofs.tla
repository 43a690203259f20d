------------------------ MODULE KernelString_proofs ------------------------
(***************************************************************************)
(* Forward writes are exact for every memory, every call and every length. *)
(* The inductive invariant says that the loops together cover the buffer   *)
(* (LoopsAddUp) and that memory is as it was but for the bytes already     *)
(* dealt with, which are final (PrefixDone).  What an iteration reads lies *)
(* ahead of what has been written: the source is above the destination or  *)
(* the two do not overlap.                                                 *)
(***************************************************************************)
EXTENDS KernelString, TLAPS

Runs == [pc : {"entry", "looping", "done"}, unit : WordSizes, align : Nat,
         words : Nat, rem : Nat, offset : Nat]

TypeInv ==
  /\ mem \in [Addresses -> Bytes] /\ old \in [Addresses -> Bytes]
  /\ call \in Calls
  /\ run \in Runs

(* The loops deal with every byte exactly once: no word goes past the end. *)
LoopsAddUp ==
  run.pc = "looping" =>
    /\ run.offset + run.align + run.unit * run.words + run.rem = call.count
    /\ ~ReturnsAtOnce(call)

(* The final value of the byte at a, for a call that goes forward. *)
Final(a) ==
  IF call.fn = "memset" THEN call.src
  ELSE IF call.fn = "memcmp" THEN old[a]
  ELSE old[call.src + (a - call.dest)]

PrefixDone ==
  ~Backward(call) /\ run.pc = "looping" =>
    \A a \in Addresses :
      mem[a] = IF a \in call.dest..(call.dest + run.offset - 1) THEN Final(a) ELSE old[a]

Untouched == run.pc = "entry" => mem = old

Inv ==
  /\ TypeInv /\ LoopsAddUp /\ PrefixDone /\ Untouched
  /\ StaysInBuffer /\ ForwardIsExact

-----------------------------------------------------------------------------
(* Division by a word size, as used to count the words of a buffer. *)
LEMMA DivisionByUnit ==
  ASSUME NEW n \in Nat, NEW u \in WordSizes
  PROVE  /\ n \div u \in Nat /\ n % u \in Nat
         /\ n % u < u
         /\ u * (n \div u) + (n % u) = n
<1>1. CASE u = 1 BY <1>1
<1>2. CASE u = 2 BY <1>2
<1>3. CASE u = 4 BY <1>3
<1>4. CASE u = 8 BY <1>4
<1> QED BY <1>1, <1>2, <1>3, <1>4 DEF WordSizes

(* The word size that is chosen suits the call: it is no larger than the   *)
(* buffer.                                                                 *)
LEMMA UnitSuits ==
  ASSUME NEW c \in Calls, ~ReturnsAtOnce(c)
  PROVE  /\ Unit(c) \in WordSizes
         /\ c.fn # "memset" => Unit(c) <= c.count
<1>0. c \in CallRecords
  BY CallsAssumption
<1>1. CASE c.fn = "memset"
  BY <1>1 DEF Unit, WordSizes
<1>2. CASE c.fn # "memset"
  <2> DEFINE Best(w) == Suits(c, w) /\ \A v \in WordSizes : Suits(c, v) => v <= w
  <2>1. Suits(c, 1)
    BY <1>0 DEF Suits, ReturnsAtOnce, CallRecords
  <2>2. \E w \in WordSizes : Best(w)
    <3>1. CASE Suits(c, 8) BY <3>1 DEF WordSizes
    <3>2. CASE ~Suits(c, 8) /\ Suits(c, 4) BY <3>2 DEF WordSizes
    <3>3. CASE ~Suits(c, 8) /\ ~Suits(c, 4) /\ Suits(c, 2) BY <3>3 DEF WordSizes
    <3>4. CASE ~Suits(c, 8) /\ ~Suits(c, 4) /\ ~Suits(c, 2) BY <2>1, <3>4 DEF WordSizes
    <3> QED BY <3>1, <3>2, <3>3, <3>4
  <2>3. Unit(c) = CHOOSE w \in WordSizes : Best(w)
    BY <1>2 DEF Unit
  <2> HIDE DEF Best
  <2>4. Unit(c) \in WordSizes /\ Best(Unit(c))
    BY <2>2, <2>3
  <2> QED BY <2>4, <1>0 DEF Best, Suits, CallRecords, WordSizes
<1> QED BY <1>1, <1>2

(* The loops set up by Enter cover the buffer. *)
LEMMA LoopsCover ==
  ASSUME NEW c \in Calls, ~ReturnsAtOnce(c)
  PROVE  LET l == Loops(c)
         IN  /\ l \in Runs /\ l.pc = "looping" /\ l.offset = 0
             /\ l.align + l.unit * l.words + l.rem = c.count
<1>0. c \in CallRecords
  BY CallsAssumption
<1>1. c.dest \in Nat /\ c.count \in Nat /\ c.count > 0
  BY <1>0 DEF CallRecords, ReturnsAtOnce
<1> DEFINE u == Unit(c)
<1>2. u \in WordSizes /\ (c.fn # "memset" => u <= c.count)
  BY UnitSuits
<1>3. c.fn = "memset" => u = 8
  BY DEF Unit
<1>4. AlignBytes(c) \in 0..c.count
  <2>1. CASE Backward(c)
    <3>1. c.fn # "memset" BY <2>1 DEF Backward
    <3>2. (c.dest + c.count) % u \in Nat /\ (c.dest + c.count) % u < u
      BY <1>1, <1>2, DivisionByUnit
    <3>3. AlignBytes(c) = (c.dest + c.count) % u BY <2>1 DEF AlignBytes
    <3> QED BY <3>1, <3>2, <3>3, <1>1, <1>2 DEF WordSizes
  <2>2. CASE ~Backward(c) /\ c.fn = "memset" /\ c.count < (c.dest % 8) + 8
    BY <2>2, <1>1 DEF AlignBytes
  <2>3. CASE ~Backward(c) /\ ~(c.fn = "memset" /\ c.count < (c.dest % 8) + 8)
    <3>1. AlignBytes(c) = c.dest % u BY <2>3 DEF AlignBytes
    <3>2. c.dest % u \in Nat /\ c.dest % u < u BY <1>1, <1>2, DivisionByUnit
    <3>3. CASE c.fn = "memset"
      BY <3>1, <3>2, <3>3, <2>3, <1>1, <1>3
    <3>4. CASE c.fn # "memset"
      BY <3>1, <3>2, <3>4, <1>1, <1>2 DEF WordSizes
    <3> QED BY <3>3, <3>4
  <2> QED BY <2>1, <2>2, <2>3
<1> DEFINE rest == c.count - AlignBytes(c)
<1>5. rest \in Nat
  BY <1>1, <1>4
<1>6. rest \div u \in Nat /\ rest % u \in Nat /\ u * (rest \div u) + (rest % u) = rest
  BY <1>2, <1>5, DivisionByUnit
<1>7. Loops(c) = [pc |-> "looping", unit |-> u, align |-> AlignBytes(c),
                  words |-> rest \div u, rem |-> rest % u, offset |-> 0]
  BY DEF Loops
<1>8. u * (rest \div u) \in Nat
  BY <1>2, <1>6 DEF WordSizes
<1> HIDE DEF u
<1>9. AlignBytes(c) + u * (rest \div u) + (rest % u) = c.count
  BY <1>1, <1>4, <1>6, <1>8
<1> QED BY <1>1, <1>2, <1>4, <1>6, <1>7, <1>9 DEF Runs

-----------------------------------------------------------------------------
Iterating == Byte1 \/ Word \/ Byte2

(* An iteration deals with Width bytes, all of them in the buffer. *)
LEMMA IterationInBounds ==
  ASSUME TypeInv, LoopsAddUp, Iterating
  PROVE  /\ Width \in WordSizes
         /\ run.offset + Width <= call.count
         /\ Iterated \in Runs /\ Iterated.pc = "looping"
         /\ Iterated.offset = run.offset + Width
         /\ Iterated.offset + Iterated.align + Iterated.unit * Iterated.words + Iterated.rem
              = call.count
<1>0. /\ run.pc = "looping" /\ run \in Runs
      /\ run.unit \in WordSizes /\ run.align \in Nat /\ run.words \in Nat
      /\ run.rem \in Nat /\ run.offset \in Nat
  BY DEF Iterating, Byte1, Word, Byte2, TypeInv, Runs
<1>1. run.offset + run.align + run.unit * run.words + run.rem = call.count
  BY <1>0 DEF LoopsAddUp
<1>2. run.unit * run.words \in Nat
  BY <1>0 DEF WordSizes
<1>3. CASE Byte1
  <2>1. ~Word BY <1>0, <1>3 DEF Byte1, Word
  <2>2. Width = 1 BY <2>1 DEF Width
  <2>3. Iterated = [run EXCEPT !.align = @ - 1, !.offset = @ + 1] BY <1>3 DEF Iterated
  <2>4. run.align - 1 \in Nat BY <1>0, <1>3 DEF Byte1
  <2>5. /\ Iterated.pc = "looping" /\ Iterated.unit = run.unit
        /\ Iterated.align = run.align - 1 /\ Iterated.words = run.words
        /\ Iterated.rem = run.rem /\ Iterated.offset = run.offset + 1
    BY <1>0, <2>3 DEF Runs
  <2>6. Iterated \in Runs
    <3>1. run.offset + 1 \in Nat BY <1>0
    <3> QED BY <1>0, <2>3, <2>4, <3>1 DEF Runs
  <2> QED BY <1>0, <1>1, <1>2, <2>2, <2>4, <2>5, <2>6 DEF WordSizes
<1>4. CASE Word
  <2>1. ~Byte1 BY <1>0, <1>4 DEF Byte1, Word
  <2>2. Width = run.unit BY <1>4 DEF Width
  <2>3. Iterated = [run EXCEPT !.words = @ - 1, !.offset = @ + run.unit]
    BY <1>4, <2>1 DEF Iterated
  <2>4. run.words - 1 \in Nat /\ run.words > 0 BY <1>0, <1>4 DEF Word
  <2>5. /\ Iterated.pc = "looping" /\ Iterated.unit = run.unit
        /\ Iterated.align = run.align /\ Iterated.words = run.words - 1
        /\ Iterated.rem = run.rem /\ Iterated.offset = run.offset + run.unit
    BY <1>0, <2>3 DEF Runs
  <2>6. Iterated \in Runs
    <3>1. run.offset + run.unit \in Nat BY <1>0 DEF WordSizes
    <3> QED BY <1>0, <2>3, <2>4, <3>1 DEF Runs
  <2>7. run.unit * (run.words - 1) = run.unit * run.words - run.unit
        /\ run.unit * (run.words - 1) \in Nat
    BY <1>0, <2>4 DEF WordSizes
  <2>8. /\ run.offset + run.unit <= call.count
        /\ run.offset + run.unit + run.align + run.unit * (run.words - 1) + run.rem = call.count
    <3>1. run.unit \in Nat BY <1>0 DEF WordSizes
    <3> QED BY <1>0, <1>1, <1>2, <2>7, <3>1
  <2> QED BY <1>0, <2>2, <2>5, <2>6, <2>8
<1>5. CASE Byte2
  <2>1. ~Byte1 /\ ~Word BY <1>0, <1>5 DEF Byte1, Word, Byte2
  <2>2. Width = 1 BY <2>1 DEF Width
  <2>3. Iterated = [run EXCEPT !.rem = @ - 1, !.offset = @ + 1] BY <2>1 DEF Iterated
  <2>4. run.rem - 1 \in Nat BY <1>0, <1>5 DEF Byte2
  <2>5. /\ Iterated.pc = "looping" /\ Iterated.unit = run.unit
        /\ Iterated.align = run.align /\ Iterated.words = run.words
        /\ Iterated.rem = run.rem - 1 /\ Iterated.offset = run.offset + 1
    BY <1>0, <2>3 DEF Runs
  <2>6. Iterated \in Runs
    <3>1. run.offset + 1 \in Nat BY <1>0
    <3> QED BY <1>0, <2>3, <2>4, <3>1 DEF Runs
  <2> QED BY <1>0, <1>1, <1>2, <2>2, <2>4, <2>5, <2>6 DEF WordSizes
<1> QED BY <1>3, <1>4, <1>5 DEF Iterating

(* Facts about the call used by every step. *)
LEMMA CallFacts ==
  ASSUME TypeInv
  PROVE  /\ call.fn \in Functions /\ call.dest \in Nat /\ call.src \in Nat /\ call.count \in Nat
         /\ call.dest..(call.dest + call.count - 1) \subseteq Addresses
         /\ call.fn = "memset" => call.src \in Bytes
         /\ call.fn # "memset" => call.src..(call.src + call.count - 1) \subseteq Addresses
BY CallsAssumption DEF TypeInv, CallRecords

(* The source bytes of a forward copy that are still to be read lie in     *)
(* memory and have not been overwritten.                                   *)
LEMMA SourceIntact ==
  ASSUME TypeInv, PrefixDone, run.pc = "looping", ~Backward(call),
         call.fn \in {"memcpy", "memmove"},
         NEW i \in Nat, run.offset <= i, i < call.count
  PROVE  call.src + i \in Addresses /\ mem[call.src + i] = old[call.src + i]
<1>1. /\ call.dest \in Nat /\ call.src \in Nat /\ call.count \in Nat
      /\ call.src..(call.src + call.count - 1) \subseteq Addresses
  BY CallFacts
<1>2. run.offset \in Nat
  BY DEF TypeInv, Runs
<1>3. call.src + i \in Addresses
  BY <1>1
<1>4. call.dest <= call.src \/ call.src + call.count <= call.dest
  BY <1>1 DEF Backward
<1>5. call.src + i \notin call.dest..(call.dest + run.offset - 1)
  BY <1>1, <1>2, <1>4
<1> QED BY <1>3, <1>5 DEF PrefixDone

(* One iteration extends the finished part by the bytes it deals with. *)
LEMMA IterationExtends ==
  ASSUME TypeInv, LoopsAddUp, PrefixDone, Iterating, ~Backward(call),
         SetForward \/ CopyForward
  PROVE  /\ mem' \in [Addresses -> Bytes]
         /\ \A a \in Addresses :
              mem'[a] = IF a \in call.dest..(call.dest + run.offset + Width - 1)
                        THEN Final(a) ELSE old[a]
<1>1. /\ call.dest \in Nat /\ call.src \in Nat /\ call.count \in Nat
      /\ call.fn = "memset" => call.src \in Bytes
  BY CallFacts
<1>2. /\ run.pc = "looping" /\ run.offset \in Nat
      /\ mem \in [Addresses -> Bytes]
  BY DEF TypeInv, Runs, Iterating, Byte1, Word, Byte2
<1>3. Width \in WordSizes /\ run.offset + Width <= call.count
  BY IterationInBounds
<1>4. Width \in Nat
  BY <1>3 DEF WordSizes
<1>5. \A a \in Addresses :
        mem[a] = IF a \in call.dest..(call.dest + run.offset - 1) THEN Final(a) ELSE old[a]
  BY <1>2 DEF PrefixDone
<1>6. Addresses \subseteq Nat
  BY CallsAssumption
<1> DEFINE chunk == (call.dest + run.offset)..(call.dest + run.offset + Width - 1)
<1>7. \A a \in Addresses :
        a \in call.dest..(call.dest + run.offset + Width - 1)
          <=> a \in call.dest..(call.dest + run.offset - 1) \/ a \in chunk
  BY <1>1, <1>2, <1>4, <1>6
<1>8. /\ mem' \in [Addresses -> Bytes]
      /\ \A a \in Addresses : mem'[a] = IF a \in chunk THEN Final(a) ELSE mem[a]
  <2>1. CASE SetForward
    <3>1. mem' = [a \in Addresses |-> IF a \in chunk THEN call.src ELSE mem[a]]
      BY <2>1 DEF SetForward
    <3>2. call.fn = "memset"
      BY <2>1 DEF SetForward
    <3> QED BY <1>1, <1>2, <3>1, <3>2 DEF Final
  <2>2. CASE CopyForward
    <3>1. call.fn \in {"memcpy", "memmove"}
      BY <2>2 DEF CopyForward
    <3> DEFINE source(a) == (call.src + run.offset) + (a - (call.dest + run.offset))
    <3>2. mem' = [a \in Addresses |-> IF a \in chunk THEN mem[source(a)] ELSE mem[a]]
      BY <2>2 DEF CopyForward, Copied
    <3>3. ASSUME NEW a \in Addresses, a \in chunk
          PROVE  source(a) \in Addresses /\ mem[source(a)] = Final(a)
      <4> DEFINE i == a - call.dest
      <4>1. i \in Nat /\ run.offset <= i /\ i < call.count
        BY <1>1, <1>2, <1>3, <1>4, <1>6, <3>3
      <4>2. source(a) = call.src + i
        BY <1>1, <1>2, <1>6
      <4> HIDE DEF i
      <4>3. call.src + i \in Addresses /\ mem[call.src + i] = old[call.src + i]
        BY <1>2, <3>1, <4>1, SourceIntact
      <4>4. Final(a) = old[call.src + i]
        BY <3>1 DEF Final, i
      <4> QED BY <4>2, <4>3, <4>4
    <3> HIDE DEF source, chunk
    <3> QED BY <1>2, <3>2, <3>3
  <2> QED BY <2>1, <2>2
<1> HIDE DEF chunk
<1> QED BY <1>5, <1>7, <1>8

-----------------------------------------------------------------------------
(* The invariant holds when a call starts. *)
THEOREM InitInv == Init => Inv
<1> SUFFICES ASSUME Init PROVE Inv
  OBVIOUS
<1>1. TypeInv
  BY CallsAssumption DEF Init, TypeInv, Runs, NotLooping, WordSizes
<1>2. run.pc = "entry" /\ mem = old
  BY DEF Init, NotLooping
<1> QED BY <1>1, <1>2 DEF Inv, LoopsAddUp, PrefixDone, Untouched, StaysInBuffer, ForwardIsExact, Done

(* With every byte dealt with, and when nothing was to be done, the memory *)
(* is what the call promises.                                              *)
LEMMA FinalMemory ==
  ASSUME TypeInv, LoopsAddUp, PrefixDone, run.pc = "looping", ~Backward(call),
         run.offset = call.count
  PROVE  \A i \in 0..(call.count - 1) :
           CASE call.fn = "memset" -> mem[call.dest + i] = call.src
             [] call.fn \in {"memcpy", "memmove"} /\ call.src # 0 ->
                  mem[call.dest + i] = old[call.src + i]
             [] OTHER -> mem[call.dest + i] = old[call.dest + i]
<1> SUFFICES ASSUME NEW i \in 0..(call.count - 1)
             PROVE  CASE call.fn = "memset" -> mem[call.dest + i] = call.src
                      [] call.fn \in {"memcpy", "memmove"} /\ call.src # 0 ->
                           mem[call.dest + i] = old[call.src + i]
                      [] OTHER -> mem[call.dest + i] = old[call.dest + i]
  OBVIOUS
<1>1. /\ call.dest \in Nat /\ call.src \in Nat /\ call.count \in Nat /\ call.fn \in Functions
      /\ call.dest..(call.dest + call.count - 1) \subseteq Addresses
  BY CallFacts
<1>2. call.dest + i \in call.dest..(call.dest + call.count - 1) /\ i \in Nat
  BY <1>1
<1>3. mem[call.dest + i] = Final(call.dest + i)
  BY <1>1, <1>2 DEF PrefixDone
<1>4. (call.dest + i) - call.dest = i
  BY <1>1, <1>2
<1>5. call.fn # "memset" => call.src # 0
  BY DEF LoopsAddUp, ReturnsAtOnce
<1>6. CASE call.fn = "memset"
  BY <1>3, <1>6 DEF Final
<1>7. CASE call.fn = "memcmp"
  BY <1>3, <1>7 DEF Final
<1>8. CASE call.fn \in {"memcpy", "memmove"}
  BY <1>3, <1>4, <1>5, <1>8 DEF Final
<1> QED BY <1>1, <1>6, <1>7, <1>8 DEF Functions

(* A copy that goes backwards reads from the source only. *)
LEMMA BackwardReadsSource ==
  ASSUME TypeInv, LoopsAddUp, CopyBackward
  PROVE  mem' \in [Addresses -> Bytes]
<1> DEFINE left == IF Byte1 THEN run.align ELSE IF Word THEN run.words ELSE run.rem
           dest == call.dest + call.count - 1 - run.offset
           source == call.src + Width * (left - 1)
<1>0. /\ Iterating /\ Backward(call) /\ mem' = Copied(dest, source)
  BY DEF CopyBackward, Iterating
<1>1. /\ call.dest \in Nat /\ call.src \in Nat /\ call.count \in Nat
      /\ call.src..(call.src + call.count - 1) \subseteq Addresses
      /\ Addresses \subseteq Nat
  BY <1>0, CallFacts, CallsAssumption DEF Backward
<1>2. /\ run.pc = "looping" /\ run.unit \in WordSizes /\ run.align \in Nat
      /\ run.words \in Nat /\ run.rem \in Nat /\ run.offset \in Nat
      /\ mem \in [Addresses -> Bytes]
  BY <1>0 DEF Iterating, Byte1, Word, Byte2, TypeInv, Runs
<1>3. /\ run.unit * run.words \in Nat
      /\ run.offset + run.align + run.unit * run.words + run.rem = call.count
  BY <1>2 DEF LoopsAddUp, WordSizes
<1>4. Width \in WordSizes
  BY <1>2 DEF Width, WordSizes
<1>5. left \in Nat \ {0} /\ Width * left <= call.count
  <2>1. CASE Byte1
    <3>1. ~Word /\ Width = 1 /\ left = run.align /\ left > 0
      BY <2>1, <1>2 DEF Byte1, Word, Width
    <3> QED BY <3>1, <1>2, <1>3
  <2>2. CASE Word
    <3>1. ~Byte1 /\ Width = run.unit /\ left = run.words /\ left > 0
      BY <2>2, <1>2 DEF Byte1, Word, Width
    <3> QED BY <3>1, <1>2, <1>3
  <2>3. CASE Byte2
    <3>1. ~Byte1 /\ ~Word /\ Width = 1 /\ left = run.rem /\ left > 0
      BY <2>3, <1>2 DEF Byte1, Byte2, Word, Width
    <3> QED BY <3>1, <1>2, <1>3
  <2> QED BY <1>0, <2>1, <2>2, <2>3 DEF Iterating
<1>6. dest \in Int
  BY <1>1, <1>2
<1> HIDE DEF left, dest
<1>7. ASSUME NEW a \in Addresses, a \in dest..(dest + Width - 1)
      PROVE  source + (a - dest) \in Addresses
  <2>1. a - dest \in 0..(Width - 1)
    BY <1>1, <1>4, <1>6, <1>7 DEF WordSizes
  <2>2. Width * (left - 1) + (a - dest) \in 0..(call.count - 1)
    BY <1>1, <1>4, <1>5, <2>1 DEF WordSizes
  <2> QED BY <1>1, <1>4, <1>5, <2>1, <2>2 DEF WordSizes
<1> HIDE DEF source
<1> QED BY <1>0, <1>2, <1>7 DEF Copied

(* Every iteration, and entering and leaving the function, preserves it.   *)
THEOREM NextInv == Inv /\ [Next]_vars => Inv'
<1> SUFFICES ASSUME Inv, [Next]_vars PROVE Inv'
  OBVIOUS
<1> USE DEF Inv
<1>c. /\ call.dest \in Nat /\ call.src \in Nat /\ call.count \in Nat /\ call.fn \in Functions
      /\ call.dest..(call.dest + call.count - 1) \subseteq Addresses
      /\ Addresses \subseteq Nat
  BY CallFacts, CallsAssumption
<1>1. CASE Enter
  <2>0. run.pc = "entry" /\ mem' = mem /\ old' = old /\ call' = call /\ mem = old
    BY <1>1 DEF Enter, Untouched
  <2>1. CASE ReturnsAtOnce(call)
    <3>1. run' = NotLooping("done")
      BY <1>1, <2>1 DEF Enter
    <3>2. TypeInv'
      BY <2>0, <3>1 DEF TypeInv, Runs, NotLooping, WordSizes
    <3>3. run'.pc = "done"
      BY <3>1 DEF NotLooping
    <3>4. ForwardIsExact'
      <4> SUFFICES ASSUME ~Backward(call), call.dest # 0, NEW i \in 0..(call.count - 1)
                   PROVE  CASE call.fn = "memset" -> mem[call.dest + i] = call.src
                            [] call.fn \in {"memcpy", "memmove"} /\ call.src # 0 ->
                                 mem[call.dest + i] = old[call.src + i]
                            [] OTHER -> mem[call.dest + i] = old[call.dest + i]
        BY <2>0 DEF ForwardIsExact, Backward
      <4>1. call.count # 0 BY <1>c
      <4>2. call.fn # "memset" /\ (call.src = 0 \/ call.src = call.dest)
        BY <2>1, <4>1 DEF ReturnsAtOnce
      <4> QED BY <2>0, <4>2
    <3>5. StaysInBuffer'
      BY <2>0 DEF StaysInBuffer
    <3> QED BY <3>2, <3>3, <3>4, <3>5 DEF LoopsAddUp, PrefixDone, Untouched
  <2>2. CASE ~ReturnsAtOnce(call)
    <3>1. run' = Loops(call)
      BY <1>1, <2>2 DEF Enter
    <3>2. /\ run' \in Runs /\ run'.pc = "looping" /\ run'.offset = 0
          /\ run'.align + run'.unit * run'.words + run'.rem = call.count
      BY <2>2, <3>1, LoopsCover DEF TypeInv
    <3>3. TypeInv'
      BY <2>0, <3>2 DEF TypeInv
    <3>4. LoopsAddUp'
      <4>1. run'.align \in Nat /\ run'.unit * run'.words \in Nat /\ run'.rem \in Nat
        BY <3>2 DEF Runs, WordSizes
      <4>2. run'.offset + run'.align + run'.unit * run'.words + run'.rem = call.count
        BY <3>2, <4>1
      <4>3. ~ReturnsAtOnce(call)'
        BY <2>0, <2>2 DEF ReturnsAtOnce
      <4> QED BY <2>0, <4>2, <4>3 DEF LoopsAddUp
    <3>5. PrefixDone'
      BY <2>0, <3>2, <1>c DEF PrefixDone
    <3> QED BY <2>0, <3>2, <3>3, <3>4, <3>5
            DEF Untouched, StaysInBuffer, ForwardIsExact, Done
  <2> QED BY <2>1, <2>2
<1>2. CASE SetForward \/ CopyForward
  <2>0. /\ Iterating /\ run' = Iterated /\ old' = old /\ call' = call /\ ~Backward(call)
    BY <1>2 DEF SetForward, CopyForward, Iterating, Backward
  <2>1. run.pc = "looping"
    BY <2>0 DEF Iterating, Byte1, Word, Byte2
  <2>2. /\ Width \in WordSizes /\ run.offset + Width <= call.count
        /\ run' \in Runs /\ run'.pc = "looping" /\ run'.offset = run.offset + Width
        /\ run'.offset + run'.align + run'.unit * run'.words + run'.rem = call.count
    BY <2>0, IterationInBounds
  <2>3. /\ mem' \in [Addresses -> Bytes]
        /\ \A a \in Addresses :
             mem'[a] = IF a \in call.dest..(call.dest + run.offset + Width - 1)
                       THEN Final(a) ELSE old[a]
    BY <1>2, <2>0, IterationExtends
  <2>4. TypeInv'
    BY <2>0, <2>2, <2>3 DEF TypeInv
  <2>5. LoopsAddUp'
    BY <2>0, <2>1, <2>2 DEF LoopsAddUp, ReturnsAtOnce
  <2>6. run.offset \in Nat /\ Width \in Nat
    BY <2>2 DEF TypeInv, Runs, WordSizes
  <2>7. PrefixDone'
    <3>1. call.dest + run.offset + Width - 1 = call.dest + run'.offset - 1
      BY <1>c, <2>2, <2>6
    <3>2. \A a \in Addresses : Final(a)' = Final(a)
      BY <2>0 DEF Final
    <3> QED BY <2>0, <2>3, <3>1, <3>2 DEF PrefixDone
  <2>8. StaysInBuffer'
    <3> SUFFICES ASSUME NEW a \in Addresses, a \notin Buffer(call)
                 PROVE  mem'[a] = old[a]
      BY <2>0 DEF StaysInBuffer, Buffer
    <3>1. a \notin call.dest..(call.dest + run.offset + Width - 1)
      BY <1>c, <2>2, <2>6 DEF Buffer
    <3> QED BY <2>3, <3>1
  <2> QED BY <2>2, <2>4, <2>5, <2>7, <2>8 DEF Untouched, ForwardIsExact, Done
<1>3. CASE CopyBackward
  <2>0. /\ Iterating /\ run' = Iterated /\ old' = old /\ call' = call /\ Backward(call)
    BY <1>3 DEF CopyBackward, Iterating
  <2>1. run.pc = "looping"
    BY <2>0 DEF Iterating, Byte1, Word, Byte2
  <2>2. /\ run' \in Runs /\ run'.pc = "looping"
        /\ run'.offset + run'.align + run'.unit * run'.words + run'.rem = call.count
    BY <2>0, IterationInBounds
  <2>3. mem' \in [Addresses -> Bytes]
    BY <1>3, BackwardReadsSource
  <2>4. TypeInv'
    BY <2>0, <2>2, <2>3 DEF TypeInv
  <2>5. LoopsAddUp'
    BY <2>0, <2>1, <2>2 DEF LoopsAddUp, ReturnsAtOnce
  <2>6. Backward(call)'
    BY <2>0 DEF Backward
  <2> QED BY <2>2, <2>4, <2>5, <2>6 DEF PrefixDone, Untouched, StaysInBuffer, ForwardIsExact
<1>4. CASE Compare
  <2>0. /\ Iterating /\ mem' = mem /\ old' = old /\ call' = call /\ call.fn = "memcmp"
        /\ run' = Iterated \/ run' = NotLooping("done")
    BY <1>4 DEF Compare, Iterating
  <2>1. run.pc = "looping" /\ ~Backward(call)
    BY <2>0 DEF Iterating, Byte1, Word, Byte2, Backward
  <2>2. \A a \in Addresses : mem[a] = old[a]
    BY <2>0, <2>1 DEF PrefixDone, Final
  <2>3. CASE run' = Iterated
    <3>1. /\ run' \in Runs /\ run'.pc = "looping"
          /\ run'.offset + run'.align + run'.unit * run'.words + run'.rem = call.count
      BY <2>0, <2>3, IterationInBounds
    <3>2. TypeInv'
      BY <2>0, <3>1 DEF TypeInv
    <3>3. LoopsAddUp'
      BY <2>0, <2>1, <3>1 DEF LoopsAddUp, ReturnsAtOnce
    <3>4. PrefixDone' /\ StaysInBuffer'
      BY <2>0, <2>2 DEF PrefixDone, StaysInBuffer, Final
    <3> QED BY <3>1, <3>2, <3>3, <3>4 DEF Untouched, ForwardIsExact, Done
  <2>4. CASE run' = NotLooping("done")
    <3>1. run' \in Runs /\ run'.pc = "done"
      BY <2>4 DEF NotLooping, Runs, WordSizes
    <3>2. TypeInv'
      BY <2>0, <3>1 DEF TypeInv
    <3>3. \A i \in 0..(call.count - 1) : mem[call.dest + i] = old[call.dest + i]
      BY <1>c, <2>2
    <3>4. ForwardIsExact' /\ StaysInBuffer'
      BY <2>0, <2>2, <3>3 DEF ForwardIsExact, StaysInBuffer
    <3> QED BY <3>1, <3>2, <3>4 DEF LoopsAddUp, PrefixDone, Untouched
  <2> QED BY <2>0, <2>3, <2>4
<1>5. CASE Return
  <2>0. /\ run.pc = "looping" /\ run.align = 0 /\ run.words = 0 /\ run.rem = 0
        /\ mem' = mem /\ old' = old /\ call' = call /\ run' = NotLooping("done")
    BY <1>5 DEF Return
  <2>1. run' \in Runs /\ run'.pc = "done"
    BY <2>0 DEF NotLooping, Runs, WordSizes
  <2>2. TypeInv'
    BY <2>0, <2>1 DEF TypeInv
  <2>3. run.offset = call.count
    <3>1. run.offset \in Nat /\ run.unit * 0 = 0
      BY DEF TypeInv, Runs, WordSizes
    <3> QED BY <1>c, <2>0, <3>1 DEF LoopsAddUp
  <2>4. ForwardIsExact'
    <3> SUFFICES ASSUME ~Backward(call)
                 PROVE  \A i \in 0..(call.count - 1) :
                          CASE call.fn = "memset" -> mem[call.dest + i] = call.src
                            [] call.fn \in {"memcpy", "memmove"} /\ call.src # 0 ->
                                 mem[call.dest + i] = old[call.src + i]
                            [] OTHER -> mem[call.dest + i] = old[call.dest + i]
      BY <2>0 DEF ForwardIsExact, Backward
    <3> QED BY <2>0, <2>3, FinalMemory
  <2>5. StaysInBuffer'
    BY <2>0 DEF StaysInBuffer, Backward, Buffer
  <2> QED BY <2>1, <2>2, <2>4, <2>5 DEF LoopsAddUp, PrefixDone, Untouched
<1>6. CASE UNCHANGED vars
  BY <1>6 DEF vars, TypeInv, LoopsAddUp, PrefixDone, Untouched, StaysInBuffer,
              ForwardIsExact, Done, Final, Backward, ReturnsAtOnce, Buffer
<1> QED BY <1>1, <1>2, <1>3, <1>4, <1>5, <1>6 DEF Next

(* The invariant holds in every state of every call. *)
THEOREM StringInvariant == Spec => []Inv
<1> QED BY InitInv, NextInv, PTL DEF Spec

(* No forward write leaves its buffer and each is exact, for every length, *)
(* every alignment and every way the buffers may overlap.                  *)
THEOREM ForwardWritesAreExact == Spec => [](StaysInBuffer /\ ForwardIsExact)
<1>1. Inv => StaysInBuffer /\ ForwardIsExact
  BY DEF Inv
<1> QED BY <1>1, StringInvariant, PTL

-----------------------------------------------------------------------------
(* A copy that goes backwards byte by byte: there is one loop, its source  *)
(* index and its destination pointer go down together, and the last        *)
(* offset bytes of the buffer are final.                                   *)
Bytewise == Backward(call) /\ call.src # 0 /\ Unit(call) = 1

SuffixDone ==
  run.pc = "looping" =>
    /\ run.unit = 1 /\ run.align = 0 /\ run.rem = 0
    /\ \A a \in Addresses :
         mem[a] = IF a \in (call.dest + call.count - run.offset)..(call.dest + call.count - 1)
                  THEN old[call.src + (a - call.dest)] ELSE old[a]

BackwardInv == Bytewise => SuffixDone /\ BytewiseBackwardIsExact

(* The byte an iteration reads lies below everything written so far.       *)
LEMMA BackwardExtends ==
  ASSUME Inv, Bytewise, SuffixDone, CopyBackward
  PROVE  SuffixDone'
<1>1. /\ call.dest \in Nat /\ call.src \in Nat /\ call.count \in Nat
      /\ call.dest > call.src /\ call.fn # "memset"
      /\ Addresses \subseteq Nat
      /\ call.dest..(call.dest + call.count - 1) \subseteq Addresses
      /\ call.src..(call.src + call.count - 1) \subseteq Addresses
  BY CallFacts, CallsAssumption DEF Inv, Bytewise, Backward
<1>2. /\ Iterating /\ run' = Iterated /\ old' = old /\ call' = call
      /\ run.pc = "looping"
  BY DEF CopyBackward, Iterating, Byte1, Word, Byte2
<1>3. run.unit = 1 /\ run.align = 0 /\ run.rem = 0
  BY <1>2 DEF SuffixDone
<1>4. /\ run \in Runs /\ run.offset \in Nat /\ run.words \in Nat
      /\ run.offset + run.words = call.count
  BY <1>1, <1>2, <1>3 DEF Inv, TypeInv, Runs, LoopsAddUp
<1>5. Word /\ ~Byte1 /\ run.words > 0
  BY <1>2, <1>3 DEF Iterating, Byte1, Word, Byte2
<1>6. Width = 1
  BY <1>3, <1>5 DEF Width
<1>7. /\ run' = [run EXCEPT !.words = @ - 1, !.offset = @ + run.unit]
  BY <1>2, <1>5 DEF Iterated
<1>8. /\ run'.unit = 1 /\ run'.align = 0 /\ run'.rem = 0
      /\ run'.offset = run.offset + 1
  BY <1>3, <1>4, <1>7 DEF Runs
<1> DEFINE d == call.dest + call.count - 1 - run.offset
           source == call.src + run.words - 1
<1>9. mem' = Copied(d, call.src + Width * (run.words - 1))
  BY <1>5 DEF CopyBackward
<1>10. call.src + Width * (run.words - 1) = source /\ d + Width - 1 = d /\ d \in Int
  BY <1>1, <1>4, <1>6
<1>11. mem' = [a \in Addresses |-> IF a = d THEN mem[source + (a - d)] ELSE mem[a]]
  <2>1. d..d = {d}
    BY <1>10
  <2>2. mem' = [a \in Addresses |-> IF a \in d..d THEN mem[source + (a - d)] ELSE mem[a]]
    BY <1>9, <1>10 DEF Copied
  <2> HIDE DEF d, source
  <2> QED
    BY <2>1, <2>2
<1>12. /\ d \in Addresses /\ source \in Addresses /\ source + (d - d) = source
       /\ source = call.src + (d - call.dest)
       /\ source \notin (call.dest + call.count - run.offset)..(call.dest + call.count - 1)
       /\ d = call.dest + call.count - run'.offset
       /\ d + 1 = call.dest + call.count - run.offset
       /\ d <= call.dest + call.count - 1
  BY <1>1, <1>4, <1>5, <1>8
<1>13. \A a \in Addresses :
         mem[a] = IF a \in (call.dest + call.count - run.offset)..(call.dest + call.count - 1)
                  THEN old[call.src + (a - call.dest)] ELSE old[a]
  BY <1>2 DEF SuffixDone
<1>14. mem[source] = old[source]
  BY <1>12, <1>13
<1> DEFINE end == call.dest + call.count - 1
<1>15. end \in Int
  BY <1>1
<1>16. ASSUME NEW a \in Addresses
       PROVE  mem'[a] = IF a \in (call.dest + call.count - run'.offset)..end
                        THEN old[call.src + (a - call.dest)] ELSE old[a]
  <2>1. a \in Nat
    BY <1>1
  <2>2. CASE a = d
    <3>1. mem'[d] = mem[source]
      BY <1>11, <1>12
    <3>2. d \in d..end
      BY <1>10, <1>12, <1>15
    <3> HIDE DEF d, source, end
    <3> QED
      BY <1>12, <1>14, <2>2, <3>1, <3>2
  <2>3. CASE a # d
    <3>1. mem'[a] = mem[a]
      BY <1>11, <2>3
    <3>2. a \in d..end <=> a \in (d + 1)..end
      BY <1>10, <1>15, <2>1, <2>3
    <3>3. mem[a] = IF a \in (d + 1)..end THEN old[call.src + (a - call.dest)] ELSE old[a]
      BY <1>12, <1>13
    <3> HIDE DEF d, source, end
    <3> QED
      BY <1>12, <3>1, <3>2, <3>3
  <2> QED
    BY <2>2, <2>3
<1> QED
  BY <1>2, <1>8, <1>16 DEF SuffixDone

LEMMA BackwardKept ==
  ASSUME Inv, BackwardInv, [Next]_vars
  PROVE  BackwardInv'
<1>c. /\ call.dest \in Nat /\ call.src \in Nat /\ call.count \in Nat
      /\ Addresses \subseteq Nat
  BY CallFacts, CallsAssumption DEF Inv
<1>1. CASE Enter
  <2> SUFFICES ASSUME Bytewise PROVE SuffixDone' /\ run'.pc = "looping"
    BY <1>1 DEF Enter, BackwardInv, Bytewise, BytewiseBackwardIsExact, Done
  <2>0. run.pc = "entry" /\ mem' = mem /\ old' = old /\ call' = call /\ mem = old
    BY <1>1 DEF Enter, Inv, Untouched
  <2>1. ~ReturnsAtOnce(call) /\ Backward(call) /\ Unit(call) = 1
    BY <1>c DEF Bytewise, Backward, ReturnsAtOnce
  <2>2. run' = Loops(call)
    BY <1>1, <2>1 DEF Enter
  <2>3. AlignBytes(call) = 0
    BY <1>c, <2>1 DEF AlignBytes
  <2>4. (call.count - 0) % 1 = 0
    BY <1>c
  <2>5. /\ run'.pc = "looping" /\ run'.offset = 0 /\ run'.unit = 1
        /\ run'.align = 0 /\ run'.rem = 0
    BY <2>1, <2>2, <2>3, <2>4 DEF Loops
  <2>6. \A a \in Addresses : a \notin (call.dest + call.count - 0)..(call.dest + call.count - 1)
    BY <1>c
  <2> QED
    BY <2>0, <2>5, <2>6 DEF SuffixDone
<1>2. CASE SetForward \/ CopyForward \/ Compare
  <2>1. ~Bytewise /\ call' = call
    BY <1>2 DEF SetForward, CopyForward, Compare, Bytewise, Backward
  <2> QED
    BY <2>1 DEF BackwardInv, Bytewise
<1>3. CASE CopyBackward
  <2>1. call' = call /\ run' = Iterated /\ Iterating
    BY <1>3 DEF CopyBackward, Iterating
  <2>2. run'.pc = "looping"
    BY <2>1, IterationInBounds DEF Inv
  <2>3. Bytewise => SuffixDone'
    BY <1>3, BackwardExtends DEF BackwardInv
  <2> QED
    BY <2>1, <2>2, <2>3 DEF BackwardInv, Bytewise, BytewiseBackwardIsExact, Done
<1>4. CASE Return
  <2>0. /\ run.pc = "looping" /\ run.align = 0 /\ run.words = 0 /\ run.rem = 0
        /\ mem' = mem /\ old' = old /\ call' = call /\ run' = NotLooping("done")
    BY <1>4 DEF Return
  <2>1. run.offset = call.count
    <3>1. run.offset \in Nat /\ run.unit * 0 = 0
      BY DEF Inv, TypeInv, Runs, WordSizes
    <3> QED BY <1>c, <2>0, <3>1 DEF Inv, LoopsAddUp
  <2>2. call.dest + call.count - call.count = call.dest
    BY <1>c
  <2>3. Bytewise => \A a \in Addresses :
          mem[a] = IF a \in Buffer(call) THEN old[call.src + (a - call.dest)] ELSE old[a]
    BY <2>0, <2>1, <2>2 DEF BackwardInv, SuffixDone, Buffer
  <2>4. run'.pc = "done"
    BY <2>0 DEF NotLooping
  <2> QED
    BY <2>0, <2>3, <2>4 DEF BackwardInv, Bytewise, SuffixDone, BytewiseBackwardIsExact
<1>5. CASE UNCHANGED vars
  BY <1>5 DEF vars, BackwardInv, Bytewise, SuffixDone, BytewiseBackwardIsExact, Done
<1> QED
  BY <1>1, <1>2, <1>3, <1>4, <1>5 DEF Next

(* A copy that has to go backwards is exact when it goes byte by byte:     *)
(* what memcpy and memmove do whenever the two pointers and the length     *)
(* leave no wider word (see MCStringOverlap for the wider ones).           *)
THEOREM BytewiseCopiesAreExact == Spec => []BytewiseBackwardIsExact
<1>1. Init => BackwardInv
  BY DEF Init, NotLooping, BackwardInv, SuffixDone, BytewiseBackwardIsExact, Done
<1>2. Inv /\ BackwardInv /\ [Next]_vars => BackwardInv'
  BY BackwardKept
<1>3. BackwardInv => BytewiseBackwardIsExact
  BY DEF BackwardInv, Bytewise, BytewiseBackwardIsExact
<1> QED
  BY <1>1, <1>2, <1>3, StringInvariant, PTL DEF Spec

-----------------------------------------------------------------------------
(* memcmp: nothing is written, and the bytes compared so far are equal.    *)
CompareInv ==
  call.fn = "memcmp" =>
    /\ mem = old
    /\ run.pc # "done" => result = 0
    /\ run.pc = "looping" =>
         \A i \in 0..(run.offset - 1) : mem[call.dest + i] = mem[call.src + i]
    /\ ComparesBytes

(* The bytes an iteration looks at are at most eight, so that those which  *)
(* differ have a first one.                                                *)
LEMMA FirstDifference ==
  ASSUME NEW from \in Nat, NEW width \in WordSizes,
         NEW D \in SUBSET (from..(from + width - 1)), D # {}
  PROVE  \E i \in D : \A j \in D : i <= j
<1>1. \A j \in D : \/ j = from \/ j = from + 1 \/ j = from + 2 \/ j = from + 3
                   \/ j = from + 4 \/ j = from + 5 \/ j = from + 6 \/ j = from + 7
  <2>1. width <= 8
    BY DEF WordSizes
  <2> QED
    BY <2>1 DEF WordSizes
<1> DEFINE Least(n) == from + n \in D /\ \A j \in D : from + n <= j
<1>2. Least(0) \/ from \notin D
  BY <1>1
<1>3. from \in D \/ Least(1) \/ from + 1 \notin D
  BY <1>1
<1>4. from \in D \/ from + 1 \in D \/ Least(2) \/ from + 2 \notin D
  BY <1>1
<1>5. from \in D \/ from + 1 \in D \/ from + 2 \in D \/ Least(3) \/ from + 3 \notin D
  BY <1>1
<1>6. \/ from \in D \/ from + 1 \in D \/ from + 2 \in D \/ from + 3 \in D
      \/ Least(4) \/ from + 4 \notin D
  BY <1>1
<1>7. \/ from \in D \/ from + 1 \in D \/ from + 2 \in D \/ from + 3 \in D
      \/ from + 4 \in D \/ Least(5) \/ from + 5 \notin D
  BY <1>1
<1>8. \/ from \in D \/ from + 1 \in D \/ from + 2 \in D \/ from + 3 \in D
      \/ from + 4 \in D \/ from + 5 \in D \/ Least(6) \/ from + 6 \notin D
  BY <1>1
<1>9. \/ from \in D \/ from + 1 \in D \/ from + 2 \in D \/ from + 3 \in D
      \/ from + 4 \in D \/ from + 5 \in D \/ from + 6 \in D
      \/ Least(7) \/ from + 7 \notin D
  BY <1>1
<1>10. PICK j \in D : TRUE
  OBVIOUS
<1>11. \E n \in 0..7 : Least(n)
  <2> HIDE DEF Least
  <2> QED
    BY <1>1, <1>2, <1>3, <1>4, <1>5, <1>6, <1>7, <1>8, <1>9, <1>10
<1> QED
  BY <1>11

LEMMA CompareStep ==
  ASSUME Inv, CompareInv, Compare
  PROVE  CompareInv'
<1> DEFINE differ == Different(run.offset, Width)
           first == CHOOSE i \in differ : \A j \in differ : i <= j
<1>1. /\ Iterating /\ mem' = mem /\ old' = old /\ call' = call /\ call.fn = "memcmp"
  BY DEF Compare, Iterating
<1>2. run.pc = "looping"
  BY <1>1 DEF Iterating, Byte1, Word, Byte2
<1>3. /\ mem = old /\ result = 0
      /\ \A i \in 0..(run.offset - 1) : mem[call.dest + i] = mem[call.src + i]
  BY <1>1, <1>2 DEF CompareInv
<1>4. /\ Width \in WordSizes /\ run.offset + Width <= call.count
      /\ Iterated.pc = "looping" /\ Iterated.offset = run.offset + Width
  BY <1>1, IterationInBounds DEF Inv
<1>5. /\ run.offset \in Nat /\ Width \in Nat /\ call.count \in Nat
  BY <1>4, CallFacts DEF Inv, TypeInv, Runs, WordSizes
<1>6. \A i \in run.offset..(run.offset + Width - 1) :
        i \notin differ => mem[call.dest + i] = mem[call.src + i]
  BY DEF Different
<1>7. CASE differ = {}
  <2>1. run' = Iterated /\ result' = result
    BY <1>7 DEF Compare
  <2>2. \A i \in 0..(run.offset + Width - 1) : mem[call.dest + i] = mem[call.src + i]
    BY <1>3, <1>5, <1>6, <1>7
  <2>3. run'.pc = "looping" /\ run'.offset = run.offset + Width
    BY <1>4, <2>1
  <2>4. ComparesBytes'
    BY <2>3 DEF ComparesBytes, Done
  <2>5. \A i \in 0..(run'.offset - 1) : mem'[call'.dest + i] = mem'[call'.src + i]
    <3> HIDE DEF differ
    <3>1. run'.offset - 1 = run.offset + Width - 1
      BY <1>5, <2>3
    <3>2. \A i \in 0..(run'.offset - 1) : mem[call.dest + i] = mem[call.src + i]
      BY <2>2, <3>1, Zenon
    <3> QED
      BY <1>1, <3>2, Zenon
  <2> QED
    BY <1>1, <1>3, <2>1, <2>4, <2>5 DEF CompareInv
<1>8. CASE differ # {}
  <2>1. run' = NotLooping("done") /\ result' = mem[call.dest + first] - mem[call.src + first]
    BY <1>8 DEF Compare
  <2>2. differ \in SUBSET (run.offset..(run.offset + Width - 1))
    BY DEF Different
  <2>3. \E i \in differ : \A j \in differ : i <= j
    BY <1>4, <1>5, <1>8, <2>2, FirstDifference
  <2>4. first \in differ /\ \A j \in differ : first <= j
    BY <2>3
  <2>5. /\ first \in run.offset..(run.offset + Width - 1)
        /\ mem[call.dest + first] # mem[call.src + first]
    BY <2>4 DEF Different
  <2> HIDE DEF first
  <2>6. first \in Different(0, call.count)
    BY <1>4, <1>5, <2>5 DEF Different
  <2>7. ASSUME NEW j \in Different(0, call.count) PROVE first <= j
    <3>1. j \in 0..(call.count - 1) /\ mem[call.dest + j] # mem[call.src + j]
      BY <1>5 DEF Different
    <3>2. j >= run.offset
      BY <1>3, <1>5, <3>1
    <3>3. CASE j < run.offset + Width
      <4>1. j \in run.offset..(run.offset + Width - 1)
        BY <1>5, <3>1, <3>2, <3>3
      <4>2. j \in differ
        BY <1>6, <3>1, <4>1
      <4> QED
        BY <2>4, <4>2
    <3>4. CASE j >= run.offset + Width
      BY <1>5, <2>5, <3>1, <3>4
    <3> QED
      BY <1>5, <3>1, <3>3, <3>4
  <2>8. Different(0, call.count)' = Different(0, call.count)
    BY <1>1 DEF Different
  <2>9. ComparesBytes'
    BY <1>1, <1>3, <2>1, <2>6, <2>7, <2>8 DEF ComparesBytes
  <2>10. run'.pc = "done"
    BY <2>1 DEF NotLooping
  <2> QED
    BY <1>1, <1>3, <2>9, <2>10 DEF CompareInv
<1> QED
  BY <1>7, <1>8

LEMMA CompareKept ==
  ASSUME Inv, CompareInv, [Next]_vars
  PROVE  CompareInv'
<1>c. call.count \in Nat
  BY CallFacts DEF Inv
<1>1. CASE Enter
  <2> SUFFICES ASSUME call.fn = "memcmp" PROVE CompareInv'
    BY <1>1 DEF Enter, CompareInv
  <2>0. /\ run.pc = "entry" /\ UNCHANGED <<mem, old, call, result>>
        /\ mem = old /\ result = 0
    BY <1>1 DEF Enter, CompareInv
  <2>1. CASE ReturnsAtOnce(call)
    <3>1. run'.pc = "done"
      BY <1>1, <2>1 DEF Enter, NotLooping
    <3> QED
      BY <2>0, <2>1, <3>1 DEF CompareInv, ComparesBytes
  <2>2. CASE ~ReturnsAtOnce(call)
    <3>1. run'.pc = "looping" /\ run'.offset = 0
      BY <1>1, <2>2 DEF Enter, Loops
    <3>2. 0..(run'.offset - 1) = {}
      BY <3>1
    <3> QED
      BY <2>0, <3>1, <3>2 DEF CompareInv, ComparesBytes, Done
  <2> QED
    BY <2>1, <2>2
<1>2. CASE SetForward \/ CopyForward \/ CopyBackward
  <2>1. call' = call /\ call.fn # "memcmp"
    BY <1>2 DEF SetForward, CopyForward, CopyBackward, Backward
  <2> QED
    BY <2>1 DEF CompareInv
<1>3. CASE Compare
  BY <1>3, CompareStep
<1>4. CASE Return
  <2> SUFFICES ASSUME call.fn = "memcmp" PROVE CompareInv'
    BY <1>4 DEF Return, CompareInv
  <2>0. /\ run.pc = "looping" /\ run.align = 0 /\ run.words = 0 /\ run.rem = 0
        /\ UNCHANGED <<mem, old, call, result>> /\ run'.pc = "done"
    BY <1>4 DEF Return, NotLooping
  <2>1. run.offset = call.count
    <3>1. run.offset \in Nat /\ run.unit * 0 = 0
      BY DEF Inv, TypeInv, Runs, WordSizes
    <3> QED BY <1>c, <2>0, <3>1 DEF Inv, LoopsAddUp
  <2>2. /\ mem = old /\ result = 0
        /\ \A i \in 0..(run.offset - 1) : mem[call.dest + i] = mem[call.src + i]
    BY <2>0 DEF CompareInv
  <2>3. Different(0, call.count) = {}
    BY <1>c, <2>1, <2>2 DEF Different
  <2>4. Different(0, call.count)' = {}
    BY <2>0, <2>3 DEF Different
  <2> QED
    BY <2>0, <2>2, <2>4 DEF CompareInv, ComparesBytes
<1>5. CASE UNCHANGED vars
  BY <1>5 DEF vars, CompareInv, ComparesBytes, Done, Different, ReturnsAtOnce
<1> QED
  BY <1>1, <1>2, <1>3, <1>4, <1>5 DEF Next

(* memcmp returns the difference of the first bytes that differ although   *)
(* it compares whole words first, for every length and alignment.          *)
THEOREM ComparisonsAreExact == Spec => []ComparesBytes
<1>1. Init => CompareInv
  BY DEF Init, NotLooping, CompareInv, ComparesBytes, Done
<1>2. Inv /\ CompareInv /\ [Next]_vars => CompareInv'
  BY CompareKept
<1>3. CompareInv => ComparesBytes
  BY DEF CompareInv, ComparesBytes
<1> QED
  BY <1>1, <1>2, <1>3, StringInvariant, PTL DEF Spec
=============================================================================

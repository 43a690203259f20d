-------------------------- MODULE Interrupts_proofs --------------------------
(***************************************************************************)
(* Interrupts and exceptions for any set of lines with a device, any set   *)
(* of exceptions and any number of requests, exceptions and nested         *)
(* activations.                                                            *)
(***************************************************************************)
EXTENDS Interrupts, TLAPS, FiniteSetTheorems

-----------------------------------------------------------------------------
(* The inductive invariant. *)

ThreadSteps == {"pic", "enable", "show"}
Unsaved == {"push", "iret"}          \* the registers are not on the stack
RoutineSteps == Unsaved \cup {"call", "eoi", "pop", "cli", "print", "halt"}

Activations == [vector : Int, step : ThreadSteps \cup RoutineSteps, n : Nat]
RegFiles == [Registers -> Int]
Frames == [is : {"frame"}, value : [if : BOOLEAN, regs : RegFiles]]
Words == [is : {"code", "register"}, value : Int]
ChipStates ==
  [expects : {"nothing", "offset", "cascade", "mode"}, offset : Int, cascade : Int,
   mask : SUBSET (0..7), irr : SUBSET (0..7), isr : SUBSET (0..7)]

Types ==
  /\ pic \in [Chips -> ChipStates]
  /\ cpu \in [if : BOOLEAN, inta : {"nobody", "PIC0", "PIC1"}]
  /\ run \in Seq(Activations)
  /\ stack \in Seq(Frames \cup Words)
  /\ regs \in RegFiles
  /\ left \in [requests : Int, exceptions : Int]

(* The thread is below all service routines. *)
RunOf(r) ==
  /\ Len(r) >= 1
  /\ r[1].vector = Thread /\ r[1].step \in ThreadSteps
  /\ \A k \in 2..Len(r) : r[k].step \in RoutineSteps
  /\ \A k \in 2..Len(r) : r[k].step \in {"push", "call"} => r[k].n = 1
  /\ \A k \in 2..Len(r) : r[k].step = "eoi" =>
       IsIrq(r[k].vector) /\ r[k].n \in 1..Len(EoiChips(LineOf(r[k].vector)))

RunInv == RunOf(run)

(* What the activation a has on the stack s from base to top: its frame,   *)
(* its error code and its registers.  Seen are the registers it finds when *)
(* it runs on.                                                             *)
Code(vector) == IF vector \in PushesErrorCode THEN 1 ELSE 0

Part(s, a, base, top, seen) ==
  /\ top = base + 1 + Code(a.vector) + (IF a.step \in Unsaved THEN 0 ELSE 7)
  /\ s[base + 1] \in Frames
  /\ Code(a.vector) = 1 => s[base + 2].is = "code"
  /\ a.step \notin Unsaved =>
       \A i \in 1..7 : s[base + 1 + Code(a.vector) + i] =
         [is |-> "register", value |-> s[base + 1].value.regs[SavedRegisters[i]]]
  /\ a.step \in Unsaved =>
       \A i \in 1..7 : seen[SavedRegisters[i]] = s[base + 1].value.regs[SavedRegisters[i]]

(* An activation that nothing but exceptions may interrupt. *)
Masked(a) == IsIrq(a.vector) \/ a.step \in {"pic", "enable", "print", "halt"}

(* The activations r have the stack s to themselves, the one with number k *)
(* from pos[k-1] to pos[k]; g are the registers, flag the interrupt flag.  *)
StackOf(s, r, g, flag, pos) ==
  /\ pos \in [1..Len(r) -> Nat]
  /\ pos[1] = 0 /\ pos[Len(r)] = Len(s)
  /\ \A i, j \in 1..Len(r) : i <= j => pos[i] <= pos[j]
  /\ \A k \in 2..Len(r) :
       Part(s, r[k], pos[k - 1], pos[k], IF k = Len(r) THEN g ELSE s[pos[k] + 1].value.regs)
  /\ \A k \in 1..Len(r) : Masked(r[k]) => ~flag
  /\ \A k, j \in 1..Len(r) : k < j /\ Masked(r[k]) => ~s[pos[j - 1] + 1].value.if

StackInv == \E pos : StackOf(stack, run, regs, cpu.if, pos)

FrameIndices(s) == {i \in 1..Len(s) : s[i].is = "frame"}
CountInv ==
  /\ IsFiniteSet(FrameIndices(stack))
  /\ Cardinality(FrameIndices(stack)) = Len(run) - 1

FlagInv == cpu.inta # "nobody" => cpu.if

(* How far the chips are set up while the thread does it, and what is in   *)
(* service afterwards.                                                     *)
Expected0(n) ==
  IF n = 1 THEN "nothing" ELSE IF n <= 3 THEN "offset" ELSE IF n <= 5 THEN "cascade"
  ELSE IF n <= 7 THEN "mode" ELSE "nothing"
Expected1(n) ==
  IF n <= 2 THEN "nothing" ELSE IF n <= 4 THEN "offset" ELSE IF n <= 6 THEN "cascade"
  ELSE IF n <= 8 THEN "mode" ELSE "nothing"

SetUpTo(p, n) ==
  /\ p["PIC0"].expects = Expected0(n) /\ p["PIC1"].expects = Expected1(n)
  /\ n >= 2 => p["PIC0"].isr = {}
  /\ n >= 3 => p["PIC1"].isr = {}
  /\ n >= 4 => p["PIC0"].offset = 32
  /\ n >= 5 => p["PIC1"].offset = 40

SetupInv == run[1].step = "pic" => run[1].n \in 1..10 /\ SetUpTo(pic, run[1].n)

ServiceInv ==
  run[1].step # "pic" =>
    /\ pic["PIC0"].offset = 32 /\ pic["PIC1"].offset = 40
    /\ \A k \in 2..Len(run) :
         run[k].step = "eoi" /\ run[k].n = 2 => pic["PIC1"].isr = {}

InterruptsInv ==
  /\ Types /\ RunInv /\ StackInv /\ CountInv /\ FlagInv /\ SetupInv /\ ServiceInv
  /\ HandlersDoNotNest /\ InServiceIsHandled
-----------------------------------------------------------------------------
(* The stack. *)

Stacks == Seq(Frames \cup Words)
Runs == Seq(Activations)

LEMMA SavedFacts ==
  /\ Len(SavedRegisters) = 7 /\ DOMAIN SavedRegisters = 1..7
  /\ \A i \in 1..7 : SavedRegisters[i] \in Range(SavedRegisters)
  /\ \A r \in Range(SavedRegisters) : \E i \in 1..7 : SavedRegisters[i] = r
  /\ \A i, j \in 1..7 : SavedRegisters[i] = SavedRegisters[j] => i = j
  /\ \A i \in 1..7 : SavedRegisters[i] \in Registers
BY DEF SavedRegisters, Range, Registers

LEMMA CodeType == \A v : Code(v) \in {0, 1} /\ (Code(v) = 1 <=> v \in PushesErrorCode)
BY DEF Code

LEMMA OneOrMore ==
  ASSUME NEW n \in Nat, n >= 1
  PROVE  n = 1 \/ n >= 2
OBVIOUS

LEMMA AtLeastTwo ==
  ASSUME NEW n \in Nat, n >= 2
  PROVE  n >= 1 /\ n \in 1..n /\ n \in 2..n /\ 1 \in 1..n /\ n # 1
OBVIOUS

(* Arithmetic on positions, lines and vectors. *)
LEMMA Within ==
  ASSUME NEW x \in Nat, NEW y \in Nat, NEW z \in Nat, x + 1 <= y, y <= z
  PROVE  x + 1 \in 1..z
OBVIOUS

LEMMA SevenBeyond ==
  ASSUME NEW m \in Nat, NEW n, n = m + 7, NEW i \in (m + 1)..n
  PROVE  i - m \in 1..7 /\ m + (i - m) = i
OBVIOUS

LEMMA SlaveLine == \A i \in 0..7 : 8 + i \in (0..15) \ {2, 7}
OBVIOUS

LEMMA LineFacts ==
  /\ \A l \in 0..15 : IsIrq(32 + l) /\ (l \notin {2, 7} => 32 + l \notin {34, 39})
  /\ \A l, m \in 0..15 : 32 + l = 32 + m => l = m
  /\ \A i \in 0..7 : i \in 0..15 /\ 8 + i \in 0..15
  /\ \A v : IsIrq(v) => LineOf(v) \in 0..15 /\ v = 32 + LineOf(v)
BY DEF IsIrq, LineOf

(* The activations r with b on top instead. *)
SetTop(r, b) == [r EXCEPT ![Len(r)] = b]

LEMMA TopReplaced ==
  ASSUME NEW r \in Runs, Len(r) >= 1, NEW b \in Activations
  PROVE  /\ SetTop(r, b) \in Runs /\ Len(SetTop(r, b)) = Len(r)
         /\ DOMAIN SetTop(r, b) = 1..Len(r) /\ SetTop(r, b)[Len(r)] = b
         /\ \A k \in 1..Len(r) : k # Len(r) => SetTop(r, b)[k] = r[k]
<1> DEFINE q == SetTop(r, b)
<1>1. Len(r) \in Nat /\ Len(r) \in 1..Len(r) /\ DOMAIN r = 1..Len(r)
  BY DEF Runs
<1>2. q \in Runs
  BY <1>1 DEF Runs, SetTop
<1>3. Len(q) = Len(r) /\ DOMAIN q = 1..Len(r)
  BY <1>1 DEF Runs, SetTop
<1> QED
  BY <1>1, <1>2, <1>3 DEF Runs, SetTop

(* A part does not change if the stack below its top does not. *)
LEMMA PartKept ==
  ASSUME NEW s \in Stacks, NEW t \in Stacks, NEW a \in Activations, NEW seen, NEW base \in Nat,
         NEW top \in Nat, Part(s, a, base, top, seen), top <= Len(s),
         \A i \in 1..top : t[i] = s[i]
  PROVE  Part(t, a, base, top, seen)
<1>1. Code(a.vector) \in {0, 1}
  BY CodeType
<1>2. top >= base + 1 + Code(a.vector)
  BY <1>1 DEF Part
<1>3. t[base + 1] = s[base + 1]
  BY <1>1, <1>2
<1>4. Code(a.vector) = 1 => t[base + 2] = s[base + 2]
  BY <1>1, <1>2
<1>5. a.step \notin Unsaved =>
        \A i \in 1..7 : t[base + 1 + Code(a.vector) + i] = s[base + 1 + Code(a.vector) + i]
  <2> SUFFICES ASSUME a.step \notin Unsaved, NEW i \in 1..7
               PROVE  t[base + 1 + Code(a.vector) + i] = s[base + 1 + Code(a.vector) + i]
    OBVIOUS
  <2>1. top = base + 1 + Code(a.vector) + 7
    BY DEF Part
  <2>2. base + 1 + Code(a.vector) + i \in 1..top
    BY <1>1, <2>1
  <2> QED
    BY <2>2
<1>6. a.step \notin Unsaved =>
        \A i \in 1..7 : t[base + 1 + Code(a.vector) + i] =
          [is |-> "register", value |-> t[base + 1].value.regs[SavedRegisters[i]]]
  BY <1>3, <1>5 DEF Part
<1>7. Code(a.vector) = 1 => t[base + 2].is = "code"
  BY <1>4 DEF Part
<1> QED
  BY <1>3, <1>6, <1>7 DEF Part

LEMMA StackFacts ==
  ASSUME NEW s \in Stacks, NEW r \in Runs, NEW g, NEW flag, NEW pos,
         StackOf(s, r, g, flag, pos), Len(r) >= 1
  PROVE  /\ Len(r) \in Nat /\ Len(s) \in Nat
         /\ pos \in [1..Len(r) -> Nat] /\ pos[1] = 0 /\ pos[Len(r)] = Len(s)
         /\ \A k \in 1..Len(r) : r[k] \in Activations /\ pos[k] \in Nat /\ pos[k] <= Len(s)
         /\ \A i, j \in 1..Len(r) : i <= j => pos[i] <= pos[j]
         /\ \A k \in 2..Len(r) :
              /\ k - 1 \in 1..Len(r) /\ k \in 1..Len(r)
              /\ pos[k - 1] + 1 \in 1..Len(s) /\ pos[k - 1] + 1 <= pos[k]
<1>1. Len(r) \in Nat /\ Len(s) \in Nat
  BY DEF Stacks, Runs
<1>2. /\ pos \in [1..Len(r) -> Nat] /\ pos[1] = 0 /\ pos[Len(r)] = Len(s)
      /\ \A i, j \in 1..Len(r) : i <= j => pos[i] <= pos[j]
  BY DEF StackOf
<1>3. ASSUME NEW k \in 1..Len(r)
      PROVE  r[k] \in Activations /\ pos[k] \in Nat /\ pos[k] <= Len(s)
  <2>1. k <= Len(r) /\ Len(r) \in 1..Len(r)
    BY <1>1
  <2> QED
    BY <1>2, <2>1 DEF Runs
<1>4. ASSUME NEW k \in 2..Len(r)
      PROVE  /\ k - 1 \in 1..Len(r) /\ k \in 1..Len(r)
             /\ pos[k - 1] + 1 \in 1..Len(s) /\ pos[k - 1] + 1 <= pos[k]
  <2>1. k - 1 \in 1..Len(r) /\ k \in 1..Len(r)
    BY <1>1
  <2>2. pos[k] = pos[k - 1] + 1 + Code(r[k].vector) + (IF r[k].step \in Unsaved THEN 0 ELSE 7)
    BY DEF StackOf, Part
  <2>3. pos[k - 1] \in Nat /\ pos[k] \in Nat /\ pos[k] <= Len(s)
    BY <1>3, <2>1
  <2>4. Code(r[k].vector) \in {0, 1}
    BY CodeType
  <2>5. pos[k - 1] + 1 <= pos[k]
    BY <2>2, <2>3, <2>4
  <2>6. pos[k - 1] + 1 \in 1..Len(s)
    BY <1>1, <2>3, <2>5, Within
  <2> QED
    BY <2>1, <2>5, <2>6
<1> QED
  BY <1>1, <1>2, <1>3, <1>4

(* The CPU pushes a frame for an interrupt or an exception. *)
LEMMA EnterKeepsStack ==
  ASSUME NEW s \in Stacks, NEW r \in Runs, NEW g \in RegFiles, NEW flag \in BOOLEAN, NEW pos,
         StackOf(s, r, g, flag, pos), Len(r) >= 1, NEW v \in Int, NEW fl \in BOOLEAN,
         fl => flag /\ ~InterruptGate(v),
         NEW t \in Stacks, Len(t) = Len(s) + 1 + Code(v),
         \A i \in 1..Len(s) : t[i] = s[i],
         t[Len(s) + 1] = [is |-> "frame", value |-> [if |-> flag, regs |-> g]],
         Code(v) = 1 => t[Len(s) + 2].is = "code"
  PROVE  \E p : StackOf(t, Append(r, [vector |-> v, step |-> "push", n |-> 1]), g, fl, p)
<1> DEFINE a == [vector |-> v, step |-> "push", n |-> 1]
           q == Append(r, a)
           p == [k \in 1..(Len(r) + 1) |-> IF k <= Len(r) THEN pos[k] ELSE Len(t)]
<1>1. /\ a \in Activations /\ a.vector = v /\ a.step = "push"
      /\ a.step \in Unsaved
  BY DEF Activations, Unsaved, RoutineSteps
<1> HIDE DEF a
<1>2. /\ Len(q) = Len(r) + 1 /\ q[Len(q)] = a /\ Len(r) \in Nat
      /\ \A k \in 1..Len(r) : q[k] = r[k] /\ r[k] \in Activations
  BY <1>1 DEF Runs
<1> HIDE DEF q
<1>3. /\ Len(s) \in Nat /\ pos \in [1..Len(r) -> Nat] /\ pos[1] = 0 /\ pos[Len(r)] = Len(s)
      /\ \A k \in 1..Len(r) : r[k] \in Activations /\ pos[k] \in Nat /\ pos[k] <= Len(s)
  BY StackFacts
<1>4. Code(v) \in {0, 1} /\ Len(t) \in Nat
  BY <1>3, CodeType
<1>5. /\ p \in [1..Len(q) -> Nat] /\ p[1] = 0 /\ p[Len(q)] = Len(t)
      /\ \A k \in 1..Len(r) : p[k] = pos[k]
  BY <1>2, <1>3, <1>4
<1> HIDE DEF p
<1>6. \A i, j \in 1..Len(q) : i <= j => p[i] <= p[j]
  <2>1. \A i, j \in 1..Len(r) : i <= j => p[i] <= p[j]
    BY <1>5 DEF StackOf
  <2>2. \A i \in 1..Len(r) : p[i] <= Len(t)
    BY <1>3, <1>4, <1>5
  <2> QED
    BY <1>2, <1>4, <1>5, <2>1, <2>2
<1>7. t[Len(s) + 1] \in Frames /\ t[Len(s) + 1].value.regs = g /\ t[Len(s) + 1].value.if = flag
  BY DEF Frames
<1>8. ASSUME NEW k \in 2..Len(q)
      PROVE  Part(t, q[k], p[k - 1], p[k], IF k = Len(q) THEN g ELSE t[p[k] + 1].value.regs)
  <2>1. CASE k = Len(q)
    <3>1. q[k] = a /\ p[k - 1] = Len(s) /\ p[k] = Len(t)
      <4>1. k - 1 = Len(r) /\ Len(r) \in 1..Len(r)
        BY <1>2, <2>1
      <4>2. p[k - 1] = pos[Len(r)]
        BY <1>5, <4>1
      <4> QED
        BY <1>2, <1>3, <1>5, <2>1, <4>2
    <3>2. /\ Len(t) = Len(s) + 1 + Code(a.vector) + 0
          /\ Code(a.vector) = 1 => t[Len(s) + 2].is = "code"
      BY <1>1, <1>3, <1>4
    <3>3. \A i \in 1..7 : g[SavedRegisters[i]] = t[Len(s) + 1].value.regs[SavedRegisters[i]]
      BY <1>7
    <3>4. Part(t, a, Len(s), Len(t), g)
      BY <1>1, <1>7, <3>2, <3>3 DEF Part
    <3> QED
      BY <2>1, <3>1, <3>4
  <2>2. CASE k # Len(q)
    <3>1. /\ k \in 2..Len(r) /\ k - 1 \in 1..Len(r) /\ k \in 1..Len(r)
          /\ q[k] = r[k] /\ r[k] \in Activations
          /\ p[k - 1] = pos[k - 1] /\ p[k] = pos[k]
      BY <1>2, <1>5, <2>2
    <3> DEFINE seen == IF k = Len(r) THEN g ELSE s[pos[k] + 1].value.regs
    <3>2. Part(s, r[k], pos[k - 1], pos[k], seen)
      BY <3>1 DEF StackOf
    <3>3. t[p[k] + 1].value.regs = seen
      <4>1. CASE k = Len(r)
        BY <1>3, <1>7, <3>1, <4>1
      <4>2. CASE k # Len(r)
        <5>1. k + 1 \in 1..Len(r) /\ k + 1 \in 2..Len(r)
          BY <1>2, <3>1, <4>2
        <5>2. pos[k] + 1 \in 1..Len(s)
          <6>1. (k + 1) - 1 = k
            BY <3>1
          <6> QED
            BY <5>1, <6>1, StackFacts
        <5> QED
          BY <3>1, <4>2, <5>2
      <4> QED
        BY <4>1, <4>2
    <3>4. \A i \in 1..pos[k] : t[i] = s[i]
      BY <1>3, <3>1
    <3>5. Part(t, r[k], pos[k - 1], pos[k], seen)
      <4> HIDE DEF seen
      <4> QED
        BY <1>3, <3>1, <3>2, <3>4, PartKept
    <3> QED
      BY <2>2, <3>1, <3>3, <3>5
  <2> QED
    BY <2>1, <2>2
<1>9. \A k \in 1..Len(q) : Masked(q[k]) => ~fl
  <2>1. \A k \in 1..Len(r) : Masked(q[k]) => ~fl
    BY <1>2 DEF StackOf
  <2>2. Masked(a) => ~fl
    BY <1>1 DEF Masked, InterruptGate, IsIrq
  <2> QED
    BY <1>2, <2>1, <2>2
<1>10. \A k, j \in 1..Len(q) : k < j /\ Masked(q[k]) => ~t[p[j - 1] + 1].value.if
  <2> SUFFICES ASSUME NEW k \in 1..Len(q), NEW j \in 1..Len(q), k < j, Masked(q[k])
               PROVE  ~t[p[j - 1] + 1].value.if
    OBVIOUS
  <2>1. k \in 1..Len(r) /\ Masked(r[k]) /\ j - 1 \in 1..Len(r) /\ p[j - 1] = pos[j - 1]
    BY <1>2, <1>5
  <2>2. CASE j = Len(q)
    <3>1. p[j - 1] = Len(s) /\ ~flag
      BY <1>2, <1>3, <2>1, <2>2 DEF StackOf
    <3> QED
      BY <1>7, <3>1
  <2>3. CASE j # Len(q)
    <3>1. j \in 1..Len(r) /\ j \in 2..Len(r)
      BY <1>2, <2>3
    <3>2. ~s[pos[j - 1] + 1].value.if
      BY <2>1, <3>1 DEF StackOf
    <3>3. pos[j - 1] + 1 \in 1..Len(s)
      BY <3>1, StackFacts
    <3> QED
      BY <2>1, <3>2, <3>3
  <2> QED
    BY <2>2, <2>3
<1>11. StackOf(t, q, g, fl, p)
  BY <1>5, <1>6, <1>8, <1>9, <1>10 DEF StackOf
<1> QED
  BY <1>11 DEF q, a

(* The activation on top goes on without touching the stack. *)
LEMMA TopMoves ==
  ASSUME NEW s \in Stacks, NEW r \in Runs, NEW g, NEW flag \in BOOLEAN, NEW pos,
         StackOf(s, r, g, flag, pos), Len(r) >= 1,
         NEW b \in Activations, b.vector = r[Len(r)].vector,
         Len(r) = 1 \/ (r[Len(r)].step \notin Unsaved /\ b.step \notin Unsaved),
         NEW fl \in BOOLEAN, fl => flag \/ Len(r) = 1, Masked(b) => ~fl,
         NEW h
  PROVE  StackOf(s, SetTop(r, b), h, fl, pos)
<1> DEFINE q == SetTop(r, b)
<1>1. /\ Len(r) \in Nat /\ pos \in [1..Len(r) -> Nat] /\ pos[1] = 0 /\ pos[Len(r)] = Len(s)
  BY StackFacts
<1>2. /\ Len(q) = Len(r) /\ q[Len(r)] = b
      /\ \A k \in 1..Len(r) : k # Len(r) => q[k] = r[k]
  BY TopReplaced
<1> HIDE DEF q
<1>3. ASSUME NEW k \in 2..Len(r)
      PROVE  Part(s, q[k], pos[k - 1], pos[k], IF k = Len(r) THEN h ELSE s[pos[k] + 1].value.regs)
  <2>1. Part(s, r[k], pos[k - 1], pos[k], IF k = Len(r) THEN g ELSE s[pos[k] + 1].value.regs)
    BY DEF StackOf
  <2>2. k \in 1..Len(r)
    BY <1>1
  <2>3. CASE k = Len(r)
    <3>1. /\ q[k] = b /\ b.vector = r[k].vector
          /\ r[k].step \notin Unsaved /\ b.step \notin Unsaved
      BY <1>1, <1>2, <2>3
    <3> QED
      BY <2>1, <3>1 DEF Part
  <2>4. CASE k # Len(r)
    BY <1>2, <2>1, <2>2, <2>4
  <2> QED
    BY <2>3, <2>4
<1>4. ASSUME NEW k \in 1..Len(r), Masked(q[k]) PROVE ~fl
  <2>1. CASE k = Len(r)
    BY <1>2, <1>4, <2>1
  <2>2. CASE k # Len(r)
    <3>1. Masked(r[k]) /\ Len(r) # 1
      BY <1>1, <1>2, <1>4, <2>2
    <3>2. ~flag
      BY <3>1 DEF StackOf
    <3> QED
      BY <3>1, <3>2
  <2> QED
    BY <2>1, <2>2
<1>5. \A k, j \in 1..Len(r) : k < j /\ Masked(q[k]) => ~s[pos[j - 1] + 1].value.if
  <2> SUFFICES ASSUME NEW k \in 1..Len(r), NEW j \in 1..Len(r), k < j, Masked(q[k])
               PROVE  ~s[pos[j - 1] + 1].value.if
    OBVIOUS
  <2>1. k # Len(r)
    BY <1>1
  <2> QED
    BY <1>2, <2>1 DEF StackOf
<1> QED
  BY <1>1, <1>2, <1>3, <1>4, <1>5 DEF StackOf, q

(* What is below the frame of the activation on top stays. *)
LEMMA LowerParts ==
  ASSUME NEW s \in Stacks, NEW r \in Runs, NEW g, NEW flag, NEW pos,
         StackOf(s, r, g, flag, pos), Len(r) >= 2,
         NEW t \in Stacks, \A i \in 1..(pos[Len(r) - 1] + 1) : t[i] = s[i]
  PROVE  /\ \A k \in 2..(Len(r) - 1) :
              Part(t, r[k], pos[k - 1], pos[k], t[pos[k] + 1].value.regs)
         /\ \A j \in 2..Len(r) : t[pos[j - 1] + 1] = s[pos[j - 1] + 1]
<1>0. Len(r) \in Nat /\ Len(r) >= 1
  BY DEF Runs
<1>1. /\ Len(r) \in Nat /\ Len(s) \in Nat
      /\ \A k \in 1..Len(r) : r[k] \in Activations /\ pos[k] \in Nat /\ pos[k] <= Len(s)
      /\ \A i, j \in 1..Len(r) : i <= j => pos[i] <= pos[j]
  BY <1>0, StackFacts
<1>2. Len(r) - 1 \in 1..Len(r)
  BY <1>1
<1>3. ASSUME NEW j \in 2..Len(r) PROVE t[pos[j - 1] + 1] = s[pos[j - 1] + 1]
  <2>1. j - 1 \in 1..Len(r) /\ j - 1 <= Len(r) - 1
    BY <1>1
  <2>2. pos[j - 1] <= pos[Len(r) - 1] /\ pos[j - 1] \in Nat /\ pos[Len(r) - 1] \in Nat
    BY <1>1, <1>2, <2>1
  <2>3. pos[j - 1] + 1 \in 1..(pos[Len(r) - 1] + 1)
    BY <2>2
  <2> QED
    BY <2>3
<1>4. ASSUME NEW k \in 2..(Len(r) - 1)
      PROVE  Part(t, r[k], pos[k - 1], pos[k], t[pos[k] + 1].value.regs)
  <2>1. /\ k \in 1..Len(r) /\ k - 1 \in 1..Len(r) /\ k <= Len(r) - 1 /\ k # Len(r)
        /\ k \in 2..Len(r) /\ k + 1 \in 2..Len(r) /\ (k + 1) - 1 = k
    BY <1>1
  <2>2. Part(s, r[k], pos[k - 1], pos[k], s[pos[k] + 1].value.regs)
    BY <2>1 DEF StackOf
  <2>3. t[pos[k] + 1] = s[pos[k] + 1]
    BY <1>3, <2>1
  <2>4. /\ pos[k] \in Nat /\ pos[k - 1] \in Nat /\ pos[k] <= Len(s) /\ r[k] \in Activations
        /\ pos[k] <= pos[Len(r) - 1] /\ pos[Len(r) - 1] \in Nat
    BY <1>1, <1>2, <2>1
  <2>5. \A i \in 1..pos[k] : t[i] = s[i]
    BY <2>4
  <2>6. Part(t, r[k], pos[k - 1], pos[k], s[pos[k] + 1].value.regs)
    BY <2>2, <2>4, <2>5, PartKept
  <2> QED
    BY <2>3, <2>6
<1> QED
  BY <1>3, <1>4

(* The activation on top pushes or pops its registers. *)
LEMMA TopChanges ==
  ASSUME NEW s \in Stacks, NEW r \in Runs, NEW g, NEW flag \in BOOLEAN, NEW pos,
         StackOf(s, r, g, flag, pos), Len(r) >= 2,
         NEW b \in Activations, Masked(b) => Masked(r[Len(r)]),
         NEW t \in Stacks, \A i \in 1..(pos[Len(r) - 1] + 1) : t[i] = s[i],
         Len(t) >= pos[Len(r) - 1],
         NEW h, Part(t, b, pos[Len(r) - 1], Len(t), h)
  PROVE  \E p : StackOf(t, SetTop(r, b), h, flag, p)
<1> DEFINE q == SetTop(r, b)
           p == [pos EXCEPT ![Len(r)] = Len(t)]
<1>a. Len(r) \in Nat
  BY DEF Runs
<1>0. Len(r) \in Nat /\ Len(r) >= 1 /\ Len(r) \in 1..Len(r) /\ 1 \in 1..Len(r) /\ Len(r) # 1
  BY <1>a, AtLeastTwo
<1>1. /\ Len(r) \in Nat /\ pos \in [1..Len(r) -> Nat] /\ pos[1] = 0
      /\ \A k \in 1..Len(r) : pos[k] \in Nat
      /\ \A i, j \in 1..Len(r) : i <= j => pos[i] <= pos[j]
  BY <1>0, StackFacts
<1>2. /\ Len(q) = Len(r) /\ q[Len(r)] = b
      /\ \A k \in 1..Len(r) : k # Len(r) => q[k] = r[k]
  BY <1>0, TopReplaced
<1>3. Len(t) \in Nat
  BY DEF Stacks
<1>4. /\ p \in [1..Len(r) -> Nat] /\ p[1] = 0 /\ p[Len(r)] = Len(t)
      /\ \A k \in 1..Len(r) : k # Len(r) => p[k] = pos[k]
  BY <1>0, <1>1, <1>3
<1> HIDE DEF q, p
<1>5. \A i, j \in 1..Len(r) : i <= j => p[i] <= p[j]
  <2> SUFFICES ASSUME NEW i \in 1..Len(r), NEW j \in 1..Len(r), i <= j PROVE p[i] <= p[j]
    OBVIOUS
  <2>1. CASE j # Len(r)
    BY <1>1, <1>4, <2>1
  <2>2. CASE j = Len(r) /\ i # Len(r)
    <3>1. Len(r) - 1 \in 1..Len(r) /\ i <= Len(r) - 1
      BY <1>1, <2>2
    <3>2. pos[i] <= pos[Len(r) - 1] /\ pos[i] \in Nat /\ pos[Len(r) - 1] \in Nat
      BY <1>1, <3>1
    <3> QED
      BY <1>3, <1>4, <2>2, <3>2
  <2>3. CASE i = Len(r) /\ j = Len(r)
    BY <1>3, <1>4, <2>3
  <2> QED
    BY <2>1, <2>2, <2>3
<1>6. ASSUME NEW k \in 2..Len(r)
      PROVE  Part(t, q[k], p[k - 1], p[k], IF k = Len(r) THEN h ELSE t[p[k] + 1].value.regs)
  <2>1. k \in 1..Len(r) /\ k - 1 \in 1..Len(r) /\ k - 1 # Len(r) /\ p[k - 1] = pos[k - 1]
    BY <1>1, <1>4
  <2>2. CASE k = Len(r)
    BY <1>2, <1>4, <2>1, <2>2
  <2>3. CASE k # Len(r)
    <3>1. k \in 2..(Len(r) - 1)
      BY <1>1, <2>3
    <3>2. Part(t, r[k], pos[k - 1], pos[k], t[pos[k] + 1].value.regs)
      BY <3>1, LowerParts
    <3> QED
      BY <1>2, <1>4, <2>1, <2>3, <3>2
  <2> QED
    BY <2>2, <2>3
<1>7. \A k \in 1..Len(r) : Masked(q[k]) => Masked(r[k])
  BY <1>2
<1>8. \A k, j \in 1..Len(r) : k < j /\ Masked(q[k]) => ~t[p[j - 1] + 1].value.if
  <2> SUFFICES ASSUME NEW k \in 1..Len(r), NEW j \in 1..Len(r), k < j, Masked(q[k])
               PROVE  ~t[p[j - 1] + 1].value.if
    OBVIOUS
  <2>1. j \in 2..Len(r) /\ j - 1 \in 1..Len(r) /\ j - 1 # Len(r)
    BY <1>1
  <2>2. p[j - 1] = pos[j - 1] /\ t[pos[j - 1] + 1] = s[pos[j - 1] + 1]
    <3>1. p[j - 1] = pos[j - 1]
      BY <1>4, <2>1
    <3>2. \A m \in 2..Len(r) : t[pos[m - 1] + 1] = s[pos[m - 1] + 1]
      BY LowerParts
    <3> QED
      BY <2>1, <3>1, <3>2
  <2>3. ~s[pos[j - 1] + 1].value.if
    BY <1>7 DEF StackOf
  <2> QED
    BY <2>2, <2>3
<1>9. StackOf(t, q, h, flag, p)
  BY <1>2, <1>4, <1>5, <1>6, <1>7, <1>8 DEF StackOf
<1> QED
  BY <1>9 DEF q

(* The activation on top returns. *)
LEMMA ReturnKeepsStack ==
  ASSUME NEW s \in Stacks, NEW r \in Runs, NEW g, NEW flag \in BOOLEAN, NEW pos,
         StackOf(s, r, g, flag, pos), Len(r) >= 2, r[Len(r)].step = "iret",
         NEW t \in Stacks, Len(t) = pos[Len(r) - 1], \A i \in 1..Len(t) : t[i] = s[i],
         NEW q \in Runs, Len(q) = Len(r) - 1, \A k \in 1..Len(q) : q[k] = r[k]
  PROVE  \E p : StackOf(t, q, g, s[pos[Len(r) - 1] + 1].value.if, p)
<1> DEFINE p == [k \in 1..Len(q) |-> pos[k]]
           top == Len(r) - 1
           frame == s[pos[top] + 1]
<1>0. Len(r) \in Nat /\ Len(r) >= 1
  BY DEF Runs
<1>1. /\ Len(r) \in Nat /\ pos \in [1..Len(r) -> Nat] /\ pos[1] = 0 /\ Len(s) \in Nat
      /\ \A k \in 1..Len(r) : pos[k] \in Nat /\ r[k] \in Activations /\ pos[k] <= Len(s)
      /\ \A i, j \in 1..Len(r) : i <= j => pos[i] <= pos[j]
  BY <1>0, StackFacts
<1>2. /\ top \in 1..Len(r) /\ top \in Nat /\ top >= 1 /\ Len(q) = top /\ top + 1 = Len(r)
      /\ \A k \in 1..top : k \in 1..Len(r) /\ q[k] = r[k]
  BY <1>1
<1>3. /\ p \in [1..top -> Nat] /\ p[1] = 0 /\ p[top] = Len(t)
      /\ \A k \in 1..top : p[k] = pos[k]
  BY <1>1, <1>2
<1> HIDE DEF p
<1>4. \A i, j \in 1..top : i <= j => p[i] <= p[j]
  BY <1>1, <1>2, <1>3
<1>5. /\ \A i \in 1..7 : g[SavedRegisters[i]] = frame.value.regs[SavedRegisters[i]]
      /\ Part(s, r[Len(r)], pos[top], pos[Len(r)], g)
  <2>1. Len(r) \in 2..Len(r) /\ "iret" \in Unsaved
    BY <1>1 DEF Unsaved
  <2>2. Part(s, r[Len(r)], pos[top], pos[Len(r)], g)
    BY <2>1 DEF StackOf
  <2> QED
    BY <2>1, <2>2 DEF Part
<1> HIDE DEF top
<1>6. ASSUME NEW k \in 2..top
      PROVE  Part(t, q[k], p[k - 1], p[k], IF k = top THEN g ELSE t[p[k] + 1].value.regs)
  <2>1. /\ k \in 1..top /\ k - 1 \in 1..top /\ k \in 2..Len(r) /\ k # Len(r)
        /\ p[k] = pos[k] /\ p[k - 1] = pos[k - 1] /\ q[k] = r[k]
    BY <1>2, <1>3
  <2>2. Part(s, r[k], pos[k - 1], pos[k], s[pos[k] + 1].value.regs)
    BY <2>1 DEF StackOf
  <2>3. /\ pos[k] \in Nat /\ pos[k - 1] \in Nat /\ r[k] \in Activations /\ pos[k] <= Len(s)
        /\ pos[k] <= pos[top]
    BY <1>1, <1>2, <2>1
  <2>0. pos[top] = Len(t) /\ Len(t) \in Nat
    <3>1. pos[top] \in Nat
      BY <1>1, <1>2
    <3> QED
      BY <3>1 DEF top
  <2>4. \A i \in 1..pos[k] : t[i] = s[i]
    BY <2>0, <2>3
  <2>5. Part(t, r[k], pos[k - 1], pos[k], s[pos[k] + 1].value.regs)
    BY <2>2, <2>3, <2>4, PartKept
  <2>6. CASE k = top
    <3>1. \A i \in 1..7 : g[SavedRegisters[i]] = s[pos[k] + 1].value.regs[SavedRegisters[i]]
      BY <1>5, <2>6
    <3>2. Part(t, r[k], pos[k - 1], pos[k], g)
      <4> HIDE DEF top
      <4> QED
        BY <2>5, <3>1 DEF Part
    <3> QED
      BY <2>1, <2>6, <3>2
  <2>7. CASE k # top
    <3>1. k + 1 \in 1..top /\ k + 1 \in 2..Len(r) /\ (k + 1) - 1 = k
      BY <1>2, <2>7
    <3>2. pos[k] + 1 <= pos[k + 1]
      BY <1>0, <3>1, StackFacts
    <3>3. pos[k + 1] <= pos[top] /\ pos[k + 1] \in Nat
      <4>1. k + 1 <= top /\ k + 1 \in 1..Len(r) /\ top \in 1..Len(r)
        BY <1>2, <3>1
      <4> QED
        BY <1>1, <4>1
    <3>4. pos[k] + 1 \in 1..Len(t)
      BY <2>0, <2>3, <3>2, <3>3, Within
    <3> QED
      BY <2>1, <2>5, <2>7, <3>4
  <2> QED
    BY <2>6, <2>7
<1>7. \A k \in 1..top : Masked(q[k]) => ~frame.value.if
  <2> SUFFICES ASSUME NEW k \in 1..top, Masked(q[k]) PROVE ~frame.value.if
    OBVIOUS
  <2>1. k \in 1..Len(r) /\ Len(r) \in 1..Len(r) /\ k < Len(r) /\ Masked(r[k]) /\ Len(r) - 1 = top
    BY <1>1, <1>2
  <2> QED
    BY <2>1 DEF StackOf
<1>8. \A k, j \in 1..top : k < j /\ Masked(q[k]) => ~t[p[j - 1] + 1].value.if
  <2> SUFFICES ASSUME NEW k \in 1..top, NEW j \in 1..top, k < j, Masked(q[k])
               PROVE  ~t[p[j - 1] + 1].value.if
    OBVIOUS
  <2>1. /\ k \in 1..Len(r) /\ j \in 1..Len(r) /\ Masked(r[k]) /\ j \in 2..Len(r)
        /\ j - 1 \in 1..top /\ p[j - 1] = pos[j - 1]
    BY <1>2, <1>3
  <2>2. ~s[pos[j - 1] + 1].value.if
    BY <2>1 DEF StackOf
  <2>3. pos[j - 1] + 1 <= pos[j]
    BY <1>0, <2>1, StackFacts
  <2>4. /\ pos[j - 1] \in Nat /\ pos[j] \in Nat /\ pos[j] <= pos[top] /\ pos[top] \in Nat
        /\ pos[top] = Len(t)
    <3>1. j <= top /\ j - 1 \in 1..Len(r)
      BY <1>2, <2>1
    <3>2. pos[top] = Len(t)
      BY DEF top
    <3> QED
      BY <1>1, <1>2, <2>1, <3>1, <3>2
  <2>5. pos[j - 1] + 1 \in 1..Len(t)
    BY <2>3, <2>4, Within
  <2> QED
    BY <2>1, <2>2, <2>5
<1>9. StackOf(t, q, g, frame.value.if, p)
  BY <1>2, <1>3, <1>4, <1>6, <1>7, <1>8 DEF StackOf
<1> QED
  BY <1>9 DEF top

-----------------------------------------------------------------------------
(* How many frames there are. *)

LEMMA FrameAdded ==
  ASSUME NEW s \in Stacks, NEW t \in Stacks, Len(t) > Len(s),
         \A i \in 1..Len(s) : t[i] = s[i], t[Len(s) + 1].is = "frame",
         \A i \in (Len(s) + 2)..Len(t) : t[i].is # "frame"
  PROVE  /\ FrameIndices(t) = FrameIndices(s) \cup {Len(s) + 1}
         /\ Len(s) + 1 \notin FrameIndices(s)
<1>1. Len(s) \in Nat /\ Len(t) \in Nat
  BY DEF Stacks
<1>2. \A i \in 1..Len(t) : i \in 1..Len(s) \/ i = Len(s) + 1 \/ i \in (Len(s) + 2)..Len(t)
  BY <1>1
<1>3. (Len(s) + 1) \in 1..Len(t) /\ \A i \in 1..Len(s) : i \in 1..Len(t)
  BY <1>1
<1>4. Len(s) + 1 \notin 1..Len(s)
  BY <1>1
<1> QED
  BY <1>2, <1>3, <1>4 DEF FrameIndices

LEMMA NoFrameAdded ==
  ASSUME NEW s \in Stacks, NEW t \in Stacks, Len(t) >= Len(s),
         \A i \in 1..Len(s) : t[i] = s[i],
         \A i \in (Len(s) + 1)..Len(t) : t[i].is # "frame"
  PROVE  FrameIndices(t) = FrameIndices(s)
<1>1. Len(s) \in Nat /\ Len(t) \in Nat
  BY DEF Stacks
<1>2. \A i \in 1..Len(t) : i \in 1..Len(s) \/ i \in (Len(s) + 1)..Len(t)
  BY <1>1
<1>3. \A i \in 1..Len(s) : i \in 1..Len(t)
  BY <1>1
<1> QED
  BY <1>2, <1>3 DEF FrameIndices

LEMMA CountAdded ==
  ASSUME NEW S, NEW T, NEW i, IsFiniteSet(S), T = S \cup {i}, i \notin S
  PROVE  IsFiniteSet(T) /\ Cardinality(T) = Cardinality(S) + 1
BY FS_AddElement

LEMMA CountRemoved ==
  ASSUME NEW S, NEW T, NEW i, IsFiniteSet(T), T = S \cup {i}, i \notin S
  PROVE  IsFiniteSet(S) /\ Cardinality(S) = Cardinality(T) - 1
<1>1. S = T \ {i} /\ i \in T
  OBVIOUS
<1>2. IsFiniteSet(S)
  BY <1>1, FS_RemoveElement
<1>3. Cardinality(S) = Cardinality(T) - 1
  BY <1>1, FS_RemoveElement
<1> QED
  BY <1>2, <1>3

-----------------------------------------------------------------------------
(* The activations. *)

(* The activation on top becomes b. *)
RoutineOk(b) ==
  /\ b.step \in RoutineSteps
  /\ b.step \in {"push", "call"} => b.n = 1
  /\ b.step = "eoi" => IsIrq(b.vector) /\ b.n \in 1..Len(EoiChips(LineOf(b.vector)))

LEMMA RunOfRoutines ==
  ASSUME NEW r, Len(r) >= 1, r[1].vector = Thread, r[1].step \in ThreadSteps,
         \A k \in 2..Len(r) : RoutineOk(r[k])
  PROVE  RunOf(r)
BY DEF RunOf, RoutineOk

LEMMA TopStep ==
  ASSUME Types, RunInv, HandlersDoNotNest,
         NEW b \in Activations, b.vector = run[Len(run)].vector,
         run' = SetTop(run, b),
         Len(run) = 1 => b.step \in ThreadSteps, Len(run) # 1 => RoutineOk(b)
  PROVE  /\ run' \in Runs /\ Len(run') = Len(run) /\ Len(run) \in Nat /\ Len(run) >= 1
         /\ run'[Len(run)] = b
         /\ \A k \in 1..Len(run) : k # Len(run) => run'[k] = run[k]
         /\ RunInv' /\ HandlersDoNotNest'
<1>1. run \in Runs /\ Len(run) \in Nat /\ Len(run) >= 1 /\ DOMAIN run = 1..Len(run)
  BY DEF Types, Runs, RunInv, RunOf
<1>2. /\ run' \in Runs /\ Len(run') = Len(run) /\ DOMAIN run' = 1..Len(run)
      /\ run'[Len(run)] = b
      /\ \A k \in 1..Len(run) : k # Len(run) => run'[k] = run[k]
  BY <1>1, TopReplaced
<1>3. \A k \in 1..Len(run) : run'[k].vector = run[k].vector
  BY <1>2
<1>4. HandlersDoNotNest'
  <2> SUFFICES ASSUME NEW i \in 1..Len(run), NEW j \in 1..Len(run),
                      IsIrq(run'[i].vector), IsIrq(run'[j].vector)
               PROVE  i = j
    BY <1>2 DEF HandlersDoNotNest
  <2> QED
    BY <1>1, <1>3 DEF HandlersDoNotNest
<1>5. RunOf(run')
  <2>1. run'[1].vector = Thread
    BY <1>1, <1>3 DEF RunInv, RunOf
  <2>2. run'[1].step \in ThreadSteps
    <3>1. 1 \in 1..Len(run)
      BY <1>1
    <3>2. CASE Len(run) = 1
      BY <1>2, <3>2
    <3>3. CASE Len(run) # 1
      BY <1>2, <3>1, <3>3 DEF RunInv, RunOf
    <3> QED
      BY <3>2, <3>3
  <2>3. ASSUME NEW k \in 2..Len(run) PROVE RoutineOk(run'[k])
    <3>1. k \in 1..Len(run)
      BY <1>1
    <3>2. CASE k = Len(run)
      <4>1. Len(run) # 1
        BY <1>1, <3>2
      <4> QED
        BY <1>2, <3>2, <4>1
    <3>3. CASE k # Len(run)
      BY <1>2, <3>1, <3>3 DEF RunInv, RunOf, RoutineOk
    <3> QED
      BY <3>2, <3>3
  <2> QED
    BY <1>1, <1>2, <2>1, <2>2, <2>3 DEF RunOf, RoutineOk
<1> QED
  BY <1>1, <1>2, <1>4, <1>5 DEF RunInv

LEMMA Entered ==
  ASSUME Types, RunInv, HandlersDoNotNest, NEW v \in Int,
         run' = Append(run, [vector |-> v, step |-> "push", n |-> 1]),
         IsIrq(v) => \A k \in 1..Len(run) : ~IsIrq(run[k].vector)
  PROVE  /\ run' \in Runs /\ Len(run') = Len(run) + 1 /\ Len(run) \in Nat /\ Len(run) >= 1
         /\ run'[Len(run) + 1] = [vector |-> v, step |-> "push", n |-> 1]
         /\ \A k \in 1..Len(run) : run'[k] = run[k]
         /\ RunInv' /\ HandlersDoNotNest'
<1> DEFINE a == [vector |-> v, step |-> "push", n |-> 1]
<1>1. run \in Runs /\ Len(run) \in Nat /\ Len(run) >= 1 /\ DOMAIN run = 1..Len(run)
  BY DEF Types, Runs, RunInv, RunOf
<1>2. a \in Activations /\ a.vector = v /\ RoutineOk(a)
  BY DEF Activations, RoutineSteps, Unsaved, RoutineOk
<1> HIDE DEF a
<1>3. run' = Append(run, a)
  BY DEF a
<1>4. /\ run' \in Runs /\ Len(run') = Len(run) + 1 /\ DOMAIN run' = 1..(Len(run) + 1)
      /\ run'[Len(run) + 1] = a
      /\ \A k \in 1..Len(run) : run'[k] = run[k]
  BY <1>1, <1>2, <1>3 DEF Runs
<1>5. HandlersDoNotNest'
  <2> SUFFICES ASSUME NEW i \in 1..(Len(run) + 1), NEW j \in 1..(Len(run) + 1),
                      IsIrq(run'[i].vector), IsIrq(run'[j].vector)
               PROVE  i = j
    BY <1>4 DEF HandlersDoNotNest, IsIrq
  <2>1. CASE i \in 1..Len(run) /\ j \in 1..Len(run)
    BY <1>1, <1>4, <2>1 DEF HandlersDoNotNest
  <2>2. CASE i = Len(run) + 1 /\ j \in 1..Len(run)
    BY <1>2, <1>4, <2>2
  <2>3. CASE i \in 1..Len(run) /\ j = Len(run) + 1
    BY <1>2, <1>4, <2>3
  <2>4. CASE i = Len(run) + 1 /\ j = Len(run) + 1
    BY <2>4
  <2> QED
    BY <1>1, <2>1, <2>2, <2>3, <2>4
<1>6. RunOf(run')
  <2>1. run'[1].vector = Thread /\ run'[1].step \in ThreadSteps
    BY <1>1, <1>4 DEF RunInv, RunOf
  <2>2. ASSUME NEW k \in 2..(Len(run) + 1) PROVE RoutineOk(run'[k])
    <3>1. CASE k = Len(run) + 1
      BY <1>2, <1>4, <3>1
    <3>2. CASE k # Len(run) + 1
      <4>1. k \in 1..Len(run) /\ k \in 2..Len(run)
        BY <1>1, <3>2
      <4> QED
        BY <1>4, <4>1 DEF RunInv, RunOf, RoutineOk
    <3> QED
      BY <3>1, <3>2
  <2>3. Len(run') >= 1 /\ \A k \in 2..Len(run') : RoutineOk(run'[k])
    BY <1>1, <1>4, <2>2
  <2> QED
    BY <2>1, <2>3, RunOfRoutines
<1> QED
  BY <1>1, <1>4, <1>5, <1>6 DEF RunInv, a

LEMMA Returned ==
  ASSUME Types, RunInv, HandlersDoNotNest, Len(run) >= 2, run' = Front(run)
  PROVE  /\ run' \in Runs /\ Len(run') = Len(run) - 1
         /\ \A k \in 1..Len(run') : k \in 1..Len(run) /\ run'[k] = run[k]
         /\ RunInv' /\ HandlersDoNotNest'
<1>1. run \in Runs /\ Len(run) \in Nat /\ DOMAIN run = 1..Len(run)
  BY DEF Types, Runs
<1>2. /\ run' \in Runs /\ Len(run') = Len(run) - 1 /\ DOMAIN run' = 1..(Len(run) - 1)
      /\ \A k \in 1..(Len(run) - 1) : run'[k] = run[k]
  BY <1>1 DEF Runs, Front
<1>3. \A k \in 1..(Len(run) - 1) : k \in 1..Len(run)
  BY <1>1
<1>4. HandlersDoNotNest'
  BY <1>1, <1>2, <1>3 DEF HandlersDoNotNest
<1>5. RunOf(run')
  <2>1. 1 \in 1..(Len(run) - 1) /\ Len(run') >= 1
    BY <1>1, <1>2
  <2>2. \A k \in 2..(Len(run) - 1) : k \in 1..(Len(run) - 1) /\ k \in 2..Len(run)
    BY <1>1
  <2> QED
    BY <1>2, <2>1, <2>2 DEF RunInv, RunOf
<1> QED
  BY <1>1, <1>2, <1>3, <1>4, <1>5 DEF RunInv

-----------------------------------------------------------------------------
(* The chips. *)

LEMMA LowestIs ==
  ASSUME NEW S \in SUBSET (0..7), S # {}
  PROVE  Lowest(S) \in S /\ \A j \in S : Lowest(S) <= j
<1>1. \E i \in S : \A j \in S : i <= j
  <2>1. \A i \in S : i \in {0, 1, 2, 3, 4, 5, 6, 7}
    OBVIOUS
  <2>2. CASE 0 \in S
    BY <2>1, <2>2
  <2>3. CASE 0 \notin S /\ 1 \in S
    BY <2>1, <2>3
  <2>4. CASE 0 \notin S /\ 1 \notin S /\ 2 \in S
    BY <2>1, <2>4
  <2>5. CASE 0 \notin S /\ 1 \notin S /\ 2 \notin S /\ 3 \in S
    BY <2>1, <2>5
  <2>6. CASE 0 \notin S /\ 1 \notin S /\ 2 \notin S /\ 3 \notin S /\ 4 \in S
    BY <2>1, <2>6
  <2>7. CASE 0 \notin S /\ 1 \notin S /\ 2 \notin S /\ 3 \notin S /\ 4 \notin S
    <3>1. \A i \in S : i \in {5, 6, 7}
      BY <2>1, <2>7
    <3>2. CASE 5 \in S
      BY <3>1, <3>2
    <3>3. CASE 5 \notin S /\ 6 \in S
      BY <3>1, <3>3
    <3>4. CASE 5 \notin S /\ 6 \notin S
      <4>1. \A i \in S : i = 7
        BY <3>1, <3>4
      <4>2. 7 \in S
        BY <4>1
      <4>3. \A j \in S : 7 <= j
        BY <4>1
      <4> QED
        BY <4>2, <4>3
    <3> QED
      BY <3>2, <3>3, <3>4
  <2> QED
    BY <2>2, <2>3, <2>4, <2>5, <2>6, <2>7
<1> QED
  BY <1>1 DEF Lowest

LEMMA ChipFields ==
  ASSUME NEW c \in ChipStates
  PROVE  /\ c.expects \in {"nothing", "offset", "cascade", "mode"}
         /\ c.offset \in Int /\ c.cascade \in Int
         /\ c.mask \in SUBSET (0..7) /\ c.irr \in SUBSET (0..7) /\ c.isr \in SUBSET (0..7)
BY DEF ChipStates

LEMMA EoiWritten ==
  ASSUME NEW c \in ChipStates
  PROVE  /\ Command(c, "EOI") \in ChipStates
         /\ Command(c, "EOI").expects = c.expects /\ Command(c, "EOI").offset = c.offset
         /\ Command(c, "EOI").isr = IF c.isr = {} THEN {} ELSE c.isr \ {Lowest(c.isr)}
<1>1. Command(c, "EOI") = [c EXCEPT !.isr = IF c.isr = {} THEN {} ELSE c.isr \ {Lowest(c.isr)}]
  BY DEF Command, ChipStates
<1> QED
  BY <1>1 DEF ChipStates

LEMMA InitializeWritten ==
  ASSUME NEW c \in ChipStates
  PROVE  /\ Command(c, "INITIALIZE") \in ChipStates
         /\ Command(c, "INITIALIZE").expects = "offset"
         /\ Command(c, "INITIALIZE").isr = {}
<1>1. Command(c, "INITIALIZE") =
        [c EXCEPT !.expects = "offset", !.irr = {}, !.isr = {}, !.mask = {}]
  BY DEF Command
<1> QED
  BY <1>1 DEF ChipStates

LEMMA OffsetWritten ==
  ASSUME NEW c \in ChipStates, c.expects = "offset", NEW v \in Int
  PROVE  /\ Data(c, v) \in ChipStates
         /\ Data(c, v).expects = "cascade" /\ Data(c, v).offset = v /\ Data(c, v).isr = c.isr
<1>1. Data(c, v) = [c EXCEPT !.offset = v, !.expects = "cascade"]
  BY DEF Data
<1> QED
  BY <1>1 DEF ChipStates

LEMMA CascadeWritten ==
  ASSUME NEW c \in ChipStates, c.expects = "cascade", NEW v \in Int
  PROVE  /\ Data(c, v) \in ChipStates
         /\ Data(c, v).expects = "mode" /\ Data(c, v).offset = c.offset /\ Data(c, v).isr = c.isr
<1>1. Data(c, v) = [c EXCEPT !.cascade = v, !.expects = "mode"]
  BY DEF Data
<1> QED
  BY <1>1 DEF ChipStates

LEMMA ModeWritten ==
  ASSUME NEW c \in ChipStates, c.expects = "mode", NEW v
  PROVE  /\ Data(c, v) \in ChipStates
         /\ Data(c, v).expects = "nothing" /\ Data(c, v).offset = c.offset
         /\ Data(c, v).isr = c.isr
<1>1. Data(c, v) = [c EXCEPT !.expects = "nothing"]
  BY DEF Data
<1> QED
  BY <1>1 DEF ChipStates

LEMMA MaskWritten ==
  ASSUME NEW c \in ChipStates, c.expects = "nothing", NEW v \in SUBSET (0..7)
  PROVE  /\ Data(c, v) \in ChipStates
         /\ Data(c, v).expects = "nothing" /\ Data(c, v).offset = c.offset
         /\ Data(c, v).isr = c.isr
<1>1. Data(c, v) = [c EXCEPT !.mask = v]
  BY DEF Data
<1> QED
  BY <1>1 DEF ChipStates

LEMMA ChipWritten ==
  ASSUME Types, NEW c \in Chips, NEW x \in ChipStates, pic' = [pic EXCEPT ![c] = x]
  PROVE  /\ pic' \in [Chips -> ChipStates] /\ pic'[c] = x
         /\ \A d \in Chips : d # c => pic'[d] = pic[d]
BY DEF Types

Service(c, isr, irr) == [c EXCEPT !.isr = isr, !.irr = irr]

LEMMA ServiceFields ==
  ASSUME NEW c \in ChipStates, NEW isr \in SUBSET (0..7), NEW irr \in SUBSET (0..7)
  PROVE  /\ Service(c, isr, irr) \in ChipStates /\ Service(c, isr, irr).isr = isr
         /\ Service(c, isr, irr).expects = c.expects /\ Service(c, isr, irr).offset = c.offset
BY DEF ChipStates, Service

(* The chips' answer. *)
LEMMA Answers ==
  ASSUME Types, NEW c \in Chips, NEW U \in SUBSET (0..7)
  PROVE  /\ Answer(U) \in 0..7
         /\ Taken(c, U) \in ChipStates
         /\ Taken(c, U).expects = pic[c].expects /\ Taken(c, U).offset = pic[c].offset
         /\ Taken(c, U).isr \subseteq pic[c].isr \cup {Answer(U)}
<1>1. pic[c] \in ChipStates
  BY DEF Types
<1>2. CASE U = {}
  <2>1. Taken(c, U) = pic[c] /\ Answer(U) = 7
    BY <1>2 DEF Taken, Answer
  <2> QED
    BY <1>1, <2>1
<1>3. CASE U # {}
  <2>1. Lowest(U) \in 0..7
    BY <1>3, LowestIs
  <2>2. /\ Answer(U) = Lowest(U)
        /\ Taken(c, U) = Service(pic[c], pic[c].isr \cup {Lowest(U)}, pic[c].irr \ {Lowest(U)})
    BY <1>1, <1>3 DEF Taken, Answer, ChipStates, Service
  <2>3. /\ pic[c].isr \cup {Lowest(U)} \in SUBSET (0..7)
        /\ pic[c].irr \ {Lowest(U)} \in SUBSET (0..7)
    BY <1>1, <2>1, ChipFields
  <2>4. /\ Taken(c, U) \in ChipStates /\ Taken(c, U).isr = pic[c].isr \cup {Lowest(U)}
        /\ Taken(c, U).expects = pic[c].expects /\ Taken(c, U).offset = pic[c].offset
    BY <1>1, <2>2, <2>3, ServiceFields
  <2> QED
    BY <2>1, <2>2, <2>4
<1> QED
  BY <1>2, <1>3

LEMMA UrgentType ==
  ASSUME Types
  PROVE  Urgent0 \in SUBSET (0..7) /\ Urgent1 \in SUBSET (0..7)
<1>1. pic["PIC0"] \in ChipStates /\ pic["PIC1"] \in ChipStates
  BY DEF Types, Chips
<1>2. pic["PIC0"].irr \in SUBSET (0..7) /\ pic["PIC1"].irr \in SUBSET (0..7)
  BY <1>1, ChipFields
<1>3. Urgent1 \in SUBSET (0..7)
  BY <1>2 DEF Urgent1, Urgent
<1>4. Urgent0 \in SUBSET (0..7)
  BY <1>2 DEF Urgent0, Urgent
<1> QED
  BY <1>3, <1>4

(* What is in service stays so, and those who handle it go on. *)
LEMMA ServiceKept ==
  ASSUME Types, SetupInv, ServiceInv, InServiceIsHandled,
         \A c \in Chips : /\ pic'[c].isr = pic[c].isr /\ pic'[c].expects = pic[c].expects
                          /\ pic'[c].offset = pic[c].offset,
         run'[1].step = "pic" => run'[1] = run[1],
         run'[1].step # "pic" => run[1].step # "pic",
         cpu'.inta = cpu.inta,
         \A line \in (0..15) \ {2, 7} : Handling(line) => Handling(line)',
         \A k \in 2..Len(run') : run'[k].step = "eoi" /\ run'[k].n = 2 =>
           k \in 2..Len(run) /\ run[k].step = "eoi" /\ run[k].n = 2
  PROVE  SetupInv' /\ ServiceInv' /\ InServiceIsHandled'
<1>1. /\ pic'["PIC0"].isr = pic["PIC0"].isr /\ pic'["PIC1"].isr = pic["PIC1"].isr
      /\ pic'["PIC0"].expects = pic["PIC0"].expects /\ pic'["PIC1"].expects = pic["PIC1"].expects
      /\ pic'["PIC0"].offset = pic["PIC0"].offset /\ pic'["PIC1"].offset = pic["PIC1"].offset
  BY DEF Chips
<1>2. pic["PIC0"].isr \in SUBSET (0..7) /\ pic["PIC1"].isr \in SUBSET (0..7)
  <2>1. pic["PIC0"] \in ChipStates /\ pic["PIC1"] \in ChipStates
    BY DEF Types, Chips
  <2> QED
    BY <2>1, ChipFields
<1>3. SetupInv'
  <2> SUFFICES ASSUME run'[1].step = "pic" PROVE SetupInv'
    BY DEF SetupInv
  <2>1. run'[1] = run[1]
    OBVIOUS
  <2> QED
    BY <1>1, <2>1 DEF SetupInv, SetUpTo
<1>4. ServiceInv'
  BY <1>1 DEF ServiceInv
<1>5. InServiceIsHandled'
  <2> SUFFICES ASSUME run'[1].step # "pic" PROVE InServiceIsHandled'
    BY DEF InServiceIsHandled
  <2>1. \A i \in pic["PIC0"].isr : i \in {2, 7} \/ Handling(i)'
    BY <1>2 DEF InServiceIsHandled
  <2>2. \A i \in pic["PIC1"].isr : Handling(8 + i)'
    <3> SUFFICES ASSUME NEW i \in pic["PIC1"].isr PROVE Handling(8 + i)'
      OBVIOUS
    <3>1. 8 + i \in (0..15) \ {2, 7} /\ Handling(8 + i)
      <4>1. i \in 0..7
        BY <1>2, Zenon
      <4>2. run[1].step # "pic"
        BY Zenon
      <4>3. Handling(8 + i)
        BY <4>2 DEF InServiceIsHandled
      <4> QED
        BY <4>1, <4>3, SlaveLine, Zenon
    <3> QED
      BY <3>1
  <2>3. 2 \in pic["PIC0"].isr => cpu'.inta = "PIC1" \/ \E line \in 8..15 : Handling(line)'
    <3>1. \A line \in 8..15 : line \in (0..15) \ {2, 7}
      OBVIOUS
    <3> QED
      BY <3>1 DEF InServiceIsHandled
  <2> QED
    BY <1>1, <2>1, <2>2, <2>3 DEF InServiceIsHandled, Handling
<1> QED
  BY <1>3, <1>4, <1>5

-----------------------------------------------------------------------------
(* The devices. *)

RequestState(c, irr) == [c EXCEPT !.irr = irr]

LEMMA RequestFields ==
  ASSUME NEW c \in ChipStates, NEW irr \in SUBSET (0..7)
  PROVE  /\ RequestState(c, irr) \in ChipStates /\ RequestState(c, irr).isr = c.isr
         /\ RequestState(c, irr).expects = c.expects /\ RequestState(c, irr).offset = c.offset
BY DEF ChipStates, RequestState

LEMMA RequestsChange ==
  ASSUME InterruptsInv, NEW c \in Chips, NEW irr \in SUBSET (0..7),
         pic' = [pic EXCEPT ![c] = RequestState(pic[c], irr)],
         left' \in [requests : Int, exceptions : Int], UNCHANGED <<cpu, run, stack, regs>>
  PROVE  InterruptsInv'
<1> USE DEF InterruptsInv
<1>1. pic[c] \in ChipStates
  BY DEF Types
<1>2. /\ RequestState(pic[c], irr) \in ChipStates /\ RequestState(pic[c], irr).isr = pic[c].isr
      /\ RequestState(pic[c], irr).expects = pic[c].expects
      /\ RequestState(pic[c], irr).offset = pic[c].offset
  BY <1>1, RequestFields
<1>3. /\ pic' \in [Chips -> ChipStates] /\ pic'[c] = RequestState(pic[c], irr)
      /\ \A d \in Chips : d # c => pic'[d] = pic[d]
  BY <1>2, ChipWritten
<1>4. Types'
  BY <1>3 DEF Types
<1>5. \A d \in Chips : /\ pic'[d].isr = pic[d].isr /\ pic'[d].expects = pic[d].expects
                       /\ pic'[d].offset = pic[d].offset
  BY <1>2, <1>3
<1>6. \A line \in (0..15) \ {2, 7} : Handling(line) => Handling(line)'
  BY DEF Handling
<1>7. SetupInv' /\ ServiceInv' /\ InServiceIsHandled'
  BY <1>5, <1>6, ServiceKept
<1>8. RunInv' /\ StackInv' /\ CountInv' /\ FlagInv' /\ HandlersDoNotNest'
  BY DEF RunInv, StackInv, CountInv, FlagInv, HandlersDoNotNest
<1> QED
  BY <1>4, <1>7, <1>8

LEMMA InputOfLine == \A line \in Lines : Input(line) \in 0..7 /\ ChipOf(line) \in Chips
BY LinesAssumption DEF Input, ChipOf, Chips

LEMMA DeviceRequestsStep ==
  ASSUME InterruptsInv, NEW line \in Lines, DeviceRequests(line) PROVE InterruptsInv'
<1> DEFINE c == ChipOf(line)
           irr == pic[c].irr \cup {Input(line)}
<1>1. c \in Chips /\ Input(line) \in 0..7
  BY InputOfLine
<1>2. pic \in [Chips -> ChipStates] /\ pic[c] \in ChipStates
  BY <1>1 DEF InterruptsInv, Types
<1>3. irr \in SUBSET (0..7)
  BY <1>1, <1>2, ChipFields
<1>4. pic' = [pic EXCEPT ![c] = RequestState(pic[c], irr)]
  BY <1>1, <1>2 DEF DeviceRequests, Request, RequestState, ChipStates
<1>5. left' \in [requests : Int, exceptions : Int] /\ UNCHANGED <<cpu, run, stack, regs>>
  BY DEF DeviceRequests, InterruptsInv, Types
<1> HIDE DEF c, irr
<1> QED
  BY <1>1, <1>3, <1>4, <1>5, RequestsChange

LEMMA DeviceWithdrawsStep ==
  ASSUME InterruptsInv, NEW line \in Lines, DeviceWithdraws(line) PROVE InterruptsInv'
<1> DEFINE c == ChipOf(line)
           irr == pic[c].irr \ {Input(line)}
<1>1. c \in Chips /\ Input(line) \in 0..7
  BY InputOfLine
<1>2. pic \in [Chips -> ChipStates] /\ pic[c] \in ChipStates
  BY <1>1 DEF InterruptsInv, Types
<1>3. irr \in SUBSET (0..7)
  BY <1>1, <1>2, ChipFields
<1>4. pic' = [pic EXCEPT ![c] = RequestState(pic[c], irr)]
  BY <1>1, <1>2 DEF DeviceWithdraws, Withdraw, RequestState, ChipStates
<1>5. left' \in [requests : Int, exceptions : Int] /\ UNCHANGED <<cpu, run, stack, regs>>
  BY DEF DeviceWithdraws, InterruptsInv, Types
<1> HIDE DEF c, irr
<1> QED
  BY <1>1, <1>3, <1>4, <1>5, RequestsChange

-----------------------------------------------------------------------------
(* The CPU enters a service routine. *)

Entry(s, f, v) ==
  Append(s, f) \o (IF v \in PushesErrorCode THEN <<[is |-> "code", value |-> 0]>> ELSE <<>>)

LEMMA EntryPushes ==
  ASSUME NEW s \in Stacks, NEW f \in Frames, NEW v
  PROVE  /\ Entry(s, f, v) \in Stacks /\ Len(Entry(s, f, v)) = Len(s) + 1 + Code(v)
         /\ Entry(s, f, v)[Len(s) + 1] = f
         /\ \A i \in 1..Len(s) : Entry(s, f, v)[i] = s[i]
         /\ Code(v) = 1 => Entry(s, f, v)[Len(s) + 2].is = "code"
<1> DEFINE c == [is |-> "code", value |-> 0]
           W == Frames \cup Words
           u == Append(s, f)
<1>1. s \in Seq(W) /\ f \in W /\ c \in W /\ c.is = "code"
  BY DEF Stacks, Words
<1> HIDE DEF W, c
<1>2. /\ u \in Seq(W) /\ Len(u) = Len(s) + 1 /\ u[Len(s) + 1] = f /\ Len(s) \in Nat
      /\ \A i \in 1..Len(s) : u[i] = s[i]
  BY <1>1
<1> HIDE DEF u
<1>3. CASE v \in PushesErrorCode
  <2>1. Entry(s, f, v) = u \o <<c>> /\ Code(v) = 1
    BY <1>3 DEF Entry, Code, u, c
  <2>2. /\ u \o <<c>> \in Seq(W) /\ Len(u \o <<c>>) = Len(s) + 1 + 1
        /\ \A i \in 1..(Len(s) + 1) : (u \o <<c>>)[i] = u[i]
        /\ (u \o <<c>>)[Len(s) + 2] = c
    BY <1>1, <1>2
  <2> QED
    BY <1>1, <1>2, <2>1, <2>2 DEF Stacks, W
<1>4. CASE v \notin PushesErrorCode
  <2>1. Entry(s, f, v) = u /\ Code(v) = 0
    BY <1>2, <1>4 DEF Entry, Code, u
  <2> QED
    BY <1>2, <2>1 DEF Stacks, W
<1> QED
  BY <1>3, <1>4

LEMMA EnterKeeps ==
  ASSUME InterruptsInv, NEW v \in Int, Enter(v),
         IsIrq(v) => \A k \in 1..Len(run) : ~IsIrq(run[k].vector)
  PROVE  /\ Len(run') = Len(run) + 1 /\ Len(run) \in Nat /\ Len(run) >= 1
         /\ run'[Len(run) + 1] = [vector |-> v, step |-> "push", n |-> 1]
         /\ \A k \in 1..Len(run) : run'[k] = run[k]
         /\ cpu' \in [if : BOOLEAN, inta : {"nobody", "PIC0", "PIC1"}] /\ cpu'.inta = "nobody"
         /\ run' \in Runs /\ stack' \in Stacks /\ regs' \in RegFiles
         /\ RunInv' /\ StackInv' /\ CountInv' /\ FlagInv' /\ HandlersDoNotNest'
<1> DEFINE f == [is |-> "frame", value |-> [if |-> cpu.if, regs |-> regs]]
           a == [vector |-> v, step |-> "push", n |-> 1]
<1>1. /\ cpu.if \in BOOLEAN /\ regs \in RegFiles /\ stack \in Stacks /\ run \in Runs
      /\ regs' = regs
  BY DEF InterruptsInv, Types, Stacks, Runs, Enter
<1>2. f \in Frames /\ f.is = "frame"
  BY <1>1 DEF Frames
<1>3. stack' = Entry(stack, f, v) /\ run' = Append(run, a)
  BY DEF Enter, Entry
<1>4. /\ Len(run') = Len(run) + 1 /\ Len(run) \in Nat /\ Len(run) >= 1
      /\ run'[Len(run) + 1] = a
      /\ \A k \in 1..Len(run) : run'[k] = run[k]
      /\ run' \in Runs /\ RunInv' /\ HandlersDoNotNest'
  BY <1>3, Entered DEF InterruptsInv
<1>5. /\ cpu' \in [if : BOOLEAN, inta : {"nobody", "PIC0", "PIC1"}] /\ cpu'.inta = "nobody"
      /\ cpu'.if \in BOOLEAN /\ (cpu'.if <=> cpu.if /\ ~InterruptGate(v)) /\ FlagInv'
  BY <1>1 DEF Enter, FlagInv
<1>6. /\ stack' \in Stacks /\ Len(stack') = Len(stack) + 1 + Code(v)
      /\ stack'[Len(stack) + 1] = f
      /\ \A i \in 1..Len(stack) : stack'[i] = stack[i]
      /\ Code(v) = 1 => stack'[Len(stack) + 2].is = "code"
  <2> HIDE DEF f
  <2>1. /\ Entry(stack, f, v) \in Stacks
        /\ Len(Entry(stack, f, v)) = Len(stack) + 1 + Code(v)
        /\ Entry(stack, f, v)[Len(stack) + 1] = f
        /\ \A i \in 1..Len(stack) : Entry(stack, f, v)[i] = stack[i]
        /\ Code(v) = 1 => Entry(stack, f, v)[Len(stack) + 2].is = "code"
    BY <1>1, <1>2, EntryPushes
  <2> QED
    BY <1>3, <2>1
<1>7. StackInv'
  <2>1. PICK pos : StackOf(stack, run, regs, cpu.if, pos)
    BY DEF InterruptsInv, StackInv
  <2>2. \E p : StackOf(stack', Append(run, a), regs, cpu'.if, p)
    BY <1>1, <1>4, <1>5, <1>6, <2>1, EnterKeepsStack
  <2> QED
    BY <1>1, <1>3, <2>2 DEF StackInv
<1>8. CountInv'
  <2>1. Len(stack) \in Nat /\ Code(v) \in {0, 1}
    BY <1>1, CodeType DEF Stacks
  <2>2. \A i \in (Len(stack) + 2)..Len(stack') : stack'[i].is # "frame"
    <3> SUFFICES ASSUME NEW i \in (Len(stack) + 2)..Len(stack') PROVE stack'[i].is # "frame"
      OBVIOUS
    <3>1. i = Len(stack) + 2 /\ Code(v) = 1
      BY <1>6, <2>1
    <3> QED
      BY <1>6, <3>1
  <2>3. Len(stack') > Len(stack)
    BY <1>6, <2>1
  <2>4. /\ FrameIndices(stack') = FrameIndices(stack) \cup {Len(stack) + 1}
        /\ Len(stack) + 1 \notin FrameIndices(stack)
    BY <1>1, <1>2, <1>6, <2>2, <2>3, FrameAdded
  <2>5. /\ IsFiniteSet(FrameIndices(stack'))
        /\ Cardinality(FrameIndices(stack')) = Cardinality(FrameIndices(stack)) + 1
    BY <2>4, CountAdded DEF InterruptsInv, CountInv
  <2> QED
    BY <1>4, <2>5 DEF InterruptsInv, CountInv
<1> QED
  BY <1>1, <1>4, <1>5, <1>6, <1>7, <1>8

LEMMA ExceptionStep ==
  ASSUME InterruptsInv, NEW v \in Exceptions, Exception(v) PROVE InterruptsInv'
<1>1. v \in Int /\ ~IsIrq(v)
  <2>1. v \in Panics \cup Stubs
    BY ExceptionsAssumption
  <2> QED
    BY <2>1 DEF Panics, Stubs, IsIrq
<1>2. Enter(v) /\ cpu.inta = "nobody" /\ pic' = pic
  BY DEF Exception, Going
<1>3. /\ Len(run') = Len(run) + 1 /\ Len(run) \in Nat /\ Len(run) >= 1
      /\ run'[Len(run) + 1] = [vector |-> v, step |-> "push", n |-> 1]
      /\ \A k \in 1..Len(run) : run'[k] = run[k]
      /\ cpu' \in [if : BOOLEAN, inta : {"nobody", "PIC0", "PIC1"}] /\ cpu'.inta = "nobody"
      /\ run' \in Runs /\ stack' \in Stacks /\ regs' \in RegFiles
  BY <1>1, <1>2, EnterKeeps
<1>4. RunInv' /\ StackInv' /\ CountInv' /\ FlagInv' /\ HandlersDoNotNest'
  BY <1>1, <1>2, EnterKeeps
<1>5. left' \in [requests : Int, exceptions : Int]
  BY DEF Exception, InterruptsInv, Types
<1>6. Types'
  BY <1>2, <1>3, <1>5 DEF Types, InterruptsInv, Runs, Stacks
<1>7. run'[1] = run[1] /\ run \in Runs
  BY <1>3 DEF InterruptsInv, Types, Runs
<1>8. \A line \in (0..15) \ {2, 7} : Handling(line) => Handling(line)'
  <2>1. DOMAIN run = 1..Len(run) /\ DOMAIN run' = 1..(Len(run) + 1)
    BY <1>3, <1>7 DEF Runs
  <2>2. \A k \in 1..Len(run) : k \in 1..(Len(run) + 1)
    BY <1>3
  <2> QED
    BY <1>3, <2>1, <2>2 DEF Handling
<1>9. \A k \in 2..Len(run') : run'[k].step = "eoi" /\ run'[k].n = 2 =>
        k \in 2..Len(run) /\ run[k].step = "eoi" /\ run[k].n = 2
  <2> SUFFICES ASSUME NEW k \in 2..(Len(run) + 1), run'[k].step = "eoi"
               PROVE  k \in 2..Len(run) /\ run'[k] = run[k]
    BY <1>3
  <2>1. k # Len(run) + 1
    BY <1>3
  <2> QED
    BY <1>3, <2>1
<1>10. SetupInv' /\ ServiceInv' /\ InServiceIsHandled'
  BY <1>2, <1>3, <1>7, <1>8, <1>9, ServiceKept DEF InterruptsInv
<1> QED
  BY <1>4, <1>6, <1>10 DEF InterruptsInv

(* With interrupts enabled no handler of a line is active. *)
LEMMA NobodyHandles ==
  ASSUME InterruptsInv, cpu.if
  PROVE  /\ run[1].step = "show" /\ Len(run) \in Nat /\ Len(run) >= 1
         /\ \A k \in 1..Len(run) : ~IsIrq(run[k].vector)
         /\ \A k \in 2..Len(run) : run[k].step # "eoi"
         /\ pic["PIC1"].isr = {} /\ pic["PIC0"].isr \subseteq {2, 7}
         /\ 2 \in pic["PIC0"].isr => cpu.inta = "PIC1"
         /\ pic["PIC0"].offset = 32 /\ pic["PIC1"].offset = 40
<1>1. /\ Len(run) \in Nat /\ Len(run) >= 1 /\ DOMAIN run = 1..Len(run)
      /\ run[1].step \in ThreadSteps
  BY DEF InterruptsInv, Types, RunInv, RunOf
<1>2. \A k \in 1..Len(run) : ~Masked(run[k])
  BY DEF InterruptsInv, StackInv, StackOf
<1>3. run[1].step = "show"
  BY <1>1, <1>2 DEF Masked, ThreadSteps
<1>4. \A k \in 1..Len(run) : ~IsIrq(run[k].vector)
  BY <1>2 DEF Masked
<1>5. \A line \in 0..15 : ~Handling(line)
  BY <1>1, <1>4 DEF Handling, IsIrq
<1>6. pic["PIC0"].isr \in SUBSET (0..7) /\ pic["PIC1"].isr \in SUBSET (0..7)
  <2>1. pic["PIC0"] \in ChipStates /\ pic["PIC1"] \in ChipStates
    BY DEF InterruptsInv, Types, Chips
  <2> QED
    BY <2>1, ChipFields
<1>7. /\ \A i \in pic["PIC0"].isr : i \in {2, 7} \/ Handling(i)
      /\ \A i \in pic["PIC1"].isr : Handling(8 + i)
      /\ 2 \in pic["PIC0"].isr => cpu.inta = "PIC1" \/ \E line \in 8..15 : Handling(line)
  BY <1>3 DEF InterruptsInv, InServiceIsHandled
<1>8. pic["PIC1"].isr = {} /\ pic["PIC0"].isr \subseteq {2, 7}
  <2>1. \A i \in 0..7 : 8 + i \in 0..15 /\ i \in 0..15
    OBVIOUS
  <2> QED
    BY <1>5, <1>6, <1>7, <2>1
<1>9. 2 \in pic["PIC0"].isr => cpu.inta = "PIC1"
  <2>1. \A line \in 8..15 : line \in 0..15
    OBVIOUS
  <2> QED
    BY <1>5, <1>7, <2>1
<1>10. pic["PIC0"].offset = 32 /\ pic["PIC1"].offset = 40
  BY <1>3 DEF InterruptsInv, ServiceInv
<1>11. \A k \in 2..Len(run) : run[k].step # "eoi"
  <2>1. \A k \in 2..Len(run) : k \in 1..Len(run)
    BY <1>1
  <2> QED
    BY <1>4, <2>1 DEF InterruptsInv, RunInv, RunOf
<1> QED
  BY <1>1, <1>3, <1>4, <1>8, <1>9, <1>10, <1>11

LEMMA AcceptStep ==
  ASSUME InterruptsInv, AcceptInterrupt PROVE InterruptsInv'
<1>1. /\ cpu.if /\ cpu.inta = "nobody" /\ UNCHANGED <<pic, run, stack, regs, left>>
      /\ cpu' = [cpu EXCEPT !.inta = "PIC0"]
  BY DEF AcceptInterrupt, Going
<1>2. /\ cpu' \in [if : BOOLEAN, inta : {"nobody", "PIC0", "PIC1"}] /\ cpu'.inta = "PIC0"
      /\ cpu'.if = cpu.if
  BY <1>1 DEF InterruptsInv, Types
<1>3. Types' /\ RunInv' /\ StackInv' /\ CountInv' /\ HandlersDoNotNest' /\ SetupInv' /\ ServiceInv'
  BY <1>1, <1>2 DEF InterruptsInv, Types, RunInv, StackInv, CountInv, HandlersDoNotNest,
                    SetupInv, ServiceInv
<1>4. FlagInv'
  BY <1>1, <1>2 DEF FlagInv
<1>5. InServiceIsHandled'
  <2>1. pic["PIC1"].isr = {} /\ pic["PIC0"].isr \subseteq {2, 7} /\ 2 \notin pic["PIC0"].isr
    BY <1>1, NobodyHandles
  <2> QED
    BY <1>1, <2>1 DEF InServiceIsHandled
<1> QED
  BY <1>3, <1>4, <1>5 DEF InterruptsInv

(* The routine of a line is entered: the chips that answered are c, and    *)
(* what they have in service is the line, and input 2 or 7 of PIC0.        *)
LEMMA LineEntered ==
  ASSUME InterruptsInv, cpu.if, NEW line \in 0..15, Enter(32 + line), left' = left,
         pic' \in [Chips -> ChipStates],
         \A c \in Chips : pic'[c].expects = pic[c].expects /\ pic'[c].offset = pic[c].offset,
         pic'["PIC0"].isr \subseteq {2, 7, line}, pic'["PIC1"].isr \subseteq {line - 8},
         2 \in pic'["PIC0"].isr => line \in 8..15
  PROVE  InterruptsInv'
<1> DEFINE v == 32 + line
<1>1. v \in Int /\ \A k \in 1..Len(run) : ~IsIrq(run[k].vector)
  BY NobodyHandles
<1>2. /\ Len(run') = Len(run) + 1 /\ Len(run) \in Nat /\ Len(run) >= 1
      /\ run'[Len(run) + 1] = [vector |-> v, step |-> "push", n |-> 1]
      /\ \A k \in 1..Len(run) : run'[k] = run[k]
      /\ cpu' \in [if : BOOLEAN, inta : {"nobody", "PIC0", "PIC1"}] /\ cpu'.inta = "nobody"
      /\ run' \in Runs /\ stack' \in Stacks /\ regs' \in RegFiles
  BY <1>1, EnterKeeps
<1>3. RunInv' /\ StackInv' /\ CountInv' /\ FlagInv' /\ HandlersDoNotNest'
  BY <1>1, EnterKeeps
<1>4. Types'
  BY <1>2 DEF Types, InterruptsInv, Runs, Stacks
<1>5. run'[1].step = "show" /\ \A k \in 2..Len(run') : run'[k].step # "eoi"
  <2>1. 1 \in 1..Len(run)
    BY <1>2
  <2>2. ASSUME NEW k \in 2..(Len(run) + 1) PROVE run'[k].step # "eoi"
    <3>1. CASE k = Len(run) + 1
      BY <1>2, <3>1
    <3>2. CASE k # Len(run) + 1
      <4>1. k \in 1..Len(run) /\ k \in 2..Len(run)
        BY <1>2, <3>2
      <4> QED
        BY <1>2, <4>1, NobodyHandles
    <3> QED
      BY <3>1, <3>2
  <2> QED
    BY <1>2, <2>1, <2>2, NobodyHandles
<1>6. SetupInv' /\ ServiceInv'
  <2>1. pic'["PIC0"].offset = 32 /\ pic'["PIC1"].offset = 40
    BY NobodyHandles DEF Chips
  <2> QED
    BY <1>5, <2>1 DEF SetupInv, ServiceInv
<1>7. Handling(line)'
  <2>1. Len(run) + 1 \in DOMAIN run'
    BY <1>2 DEF Runs
  <2> QED
    BY <1>2, <2>1 DEF Handling
<1>8. InServiceIsHandled'
  <2>1. \A i \in pic'["PIC0"].isr : i \in {2, 7} \/ Handling(i)'
    BY <1>7
  <2>2. \A i \in pic'["PIC1"].isr : Handling(8 + i)'
    <3>1. \A i \in pic'["PIC1"].isr : 8 + i = line
      OBVIOUS
    <3> QED
      BY <1>7, <3>1
  <2>3. 2 \in pic'["PIC0"].isr => \E l \in 8..15 : Handling(l)'
    BY <1>7
  <2> QED
    BY <2>1, <2>2, <2>3 DEF InServiceIsHandled, Handling
<1> QED
  BY <1>3, <1>4, <1>6, <1>8 DEF InterruptsInv

LEMMA AcknowledgePIC0Step ==
  ASSUME InterruptsInv, AcknowledgePIC0 PROVE InterruptsInv'
<1> DEFINE L == Answer(Urgent0)
           x == Taken("PIC0", Urgent0)
<1>1. /\ cpu.inta = "PIC0" /\ cpu.if /\ pic' = [pic EXCEPT !["PIC0"] = x] /\ left' = left
      /\ Types /\ "PIC0" \in Chips /\ "PIC1" \in Chips
  BY DEF AcknowledgePIC0, InterruptsInv, FlagInv, Chips
<1>2. /\ L \in 0..7 /\ x \in ChipStates /\ x.expects = pic["PIC0"].expects
      /\ x.offset = pic["PIC0"].offset /\ x.isr \subseteq pic["PIC0"].isr \cup {L}
  BY <1>1, UrgentType, Answers
<1> HIDE DEF x
<1>3. pic' \in [Chips -> ChipStates] /\ pic'["PIC0"] = x /\ pic'["PIC1"] = pic["PIC1"]
  BY <1>1, <1>2, ChipWritten
<1>4. \A c \in Chips : pic'[c].expects = pic[c].expects /\ pic'[c].offset = pic[c].offset
  BY <1>2, <1>3 DEF Chips
<1>5. pic'["PIC0"].isr \subseteq {7, L} /\ pic'["PIC1"].isr = {}
  BY <1>1, <1>2, <1>3, NobodyHandles
<1>6. CASE L = 2
  <2>1. cpu' = [cpu EXCEPT !.inta = "PIC1"] /\ UNCHANGED <<run, stack, regs>>
    BY <1>6 DEF AcknowledgePIC0
  <2>2. /\ cpu' \in [if : BOOLEAN, inta : {"nobody", "PIC0", "PIC1"}] /\ cpu'.inta = "PIC1"
        /\ cpu'.if = cpu.if
    BY <1>1, <2>1 DEF Types
  <2>3. Types' /\ RunInv' /\ StackInv' /\ CountInv' /\ HandlersDoNotNest' /\ FlagInv'
    BY <1>1, <1>3, <2>1, <2>2 DEF InterruptsInv, Types, RunInv, StackInv, CountInv,
                                  HandlersDoNotNest, FlagInv
  <2>4. run'[1].step = "show" /\ pic'["PIC0"].offset = 32 /\ pic'["PIC1"].offset = 40
    BY <1>1, <1>4, <2>1, NobodyHandles
  <2>5. \A k \in 2..Len(run') : run'[k].step # "eoi"
    BY <1>1, <2>1, NobodyHandles
  <2>6. SetupInv' /\ ServiceInv'
    BY <2>4, <2>5 DEF SetupInv, ServiceInv
  <2>7. InServiceIsHandled'
    BY <1>5, <1>6, <2>2 DEF InServiceIsHandled
  <2> QED
    BY <2>3, <2>6, <2>7 DEF InterruptsInv
<1>7. CASE L # 2
  <2>1. Enter(32 + L)
    <3>1. pic["PIC0"].offset = 32
      BY <1>1, NobodyHandles
    <3> QED
      BY <1>7, <3>1 DEF AcknowledgePIC0
  <2>2. L \in 0..15 /\ 2 \notin pic'["PIC0"].isr
    BY <1>2, <1>5, <1>7
  <2>3. pic'["PIC0"].isr \subseteq {2, 7, L} /\ pic'["PIC1"].isr \subseteq {L - 8}
    BY <1>5
  <2> HIDE DEF L
  <2> QED
    BY <1>1, <1>3, <1>4, <2>1, <2>2, <2>3, LineEntered
<1> QED
  BY <1>6, <1>7

LEMMA AcknowledgePIC1Step ==
  ASSUME InterruptsInv, AcknowledgePIC1 PROVE InterruptsInv'
<1> DEFINE L == Answer(Urgent1)
           x == Taken("PIC1", Urgent1)
           line == 8 + L
<1>1. /\ cpu.inta = "PIC1" /\ cpu.if /\ pic' = [pic EXCEPT !["PIC1"] = x] /\ left' = left
      /\ Types /\ "PIC0" \in Chips /\ "PIC1" \in Chips
  BY DEF AcknowledgePIC1, InterruptsInv, FlagInv, Chips
<1>2. /\ L \in 0..7 /\ x \in ChipStates /\ x.expects = pic["PIC1"].expects
      /\ x.offset = pic["PIC1"].offset /\ x.isr \subseteq pic["PIC1"].isr \cup {L}
  BY <1>1, UrgentType, Answers
<1> HIDE DEF x
<1>3. pic' \in [Chips -> ChipStates] /\ pic'["PIC1"] = x /\ pic'["PIC0"] = pic["PIC0"]
  BY <1>1, <1>2, ChipWritten
<1>4. \A c \in Chips : pic'[c].expects = pic[c].expects /\ pic'[c].offset = pic[c].offset
  BY <1>2, <1>3 DEF Chips
<1>5. pic'["PIC0"].isr \subseteq {2, 7} /\ pic'["PIC1"].isr \subseteq {L}
  BY <1>1, <1>2, <1>3, NobodyHandles
<1>6. Enter(40 + L)
  <2>1. pic["PIC1"].offset = 40
    BY <1>1, NobodyHandles
  <2> QED
    BY <2>1 DEF AcknowledgePIC1
<1> HIDE DEF L
<1>7. line \in 0..15 /\ line \in 8..15 /\ 40 + L = 32 + line /\ line - 8 = L
  BY <1>2
<1>8. pic'["PIC0"].isr \subseteq {2, 7, line} /\ pic'["PIC1"].isr \subseteq {line - 8}
  BY <1>5, <1>7
<1>9. Enter(32 + line)
  BY <1>6, <1>7
<1> HIDE DEF line
<1> QED
  BY <1>1, <1>3, <1>4, <1>7, <1>8, <1>9, LineEntered

-----------------------------------------------------------------------------
(* The steps of a service routine. *)

WithStep(a, step) == [a EXCEPT !.step = step]

LEMMA AtRoutine ==
  ASSUME InterruptsInv, run[Len(run)].step \in RoutineSteps
  PROVE  /\ run \in Runs /\ Len(run) \in Nat /\ Len(run) >= 2 /\ Len(run) >= 1
         /\ Len(run) \in 1..Len(run) /\ Len(run) \in 2..Len(run) /\ Len(run) # 1
         /\ run[Len(run)] \in Activations
         /\ RoutineOk(run[Len(run)])
<1>1. run \in Runs /\ Len(run) \in Nat /\ Len(run) >= 1
  BY DEF InterruptsInv, Types, RunInv, RunOf, Runs
<1>2. Len(run) # 1
  BY DEF InterruptsInv, RunInv, RunOf, ThreadSteps, RoutineSteps, Unsaved
<1>3. Len(run) >= 2 /\ Len(run) \in 1..Len(run) /\ Len(run) \in 2..Len(run)
  <2>1. Len(run) >= 2
    BY <1>1, <1>2
  <2> QED
    BY <1>1, <2>1, AtLeastTwo
<1>4. run[Len(run)] \in Activations
  BY <1>1, <1>3 DEF Runs
<1>5. RoutineOk(run[Len(run)])
  BY <1>3 DEF InterruptsInv, RunInv, RunOf, RoutineOk
<1> QED
  BY <1>1, <1>2, <1>3, <1>4, <1>5

LEMMA StepSetsTop ==
  ASSUME NEW r \in Runs, Len(r) >= 1, NEW step \in ThreadSteps \cup RoutineSteps
  PROVE  /\ [r EXCEPT ![Len(r)].step = step] = SetTop(r, WithStep(r[Len(r)], step))
         /\ WithStep(r[Len(r)], step) \in Activations
         /\ WithStep(r[Len(r)], step).vector = r[Len(r)].vector
         /\ WithStep(r[Len(r)], step).step = step
         /\ WithStep(r[Len(r)], step).n = r[Len(r)].n
<1>1. Len(r) \in Nat /\ Len(r) \in 1..Len(r) /\ DOMAIN r = 1..Len(r)
  BY DEF Runs
<1>2. r[Len(r)] \in Activations
  BY <1>1 DEF Runs
<1>3. [r EXCEPT ![Len(r)].step = step] = SetTop(r, WithStep(r[Len(r)], step))
  BY <1>1 DEF SetTop, WithStep
<1> QED
  BY <1>2, <1>3 DEF WithStep, Activations

LEMMA TopService ==
  ASSUME InterruptsInv, Len(run) \in Nat, Len(run) >= 2, run' \in Runs, Len(run') = Len(run),
         NEW b, b.vector = run[Len(run)].vector, run'[Len(run)] = b,
         \A k \in 1..Len(run) : k # Len(run) => run'[k] = run[k],
         pic' = pic, cpu'.inta = cpu.inta, b.step = "eoi" => b.n # 2,
         /\ run[Len(run)].step \in {"push", "call", "eoi"}
         /\ IsIrq(run[Len(run)].vector) /\ run[Len(run)].vector \notin {34, 39}
         => b.step \in {"push", "call", "eoi"}
  PROVE  SetupInv' /\ ServiceInv' /\ InServiceIsHandled'
<1>1. run'[1] = run[1]
  <2>1. 1 \in 1..Len(run) /\ 1 # Len(run)
    OBVIOUS
  <2> QED
    BY <2>1
<1>2. \A k \in 2..Len(run') : run'[k].step = "eoi" /\ run'[k].n = 2 =>
        k \in 2..Len(run) /\ run[k].step = "eoi" /\ run[k].n = 2
  <2> SUFFICES ASSUME NEW k \in 2..Len(run), run'[k].step = "eoi", run'[k].n = 2
               PROVE  run'[k] = run[k]
    OBVIOUS
  <2>1. k # Len(run) /\ k \in 1..Len(run)
    OBVIOUS
  <2> QED
    BY <2>1
<1>3. ASSUME NEW line \in (0..15) \ {2, 7}, Handling(line) PROVE Handling(line)'
  <2>1. DOMAIN run = 1..Len(run) /\ DOMAIN run' = 1..Len(run)
    BY DEF InterruptsInv, Types, Runs
  <2>2. PICK i \in 1..Len(run) :
          run[i].vector = 32 + line /\ run[i].step \in {"push", "call", "eoi"}
    BY <1>3, <2>1 DEF Handling
  <2>3. run'[i].vector = 32 + line /\ run'[i].step \in {"push", "call", "eoi"}
    <3>1. CASE i # Len(run)
      BY <2>2, <3>1
    <3>2. CASE i = Len(run)
      <4>1. IsIrq(run[Len(run)].vector) /\ run[Len(run)].vector \notin {34, 39}
        <5>1. line \in 0..15 /\ line \notin {2, 7}
          OBVIOUS
        <5> QED
          BY <2>2, <3>2, <5>1, LineFacts, Zenon
      <4> QED
        BY <2>2, <3>2, <4>1
    <3> QED
      BY <3>1, <3>2
  <2> QED
    BY <2>1, <2>3 DEF Handling
<1> QED
  BY <1>1, <1>2, <1>3, ServiceKept DEF InterruptsInv

(* The activation on top goes on and leaves the stack alone. *)
LEMMA RoutineMoves ==
  ASSUME InterruptsInv, NEW b \in Activations, run' = SetTop(run, b),
         run[Len(run)].step \in RoutineSteps \ Unsaved, b.step \notin Unsaved,
         b.vector = run[Len(run)].vector, RoutineOk(b),
         stack' = stack, cpu' \in [if : BOOLEAN, inta : {"nobody", "PIC0", "PIC1"}],
         cpu'.inta = "nobody", cpu.inta = "nobody", cpu'.if => cpu.if, Masked(b) => ~cpu'.if,
         left' = left, regs' \in RegFiles, pic' \in [Chips -> ChipStates]
  PROVE  /\ Types' /\ RunInv' /\ StackInv' /\ CountInv' /\ FlagInv' /\ HandlersDoNotNest'
         /\ run' \in Runs /\ Len(run') = Len(run) /\ run'[Len(run)] = b
         /\ \A k \in 1..Len(run) : k # Len(run) => run'[k] = run[k]
<1>1. /\ run \in Runs /\ Len(run) >= 1 /\ Len(run) # 1
  BY AtRoutine
<1>2. /\ run' \in Runs /\ Len(run') = Len(run) /\ run'[Len(run)] = b
      /\ \A k \in 1..Len(run) : k # Len(run) => run'[k] = run[k]
      /\ RunInv' /\ HandlersDoNotNest'
  BY <1>1, TopStep DEF InterruptsInv
<1>3. Types'
  BY <1>2 DEF InterruptsInv, Types, Runs
<1>4. StackInv'
  <2>1. PICK pos : StackOf(stack, run, regs, cpu.if, pos)
    BY DEF InterruptsInv, StackInv
  <2>2. stack \in Stacks /\ cpu.if \in BOOLEAN /\ cpu'.if \in BOOLEAN
    BY DEF InterruptsInv, Types, Stacks
  <2>3. StackOf(stack, SetTop(run, b), regs', cpu'.if, pos)
    BY <1>1, <2>1, <2>2, TopMoves
  <2> QED
    BY <2>3 DEF StackInv
<1>5. CountInv' /\ FlagInv'
  BY <1>2 DEF InterruptsInv, CountInv, FlagInv
<1> QED
  BY <1>2, <1>3, <1>4, <1>5

LEMMA MaskedIsDisabled ==
  ASSUME InterruptsInv, NEW k \in 1..Len(run), Masked(run[k]) PROVE ~cpu.if
BY DEF InterruptsInv, StackInv, StackOf

LEMMA CallHandlerStep ==
  ASSUME InterruptsInv, CallHandler PROVE InterruptsInv'
<1> DEFINE top == run[Len(run)]
           step == IF top.vector \in Panics THEN "cli"
                   ELSE IF IsIrq(top.vector) /\ SendsEoi(LineOf(top.vector)) THEN "eoi" ELSE "pop"
           b == WithStep(top, step)
<1>1. /\ cpu.inta = "nobody" /\ top.step = "call" /\ UNCHANGED <<pic, cpu, stack, left>>
      /\ run' = [run EXCEPT ![Len(run)].step = step] /\ Clobber
  BY DEF CallHandler, At, Going, Current, Depth, Step
<1>2. "call" \in RoutineSteps \ Unsaved /\ step \in {"cli", "eoi", "pop"}
  BY DEF RoutineSteps, Unsaved
<1>3. /\ run \in Runs /\ Len(run) \in Nat /\ Len(run) >= 2 /\ Len(run) >= 1
      /\ Len(run) \in 1..Len(run) /\ top \in Activations /\ RoutineOk(top)
  BY <1>1, <1>2, AtRoutine
<1> HIDE DEF step
<1>4. step \in ThreadSteps \cup RoutineSteps /\ step \in RoutineSteps /\ step \notin Unsaved
  BY <1>2 DEF RoutineSteps, Unsaved
<1>5. /\ run' = SetTop(run, b) /\ b \in Activations /\ b.vector = top.vector /\ b.step = step
      /\ b.n = top.n
  BY <1>1, <1>3, <1>4, StepSetsTop
<1> HIDE DEF b, top
<1>6. top.n = 1
  BY <1>1, <1>3 DEF RoutineOk
<1>7. RoutineOk(b)
  <2>1. b.step \in RoutineSteps /\ b.step \notin {"push", "call"}
    BY <1>2, <1>4, <1>5
  <2>2. b.step = "eoi" => IsIrq(b.vector)
    BY <1>5 DEF step
  <2>3. 1 \in 1..Len(EoiChips(LineOf(b.vector)))
    BY DEF EoiChips
  <2> QED
    BY <1>5, <1>6, <2>1, <2>2, <2>3 DEF RoutineOk
<1>8. Masked(b) => ~cpu'.if
  <2>1. Masked(b) => Masked(top)
    BY <1>2, <1>5 DEF Masked
  <2> QED
    BY <1>1, <1>3, <2>1, MaskedIsDisabled DEF top
<1>9. /\ cpu' \in [if : BOOLEAN, inta : {"nobody", "PIC0", "PIC1"}] /\ cpu' = cpu
      /\ regs' \in RegFiles /\ pic' \in [Chips -> ChipStates] /\ pic' = pic
  <2>1. regs \in [Registers -> Int] /\ Depth \in Int
    BY <1>3 DEF InterruptsInv, Types, RegFiles, Depth
  <2>2. regs' \in RegFiles
    BY <1>1, <2>1 DEF Clobber, RegFiles
  <2> QED
    BY <1>1, <2>2 DEF InterruptsInv, Types
<1>10. /\ Types' /\ RunInv' /\ StackInv' /\ CountInv' /\ FlagInv' /\ HandlersDoNotNest'
       /\ run' \in Runs /\ Len(run') = Len(run) /\ run'[Len(run)] = b
       /\ \A k \in 1..Len(run) : k # Len(run) => run'[k] = run[k]
  BY <1>1, <1>2, <1>4, <1>5, <1>7, <1>8, <1>9, RoutineMoves DEF top
<1>11. SetupInv' /\ ServiceInv' /\ InServiceIsHandled'
  <2>1. IsIrq(top.vector) /\ top.vector \notin {34, 39} => b.step \in {"push", "call", "eoi"}
    <3>1. IsIrq(top.vector) => top.vector \notin Panics
      BY DEF IsIrq, Panics
    <3>2. IsIrq(top.vector) /\ top.vector \notin {34, 39} => SendsEoi(LineOf(top.vector))
      BY DEF IsIrq, SendsEoi, LineOf
    <3> QED
      BY <1>5, <3>1, <3>2 DEF step
  <2>2. b.step = "eoi" => b.n # 2
    BY <1>5, <1>6
  <2> QED
    BY <1>3, <1>5, <1>9, <1>10, <2>1, <2>2, TopService DEF top
<1> QED
  BY <1>10, <1>11 DEF InterruptsInv

LEMMA PanicStep ==
  ASSUME InterruptsInv, PanicDisablesInterrupts \/ PanicPrints PROVE InterruptsInv'
<1> DEFINE top == run[Len(run)]
<1>1. PICK step \in {"print", "halt"} :
        /\ run' = [run EXCEPT ![Len(run)].step = step]
        /\ top.step = IF step = "print" THEN "cli" ELSE "print"
        /\ cpu' = [cpu EXCEPT !.if = IF step = "print" THEN FALSE ELSE @]
  <2>1. CASE PanicDisablesInterrupts
    BY <2>1 DEF PanicDisablesInterrupts, At, Current, Depth, Step
  <2>2. CASE PanicPrints
    <3>1. cpu' = [cpu EXCEPT !.if = cpu.if]
      BY <2>2 DEF PanicPrints, InterruptsInv, Types
    <3> QED
      BY <2>2, <3>1 DEF PanicPrints, At, Current, Depth, Step
  <2> QED
    BY <2>1, <2>2
<1>2. cpu.inta = "nobody" /\ UNCHANGED <<pic, stack, regs, left>>
  BY DEF PanicDisablesInterrupts, PanicPrints, At, Going
<1> DEFINE b == WithStep(top, step)
<1>3. top.step \in RoutineSteps \ Unsaved /\ top.step \notin {"push", "call", "eoi"}
  BY <1>1 DEF RoutineSteps, Unsaved
<1>4. /\ run \in Runs /\ Len(run) \in Nat /\ Len(run) >= 2 /\ Len(run) >= 1
      /\ Len(run) \in 1..Len(run) /\ top \in Activations /\ RoutineOk(top)
  BY <1>3, AtRoutine
<1>5. step \in ThreadSteps \cup RoutineSteps /\ step \in RoutineSteps /\ step \notin Unsaved
  BY <1>1 DEF RoutineSteps, Unsaved
<1>6. /\ run' = SetTop(run, b) /\ b \in Activations /\ b.vector = top.vector /\ b.step = step
  BY <1>1, <1>4, <1>5, StepSetsTop
<1> HIDE DEF b, top
<1>7. RoutineOk(b) /\ b.step # "eoi"
  BY <1>1, <1>5, <1>6 DEF RoutineOk
<1>8. /\ cpu' \in [if : BOOLEAN, inta : {"nobody", "PIC0", "PIC1"}] /\ cpu'.inta = cpu.inta
      /\ ~cpu'.if
  <2>1. cpu \in [if : BOOLEAN, inta : {"nobody", "PIC0", "PIC1"}]
    BY DEF InterruptsInv, Types
  <2>2. CASE step = "print"
    BY <1>1, <2>1, <2>2
  <2>3. CASE step = "halt"
    <3>1. Masked(run[Len(run)])
      BY <1>1, <2>3 DEF Masked, top
    <3>2. ~cpu.if
      BY <1>4, <3>1, MaskedIsDisabled
    <3> QED
      BY <1>1, <2>1, <2>3, <3>2
  <2> QED
    BY <1>1, <2>2, <2>3
<1>9. regs' \in RegFiles /\ pic' \in [Chips -> ChipStates] /\ pic' = pic
  BY <1>2 DEF InterruptsInv, Types
<1>10. /\ Types' /\ RunInv' /\ StackInv' /\ CountInv' /\ FlagInv' /\ HandlersDoNotNest'
       /\ run' \in Runs /\ Len(run') = Len(run) /\ run'[Len(run)] = b
       /\ \A k \in 1..Len(run) : k # Len(run) => run'[k] = run[k]
  BY <1>2, <1>3, <1>5, <1>6, <1>7, <1>8, <1>9, RoutineMoves DEF top
<1>11. SetupInv' /\ ServiceInv' /\ InServiceIsHandled'
  BY <1>3, <1>4, <1>6, <1>7, <1>8, <1>9, <1>10, TopService DEF top
<1> QED
  BY <1>10, <1>11 DEF InterruptsInv

(* The EOI of the line that is handled ends its own interrupt. *)
LEMMA EoiEnds ==
  ASSUME InterruptsInv, run[1].step # "pic", cpu.inta = "nobody",
         NEW k \in 1..Len(run), NEW line \in 0..15, run[k].vector = 32 + line
  PROVE  /\ pic["PIC1"].isr \subseteq {line - 8}
         /\ pic["PIC0"].isr \subseteq {2, 7, line}
         /\ 2 \in pic["PIC0"].isr => line \in 8..15
<1>1. DOMAIN run = 1..Len(run)
  BY DEF InterruptsInv, Types
<1>2. ASSUME NEW l \in 0..15, Handling(l) PROVE l = line
  <2>1. PICK i \in 1..Len(run) : run[i].vector = 32 + l
    BY <1>1, <1>2 DEF Handling
  <2>2. IsIrq(run[i].vector) /\ IsIrq(run[k].vector)
    <3>1. IsIrq(32 + l) /\ IsIrq(32 + line)
      BY <1>2, LineFacts, Zenon
    <3>2. run[i].vector = 32 + l /\ run[k].vector = 32 + line
      BY <2>1, Zenon
    <3> QED
      BY <3>1, <3>2, Zenon
  <2>3. i = k
    BY <1>1, <2>2 DEF InterruptsInv, HandlersDoNotNest
  <2>4. 32 + l = 32 + line
    BY <2>1, <2>3, Zenon
  <2> QED
    BY <1>2, <2>4, LineFacts, Zenon
<1>3. pic["PIC0"].isr \in SUBSET (0..7) /\ pic["PIC1"].isr \in SUBSET (0..7)
  <2>1. pic["PIC0"] \in ChipStates /\ pic["PIC1"] \in ChipStates
    BY DEF InterruptsInv, Types, Chips
  <2> QED
    BY <2>1, ChipFields
<1>4. /\ \A i \in pic["PIC0"].isr : i \in {2, 7} \/ Handling(i)
      /\ \A i \in pic["PIC1"].isr : Handling(8 + i)
      /\ 2 \in pic["PIC0"].isr => \E l \in 8..15 : Handling(l)
  BY DEF InterruptsInv, InServiceIsHandled
<1>5. ASSUME NEW i \in pic["PIC1"].isr PROVE i = line - 8
  <2>0. i \in 0..7
    BY <1>3, <1>5, Zenon
  <2>1. i \in 0..7 /\ 8 + i \in 0..15 /\ Handling(8 + i)
    BY <1>4, <1>5, <2>0, LineFacts, Zenon
  <2>2. 8 + i = line
    BY <1>2, <2>1
  <2> QED
    BY <2>1, <2>2
<1>6. ASSUME NEW i \in pic["PIC0"].isr PROVE i \in {2, 7, line}
  <2>1. i \in 0..15
    BY <1>3
  <2> QED
    BY <1>2, <1>4, <2>1
<1>7. 2 \in pic["PIC0"].isr => line \in 8..15
  <2>1. \A l \in 8..15 : l \in 0..15
    OBVIOUS
  <2> QED
    BY <1>2, <1>4, <2>1
<1> QED
  BY <1>5, <1>6, <1>7

LEMMA LowestGone ==
  ASSUME NEW S \in SUBSET (0..7), NEW m \in 0..6, S \subseteq {m, 7}
  PROVE  (IF S = {} THEN {} ELSE S \ {Lowest(S)}) \subseteq {7}
<1>1. CASE S = {}
  BY <1>1
<1>2. CASE S # {} /\ m \in S
  <2>1. Lowest(S) \in S /\ Lowest(S) <= m
    BY <1>2, LowestIs
  <2>2. Lowest(S) = m \/ Lowest(S) = 7
    BY <2>1
  <2>3. m <= 6 /\ m \in Nat
    OBVIOUS
  <2>4. Lowest(S) = m
    BY <2>1, <2>2, <2>3
  <2> QED
    BY <1>2, <2>4
<1>3. CASE S # {} /\ m \notin S
  BY <1>3
<1> QED
  BY <1>1, <1>2, <1>3

Advance(a, step) == [a EXCEPT !.n = a.n + 1, !.step = step]

LEMMA AdvanceFields ==
  ASSUME NEW a \in Activations, NEW step \in ThreadSteps \cup RoutineSteps
  PROVE  /\ Advance(a, step) \in Activations /\ Advance(a, step).vector = a.vector
         /\ Advance(a, step).step = step /\ Advance(a, step).n = a.n + 1
<1>1. a.n \in Nat /\ a.n + 1 \in Nat
  BY DEF Activations
<1> QED
  BY <1>1 DEF Advance, Activations

LEMMA AdvanceSetsTop ==
  ASSUME NEW r \in Runs, Len(r) >= 1, NEW step \in ThreadSteps \cup RoutineSteps, NEW more,
         step = IF more THEN r[Len(r)].step ELSE step
  PROVE  /\ [r EXCEPT ![Len(r)].n = @ + 1, ![Len(r)].step = IF more THEN @ ELSE step] =
              SetTop(r, Advance(r[Len(r)], step))
         /\ Advance(r[Len(r)], step) \in Activations
         /\ Advance(r[Len(r)], step).vector = r[Len(r)].vector
         /\ Advance(r[Len(r)], step).step = step
         /\ Advance(r[Len(r)], step).n = r[Len(r)].n + 1
<1>1. Len(r) \in DOMAIN r /\ r[Len(r)] \in Activations
  BY DEF Runs
<1>2. [r EXCEPT ![Len(r)].n = @ + 1, ![Len(r)].step = IF more THEN @ ELSE step] =
        SetTop(r, Advance(r[Len(r)], step))
  BY <1>1 DEF SetTop, Advance
<1> QED
  BY <1>1, <1>2, AdvanceFields

LEMMA SendEOIStep ==
  ASSUME InterruptsInv, SendEOI PROVE InterruptsInv'
<1> DEFINE top == run[Len(run)]
           L == top.vector - 32
           chips == EoiChips(L)
           step == IF top.n < Len(chips) THEN "eoi" ELSE "pop"
           b == Advance(top, step)
           c == chips[top.n]
<1>1. /\ cpu.inta = "nobody" /\ top.step = "eoi" /\ UNCHANGED <<cpu, stack, regs, left>>
      /\ ToCommand(c, "EOI")
      /\ run' = [run EXCEPT ![Len(run)].n = @ + 1,
                            ![Len(run)].step = IF top.n < Len(chips) THEN @ ELSE "pop"]
  BY DEF SendEOI, At, Going, Current, Depth, LineOf
<1>2. "eoi" \in RoutineSteps \ Unsaved
  BY DEF RoutineSteps, Unsaved
<1>3. /\ run \in Runs /\ Len(run) \in Nat /\ Len(run) >= 2 /\ Len(run) >= 1 /\ Len(run) # 1
      /\ Len(run) \in 1..Len(run) /\ Len(run) \in 2..Len(run) /\ top \in Activations
      /\ RoutineOk(top)
  BY <1>1, <1>2, AtRoutine
<1>4. step \in ThreadSteps \cup RoutineSteps /\ step \in RoutineSteps \ Unsaved
  BY DEF RoutineSteps, Unsaved
<1>5. PICK more : more = (top.n < Len(chips))
  OBVIOUS
<1>6. /\ run' = SetTop(run, b) /\ b \in Activations /\ b.vector = top.vector /\ b.step = step
      /\ b.n = top.n + 1
  <2>1. step = IF more THEN top.step ELSE step
    BY <1>1, <1>5
  <2>2. run' = [run EXCEPT ![Len(run)].n = @ + 1, ![Len(run)].step = IF more THEN @ ELSE step]
    BY <1>1, <1>5
  <2> HIDE DEF step
  <2> QED
    BY <1>3, <1>4, <2>1, <2>2, AdvanceSetsTop
<1> HIDE DEF step
<1> HIDE DEF b, top
<1>7. PICK line \in 0..15 :
        /\ line = L /\ IsIrq(top.vector) /\ top.n \in 1..Len(chips) /\ top.vector = 32 + line
        /\ chips = EoiChips(line)
  <2>1. IsIrq(top.vector) /\ top.n \in 1..Len(chips)
    BY <1>1, <1>3 DEF RoutineOk, LineOf
  <2> HIDE DEF chips
  <2>2. L \in 0..15 /\ top.vector = 32 + L
    <3>1. LineOf(top.vector) \in 0..15 /\ top.vector = 32 + LineOf(top.vector)
      BY <2>1, LineFacts, Zenon
    <3>2. LineOf(top.vector) = L
      BY DEF LineOf
    <3> QED
      BY <3>1, <3>2, Zenon
  <2>3. chips = EoiChips(L)
    BY DEF chips
  <2> HIDE DEF L
  <2> QED
    BY <2>1, <2>2, <2>3
<1> HIDE DEF L
<1>8. \/ top.n = 1 /\ Len(chips) = 1 /\ c = "PIC0" /\ step = "pop" /\ line \in 0..7
      \/ top.n = 1 /\ Len(chips) = 2 /\ c = "PIC1" /\ step = "eoi" /\ line \in 8..15
      \/ top.n = 2 /\ Len(chips) = 2 /\ c = "PIC0" /\ step = "pop" /\ line \in 8..15
  <2>1. CASE line > 7
    <3>1. Len(chips) = 2 /\ chips[1] = "PIC1" /\ chips[2] = "PIC0" /\ line \in 8..15
      BY <1>7, <2>1 DEF EoiChips
    <3>2. top.n = 1 \/ top.n = 2
      BY <1>7, <3>1
    <3> HIDE DEF chips
    <3>3. CASE top.n = 1
      BY <3>1, <3>3 DEF step
    <3>4. CASE top.n = 2
      BY <3>1, <3>4 DEF step
    <3> QED
      BY <3>2, <3>3, <3>4
  <2>2. CASE ~(line > 7)
    <3>1. Len(chips) = 1 /\ chips[1] = "PIC0" /\ line \in 0..7
      BY <1>7, <2>2 DEF EoiChips
    <3>2. top.n = 1
      BY <1>7, <3>1
    <3> HIDE DEF chips
    <3> QED
      BY <3>1, <3>2 DEF step
  <2> QED
    BY <2>1, <2>2
<1>9. RoutineOk(b)
  <2>1. b.step = "eoi" => b.n \in 1..Len(EoiChips(LineOf(b.vector)))
    <3>1. EoiChips(LineOf(b.vector)) = chips
      BY <1>6 DEF L, LineOf
    <3> HIDE DEF chips
    <3>2. b.step = "eoi" => b.n = 2 /\ Len(chips) = 2
      BY <1>6, <1>8
    <3>3. 2 \in 1..2
      OBVIOUS
    <3> QED
      BY <3>1, <3>2, <3>3, Zenon
  <2> QED
    BY <1>4, <1>6, <1>7, <1>8, <2>1 DEF RoutineOk
<1> HIDE DEF chips
<1>10. c \in Chips /\ pic[c] \in ChipStates
  BY <1>8 DEF InterruptsInv, Types, Chips
<1> DEFINE x == Command(pic[c], "EOI")
<1> HIDE DEF c
<1>11. /\ x \in ChipStates /\ x.expects = pic[c].expects /\ x.offset = pic[c].offset
       /\ x.isr = IF pic[c].isr = {} THEN {} ELSE pic[c].isr \ {Lowest(pic[c].isr)}
  BY <1>10, EoiWritten
<1>12. /\ pic' \in [Chips -> ChipStates] /\ pic'[c] = x
       /\ \A d \in Chips : d # c => pic'[d] = pic[d]
  <2>1. pic' = [pic EXCEPT ![c] = x]
    BY <1>1, <1>10 DEF ToCommand, InterruptsInv, Types
  <2> HIDE DEF x
  <2> QED
    BY <1>10, <1>11, <2>1, ChipWritten DEF InterruptsInv
<1> HIDE DEF x
<1>13. /\ cpu' \in [if : BOOLEAN, inta : {"nobody", "PIC0", "PIC1"}] /\ cpu' = cpu
       /\ regs' \in RegFiles
  BY <1>1 DEF InterruptsInv, Types
<1>14. Masked(b) => ~cpu'.if
  <2>1. Masked(run[Len(run)])
    BY <1>7 DEF Masked, top
  <2> QED
    BY <1>3, <1>13, <2>1, MaskedIsDisabled
<1>15. /\ Types' /\ RunInv' /\ StackInv' /\ CountInv' /\ FlagInv' /\ HandlersDoNotNest'
       /\ run' \in Runs /\ Len(run') = Len(run) /\ run'[Len(run)] = b
       /\ \A k \in 1..Len(run) : k # Len(run) => run'[k] = run[k]
  BY <1>1, <1>2, <1>4, <1>6, <1>9, <1>12, <1>13, <1>14, RoutineMoves DEF top
<1>16. run'[1] = run[1]
  <2>1. 1 \in 1..Len(run)
    BY <1>3
  <2> QED
    BY <1>3, <1>15, <2>1
<1>17. /\ \A d \in Chips : pic'[d].expects = pic[d].expects /\ pic'[d].offset = pic[d].offset
       /\ \A d \in Chips : pic'[d].isr \subseteq pic[d].isr
  BY <1>11, <1>12
<1>18. "PIC0" \in Chips /\ "PIC1" \in Chips
  BY DEF Chips
<1>19. SetupInv'
  <2>1. /\ pic'["PIC0"].expects = pic["PIC0"].expects /\ pic'["PIC0"].offset = pic["PIC0"].offset
        /\ pic'["PIC1"].expects = pic["PIC1"].expects /\ pic'["PIC1"].offset = pic["PIC1"].offset
        /\ pic'["PIC0"].isr \subseteq pic["PIC0"].isr
        /\ pic'["PIC1"].isr \subseteq pic["PIC1"].isr
    BY <1>17, <1>18
  <2>2. pic["PIC0"].isr = {} => pic'["PIC0"].isr = {}
    BY <2>1
  <2>3. pic["PIC1"].isr = {} => pic'["PIC1"].isr = {}
    BY <2>1
  <2> QED
    BY <1>16, <2>1, <2>2, <2>3 DEF InterruptsInv, SetupInv, SetUpTo
<1>20. ServiceInv' /\ InServiceIsHandled'
  <2> SUFFICES ASSUME run[1].step # "pic" PROVE ServiceInv' /\ InServiceIsHandled'
    BY <1>16 DEF ServiceInv, InServiceIsHandled
  <2>1. /\ pic["PIC1"].isr \subseteq {line - 8}
        /\ pic["PIC0"].isr \subseteq {2, 7, line}
        /\ 2 \in pic["PIC0"].isr => line \in 8..15
    BY <1>1, <1>3, <1>7, EoiEnds DEF top
  <2>2. pic["PIC0"].isr \in SUBSET (0..7) /\ pic["PIC1"].isr \in SUBSET (0..7)
    <3>1. pic["PIC0"] \in ChipStates /\ pic["PIC1"] \in ChipStates
      BY <1>18 DEF InterruptsInv, Types
    <3> QED
      BY <3>1, ChipFields
  <2>3. top.n = 2 => pic["PIC1"].isr = {}
    BY <1>1, <1>3 DEF InterruptsInv, ServiceInv, top
  <2>4. pic'["PIC1"].isr = {}
    <3>1. CASE c = "PIC1"
      <4>1. pic["PIC1"].isr = {} \/ pic["PIC1"].isr = {Lowest(pic["PIC1"].isr)}
        <5>1. pic["PIC1"].isr # {} => Lowest(pic["PIC1"].isr) \in pic["PIC1"].isr
          BY <2>2, LowestIs
        <5> QED
          BY <2>1, <5>1
      <4> QED
        BY <1>11, <1>12, <3>1, <4>1
    <3>2. CASE c # "PIC1" /\ line \in 8..15
      <4>1. top.n = 2
        BY <1>8, <3>2
      <4> QED
        BY <1>12, <1>18, <2>3, <3>2, <4>1
    <3>3. CASE c # "PIC1" /\ line \in 0..7
      <4>1. line - 8 \notin 0..7
        BY <3>3
      <4>2. pic["PIC1"].isr = {}
        BY <2>1, <2>2, <4>1
      <4> QED
        BY <1>12, <1>18, <3>3, <4>2
    <3> QED
      BY <1>8, <3>1, <3>2, <3>3
  <2>5. c = "PIC0" => pic'["PIC0"].isr \subseteq {7}
    <3> SUFFICES ASSUME c = "PIC0" PROVE pic'["PIC0"].isr \subseteq {7}
      OBVIOUS
    <3>1. PICK m \in 0..6 : pic["PIC0"].isr \subseteq {m, 7}
      <4>1. CASE line \in 8..15
        <5>1. pic["PIC0"].isr \subseteq {2, 7}
          BY <2>1, <2>2, <4>1
        <5> QED
          BY <5>1
      <4>2. CASE line \in 0..7
        <5>1. pic["PIC0"].isr \subseteq {7, line}
          BY <2>1, <4>2
        <5>2. CASE line = 7
          BY <5>1, <5>2
        <5>3. CASE line # 7
          BY <4>2, <5>1, <5>3
        <5> QED
          BY <5>2, <5>3
      <4> QED
        BY <1>8, <4>1, <4>2
    <3>2. pic'["PIC0"].isr =
            IF pic["PIC0"].isr = {} THEN {} ELSE pic["PIC0"].isr \ {Lowest(pic["PIC0"].isr)}
      BY <1>11, <1>12
    <3> QED
      BY <2>2, <3>1, <3>2, LowestGone
  <2>6. c # "PIC0" => pic'["PIC0"].isr \subseteq {2, 7} /\ Handling(line)' /\ line \in 8..15
    <3> SUFFICES ASSUME c # "PIC0"
                 PROVE  pic'["PIC0"].isr \subseteq {2, 7} /\ Handling(line)' /\ line \in 8..15
      OBVIOUS
    <3>1. step = "eoi" /\ line \in 8..15
      BY <1>8
    <3>2. pic'["PIC0"] = pic["PIC0"]
      BY <1>12, <1>18
    <3>3. Len(run) \in DOMAIN run'
      BY <1>3, <1>15 DEF Runs
    <3>4. run'[Len(run)].vector = 32 + line /\ run'[Len(run)].step = "eoi"
      BY <1>6, <1>7, <1>15, <3>1
    <3>5. Handling(line)'
      BY <3>3, <3>4 DEF Handling
    <3>6. pic["PIC0"].isr \subseteq {2, 7}
      BY <2>1, <2>2, <3>1
    <3> QED
      BY <3>1, <3>2, <3>5, <3>6
  <2>7. ServiceInv'
    <3>1. pic'["PIC0"].offset = 32 /\ pic'["PIC1"].offset = 40
      BY <1>17, <1>18 DEF InterruptsInv, ServiceInv
    <3> QED
      BY <2>4, <3>1 DEF ServiceInv
  <2>8. InServiceIsHandled'
    <3>1. CASE c = "PIC0"
      BY <2>4, <2>5, <3>1 DEF InServiceIsHandled
    <3>2. CASE c # "PIC0"
      <4>1. \E l \in 8..15 : Handling(l)'
        BY <2>6, <3>2
      <4> QED
        BY <2>4, <2>6, <3>2, <4>1 DEF InServiceIsHandled, Handling
    <3> QED
      BY <3>1, <3>2
  <2> QED
    BY <2>7, <2>8
<1> QED
  BY <1>15, <1>19, <1>20 DEF InterruptsInv

(* The registers on the stack. *)
SavedOn(s, g) ==
  s \o [i \in DOMAIN SavedRegisters |-> [is |-> "register", value |-> g[SavedRegisters[i]]]]

LEMMA Concatenated ==
  ASSUME NEW s \in Stacks, NEW u \in Stacks
  PROVE  /\ s \o u \in Stacks /\ Len(s \o u) = Len(s) + Len(u)
         /\ \A i \in 1..Len(s) : (s \o u)[i] = s[i]
         /\ \A i \in 1..Len(u) : (s \o u)[Len(s) + i] = u[i]
BY DEF Stacks

Saved(g) == [i \in 1..7 |-> [is |-> "register", value |-> g[SavedRegisters[i]]]]

LEMMA SavedType ==
  ASSUME NEW g \in RegFiles
  PROVE  /\ Saved(g) \in Stacks /\ Len(Saved(g)) = 7
         /\ \A i \in 1..7 : Saved(g)[i] = [is |-> "register", value |-> g[SavedRegisters[i]]]
<1> DEFINE W == Frames \cup Words
<1>1. ASSUME NEW i \in 1..7 PROVE Saved(g)[i] \in W
  <2>1. g[SavedRegisters[i]] \in Int
    BY SavedFacts DEF RegFiles
  <2> QED
    BY <2>1 DEF Words, Saved
<1> HIDE DEF W
<1>2. Saved(g) \in Seq(W) /\ Len(Saved(g)) = 7
  BY <1>1 DEF Saved
<1> QED
  BY <1>2 DEF Stacks, W, Saved

LEMMA RegistersPushed ==
  ASSUME NEW s \in Stacks, NEW g \in RegFiles
  PROVE  /\ SavedOn(s, g) \in Stacks /\ Len(SavedOn(s, g)) = Len(s) + 7
         /\ \A i \in 1..Len(s) : SavedOn(s, g)[i] = s[i]
         /\ \A i \in 1..7 : SavedOn(s, g)[Len(s) + i] =
              [is |-> "register", value |-> g[SavedRegisters[i]]]
<1>1. SavedOn(s, g) = s \o Saved(g)
  BY SavedFacts DEF SavedOn, Saved
<1>2. /\ Saved(g) \in Stacks /\ Len(Saved(g)) = 7
      /\ \A i \in 1..7 : Saved(g)[i] = [is |-> "register", value |-> g[SavedRegisters[i]]]
  BY SavedType
<1>3. /\ s \o Saved(g) \in Stacks /\ Len(s \o Saved(g)) = Len(s) + Len(Saved(g))
      /\ \A i \in 1..Len(s) : (s \o Saved(g))[i] = s[i]
      /\ \A i \in 1..Len(Saved(g)) : (s \o Saved(g))[Len(s) + i] = Saved(g)[i]
  BY <1>2, Concatenated
<1> QED
  BY <1>1, <1>2, <1>3

LEMMA RoutineChanges ==
  ASSUME InterruptsInv, NEW pos, StackOf(stack, run, regs, cpu.if, pos),
         NEW b \in Activations, run' = SetTop(run, b),
         run[Len(run)].step \in {"push", "pop"}, b.step \in {"call", "iret"}, RoutineOk(b),
         run[Len(run)].step = "push" => b.step = "call",
         b.vector = run[Len(run)].vector, UNCHANGED <<pic, cpu, left>>,
         regs' \in RegFiles, stack' \in Stacks,
         \A i \in 1..(pos[Len(run) - 1] + 1) : stack'[i] = stack[i],
         Len(stack') >= pos[Len(run) - 1],
         Part(stack', b, pos[Len(run) - 1], Len(stack'), regs'),
         FrameIndices(stack') = FrameIndices(stack)
  PROVE  InterruptsInv'
<1>1. run[Len(run)].step \in RoutineSteps
  BY DEF RoutineSteps, Unsaved
<1>2. /\ run \in Runs /\ Len(run) \in Nat /\ Len(run) >= 2 /\ Len(run) >= 1 /\ Len(run) # 1
      /\ Len(run) \in 1..Len(run)
  BY <1>1, AtRoutine
<1>3. /\ run' \in Runs /\ Len(run') = Len(run) /\ run'[Len(run)] = b
      /\ \A k \in 1..Len(run) : k # Len(run) => run'[k] = run[k]
      /\ RunInv' /\ HandlersDoNotNest'
  BY <1>2, TopStep DEF InterruptsInv
<1>4. Types' /\ FlagInv' /\ CountInv'
  BY <1>3 DEF InterruptsInv, Types, Runs, Stacks, FlagInv, CountInv
<1>5. StackInv'
  <2>1. stack \in Stacks /\ cpu.if \in BOOLEAN
    BY DEF InterruptsInv, Types, Stacks
  <2>2. Masked(b) => Masked(run[Len(run)])
    BY DEF Masked
  <2>3. \E p : StackOf(stack', SetTop(run, b), regs', cpu.if, p)
    BY <1>2, <2>1, <2>2, TopChanges
  <2> QED
    BY <2>3 DEF StackInv
<1>6. SetupInv' /\ ServiceInv' /\ InServiceIsHandled'
  <2>1. b.step # "eoi" /\ cpu'.inta = cpu.inta /\ pic' = pic
    OBVIOUS
  <2>2. run[Len(run)].step \in {"push", "call", "eoi"} => b.step \in {"push", "call", "eoi"}
    OBVIOUS
  <2> QED
    BY <1>2, <1>3, <2>1, <2>2, TopService
<1> QED
  BY <1>3, <1>4, <1>5, <1>6 DEF InterruptsInv

(* What the activation on top has on the stack. *)
LEMMA TopPart ==
  ASSUME InterruptsInv, NEW pos, StackOf(stack, run, regs, cpu.if, pos),
         run[Len(run)].step \in RoutineSteps
  PROVE  /\ Part(stack, run[Len(run)], pos[Len(run) - 1], Len(stack), regs)
         /\ pos[Len(run) - 1] \in Nat /\ Len(stack) \in Nat
         /\ Len(run) - 1 \in 1..Len(run)
<1>1. /\ run \in Runs /\ Len(run) \in Nat /\ Len(run) >= 1 /\ Len(run) \in 2..Len(run)
  BY AtRoutine
<1>2. stack \in Stacks
  BY DEF InterruptsInv, Types, Stacks
<1>3. /\ pos[Len(run)] = Len(stack) /\ Len(stack) \in Nat
      /\ \A k \in 1..Len(run) : run[k] \in Activations /\ pos[k] \in Nat /\ pos[k] <= Len(stack)
  BY <1>1, <1>2, StackFacts
<1>4. Len(run) - 1 \in 1..Len(run)
  BY <1>1
<1>5. Part(stack, run[Len(run)], pos[Len(run) - 1], pos[Len(run)], regs)
  BY <1>1 DEF StackOf
<1> QED
  BY <1>3, <1>4, <1>5

(* The part of an activation whose registers are on the stack. *)
LEMMA SavedPart ==
  ASSUME NEW s, NEW a, NEW base, NEW top, NEW seen,
         top = base + 1 + Code(a.vector) + 7,
         s[base + 1] \in Frames, Code(a.vector) = 1 => s[base + 2].is = "code",
         \A i \in 1..7 : s[base + 1 + Code(a.vector) + i] =
           [is |-> "register", value |-> s[base + 1].value.regs[SavedRegisters[i]]],
         a.step \notin Unsaved
  PROVE  Part(s, a, base, top, seen)
BY DEF Part

LEMMA PushRegistersStep ==
  ASSUME InterruptsInv, PushRegisters PROVE InterruptsInv'
<1> DEFINE top == run[Len(run)]
           b == WithStep(top, "call")
<1>1. /\ cpu.inta = "nobody" /\ top.step = "push" /\ UNCHANGED <<pic, cpu, regs, left>>
      /\ run' = [run EXCEPT ![Len(run)].step = "call"]
      /\ stack' = SavedOn(stack, regs)
  BY DEF PushRegisters, At, Going, Current, Depth, Step, SavedOn
<1>2. "push" \in RoutineSteps /\ "push" \in Unsaved /\ "call" \in RoutineSteps \ Unsaved
  BY DEF RoutineSteps, Unsaved
<1>3. /\ run \in Runs /\ Len(run) \in Nat /\ Len(run) >= 1 /\ top \in Activations
      /\ RoutineOk(top)
  BY <1>1, <1>2, AtRoutine
<1>4. /\ run' = SetTop(run, b) /\ b \in Activations /\ b.vector = top.vector /\ b.step = "call"
      /\ b.n = top.n
  <2>1. "call" \in ThreadSteps \cup RoutineSteps
    BY <1>2
  <2>2. run' = [run EXCEPT ![Len(run)].step = "call"]
    BY <1>1, Zenon
  <2> QED
    BY <1>3, <2>1, <2>2, StepSetsTop
<1>5. RoutineOk(b)
  BY <1>1, <1>2, <1>3, <1>4 DEF RoutineOk
<1>6. PICK pos : StackOf(stack, run, regs, cpu.if, pos)
  BY DEF InterruptsInv, StackInv
<1> DEFINE base == pos[Len(run) - 1]
<1>7. Part(stack, top, base, Len(stack), regs) /\ base \in Nat /\ Len(stack) \in Nat
  BY <1>1, <1>2, <1>6, TopPart
<1>8. regs \in RegFiles /\ stack \in Stacks
  BY DEF InterruptsInv, Types, Stacks
<1>9. /\ stack' \in Stacks /\ Len(stack') = Len(stack) + 7
      /\ \A i \in 1..Len(stack) : stack'[i] = stack[i]
      /\ \A i \in 1..7 : stack'[Len(stack) + i] =
           [is |-> "register", value |-> regs[SavedRegisters[i]]]
  BY <1>1, <1>8, RegistersPushed
<1> HIDE DEF b, top, base
<1>10. Code(top.vector) \in {0, 1}
  BY CodeType
<1>11. Len(stack) = base + 1 + Code(top.vector)
  BY <1>1, <1>2, <1>7, <1>10 DEF Part
<1>12. \A i \in 1..7 : regs[SavedRegisters[i]] = stack[base + 1].value.regs[SavedRegisters[i]]
  BY <1>1, <1>2, <1>7 DEF Part
<1>13. stack'[base + 1] = stack[base + 1] /\ stack[base + 1] \in Frames
  <2>1. base + 1 \in 1..Len(stack)
    BY <1>7, <1>10, <1>11
  <2> QED
    BY <1>7, <1>9, <2>1 DEF Part
<1>14. Code(top.vector) = 1 => stack'[base + 2].is = "code"
  <2> SUFFICES ASSUME Code(top.vector) = 1 PROVE stack'[base + 2].is = "code"
    OBVIOUS
  <2>1. base + 2 \in 1..Len(stack)
    BY <1>7, <1>11
  <2> QED
    BY <1>7, <1>9, <2>1 DEF Part
<1>15. Part(stack', b, base, Len(stack'), regs')
  <2>1. Len(stack') = base + 1 + Code(b.vector) + 7
    BY <1>4, <1>7, <1>9, <1>10, <1>11
  <2>2. \A i \in 1..7 : stack'[base + 1 + Code(b.vector) + i] =
          [is |-> "register", value |-> stack'[base + 1].value.regs[SavedRegisters[i]]]
    <3>1. base + 1 + Code(b.vector) = Len(stack)
      BY <1>4, <1>11
    <3>2. SUFFICES ASSUME NEW i \in 1..7
                   PROVE  stack'[Len(stack) + i] =
                     [is |-> "register", value |-> stack'[base + 1].value.regs[SavedRegisters[i]]]
      BY <3>1, Zenon
    <3>3. stack'[Len(stack) + i] = [is |-> "register", value |-> regs[SavedRegisters[i]]]
      BY <1>9, Zenon
    <3>4. regs[SavedRegisters[i]] = stack'[base + 1].value.regs[SavedRegisters[i]]
      <4>1. regs[SavedRegisters[i]] = stack[base + 1].value.regs[SavedRegisters[i]]
        BY <1>12, Zenon
      <4> QED
        BY <1>13, <4>1, Zenon
    <3> QED
      BY <3>3, <3>4, Zenon
  <2>3. b.step \notin Unsaved
    BY <1>2, <1>4
  <2>4. Code(b.vector) = 1 => stack'[base + 2].is = "code"
    BY <1>4, <1>14, Zenon
  <2>5. stack'[base + 1] \in Frames
    BY <1>13, Zenon
  <2> QED
    BY <2>1, <2>2, <2>3, <2>4, <2>5, SavedPart
<1>16. /\ \A i \in 1..(base + 1) : stack'[i] = stack[i]
       /\ Len(stack') >= base
  <2>1. \A i \in 1..(base + 1) : i \in 1..Len(stack)
    BY <1>7, <1>10, <1>11
  <2>2. Len(stack') >= base
    BY <1>7, <1>9, <1>10, <1>11
  <2> QED
    BY <1>9, <2>1, <2>2
<1>17. FrameIndices(stack') = FrameIndices(stack)
  <2>1. ASSUME NEW i \in (Len(stack) + 1)..Len(stack') PROVE stack'[i].is # "frame"
    <3>1. i - Len(stack) \in 1..7 /\ Len(stack) + (i - Len(stack)) = i
      BY <1>7, <1>9, <2>1, SevenBeyond
    <3>2. stack'[i] = [is |-> "register", value |-> regs[SavedRegisters[i - Len(stack)]]]
      BY <1>9, <3>1
    <3> QED
      BY <3>2
  <2>2. Len(stack') >= Len(stack)
    BY <1>7, <1>9
  <2> QED
    BY <1>8, <1>9, <2>1, <2>2, NoFrameAdded
<1> QED
  BY <1>1, <1>4, <1>5, <1>6, <1>8, <1>9, <1>15, <1>16, <1>17, RoutineChanges DEF top, base

LEMMA CutOff ==
  ASSUME NEW s \in Stacks, NEW m \in 0..Len(s)
  PROVE  /\ SubSeq(s, 1, m) \in Stacks /\ Len(SubSeq(s, 1, m)) = m
         /\ \A i \in 1..m : SubSeq(s, 1, m)[i] = s[i]
BY DEF Stacks

LEMMA PopRegistersStep ==
  ASSUME InterruptsInv, PopRegisters PROVE InterruptsInv'
<1> DEFINE top == run[Len(run)]
           b == WithStep(top, "iret")
<1>1. /\ cpu.inta = "nobody" /\ top.step = "pop" /\ UNCHANGED <<pic, cpu, left>>
      /\ run' = [run EXCEPT ![Len(run)].step = "iret"]
      /\ stack' = SubSeq(stack, 1, Len(stack) - 7)
      /\ regs' = [r \in Registers |->
                    IF \E i \in 1..7 : SavedRegisters[i] = r
                    THEN stack[Len(stack) - 7 + (CHOOSE i \in 1..7 : SavedRegisters[i] = r)].value
                    ELSE regs[r]]
  BY SavedFacts DEF PopRegisters, At, Going, Current, Depth, Step
<1>2. "pop" \in RoutineSteps \ Unsaved /\ "iret" \in RoutineSteps /\ "iret" \in Unsaved
  BY DEF RoutineSteps, Unsaved
<1>3. /\ run \in Runs /\ Len(run) \in Nat /\ Len(run) >= 1 /\ top \in Activations
  BY <1>1, <1>2, AtRoutine
<1>4. /\ run' = SetTop(run, b) /\ b \in Activations /\ b.vector = top.vector /\ b.step = "iret"
  <2>1. "iret" \in ThreadSteps \cup RoutineSteps
    BY <1>2
  <2>2. run' = [run EXCEPT ![Len(run)].step = "iret"]
    BY <1>1, Zenon
  <2> QED
    BY <1>3, <2>1, <2>2, StepSetsTop
<1>5. RoutineOk(b)
  BY <1>2, <1>4 DEF RoutineOk
<1>6. PICK pos : StackOf(stack, run, regs, cpu.if, pos)
  BY DEF InterruptsInv, StackInv
<1> DEFINE base == pos[Len(run) - 1]
<1>7. Part(stack, top, base, Len(stack), regs) /\ base \in Nat /\ Len(stack) \in Nat
  BY <1>1, <1>2, <1>6, TopPart
<1>8. regs \in RegFiles /\ stack \in Stacks
  BY DEF InterruptsInv, Types, Stacks
<1> HIDE DEF b, top, base
<1>9. Code(top.vector) \in {0, 1}
  BY CodeType
<1>10. Len(stack) = base + 1 + Code(top.vector) + 7
  BY <1>1, <1>2, <1>7, <1>9 DEF Part
<1>11. \A i \in 1..7 : stack[base + 1 + Code(top.vector) + i] =
         [is |-> "register", value |-> stack[base + 1].value.regs[SavedRegisters[i]]]
  BY <1>1, <1>2, <1>7 DEF Part
<1>12. Len(stack) - 7 \in 0..Len(stack) /\ Len(stack) - 7 = base + 1 + Code(top.vector)
  BY <1>7, <1>9, <1>10
<1>13. /\ stack' \in Stacks /\ Len(stack') = Len(stack) - 7
       /\ \A i \in 1..(Len(stack) - 7) : stack'[i] = stack[i]
  BY <1>1, <1>8, <1>12, CutOff
<1>14. stack[base + 1] \in Frames
  BY <1>7 DEF Part
<1>15. ASSUME NEW i \in 1..7
       PROVE  regs'[SavedRegisters[i]] = stack[base + 1].value.regs[SavedRegisters[i]]
  <2>1. SavedRegisters[i] \in Registers
    BY SavedFacts
  <2>2. (CHOOSE j \in 1..7 : SavedRegisters[j] = SavedRegisters[i]) = i
    BY SavedFacts
  <2>3. regs'[SavedRegisters[i]] = stack[Len(stack) - 7 + i].value
    BY <1>1, <2>1, <2>2
  <2>4. stack[Len(stack) - 7 + i].value = stack[base + 1].value.regs[SavedRegisters[i]]
    <3>1. Len(stack) - 7 + i = base + 1 + Code(top.vector) + i
      BY <1>12
    <3>2. stack[base + 1 + Code(top.vector) + i].value =
            stack[base + 1].value.regs[SavedRegisters[i]]
      BY <1>11
    <3> QED
      BY <3>1, <3>2
  <2> QED
    BY <2>3, <2>4
<1>16. regs' \in RegFiles
  <2>1. stack[base + 1].value.regs \in [Registers -> Int]
    BY <1>14 DEF Frames, RegFiles
  <2>2. \A i \in 1..7 : regs'[SavedRegisters[i]] \in Int
    BY <1>15, <2>1, SavedFacts
  <2>3. ASSUME NEW r \in Registers PROVE regs'[r] \in Int
    <3>1. CASE \E i \in 1..7 : SavedRegisters[i] = r
      BY <2>2, <3>1
    <3>2. CASE ~ \E i \in 1..7 : SavedRegisters[i] = r
      BY <1>1, <1>8, <3>2 DEF RegFiles
    <3> QED
      BY <3>1, <3>2
  <2>4. regs' = [r \in Registers |-> regs'[r]]
    BY <1>1
  <2> QED
    BY <2>3, <2>4 DEF RegFiles
<1>17. base + 1 \in 1..(Len(stack) - 7) /\ stack'[base + 1] = stack[base + 1]
  <2>1. base + 1 \in 1..(Len(stack) - 7)
    BY <1>7, <1>9, <1>12
  <2> QED
    BY <1>13, <2>1
<1>18. Code(top.vector) = 1 => stack'[base + 2].is = "code"
  <2> SUFFICES ASSUME Code(top.vector) = 1 PROVE stack'[base + 2].is = "code"
    OBVIOUS
  <2>1. base + 2 \in 1..(Len(stack) - 7)
    BY <1>7, <1>12
  <2> QED
    BY <1>7, <1>13, <2>1 DEF Part
<1>19. Part(stack', b, base, Len(stack'), regs')
  <2>1. Len(stack') = base + 1 + Code(b.vector) + 0
    BY <1>4, <1>7, <1>9, <1>12, <1>13
  <2>2. b.step \in Unsaved
    BY <1>2, <1>4
  <2> QED
    BY <1>4, <1>14, <1>15, <1>17, <1>18, <2>1, <2>2 DEF Part
<1>20. (\A i \in 1..(base + 1) : stack'[i] = stack[i]) /\ Len(stack') >= base
  <2>1. \A i \in 1..(base + 1) : i \in 1..(Len(stack) - 7)
    BY <1>7, <1>9, <1>12
  <2>2. Len(stack') >= base
    BY <1>7, <1>9, <1>12, <1>13
  <2> QED
    BY <1>13, <2>1, <2>2
<1>21. FrameIndices(stack') = FrameIndices(stack)
  <2>1. ASSUME NEW i \in (Len(stack') + 1)..Len(stack) PROVE stack[i].is # "frame"
    <3>1. PICK j \in 1..7 : base + 1 + Code(top.vector) + j = i
      <4>1. Len(stack') = Len(stack) - 7
        BY <1>13
      <4>2. i - (Len(stack) - 7) \in 1..7 /\ i \in Int
        BY <1>7, <4>1
      <4>3. base + 1 + Code(top.vector) + (i - (Len(stack) - 7)) = i
        BY <1>7, <1>9, <1>12, <4>2
      <4> QED
        BY <4>2, <4>3
    <3>2. stack[i] =
            [is |-> "register", value |-> stack[base + 1].value.regs[SavedRegisters[j]]]
      BY <1>11, <3>1
    <3> QED
      BY <3>2
  <2>2. Len(stack) >= Len(stack') /\ \A i \in 1..Len(stack') : stack[i] = stack'[i]
    BY <1>7, <1>13
  <2> QED
    BY <1>8, <1>13, <2>1, <2>2, NoFrameAdded
<1>22. RoutineOk(b) /\ b.step \in {"call", "iret"} /\ run[Len(run)].step = "pop"
  BY <1>1, <1>4, <1>5 DEF top
<1> QED
  BY <1>1, <1>4, <1>6, <1>13, <1>16, <1>19, <1>20, <1>21, <1>22, RoutineChanges DEF top, base

(* What iretq finds: the frame of its own activation. *)
LEMMA FoundByIretq ==
  ASSUME InterruptsInv, NEW pos, StackOf(stack, run, regs, cpu.if, pos),
         run[Len(run)].step = "iret"
  PROVE  LET base == pos[Len(run) - 1]
         IN  /\ base \in Nat /\ AtIretq \in Stacks /\ Len(AtIretq) = base + 1
             /\ \A i \in 1..(base + 1) : AtIretq[i] = stack[i]
             /\ stack[base + 1] \in Frames
             /\ \A i \in 1..7 :
                  regs[SavedRegisters[i]] = stack[base + 1].value.regs[SavedRegisters[i]]
             /\ Len(stack) >= base + 1 /\ Len(stack) \in Nat
             /\ \A i \in (base + 2)..Len(stack) : stack[i].is # "frame"
<1> DEFINE base == pos[Len(run) - 1]
           top == run[Len(run)]
<1>1. "iret" \in RoutineSteps /\ "iret" \in Unsaved
  BY DEF RoutineSteps, Unsaved
<1>2. Part(stack, top, base, Len(stack), regs) /\ base \in Nat /\ Len(stack) \in Nat
  BY <1>1, TopPart
<1>3. stack \in Stacks
  BY DEF InterruptsInv, Types, Stacks
<1>4. AtIretq = IF top.vector \in PushesErrorCode THEN Front(stack) ELSE stack
  BY DEF AtIretq, PopsErrorCode, PushesErrorCode, Current, Depth
<1>5. top.step = "iret"
  OBVIOUS
<1> HIDE DEF base, top
<1>6. /\ stack[base + 1] \in Frames
      /\ \A i \in 1..7 : regs[SavedRegisters[i]] = stack[base + 1].value.regs[SavedRegisters[i]]
  BY <1>1, <1>2, <1>5 DEF Part
<1>7. CASE top.vector \in PushesErrorCode
  <2>1. Code(top.vector) = 1
    BY <1>7, CodeType
  <2>2. Len(stack) = base + 2 /\ stack[base + 2].is = "code"
    BY <1>1, <1>2, <1>5, <2>1 DEF Part
  <2>3. AtIretq = SubSeq(stack, 1, Len(stack) - 1)
    BY <1>4, <1>7 DEF Front
  <2>4. Len(stack) - 1 \in 0..Len(stack) /\ Len(stack) - 1 = base + 1
    BY <1>2, <2>2
  <2>5. /\ AtIretq \in Stacks /\ Len(AtIretq) = base + 1
        /\ \A i \in 1..(base + 1) : AtIretq[i] = stack[i]
    BY <1>3, <2>3, <2>4, CutOff
  <2>6. \A i \in (base + 2)..Len(stack) : stack[i].is # "frame"
    <3>1. \A i \in (base + 2)..(base + 2) : i = base + 2
      BY <1>2
    <3> QED
      BY <2>2, <3>1
  <2>7. Len(stack) >= base + 1
    BY <1>2, <2>2
  <2> QED
    BY <1>2, <1>6, <2>5, <2>6, <2>7 DEF base
<1>8. CASE top.vector \notin PushesErrorCode
  <2>1. Code(top.vector) = 0
    BY <1>8, CodeType
  <2>2. Len(stack) = base + 1
    BY <1>1, <1>2, <1>5, <2>1 DEF Part
  <2>3. AtIretq = stack
    BY <1>4, <1>8
  <2>4. \A i \in (base + 2)..Len(stack) : stack[i].is # "frame"
    <3>1. \A i \in (base + 2)..(base + 1) : FALSE
      BY <1>2
    <3> QED
      BY <2>2, <3>1
  <2>5. Len(stack) >= base + 1
    BY <1>2, <2>2
  <2> QED
    BY <1>2, <1>3, <1>6, <2>2, <2>3, <2>4, <2>5 DEF base
<1> QED
  BY <1>7, <1>8

LEMMA IretqStep ==
  ASSUME InterruptsInv, Iretq PROVE InterruptsInv'
<1> DEFINE top == run[Len(run)]
<1>1. /\ cpu.inta = "nobody" /\ top.step = "iret" /\ UNCHANGED <<pic, regs, left>>
      /\ run' = Front(run) /\ cpu' = [cpu EXCEPT !.if = Last(AtIretq).value.if]
      /\ stack' = Front(AtIretq)
  BY DEF Iretq, At, Going, Current, Depth
<1>2. /\ run \in Runs /\ Len(run) \in Nat /\ Len(run) >= 2
  <2>1. "iret" \in RoutineSteps
    BY DEF RoutineSteps, Unsaved
  <2> QED
    BY <1>1, <2>1, AtRoutine
<1>3. PICK pos : StackOf(stack, run, regs, cpu.if, pos)
  BY DEF InterruptsInv, StackInv
<1>4. PICK base : base = pos[Len(run) - 1]
  OBVIOUS
<1>5. /\ base \in Nat /\ AtIretq \in Stacks /\ Len(AtIretq) = base + 1
      /\ \A i \in 1..(base + 1) : AtIretq[i] = stack[i]
      /\ stack[base + 1] \in Frames
      /\ Len(stack) >= base + 1 /\ Len(stack) \in Nat
      /\ \A i \in (base + 2)..Len(stack) : stack[i].is # "frame"
  BY <1>1, <1>3, <1>4, FoundByIretq
<1>6. /\ stack' \in Stacks /\ Len(stack') = base
      /\ \A i \in 1..base : stack'[i] = stack[i]
  <2>1. stack' = SubSeq(AtIretq, 1, Len(AtIretq) - 1)
    BY <1>1 DEF Front
  <2>2. Len(AtIretq) - 1 \in 0..Len(AtIretq) /\ Len(AtIretq) - 1 = base
    BY <1>5
  <2>3. /\ stack' \in Stacks /\ Len(stack') = base
        /\ \A i \in 1..base : stack'[i] = AtIretq[i]
    BY <1>5, <2>1, <2>2, CutOff
  <2>4. \A i \in 1..base : i \in 1..(base + 1)
    BY <1>5
  <2> QED
    BY <1>5, <2>3, <2>4
<1>7. Last(AtIretq) = stack[base + 1]
  <2>1. Last(AtIretq) = AtIretq[base + 1] /\ base + 1 \in 1..(base + 1)
    BY <1>5 DEF Last
  <2> QED
    BY <1>5, <2>1
<1>8. stack[base + 1].is = "frame" /\ stack[base + 1].value.if \in BOOLEAN
  BY <1>5 DEF Frames
<1>9. /\ cpu' \in [if : BOOLEAN, inta : {"nobody", "PIC0", "PIC1"}]
      /\ cpu'.inta = "nobody" /\ cpu'.if = stack[base + 1].value.if
  BY <1>1, <1>7, <1>8 DEF InterruptsInv, Types
<1>10. /\ run' \in Runs /\ Len(run') = Len(run) - 1
       /\ \A k \in 1..Len(run') : k \in 1..Len(run) /\ run'[k] = run[k]
       /\ RunInv' /\ HandlersDoNotNest'
  BY <1>1, <1>2, Returned DEF InterruptsInv
<1>11. Types' /\ FlagInv'
  BY <1>1, <1>6, <1>9, <1>10 DEF InterruptsInv, Types, FlagInv, Stacks, Runs
<1>12. stack \in Stacks /\ cpu.if \in BOOLEAN
  BY DEF InterruptsInv, Types, Stacks
<1>13. StackInv'
  <2>1. \A k \in 1..Len(run') : run'[k] = run[k]
    BY <1>10
  <2>2. \E p : StackOf(stack', run', regs, stack[pos[Len(run) - 1] + 1].value.if, p)
    <3>1. /\ Len(stack') = pos[Len(run) - 1] /\ \A i \in 1..Len(stack') : stack'[i] = stack[i]
          /\ run[Len(run)].step = "iret"
      BY <1>1, <1>4, <1>6
    <3> QED
      BY <1>2, <1>3, <1>6, <1>10, <1>12, <2>1, <3>1, ReturnKeepsStack
  <2> QED
    BY <1>1, <1>4, <1>9, <2>2 DEF StackInv
<1>14. CountInv'
  <2>1. /\ FrameIndices(stack) = FrameIndices(stack') \cup {Len(stack') + 1}
        /\ Len(stack') + 1 \notin FrameIndices(stack')
    <3>1. Len(stack) > Len(stack')
      BY <1>5, <1>6
    <3>2. \A i \in 1..Len(stack') : stack[i] = stack'[i]
      BY <1>6
    <3>3. /\ stack[Len(stack') + 1].is = "frame"
          /\ \A i \in (Len(stack') + 2)..Len(stack) : stack[i].is # "frame"
      BY <1>5, <1>6, <1>8
    <3> QED
      BY <1>6, <1>12, <3>1, <3>2, <3>3, FrameAdded
  <2>2. /\ IsFiniteSet(FrameIndices(stack'))
        /\ Cardinality(FrameIndices(stack')) = Cardinality(FrameIndices(stack)) - 1
    BY <2>1, CountRemoved DEF InterruptsInv, CountInv
  <2> QED
    BY <1>2, <1>10, <2>2 DEF InterruptsInv, CountInv
<1>15. SetupInv' /\ ServiceInv' /\ InServiceIsHandled'
  <2>1. run'[1] = run[1]
    BY <1>2, <1>10
  <2>2. DOMAIN run = 1..Len(run) /\ DOMAIN run' = 1..(Len(run) - 1)
    BY <1>2, <1>10 DEF Runs
  <2>3. ASSUME NEW line \in (0..15) \ {2, 7}, Handling(line) PROVE Handling(line)'
    <3>1. PICK i \in 1..Len(run) :
            run[i].vector = 32 + line /\ run[i].step \in {"push", "call", "eoi"}
      BY <2>2, <2>3 DEF Handling
    <3>2. i # Len(run)
      BY <1>1, <3>1
    <3>3. i \in 1..(Len(run) - 1)
      BY <1>2, <3>2
    <3> QED
      BY <1>10, <2>2, <3>1, <3>3 DEF Handling
  <2>4. \A k \in 2..Len(run') : run'[k].step = "eoi" /\ run'[k].n = 2 =>
          k \in 2..Len(run) /\ run[k].step = "eoi" /\ run[k].n = 2
    <3>1. \A k \in 2..Len(run') : k \in 1..Len(run') /\ k \in 2..Len(run)
      BY <1>2, <1>10
    <3> QED
      BY <1>10, <3>1
  <2>5. pic' = pic /\ cpu'.inta = cpu.inta
    BY <1>1, <1>9
  <2> QED
    BY <2>1, <2>3, <2>4, <2>5, ServiceKept DEF InterruptsInv
<1> QED
  BY <1>10, <1>11, <1>13, <1>14, <1>15 DEF InterruptsInv

-----------------------------------------------------------------------------
(* The booting thread. *)

LEMMA AtThread ==
  ASSUME InterruptsInv, run[Len(run)].step \in ThreadSteps
  PROVE  /\ run \in Runs /\ Len(run) = 1 /\ Len(run) >= 1
         /\ run[1] \in Activations /\ run[1].vector = Thread
         /\ \A line \in 0..15 : ~Handling(line)
<1>1. run \in Runs /\ Len(run) \in Nat /\ Len(run) >= 1
  BY DEF InterruptsInv, Types, RunInv, RunOf, Runs
<1>2. Len(run) = 1
  <2>1. Len(run) = 1 \/ Len(run) >= 2
    BY <1>1, OneOrMore
  <2> SUFFICES ASSUME Len(run) >= 2 PROVE FALSE
    BY <2>1
  <2>2. Len(run) \in 2..Len(run)
    BY <1>1, AtLeastTwo
  <2>3. run[Len(run)].step \in RoutineSteps
    BY <2>2 DEF InterruptsInv, RunInv, RunOf
  <2> QED
    BY <2>3 DEF ThreadSteps, RoutineSteps, Unsaved
<1>3. run[1] \in Activations /\ run[1].vector = Thread /\ DOMAIN run = 1..1
  <2>1. run[1].vector = Thread
    BY DEF InterruptsInv, RunInv, RunOf
  <2>2. DOMAIN run = 1..1 /\ run[1] \in Activations
    BY <1>1, <1>2 DEF Runs
  <2> QED
    BY <2>1, <2>2
<1>4. \A line \in 0..15 : ~Handling(line)
  BY <1>3 DEF Handling, Thread
<1> QED
  BY <1>1, <1>2, <1>3, <1>4

(* The thread goes on to a step that is not interrupted, or enables        *)
(* interrupts.                                                             *)
LEMMA ThreadMoves ==
  ASSUME InterruptsInv, run[Len(run)].step \in ThreadSteps,
         NEW b \in Activations, run' = SetTop(run, b), b.vector = Thread,
         b.step \in ThreadSteps, b.step = "show" \/ ~cpu'.if,
         cpu' \in [if : BOOLEAN, inta : {"nobody", "PIC0", "PIC1"}], cpu'.inta = "nobody",
         UNCHANGED <<stack, regs, left>>, pic' \in [Chips -> ChipStates]
  PROVE  /\ Types' /\ RunInv' /\ StackInv' /\ CountInv' /\ FlagInv' /\ HandlersDoNotNest'
         /\ Len(run') = 1 /\ run'[1] = b
<1>1. /\ run \in Runs /\ Len(run) = 1 /\ Len(run) >= 1 /\ run[1].vector = Thread
  BY AtThread
<1>2. /\ run' \in Runs /\ Len(run') = Len(run) /\ run'[Len(run)] = b
      /\ RunInv' /\ HandlersDoNotNest'
  BY <1>1, TopStep DEF InterruptsInv
<1>3. Types'
  BY <1>2 DEF InterruptsInv, Types, Runs
<1>4. CountInv' /\ FlagInv'
  BY <1>2 DEF InterruptsInv, CountInv, FlagInv
<1>5. StackInv'
  <2>1. PICK pos : StackOf(stack, run, regs, cpu.if, pos)
    BY DEF InterruptsInv, StackInv
  <2>2. stack \in Stacks /\ cpu.if \in BOOLEAN /\ cpu'.if \in BOOLEAN
    BY DEF InterruptsInv, Types, Stacks
  <2>3. Masked(b) => ~cpu'.if
    BY DEF Masked, IsIrq, Thread
  <2>4. StackOf(stack, SetTop(run, b), regs', cpu'.if, pos)
    <3>1. b.vector = run[Len(run)].vector
      BY <1>1
    <3>2. run \in Runs /\ Len(run) >= 1
      BY <1>1
    <3>3. /\ Len(run) = 1 \/ (run[Len(run)].step \notin Unsaved /\ b.step \notin Unsaved)
          /\ cpu'.if => cpu.if \/ Len(run) = 1
      BY <1>1
    <3> QED
      BY <2>1, <2>2, <2>3, <3>1, <3>2, <3>3, TopMoves
  <2> QED
    BY <2>4 DEF StackInv
<1> QED
  BY <1>1, <1>2, <1>3, <1>4, <1>5

LEMMA EnableInterruptsStep ==
  ASSUME InterruptsInv, EnableInterrupts PROVE InterruptsInv'
<1> DEFINE top == run[Len(run)]
           b == WithStep(top, "show")
<1>1. /\ cpu.inta = "nobody" /\ top.step = "enable" /\ UNCHANGED <<pic, stack, regs, left>>
      /\ run' = [run EXCEPT ![Len(run)].step = "show"] /\ cpu' = [cpu EXCEPT !.if = TRUE]
  BY DEF EnableInterrupts, At, Going, Current, Depth, Step
<1>2. "enable" \in ThreadSteps /\ "show" \in ThreadSteps
  BY DEF ThreadSteps
<1>3. /\ run \in Runs /\ Len(run) = 1 /\ Len(run) >= 1 /\ run[1].vector = Thread
      /\ \A line \in 0..15 : ~Handling(line)
  BY <1>1, <1>2, AtThread
<1>4. /\ run' = SetTop(run, b) /\ b \in Activations /\ b.vector = Thread /\ b.step = "show"
  <2>1. /\ run' = SetTop(run, b) /\ b \in Activations /\ b.vector = run[Len(run)].vector
        /\ b.step = "show"
    BY <1>1, <1>2, <1>3, StepSetsTop
  <2>2. run[Len(run)].vector = Thread
    BY <1>3
  <2> QED
    BY <2>1, <2>2
<1> HIDE DEF b
<1>5. /\ cpu' \in [if : BOOLEAN, inta : {"nobody", "PIC0", "PIC1"}] /\ cpu'.inta = "nobody"
      /\ pic' \in [Chips -> ChipStates]
  BY <1>1 DEF InterruptsInv, Types
<1>6. /\ Types' /\ RunInv' /\ StackInv' /\ CountInv' /\ FlagInv' /\ HandlersDoNotNest'
      /\ Len(run') = 1 /\ run'[1] = b
  BY <1>1, <1>2, <1>4, <1>5, ThreadMoves
<1>7. SetupInv' /\ ServiceInv' /\ InServiceIsHandled'
  <2>1. run'[1].step = "show" /\ run[1].step = "enable"
    BY <1>1, <1>3, <1>4, <1>6
  <2>2. \A k \in 2..Len(run') : FALSE
    BY <1>6
  <2>3. \A line \in (0..15) \ {2, 7} : ~Handling(line)
    BY <1>3
  <2>4. cpu'.inta = cpu.inta /\ pic' = pic
    BY <1>1, <1>5
  <2> QED
    BY <2>1, <2>2, <2>3, <2>4, ServiceKept DEF InterruptsInv
<1> QED
  BY <1>6, <1>7 DEF InterruptsInv

(* The words of DexprOS_InitialisePIC, one by one. *)
LEMMA TheWords ==
  LET w == InitWords(32, 40)
  IN  /\ Len(w) = 10
      /\ w[1][1] = "PIC0" /\ w[1][2] = "INITIALIZE" /\ w[2][1] = "PIC1" /\ w[2][2] = "INITIALIZE"
      /\ w[3][1] = "PIC0" /\ w[3][2] = 32 /\ w[4][1] = "PIC1" /\ w[4][2] = 40
      /\ w[5][1] = "PIC0" /\ w[5][2] = 4 /\ w[6][1] = "PIC1" /\ w[6][2] = 2
      /\ w[7][1] = "PIC0" /\ w[8][1] = "PIC1"
      /\ w[9][1] = "PIC0" /\ w[9][2] = {} /\ w[10][1] = "PIC1" /\ w[10][2] = {}
BY DEF InitWords

LEMMA SetUpOne ==
  ASSUME Types, NEW n \in 1..10, SetUpTo(pic, n), NEW c \in Chips, NEW x \in ChipStates,
         pic' = [pic EXCEPT ![c] = x],
         c = (IF n \in {1, 3, 5, 7, 9} THEN "PIC0" ELSE "PIC1"),
         x.expects = (IF n <= 2 THEN "offset" ELSE IF n <= 4 THEN "cascade"
                      ELSE IF n <= 6 THEN "mode" ELSE "nothing"),
         x.isr = IF n <= 2 THEN {} ELSE pic[c].isr,
         x.offset = (IF n = 3 THEN 32 ELSE IF n = 4 THEN 40 ELSE pic[c].offset) \/ n <= 2
  PROVE  pic' \in [Chips -> ChipStates] /\ SetUpTo(pic', n + 1)
<1>1. /\ pic' \in [Chips -> ChipStates] /\ pic'[c] = x
      /\ \A d \in Chips : d # c => pic'[d] = pic[d]
  BY ChipWritten
<1>2. "PIC0" \in Chips /\ "PIC1" \in Chips
  BY DEF Chips
<1>3. CASE c = "PIC0"
  <2>1. pic'["PIC0"] = x /\ pic'["PIC1"] = pic["PIC1"] /\ n \in {1, 3, 5, 7, 9}
    BY <1>1, <1>2, <1>3
  <2>2. n = 1 \/ n = 3 \/ n = 5 \/ n = 7 \/ n = 9
    BY <2>1
  <2>3. SetUpTo(pic', n + 1)
    BY <1>3, <2>1, <2>2 DEF SetUpTo, Expected0, Expected1
  <2> QED
    BY <1>1, <2>3
<1>4. CASE c = "PIC1"
  <2>1. pic'["PIC1"] = x /\ pic'["PIC0"] = pic["PIC0"] /\ n \notin {1, 3, 5, 7, 9}
    BY <1>1, <1>2, <1>4
  <2>2. n = 2 \/ n = 4 \/ n = 6 \/ n = 8 \/ n = 10
    BY <2>1
  <2>3. SetUpTo(pic', n + 1)
    BY <1>4, <2>1, <2>2 DEF SetUpTo, Expected0, Expected1
  <2> QED
    BY <1>1, <2>3
<1> QED
  BY <1>3, <1>4

LEMMA SetUpStep ==
  ASSUME Types, NEW n \in 1..10, SetUpTo(pic, n), InitialiseStep(InitWords(32, 40)[n], n)
  PROVE  pic' \in [Chips -> ChipStates] /\ SetUpTo(pic', n + 1)
<1> DEFINE w == InitWords(32, 40)
           c == IF n \in {1, 3, 5, 7, 9} THEN "PIC0" ELSE "PIC1"
<1>1. /\ c \in Chips /\ pic[c] \in ChipStates /\ pic \in [Chips -> ChipStates]
  BY DEF Chips, Types
<1>2. n \in {1, 2, 3, 4, 5, 6, 7, 8, 9, 10}
  OBVIOUS
<1>0. c = IF n \in {1, 3, 5, 7, 9} THEN "PIC0" ELSE "PIC1"
  OBVIOUS
<1>3. w[n][1] = c
  BY <1>2, TheWords
<1>4. CASE n <= 2
  <2>1. n = 1 \/ n = 2
    BY <1>4
  <2>2. w[n][2] = "INITIALIZE"
    BY <2>1, TheWords
  <2> DEFINE x == Command(pic[c], "INITIALIZE")
  <2>3. pic' = [pic EXCEPT ![c] = x]
    BY <1>1, <1>3, <1>4, <2>2 DEF InitialiseStep, ToCommand
  <2>4. x \in ChipStates /\ x.expects = "offset" /\ x.isr = {}
    BY <1>1, InitializeWritten
  <2> HIDE DEF x, c
  <2> QED
    BY <1>1, <1>4, <2>3, <2>4, SetUpOne DEF c
<1> SUFFICES ASSUME n > 2 PROVE pic' \in [Chips -> ChipStates] /\ SetUpTo(pic', n + 1)
  BY <1>2, <1>4
<1> DEFINE x == Data(pic[c], w[n][2])
<1>5. pic' = [pic EXCEPT ![c] = x]
  BY <1>1, <1>3 DEF InitialiseStep, ToData
<1>6. pic[c].expects = IF n <= 4 THEN "offset" ELSE IF n <= 6 THEN "cascade"
                       ELSE IF n <= 8 THEN "mode" ELSE "nothing"
  BY <1>2 DEF SetUpTo, Expected0, Expected1
<1>7. CASE n = 3 \/ n = 4
  <2>1. w[n][2] = (IF n = 3 THEN 32 ELSE 40)
    BY <1>7, TheWords
  <2>2. pic[c].expects = "offset" /\ w[n][2] \in Int
    BY <1>6, <1>7, <2>1
  <2> HIDE DEF w, c
  <2>3. x \in ChipStates /\ x.expects = "cascade" /\ x.offset = w[n][2] /\ x.isr = pic[c].isr
    BY <1>1, <2>2, OffsetWritten
  <2> HIDE DEF x
  <2>4. /\ x.expects = (IF n <= 2 THEN "offset" ELSE IF n <= 4 THEN "cascade"
                       ELSE IF n <= 6 THEN "mode" ELSE "nothing")
        /\ x.isr = (IF n <= 2 THEN {} ELSE pic[c].isr)
        /\ x.offset = (IF n = 3 THEN 32 ELSE IF n = 4 THEN 40 ELSE pic[c].offset) \/ n <= 2
        /\ x \in ChipStates
    BY <1>7, <2>1, <2>3
  <2> QED
    BY <1>0, <1>1, <1>5, <2>4, SetUpOne
<1>8. CASE n = 5 \/ n = 6
  <2>1. w[n][2] \in Int
    BY <1>8, TheWords
  <2>2. pic[c].expects = "cascade"
    BY <1>6, <1>8
  <2> HIDE DEF w, c
  <2>3. x \in ChipStates /\ x.expects = "mode" /\ x.offset = pic[c].offset /\ x.isr = pic[c].isr
    BY <1>1, <2>1, <2>2, CascadeWritten
  <2> HIDE DEF x
  <2>4. /\ x.expects = (IF n <= 2 THEN "offset" ELSE IF n <= 4 THEN "cascade"
                       ELSE IF n <= 6 THEN "mode" ELSE "nothing")
        /\ x.isr = (IF n <= 2 THEN {} ELSE pic[c].isr)
        /\ x.offset = (IF n = 3 THEN 32 ELSE IF n = 4 THEN 40 ELSE pic[c].offset) \/ n <= 2
        /\ x \in ChipStates
    BY <1>8, <2>3
  <2> QED
    BY <1>0, <1>1, <1>5, <2>4, SetUpOne
<1>9. CASE n = 7 \/ n = 8
  <2>1. pic[c].expects = "mode"
    BY <1>6, <1>9
  <2> HIDE DEF w, c
  <2>2. x \in ChipStates /\ x.expects = "nothing" /\ x.offset = pic[c].offset
        /\ x.isr = pic[c].isr
    BY <1>1, <2>1, ModeWritten
  <2> HIDE DEF x
  <2>4. /\ x.expects = (IF n <= 2 THEN "offset" ELSE IF n <= 4 THEN "cascade"
                       ELSE IF n <= 6 THEN "mode" ELSE "nothing")
        /\ x.isr = (IF n <= 2 THEN {} ELSE pic[c].isr)
        /\ x.offset = (IF n = 3 THEN 32 ELSE IF n = 4 THEN 40 ELSE pic[c].offset) \/ n <= 2
        /\ x \in ChipStates
    BY <1>9, <2>2
  <2> QED
    BY <1>0, <1>1, <1>5, <2>4, SetUpOne
<1>10. CASE n = 9 \/ n = 10
  <2>1. w[n][2] = {}
    BY <1>10, TheWords
  <2>2. w[n][2] \in SUBSET (0..7) /\ pic[c].expects = "nothing"
    BY <1>6, <1>10, <2>1
  <2> HIDE DEF w, c
  <2>3. x \in ChipStates /\ x.expects = "nothing" /\ x.offset = pic[c].offset
        /\ x.isr = pic[c].isr
    BY <1>1, <2>2, MaskWritten
  <2> HIDE DEF x
  <2>4. /\ x.expects = (IF n <= 2 THEN "offset" ELSE IF n <= 4 THEN "cascade"
                       ELSE IF n <= 6 THEN "mode" ELSE "nothing")
        /\ x.isr = (IF n <= 2 THEN {} ELSE pic[c].isr)
        /\ x.offset = (IF n = 3 THEN 32 ELSE IF n = 4 THEN 40 ELSE pic[c].offset) \/ n <= 2
        /\ x \in ChipStates
    BY <1>10, <2>3
  <2> QED
    BY <1>0, <1>1, <1>5, <2>4, SetUpOne
<1> QED
  BY <1>2, <1>7, <1>8, <1>9, <1>10

LEMMA InitialisePICStep ==
  ASSUME InterruptsInv, InitialisePIC PROVE InterruptsInv'
<1> DEFINE top == run[Len(run)]
           step == IF top.n < 10 THEN "pic" ELSE "enable"
           b == Advance(top, step)
<1>1. /\ cpu.inta = "nobody" /\ top.step = "pic" /\ UNCHANGED <<cpu, stack, regs, left>>
      /\ InitialiseStep(InitWords(32, 40)[top.n], top.n)
      /\ run' = [run EXCEPT ![Len(run)].n = @ + 1,
                            ![Len(run)].step = IF top.n < 10 THEN @ ELSE "enable"]
  BY TheWords DEF InitialisePIC, At, Going, Current, Depth
<1>2. "pic" \in ThreadSteps /\ step \in ThreadSteps /\ step \in ThreadSteps \cup RoutineSteps
  BY DEF ThreadSteps
<1>3. /\ run \in Runs /\ Len(run) = 1 /\ Len(run) >= 1 /\ run[1].vector = Thread
      /\ top \in Activations /\ top = run[1]
  BY <1>1, <1>2, AtThread
<1>4. /\ run' = SetTop(run, b) /\ b \in Activations /\ b.vector = top.vector /\ b.step = step
      /\ b.n = top.n + 1
  <2>1. PICK more : more = (top.n < 10)
    OBVIOUS
  <2>2. step = IF more THEN run[Len(run)].step ELSE step
    BY <1>1, <2>1
  <2>3. run \in Runs /\ Len(run) >= 1
    BY <1>3
  <2>4. run' = [run EXCEPT ![Len(run)].n = @ + 1, ![Len(run)].step = IF more THEN @ ELSE step]
    BY <1>1, <2>1
  <2> HIDE DEF step
  <2>5. /\ [run EXCEPT ![Len(run)].n = @ + 1, ![Len(run)].step = IF more THEN @ ELSE step] =
             SetTop(run, Advance(run[Len(run)], step))
        /\ Advance(run[Len(run)], step) \in Activations
        /\ Advance(run[Len(run)], step).vector = run[Len(run)].vector
        /\ Advance(run[Len(run)], step).step = step
        /\ Advance(run[Len(run)], step).n = run[Len(run)].n + 1
    BY <1>2, <2>2, <2>3, AdvanceSetsTop
  <2> QED
    BY <2>4, <2>5
<1>5. top.n \in 1..10 /\ SetUpTo(pic, top.n)
  BY <1>1, <1>3 DEF InterruptsInv, SetupInv
<1> HIDE DEF b, top
<1>6. PICK n \in 1..10 : n = top.n
  BY <1>5
<1>7. pic' \in [Chips -> ChipStates] /\ SetUpTo(pic', n + 1)
  BY <1>1, <1>5, <1>6, SetUpStep DEF InterruptsInv
<1>8. /\ cpu' \in [if : BOOLEAN, inta : {"nobody", "PIC0", "PIC1"}] /\ cpu'.inta = "nobody"
      /\ ~cpu'.if
  <2>1. Masked(run[1]) /\ 1 \in 1..Len(run)
    BY <1>1, <1>3 DEF Masked
  <2>2. ~cpu.if
    BY <2>1, MaskedIsDisabled
  <2> QED
    BY <1>1, <2>2 DEF InterruptsInv, Types
<1>9. b.vector = Thread
  BY <1>3, <1>4
<1>10. /\ Types' /\ RunInv' /\ StackInv' /\ CountInv' /\ FlagInv' /\ HandlersDoNotNest'
       /\ Len(run') = 1 /\ run'[1] = b
  <2>1. run[Len(run)].step \in ThreadSteps /\ b.step \in ThreadSteps
    BY <1>1, <1>2, <1>4 DEF top
  <2> QED
    BY <1>1, <1>4, <1>7, <1>8, <1>9, <2>1, ThreadMoves
<1>11. SetupInv' /\ ServiceInv' /\ InServiceIsHandled'
  <2>1. \A k \in 2..Len(run') : FALSE
    BY <1>10
  <2>2. CASE n < 10
    <3>1. run'[1].step = "pic" /\ run'[1].n = n + 1 /\ n + 1 \in 1..10
      BY <1>4, <1>6, <1>10, <2>2
    <3> QED
      BY <1>7, <3>1 DEF SetupInv, ServiceInv, InServiceIsHandled
  <2>3. CASE n = 10
    <3>1. run'[1].step = "enable"
      BY <1>4, <1>6, <1>10, <2>3
    <3>2. /\ pic'["PIC0"].isr = {} /\ pic'["PIC1"].isr = {}
          /\ pic'["PIC0"].offset = 32 /\ pic'["PIC1"].offset = 40
      BY <1>7, <2>3 DEF SetUpTo
    <3> QED
      BY <2>1, <3>1, <3>2 DEF SetupInv, ServiceInv, InServiceIsHandled
  <2> QED
    BY <2>2, <2>3
<1> QED
  BY <1>10, <1>11 DEF InterruptsInv

-----------------------------------------------------------------------------
LEMMA InitInterrupts == Init => InterruptsInv
<1> SUFFICES ASSUME Init PROVE InterruptsInv
  OBVIOUS
<1> DEFINE a == [vector |-> Thread, step |-> "pic", n |-> 1]
<1>1. a \in Activations /\ a.vector = Thread /\ a.step = "pic" /\ a.n = 1
  BY DEF Activations, Thread, ThreadSteps
<1>2. /\ run = <<a>> /\ stack = <<>> /\ cpu = [if |-> FALSE, inta |-> "nobody"]
      /\ regs = [r \in Registers |-> 1]
      /\ left = [requests |-> MaxRequests, exceptions |-> MaxExceptions] /\ PicInit
  BY DEF Init
<1> HIDE DEF a
<1>3. run \in Seq(Activations) /\ Len(run) = 1 /\ run[1] = a /\ DOMAIN run = 1..1
  BY <1>1, <1>2
<1>4. /\ pic["PIC0"] = [expects |-> "nothing", offset |-> 8, cascade |-> 0, mask |-> 0..7,
                        irr |-> {}, isr |-> {0}]
      /\ pic["PIC1"] = [expects |-> "nothing", offset |-> 112, cascade |-> 0, mask |-> 0..7,
                        irr |-> {}, isr |-> {}]
      /\ pic = [c \in Chips |-> pic[c]]
  BY <1>2 DEF PicInit, Chips
<1>5. pic \in [Chips -> ChipStates]
  <2>1. pic["PIC0"] \in ChipStates /\ pic["PIC1"] \in ChipStates
    BY <1>4 DEF ChipStates
  <2> QED
    BY <1>4, <2>1 DEF Chips
<1>6. Types
  <2>1. stack \in Seq(Frames \cup Words)
    BY <1>2
  <2>2. regs \in RegFiles /\ left \in [requests : Int, exceptions : Int]
    BY <1>2, InterruptsAssumption DEF RegFiles
  <2>3. cpu \in [if : BOOLEAN, inta : {"nobody", "PIC0", "PIC1"}]
    BY <1>2
  <2> QED
    BY <1>3, <1>5, <2>1, <2>2, <2>3 DEF Types
<1>7. RunInv
  BY <1>1, <1>3 DEF RunInv, RunOf, ThreadSteps
<1>8. StackInv
  <2> DEFINE pos == [k \in 1..1 |-> 0]
  <2>1. pos \in [1..Len(run) -> Nat] /\ pos[1] = 0 /\ Len(stack) = 0 /\ ~cpu.if
    BY <1>2, <1>3
  <2> HIDE DEF pos
  <2>2. \A i \in 1..Len(run) : i = 1
    BY <1>3
  <2>3. \A k \in 2..Len(run) : FALSE
    BY <1>3
  <2>4. StackOf(stack, run, regs, cpu.if, pos)
    <3>1. \A i, j \in 1..Len(run) : i <= j => pos[i] <= pos[j]
      BY <2>1, <2>2
    <3>2. \A k, j \in 1..Len(run) : ~(k < j)
      BY <2>2
    <3> QED
      BY <1>3, <2>1, <2>3, <3>1, <3>2 DEF StackOf
  <2> QED
    BY <2>4 DEF StackInv
<1>9. CountInv
  <2>1. FrameIndices(stack) = {}
    BY <1>2 DEF FrameIndices
  <2> QED
    BY <1>3, <2>1, FS_EmptySet DEF CountInv
<1>10. FlagInv
  BY <1>2 DEF FlagInv
<1>11. SetupInv
  BY <1>1, <1>3, <1>4 DEF SetupInv, SetUpTo, Expected0, Expected1
<1>12. ServiceInv /\ InServiceIsHandled
  BY <1>1, <1>3 DEF ServiceInv, InServiceIsHandled
<1>13. HandlersDoNotNest
  BY <1>3 DEF HandlersDoNotNest
<1> QED
  BY <1>6, <1>7, <1>8, <1>9, <1>10, <1>11, <1>12, <1>13 DEF InterruptsInv

LEMMA NextInterrupts == InterruptsInv /\ [Next]_vars => InterruptsInv'
<1> SUFFICES ASSUME InterruptsInv, [Next]_vars PROVE InterruptsInv'
  OBVIOUS
<1>1. CASE Cpu
  BY <1>1, InitialisePICStep, EnableInterruptsStep, AcceptStep, AcknowledgePIC0Step,
     AcknowledgePIC1Step, PushRegistersStep, CallHandlerStep, SendEOIStep, PopRegistersStep,
     IretqStep, PanicStep DEF Cpu
<1>2. ASSUME NEW line \in Lines, DeviceRequests(line) \/ DeviceWithdraws(line)
      PROVE  InterruptsInv'
  BY <1>2, DeviceRequestsStep, DeviceWithdrawsStep
<1>3. ASSUME NEW vector \in Exceptions, Exception(vector) PROVE InterruptsInv'
  BY <1>3, ExceptionStep
<1>4. CASE UNCHANGED vars
  <2>1. UNCHANGED <<pic, cpu, run, stack, regs, left>>
    BY <1>4 DEF vars
  <2>2. Types' /\ RunInv' /\ StackInv' /\ CountInv' /\ FlagInv'
    BY <2>1 DEF InterruptsInv, Types, RunInv, StackInv, CountInv, FlagInv
  <2>3. SetupInv' /\ ServiceInv' /\ HandlersDoNotNest'
    BY <2>1 DEF InterruptsInv, SetupInv, ServiceInv, HandlersDoNotNest
  <2>4. InServiceIsHandled'
    BY <2>1 DEF InterruptsInv, InServiceIsHandled, Handling
  <2> QED
    BY <2>2, <2>3, <2>4 DEF InterruptsInv
<1> QED
  BY <1>1, <1>2, <1>3, <1>4 DEF Next

(* The inductive invariant: whatever interrupts whatever, each activation  *)
(* has its own frame, error code and registers on the stack (Interrupts.S) *)
(* and no frame below a masked one has the interrupt flag set.             *)
THEOREM InterruptsInvariant == Spec => []InterruptsInv
BY InitInterrupts, NextInterrupts, PTL DEF Spec

(* A handler of a line is never interrupted by that of another: an IRQ's   *)
(* gate clears the interrupt flag, every exception on top of it saves the  *)
(* cleared flag in its frame, and every iretq finds its own frame.         *)
THEOREM HandlersRunToTheirEnd == Spec => []HandlersDoNotNest
<1>1. InterruptsInv => HandlersDoNotNest
  BY DEF InterruptsInv
<1> QED
  BY <1>1, InterruptsInvariant, PTL

(* No EOI of the handlers (InterruptHandlers.c, DexprOS_PIC_SendEOI) ends  *)
(* an interrupt but its own, and none is left in service but on line 7.    *)
THEOREM EoisHitTheirOwn == Spec => []InServiceIsHandled
<1>1. InterruptsInv => InServiceIsHandled
  BY DEF InterruptsInv
<1> QED
  BY <1>1, InterruptsInvariant, PTL

(* The routines of Interrupts.S return with the stack and the registers    *)
(* they save as they came, to any depth.                                   *)
THEOREM RoutinesReturn == Spec => []ReturnsAsItCame
<1>1. InterruptsInv => ReturnsAsItCame
  <2> SUFFICES ASSUME InterruptsInv, Current.step = "iret" PROVE ReturnsAsItCame
    BY DEF ReturnsAsItCame
  <2>1. PICK pos : StackOf(stack, run, regs, cpu.if, pos)
    BY DEF InterruptsInv, StackInv
  <2>2. PICK base : base = pos[Len(run) - 1]
    OBVIOUS
  <2>3. run[Len(run)].step = "iret"
    BY DEF Current, Depth
  <2>4. /\ base \in Nat /\ AtIretq \in Stacks /\ Len(AtIretq) = base + 1
        /\ \A i \in 1..(base + 1) : AtIretq[i] = stack[i]
        /\ stack[base + 1] \in Frames
        /\ \A i \in 1..7 :
             regs[SavedRegisters[i]] = stack[base + 1].value.regs[SavedRegisters[i]]
        /\ Len(stack) >= base + 1 /\ Len(stack) \in Nat
        /\ \A i \in (base + 2)..Len(stack) : stack[i].is # "frame"
    BY <2>1, <2>2, <2>3, FoundByIretq
  <2>5. Last(AtIretq) = stack[base + 1] /\ AtIretq # <<>>
    <3>1. Last(AtIretq) = AtIretq[base + 1] /\ base + 1 \in 1..(base + 1)
      BY <2>4 DEF Last
    <3>2. AtIretq # <<>>
      BY <2>4
    <3> QED
      BY <2>4, <3>1, <3>2
  <2>6. Last(AtIretq).is = "frame"
    BY <2>4, <2>5 DEF Frames
  <2>7. \A r \in Range(SavedRegisters) : Last(AtIretq).value.regs[r] = regs[r]
    BY <2>4, <2>5, SavedFacts
  <2>8. FrameIndices(stack) = FrameIndices(AtIretq)
    <3>1. /\ Len(stack) >= Len(AtIretq)
          /\ \A i \in 1..Len(AtIretq) : stack[i] = AtIretq[i]
          /\ \A i \in (Len(AtIretq) + 1)..Len(stack) : stack[i].is # "frame"
      <4>1. (base + 1) + 1 = base + 2
        BY <2>4
      <4> QED
        BY <2>4, <4>1
    <3>2. stack \in Stacks
      BY DEF InterruptsInv, Types, Stacks
    <3> QED
      BY <2>4, <3>1, <3>2, NoFrameAdded
  <2>9. {i \in DOMAIN AtIretq : AtIretq[i].is = "frame"} = FrameIndices(AtIretq)
    <3>1. DOMAIN AtIretq = 1..Len(AtIretq)
      BY <2>4 DEF Stacks
    <3> QED
      BY <3>1 DEF FrameIndices
  <2> QED
    BY <2>5, <2>6, <2>7, <2>8, <2>9 DEF InterruptsInv, CountInv, ReturnsAsItCame, Depth
<1> QED
  BY <1>1, InterruptsInvariant, PTL

LEMMA BelowTop ==
  ASSUME NEW n \in Nat, NEW k \in 1..n, k # n PROVE k \in 1..(n - 1)
OBVIOUS

(* Panics stay where they are among the activations. *)
LEMMA TopIsReplaced ==
  ASSUME InterruptsInv, DOMAIN run' = DOMAIN run,
         \A k \in DOMAIN run : k # Len(run) => run'[k] = run[k],
         run[Len(run)].step \notin {"print", "halt"} \/ run'[Len(run)].step \in {"print", "halt"}
  PROVE  Panicking(run) \subseteq Panicking(run')
BY DEF Panicking

LEMMA PanicsStay ==
  ASSUME InterruptsInv, [Next]_vars PROVE Panicking(run) \subseteq Panicking(run')
<1>1. run \in Runs /\ Len(run) \in Nat /\ Len(run) >= 1 /\ DOMAIN run = 1..Len(run)
  BY DEF InterruptsInv, Types, RunInv, RunOf, Runs
<1>2. CASE run' = run
  BY <1>2
<1>3. ASSUME NEW v, Enter(v) PROVE Panicking(run) \subseteq Panicking(run')
  <2>1. /\ DOMAIN run' = 1..(Len(run) + 1)
        /\ \A k \in 1..Len(run) : run'[k] = run[k]
    BY <1>1, <1>3 DEF Enter, Runs
  <2>2. \A k \in 1..Len(run) : k \in 1..(Len(run) + 1)
    BY <1>1
  <2> QED
    BY <1>1, <2>1, <2>2 DEF Panicking
<1>4. ASSUME NEW x, Step(x), run[Len(run)].step \notin {"print", "halt"} \/ x = "halt"
      PROVE  Panicking(run) \subseteq Panicking(run')
  <2>1. run' = [run EXCEPT ![Len(run)].step = x]
    BY <1>4 DEF Step, Depth
  <2>2. /\ DOMAIN run' = DOMAIN run
        /\ \A k \in DOMAIN run : k # Len(run) => run'[k] = run[k]
    BY <1>1, <2>1 DEF Runs
  <2>3. run'[Len(run)].step = x
    <3>1. Len(run) \in 1..Len(run) /\ run[Len(run)] \in Activations
      BY <1>1 DEF Runs
    <3> QED
      BY <1>1, <2>1, <3>1 DEF Activations
  <2> QED
    BY <1>4, <2>2, <2>3, TopIsReplaced
<1>5. CASE InitialisePIC \/ SendEOI
  <2>1. run[Len(run)].step \notin {"print", "halt"}
    BY <1>5 DEF InitialisePIC, SendEOI, At, Current, Depth
  <2>2. /\ DOMAIN run' = DOMAIN run
        /\ \A k \in DOMAIN run : k # Len(run) => run'[k] = run[k]
    BY <1>1, <1>5 DEF InitialisePIC, SendEOI, Depth, Runs
  <2> QED
    BY <2>1, <2>2, TopIsReplaced
<1>6. CASE EnableInterrupts
  BY <1>4, <1>6 DEF EnableInterrupts, At, Current, Depth
<1>7. CASE PushRegisters
  BY <1>4, <1>7 DEF PushRegisters, At, Current, Depth
<1>8. CASE CallHandler
  <2>1. run[Len(run)].step = "call" /\ \E x : Step(x)
    BY <1>8 DEF CallHandler, At, Current, Depth
  <2> QED
    BY <1>4, <2>1
<1>9. CASE PopRegisters
  BY <1>4, <1>9 DEF PopRegisters, At, Current, Depth
<1>10. CASE PanicDisablesInterrupts
  BY <1>4, <1>10 DEF PanicDisablesInterrupts, At, Current, Depth
<1>11. CASE PanicPrints
  BY <1>4, <1>11 DEF PanicPrints
<1>12. CASE Iretq
  <2>1. run[Len(run)].step = "iret" /\ run' = Front(run)
    BY <1>12 DEF Iretq, At, Current, Depth
  <2>2. "iret" \in RoutineSteps
    BY DEF RoutineSteps, Unsaved
  <2>3. Len(run) >= 2
    BY <2>1, <2>2, AtRoutine
  <2>4. /\ run' \in Runs /\ Len(run') = Len(run) - 1
        /\ \A k \in 1..Len(run') : k \in 1..Len(run) /\ run'[k] = run[k]
    BY <2>1, <2>3, Returned DEF InterruptsInv
  <2>5. DOMAIN run' = 1..(Len(run) - 1)
    BY <2>4 DEF Runs
  <2>6. ASSUME NEW k \in Panicking(run) PROVE k \in Panicking(run')
    <3>1. k \in 1..Len(run) /\ run[k].step \in {"print", "halt"} /\ k # Len(run)
      BY <1>1, <2>1, <2>6 DEF Panicking
    <3>2. k \in 1..(Len(run) - 1)
      BY <1>1, <3>1, BelowTop
    <3> QED
      BY <2>4, <2>5, <3>1, <3>2 DEF Panicking
  <2> QED
    BY <2>6
<1>13. CASE AcceptInterrupt
  BY <1>2, <1>13 DEF AcceptInterrupt
<1>14. CASE AcknowledgePIC0
  BY <1>2, <1>3, <1>14 DEF AcknowledgePIC0
<1>15. CASE AcknowledgePIC1
  BY <1>3, <1>15 DEF AcknowledgePIC1
<1>16. ASSUME NEW line \in Lines, DeviceRequests(line) \/ DeviceWithdraws(line)
       PROVE  run' = run
  BY <1>16 DEF DeviceRequests, DeviceWithdraws
<1>17. ASSUME NEW v \in Exceptions, Exception(v) PROVE Enter(v)
  BY <1>17 DEF Exception
<1> QED
  BY <1>2, <1>3, <1>5, <1>6, <1>7, <1>8, <1>9, <1>10, <1>11, <1>12, <1>13, <1>14, <1>15, <1>16,
     <1>17 DEF Next, Cpu, vars

(* Once DexprOS_KernelPanic has disabled interrupts nothing brings the     *)
(* kernel back: no exception on top of the panic, NMIs included, enables   *)
(* them again, and the halt loop is never left.                            *)
THEOREM PanicsAreFinal == Spec => PanicIsFinal
<1>1. InterruptsInv /\ InterruptsInv' /\ [Next]_vars =>
        [Panicking(run) # {} => Panicking(run) \subseteq Panicking(run') /\ ~cpu'.if]_vars
  <2> SUFFICES ASSUME InterruptsInv, InterruptsInv', [Next]_vars, Panicking(run) # {}
               PROVE  Panicking(run) \subseteq Panicking(run') /\ ~cpu'.if
    OBVIOUS
  <2>1. Panicking(run) \subseteq Panicking(run')
    BY PanicsStay
  <2>2. PICK k : k \in Panicking(run')
    BY <2>1
  <2>3. k \in DOMAIN run' /\ run'[k].step \in {"print", "halt"}
    BY <2>2 DEF Panicking
  <2>4. k \in 1..Len(run') /\ Masked(run'[k])
    BY <2>3 DEF InterruptsInv, Types, Masked
  <2>5. ~cpu'.if
    BY <2>4 DEF InterruptsInv, StackInv, StackOf
  <2> QED
    BY <2>1, <2>5
<1> QED
  BY <1>1, InterruptsInvariant, PTL DEF Spec, PanicIsFinal
=============================================================================

--------------------- MODULE PS2KeyboardDriver_proofs ---------------------
(***************************************************************************)
(* The driver's invariants for every queue size, resend limit, scan code   *)
(* table, layout and sequence of received bytes; then those of the driver  *)
(* with its keyboard and user, for every set of keys, every codes of the   *)
(* tables and every session.                                               *)
(***************************************************************************)
EXTENDS PS2KeyboardSystem, FiniteSetTheorems, TLAPS

(* What the operators on the command channel keep. *)
ChannelInv(c) ==
  /\ c \in Channels
  /\ Len(c.queue) <= MaxCommands
  /\ c.queue = <<>> <=> c.state = "FREE"
  /\ c.written # <<>> => c.queue # <<>> /\ c.written = CommandBytes(Head(c.queue))

(* The decoder is inside the sequence it compares with. *)
DecoderInv(d) ==
  /\ d \in Decoders
  /\ d.mode = "SEQUENCE" =>
       /\ d.sequence \in SpecialSequences[d.table]
       /\ d.index \in 1..(Len(d.sequence.bytes) - 1)

LEMMA CommandBytesType ==
  ASSUME NEW c \in Commands
  PROVE  CommandBytes(c) \in Seq(Nat) /\ CommandBytes(c) # <<>>
BY DEF CommandBytes, Commands

(* Executing the head of a nonempty queue from a channel that has written  *)
(* nothing yet gives a waiting channel that has written its head.          *)
LEMMA ExecuteKeepsChannel ==
  ASSUME NEW c \in Channels, c.queue # <<>>, c.written = <<>>,
         Len(c.queue) <= MaxCommands
  PROVE  /\ ChannelInv(ExecuteCommand(c))
         /\ ExecuteCommand(c).resends = c.resends
         /\ ExecuteCommand(c).queue = c.queue
<1>1. Head(c.queue) \in Commands
  BY DEF Channels
<1>2. /\ CommandBytes(Head(c.queue)) \in Seq(Nat)
      /\ CommandBytes(Head(c.queue)) # <<>>
  BY <1>1, CommandBytesType
<1>3. <<>> \o CommandBytes(Head(c.queue)) = CommandBytes(Head(c.queue))
  BY <1>2
<1> DEFINE e == ExecuteCommand(c)
<1>4. c.written \o CommandBytes(Head(c.queue)) = CommandBytes(Head(c.queue))
  BY <1>3
<1>5. /\ e.queue = c.queue
      /\ e.state = "WAITING"
      /\ e.resends = c.resends
      /\ e.written = CommandBytes(Head(c.queue))
  BY <1>4 DEF ExecuteCommand, Channels
<1>6. e \in Channels
  BY <1>2, <1>4 DEF ExecuteCommand, Channels
<1> QED
  BY <1>2, <1>5, <1>6 DEF ChannelInv

LEMMA PushKeepsChannel ==
  ASSUME NEW c, ChannelInv(c), NEW command \in Commands
  PROVE  ChannelInv(PushCommand(c, command))
<1> DEFINE pushed == [c EXCEPT !.queue = Append(@, command)]
<1>1. CASE Len(c.queue) = MaxCommands
  BY <1>1 DEF PushCommand
<1>2. CASE Len(c.queue) # MaxCommands
  <2>0. /\ c \in Channels
        /\ Append(c.queue, command) \in Seq(Commands)
        /\ Append(c.queue, command) # <<>>
    BY DEF ChannelInv, Channels
  <2>1. /\ pushed \in Channels
        /\ pushed.queue = Append(c.queue, command)
        /\ pushed.queue # <<>>
        /\ pushed.state = c.state
        /\ pushed.written = c.written
    BY <2>0 DEF Channels
  <2>2. Len(pushed.queue) <= MaxCommands
    BY <1>2, <2>1, QueueAssumption DEF ChannelInv, Channels
  <2>3. CASE c.state = "FREE"
    <3>1. c.written = <<>>
      BY <2>3 DEF ChannelInv
    <3>2. ChannelInv(ExecuteCommand(pushed))
      BY <2>1, <2>2, <3>1, ExecuteKeepsChannel
    <3> QED
      BY <1>2, <2>3, <3>2 DEF PushCommand
  <2>4. CASE c.state # "FREE"
    <3>1. c.queue # <<>> /\ c.queue \in Seq(Commands)
      BY <2>4 DEF ChannelInv, Channels
    <3>2. Head(pushed.queue) = Head(c.queue)
      BY <2>1, <3>1
    <3>3. ChannelInv(pushed)
      BY <2>1, <2>2, <2>4, <3>1, <3>2 DEF ChannelInv
    <3> QED
      BY <1>2, <2>4, <3>3 DEF PushCommand
  <2> QED
    BY <2>3, <2>4
<1> QED
  BY <1>1, <1>2

LEMMA NextKeepsChannel ==
  ASSUME NEW c, ChannelInv(c), c.written = <<>>
  PROVE  ChannelInv(NextCommand(c))
<1> DEFINE popped == [c EXCEPT !.state = "FREE", !.resends = 0,
                               !.queue = IF @ = <<>> THEN @ ELSE Tail(@)]
           rest == IF c.queue = <<>> THEN c.queue ELSE Tail(c.queue)
<1>1. rest \in Seq(Commands) /\ Len(rest) <= MaxCommands
  BY QueueAssumption DEF ChannelInv, Channels
<1>2. /\ popped.queue = rest
      /\ popped.state = "FREE"
      /\ popped.resends = 0
      /\ popped.written = <<>>
  BY DEF ChannelInv, Channels
<1>3. popped \in Channels
  <2>1. c \in Channels /\ 0 \in 0..MaxResends
    BY QueueAssumption DEF ChannelInv
  <2>2. popped = [c EXCEPT !.state = "FREE", !.resends = 0, !.queue = rest]
    OBVIOUS
  <2> HIDE DEF rest
  <2>3. [c EXCEPT !.state = "FREE", !.resends = 0, !.queue = rest] \in Channels
    BY <1>1, <2>1 DEF Channels
  <2> QED
    BY <2>2, <2>3
<1>4. CASE popped.queue = <<>>
  BY <1>1, <1>2, <1>3, <1>4 DEF NextCommand, ChannelInv
<1>5. CASE popped.queue # <<>>
  BY <1>1, <1>2, <1>3, <1>5, ExecuteKeepsChannel DEF NextCommand
<1> QED
  BY <1>4, <1>5

LEMMA ResendKeepsChannel ==
  ASSUME NEW c, ChannelInv(c), c.written = <<>>
  PROVE  ChannelInv(ResendCommand(c))
<1>1. CASE c.queue = <<>> \/ c.state # "WAITING"
  BY <1>1 DEF ResendCommand
<1>2. CASE ~(c.queue = <<>> \/ c.state # "WAITING") /\ c.resends < MaxResends
  <2>1. ChannelInv(ExecuteCommand(c)) /\ ExecuteCommand(c).resends = c.resends
    BY <1>2, ExecuteKeepsChannel DEF ChannelInv
  <2>2. ResendCommand(c) = [ExecuteCommand(c) EXCEPT !.resends = @ + 1]
    BY <1>2 DEF ResendCommand
  <2> DEFINE e == ExecuteCommand(c)
  <2>3. c.resends + 1 \in 0..MaxResends
    BY <1>2, QueueAssumption DEF ChannelInv, Channels
  <2>4. ResendCommand(c) = [e EXCEPT !.resends = c.resends + 1]
    BY <2>1, <2>2
  <2> DEFINE r == [e EXCEPT !.resends = c.resends + 1]
  <2>5. e \in Channels
    BY <2>1 DEF ChannelInv
  <2> HIDE DEF e
  <2>6. /\ r \in Channels
        /\ r.queue = e.queue /\ r.state = e.state /\ r.written = e.written
    BY <2>3, <2>5 DEF Channels
  <2>7. ChannelInv(r)
    BY <2>1, <2>6 DEF ChannelInv, e
  <2> QED
    BY <2>4, <2>7
<1>3. CASE ~(c.queue = <<>> \/ c.state # "WAITING") /\ ~(c.resends < MaxResends)
  BY <1>3, NextKeepsChannel DEF ResendCommand
<1> QED
  BY <1>1, <1>2, <1>3

(* InitialisePS2Keyboard queues its four commands one by one. *)
LEMMA InitialiseKeepsChannel ==
  ASSUME NEW c, ChannelInv(c), NEW lk
  PROVE  ChannelInv(InitialiseKeyboard(c, lk)) /\ ChannelInv(UpdateIndicatorLEDs(c, lk))
<1>1. LedBits(lk) \in Nat
  BY DEF LedBits, Bit
<1>2. /\ Command(SetScanCodeSet, 2) \in Commands
      /\ Command(SetTypematicByte, 32) \in Commands
      /\ Command(EnableScanning, 0) \in Commands
      /\ Command(SetLedStates, LedBits(lk)) \in Commands
  BY <1>1 DEF Command, Commands, SetScanCodeSet, SetTypematicByte, EnableScanning, SetLedStates
<1> HIDE DEF LedBits
<1> DEFINE c1 == PushCommand(c, Command(SetScanCodeSet, 2))
           c2 == PushCommand(c1, Command(SetTypematicByte, 32))
           c3 == PushCommand(c2, Command(EnableScanning, 0))
<1>3. ChannelInv(c1)
  BY <1>2, PushKeepsChannel
<1>4. ChannelInv(c2)
  <2> HIDE DEF c1
  <2> QED BY <1>2, <1>3, PushKeepsChannel
<1>5. ChannelInv(c3)
  <2> HIDE DEF c2
  <2> QED BY <1>2, <1>4, PushKeepsChannel
<1>6. ChannelInv(UpdateIndicatorLEDs(c3, lk))
  <2> HIDE DEF c3
  <2> QED BY <1>2, <1>5, PushKeepsChannel DEF UpdateIndicatorLEDs
<1>7. ChannelInv(UpdateIndicatorLEDs(c, lk))
  BY <1>2, PushKeepsChannel DEF UpdateIndicatorLEDs
<1> QED
  BY <1>6, <1>7 DEF InitialiseKeyboard

-----------------------------------------------------------------------------
(* Decoding a byte keeps the decoder in bounds and yields a known key.     *)

LEMMA FinishedType ==
  ASSUME NEW d \in Decoders, NEW result, NEW key \in Keys, NEW action \in KeyActions
  PROVE  LET r == Finished(d, result, key, action)
         IN  /\ DecoderInv(r.decoder) /\ r.key \in Keys /\ r.action \in KeyActions
             /\ r.result = result
<1> DEFINE e == [d EXCEPT !.mode = "LOOKUP", !.table = GlobalTable]
<1>1. e \in Decoders /\ e.mode = "LOOKUP"
  BY TablesAssumption DEF Decoders
<1>2. DecoderInv(e)
  BY <1>1 DEF DecoderInv
<1> HIDE DEF e
<1> QED
  BY <1>2 DEF Finished, Result, e

LEMMA PartialType ==
  ASSUME NEW d, DecoderInv(d)
  PROVE  LET r == PartiallyDecoded(d)
         IN  DecoderInv(r.decoder) /\ r.key \in Keys /\ r.action \in KeyActions
BY KeysAssumption DEF PartiallyDecoded, Result, KeyActions

LEMMA DecodedOrFailedType ==
  ASSUME NEW d \in Decoders, NEW k, k.key \in Keys, k.action \in KeyActions
  PROVE  LET r == DecodedOrFailed(d, k)
         IN  DecoderInv(r.decoder) /\ r.key \in Keys /\ r.action \in KeyActions
<1>1. Unknown \in Keys /\ "NONE" \in KeyActions
  BY KeysAssumption DEF KeyActions
<1> QED
  BY <1>1, FinishedType DEF DecodedOrFailed

LEMMA LookupType ==
  ASSUME NEW d, DecoderInv(d), d.mode = "LOOKUP", NEW code
  PROVE  LET r == ProcessCodeByLookup(d, code)
         IN  DecoderInv(r.decoder) /\ r.key \in Keys /\ r.action \in KeyActions
<1> DEFINE starting == {s \in SpecialSequences[d.table] : Head(s.bytes) = code}
           seq == CHOOSE s \in starting : TRUE
           OK(r) == DecoderInv(r.decoder) /\ r.key \in Keys /\ r.action \in KeyActions
<1>1. d \in Decoders /\ d.table \in ScanTables
  BY DEF DecoderInv, Decoders
<1>2. CASE code \in DOMAIN ByteExtendCodes[d.table]
  <2> DEFINE e == [d EXCEPT !.table = ByteExtendCodes[d.table][code]]
  <2>1. ByteExtendCodes[d.table][code] \in ScanTables
    BY <1>1, <1>2, TablesAssumption
  <2>2. e \in Decoders /\ e.mode = "LOOKUP"
    BY <1>1, <2>1 DEF Decoders
  <2>3. DecoderInv(e)
    BY <2>2 DEF DecoderInv
  <2> HIDE DEF e
  <2>4. OK(PartiallyDecoded(e))
    BY <2>3, PartialType
  <2> QED
    BY <1>2, <2>4 DEF ProcessCodeByLookup, e
<1>3. ASSUME starting # {}
      PROVE  seq \in SpecialSequences[d.table] /\ seq \in SequenceRecords /\ seq.bytes # <<>>
  BY <1>1, <1>3, TablesAssumption
<1>4. CASE code \notin DOMAIN ByteExtendCodes[d.table] /\ starting # {} /\ Len(seq.bytes) > 1
  <2> DEFINE e == [d EXCEPT !.mode = "SEQUENCE", !.sequence = seq, !.index = 1]
  <2>1. seq \in SpecialSequences[d.table] /\ seq \in SequenceRecords
    BY <1>3, <1>4
  <2>2. ProcessCodeByLookup(d, code) = PartiallyDecoded(e)
    BY <1>4 DEF ProcessCodeByLookup
  <2>3. Len(seq.bytes) \in Nat /\ Len(seq.bytes) > 1
    BY <1>4, <2>1 DEF SequenceRecords
  <2> HIDE DEF seq
  <2>4. /\ e \in Decoders
        /\ e.sequence = seq /\ e.index = 1 /\ e.table = d.table
    BY <1>1, <2>1 DEF Decoders
  <2>5. DecoderInv(e)
    BY <2>1, <2>3, <2>4 DEF DecoderInv
  <2> HIDE DEF e
  <2> QED
    BY <2>2, <2>5, PartialType
<1>5. CASE code \notin DOMAIN ByteExtendCodes[d.table] /\ starting # {} /\ ~(Len(seq.bytes) > 1)
  <2>1. ProcessCodeByLookup(d, code) = DecodedOrFailed(d, seq)
    BY <1>5 DEF ProcessCodeByLookup
  <2>2. seq.key \in Keys /\ seq.action \in KeyActions
    BY <1>3, <1>5 DEF SequenceRecords
  <2> HIDE DEF seq
  <2> QED
    BY <1>1, <2>1, <2>2, DecodedOrFailedType
<1>6. CASE /\ code \notin DOMAIN ByteExtendCodes[d.table] /\ starting = {}
           /\ code \in DOMAIN KeysPerByte[d.table]
  <2>1. ProcessCodeByLookup(d, code) = DecodedOrFailed(d, KeysPerByte[d.table][code])
    BY <1>6 DEF ProcessCodeByLookup
  <2>2. KeysPerByte[d.table][code] \in MapKeys
    BY <1>1, <1>6, TablesAssumption
  <2> QED
    BY <1>1, <2>1, <2>2, DecodedOrFailedType DEF MapKeys
<1>7. CASE /\ code \notin DOMAIN ByteExtendCodes[d.table] /\ starting = {}
           /\ code \notin DOMAIN KeysPerByte[d.table]
  <2>1. ProcessCodeByLookup(d, code) = Finished(d, "FAILURE", Unknown, "NONE")
    BY <1>7 DEF ProcessCodeByLookup
  <2>2. Unknown \in Keys /\ "NONE" \in KeyActions
    BY KeysAssumption DEF KeyActions
  <2> QED
    BY <1>1, <2>1, <2>2, FinishedType
<1> QED
  BY <1>2, <1>4, <1>5, <1>6, <1>7

LEMMA SequenceType ==
  ASSUME NEW d, DecoderInv(d), d.mode = "SEQUENCE", NEW code
  PROVE  LET r == ProcessByteSequenceCode(d, code)
         IN  DecoderInv(r.decoder) /\ r.key \in Keys /\ r.action \in KeyActions
<1>1. /\ d \in Decoders /\ d.sequence \in SequenceRecords
      /\ d.sequence \in SpecialSequences[d.table]
      /\ d.index \in 1..(Len(d.sequence.bytes) - 1)
      /\ Len(d.sequence.bytes) \in Nat
  BY DEF DecoderInv, Decoders, SequenceRecords
<1>2. Unknown \in Keys /\ "NONE" \in KeyActions
  BY KeysAssumption DEF KeyActions
<1>3. CASE code # d.sequence.bytes[d.index + 1]
  BY <1>1, <1>2, <1>3, FinishedType DEF ProcessByteSequenceCode
<1>4. CASE code = d.sequence.bytes[d.index + 1] /\ d.index + 1 = Len(d.sequence.bytes)
  <2>1. d.sequence.key \in Keys /\ d.sequence.action \in KeyActions
    BY <1>1 DEF SequenceRecords
  <2> QED
    BY <1>1, <1>4, <2>1, DecodedOrFailedType DEF ProcessByteSequenceCode
<1>5. CASE code = d.sequence.bytes[d.index + 1] /\ d.index + 1 # Len(d.sequence.bytes)
  <2> DEFINE e == [d EXCEPT !.index = @ + 1]
  <2>1. /\ e \in Decoders
        /\ e.index = d.index + 1 /\ e.sequence = d.sequence /\ e.table = d.table
    BY <1>1 DEF Decoders
  <2>2. DecoderInv(e)
    BY <1>1, <1>5, <2>1 DEF DecoderInv
  <2>3. ProcessByteSequenceCode(d, code) = PartiallyDecoded(e)
    BY <1>5 DEF ProcessByteSequenceCode
  <2> HIDE DEF e
  <2> QED
    BY <2>2, <2>3, PartialType
<1> QED
  BY <1>3, <1>4, <1>5

LEMMA DecodeType ==
  ASSUME NEW d, DecoderInv(d), NEW code
  PROVE  /\ DecoderInv(Decode(d, code).decoder)
         /\ Decode(d, code).key \in Keys
         /\ Decode(d, code).action \in KeyActions
BY LookupType, SequenceType DEF Decode, DecoderInv, Decoders

-----------------------------------------------------------------------------
(* Key states, modifiers and locks. *)

KeyStateSet == {"RELEASED", "PRESSED", "REPEAT"}
LockSet == [active : BOOLEAN, justActivated : BOOLEAN]
ModifierSet == [shift : BOOLEAN, control : BOOLEAN, leftAlt : BOOLEAN, rightAlt : BOOLEAN]

(* ModifiersMatchKeys and LocksFollowKeys for given values. *)
ModifiersOK(m, ks) ==
  /\ m.shift = AnyHeld(ks, ShiftKeys)
  /\ m.control = AnyHeld(ks, ControlKeys)
  /\ m.leftAlt = AnyHeld(ks, {"LEFT_ALT"})
  /\ m.rightAlt = AnyHeld(ks, {"RIGHT_ALT"})

LockOK(lock, state) ==
  /\ state # "RELEASED" => lock.active
  /\ lock.justActivated => state # "RELEASED"

(* Switching a lock with the state its key has just entered. *)
LEMMA SwitchLockOK ==
  ASSUME NEW lock \in LockSet, NEW old \in KeyStateSet, NEW action \in KeyActions,
         LockOK(lock, old)
  PROVE  LET new == UpdateKeyState(old, action)
         IN  SwitchLock(lock, new) \in LockSet /\ LockOK(SwitchLock(lock, new), new)
<1> DEFINE new == UpdateKeyState(old, action)
<1> SUFFICES SwitchLock(lock, new) \in LockSet /\ LockOK(SwitchLock(lock, new), new)
  OBVIOUS
<1>1. new \in KeyStateSet /\ (new = "REPEAT" => old # "RELEASED")
  BY DEF UpdateKeyState, KeyStateSet, KeyActions
<1> HIDE DEF new
<1>2. CASE lock.active /\ new # "RELEASED"
  BY <1>2 DEF SwitchLock, LockOK, LockSet
<1>3. CASE lock.active /\ new = "RELEASED" /\ lock.justActivated
  BY <1>3 DEF SwitchLock, LockOK, LockSet
<1>4. CASE lock.active /\ new = "RELEASED" /\ ~lock.justActivated
  BY <1>4 DEF SwitchLock, LockOK, LockSet
<1>5. CASE ~lock.active /\ new = "PRESSED"
  <2> DEFINE on == [active |-> TRUE, justActivated |-> TRUE]
  <2>1. SwitchLock(lock, new) = on
    BY <1>5 DEF SwitchLock
  <2>2. on \in LockSet /\ on.active /\ on.justActivated
    BY DEF LockSet
  <2>3. LockOK(on, new)
    BY <1>5, <2>2 DEF LockOK
  <2> QED
    BY <2>1, <2>2, <2>3
<1>6. CASE ~lock.active /\ new # "PRESSED"
  <2>1. new = "RELEASED" /\ ~lock.justActivated
    BY <1>1, <1>6 DEF LockOK, KeyStateSet, LockSet
  <2>2. SwitchLock(lock, new) = lock
    BY <1>6 DEF SwitchLock
  <2> QED
    BY <2>1, <2>2 DEF LockOK
<1> QED
  BY <1>2, <1>3, <1>4, <1>5, <1>6 DEF LockSet

(* Recomputing the flag of the key that changed keeps all four right. *)
LEMMA UpdateModifiersOK ==
  ASSUME NEW m \in ModifierSet, NEW ks \in [Keys -> KeyStateSet], ModifiersOK(m, ks),
         NEW key \in Keys, NEW state \in KeyStateSet
  PROVE  LET new == [ks EXCEPT ![key] = state]
         IN  /\ UpdateModifiers(m, key, new) \in ModifierSet
             /\ ModifiersOK(UpdateModifiers(m, key, new), new)
<1> DEFINE new == [ks EXCEPT ![key] = state]
           u == UpdateModifiers(m, key, new)
<1> SUFFICES u \in ModifierSet /\ ModifiersOK(u, new)
  OBVIOUS
<1>0. \A keys \in SUBSET Keys : key \notin keys => AnyHeld(new, keys) = AnyHeld(ks, keys)
  BY DEF AnyHeld
<1>1. /\ ShiftKeys \in SUBSET Keys /\ ControlKeys \in SUBSET Keys
      /\ {"LEFT_ALT"} \in SUBSET Keys /\ {"RIGHT_ALT"} \in SUBSET Keys
  BY KeysAssumption DEF SpecialKeys
<1>2. \A keys : AnyHeld(new, keys) \in BOOLEAN
  BY DEF AnyHeld
<1>3. /\ key \notin ShiftKeys => AnyHeld(new, ShiftKeys) = m.shift
      /\ key \notin ControlKeys => AnyHeld(new, ControlKeys) = m.control
      /\ key # "LEFT_ALT" => AnyHeld(new, {"LEFT_ALT"}) = m.leftAlt
      /\ key # "RIGHT_ALT" => AnyHeld(new, {"RIGHT_ALT"}) = m.rightAlt
  BY <1>0, <1>1, Zenon DEF ModifiersOK
<1> HIDE DEF new
<1>4. CASE key \in ShiftKeys
  <2>1. key \notin ControlKeys /\ key # "LEFT_ALT" /\ key # "RIGHT_ALT"
    BY <1>4 DEF ShiftKeys, ControlKeys
  <2>2. u = [m EXCEPT !.shift = AnyHeld(new, ShiftKeys)]
    BY <1>4, <2>1 DEF UpdateModifiers
  <2>3. u \in ModifierSet
    BY <1>2, <2>2 DEF ModifierSet
  <2>4. /\ u.shift = AnyHeld(new, ShiftKeys)
        /\ u.control = m.control /\ u.leftAlt = m.leftAlt /\ u.rightAlt = m.rightAlt
    BY <2>2 DEF ModifierSet
  <2> QED
    BY <1>3, <2>1, <2>3, <2>4, Zenon DEF ModifiersOK
<1>5. CASE key \in ControlKeys
  <2>1. key \notin ShiftKeys /\ key # "LEFT_ALT" /\ key # "RIGHT_ALT"
    BY <1>5 DEF ShiftKeys, ControlKeys
  <2>2. u = [m EXCEPT !.control = AnyHeld(new, ControlKeys)]
    BY <1>5, <2>1 DEF UpdateModifiers
  <2>3. u \in ModifierSet
    BY <1>2, <2>2 DEF ModifierSet
  <2>4. /\ u.control = AnyHeld(new, ControlKeys)
        /\ u.shift = m.shift /\ u.leftAlt = m.leftAlt /\ u.rightAlt = m.rightAlt
    BY <2>2 DEF ModifierSet
  <2> QED
    BY <1>3, <2>1, <2>3, <2>4, Zenon DEF ModifiersOK
<1>6. CASE key = "LEFT_ALT"
  <2>1. key \notin ShiftKeys /\ key \notin ControlKeys /\ key # "RIGHT_ALT"
    BY <1>6 DEF ShiftKeys, ControlKeys
  <2>2. u = [m EXCEPT !.leftAlt = AnyHeld(new, {"LEFT_ALT"})]
    BY <1>6, <2>1 DEF UpdateModifiers
  <2>3. u \in ModifierSet
    BY <1>2, <2>2 DEF ModifierSet
  <2>4. /\ u.leftAlt = AnyHeld(new, {"LEFT_ALT"})
        /\ u.shift = m.shift /\ u.control = m.control /\ u.rightAlt = m.rightAlt
    BY <2>2 DEF ModifierSet
  <2> QED
    BY <1>3, <2>1, <2>3, <2>4, Zenon DEF ModifiersOK
<1>7. CASE key = "RIGHT_ALT"
  <2>1. key \notin ShiftKeys /\ key \notin ControlKeys /\ key # "LEFT_ALT"
    BY <1>7 DEF ShiftKeys, ControlKeys
  <2>2. u = [m EXCEPT !.rightAlt = AnyHeld(new, {"RIGHT_ALT"})]
    BY <1>7, <2>1 DEF UpdateModifiers
  <2>3. u \in ModifierSet
    BY <1>2, <2>2 DEF ModifierSet
  <2>4. /\ u.rightAlt = AnyHeld(new, {"RIGHT_ALT"})
        /\ u.shift = m.shift /\ u.control = m.control /\ u.leftAlt = m.leftAlt
    BY <2>2 DEF ModifierSet
  <2> QED
    BY <1>3, <2>1, <2>3, <2>4, Zenon DEF ModifiersOK
<1>8. CASE key \notin ShiftKeys \cup ControlKeys \cup {"LEFT_ALT", "RIGHT_ALT"}
  <2>1. u = m
    BY <1>8 DEF UpdateModifiers
  <2> QED
    BY <1>3, <1>8, <2>1, Zenon DEF ModifiersOK
<1> QED
  BY <1>4, <1>5, <1>6, <1>7, <1>8

-----------------------------------------------------------------------------
(* The inductive invariant. *)

KeysInv ==
  /\ keyStates \in [Keys -> KeyStateSet]
  /\ locks \in [LockKeys -> LockSet]
  /\ mods \in ModifierSet
  /\ ModifiersOK(mods, keyStates)
  /\ \A k \in LockKeys : LockOK(locks[k], keyStates[k])

DriverInv == ChannelInv(chan) /\ DecoderInv(decoder) /\ KeysInv

LEMMA DriverInvImplies ==
  DriverInv => /\ TypeOK /\ QueueBusy /\ WritesTheHead /\ SequenceInBounds
               /\ ModifiersMatchKeys /\ LocksFollowKeys
<1> SUFFICES ASSUME DriverInv
             PROVE  /\ TypeOK /\ QueueBusy /\ WritesTheHead /\ SequenceInBounds
                    /\ ModifiersMatchKeys /\ LocksFollowKeys
  OBVIOUS
<1>1. TypeOK
  BY DEF DriverInv, ChannelInv, DecoderInv, KeysInv, TypeOK, KeyStateSet, LockSet, ModifierSet
<1>2. QueueBusy /\ WritesTheHead
  BY DEF DriverInv, ChannelInv, QueueBusy, WritesTheHead
<1>3. SequenceInBounds
  BY DEF DriverInv, DecoderInv, SequenceInBounds
<1>4. ModifiersMatchKeys
  BY DEF DriverInv, KeysInv, ModifiersOK, ModifiersMatchKeys
<1>5. LocksFollowKeys
  BY DEF DriverInv, KeysInv, LockOK, LocksFollowKeys
<1> QED
  BY <1>1, <1>2, <1>3, <1>4, <1>5

LEMMA InitDriverInv == Init => DriverInv
<1> SUFFICES ASSUME Init PROVE DriverInv
  OBVIOUS
<1>1. ChannelInv(IdleChannel)
  <2>1. IdleChannel \in Channels
    BY QueueAssumption DEF IdleChannel, Channels
  <2> QED
    BY <2>1, QueueAssumption DEF ChannelInv, IdleChannel
<1>2. Command(ResetCommand, 0) \in Commands
  BY DEF Command, Commands, ResetCommand
<1>3. ChannelInv(chan)
  BY <1>1, <1>2, PushKeepsChannel DEF Init
<1>4. NoSequence \in SequenceRecords
  BY KeysAssumption DEF NoSequence, SequenceRecords, KeyActions
<1>5. DecoderInv(decoder)
  BY <1>4, TablesAssumption DEF Init, DecoderInv, Decoders
<1>6. /\ keyStates \in [Keys -> KeyStateSet]
      /\ \A k \in Keys : keyStates[k] = "RELEASED"
  BY DEF Init, KeyStateSet
<1>7. SpecialKeys \subseteq Keys
  BY KeysAssumption
<1>8. /\ locks \in [LockKeys -> LockSet]
      /\ \A k \in LockKeys : LockOK(locks[k], keyStates[k])
  BY <1>6, <1>7 DEF Init, LockSet, LockOK, SpecialKeys
<1>9. mods \in ModifierSet
  BY DEF Init, ModifierSet
<1>10. \A keys \in SUBSET Keys : AnyHeld(keyStates, keys) = FALSE
  BY <1>6 DEF AnyHeld
<1>11. ModifiersOK(mods, keyStates)
  <2>1. /\ ShiftKeys \in SUBSET Keys /\ ControlKeys \in SUBSET Keys
        /\ {"LEFT_ALT"} \in SUBSET Keys /\ {"RIGHT_ALT"} \in SUBSET Keys
    BY <1>7 DEF SpecialKeys
  <2>2. /\ mods.shift = FALSE /\ mods.control = FALSE
        /\ mods.leftAlt = FALSE /\ mods.rightAlt = FALSE
    BY DEF Init
  <2> QED
    BY <1>10, <2>1, <2>2, Zenon DEF ModifiersOK
<1> QED
  BY <1>3, <1>5, <1>6, <1>8, <1>9, <1>11 DEF DriverInv, KeysInv

LEMMA FreshChannel ==
  ASSUME ChannelInv(chan)
  PROVE  ChannelInv(Fresh) /\ Fresh.written = <<>>
<1>1. chan \in Channels
  BY DEF ChannelInv
<1>2. <<>> \in Seq(Nat)
  OBVIOUS
<1>3. Fresh \in Channels
  BY <1>1, <1>2 DEF Channels, Fresh
<1>4. Fresh.queue = chan.queue /\ Fresh.state = chan.state /\ Fresh.written = <<>>
  BY <1>1 DEF Channels, Fresh
<1> QED
  BY <1>3, <1>4 DEF ChannelInv

(* A response byte changes the command channel only. *)
LEMMA RespondKeepsInv ==
  ASSUME DriverInv, NEW c, ChannelInv(c), Respond(c)
  PROVE  DriverInv'
BY DEF Respond, DriverInv, ChannelInv, DecoderInv, KeysInv

LEMMA ScanCodeKeepsKeys ==
  ASSUME DriverInv, NEW code, ScanCodeProcessed(code)
  PROVE  KeysInv'
<1> DEFINE r == Decode(decoder, code)
           state == UpdateKeyState(keyStates[r.key], r.action)
<1>1. r.key \in Keys /\ r.action \in KeyActions
  BY DecodeType DEF DriverInv
<1>2. KeysInv
  BY DEF DriverInv
<1>3. keyStates[r.key] \in KeyStateSet /\ state \in KeyStateSet
  BY <1>1, <1>2 DEF KeysInv, UpdateKeyState, KeyStateSet, KeyActions
<1>4. /\ keyStates' = [keyStates EXCEPT ![r.key] = state]
      /\ locks' = IF r.key \in LockKeys
                  THEN [locks EXCEPT ![r.key] = SwitchLock(@, keyStates'[r.key])] ELSE locks
      /\ mods' = UpdateModifiers(mods, r.key, keyStates')
  BY DEF ScanCodeProcessed
<1> HIDE DEF r
<1>5. keyStates' \in [Keys -> KeyStateSet]
  BY <1>2, <1>3, <1>4 DEF KeysInv
<1>6. mods' \in ModifierSet /\ ModifiersOK(mods', keyStates')
  BY <1>1, <1>2, <1>3, <1>4, UpdateModifiersOK DEF KeysInv
<1>7. keyStates'[r.key] = state /\ \A k \in Keys \ {r.key} : keyStates'[k] = keyStates[k]
  BY <1>1, <1>2, <1>4 DEF KeysInv
<1>8. LockKeys \subseteq Keys
  BY KeysAssumption DEF SpecialKeys
<1>9. CASE r.key \in LockKeys
  <2>1. LockOK(locks[r.key], keyStates[r.key]) /\ locks[r.key] \in LockSet
    BY <1>2, <1>9 DEF KeysInv
  <2>2. /\ SwitchLock(locks[r.key], state) \in LockSet
        /\ LockOK(SwitchLock(locks[r.key], state), state)
    BY <1>1, <1>3, <2>1, SwitchLockOK
  <2>3. locks' = [locks EXCEPT ![r.key] = SwitchLock(locks[r.key], state)]
    BY <1>4, <1>7, <1>9
  <2>4. locks' \in [LockKeys -> LockSet]
    BY <1>2, <1>9, <2>2, <2>3 DEF KeysInv
  <2>5. ASSUME NEW k \in LockKeys PROVE LockOK(locks'[k], keyStates'[k])
    <3>1. CASE k = r.key
      BY <1>2, <1>7, <2>2, <2>3, <3>1 DEF KeysInv
    <3>2. CASE k # r.key
      <4>1. locks'[k] = locks[k] /\ keyStates'[k] = keyStates[k]
        BY <1>2, <1>7, <1>8, <2>3, <3>2 DEF KeysInv
      <4> QED
        BY <1>2, <4>1 DEF KeysInv
    <3> QED
      BY <3>1, <3>2
  <2> QED
    BY <1>5, <1>6, <2>4, <2>5 DEF KeysInv
<1>10. CASE r.key \notin LockKeys
  <2>1. locks' = locks /\ \A k \in LockKeys : keyStates'[k] = keyStates[k]
    BY <1>4, <1>7, <1>8, <1>10
  <2> QED
    BY <1>2, <1>5, <1>6, <2>1 DEF KeysInv
<1> QED
  BY <1>9, <1>10

LEMMA InterruptDriverInv ==
  ASSUME DriverInv, NEW code, ProcessKeyboardInterrupt(code)
  PROVE  DriverInv'
<1>0. ChannelInv(Fresh) /\ Fresh.written = <<>>
  BY FreshChannel DEF DriverInv
<1>1. CASE IgnoreByte(code)
  BY <1>0, <1>1, RespondKeepsInv DEF IgnoreByte
<1>2. CASE SelfTestDone(code)
  <2>1. ChannelInv(InitialiseKeyboard(Fresh, locks))
    BY <1>0, InitialiseKeepsChannel
  <2> QED
    BY <1>2, <2>1, RespondKeepsInv DEF SelfTestDone
<1>3. CASE Acknowledge(code)
  <2>1. ChannelInv(OnCommandAcknowledged(Fresh))
    BY <1>0, NextKeepsChannel DEF OnCommandAcknowledged
  <2> QED
    BY <1>3, <2>1, RespondKeepsInv DEF Acknowledge
<1>4. CASE ResendRequested(code)
  <2>1. ChannelInv(ResendCommand(Fresh))
    BY <1>0, ResendKeepsChannel
  <2> QED
    BY <1>4, <2>1, RespondKeepsInv DEF ResendRequested
<1>5. CASE ScanCodeFailed(code)
  <2>1. ChannelInv(chan') /\ UNCHANGED <<keyStates, locks, mods>>
    BY <1>0, <1>5 DEF ScanCodeFailed
  <2>2. DecoderInv(decoder')
    BY <1>5, DecodeType DEF ScanCodeFailed, DriverInv
  <2> QED
    BY <2>1, <2>2 DEF DriverInv, KeysInv, ChannelInv, DecoderInv
<1>6. CASE ScanCodeProcessed(code)
  <2>1. KeysInv'
    BY <1>6, ScanCodeKeepsKeys
  <2>2. DecoderInv(decoder')
    BY <1>6, DecodeType DEF ScanCodeProcessed, DriverInv
  <2>3. \A lk : ChannelInv(UpdateIndicatorLEDs(Fresh, lk))
    BY <1>0, InitialiseKeepsChannel
  <2>4. chan' = Fresh \/ \E lk : chan' = UpdateIndicatorLEDs(Fresh, lk)
    BY <1>6, Zenon DEF ScanCodeProcessed
  <2>5. ChannelInv(chan')
    BY <1>0, <2>3, <2>4
  <2> QED
    BY <2>1, <2>2, <2>5 DEF DriverInv, ChannelInv, DecoderInv
<1> QED
  BY <1>1, <1>2, <1>3, <1>4, <1>5, <1>6 DEF ProcessKeyboardInterrupt

LEMMA NextDriverInv ==
  ASSUME DriverInv, [Next]_vars
  PROVE  DriverInv'
<1>1. CASE UNCHANGED vars
  BY <1>1 DEF vars, DriverInv, ChannelInv, DecoderInv, KeysInv
<1>2. CASE Next
  BY <1>2, InterruptDriverInv DEF Next
<1> QED
  BY <1>1, <1>2

LEMMA DriverInvariant == Spec => []DriverInv
BY InitDriverInv, NextDriverInv, PTL DEF Spec

(* Type correctness: whatever the keyboard sends, the command queue never  *)
(* outgrows commandBuffer, the resend counter never passes its limit and   *)
(* every state component keeps its type.                                   *)
THEOREM TypeCorrect == Spec => []TypeOK
BY DriverInvariant, DriverInvImplies, PTL

(* The command channel: the driver waits exactly while commands are        *)
(* queued, and what an interrupt writes is the head of the queue.          *)
THEOREM ChannelCorrect == Spec => [](QueueBusy /\ WritesTheHead)
BY DriverInvariant, DriverInvImplies, PTL

(* The decoder never reads a special sequence out of bounds, for any       *)
(* tables and any bytes.                                                   *)
THEOREM DecoderInBounds == Spec => []SequenceInBounds
BY DriverInvariant, DriverInvImplies, PTL

(* Cached modifier flags and lock flags agree with the key states.         *)
THEOREM KeysConsistent == Spec => [](ModifiersMatchKeys /\ LocksFollowKeys)
BY DriverInvariant, DriverInvImplies, PTL

-----------------------------------------------------------------------------
(* What one interrupt does to the queue, for the two action properties.    *)

(* The sequence r starts with q. *)
StartsWith(r, q) == Len(q) <= Len(r) /\ \A i \in 1..Len(q) : r[i] = q[i]

LEMMA StartsWithSubSeq ==
  ASSUME NEW r \in Seq(Commands), NEW q \in Seq(Commands), StartsWith(r, q)
  PROVE  Len(q) <= Len(r) /\ SubSeq(r, 1, Len(q)) = q
<1>1. Len(q) <= Len(r) /\ Len(q) \in Nat
  BY DEF StartsWith
<1>2. SubSeq(r, 1, Len(q)) \in Seq(Commands) /\ Len(SubSeq(r, 1, Len(q))) = Len(q)
  BY <1>1
<1>3. \A i \in 1..Len(q) : SubSeq(r, 1, Len(q))[i] = q[i]
  BY <1>1 DEF StartsWith
<1> QED
  BY <1>1, <1>2, <1>3

(* d comes from c by queueing commands: those already queued stay where    *)
(* they are and, unless the queue was empty, nothing is put on the port.   *)
Queued(c, d) ==
  /\ StartsWith(d.queue, c.queue)
  /\ c.queue # <<>> => d.written = c.written

LEMMA QueuedReflexive ==
  ASSUME NEW c, ChannelInv(c)
  PROVE  Queued(c, c)
BY DEF Queued, StartsWith, ChannelInv, Channels

LEMMA QueuedTransitive ==
  ASSUME NEW c, NEW d, NEW e, ChannelInv(c), ChannelInv(d), ChannelInv(e),
         Queued(c, d), Queued(d, e)
  PROVE  Queued(c, e)
<1>1. /\ c.queue \in Seq(Commands) /\ d.queue \in Seq(Commands)
      /\ e.queue \in Seq(Commands)
  BY DEF ChannelInv, Channels
<1>2. StartsWith(e.queue, c.queue)
  BY <1>1 DEF Queued, StartsWith
<1>3. c.queue # <<>> => d.queue # <<>>
  BY <1>1 DEF Queued, StartsWith
<1> QED
  BY <1>2, <1>3 DEF Queued

LEMMA PushQueues ==
  ASSUME NEW c, ChannelInv(c), NEW command \in Commands
  PROVE  Queued(c, PushCommand(c, command))
<1> DEFINE pushed == [c EXCEPT !.queue = Append(@, command)]
<1>1. CASE Len(c.queue) = MaxCommands
  BY <1>1, QueuedReflexive DEF PushCommand
<1>2. CASE Len(c.queue) # MaxCommands
  <2>1. c \in Channels /\ c.queue \in Seq(Commands)
    BY DEF ChannelInv, Channels
  <2>2. pushed.queue = Append(c.queue, command) /\ pushed.written = c.written
    BY <2>1 DEF Channels
  <2>3. StartsWith(Append(c.queue, command), c.queue)
    BY <2>1 DEF StartsWith
  <2>4. CASE c.state = "FREE"
    <3>1. ExecuteCommand(pushed).queue = pushed.queue
      BY <2>1 DEF ExecuteCommand, Channels
    <3>2. c.queue = <<>>
      BY <2>4 DEF ChannelInv
    <3>3. PushCommand(c, command) = ExecuteCommand(pushed)
      BY <1>2, <2>4 DEF PushCommand
    <3> HIDE DEF pushed
    <3> QED
      BY <2>2, <2>3, <3>1, <3>2, <3>3 DEF Queued
  <2>5. CASE c.state # "FREE"
    <3>1. PushCommand(c, command) = pushed
      BY <1>2, <2>5 DEF PushCommand
    <3> HIDE DEF pushed
    <3> QED
      BY <2>2, <2>3, <3>1 DEF Queued
  <2> QED
    BY <2>4, <2>5
<1> QED
  BY <1>1, <1>2

LEMMA LedsQueue ==
  ASSUME NEW c, ChannelInv(c), NEW lk
  PROVE  ChannelInv(UpdateIndicatorLEDs(c, lk)) /\ Queued(c, UpdateIndicatorLEDs(c, lk))
<1>1. LedBits(lk) \in Nat
  BY DEF LedBits, Bit
<1>2. Command(SetLedStates, LedBits(lk)) \in Commands
  BY <1>1 DEF Command, Commands, SetLedStates
<1> QED
  BY <1>2, PushKeepsChannel, PushQueues DEF UpdateIndicatorLEDs

(* The four commands of InitialisePS2Keyboard, one after the other. *)
LEMMA InitialiseQueues ==
  ASSUME NEW c, ChannelInv(c), NEW lk
  PROVE  Queued(c, InitialiseKeyboard(c, lk))
<1>1. /\ Command(SetScanCodeSet, 2) \in Commands
      /\ Command(SetTypematicByte, 32) \in Commands
      /\ Command(EnableScanning, 0) \in Commands
  BY DEF Command, Commands, SetScanCodeSet, SetTypematicByte, EnableScanning
<1> DEFINE c1 == PushCommand(c, Command(SetScanCodeSet, 2))
           c2 == PushCommand(c1, Command(SetTypematicByte, 32))
           c3 == PushCommand(c2, Command(EnableScanning, 0))
           c4 == UpdateIndicatorLEDs(c3, lk)
<1>2. ChannelInv(c1) /\ Queued(c, c1)
  BY <1>1, PushKeepsChannel, PushQueues
<1>3. ChannelInv(c2) /\ Queued(c1, c2)
  <2> HIDE DEF c1
  <2> QED BY <1>1, <1>2, PushKeepsChannel, PushQueues
<1>4. ChannelInv(c3) /\ Queued(c2, c3)
  <2> HIDE DEF c2
  <2> QED BY <1>1, <1>3, PushKeepsChannel, PushQueues
<1>5. ChannelInv(c4) /\ Queued(c3, c4)
  <2> HIDE DEF c3
  <2> QED BY <1>4, LedsQueue
<1>6. InitialiseKeyboard(c, lk) = c4
  BY DEF InitialiseKeyboard
<1> HIDE DEF c1, c2, c3, c4
<1>7. Queued(c, c2)
  BY <1>2, <1>3, QueuedTransitive
<1>8. Queued(c, c3)
  BY <1>3, <1>4, <1>7, QueuedTransitive
<1>9. Queued(c, c4)
  BY <1>4, <1>5, <1>8, QueuedTransitive
<1> QED
  BY <1>6, <1>9

(* d comes from c by giving up or finishing the head. *)
Popped(c, d) == c.queue # <<>> /\ d.queue = Tail(c.queue) /\ d.resends = 0

LEMMA NextPops ==
  ASSUME NEW c, ChannelInv(c), c.written = <<>>, c.queue # <<>>
  PROVE  Popped(c, NextCommand(c))
<1> DEFINE popped == [c EXCEPT !.state = "FREE", !.resends = 0,
                               !.queue = IF @ = <<>> THEN @ ELSE Tail(@)]
<1>1. c \in Channels
  BY DEF ChannelInv
<1>2. popped.queue = Tail(c.queue) /\ popped.resends = 0
  BY <1>1 DEF Channels
<1>3. DOMAIN popped = {"queue", "state", "resends", "written"}
  BY <1>1 DEF Channels
<1>4. NextCommand(c) = IF popped.queue # <<>> THEN ExecuteCommand(popped) ELSE popped
  BY DEF NextCommand
<1> HIDE DEF popped
<1>5. ExecuteCommand(popped).queue = popped.queue /\ ExecuteCommand(popped).resends = popped.resends
  BY <1>3 DEF ExecuteCommand
<1> QED
  BY <1>2, <1>4, <1>5 DEF Popped

(* d comes from c by writing the head again. *)
Resent(c, d) == d.queue = c.queue /\ d.resends = c.resends + 1

LEMMA ResendResends ==
  ASSUME NEW c, ChannelInv(c), c.written = <<>>
  PROVE  \/ ResendCommand(c) = c
         \/ Resent(c, ResendCommand(c))
         \/ Popped(c, ResendCommand(c))
<1>1. CASE c.queue = <<>> \/ c.state # "WAITING"
  BY <1>1 DEF ResendCommand
<1>2. CASE ~(c.queue = <<>> \/ c.state # "WAITING") /\ c.resends < MaxResends
  <2> DEFINE e == ExecuteCommand(c)
  <2>1. ChannelInv(e) /\ e.resends = c.resends /\ e.queue = c.queue
    BY <1>2, ExecuteKeepsChannel DEF ChannelInv
  <2>2. ResendCommand(c) = [e EXCEPT !.resends = @ + 1]
    BY <1>2 DEF ResendCommand
  <2>3. e \in Channels
    BY <2>1 DEF ChannelInv
  <2> HIDE DEF e
  <2> QED
    BY <2>1, <2>2, <2>3 DEF Resent, Channels
<1>3. CASE ~(c.queue = <<>> \/ c.state # "WAITING") /\ ~(c.resends < MaxResends)
  BY <1>3, NextPops DEF ResendCommand
<1> QED
  BY <1>1, <1>2, <1>3

(* One interrupt queues commands, writes the head again or drops it. *)
LEMMA InterruptOnQueue ==
  ASSUME DriverInv, NEW code \in InputCodes, ProcessKeyboardInterrupt(code)
  PROVE  Queued(Fresh, chan') \/ Resent(Fresh, chan') \/ Popped(Fresh, chan')
<1>1. ChannelInv(Fresh) /\ Fresh.written = <<>>
  BY FreshChannel DEF DriverInv
<1>2. Queued(Fresh, Fresh)
  BY <1>1, QueuedReflexive
<1>3. CASE IgnoreByte(code)
  BY <1>2, <1>3 DEF IgnoreByte, Respond
<1>4. CASE SelfTestDone(code)
  <2>1. Queued(Fresh, InitialiseKeyboard(Fresh, locks))
    BY <1>1, InitialiseQueues
  <2> QED
    BY <1>4, <2>1 DEF SelfTestDone, Respond
<1>5. CASE Acknowledge(code)
  <2>1. chan' = OnCommandAcknowledged(Fresh)
    BY <1>5 DEF Acknowledge, Respond
  <2>2. CASE Fresh.state = "WAITING"
    <3>1. Fresh.queue # <<>>
      BY <1>1, <2>2 DEF ChannelInv
    <3>2. Popped(Fresh, NextCommand(Fresh))
      BY <1>1, <3>1, NextPops
    <3> QED
      BY <2>1, <2>2, <3>2 DEF OnCommandAcknowledged
  <2>3. CASE Fresh.state # "WAITING"
    BY <1>2, <2>1, <2>3 DEF OnCommandAcknowledged
  <2> QED
    BY <2>2, <2>3
<1>6. CASE ResendRequested(code)
  <2>1. chan' = ResendCommand(Fresh)
    BY <1>6 DEF ResendRequested, Respond
  <2> QED
    BY <1>1, <1>2, <2>1, ResendResends
<1>7. CASE ScanCodeFailed(code)
  BY <1>2, <1>7 DEF ScanCodeFailed
<1>8. CASE ScanCodeProcessed(code)
  <2>1. chan' = Fresh \/ \E lk : chan' = UpdateIndicatorLEDs(Fresh, lk)
    BY <1>8, Zenon DEF ScanCodeProcessed
  <2>2. \A lk : Queued(Fresh, UpdateIndicatorLEDs(Fresh, lk))
    BY <1>1, LedsQueue
  <2> QED
    BY <1>2, <2>1, <2>2
<1> QED
  BY <1>3, <1>4, <1>5, <1>6, <1>7, <1>8 DEF ProcessKeyboardInterrupt

(* The same about the channel before the interrupt: Fresh only forgets     *)
(* what the interrupt before wrote.                                        *)
LEMMA StepOnQueue ==
  ASSUME DriverInv, DriverInv', Next
  PROVE  /\ chan.queue \in Seq(Commands) /\ chan'.queue \in Seq(Commands)
         /\ \/ /\ StartsWith(chan'.queue, chan.queue)
               /\ chan.queue # <<>> => chan'.written = <<>>
            \/ chan'.queue = chan.queue /\ chan'.resends = chan.resends + 1
            \/ /\ chan.queue # <<>> /\ chan'.queue = Tail(chan.queue)
               /\ chan'.resends = 0
<1>1. chan \in Channels /\ chan' \in Channels
  BY DEF DriverInv, ChannelInv
<1>2. /\ Fresh.queue = chan.queue /\ Fresh.resends = chan.resends
      /\ Fresh.written = <<>>
  BY <1>1 DEF Fresh, Channels
<1>3. PICK code \in InputCodes : ProcessKeyboardInterrupt(code)
  BY DEF Next
<1>4. Queued(Fresh, chan') \/ Resent(Fresh, chan') \/ Popped(Fresh, chan')
  BY <1>3, InterruptOnQueue
<1>5. chan.queue \in Seq(Commands) /\ chan'.queue \in Seq(Commands)
  BY <1>1 DEF Channels
<1> QED
  BY <1>2, <1>4, <1>5 DEF Queued, Resent, Popped

(* The command queue is first in, first out: whatever bytes arrive, a step *)
(* removes at most the head and adds at the end (PushPS2KeyboardCommand,   *)
(* NextPS2KeyboardCommand's shift of commandBuffer).                       *)
THEOREM QueueCorrect == Spec => QueueIsFifo
<1> DEFINE Keeps(rest) == /\ Len(rest) <= Len(chan'.queue)
                          /\ SubSeq(chan'.queue, 1, Len(rest)) = rest
           rests == {chan.queue, IF chan.queue = <<>> THEN <<>> ELSE Tail(chan.queue)}
<1>1. ASSUME DriverInv, DriverInv', Next
      PROVE  \E rest \in rests : Keeps(rest)
  <2>1. /\ chan.queue \in Seq(Commands) /\ chan'.queue \in Seq(Commands)
        /\ \/ StartsWith(chan'.queue, chan.queue)
           \/ chan'.queue = chan.queue
           \/ chan.queue # <<>> /\ chan'.queue = Tail(chan.queue)
    BY <1>1, StepOnQueue
  <2>2. CASE StartsWith(chan'.queue, chan.queue)
    BY <2>1, <2>2, StartsWithSubSeq
  <2>3. CASE chan'.queue = chan.queue
    <3>1. StartsWith(chan'.queue, chan.queue)
      BY <2>1, <2>3 DEF StartsWith
    <3> QED
      BY <2>1, <3>1, StartsWithSubSeq
  <2>4. CASE chan.queue # <<>> /\ chan'.queue = Tail(chan.queue)
    <3>1. StartsWith(chan'.queue, Tail(chan.queue)) /\ Tail(chan.queue) \in Seq(Commands)
      BY <2>1, <2>4 DEF StartsWith
    <3>2. Keeps(Tail(chan.queue))
      BY <2>1, <3>1, StartsWithSubSeq
    <3> QED
      BY <2>4, <3>2
  <2> QED
    BY <2>1, <2>2, <2>3, <2>4
<1>2. ASSUME DriverInv, DriverInv', [Next]_vars
      PROVE  [\E rest \in rests : Keeps(rest)]_vars
  BY <1>1, <1>2
<1> QED
  BY <1>2, DriverInvariant, PTL DEF Spec, QueueIsFifo

(* A command that is written again is counted, and one that becomes the    *)
(* head starts from zero: with TypeCorrect's bound on the counter, no      *)
(* command is put on the port more than MaxResends + 1 times.              *)
THEOREM ResendsCorrect == Spec => EveryResendIsCounted
<1> DEFINE Counted == chan.queue # <<>> /\ chan'.written # <<>> =>
                        IF Len(chan'.queue) >= Len(chan.queue)
                        THEN chan'.resends = chan.resends + 1
                        ELSE chan'.resends = 0
<1>1. ASSUME DriverInv, DriverInv', Next
      PROVE  Counted
  <2>1. /\ chan.queue \in Seq(Commands)
        /\ \/ chan.queue # <<>> => chan'.written = <<>>
           \/ chan'.queue = chan.queue /\ chan'.resends = chan.resends + 1
           \/ /\ chan.queue # <<>> /\ chan'.queue = Tail(chan.queue)
              /\ chan'.resends = 0
    BY <1>1, StepOnQueue
  <2>2. chan.queue # <<>> => ~(Len(Tail(chan.queue)) >= Len(chan.queue))
    BY <2>1
  <2>3. Len(chan.queue) >= Len(chan.queue)
    BY <2>1
  <2> QED
    BY <2>1, <2>2, <2>3
<1>2. ASSUME DriverInv, DriverInv', [Next]_vars
      PROVE  [Counted]_vars
  BY <1>1, <1>2
<1> QED
  BY <1>2, DriverInvariant, PTL DEF Spec, EveryResendIsCounted

-----------------------------------------------------------------------------
(* Keyboard, driver and user.  What is on the wires decides what driver    *)
(* and keyboard will be once it has arrived; the invariant relates that    *)
(* state, instead of the present one, to the user and to each other.  A    *)
(* sequence leads one of four parties from a state to another: the driver  *)
(* by the keyboard's bytes, the keyboard by the driver's bytes and by the  *)
(* commands that are still queued, and the answers to the self test by     *)
(* counting them.                                                          *)

(* What the next byte's meaning depends on: a sequence pointer left over   *)
(* from an earlier code is not looked at.                                  *)
Reading(d) ==
  [mode |-> d.mode, table |-> d.table,
   sequence |-> IF d.mode = "SEQUENCE" THEN d.sequence ELSE NoSequence,
   index |-> IF d.mode = "SEQUENCE" THEN d.index ELSE 0]

BetweenCodes == [mode |-> "LOOKUP", table |-> GlobalTable, sequence |-> NoSequence, index |-> 0]

(* A state of the driver; changes is how many more LED commands it may     *)
(* queue.                                                                  *)
KeyChanges(x, d, key, action) ==
  LET ks == [x.keyStates EXCEPT ![key] = UpdateKeyState(@, action)]
      lk == IF key \in LockKeys THEN [x.locks EXCEPT ![key] = SwitchLock(@, ks[key])] ELSE x.locks
  IN  [decoder |-> d, keyStates |-> ks, locks |-> lk,
       changes |-> IF key \in LockKeys /\ lk[key].active # x.locks[key].active
                   THEN x.changes - 1 ELSE x.changes]

DriverTakes(x, b) ==
  LET r == Decode(x.decoder, b)
  IN  IF b \in ResponseCodes THEN x ELSE KeyChanges(x, Reading(r.decoder), r.key, r.action)

KeyboardTakes(d, c) ==
  IF c.command = SetLedStates THEN [d EXCEPT !.leds = c.data]
                              ELSE [d EXCEPT !.applied = @ \cup {c.command}]

Taken(who, x, b) ==
  CASE who = "driver" -> DriverTakes(x, b)
    [] who = "keyboard" -> Received(x, b)
    [] who = "commands" -> KeyboardTakes(x, b)
    [] who = "tests" -> IF b = 170 THEN 1 ELSE x

(* The commands queued after the reset. *)
Expected(c) == c \in Commands /\ c.command \in Settings \cup {SetLedStates} /\ c.data < SetLedStates

Accepts(who, x, b) ==
  CASE who = "driver" -> b \in ResponseCodes \/ DriverTakes(x, b).changes \in Nat
    [] who = "keyboard" -> Answer(x, b) = <<CommandAcknowledged>>
    [] who = "commands" -> Expected(b)
    [] who = "tests" -> b \notin {252, 253, ResendRequest} /\ (b = 170 => x = 0)

Follows(who, f, q) ==
  \A i \in 1..Len(q) : Accepts(who, f[i - 1], q[i]) /\ f[i] = Taken(who, f[i - 1], q[i])

Leads(who, x, q, y) == \E f : f[0] = x /\ f[Len(q)] = y /\ Follows(who, f, q)

LEMMA LeadsNowhere ==
  ASSUME NEW who, NEW x, NEW y
  PROVE  Leads(who, x, <<>>, y) <=> x = y
<1>1. Len(<<>>) = 0 /\ 1..0 = {}
  OBVIOUS
<1>2. Leads(who, x, <<>>, y) => x = y
  BY <1>1 DEF Leads
<1>3. Leads(who, x, <<>>, x)
  <2> DEFINE f == [i \in {0} |-> x]
  <2>1. f[0] = x /\ Follows(who, f, <<>>)
    BY <1>1 DEF Follows
  <2> HIDE DEF f
  <2> QED
    BY <1>1, <2>1 DEF Leads
<1> QED
  BY <1>2, <1>3

LEMMA LeadsOne ==
  ASSUME NEW who, NEW x, NEW b, Accepts(who, x, b)
  PROVE  Leads(who, x, <<b>>, Taken(who, x, b))
<1> DEFINE f == [i \in {0, 1} |-> IF i = 0 THEN x ELSE Taken(who, x, b)]
           q == <<b>>
<1>1. f[0] = x /\ f[1] = Taken(who, x, b)
  OBVIOUS
<1>2. Len(q) = 1 /\ 1..1 = {1} /\ q[1] = b /\ 1 - 1 = 0
  OBVIOUS
<1> HIDE DEF f, q
<1>3. Follows(who, f, q)
  BY <1>1, <1>2, Zenon DEF Follows
<1>4. Leads(who, x, q, Taken(who, x, b))
  BY <1>1, <1>2, <1>3, Zenon DEF Leads
<1> QED
  BY <1>4 DEF q

(* Nothing changes. *)
LEMMA LeadsStill ==
  ASSUME NEW who, NEW x, NEW S, NEW q \in Seq(S),
         \A i \in 1..Len(q) : Accepts(who, x, q[i]) /\ Taken(who, x, q[i]) = x
  PROVE  Leads(who, x, q, x)
<1> DEFINE f == [i \in 0..Len(q) |-> x]
<1>1. Len(q) \in Nat
  OBVIOUS
<1>2. f[0] = x /\ f[Len(q)] = x
  BY <1>1
<1>3. \A i \in 1..Len(q) : f[i] = x /\ f[i - 1] = x
  BY <1>1
<1> HIDE DEF f
<1>4. Follows(who, f, q)
  BY <1>3, Zenon DEF Follows
<1> QED
  BY <1>2, <1>4, Zenon DEF Leads

LEMMA LeadsJoin ==
  ASSUME NEW who, NEW S, NEW p \in Seq(S), NEW q \in Seq(S), NEW x, NEW y, NEW z,
         Leads(who, x, p, y), Leads(who, y, q, z)
  PROVE  Leads(who, x, p \o q, z)
<1>1. PICK f : f[0] = x /\ f[Len(p)] = y /\ Follows(who, f, p)
  BY Zenon DEF Leads
<1>2. PICK g : g[0] = y /\ g[Len(q)] = z /\ Follows(who, g, q)
  BY Zenon DEF Leads
<1> DEFINE m == Len(p)
           r == p \o q
           h == [i \in 0..Len(r) |-> IF i <= m THEN f[i] ELSE g[i - m]]
<1>3. m \in Nat /\ Len(q) \in Nat /\ r \in Seq(S) /\ Len(r) = m + Len(q)
  OBVIOUS
<1>4. /\ \A i \in 1..m : r[i] = p[i]
      /\ \A i \in (m + 1)..Len(r) : r[i] = q[i - m]
  BY <1>3
<1> HIDE DEF r
<1>5. /\ \A i \in 0..m : h[i] = f[i]
      /\ \A i \in (m + 1)..Len(r) : h[i] = g[i - m]
  BY <1>3
<1> HIDE DEF h
<1>6. \A i \in m..Len(r) : h[i] = g[i - m]
  <2> SUFFICES ASSUME NEW i \in m..Len(r) PROVE h[i] = g[i - m]
    OBVIOUS
  <2>1. CASE i = m
    <3>1. i - m = 0 /\ m \in 0..m
      BY <1>3, <2>1
    <3>2. h[m] = f[m]
      BY <1>5, <3>1
    <3> QED
      BY <1>1, <1>2, <2>1, <3>1, <3>2
  <2>2. CASE i # m
    BY <1>3, <1>5, <2>2
  <2> QED
    BY <2>1, <2>2
<1>7. h[0] = x /\ h[Len(r)] = z
  <2>1. h[0] = x
    BY <1>1, <1>3, <1>5
  <2>2. h[Len(r)] = g[Len(r) - m] /\ Len(r) - m = Len(q)
    BY <1>3, <1>6
  <2> QED
    BY <2>1, <2>2, <1>2
<1>8. ASSUME NEW i \in 1..Len(r)
      PROVE  Accepts(who, h[i - 1], r[i]) /\ h[i] = Taken(who, h[i - 1], r[i])
  <2>1. CASE i <= m
    <3>1. i \in 1..m /\ i - 1 \in 0..m /\ i \in 0..m
      BY <1>3, <2>1
    <3>2. h[i - 1] = f[i - 1] /\ h[i] = f[i] /\ r[i] = p[i]
      BY <3>1, <1>4, <1>5
    <3> QED
      BY <3>1, <3>2, <1>1, Zenon DEF Follows, m
  <2>2. CASE i > m
    <3>1. i - m \in 1..Len(q) /\ i - 1 \in m..Len(r) /\ i \in (m + 1)..Len(r) /\ (i - 1) - m = (i - m) - 1
      BY <1>3, <2>2
    <3>2. h[i - 1] = g[(i - m) - 1] /\ h[i] = g[i - m] /\ r[i] = q[i - m]
      BY <3>1, <1>4, <1>5, <1>6
    <3> QED
      BY <3>1, <3>2, <1>2, Zenon DEF Follows
  <2> QED
    BY <1>3, <2>1, <2>2
<1>9. Follows(who, h, r)
  BY <1>8, Zenon DEF Follows
<1>10. Leads(who, x, r, z)
  BY <1>7, <1>9, Zenon DEF Leads
<1> QED
  BY <1>10 DEF r

LEMMA LeadsSplit ==
  ASSUME NEW who, NEW S, NEW q \in Seq(S), NEW n \in 0..Len(q), NEW x, NEW z, Leads(who, x, q, z)
  PROVE  \E y : Leads(who, x, SubSeq(q, 1, n), y) /\ Leads(who, y, SubSeq(q, n + 1, Len(q)), z)
<1>1. PICK f : f[0] = x /\ f[Len(q)] = z /\ Follows(who, f, q)
  BY Zenon DEF Leads
<1> DEFINE p == SubSeq(q, 1, n)
           r == SubSeq(q, n + 1, Len(q))
           g == [i \in 0..Len(r) |-> f[n + i]]
<1>2. /\ n \in Nat /\ Len(q) \in Nat /\ Len(p) = n /\ Len(r) = Len(q) - n
      /\ \A i \in 1..n : p[i] = q[i]
      /\ \A i \in 1..Len(r) : r[i] = q[n + i]
  OBVIOUS
<1> HIDE DEF p, r
<1>3. \A i \in 0..Len(r) : g[i] = f[n + i]
  OBVIOUS
<1> HIDE DEF g
<1>4. Leads(who, x, p, f[n])
  <2>1. \A i \in 1..n : i \in 1..Len(q)
    BY <1>2
  <2>2. Follows(who, f, p)
    BY <1>1, <1>2, <2>1 DEF Follows
  <2> QED
    BY <1>1, <1>2, <2>2, Zenon DEF Leads
<1>5. Leads(who, f[n], r, z)
  <2>1. g[0] = f[n] /\ g[Len(r)] = z
    <3>1. 0 \in 0..Len(r) /\ Len(r) \in 0..Len(r) /\ n + 0 = n /\ n + Len(r) = Len(q)
      BY <1>2
    <3> QED
      BY <1>1, <1>3, <3>1
  <2>2. ASSUME NEW i \in 1..Len(r)
        PROVE  Accepts(who, g[i - 1], r[i]) /\ g[i] = Taken(who, g[i - 1], r[i])
    <3>1. n + i \in 1..Len(q) /\ i - 1 \in 0..Len(r) /\ i \in 0..Len(r) /\ n + (i - 1) = (n + i) - 1
      BY <1>2
    <3>2. g[i - 1] = f[(n + i) - 1] /\ g[i] = f[n + i] /\ r[i] = q[n + i]
      BY <1>2, <1>3, <3>1
    <3> QED
      BY <3>1, <3>2, <1>1, Zenon DEF Follows
  <2>3. Follows(who, g, r)
    BY <2>2, Zenon DEF Follows
  <2> QED
    BY <2>1, <2>3, Zenon DEF Leads
<1> QED
  BY <1>4, <1>5, Zenon DEF p, r

LEMMA OneElement ==
  ASSUME NEW S, NEW s \in Seq(S), Len(s) = 1
  PROVE  s = <<s[1]>>
<1>1. s[1] \in S /\ <<s[1]>> \in Seq(S) /\ Len(<<s[1]>>) = 1 /\ <<s[1]>>[1] = s[1]
  OBVIOUS
<1>2. \A i \in 1..1 : s[i] = <<s[1]>>[i]
  BY <1>1
<1> DEFINE t == <<s[1]>>
<1>3. t \in Seq(S) /\ Len(t) = 1 /\ \A i \in 1..1 : s[i] = t[i]
  BY <1>1, <1>2
<1> HIDE DEF t
<1>4. s = t
  BY <1>3
<1> QED
  BY <1>4 DEF t

LEMMA LeadsHead ==
  ASSUME NEW who, NEW S, NEW q \in Seq(S), q # <<>>, NEW x, NEW z, Leads(who, x, q, z)
  PROVE  Accepts(who, x, Head(q)) /\ Leads(who, Taken(who, x, Head(q)), Tail(q), z)
<1>1. /\ 1 \in 0..Len(q) /\ SubSeq(q, 1, 1) = <<Head(q)>> /\ SubSeq(q, 2, Len(q)) = Tail(q)
      /\ 1 + 1 = 2
  <2>1. Len(q) \in Nat \ {0} /\ Head(q) = q[1] /\ Len(SubSeq(q, 1, 1)) = 1 /\ SubSeq(q, 1, 1)[1] = q[1]
    OBVIOUS
  <2>2. SubSeq(q, 1, 1) \in Seq(S) /\ Tail(q) \in Seq(S) /\ SubSeq(q, 2, Len(q)) \in Seq(S)
    OBVIOUS
  <2>3. SubSeq(q, 1, 1) = <<Head(q)>>
    BY <2>1, <2>2, OneElement
  <2>4. Len(Tail(q)) = Len(q) - 1 /\ Len(SubSeq(q, 2, Len(q))) = Len(q) - 1
    BY <2>1
  <2>5. \A i \in 1..(Len(q) - 1) : Tail(q)[i] = SubSeq(q, 2, Len(q))[i]
    BY <2>1
  <2>6. SubSeq(q, 2, Len(q)) = Tail(q)
    BY <2>2, <2>4, <2>5
  <2> QED
    BY <2>1, <2>3, <2>6
<1>2. PICK y : Leads(who, x, <<Head(q)>>, y) /\ Leads(who, y, Tail(q), z)
  BY <1>1, LeadsSplit
<1> DEFINE b == Head(q)
           p == <<b>>
<1>3. Len(p) = 1 /\ p[1] = b /\ 1 \in 1..1 /\ 1 - 1 = 0
  OBVIOUS
<1> HIDE DEF b
<1>4. Leads(who, x, p, y)
  BY <1>2 DEF b
<1> HIDE DEF p
<1>5. Accepts(who, x, b) /\ y = Taken(who, x, b)
  BY <1>3, <1>4 DEF Leads, Follows
<1> QED
  BY <1>2, <1>5, Zenon DEF b

(* Bytes that change nothing are put in between. *)
LEMMA LeadsInserted ==
  ASSUME NEW who, NEW S, NEW q \in Seq(S), NEW n \in 0..Len(q), NEW a \in Seq(S), NEW x, NEW z,
         Leads(who, x, q, z), \A y : \A i \in 1..Len(a) : Accepts(who, y, a[i]) /\ Taken(who, y, a[i]) = y
  PROVE  Leads(who, x, SubSeq(q, 1, n) \o a \o SubSeq(q, n + 1, Len(q)), z)
<1>1. PICK y : Leads(who, x, SubSeq(q, 1, n), y) /\ Leads(who, y, SubSeq(q, n + 1, Len(q)), z)
  BY LeadsSplit
<1>2. Leads(who, y, a, y)
  BY LeadsStill
<1>3. /\ SubSeq(q, 1, n) \in Seq(S) /\ SubSeq(q, n + 1, Len(q)) \in Seq(S)
      /\ SubSeq(q, 1, n) \o a \in Seq(S)
  OBVIOUS
<1>4. Leads(who, x, SubSeq(q, 1, n) \o a, y)
  BY <1>1, <1>2, <1>3, LeadsJoin
<1> QED
  BY <1>1, <1>3, <1>4, LeadsJoin

(* The keyboard's codes lead the driver to their keys. *)

LEMMA ReadingDecodes ==
  ASSUME NEW d \in Decoders, NEW b
  PROVE  LET r == Decode(d, b)
             s == Decode(Reading(d), b)
         IN  r.result = s.result /\ r.key = s.key /\ r.action = s.action /\ Reading(r.decoder) = Reading(s.decoder)
<1> DEFINE r == Decode(d, b)
           e == Reading(d)
           s == Decode(e, b)
<1> SUFFICES r.result = s.result /\ r.key = s.key /\ r.action = s.action /\ Reading(r.decoder) = Reading(s.decoder)
  OBVIOUS
<1>1. CASE d.mode = "SEQUENCE"
  <2>1. e = d
    BY <1>1 DEF Decoders, Reading
  <2> QED
    BY <2>1
<1>2. CASE d.mode = "LOOKUP"
  <2>1. e.mode = "LOOKUP" /\ e.table = d.table
    BY <1>2 DEF Reading
  <2>2. ASSUME NEW m, NEW t
        PROVE  Reading([d EXCEPT !.mode = "LOOKUP", !.table = t]) = Reading([e EXCEPT !.mode = "LOOKUP", !.table = t])
    BY <1>2, <2>1 DEF Reading, Decoders
  <2>3. ASSUME NEW t
        PROVE  Reading([d EXCEPT !.table = t]) = Reading([e EXCEPT !.table = t])
    BY <1>2, <2>1 DEF Reading, Decoders
  <2>4. ASSUME NEW q, NEW i
        PROVE  Reading([d EXCEPT !.mode = "SEQUENCE", !.sequence = q, !.index = i])
                 = Reading([e EXCEPT !.mode = "SEQUENCE", !.sequence = q, !.index = i])
    BY <1>2, <2>1 DEF Reading, Decoders
  <2> DEFINE Alike(u, v) == /\ u.result = v.result /\ u.key = v.key /\ u.action = v.action
                            /\ Reading(u.decoder) = Reading(v.decoder)
  <2>5. ASSUME NEW res, NEW key, NEW action
        PROVE  Alike(Finished(d, res, key, action), Finished(e, res, key, action))
    BY <2>2 DEF Finished, Result
  <2>6. ASSUME NEW k
        PROVE  Alike(DecodedOrFailed(d, k), DecodedOrFailed(e, k))
    BY <2>5 DEF DecodedOrFailed
  <2>7. ASSUME NEW u, NEW v, Reading(u) = Reading(v)
        PROVE  Alike(PartiallyDecoded(u), PartiallyDecoded(v))
    BY <2>7 DEF PartiallyDecoded, Result
  <2> HIDE DEF Alike, e
  <2>8. Alike(ProcessCodeByLookup(d, b), ProcessCodeByLookup(e, b))
    <3> DEFINE starting == {q \in SpecialSequences[d.table] : Head(q.bytes) = b}
               seq == CHOOSE q \in starting : TRUE
    <3>1. ASSUME NEW v, v = d \/ v = e
          PROVE  ProcessCodeByLookup(v, b) =
                   IF b \in DOMAIN ByteExtendCodes[d.table]
                   THEN PartiallyDecoded([v EXCEPT !.table = ByteExtendCodes[d.table][b]])
                   ELSE IF starting # {}
                   THEN IF Len(seq.bytes) > 1
                        THEN PartiallyDecoded([v EXCEPT !.mode = "SEQUENCE", !.sequence = seq, !.index = 1])
                        ELSE DecodedOrFailed(v, seq)
                   ELSE IF b \in DOMAIN KeysPerByte[d.table]
                   THEN DecodedOrFailed(v, KeysPerByte[d.table][b])
                   ELSE Finished(v, "FAILURE", Unknown, "NONE")
      <4>1. v.table = d.table
        BY <2>1, <3>1
      <4> QED
        BY <4>1 DEF ProcessCodeByLookup
    <3> HIDE DEF starting, seq
    <3>2. CASE b \in DOMAIN ByteExtendCodes[d.table]
      <4> DEFINE t == ByteExtendCodes[d.table][b]
      <4>1. Alike(PartiallyDecoded([d EXCEPT !.table = t]), PartiallyDecoded([e EXCEPT !.table = t]))
        BY <2>3, <2>7
      <4>2. /\ ProcessCodeByLookup(d, b) = PartiallyDecoded([d EXCEPT !.table = t])
            /\ ProcessCodeByLookup(e, b) = PartiallyDecoded([e EXCEPT !.table = t])
        BY <3>1, <3>2
      <4> QED
        BY <4>1, <4>2
    <3>3. CASE b \notin DOMAIN ByteExtendCodes[d.table] /\ starting # {} /\ Len(seq.bytes) > 1
      <4> DEFINE u == [d EXCEPT !.mode = "SEQUENCE", !.sequence = seq, !.index = 1]
                 v == [e EXCEPT !.mode = "SEQUENCE", !.sequence = seq, !.index = 1]
      <4>1. Alike(PartiallyDecoded(u), PartiallyDecoded(v))
        BY <2>4, <2>7
      <4>2. ProcessCodeByLookup(d, b) = PartiallyDecoded(u) /\ ProcessCodeByLookup(e, b) = PartiallyDecoded(v)
        BY <3>1, <3>3
      <4> QED
        BY <4>1, <4>2
    <3>4. CASE b \notin DOMAIN ByteExtendCodes[d.table] /\ starting # {} /\ ~(Len(seq.bytes) > 1)
      <4>1. Alike(DecodedOrFailed(d, seq), DecodedOrFailed(e, seq))
        BY <2>6
      <4>2. ProcessCodeByLookup(d, b) = DecodedOrFailed(d, seq) /\ ProcessCodeByLookup(e, b) = DecodedOrFailed(e, seq)
        BY <3>1, <3>4
      <4> QED
        BY <4>1, <4>2
    <3>5. CASE b \notin DOMAIN ByteExtendCodes[d.table] /\ starting = {} /\ b \in DOMAIN KeysPerByte[d.table]
      BY <3>1, <3>5, <2>6
    <3>6. CASE b \notin DOMAIN ByteExtendCodes[d.table] /\ starting = {} /\ b \notin DOMAIN KeysPerByte[d.table]
      BY <3>1, <3>6, <2>5
    <3> QED
      BY <3>2, <3>3, <3>4, <3>5, <3>6
  <2>9. r = ProcessCodeByLookup(d, b) /\ s = ProcessCodeByLookup(e, b)
    BY <1>2, <2>1 DEF Decode
  <2> QED
    BY <2>8, <2>9 DEF Alike
<1> QED
  BY <1>1, <1>2 DEF Decoders

LEMMA FailureSaysNothing ==
  ASSUME NEW d, NEW b, Decode(d, b).result = "FAILURE"
  PROVE  Decode(d, b).key = Unknown /\ Decode(d, b).action = "NONE"
<1>1. \A k : LET r == DecodedOrFailed(d, k)
             IN  r.result = "FAILURE" => r.key = Unknown /\ r.action = "NONE"
  BY DEF DecodedOrFailed, Finished, Result
<1>2. \A e : PartiallyDecoded(e).result # "FAILURE"
  BY DEF PartiallyDecoded, Result
<1>3. LET r == Finished(d, "FAILURE", Unknown, "NONE")
      IN  r.key = Unknown /\ r.action = "NONE"
  BY DEF Finished, Result
<1> QED
  BY <1>1, <1>2, <1>3 DEF Decode, ProcessCodeByLookup, ProcessByteSequenceCode

(* The decoder in sub-table t, and after i bytes of a sequence. *)
InTable(t) == [mode |-> "LOOKUP", table |-> t, sequence |-> NoSequence, index |-> 0]
InSequence(t, s, i) == [mode |-> "SEQUENCE", table |-> t, sequence |-> s, index |-> i]

With(x, d) == [decoder |-> d, keyStates |-> x.keyStates, locks |-> x.locks, changes |-> x.changes]

LEMMA PrefixRead ==
  ASSUME NEW t, NEW b \in DOMAIN ByteExtendCodes[t]
  PROVE  LET r == Decode(InTable(t), b)
         IN  r.key = Unknown /\ r.action = "NONE" /\ Reading(r.decoder) = InTable(ByteExtendCodes[t][b])
  BY DEF Decode, InTable, ProcessCodeByLookup, PartiallyDecoded, Result, Reading

LEMMA DecodedRead ==
  ASSUME NEW d, d.mode \in {"LOOKUP", "SEQUENCE"},
         d = [mode |-> d.mode, table |-> d.table, sequence |-> d.sequence, index |-> d.index],
         NEW k, k.key # Unknown
  PROVE  LET r == DecodedOrFailed(d, k)
         IN  r.key = k.key /\ r.action = k.action /\ Reading(r.decoder) = BetweenCodes
<1>1. DecodedOrFailed(d, k) = Result("DECODED", [d EXCEPT !.mode = "LOOKUP", !.table = GlobalTable], k.key, k.action)
  BY DEF DecodedOrFailed, Finished
<1> DEFINE e == [d EXCEPT !.mode = "LOOKUP", !.table = GlobalTable]
<1>2. e.mode = "LOOKUP" /\ e.table = GlobalTable
  OBVIOUS
<1>3. Reading(e) = BetweenCodes
  BY <1>2 DEF Reading, BetweenCodes
<1> QED
  BY <1>1, <1>3 DEF Result

LEMMA LastByteRead ==
  ASSUME NEW t, NEW b, NEW key, key # Unknown, NEW action, EntryFor(t, <<b>>, key, action)
  PROVE  LET r == Decode(InTable(t), b)
         IN  r.key = key /\ r.action = action /\ Reading(r.decoder) = BetweenCodes
<1> DEFINE starting == {s \in SpecialSequences[t] : Head(s.bytes) = b}
           q == [bytes |-> <<b>>, key |-> key, action |-> action]
           d == InTable(t)
           k == [key |-> key, action |-> action]
<1>1. Head(<<b>>) = b /\ Len(<<b>>) = 1
  OBVIOUS
<1>2. /\ d.mode = "LOOKUP" /\ d.table = t
      /\ d = [mode |-> d.mode, table |-> d.table, sequence |-> d.sequence, index |-> d.index]
  BY DEF InTable
<1>3. /\ b \notin DOMAIN ByteExtendCodes[t]
      /\ \/ starting = {} /\ b \in DOMAIN KeysPerByte[t] /\ KeysPerByte[t][b] = k
         \/ starting = {q}
  BY <1>1 DEF EntryFor
<1>4. CASE starting = {} /\ b \in DOMAIN KeysPerByte[t] /\ KeysPerByte[t][b] = k
  <2>1. Decode(d, b) = DecodedOrFailed(d, k)
    BY <1>2, <1>3, <1>4 DEF Decode, ProcessCodeByLookup
  <2> QED
    BY <1>2, <2>1, DecodedRead
<1>5. CASE starting = {q}
  <2>1. (CHOOSE s \in starting : TRUE) = q
    BY <1>5
  <2>2. Len(q.bytes) = 1 /\ ~(1 > 1) /\ starting # {}
    <3>1. q.bytes = <<b>>
      OBVIOUS
    <3> HIDE DEF q, starting
    <3> QED
      BY <1>1, <1>5, <3>1
  <2>3. b \notin DOMAIN ByteExtendCodes[d.table] /\ starting = {s \in SpecialSequences[d.table] : Head(s.bytes) = b}
    BY <1>2, <1>3
  <2>4. Decode(d, b) = DecodedOrFailed(d, q)
    <3> HIDE DEF d, q, starting
    <3> QED
      BY <1>2, <2>1, <2>2, <2>3 DEF Decode, ProcessCodeByLookup
  <2> QED
    BY <1>2, <2>4, DecodedRead
<1> QED
  BY <1>3, <1>4, <1>5

LEMMA SequenceBegun ==
  ASSUME NEW t, NEW s, Len(s.bytes) > 1, Head(s.bytes) \notin DOMAIN ByteExtendCodes[t],
         {e \in SpecialSequences[t] : Head(e.bytes) = Head(s.bytes)} = {s}
  PROVE  LET r == Decode(InTable(t), Head(s.bytes))
         IN  r.key = Unknown /\ r.action = "NONE" /\ Reading(r.decoder) = InSequence(t, s, 1)
<1> DEFINE b == Head(s.bytes)
           d == InTable(t)
           starting == {e \in SpecialSequences[t] : Head(e.bytes) = b}
           e == [d EXCEPT !.mode = "SEQUENCE", !.sequence = s, !.index = 1]
<1>1. starting = {s} /\ (CHOOSE q \in starting : TRUE) = s /\ Len(s.bytes) > 1 /\ b \notin DOMAIN ByteExtendCodes[t]
  OBVIOUS
<1>2. d.mode = "LOOKUP" /\ d.table = t
  BY DEF InTable
<1>3. Decode(d, b) = PartiallyDecoded(e)
  <2> HIDE DEF d, b
  <2> QED
    BY <1>1, <1>2 DEF Decode, ProcessCodeByLookup
<1>4. Reading(e) = InSequence(t, s, 1)
  BY DEF InTable, Reading, InSequence
<1> QED
  BY <1>3, <1>4 DEF PartiallyDecoded, Result

LEMMA SequenceGoesOn ==
  ASSUME NEW t, NEW s, NEW i \in Nat, i + 1 < Len(s.bytes)
  PROVE  LET r == Decode(InSequence(t, s, i), s.bytes[i + 1])
         IN  r.key = Unknown /\ r.action = "NONE" /\ Reading(r.decoder) = InSequence(t, s, i + 1)
<1> DEFINE d == InSequence(t, s, i)
           e == [d EXCEPT !.index = @ + 1]
<1>1. d.mode = "SEQUENCE" /\ d.sequence = s /\ d.index = i
  BY DEF InSequence
<1>2. Decode(d, s.bytes[i + 1]) = PartiallyDecoded(e)
  <2> HIDE DEF d
  <2> QED
    BY <1>1 DEF Decode, ProcessByteSequenceCode
<1>3. Reading(e) = InSequence(t, s, i + 1)
  BY DEF InSequence, Reading
<1> QED
  BY <1>2, <1>3 DEF PartiallyDecoded, Result

LEMMA SequenceEnds ==
  ASSUME NEW t, NEW s, s.key # Unknown, NEW i \in Nat, i + 1 = Len(s.bytes)
  PROVE  LET r == Decode(InSequence(t, s, i), s.bytes[i + 1])
         IN  r.key = s.key /\ r.action = s.action /\ Reading(r.decoder) = BetweenCodes
<1> DEFINE d == InSequence(t, s, i)
<1>1. /\ d.mode = "SEQUENCE" /\ d.sequence = s /\ d.index = i
      /\ d = [mode |-> d.mode, table |-> d.table, sequence |-> d.sequence, index |-> d.index]
  BY DEF InSequence
<1>2. Decode(d, s.bytes[i + 1]) = DecodedOrFailed(d, s)
  <2> HIDE DEF d
  <2> QED
    BY <1>1 DEF Decode, ProcessByteSequenceCode
<1> QED
  BY <1>1, <1>2, DecodedRead

LEMMA NoKeyChanges ==
  ASSUME NEW x, x.keyStates \in [Keys -> KeyStateSet], NEW d
  PROVE  KeyChanges(x, d, Unknown, "NONE") = With(x, d)
<1>1. Unknown \in Keys /\ Unknown \notin LockKeys
  BY KeysAssumption DEF Unknown, LockKeys
<1>2. UpdateKeyState(x.keyStates[Unknown], "NONE") = x.keyStates[Unknown]
  BY DEF UpdateKeyState
<1>3. [x.keyStates EXCEPT ![Unknown] = UpdateKeyState(@, "NONE")] = x.keyStates
  BY <1>1, <1>2
<1> QED
  BY <1>1, <1>3 DEF KeyChanges, With

LEMMA DecoderAside ==
  ASSUME NEW x, NEW d, NEW e, NEW key, NEW action
  PROVE  KeyChanges(With(x, e), d, key, action) = KeyChanges(x, d, key, action)
  BY DEF KeyChanges, With

(* A driver between codes, which may queue the command that the key asks   *)
(* for.                                                                    *)
MayChange(x, key, action) ==
  /\ x = With(x, BetweenCodes)
  /\ x.keyStates \in [Keys -> KeyStateSet] /\ x.changes \in Nat
  /\ KeyChanges(x, BetweenCodes, key, action).changes \in Nat

LEMMA CodeLeads ==
  ASSUME NEW code, NEW key \in Keys \ {Unknown}, NEW action, IsCodeOf(code, key, action),
         NEW x, MayChange(x, key, action)
  PROVE  Leads("driver", x, code, KeyChanges(x, BetweenCodes, key, action))
<1> DEFINE L == Len(code)
           z == KeyChanges(x, BetweenCodes, key, action)
<1>1. code \in Seq(Nat \ ResponseCodes) /\ L \in Nat \ {0}
  BY DEF IsCodeOf
<1>2. PICK n \in 0..(L - 1) : \E path \in [0..n -> ScanTables] :
         LeadsThrough(path, n, code) /\ EntryFor(path[n], SubSeq(code, n + 1, L), key, action)
  BY DEF IsCodeOf
<1>3. PICK path \in [0..n -> ScanTables] :
         LeadsThrough(path, n, code) /\ EntryFor(path[n], SubSeq(code, n + 1, L), key, action)
  BY <1>2
<1> DEFINE rest == SubSeq(code, n + 1, L)
           s == [bytes |-> rest, key |-> key, action |-> action]
           dec == [i \in 0..(L - 1) |-> IF i <= n THEN InTable(path[i]) ELSE InSequence(path[n], s, i - n)]
           f == [i \in 0..L |-> IF i < L THEN With(x, dec[i]) ELSE z]
<1>4. n \in Nat /\ n < L
  BY <1>1, <1>2
<1> HIDE DEF L
<1>5. /\ Len(rest) = L - n /\ rest \in Seq(Nat \ ResponseCodes)
      /\ \A j \in 1..(L - n) : rest[j] = code[n + j]
  <2> HIDE <1>3
  <2>1. L = Len(code)
    BY DEF L
  <2> QED
    BY <1>1, <1>4, <2>1
<1>6. Head(rest) = code[n + 1]
  BY <1>4, <1>5
<1>7. s.bytes = rest /\ s.key = key /\ s.action = action
  OBVIOUS
<1> HIDE DEF rest
<1>8. /\ \A i \in 0..n : dec[i] = InTable(path[i])
      /\ \A i \in (n + 1)..(L - 1) : dec[i] = InSequence(path[n], s, i - n)
  BY <1>1, <1>4
<1>9. /\ \A i \in 0..(L - 1) : f[i] = With(x, dec[i])
      /\ f[L] = z
  BY <1>1
<1> DEFINE Starting == {e \in SpecialSequences[path[n]] : Head(e.bytes) = Head(rest)}
<1>10. /\ Head(rest) \notin DOMAIN ByteExtendCodes[path[n]]
       /\ Len(rest) # 1 => Starting = {s}
  BY <1>3 DEF EntryFor, rest
<1> HIDE DEF dec, f, s, Starting
<1>11. ASSUME NEW i \in 1..(L - 1)
       PROVE  LET r == Decode(dec[i - 1], code[i])
              IN  r.key = Unknown /\ r.action = "NONE" /\ Reading(r.decoder) = dec[i]
  <2>1. CASE i <= n
    <3>1. i - 1 \in 0..n /\ i \in 0..n /\ i \in 1..n
      BY <1>4, <2>1
    <3>2. dec[i - 1] = InTable(path[i - 1]) /\ dec[i] = InTable(path[i])
      BY <1>8, <3>1
    <3>3. code[i] \in DOMAIN ByteExtendCodes[path[i - 1]] /\ path[i] = ByteExtendCodes[path[i - 1]][code[i]]
      BY <1>3, <3>1 DEF LeadsThrough
    <3> QED
      BY <3>2, <3>3, PrefixRead
  <2>2. CASE i = n + 1
    <3>1. i - 1 = n /\ n \in 0..n /\ i \in (n + 1)..(L - 1) /\ i - n = 1
      BY <1>1, <1>4, <2>2
    <3>2. dec[i - 1] = InTable(path[n]) /\ dec[i] = InSequence(path[n], s, 1)
      BY <1>8, <3>1
    <3>3. Len(rest) > 1 /\ Len(rest) # 1
      BY <1>1, <1>4, <1>5, <2>2
    <3>4. Starting = {s} /\ Head(rest) \notin DOMAIN ByteExtendCodes[path[n]]
      BY <1>10, <3>3
    <3>5. LET r == Decode(InTable(path[n]), Head(rest))
          IN  r.key = Unknown /\ r.action = "NONE" /\ Reading(r.decoder) = InSequence(path[n], s, 1)
      <4>1. {e \in SpecialSequences[path[n]] : Head(e.bytes) = Head(s.bytes)} = {s}
        BY <1>7, <3>4 DEF Starting
      <4>2. Len(s.bytes) > 1 /\ Head(s.bytes) \notin DOMAIN ByteExtendCodes[path[n]]
        BY <1>7, <3>3, <3>4
      <4>3. LET r == Decode(InTable(path[n]), Head(s.bytes))
            IN  r.key = Unknown /\ r.action = "NONE" /\ Reading(r.decoder) = InSequence(path[n], s, 1)
        BY <4>1, <4>2, SequenceBegun
      <4> QED
        BY <1>7, <4>3
    <3> QED
      BY <1>6, <2>2, <3>2, <3>5
  <2>3. CASE i > n + 1
    <3> DEFINE j == (i - 1) - n
    <3>1. /\ j \in Nat /\ j + 1 = i - n /\ j + 1 < Len(rest) /\ j + 1 \in 1..(L - n) /\ n + (j + 1) = i
          /\ i - 1 \in (n + 1)..(L - 1) /\ i \in (n + 1)..(L - 1)
      <4>1. Len(rest) = L - n /\ L \in Nat \ {0}
        BY <1>1, <1>5
      <4> QED
        BY <1>4, <2>3, <4>1
    <3>2. dec[i - 1] = InSequence(path[n], s, j) /\ dec[i] = InSequence(path[n], s, j + 1)
      BY <1>8, <3>1
    <3> HIDE DEF j
    <3>3. s.bytes[j + 1] = code[i] /\ j + 1 < Len(s.bytes)
      BY <1>5, <1>7, <3>1
    <3>4. LET r == Decode(InSequence(path[n], s, j), s.bytes[j + 1])
          IN  r.key = Unknown /\ r.action = "NONE" /\ Reading(r.decoder) = InSequence(path[n], s, j + 1)
      BY <3>1, <3>3, SequenceGoesOn
    <3> QED
      BY <3>2, <3>3, <3>4
  <2> QED
    BY <1>4, <2>1, <2>2, <2>3
<1>12. LET r == Decode(dec[L - 1], code[L])
       IN  r.key = key /\ r.action = action /\ Reading(r.decoder) = BetweenCodes
  <2>1. CASE L - 1 = n
    <3>1. n \in 0..n /\ Len(rest) = 1 /\ n + 1 = L
      BY <1>1, <1>4, <1>5, <2>1
    <3>2. rest = <<code[L]>>
      <4>1. rest = <<rest[1]>>
        BY <1>5, <3>1, OneElement
      <4>2. rest[1] = code[L]
        <5>1. L - n = 1 /\ 1 \in 1..1
          BY <1>5, <3>1
        <5> QED
          BY <1>5, <3>1, <5>1
      <4> QED
        BY <4>1, <4>2
    <3>3. dec[L - 1] = InTable(path[n])
      BY <1>8, <2>1, <3>1
    <3>4. EntryFor(path[n], <<code[L]>>, key, action)
      BY <1>3, <3>2 DEF rest
    <3> QED
      BY <3>3, <3>4, LastByteRead
  <2>2. CASE L - 1 # n
    <3> DEFINE j == (L - 1) - n
    <3>1. j \in Nat /\ j + 1 = Len(rest) /\ j + 1 \in 1..(L - n) /\ n + (j + 1) = L /\ L - 1 \in (n + 1)..(L - 1)
      <4>1. Len(rest) = L - n /\ L \in Nat \ {0}
        BY <1>1, <1>5
      <4> QED
        BY <1>4, <2>2, <4>1
    <3>2. dec[L - 1] = InSequence(path[n], s, j)
      BY <1>8, <3>1
    <3> HIDE DEF j
    <3>3. s.bytes[j + 1] = code[L] /\ j + 1 = Len(s.bytes) /\ s.key # Unknown
      BY <1>5, <1>7, <3>1
    <3>4. LET r == Decode(InSequence(path[n], s, j), s.bytes[j + 1])
          IN  r.key = s.key /\ r.action = s.action /\ Reading(r.decoder) = BetweenCodes
      BY <3>1, <3>3, SequenceEnds
    <3> QED
      BY <1>7, <3>2, <3>3, <3>4
  <2> QED
    BY <2>1, <2>2
<1>13. ASSUME NEW i \in 1..L
       PROVE  Accepts("driver", f[i - 1], code[i]) /\ f[i] = Taken("driver", f[i - 1], code[i])
  <2>1. code[i] \notin ResponseCodes /\ i - 1 \in 0..(L - 1)
    <3>1. L = Len(code)
      BY DEF L
    <3> QED
      BY <1>1, <3>1
  <2>2. f[i - 1] = With(x, dec[i - 1])
    BY <1>9, <2>1
  <2>3. f[i - 1].decoder = dec[i - 1]
    BY <2>2 DEF With
  <2> DEFINE r == Decode(dec[i - 1], code[i])
  <2>4. DriverTakes(f[i - 1], code[i]) = KeyChanges(x, Reading(r.decoder), r.key, r.action)
    BY <2>1, <2>2, <2>3, DecoderAside DEF DriverTakes
  <2>5. f[i] = KeyChanges(x, Reading(r.decoder), r.key, r.action) /\ f[i].changes \in Nat
    <3>1. CASE i < L
      <4>1. i \in 1..(L - 1) /\ i \in 0..(L - 1)
        BY <1>1, <3>1
      <4>2. r.key = Unknown /\ r.action = "NONE" /\ Reading(r.decoder) = dec[i]
        BY <1>11, <4>1
      <4>3. f[i] = With(x, dec[i])
        BY <1>9, <4>1
      <4> HIDE DEF r
      <4>4. KeyChanges(x, Reading(r.decoder), r.key, r.action) = With(x, dec[i])
        BY <4>2, NoKeyChanges DEF MayChange
      <4> QED
        BY <4>3, <4>4 DEF With, MayChange
    <3>2. CASE i = L
      BY <1>9, <1>12, <3>2 DEF MayChange
    <3> QED
      BY <1>1, <3>1, <3>2
  <2> HIDE DEF r
  <2> QED
    BY <2>4, <2>5 DEF Accepts, Taken
<1>14. f[0] = x
  <2>1. 0 \in 0..n /\ 0 \in 0..(L - 1)
    BY <1>1, <1>4
  <2>2. f[0] = With(x, InTable(GlobalTable))
    BY <1>3, <1>8, <1>9, <2>1 DEF LeadsThrough
  <2> QED
    BY <2>2 DEF InTable, BetweenCodes, MayChange
<1>15. Follows("driver", f, code)
  BY <1>13, Zenon DEF Follows, L
<1> HIDE DEF z
<1>16. Leads("driver", x, code, z)
  BY <1>9, <1>14, <1>15, Zenon DEF Leads, L
<1> QED
  BY <1>16 DEF z

-----------------------------------------------------------------------------
(* The driver once everything is delivered, and the user. *)

LockAgrees(lock, isHeld, isOdd) ==
  /\ lock.active <=> isHeld \/ isOdd
  /\ lock.justActivated <=> isHeld /\ isOdd

(* The locks that go off when their key is released. *)
GoingOff(keys, h, odd) == {k \in LockKeys : k \in keys /\ k \in h /\ k \notin odd}

Matches(y, keys, h, odd, left) ==
  /\ y = With(y, BetweenCodes)
  /\ y.keyStates \in [Keys -> KeyStateSet] /\ y.locks \in [LockKeys -> LockSet]
  /\ y.changes \in Nat /\ y.changes >= left + Cardinality(GoingOff(keys, h, odd))
  /\ \A k \in keys : y.keyStates[k] # "RELEASED" <=> k \in h
  /\ \A k \in LockKeys : k \in keys => LockAgrees(y.locks[k], k \in h, k \in odd)

LEMMA LockKeysFinite ==
  ASSUME NEW keys, NEW h, NEW odd
  PROVE  IsFiniteSet(GoingOff(keys, h, odd)) /\ Cardinality(GoingOff(keys, h, odd)) \in Nat
<1>1. IsFiniteSet({}) /\ IsFiniteSet({"CAPS_LOCK"})
  BY FS_EmptySet, FS_Singleton
<1>2. IsFiniteSet({"CAPS_LOCK"} \cup {"NUM_LOCK"} \cup {"SCROLL_LOCK"})
  BY FS_Singleton, FS_Union
<1>3. LockKeys = {"CAPS_LOCK"} \cup {"NUM_LOCK"} \cup {"SCROLL_LOCK"}
  BY DEF LockKeys
<1>4. GoingOff(keys, h, odd) \subseteq LockKeys
  BY DEF GoingOff
<1>5. IsFiniteSet(GoingOff(keys, h, odd))
  BY <1>2, <1>3, <1>4, FS_Subset
<1> QED
  BY <1>5, FS_CardinalityType

LEMMA SwitchLockType ==
  ASSUME NEW lock \in LockSet, NEW state
  PROVE  SwitchLock(lock, state) \in LockSet
<1>1. [active |-> TRUE, justActivated |-> TRUE] \in LockSet
  BY DEF LockSet
<1>2. [lock EXCEPT !.justActivated = FALSE] \in LockSet /\ [lock EXCEPT !.active = FALSE] \in LockSet
  BY DEF LockSet
<1> QED
  BY <1>1, <1>2 DEF SwitchLock

KeyChanged(x, d, k, st, z) ==
  /\ z = With(z, d) /\ z.keyStates \in [Keys -> KeyStateSet] /\ z.locks \in [LockKeys -> LockSet]
  /\ z.keyStates[k] = st /\ \A j \in Keys : j # k => z.keyStates[j] = x.keyStates[j]
  /\ \A j \in LockKeys : z.locks[j] = IF j = k THEN SwitchLock(x.locks[k], st) ELSE x.locks[j]
  /\ z.changes = IF k \in LockKeys /\ SwitchLock(x.locks[k], st).active # x.locks[k].active
                 THEN x.changes - 1 ELSE x.changes

LEMMA KeyChangesOne ==
  ASSUME NEW x, x.keyStates \in [Keys -> KeyStateSet], x.locks \in [LockKeys -> LockSet],
         NEW d, NEW k \in Keys, NEW action \in KeyActions,
         NEW z, z = KeyChanges(x, d, k, action),
         NEW st, st = UpdateKeyState(x.keyStates[k], action)
  PROVE  KeyChanged(x, d, k, st, z)
<1> DEFINE ks == [x.keyStates EXCEPT ![k] = UpdateKeyState(@, action)]
           lk == IF k \in LockKeys THEN [x.locks EXCEPT ![k] = SwitchLock(@, ks[k])] ELSE x.locks
<1>1. st \in KeyStateSet
  BY DEF UpdateKeyState, KeyStateSet, KeyActions
<1>2. ks \in [Keys -> KeyStateSet] /\ ks[k] = st /\ \A j \in Keys : j # k => ks[j] = x.keyStates[j]
  BY <1>1
<1> HIDE DEF ks
<1>3. /\ lk \in [LockKeys -> LockSet]
      /\ \A j \in LockKeys : lk[j] = IF j = k THEN SwitchLock(x.locks[k], st) ELSE x.locks[j]
  <2>1. CASE k \in LockKeys
    <3>1. SwitchLock(x.locks[k], st) \in LockSet
      BY <2>1, SwitchLockType
    <3> QED
      BY <1>2, <2>1, <3>1
  <2>2. CASE k \notin LockKeys
    BY <2>2
  <2> QED
    BY <2>1, <2>2
<1> HIDE DEF lk
<1>4. z = [decoder |-> d, keyStates |-> ks, locks |-> lk,
           changes |-> IF k \in LockKeys /\ lk[k].active # x.locks[k].active THEN x.changes - 1 ELSE x.changes]
  BY DEF KeyChanges, ks, lk
<1>5. z = With(z, d) /\ z.keyStates = ks /\ z.locks = lk
  BY <1>4 DEF With
<1>6. z.changes = IF k \in LockKeys /\ SwitchLock(x.locks[k], st).active # x.locks[k].active
                  THEN x.changes - 1 ELSE x.changes
  <2>1. z.changes = IF k \in LockKeys /\ lk[k].active # x.locks[k].active THEN x.changes - 1 ELSE x.changes
    BY <1>4
  <2>2. CASE k \in LockKeys
    BY <1>3, <2>1, <2>2
  <2>3. CASE k \notin LockKeys
    BY <2>1, <2>3
  <2> QED
    BY <2>2, <2>3
<1> QED
  BY <1>2, <1>3, <1>5, <1>6, Zenon DEF KeyChanged

(* What a code does that ends with the key held (p) or not, when it        *)
(* becomes odd or even (q). *)
LEMMA KeyMatches ==
  ASSUME NEW y, NEW keys, keys \subseteq Keys, NEW h, NEW odd, NEW left \in Nat, Matches(y, keys, h, odd, left),
         NEW k \in keys, NEW action \in KeyActions, NEW h2, NEW odd2, NEW left2 \in Nat,
         \A j \in keys : j # k => (j \in h2 <=> j \in h) /\ (j \in odd2 <=> j \in odd),
         NEW st, st = UpdateKeyState(y.keyStates[k], action), st # "RELEASED" <=> k \in h2,
         k \in LockKeys => LockAgrees(SwitchLock(y.locks[k], st), k \in h2, k \in odd2),
         NEW spent, spent = IF k \in LockKeys /\ SwitchLock(y.locks[k], st).active # y.locks[k].active THEN 1 ELSE 0,
         left + Cardinality(GoingOff(keys, h, odd)) >= spent + left2 + Cardinality(GoingOff(keys, h2, odd2))
  PROVE  /\ MayChange(y, k, action)
         /\ Matches(KeyChanges(y, BetweenCodes, k, action), keys, h2, odd2, left2)
<1> DEFINE z == KeyChanges(y, BetweenCodes, k, action)
<1>1. y.keyStates \in [Keys -> KeyStateSet] /\ y.locks \in [LockKeys -> LockSet] /\ k \in Keys
  BY DEF Matches
<1>2. /\ z = With(z, BetweenCodes) /\ z.keyStates \in [Keys -> KeyStateSet] /\ z.locks \in [LockKeys -> LockSet]
      /\ z.keyStates[k] = st /\ \A j \in Keys : j # k => z.keyStates[j] = y.keyStates[j]
      /\ \A j \in LockKeys : z.locks[j] = IF j = k THEN SwitchLock(y.locks[k], st) ELSE y.locks[j]
      /\ z.changes = IF spent = 1 THEN y.changes - 1 ELSE y.changes
  <2>1. z = KeyChanges(y, BetweenCodes, k, action)
    OBVIOUS
  <2> HIDE DEF z
  <2>2. KeyChanged(y, BetweenCodes, k, st, z)
    BY <1>1, <2>1, KeyChangesOne
  <2>3. z.changes = IF spent = 1 THEN y.changes - 1 ELSE y.changes
    BY <2>2 DEF KeyChanged
  <2> QED
    BY <2>2, <2>3, Zenon DEF KeyChanged
<1> HIDE DEF z
<1>3. z.changes \in Nat /\ z.changes >= left2 + Cardinality(GoingOff(keys, h2, odd2))
  <2>1. /\ Cardinality(GoingOff(keys, h2, odd2)) \in Nat /\ Cardinality(GoingOff(keys, h, odd)) \in Nat
        /\ spent \in {0, 1}
    BY LockKeysFinite
  <2>2. y.changes \in Nat /\ y.changes >= left + Cardinality(GoingOff(keys, h, odd))
    BY DEF Matches
  <2>3. z.changes = y.changes - spent
    BY <1>2, <2>1, <2>2
  <2> QED
    BY <2>1, <2>2, <2>3
<1>4. ASSUME NEW j \in keys PROVE z.keyStates[j] # "RELEASED" <=> j \in h2
  <2>1. CASE j = k
    BY <1>2, <2>1
  <2>2. CASE j # k
    <3>1. z.keyStates[j] = y.keyStates[j]
      BY <1>2, <2>2
    <3>2. y.keyStates[j] # "RELEASED" <=> j \in h
      BY DEF Matches
    <3> QED
      BY <2>2, <3>1, <3>2
  <2> QED
    BY <2>1, <2>2
<1>5. ASSUME NEW j \in LockKeys, j \in keys PROVE LockAgrees(z.locks[j], j \in h2, j \in odd2)
  <2>1. CASE j = k
    BY <1>2, <2>1
  <2>2. CASE j # k
    <3>1. z.locks[j] = y.locks[j]
      BY <1>2, <2>2
    <3>2. LockAgrees(y.locks[j], j \in h, j \in odd)
      BY <1>5, Zenon DEF Matches
    <3> QED
      BY <1>5, <2>2, <3>1, <3>2 DEF LockAgrees
  <2> QED
    BY <2>1, <2>2
<1>6. MayChange(y, k, action)
  <2>1. y = With(y, BetweenCodes) /\ y.changes \in Nat
    BY Zenon DEF Matches
  <2> QED
    BY <1>1, <1>3, <2>1, Zenon DEF MayChange, z
<1> QED
  BY <1>2, <1>3, <1>4, <1>5, <1>6, Zenon DEF Matches, z

(* One more or one less in a set of locks. *)
LEMMA OneMore ==
  ASSUME NEW keys, NEW h, NEW odd, NEW h2, NEW odd2, NEW k \in LockKeys,
         k \notin GoingOff(keys, h, odd), GoingOff(keys, h2, odd2) = GoingOff(keys, h, odd) \cup {k}
  PROVE  Cardinality(GoingOff(keys, h2, odd2)) = Cardinality(GoingOff(keys, h, odd)) + 1
  BY LockKeysFinite, FS_AddElement

PressAction(k) == IF BreakCode[k] = <<>> THEN "PRESSED_RELEASED" ELSE "PRESSED"
HeldAfter(k, h) == IF BreakCode[k] = <<>> THEN h ELSE h \cup {k}
OddAfter(k, odd) == IF k \in odd THEN odd \ {k} ELSE odd \cup {k}

LEMMA LockOf ==
  ASSUME NEW y, NEW keys, NEW h, NEW odd, NEW left, Matches(y, keys, h, odd, left),
         NEW k \in LockKeys, k \in keys
  PROVE  y.locks[k] \in LockSet /\ LockAgrees(y.locks[k], k \in h, k \in odd)
<1>1. y.locks \in [LockKeys -> LockSet]
  BY Zenon DEF Matches
<1>2. LockAgrees(y.locks[k], k \in h, k \in odd)
  BY Zenon DEF Matches
<1> QED
  BY <1>1, <1>2

LEMMA KeyStateOf ==
  ASSUME NEW y, NEW keys, keys \subseteq Keys, NEW h, NEW odd, NEW left, Matches(y, keys, h, odd, left),
         NEW k \in keys
  PROVE  y.keyStates[k] \in KeyStateSet /\ (y.keyStates[k] # "RELEASED" <=> k \in h)
<1>1. y.keyStates \in [Keys -> KeyStateSet]
  BY Zenon DEF Matches
<1>2. y.keyStates[k] # "RELEASED" <=> k \in h
  BY Zenon DEF Matches
<1> QED
  BY <1>1, <1>2

LEMMA PressMatches ==
  ASSUME NEW y, NEW keys, keys \subseteq DOMAIN MakeCode, NEW h, NEW odd, NEW left \in Nat \ {0},
         Matches(y, keys, h, odd, left), NEW k \in keys, k \notin h
  PROVE  /\ MayChange(y, k, PressAction(k))
         /\ Matches(KeyChanges(y, BetweenCodes, k, PressAction(k)), keys, HeldAfter(k, h), OddAfter(k, odd), left - 1)
<1> DEFINE h2 == HeldAfter(k, h)
           odd2 == OddAfter(k, odd)
           act == PressAction(k)
           st == UpdateKeyState(y.keyStates[k], act)
           spent == IF k \in LockKeys /\ SwitchLock(y.locks[k], st).active # y.locks[k].active THEN 1 ELSE 0
           C == Cardinality(GoingOff(keys, h, odd))
           C2 == Cardinality(GoingOff(keys, h2, odd2))
<1>1. /\ keys \subseteq Keys /\ act \in KeyActions /\ left - 1 \in Nat
      /\ k \in LockKeys => BreakCode[k] # <<>>
  BY CodesAssumption DEF KeyActions, PressAction
<1>2. \A j \in keys : j # k => (j \in h2 <=> j \in h) /\ (j \in odd2 <=> j \in odd)
  BY DEF HeldAfter, OddAfter
<1>3. y.keyStates[k] = "RELEASED"
  BY <1>1, KeyStateOf
<1>4. /\ BreakCode[k] = <<>> => st = "RELEASED" /\ k \notin h2
      /\ BreakCode[k] # <<>> => st = "PRESSED" /\ k \in h2
  BY <1>3 DEF UpdateKeyState, PressAction, HeldAfter
<1>5. k \in odd2 <=> k \notin odd
  BY DEF OddAfter
<1>6. /\ k \in LockKeys => LockAgrees(SwitchLock(y.locks[k], st), k \in h2, k \in odd2)
      /\ left + C >= spent + (left - 1) + C2
  <2>1. C \in Nat /\ C2 \in Nat
    BY LockKeysFinite
  <2>2. CASE k \notin LockKeys
    <3>1. GoingOff(keys, h2, odd2) = GoingOff(keys, h, odd)
      BY <1>2, <2>2 DEF GoingOff
    <3>2. spent = 0 /\ C2 = C
      BY <2>2, <3>1
    <3> HIDE DEF spent, C, C2
    <3> QED
      BY <2>1, <2>2, <3>2
  <2>3. CASE k \in LockKeys /\ k \in odd
    <3>1. y.locks[k] \in LockSet /\ y.locks[k].active /\ ~y.locks[k].justActivated
      BY <2>3, LockOf DEF LockAgrees
    <3>2. st = "PRESSED" /\ k \in h2 /\ k \notin odd2
      BY <1>1, <1>4, <1>5, <2>3
    <3>3. SwitchLock(y.locks[k], st) = y.locks[k]
      BY <3>1, <3>2 DEF SwitchLock
    <3>4. k \notin GoingOff(keys, h, odd) /\ GoingOff(keys, h2, odd2) = GoingOff(keys, h, odd) \cup {k}
      BY <1>2, <2>3, <3>2 DEF GoingOff
    <3>5. C2 = C + 1 /\ spent = 0
      BY <2>3, <3>3, <3>4, OneMore
    <3>6. LockAgrees(SwitchLock(y.locks[k], st), k \in h2, k \in odd2)
      BY <3>1, <3>2, <3>3 DEF LockAgrees
    <3> HIDE DEF spent, C, C2
    <3> QED
      BY <2>1, <3>5, <3>6
  <2>4. CASE k \in LockKeys /\ k \notin odd
    <3>1. y.locks[k] \in LockSet /\ ~y.locks[k].active
      BY <2>4, LockOf DEF LockAgrees
    <3>2. st = "PRESSED" /\ k \in h2 /\ k \in odd2
      BY <1>1, <1>4, <1>5, <2>4
    <3>3. SwitchLock(y.locks[k], st) = [active |-> TRUE, justActivated |-> TRUE]
      BY <3>1, <3>2 DEF SwitchLock
    <3>4. GoingOff(keys, h2, odd2) = GoingOff(keys, h, odd)
      BY <1>2, <2>4, <3>2 DEF GoingOff
    <3>5. C2 = C /\ spent \in {0, 1}
      BY <3>4
    <3>6. LockAgrees(SwitchLock(y.locks[k], st), k \in h2, k \in odd2)
      BY <3>2, <3>3 DEF LockAgrees
    <3> HIDE DEF spent, C, C2
    <3> QED
      BY <2>1, <3>5, <3>6
  <2> QED
    BY <2>2, <2>3, <2>4
<1>7. st # "RELEASED" <=> k \in h2
  BY <1>4
<1>8. spent = IF k \in LockKeys /\ SwitchLock(y.locks[k], st).active # y.locks[k].active THEN 1 ELSE 0
  OBVIOUS
<1>9. st = UpdateKeyState(y.keyStates[k], act)
  OBVIOUS
<1> HIDE DEF spent, st
<1> QED
  BY <1>1, <1>2, <1>6, <1>7, <1>8, <1>9, KeyMatches

LEMMA RepeatMatches ==
  ASSUME NEW y, NEW keys, keys \subseteq DOMAIN MakeCode, NEW h, NEW odd, NEW left \in Nat \ {0},
         Matches(y, keys, h, odd, left), NEW k \in keys, k \in h
  PROVE  /\ MayChange(y, k, "PRESSED")
         /\ Matches(KeyChanges(y, BetweenCodes, k, "PRESSED"), keys, h, odd, left - 1)
<1> DEFINE st == UpdateKeyState(y.keyStates[k], "PRESSED")
           spent == IF k \in LockKeys /\ SwitchLock(y.locks[k], st).active # y.locks[k].active THEN 1 ELSE 0
           C == Cardinality(GoingOff(keys, h, odd))
<1>1. keys \subseteq Keys /\ "PRESSED" \in KeyActions /\ left - 1 \in Nat
  BY CodesAssumption DEF KeyActions
<1>2. st = "REPEAT"
  BY <1>1, KeyStateOf DEF UpdateKeyState
<1>3. ASSUME k \in LockKeys
      PROVE  SwitchLock(y.locks[k], st) = y.locks[k] /\ LockAgrees(y.locks[k], k \in h, k \in odd)
  BY <1>2, <1>3, LockOf DEF LockAgrees, SwitchLock
<1>4. spent = 0
  BY <1>3
<1>5. left + C >= spent + (left - 1) + C
  <2>1. C \in Nat
    BY LockKeysFinite
  <2> HIDE DEF C, spent
  <2> QED
    BY <1>4, <2>1
<1>6. k \in LockKeys => LockAgrees(SwitchLock(y.locks[k], st), k \in h, k \in odd)
  BY <1>3
<1>7. st # "RELEASED" <=> k \in h
  BY <1>2
<1>8. spent = IF k \in LockKeys /\ SwitchLock(y.locks[k], st).active # y.locks[k].active THEN 1 ELSE 0
  OBVIOUS
<1>9. st = UpdateKeyState(y.keyStates[k], "PRESSED")
  OBVIOUS
<1> HIDE DEF spent, st
<1> QED
  BY <1>1, <1>5, <1>6, <1>7, <1>8, <1>9, KeyMatches

LEMMA ReleaseMatches ==
  ASSUME NEW y, NEW keys, keys \subseteq DOMAIN MakeCode, NEW h, NEW odd, NEW left \in Nat,
         Matches(y, keys, h, odd, left), NEW k \in keys, k \in h
  PROVE  /\ MayChange(y, k, "RELEASED")
         /\ Matches(KeyChanges(y, BetweenCodes, k, "RELEASED"), keys, h \ {k}, odd, left)
<1> DEFINE h2 == h \ {k}
           st == UpdateKeyState(y.keyStates[k], "RELEASED")
           spent == IF k \in LockKeys /\ SwitchLock(y.locks[k], st).active # y.locks[k].active THEN 1 ELSE 0
           C == Cardinality(GoingOff(keys, h, odd))
           C2 == Cardinality(GoingOff(keys, h2, odd))
<1>1. keys \subseteq Keys /\ "RELEASED" \in KeyActions
  BY CodesAssumption DEF KeyActions
<1>2. \A j \in keys : j # k => (j \in h2 <=> j \in h)
  OBVIOUS
<1>3. st = "RELEASED" /\ k \notin h2
  BY DEF UpdateKeyState
<1>4. /\ k \in LockKeys => LockAgrees(SwitchLock(y.locks[k], st), k \in h2, k \in odd)
      /\ left + C >= spent + left + C2
  <2>1. C \in Nat /\ C2 \in Nat
    BY LockKeysFinite
  <2>2. CASE k \notin LockKeys
    <3>1. GoingOff(keys, h2, odd) = GoingOff(keys, h, odd)
      BY <1>2, <2>2 DEF GoingOff
    <3>2. spent = 0 /\ C2 = C
      BY <2>2, <3>1
    <3> HIDE DEF spent, C, C2
    <3> QED
      BY <2>1, <2>2, <3>2
  <2>3. CASE k \in LockKeys /\ k \in odd
    <3>1. y.locks[k] \in LockSet /\ y.locks[k].active /\ y.locks[k].justActivated
      BY <2>3, LockOf DEF LockAgrees
    <3>2. SwitchLock(y.locks[k], st) = [y.locks[k] EXCEPT !.justActivated = FALSE]
      BY <1>3, <3>1 DEF SwitchLock
    <3>3. SwitchLock(y.locks[k], st).active /\ ~SwitchLock(y.locks[k], st).justActivated
      BY <3>1, <3>2 DEF LockSet
    <3>4. GoingOff(keys, h2, odd) = GoingOff(keys, h, odd)
      BY <1>2, <2>3 DEF GoingOff
    <3>5. C2 = C /\ spent = 0
      BY <3>1, <3>3, <3>4
    <3>6. LockAgrees(SwitchLock(y.locks[k], st), k \in h2, k \in odd)
      BY <1>3, <2>3, <3>3 DEF LockAgrees
    <3> HIDE DEF spent, C, C2
    <3> QED
      BY <2>1, <3>5, <3>6
  <2>4. CASE k \in LockKeys /\ k \notin odd
    <3>1. y.locks[k] \in LockSet /\ y.locks[k].active /\ ~y.locks[k].justActivated
      BY <2>4, LockOf DEF LockAgrees
    <3>2. SwitchLock(y.locks[k], st) = [y.locks[k] EXCEPT !.active = FALSE]
      BY <1>3, <3>1 DEF SwitchLock
    <3>3. ~SwitchLock(y.locks[k], st).active /\ ~SwitchLock(y.locks[k], st).justActivated
      BY <3>1, <3>2 DEF LockSet
    <3>4. k \notin GoingOff(keys, h2, odd) /\ GoingOff(keys, h, odd) = GoingOff(keys, h2, odd) \cup {k}
      BY <1>2, <2>4 DEF GoingOff
    <3>5. C = C2 + 1
      BY <2>4, <3>4, OneMore
    <3>6. spent \in {0, 1}
      OBVIOUS
    <3>7. LockAgrees(SwitchLock(y.locks[k], st), k \in h2, k \in odd)
      BY <1>3, <2>4, <3>3 DEF LockAgrees
    <3> HIDE DEF spent, C, C2
    <3> QED
      BY <2>1, <3>5, <3>6, <3>7
  <2> QED
    BY <2>2, <2>3, <2>4
<1>5. st # "RELEASED" <=> k \in h2
  BY <1>3
<1>6. spent = IF k \in LockKeys /\ SwitchLock(y.locks[k], st).active # y.locks[k].active THEN 1 ELSE 0
  OBVIOUS
<1>7. st = UpdateKeyState(y.keyStates[k], "RELEASED")
  OBVIOUS
<1> HIDE DEF spent, st
<1> QED
  BY <1>1, <1>2, <1>4, <1>5, <1>6, <1>7, KeyMatches

-----------------------------------------------------------------------------
(* The user, the keyboard's bytes on their way, and the driver. *)

DriverIs(d, ks, lk, r) == [decoder |-> Reading(d), keyStates |-> ks, locks |-> lk, changes |-> r]

UserAt(r) ==
  \E y : /\ Leads("driver", DriverIs(decoder, keyStates, locks, r), fromKeyboard, y)
         /\ Matches(y, session.keys, held, oddPresses, pressesLeft)

SystemTypes ==
  /\ session \in Sessions /\ pressesLeft \in Nat
  /\ \A k \in held : k \in session.keys /\ BreakCode[k] # <<>>
  /\ toKeyboard \in Seq(Nat) /\ fromKeyboard \in Seq(Nat)

LEMMA SessionTypes ==
  ASSUME SystemTypes
  PROVE  /\ session.keys \subseteq DOMAIN MakeCode /\ session.keys \subseteq Keys \ {Unknown}
         /\ session.presses \in Nat /\ session.presses + 5 <= MaxCommands
<1>1. /\ session.keys \subseteq DOMAIN MakeCode /\ session.presses \in Nat
      /\ session.presses + 5 <= MaxCommands
  BY UserAssumption, RoomAssumption DEF SystemTypes
<1> QED
  BY <1>1, CodesAssumption

(* Only the driver's own state is read and changed by a byte, as Taken     *)
(* says; the command for the LEDs is queued when a change is counted.      *)
TakesByte(b, r, r2) ==
  /\ r2 \in {r, r - 1}
  /\ DriverTakes(DriverIs(decoder, keyStates, locks, r), b) = DriverIs(decoder', keyStates', locks', r2)
  /\ b \in ResponseCodes => r2 = r /\ locks' = locks
  /\ b \notin ResponseCodes /\ r2 = r => chan' = Fresh /\ \A k \in LockKeys : locks'[k].active = locks[k].active
  /\ b \notin ResponseCodes /\ r2 # r => chan' = UpdateIndicatorLEDs(Fresh, locks')

LEMMA InterruptTakes ==
  ASSUME DriverInv, NEW b, ProcessKeyboardInterrupt(b), NEW r \in Int
  PROVE  \E r2 : TakesByte(b, r, r2)
<1> DEFINE x == DriverIs(decoder, keyStates, locks, r)
<1>1. CASE b \in ResponseCodes
  <2>1. UNCHANGED <<decoder, keyStates, locks>>
    BY <1>1 DEF ProcessKeyboardInterrupt, IgnoreByte, SelfTestDone, Acknowledge, ResendRequested,
                ScanCodeFailed, ScanCodeProcessed, Respond
  <2>2. TakesByte(b, r, r)
    BY <1>1, <2>1 DEF TakesByte, DriverTakes
  <2> QED
    BY <2>2
<1>2. CASE b \notin ResponseCodes
  <2> DEFINE p == Decode(decoder, b)
             q == Decode(x.decoder, b)
  <2>1. x.decoder = Reading(decoder) /\ x.keyStates = keyStates /\ x.locks = locks /\ x.changes = r
    BY DEF DriverIs
  <2>2. decoder \in Decoders /\ keyStates \in [Keys -> KeyStateSet] /\ locks \in [LockKeys -> LockSet]
    BY DEF DriverInv, DecoderInv, KeysInv
  <2>3. p.result = q.result /\ p.key = q.key /\ p.action = q.action /\ Reading(p.decoder) = Reading(q.decoder)
    BY <2>1, <2>2, ReadingDecodes
  <2>4. p.key \in Keys /\ p.action \in KeyActions
    BY DecodeType DEF DriverInv
  <2>5. DriverTakes(x, b) = KeyChanges(x, Reading(p.decoder), p.key, p.action)
    <3> HIDE DEF x, p
    <3> QED
      BY <1>2, <2>3 DEF DriverTakes
  <2>6. ScanCodeFailed(b) \/ ScanCodeProcessed(b)
    BY <1>2 DEF ProcessKeyboardInterrupt, IgnoreByte, SelfTestDone, Acknowledge, ResendRequested, ResponseCodes
  <2>7. CASE ScanCodeFailed(b)
    <3>1. p.result = "FAILURE" /\ UNCHANGED <<keyStates, locks>> /\ decoder' = p.decoder /\ chan' = Fresh
      BY <2>7 DEF ScanCodeFailed
    <3>2. p.key = Unknown /\ p.action = "NONE"
      BY <3>1, FailureSaysNothing
    <3>3. KeyChanges(x, Reading(p.decoder), p.key, p.action) = With(x, Reading(p.decoder))
      <4> HIDE DEF x, p
      <4> QED
        BY <2>1, <2>2, <3>2, NoKeyChanges
    <3>4. With(x, Reading(p.decoder)) = DriverIs(decoder', keyStates', locks', r)
      BY <2>1, <3>1 DEF With, DriverIs
    <3>5. TakesByte(b, r, r)
      BY <1>2, <2>5, <3>1, <3>3, <3>4 DEF TakesByte
    <3> QED
      BY <3>5
  <2>8. CASE ScanCodeProcessed(b)
    <3> DEFINE st == UpdateKeyState(keyStates[p.key], p.action)
               led == p.key \in LockKeys /\ locks'[p.key].active # locks[p.key].active
               r2 == IF led THEN r - 1 ELSE r
               z == KeyChanges(x, Reading(p.decoder), p.key, p.action)
    <3>1. /\ decoder' = p.decoder
          /\ keyStates' = [keyStates EXCEPT ![p.key] = UpdateKeyState(@, p.action)]
          /\ locks' = IF p.key \in LockKeys THEN [locks EXCEPT ![p.key] = SwitchLock(@, keyStates'[p.key])] ELSE locks
          /\ chan' = IF led THEN UpdateIndicatorLEDs(Fresh, locks') ELSE Fresh
      BY <2>8 DEF ScanCodeProcessed
    <3>2. z = DriverIs(decoder', keyStates', locks', r2)
      <4> HIDE DEF x, p
      <4> QED
        BY <2>1, <3>1 DEF KeyChanges, DriverIs
    <3> HIDE DEF z, p
    <3>3. ~led => \A k \in LockKeys : locks'[k].active = locks[k].active
      BY <2>2, <3>1
    <3>4. r2 \in {r, r - 1} /\ (led <=> r2 # r)
      OBVIOUS
    <3> HIDE DEF r2, led
    <3>5. TakesByte(b, r, r2)
      BY <1>2, <2>5, <3>1, <3>2, <3>3, <3>4 DEF TakesByte, z, p
    <3> QED
      BY <3>5
  <2> QED
    BY <2>6, <2>7, <2>8
<1> QED
  BY <1>1, <1>2

LEMMA SentBeforeRange ==
  ASSUME fromKeyboard \in Seq(Nat)
  PROVE  Cardinality(SentBefore) \in 0..Len(fromKeyboard)
<1>1. Len(fromKeyboard) \in Nat /\ SentBefore \subseteq 1..Len(fromKeyboard)
  BY DEF SentBefore
<1>2. IsFiniteSet(1..Len(fromKeyboard)) /\ Cardinality(1..Len(fromKeyboard)) = Len(fromKeyboard)
  <2> DEFINE n == Len(fromKeyboard)
  <2>1. n \in Int /\ 1 \in Int /\ n - 1 + 1 = n /\ (1 > n => n = 0)
    BY <1>1
  <2> HIDE DEF n
  <2>2. IsFiniteSet(1..n) /\ Cardinality(1..n) = IF 1 > n THEN 0 ELSE n - 1 + 1
    BY <2>1, FS_Interval
  <2>3. Cardinality(1..n) = n
    BY <2>1, <2>2
  <2> QED
    BY <2>2, <2>3 DEF n
<1>3. IsFiniteSet(SentBefore) /\ Cardinality(SentBefore) <= Len(fromKeyboard)
  BY <1>1, <1>2, FS_Subset
<1> QED
  BY <1>1, <1>3, FS_CardinalityType

(* Where an answer is put in. *)
Inserted(q, n, a) == SubSeq(q, 1, n) \o a \o SubSeq(q, n + 1, Len(q))

LEMMA SendsInserts ==
  ASSUME fromKeyboard \in Seq(Nat), NEW a \in Seq(Nat), Sends(a)
  PROVE  \E n \in 0..Len(fromKeyboard) :
           fromKeyboard' = Inserted(fromKeyboard, n, a) /\ fromKeyboard' \in Seq(Nat)
<1>1. Cardinality(SentBefore) \in 0..Len(fromKeyboard)
  BY SentBeforeRange
<1>2. fromKeyboard' = Inserted(fromKeyboard, Cardinality(SentBefore), a)
  BY DEF Sends, Inserted
<1>3. \A n \in 0..Len(fromKeyboard) : Inserted(fromKeyboard, n, a) \in Seq(Nat)
  BY DEF Inserted
<1> QED
  BY <1>1, <1>2, <1>3

LEMMA AnswerType ==
  ASSUME NEW d, NEW b
  PROVE  /\ Answer(d, b) \in Seq(Nat)
         /\ \A i \in 1..Len(Answer(d, b)) : Answer(d, b)[i] \in ResponseCodes
<1>1. /\ <<CommandAcknowledged, 170>> \in Seq(Nat) /\ Len(<<CommandAcknowledged, 170>>) = 2
      /\ <<CommandAcknowledged>> \in Seq(Nat) /\ Len(<<CommandAcknowledged>>) = 1
      /\ <<ResendRequest>> \in Seq(Nat) /\ Len(<<ResendRequest>>) = 1
  BY DEF CommandAcknowledged, ResendRequest
<1>2. /\ \A i \in 1..2 : <<CommandAcknowledged, 170>>[i] \in ResponseCodes
      /\ \A i \in 1..1 : <<CommandAcknowledged>>[i] \in ResponseCodes
      /\ \A i \in 1..1 : <<ResendRequest>>[i] \in ResponseCodes
  BY DEF ResponseCodes, SelfTestResults, CommandAcknowledged, ResendRequest
<1> QED
  BY <1>1, <1>2 DEF Answer

LEMMA AnswerKeepsUser ==
  ASSUME SystemTypes, NEW r, UserAt(r), NEW a \in Seq(Nat), \A i \in 1..Len(a) : a[i] \in ResponseCodes,
         Sends(a), UNCHANGED <<vars, held, oddPresses, session, pressesLeft>>
  PROVE  UserAt(r)' /\ fromKeyboard' \in Seq(Nat)
<1>1. PICK n \in 0..Len(fromKeyboard) :
        fromKeyboard' = Inserted(fromKeyboard, n, a) /\ fromKeyboard' \in Seq(Nat)
  BY SendsInserts DEF SystemTypes
<1>2. PICK y : /\ Leads("driver", DriverIs(decoder, keyStates, locks, r), fromKeyboard, y)
               /\ Matches(y, session.keys, held, oddPresses, pressesLeft)
  BY Zenon DEF UserAt
<1>3. \A x : \A i \in 1..Len(a) : Accepts("driver", x, a[i]) /\ Taken("driver", x, a[i]) = x
  BY DEF Accepts, Taken, DriverTakes
<1>4. fromKeyboard \in Seq(Nat)
  BY DEF SystemTypes
<1>5. Leads("driver", DriverIs(decoder, keyStates, locks, r), Inserted(fromKeyboard, n, a), y)
  BY <1>2, <1>3, <1>4, LeadsInserted DEF Inserted
<1>6. /\ decoder' = decoder /\ keyStates' = keyStates /\ locks' = locks /\ session' = session
      /\ held' = held /\ oddPresses' = oddPresses /\ pressesLeft' = pressesLeft
  BY DEF vars
<1>7. Leads("driver", DriverIs(decoder', keyStates', locks', r), fromKeyboard', y)
  BY <1>1, <1>5, <1>6
<1>8. Matches(y, session'.keys, held', oddPresses', pressesLeft')
  BY <1>2, <1>6
<1> QED
  BY <1>1, <1>7, <1>8, Zenon DEF UserAt

(* A code is appended that makes the user's changes to the key. *)
LEMMA CodeKeepsUser ==
  ASSUME SystemTypes, NEW r, UserAt(r), NEW k \in session.keys, NEW code, NEW action, IsCodeOf(code, k, action),
         fromKeyboard' = fromKeyboard \o code, UNCHANGED <<vars, session>>,
         \A y : Matches(y, session.keys, held, oddPresses, pressesLeft) =>
                  /\ MayChange(y, k, action)
                  /\ Matches(KeyChanges(y, BetweenCodes, k, action), session.keys, held', oddPresses', pressesLeft')
  PROVE  UserAt(r)' /\ fromKeyboard' \in Seq(Nat)
<1>1. PICK y : /\ Leads("driver", DriverIs(decoder, keyStates, locks, r), fromKeyboard, y)
               /\ Matches(y, session.keys, held, oddPresses, pressesLeft)
  BY Zenon DEF UserAt
<1> DEFINE z == KeyChanges(y, BetweenCodes, k, action)
<1>2. MayChange(y, k, action) /\ Matches(z, session.keys, held', oddPresses', pressesLeft')
  BY <1>1
<1>3. fromKeyboard \in Seq(Nat) /\ code \in Seq(Nat)
  <2>1. code \in Seq(Nat \ ResponseCodes)
    BY DEF IsCodeOf
  <2>2. \A i \in 1..Len(code) : code[i] \in Nat
    BY <2>1
  <2>3. code \in Seq(Nat)
    BY <2>1, <2>2
  <2> QED
    BY <2>3 DEF SystemTypes
<1>4. k \in Keys \ {Unknown}
  BY SessionTypes
<1>5. Leads("driver", y, code, z)
  BY <1>2, <1>4, CodeLeads
<1> HIDE DEF z
<1>6. Leads("driver", DriverIs(decoder, keyStates, locks, r), fromKeyboard \o code, z)
  BY <1>1, <1>3, <1>5, LeadsJoin
<1>7. decoder' = decoder /\ keyStates' = keyStates /\ locks' = locks /\ session' = session
  BY DEF vars
<1>8. Leads("driver", DriverIs(decoder', keyStates', locks', r), fromKeyboard', z)
  BY <1>6, <1>7
<1>9. Matches(z, session'.keys, held', oddPresses', pressesLeft')
  BY <1>2, <1>7
<1>10. fromKeyboard' \in Seq(Nat)
  BY <1>3
<1> QED
  BY <1>8, <1>9, <1>10, Zenon DEF UserAt

LEMMA PressKeepsUser ==
  ASSUME SystemTypes, NEW r, UserAt(r), NEW k \in session.keys, Press(k)
  PROVE  UserAt(r)' /\ SystemTypes'
<1>1. /\ pressesLeft \in Nat \ {0} /\ pressesLeft' = pressesLeft - 1 /\ k \notin held
      /\ held' = HeldAfter(k, held) /\ oddPresses' = OddAfter(k, oddPresses)
      /\ fromKeyboard' = fromKeyboard \o MakeCode[k] /\ UNCHANGED <<vars, session, toKeyboard>>
  BY DEF Press, SystemTypes, HeldAfter, OddAfter
<1>2. session.keys \subseteq DOMAIN MakeCode
  BY SessionTypes
<1>3. IsCodeOf(MakeCode[k], k, PressAction(k))
  BY <1>2, CodesAssumption DEF PressAction
<1>4. ASSUME NEW y, Matches(y, session.keys, held, oddPresses, pressesLeft)
      PROVE  /\ MayChange(y, k, PressAction(k))
             /\ Matches(KeyChanges(y, BetweenCodes, k, PressAction(k)), session.keys, held', oddPresses', pressesLeft')
  BY <1>1, <1>2, <1>4, PressMatches
<1>5. UserAt(r)' /\ fromKeyboard' \in Seq(Nat)
  BY <1>1, <1>3, <1>4, CodeKeepsUser
<1>6. \A j \in held' : j \in session'.keys /\ BreakCode[j] # <<>>
  BY <1>1 DEF SystemTypes, HeldAfter
<1>7. session' \in Sessions /\ pressesLeft' \in Nat /\ toKeyboard' \in Seq(Nat)
  BY <1>1 DEF SystemTypes
<1> QED
  BY <1>5, <1>6, <1>7 DEF SystemTypes

LEMMA RepeatKeepsUser ==
  ASSUME SystemTypes, NEW r, UserAt(r), NEW k \in session.keys, Repeat(k)
  PROVE  UserAt(r)' /\ SystemTypes'
<1>1. /\ pressesLeft \in Nat \ {0} /\ pressesLeft' = pressesLeft - 1 /\ k \in held
      /\ fromKeyboard' = fromKeyboard \o MakeCode[k]
      /\ UNCHANGED <<vars, session, toKeyboard, held, oddPresses>>
  BY DEF Repeat, SystemTypes
<1>2. session.keys \subseteq DOMAIN MakeCode /\ BreakCode[k] # <<>>
  BY <1>1, SessionTypes DEF SystemTypes
<1>3. IsCodeOf(MakeCode[k], k, "PRESSED")
  BY <1>2, CodesAssumption
<1>4. ASSUME NEW y, Matches(y, session.keys, held, oddPresses, pressesLeft)
      PROVE  /\ MayChange(y, k, "PRESSED")
             /\ Matches(KeyChanges(y, BetweenCodes, k, "PRESSED"), session.keys, held', oddPresses', pressesLeft')
  <2>1. /\ MayChange(y, k, "PRESSED")
        /\ Matches(KeyChanges(y, BetweenCodes, k, "PRESSED"), session.keys, held, oddPresses, pressesLeft - 1)
    BY <1>1, <1>2, <1>4, RepeatMatches
  <2> QED
    BY <1>1, <2>1
<1>5. UserAt(r)' /\ fromKeyboard' \in Seq(Nat)
  BY <1>1, <1>3, <1>4, CodeKeepsUser
<1>6. session' \in Sessions /\ pressesLeft' \in Nat /\ toKeyboard' \in Seq(Nat)
  BY <1>1 DEF SystemTypes
<1>7. \A j \in held' : j \in session'.keys /\ BreakCode[j] # <<>>
  BY <1>1 DEF SystemTypes
<1> QED
  BY <1>5, <1>6, <1>7 DEF SystemTypes

LEMMA ReleaseKeepsUser ==
  ASSUME SystemTypes, NEW r, UserAt(r), NEW k \in session.keys, Release(k)
  PROVE  UserAt(r)' /\ SystemTypes'
<1>1. /\ k \in held /\ held' = held \ {k}
      /\ fromKeyboard' = fromKeyboard \o BreakCode[k]
      /\ UNCHANGED <<vars, session, toKeyboard, oddPresses, pressesLeft>>
  BY DEF Release
<1>2. session.keys \subseteq DOMAIN MakeCode /\ BreakCode[k] # <<>> /\ pressesLeft \in Nat
  BY <1>1, SessionTypes DEF SystemTypes
<1>3. IsCodeOf(BreakCode[k], k, "RELEASED")
  BY <1>2, CodesAssumption
<1>4. ASSUME NEW y, Matches(y, session.keys, held, oddPresses, pressesLeft)
      PROVE  /\ MayChange(y, k, "RELEASED")
             /\ Matches(KeyChanges(y, BetweenCodes, k, "RELEASED"), session.keys, held', oddPresses', pressesLeft')
  <2>1. /\ MayChange(y, k, "RELEASED")
        /\ Matches(KeyChanges(y, BetweenCodes, k, "RELEASED"), session.keys, held \ {k}, oddPresses, pressesLeft)
    BY <1>1, <1>2, <1>4, ReleaseMatches
  <2> QED
    BY <1>1, <2>1
<1>5. UserAt(r)' /\ fromKeyboard' \in Seq(Nat)
  BY <1>1, <1>3, <1>4, CodeKeepsUser
<1>6. session' \in Sessions /\ pressesLeft' \in Nat /\ toKeyboard' \in Seq(Nat)
  BY <1>1 DEF SystemTypes
<1>7. \A j \in held' : j \in session'.keys /\ BreakCode[j] # <<>>
  BY <1>1 DEF SystemTypes
<1> QED
  BY <1>5, <1>6, <1>7 DEF SystemTypes

LEMMA InterruptKeepsUser ==
  ASSUME DriverInv, SystemTypes, NEW r \in Nat, UserAt(r), Interrupt
  PROVE  /\ DriverInv' /\ SystemTypes'
         /\ \E r2 \in Nat : UserAt(r2)' /\ TakesByte(Head(fromKeyboard), r, r2)
<1> DEFINE b == Head(fromKeyboard)
<1>1. /\ fromKeyboard # <<>> /\ ProcessKeyboardInterrupt(b) /\ fromKeyboard' = Tail(fromKeyboard)
      /\ toKeyboard' = toKeyboard \o chan'.written
      /\ UNCHANGED <<held, oddPresses, session, pressesLeft>>
  BY DEF Interrupt, environment
<1>2. fromKeyboard \in Seq(Nat) /\ fromKeyboard' \in Seq(Nat)
  BY <1>1 DEF SystemTypes
<1> HIDE DEF b
<1>3. DriverInv'
  BY <1>1, InterruptDriverInv
<1>4. chan'.written \in Seq(Nat)
  BY <1>3 DEF DriverInv, ChannelInv, Channels
<1>5. SystemTypes'
  <2>1. toKeyboard' \in Seq(Nat)
    BY <1>1, <1>4 DEF SystemTypes
  <2> QED
    BY <1>1, <1>2, <2>1 DEF SystemTypes
<1>6. PICK r2 : TakesByte(b, r, r2)
  BY <1>1, InterruptTakes
<1> DEFINE x == DriverIs(decoder, keyStates, locks, r)
           z == DriverIs(decoder', keyStates', locks', r2)
<1>7. DriverTakes(x, b) = z /\ r2 \in {r, r - 1} /\ z.changes = r2
  BY <1>6 DEF TakesByte, DriverIs
<1>8. PICK y : /\ Leads("driver", x, fromKeyboard, y)
               /\ Matches(y, session.keys, held, oddPresses, pressesLeft)
  BY Zenon DEF UserAt
<1> HIDE DEF x, z
<1>9. Accepts("driver", x, b) /\ Leads("driver", Taken("driver", x, b), fromKeyboard', y)
  BY <1>1, <1>2, <1>8, LeadsHead DEF b
<1>10. Leads("driver", z, fromKeyboard', y)
  BY <1>7, <1>9 DEF Taken
<1>11. r2 \in Nat
  BY <1>6, <1>7, <1>9 DEF Accepts, TakesByte
<1>12. UserAt(r2)'
  BY <1>1, <1>8, <1>10, Zenon DEF UserAt, z
<1> QED
  BY <1>3, <1>5, <1>6, <1>11, <1>12 DEF b

LEMMA DeviceKeepsUser ==
  ASSUME SystemTypes, NEW r, UserAt(r), DeviceReceive \/ DeviceReceiveGarbled
  PROVE  UserAt(r)' /\ SystemTypes'
<1>1. PICK a \in Seq(Nat) : (\A i \in 1..Len(a) : a[i] \in ResponseCodes) /\ Sends(a)
  <2>1. CASE DeviceReceive
    BY <2>1, AnswerType DEF DeviceReceive
  <2>2. CASE DeviceReceiveGarbled
    <3>1. <<ResendRequest>> \in Seq(Nat) /\ Len(<<ResendRequest>>) = 1
      BY DEF ResendRequest
    <3>2. \A i \in 1..1 : <<ResendRequest>>[i] \in ResponseCodes
      BY DEF ResponseCodes
    <3> QED
      BY <2>2, <3>1, <3>2 DEF DeviceReceiveGarbled
  <2> QED
    BY <2>1, <2>2
<1>2. /\ toKeyboard # <<>> /\ toKeyboard' = Tail(toKeyboard)
      /\ UNCHANGED <<vars, held, oddPresses, session, pressesLeft>>
  BY DEF DeviceReceive, DeviceReceiveGarbled, environment
<1>3. UserAt(r)' /\ fromKeyboard' \in Seq(Nat)
  BY <1>1, <1>2, AnswerKeepsUser
<1>4. toKeyboard' \in Seq(Nat)
  BY <1>2 DEF SystemTypes
<1> QED
  BY <1>2, <1>3, <1>4 DEF SystemTypes

LEMMA UserInit ==
  ASSUME SystemInit
  PROVE  DriverInv /\ SystemTypes /\ UserAt(session.presses)
<1>1. DriverInv
  BY InitDriverInv DEF SystemInit
<1>2. /\ fromKeyboard = <<>> /\ toKeyboard = chan.written /\ held = {} /\ oddPresses = {}
      /\ session \in Sessions /\ pressesLeft = session.presses /\ session.presses \in Nat
  BY UserAssumption DEF SystemInit
<1>3. SystemTypes
  BY <1>1, <1>2 DEF SystemTypes, DriverInv, ChannelInv, Channels
<1> DEFINE y == DriverIs(decoder, keyStates, locks, session.presses)
<1>4. Leads("driver", y, fromKeyboard, y)
  BY <1>2, LeadsNowhere
<1>5. /\ y.decoder = BetweenCodes /\ y = With(y, BetweenCodes)
      /\ y.keyStates = keyStates /\ y.locks = locks /\ y.changes = session.presses
  BY DEF DriverIs, With, SystemInit, Init, Reading, BetweenCodes
<1>6. /\ keyStates \in [Keys -> KeyStateSet] /\ locks \in [LockKeys -> LockSet]
      /\ \A k \in Keys : keyStates[k] = "RELEASED"
      /\ \A k \in LockKeys : ~locks[k].active /\ ~locks[k].justActivated
  BY <1>1 DEF SystemInit, Init, DriverInv, KeysInv
<1>7. Cardinality(GoingOff(session.keys, held, oddPresses)) = 0
  BY <1>2, FS_EmptySet DEF GoingOff
<1>8. session.keys \subseteq Keys
  BY <1>3, SessionTypes
<1> HIDE DEF y
<1>9. Matches(y, session.keys, held, oddPresses, pressesLeft)
  BY <1>2, <1>5, <1>6, <1>7, <1>8 DEF Matches, LockAgrees
<1> QED
  BY <1>1, <1>3, <1>4, <1>9 DEF UserAt, y

LEMMA UserDelivered ==
  ASSUME NEW r, UserAt(r)
  PROVE  KeyStatesMatchUser /\ LocksCountPresses
<1> SUFFICES ASSUME fromKeyboard = <<>>
             PROVE  /\ \A k \in session.keys : keyStates[k] # "RELEASED" <=> k \in held
                    /\ \A k \in LockKeys \cap session.keys : locks[k].active <=> k \in oddPresses \cup held
  BY DEF KeyStatesMatchUser, LocksCountPresses
<1> DEFINE y == DriverIs(decoder, keyStates, locks, r)
<1>1. Matches(y, session.keys, held, oddPresses, pressesLeft)
  BY LeadsNowhere DEF UserAt
<1>2. y.keyStates = keyStates /\ y.locks = locks
  BY DEF DriverIs
<1> HIDE DEF y
<1>3. \A k \in session.keys : keyStates[k] # "RELEASED" <=> k \in held
  BY <1>1, <1>2 DEF Matches
<1>4. \A k \in LockKeys : k \in session.keys => LockAgrees(locks[k], k \in held, k \in oddPresses)
  BY <1>1, <1>2, Zenon DEF Matches
<1> QED
  BY <1>3, <1>4 DEF LockAgrees

-----------------------------------------------------------------------------
(* The driver's commands and the keyboard. *)

DeviceSet == [leds : Nat, expecting : Nat, applied : SUBSET Nat]

LEMMA TwoBytes ==
  ASSUME NEW a \in Nat, NEW b \in Nat
  PROVE  <<a>> \in Seq(Nat) /\ <<b>> \in Seq(Nat) /\ <<a>> \o <<b>> = <<a, b>>
<1> DEFINE p == <<a>> \o <<b>>
           r == <<a, b>>
<1>1. <<a>> \in Seq(Nat) /\ <<b>> \in Seq(Nat) /\ r \in Seq(Nat)
  OBVIOUS
<1>2. p \in Seq(Nat) /\ Len(p) = 2 /\ p[1] = a /\ p[2] = b
  BY <1>1
<1>3. Len(r) = 2 /\ r[1] = a /\ r[2] = b
  OBVIOUS
<1> HIDE DEF p, r
<1>4. \A i \in 1..2 : p[i] = r[i]
  BY <1>2, <1>3
<1>5. p = r
  BY <1>1, <1>2, <1>3, <1>4
<1> QED
  BY <1>1, <1>5 DEF p, r

LEMMA Appended ==
  ASSUME NEW S, NEW q \in Seq(S), NEW x \in S
  PROVE  Append(q, x) \in Seq(S) /\ Append(q, x) # <<>> /\ Len(Append(q, x)) = Len(q) + 1
<1> DEFINE a == Append(q, x)
<1>1. a \in Seq(S)
  OBVIOUS
<1>2. Len(a) = Len(q) + 1
  OBVIOUS
<1>3. Len(q) \in Nat
  OBVIOUS
<1> HIDE DEF a
<1>4. a # <<>>
  BY <1>2, <1>3
<1> QED
  BY <1>1, <1>2, <1>4 DEF a

LEMMA ExecuteFields ==
  ASSUME NEW c \in Channels
  PROVE  /\ ExecuteCommand(c).queue = c.queue
         /\ ExecuteCommand(c).written = c.written \o CommandBytes(Head(c.queue))
  BY DEF ExecuteCommand, Channels

LEMMA PushedType ==
  ASSUME NEW c \in Channels, NEW x \in Commands
  PROVE  [c EXCEPT !.queue = Append(@, x)] \in Channels
<1>1. c.queue \in Seq(Commands)
  BY DEF Channels
<1>2. Append(c.queue, x) \in Seq(Commands)
  BY <1>1, Appended
<1> QED
  BY <1>2 DEF Channels

LEMMA PoppedType ==
  ASSUME NEW c \in Channels
  PROVE  [c EXCEPT !.state = "FREE", !.resends = 0, !.queue = IF @ = <<>> THEN @ ELSE Tail(@)] \in Channels
<1>1. c.queue \in Seq(Commands)
  BY DEF Channels
<1> DEFINE t == IF c.queue = <<>> THEN c.queue ELSE Tail(c.queue)
<1>2. t \in Seq(Commands)
  BY <1>1
<1>3. 0 \in 0..MaxResends
  BY QueueAssumption
<1> HIDE DEF t
<1>4. [c EXCEPT !.state = "FREE", !.resends = 0, !.queue = t] \in Channels
  BY <1>2, <1>3 DEF Channels
<1> QED
  BY <1>4 DEF t

LEMMA SettingTaken ==
  ASSUME NEW m \in DeviceSet, m.expecting = 0, NEW s
  PROVE  [m EXCEPT !.expecting = 0, !.applied = @ \cup s] = [m EXCEPT !.applied = @ \cup s]
  BY DEF DeviceSet

LEMMA CommandTaken ==
  ASSUME NEW m \in DeviceSet, NEW c, Expected(c)
  PROVE  /\ KeyboardTakes(m, c) \in DeviceSet /\ KeyboardTakes(m, c).expecting = m.expecting
         /\ KeyboardTakes(m, c).leds = IF c.command = SetLedStates THEN c.data ELSE m.leds
         /\ KeyboardTakes(m, c).applied = IF c.command = SetLedStates THEN m.applied ELSE m.applied \cup {c.command}
  BY DEF KeyboardTakes, DeviceSet, Expected, Commands, SetLedStates

(* The keyboard takes a command byte by byte. *)
LEMMA CommandLeads ==
  ASSUME NEW m \in DeviceSet, m.expecting = 0, NEW c, Expected(c)
  PROVE  Leads("keyboard", m, CommandBytes(c), KeyboardTakes(m, c)) /\ CommandBytes(c) \in Seq(Nat)
<1>0. c \in Commands /\ c.command \in Nat /\ c.data \in Nat /\ c.data < 237 /\ CommandBytes(c) \in Seq(Nat)
  BY CommandBytesType DEF Expected, Commands, SetLedStates
<1>1. CASE c.command = EnableScanning
  <2>1. CommandBytes(c) = <<c.command>>
    BY <1>1 DEF CommandBytes, CommandsWithData, EnableScanning, SetLedStates, SetScanCodeSet, SetTypematicByte
  <2>2. Answer(m, c.command) = <<CommandAcknowledged>>
    BY <1>1 DEF Answer, EnableScanning, ResetCommand
  <2>3. Received(m, c.command) = [m EXCEPT !.expecting = 0, !.applied = @ \cup {c.command}]
    BY <1>1 DEF Received, EnableScanning, ResetCommand, CommandsWithData, SetLedStates, SetScanCodeSet,
                SetTypematicByte, Settings
  <2>4. Received(m, c.command) = KeyboardTakes(m, c)
    <3>1. KeyboardTakes(m, c) = [m EXCEPT !.applied = @ \cup {c.command}]
      BY <1>1 DEF KeyboardTakes, EnableScanning, SetLedStates
    <3> QED
      BY <2>3, <3>1, SettingTaken
  <2>5. Leads("keyboard", m, <<c.command>>, Taken("keyboard", m, c.command))
    BY <2>2, LeadsOne DEF Accepts
  <2>6. Taken("keyboard", m, c.command) = KeyboardTakes(m, c)
    BY <2>4 DEF Taken
  <2> QED
    BY <1>0, <2>1, <2>5, <2>6
<1>2. CASE c.command # EnableScanning
  <2> DEFINE e == [m EXCEPT !.expecting = c.command]
  <2>1. c.command \in {SetLedStates, SetScanCodeSet, SetTypematicByte} /\ c.command \in {237, 240, 243}
    BY <1>2 DEF Expected, Settings, SetLedStates, SetScanCodeSet, SetTypematicByte
  <2>2. c.command \in CommandsWithData /\ CommandBytes(c) = <<c.command, c.data>>
    BY <2>1 DEF CommandBytes, CommandsWithData
  <2>3. Answer(m, c.command) = <<CommandAcknowledged>> /\ Received(m, c.command) = e
    <3>1. Answer(m, c.command) = <<CommandAcknowledged>>
      BY <2>1, <2>2 DEF Answer, ResetCommand
    <3>2. Received(m, c.command) = e
      BY <2>1, <2>2 DEF Received, ResetCommand, EnableScanning, SetLedStates, Settings, SetScanCodeSet, SetTypematicByte
    <3> QED
      BY <3>1, <3>2
  <2>4. Leads("keyboard", m, <<c.command>>, e)
    <3>1. Taken("keyboard", m, c.command) = e
      BY <2>3 DEF Taken
    <3>2. Accepts("keyboard", m, c.command)
      BY <2>3 DEF Accepts
    <3> QED
      BY <3>1, <3>2, LeadsOne
  <2>5. e.expecting = c.command /\ e \in DeviceSet
    BY <1>0 DEF DeviceSet
  <2>6. c.data # ResetCommand /\ c.data \notin CommandsWithData \cup {EnableScanning} /\ ~IsCommandByte(c.data)
    BY <1>0 DEF ResetCommand, CommandsWithData, EnableScanning, IsCommandByte, SetLedStates, SetScanCodeSet, SetTypematicByte
  <2>7. Answer(e, c.data) = <<CommandAcknowledged>>
    <3>1. e.expecting # 0
      BY <2>1, <2>5
    <3> HIDE DEF e
    <3> QED
      BY <2>6, <3>1 DEF Answer
  <2>8. Received(e, c.data) = IF c.command = SetLedStates THEN [e EXCEPT !.expecting = 0, !.leds = c.data]
                              ELSE [e EXCEPT !.expecting = 0, !.applied = @ \cup {c.command}]
    <3>1. c.command # SetLedStates => c.command \in Settings
      BY <2>1 DEF Settings
    <3>2. SetLedStates \notin Settings
      BY DEF Settings, SetLedStates, SetScanCodeSet, SetTypematicByte, EnableScanning
    <3> HIDE DEF e
    <3> QED
      BY <2>5, <2>6, <3>1, <3>2 DEF Received
  <2>9. Received(e, c.data) = KeyboardTakes(m, c)
    BY <2>8 DEF KeyboardTakes, DeviceSet
  <2>10. Leads("keyboard", e, <<c.data>>, KeyboardTakes(m, c))
    <3>1. Taken("keyboard", e, c.data) = KeyboardTakes(m, c)
      BY <2>9 DEF Taken
    <3>2. Accepts("keyboard", e, c.data)
      BY <2>7 DEF Accepts
    <3> HIDE DEF e
    <3> QED
      BY <3>1, <3>2, LeadsOne
  <2> HIDE DEF e
  <2>11. <<c.command>> \in Seq(Nat) /\ <<c.data>> \in Seq(Nat) /\ <<c.command>> \o <<c.data>> = <<c.command, c.data>>
    BY <1>0, TwoBytes
  <2>12. Leads("keyboard", m, <<c.command>> \o <<c.data>>, KeyboardTakes(m, c))
    BY <2>4, <2>10, <2>11, LeadsJoin
  <2> QED
    BY <1>0, <2>2, <2>11, <2>12
<1> QED
  BY <1>1, <1>2

(* The commands behind the one that was written. *)
Behind(q) == IF q = <<>> THEN <<>> ELSE Tail(q)

(* What keyboard e will be by the bytes w and the commands of the queue. *)
Comes(e, w, q, d) ==
  \E m \in DeviceSet : /\ Leads("keyboard", e, w, m) /\ m.expecting = 0
                       /\ Leads("commands", m, Behind(q), d) /\ d \in DeviceSet

LEMMA AppendedBehind ==
  ASSUME NEW q \in Seq(Commands), NEW c \in Commands
  PROVE  /\ Append(q, c) \in Seq(Commands) /\ Append(q, c) # <<>> /\ Len(Append(q, c)) = Len(q) + 1
         /\ q = <<>> => Behind(Append(q, c)) = <<>> /\ Head(Append(q, c)) = c
         /\ q # <<>> => Behind(Append(q, c)) = Tail(q) \o <<c>>
<1>1. Append(q, c) \in Seq(Commands) /\ Append(q, c) # <<>> /\ Len(Append(q, c)) = Len(q) + 1
  BY Appended
<1>2. CASE q = <<>>
  <2>1. Append(q, c) = <<c>> /\ Tail(<<c>>) = <<>> /\ Head(<<c>>) = c
    BY <1>2
  <2> QED
    BY <1>1, <1>2, <2>1 DEF Behind
<1>3. CASE q # <<>>
  <2> DEFINE p == Tail(Append(q, c))
             r == Tail(q) \o <<c>>
  <2>1. p \in Seq(Commands) /\ r \in Seq(Commands) /\ Len(p) = Len(q) /\ Len(r) = Len(q)
    BY <1>3
  <2>2. \A i \in 1..Len(q) : p[i] = r[i]
    BY <1>3
  <2> HIDE DEF p, r
  <2>3. p = r
    BY <2>1, <2>2
  <2> QED
    BY <1>1, <1>3, <2>3 DEF Behind, p, r
<1> QED
  BY <1>2, <1>3

LEMMA PushConfigures ==
  ASSUME NEW c, ChannelInv(c), Len(c.queue) < MaxCommands, NEW command, Expected(command),
         NEW w \in Seq(Nat), NEW e, NEW d, Comes(e, w \o c.written, c.queue, d),
         NEW p, p = PushCommand(c, command)
  PROVE  /\ ChannelInv(p) /\ Len(p.queue) = Len(c.queue) + 1 /\ p.queue # <<>>
         /\ Comes(e, w \o p.written, p.queue, KeyboardTakes(d, command))
         /\ c.queue # <<>> => p.written = c.written
<1>1. command \in Commands
  BY DEF Expected
<1>2. ChannelInv(p)
  BY <1>1, PushKeepsChannel
<1>3. PICK m \in DeviceSet : /\ Leads("keyboard", e, w \o c.written, m) /\ m.expecting = 0
                             /\ Leads("commands", m, Behind(c.queue), d) /\ d \in DeviceSet
  BY DEF Comes
<1>4. c \in Channels /\ c.queue \in Seq(Commands) /\ c.written \in Seq(Nat) /\ Len(c.queue) # MaxCommands
  BY QueueAssumption DEF ChannelInv, Channels
<1> DEFINE pushed == [c EXCEPT !.queue = Append(@, command)]
<1>5. /\ pushed.queue = Append(c.queue, command) /\ pushed.written = c.written
      /\ p = IF c.state = "FREE" THEN ExecuteCommand(pushed) ELSE pushed
  BY <1>4 DEF PushCommand, Channels
<1>6. /\ Append(c.queue, command) # <<>> /\ Len(Append(c.queue, command)) = Len(c.queue) + 1
      /\ c.queue = <<>> => Behind(Append(c.queue, command)) = <<>> /\ Head(Append(c.queue, command)) = command
      /\ c.queue # <<>> => Behind(Append(c.queue, command)) = Tail(c.queue) \o <<command>>
  BY <1>1, <1>4, AppendedBehind
<1>7. KeyboardTakes(d, command) \in DeviceSet
  BY <1>3, CommandTaken
<1>8. CASE c.queue = <<>>
  <2>1. c.state = "FREE" /\ c.written = <<>>
    BY <1>8 DEF ChannelInv
  <2>2. p.queue = Append(c.queue, command) /\ p.written = c.written \o CommandBytes(command)
    <3>1. pushed \in Channels
      BY <1>1, <1>4, PushedType
    <3> HIDE DEF pushed
    <3>2. p = ExecuteCommand(pushed)
      BY <1>5, <2>1
    <3>3. p.queue = pushed.queue /\ p.written = pushed.written \o CommandBytes(Head(pushed.queue))
      BY <3>1, <3>2, ExecuteFields
    <3> QED
      BY <1>5, <1>6, <1>8, <3>3
  <2>3. m = d
    BY <1>3, <1>8, LeadsNowhere DEF Behind
  <2>4. Leads("keyboard", m, CommandBytes(command), KeyboardTakes(m, command)) /\ CommandBytes(command) \in Seq(Nat)
    BY <1>3, CommandLeads
  <2>5. w \o p.written = (w \o c.written) \o CommandBytes(command) /\ w \o c.written \in Seq(Nat)
    BY <1>4, <2>1, <2>2, <2>4
  <2>6. Leads("keyboard", e, w \o p.written, KeyboardTakes(d, command))
    BY <1>3, <2>3, <2>4, <2>5, LeadsJoin
  <2>7. Leads("commands", KeyboardTakes(d, command), Behind(p.queue), KeyboardTakes(d, command))
    BY <1>6, <1>8, <2>2, LeadsNowhere
  <2>8. KeyboardTakes(d, command).expecting = 0
    BY <1>3, <2>3, CommandTaken
  <2>9. Comes(e, w \o p.written, p.queue, KeyboardTakes(d, command))
    BY <1>7, <2>6, <2>7, <2>8, Zenon DEF Comes
  <2> QED
    BY <1>2, <1>6, <1>8, <2>2, <2>9
<1>9. CASE c.queue # <<>>
  <2>1. c.state # "FREE"
    BY <1>9 DEF ChannelInv
  <2>2. p.queue = Append(c.queue, command) /\ p.written = c.written
    BY <1>5, <2>1
  <2>3. Behind(c.queue) \in Seq(Commands) /\ Behind(c.queue) = Tail(c.queue) /\ <<command>> \in Seq(Commands)
    BY <1>1, <1>4, <1>9 DEF Behind
  <2>4. Leads("commands", d, <<command>>, KeyboardTakes(d, command))
    <3>1. Accepts("commands", d, command) /\ Taken("commands", d, command) = KeyboardTakes(d, command)
      BY DEF Accepts, Taken
    <3> QED
      BY <3>1, LeadsOne
  <2>5. Leads("commands", m, Behind(p.queue), KeyboardTakes(d, command))
    <3>1. Leads("commands", m, Behind(c.queue) \o <<command>>, KeyboardTakes(d, command))
      BY <1>3, <2>3, <2>4, LeadsJoin
    <3> QED
      BY <1>6, <1>9, <2>2, <2>3, <3>1
  <2>6. Comes(e, w \o p.written, p.queue, KeyboardTakes(d, command))
    BY <1>3, <1>7, <2>2, <2>5, Zenon DEF Comes
  <2> QED
    BY <1>2, <1>6, <2>2, <2>6
<1> QED
  BY <1>8, <1>9

(* The next command is written, which the keyboard had to come to. *)
LEMMA NextConfigures ==
  ASSUME NEW c, ChannelInv(c), c.written = <<>>, c.queue # <<>>,
         NEW w \in Seq(Nat), NEW e, NEW d, Comes(e, w, c.queue, d)
  PROVE  /\ Len(NextCommand(c).queue) <= Len(c.queue)
         /\ Comes(e, w \o NextCommand(c).written, NextCommand(c).queue, d)
<1> DEFINE q == Tail(c.queue)
           popped == [c EXCEPT !.state = "FREE", !.resends = 0, !.queue = IF @ = <<>> THEN @ ELSE Tail(@)]
           n == NextCommand(c)
<1>1. c \in Channels /\ c.queue \in Seq(Commands) /\ q \in Seq(Commands) /\ Len(q) <= Len(c.queue)
  BY DEF ChannelInv, Channels
<1>2. PICK m \in DeviceSet : /\ Leads("keyboard", e, w, m) /\ m.expecting = 0
                             /\ Leads("commands", m, Behind(c.queue), d) /\ d \in DeviceSet
  BY DEF Comes
<1>3. Behind(c.queue) = q
  BY DEF Behind
<1>4. popped.queue = q /\ popped.written = <<>> /\ n = IF popped.queue # <<>> THEN ExecuteCommand(popped) ELSE popped
  BY <1>1 DEF NextCommand, Channels
<1>5. n.queue = q /\ n.written = IF q = <<>> THEN <<>> ELSE CommandBytes(Head(q))
  <2>1. CASE q = <<>>
    BY <1>4, <2>1
  <2>2. CASE q # <<>>
    <3>1. n.queue = popped.queue /\ n.written = popped.written \o CommandBytes(Head(q))
      <4>1. popped \in Channels
        BY <1>1, PoppedType
      <4> HIDE DEF popped
      <4>2. n = ExecuteCommand(popped)
        BY <1>4, <2>2
      <4> QED
        BY <1>4, <4>1, <4>2, ExecuteFields
    <3>2. CommandBytes(Head(q)) \in Seq(Nat)
      <4>1. Head(q) \in Commands
        BY <1>1, <2>2
      <4> QED
        BY <4>1, CommandBytesType
    <3>3. <<>> \o CommandBytes(Head(q)) = CommandBytes(Head(q))
      BY <3>2
    <3> QED
      BY <1>4, <2>2, <3>1, <3>3
  <2> QED
    BY <2>1, <2>2
<1> HIDE DEF popped, n, q
<1>6. CASE q = <<>>
  <2>1. w \o n.written = w /\ Behind(n.queue) = q
    BY <1>5, <1>6 DEF Behind
  <2> QED
    BY <1>1, <1>2, <1>3, <1>5, <2>1, Zenon DEF Comes, n
<1>7. CASE q # <<>>
  <2>1. Accepts("commands", m, Head(q)) /\ Leads("commands", Taken("commands", m, Head(q)), Tail(q), d)
    BY <1>1, <1>2, <1>3, <1>7, LeadsHead
  <2> DEFINE k == KeyboardTakes(m, Head(q))
  <2>2. Expected(Head(q)) /\ Leads("commands", k, Tail(q), d)
    BY <2>1 DEF Accepts, Taken
  <2>3. k \in DeviceSet /\ k.expecting = 0
    BY <1>2, <2>2, CommandTaken
  <2>4. Leads("keyboard", m, CommandBytes(Head(q)), k) /\ CommandBytes(Head(q)) \in Seq(Nat)
    BY <1>2, <2>2, CommandLeads
  <2> HIDE DEF k
  <2>5. Leads("keyboard", e, w \o n.written, k)
    BY <1>2, <1>5, <1>7, <2>4, LeadsJoin
  <2>6. Leads("commands", k, Behind(n.queue), d)
    BY <1>5, <1>7, <2>2 DEF Behind
  <2>7. Comes(e, w \o n.written, n.queue, d)
    BY <1>2, <2>3, <2>5, <2>6, Zenon DEF Comes
  <2> QED
    BY <1>1, <1>5, <2>7 DEF n
<1> QED
  BY <1>6, <1>7

-----------------------------------------------------------------------------
(* An answer that goes on with the queue is on its way, or the byte that   *)
(* it will answer is.                                                      *)
GoesOn == {CommandAcknowledged, ResendRequest}

AnswerComing ==
  chan.queue # <<>> => toKeyboard # <<>> \/ \E i \in 1..Len(fromKeyboard) : fromKeyboard[i] \in GoesOn

(* A command that an operator leaves in the queue was there before, or its *)
(* bytes are being written.                                                *)
Written(c, old) == c.queue # <<>> => old # <<>> \/ c.written # <<>>

LEMMA PushWrites ==
  ASSUME NEW c, ChannelInv(c), NEW old, Written(c, old), NEW command \in Commands, NEW p, p = PushCommand(c, command)
  PROVE  ChannelInv(p) /\ Written(p, old)
<1>1. ChannelInv(p)
  BY PushKeepsChannel
<1> DEFINE pushed == [c EXCEPT !.queue = Append(@, command)]
<1>2. c \in Channels /\ c.queue \in Seq(Commands) /\ pushed \in Channels
  BY PushedType DEF ChannelInv, Channels
<1>3. pushed.queue = Append(c.queue, command) /\ pushed.written = c.written
  BY <1>2 DEF Channels
<1>4. CASE c.queue # <<>>
  <2>1. c.state # "FREE"
    BY <1>4 DEF ChannelInv
  <2>2. p = c \/ p = pushed
    BY <2>1 DEF PushCommand
  <2> QED
    BY <1>1, <1>3, <1>4, <2>2 DEF Written
<1>5. CASE c.queue = <<>>
  <2>1. c.state = "FREE" /\ Len(c.queue) = 0 /\ MaxCommands # 0
    BY <1>5, QueueAssumption DEF ChannelInv
  <2>2. p = ExecuteCommand(pushed)
    BY <2>1 DEF PushCommand
  <2> HIDE DEF pushed
  <2>3. p.written = pushed.written \o CommandBytes(Head(pushed.queue))
    BY <1>2, <2>2, ExecuteFields
  <2>4. Head(pushed.queue) = command
    BY <1>3, <1>5
  <2>5. CommandBytes(command) \in Seq(Nat) /\ CommandBytes(command) # <<>> /\ pushed.written \in Seq(Nat)
    BY <1>2, CommandBytesType DEF Channels
  <2>6. p.written # <<>>
    BY <2>3, <2>4, <2>5
  <2> QED
    BY <1>1, <2>6 DEF Written
<1> QED
  BY <1>4, <1>5

LEMMA LedCommand ==
  ASSUME NEW lk
  PROVE  LedBits(lk) \in 0..7 /\ Expected(Command(SetLedStates, LedBits(lk)))
<1>1. LedBits(lk) \in 0..7
  BY DEF LedBits, Bit
<1> DEFINE b == LedBits(lk)
<1> HIDE DEF b
<1>2. b \in 0..7 => Expected(Command(SetLedStates, b))
  BY DEF Expected, Commands, Command, SetLedStates
<1> QED
  BY <1>1, <1>2 DEF b

LEMMA SettingCommands ==
  /\ Expected(Command(SetScanCodeSet, 2))
  /\ Expected(Command(SetTypematicByte, 32))
  /\ Expected(Command(EnableScanning, 0))
  BY DEF Expected, Commands, Command, Settings, SetLedStates, SetScanCodeSet, SetTypematicByte, EnableScanning

LEMMA InitialiseWrites ==
  ASSUME NEW c, ChannelInv(c), NEW old, Written(c, old), NEW lk
  PROVE  Written(InitialiseKeyboard(c, lk), old) /\ Written(UpdateIndicatorLEDs(c, lk), old)
<1>1. /\ Command(SetScanCodeSet, 2) \in Commands /\ Command(SetTypematicByte, 32) \in Commands
      /\ Command(EnableScanning, 0) \in Commands /\ Command(SetLedStates, LedBits(lk)) \in Commands
  BY SettingCommands, LedCommand DEF Expected
<1> DEFINE c1 == PushCommand(c, Command(SetScanCodeSet, 2))
           c2 == PushCommand(c1, Command(SetTypematicByte, 32))
           c3 == PushCommand(c2, Command(EnableScanning, 0))
           c4 == PushCommand(c3, Command(SetLedStates, LedBits(lk)))
<1>2. /\ InitialiseKeyboard(c, lk) = c4
      /\ UpdateIndicatorLEDs(c, lk) = PushCommand(c, Command(SetLedStates, LedBits(lk)))
  BY DEF InitialiseKeyboard, UpdateIndicatorLEDs
<1>3. ChannelInv(c1) /\ Written(c1, old)
  BY <1>1, PushWrites
<1> HIDE DEF c1
<1>4. ChannelInv(c2) /\ Written(c2, old)
  BY <1>1, <1>3, PushWrites
<1> HIDE DEF c2
<1>5. ChannelInv(c3) /\ Written(c3, old)
  BY <1>1, <1>4, PushWrites
<1> HIDE DEF c3
<1>6. Written(c4, old)
  BY <1>1, <1>5, PushWrites
<1> HIDE DEF c4
<1>7. Written(PushCommand(c, Command(SetLedStates, LedBits(lk))), old)
  BY <1>1, PushWrites
<1> QED
  BY <1>2, <1>6, <1>7

LEMMA ExecuteWrites ==
  ASSUME NEW c, ChannelInv(c), c.queue # <<>>
  PROVE  ExecuteCommand(c).written # <<>>
<1>1. c \in Channels /\ Head(c.queue) \in Commands
  BY DEF ChannelInv, Channels
<1>2. CommandBytes(Head(c.queue)) \in Seq(Nat) /\ CommandBytes(Head(c.queue)) # <<>> /\ c.written \in Seq(Nat)
  BY <1>1, CommandBytesType DEF Channels
<1>3. ExecuteCommand(c).written = c.written \o CommandBytes(Head(c.queue))
  BY <1>1, ExecuteFields
<1> QED
  BY <1>2, <1>3

LEMMA NextWrites ==
  ASSUME NEW c, ChannelInv(c), NextCommand(c).queue # <<>>
  PROVE  NextCommand(c).written # <<>>
<1> DEFINE popped == [c EXCEPT !.state = "FREE", !.resends = 0, !.queue = IF @ = <<>> THEN @ ELSE Tail(@)]
<1>1. popped \in Channels
  BY PoppedType DEF ChannelInv
<1>2. NextCommand(c) = IF popped.queue # <<>> THEN ExecuteCommand(popped) ELSE popped
  BY DEF NextCommand
<1> HIDE DEF popped
<1>3. popped.queue # <<>> /\ NextCommand(c) = ExecuteCommand(popped)
  BY <1>1, <1>2
<1>4. Head(popped.queue) \in Commands /\ popped.written \in Seq(Nat)
  BY <1>1, <1>3 DEF Channels
<1>5. CommandBytes(Head(popped.queue)) \in Seq(Nat) /\ CommandBytes(Head(popped.queue)) # <<>>
  BY <1>4, CommandBytesType
<1>6. NextCommand(c).written = popped.written \o CommandBytes(Head(popped.queue))
  BY <1>1, <1>3, ExecuteFields
<1> QED
  BY <1>4, <1>5, <1>6

LEMMA InterruptWrites ==
  ASSUME DriverInv, NEW b, ProcessKeyboardInterrupt(b), chan'.queue # <<>>
  PROVE  chan'.written # <<>> \/ (chan.queue # <<>> /\ b \notin GoesOn)
<1>0. ChannelInv(chan) /\ ChannelInv(Fresh) /\ Fresh.written = <<>>
  BY FreshChannel DEF DriverInv
<1>1. Fresh.queue = chan.queue /\ Fresh.state = chan.state
  BY <1>0 DEF Fresh, ChannelInv, Channels
<1>2. Written(Fresh, chan.queue)
  BY <1>1 DEF Written
<1>3. CASE IgnoreByte(b)
  BY <1>1, <1>3 DEF IgnoreByte, Respond, GoesOn, KeyDetectionErrors, Echo, CommandAcknowledged, ResendRequest
<1>4. CASE SelfTestDone(b)
  <2>1. chan' = InitialiseKeyboard(Fresh, locks) /\ b \notin GoesOn
    BY <1>4 DEF SelfTestDone, Respond, GoesOn, SelfTestResults, CommandAcknowledged, ResendRequest
  <2>2. Written(chan', chan.queue)
    BY <1>0, <1>2, <2>1, InitialiseWrites
  <2> QED
    BY <2>1, <2>2 DEF Written
<1>5. CASE Acknowledge(b)
  <2>1. chan' = IF Fresh.state = "WAITING" THEN NextCommand(Fresh) ELSE Fresh
    BY <1>5 DEF Acknowledge, Respond, OnCommandAcknowledged
  <2>2. Fresh.state = "WAITING" \/ Fresh.queue = <<>>
    BY <1>0 DEF ChannelInv, Channels
  <2> QED
    BY <1>0, <2>1, <2>2, NextWrites
<1>6. CASE ResendRequested(b)
  <2>1. chan' = IF Fresh.queue = <<>> \/ Fresh.state # "WAITING" THEN Fresh
                ELSE IF Fresh.resends < MaxResends THEN [ExecuteCommand(Fresh) EXCEPT !.resends = @ + 1]
                ELSE NextCommand(Fresh)
    BY <1>6 DEF ResendRequested, Respond, ResendCommand
  <2>2. Fresh.state = "WAITING" \/ Fresh.queue = <<>>
    BY <1>0 DEF ChannelInv, Channels
  <2>3. Fresh.queue # <<>> => [ExecuteCommand(Fresh) EXCEPT !.resends = @ + 1].written # <<>>
    <3>1. Fresh.queue # <<>> => ExecuteCommand(Fresh).written # <<>>
      BY <1>0, ExecuteWrites
    <3>2. [ExecuteCommand(Fresh) EXCEPT !.resends = @ + 1].written = ExecuteCommand(Fresh).written
      BY <1>0 DEF ExecuteCommand, ChannelInv, Channels
    <3> QED
      BY <3>1, <3>2
  <2>4. NextCommand(Fresh).queue # <<>> => NextCommand(Fresh).written # <<>>
    BY <1>0, NextWrites
  <2> QED
    BY <2>1, <2>2, <2>3, <2>4
<1>7. CASE ScanCodeFailed(b)
  BY <1>1, <1>7 DEF ScanCodeFailed, GoesOn, ResponseCodes
<1>8. CASE ScanCodeProcessed(b)
  <2>1. b \notin GoesOn /\ (chan' = UpdateIndicatorLEDs(Fresh, locks') \/ chan' = Fresh)
    BY <1>8 DEF ScanCodeProcessed, GoesOn, ResponseCodes
  <2>2. Written(chan', chan.queue)
    BY <1>0, <1>2, <2>1, InitialiseWrites
  <2> QED
    BY <2>1, <2>2 DEF Written
<1> QED
  BY <1>3, <1>4, <1>5, <1>6, <1>7, <1>8 DEF ProcessKeyboardInterrupt

LEMMA JoinedPlaces ==
  ASSUME NEW p \in Seq(Nat), NEW q \in Seq(Nat)
  PROVE  /\ p \o q \in Seq(Nat) /\ Len(p \o q) = Len(p) + Len(q) /\ Len(p) \in Nat /\ Len(q) \in Nat
         /\ \A i \in 1..Len(p) : (p \o q)[i] = p[i]
         /\ \A i \in 1..Len(q) : (p \o q)[Len(p) + i] = q[i]
<1>1. p \o q \in Seq(Nat)
  OBVIOUS
<1>2. Len(p \o q) = Len(p) + Len(q) /\ Len(p) \in Nat /\ Len(q) \in Nat
  OBVIOUS
<1>3. \A i \in 1..Len(p) : (p \o q)[i] = p[i]
  OBVIOUS
<1>4. \A i \in 1..Len(q) : (p \o q)[Len(p) + i] = q[i]
  OBVIOUS
<1> QED
  BY <1>1, <1>2, <1>3, <1>4

LEMMA InsertedPlaces ==
  ASSUME NEW q \in Seq(Nat), NEW n \in 0..Len(q), NEW a \in Seq(Nat), a # <<>>
  PROVE  n + 1 \in 1..Len(Inserted(q, n, a)) /\ Inserted(q, n, a)[n + 1] = a[1]
<1> DEFINE p == SubSeq(q, 1, n)
           r == SubSeq(q, n + 1, Len(q))
<1>1. p \in Seq(Nat) /\ Len(p) = n /\ r \in Seq(Nat)
  OBVIOUS
<1>2. Len(a) \in Nat \ {0}
  OBVIOUS
<1> HIDE DEF p, r
<1> DEFINE s == p \o a
<1>3. s \in Seq(Nat) /\ Len(s) = n + Len(a) /\ s[n + 1] = a[1]
  <2>1. 1 \in 1..Len(a)
    BY <1>2
  <2> QED
    BY <1>1, <2>1, JoinedPlaces
<1> HIDE DEF s
<1>4. n + 1 \in 1..Len(s) /\ Len(s) \in Nat
  BY <1>2, <1>3
<1>5. Len(s \o r) = Len(s) + Len(r) /\ (s \o r)[n + 1] = a[1] /\ Len(r) \in Nat
  BY <1>1, <1>3, <1>4, JoinedPlaces
<1>6. n + 1 \in 1..Len(s \o r)
  BY <1>4, <1>5
<1> QED
  BY <1>5, <1>6 DEF Inserted, p, r, s

LEMMA AnswerStarts ==
  ASSUME NEW d, NEW b
  PROVE  Answer(d, b) # <<>> /\ Answer(d, b)[1] \in GoesOn
<1>1. /\ <<CommandAcknowledged, 170>> # <<>> /\ <<CommandAcknowledged>> # <<>> /\ <<ResendRequest>> # <<>>
      /\ <<CommandAcknowledged, 170>>[1] = CommandAcknowledged /\ <<CommandAcknowledged>>[1] = CommandAcknowledged
      /\ <<ResendRequest>>[1] = ResendRequest
  OBVIOUS
<1> QED
  BY <1>1 DEF Answer, GoesOn

LEMMA DeviceAnswers ==
  ASSUME SystemTypes, DeviceReceive \/ DeviceReceiveGarbled
  PROVE  AnswerComing'
<1>1. PICK a \in Seq(Nat) : a # <<>> /\ a[1] \in GoesOn /\ Sends(a)
  <2>1. CASE DeviceReceive
    BY <2>1, AnswerType, AnswerStarts DEF DeviceReceive
  <2>2. CASE DeviceReceiveGarbled
    <3>1. <<ResendRequest>> \in Seq(Nat) /\ <<ResendRequest>> # <<>> /\ <<ResendRequest>>[1] = ResendRequest
      BY DEF ResendRequest
    <3>2. ResendRequest \in GoesOn /\ Sends(<<ResendRequest>>)
      BY <2>2 DEF GoesOn, DeviceReceiveGarbled
    <3> QED
      BY <3>1, <3>2
  <2> QED
    BY <2>1, <2>2
<1>2. PICK n \in 0..Len(fromKeyboard) : fromKeyboard' = Inserted(fromKeyboard, n, a)
  BY <1>1, SendsInserts DEF SystemTypes
<1>3. n + 1 \in 1..Len(fromKeyboard') /\ fromKeyboard'[n + 1] \in GoesOn
  BY <1>1, <1>2, InsertedPlaces DEF SystemTypes
<1> QED
  BY <1>3 DEF AnswerComing

LEMMA UserKeepsAnswer ==
  ASSUME AnswerComing, NEW code \in Seq(Nat), fromKeyboard \in Seq(Nat), fromKeyboard' = fromKeyboard \o code,
         UNCHANGED <<chan, toKeyboard>>
  PROVE  AnswerComing'
<1>1. \A i \in 1..Len(fromKeyboard) : i \in 1..Len(fromKeyboard') /\ fromKeyboard'[i] = fromKeyboard[i]
  OBVIOUS
<1> QED
  BY <1>1 DEF AnswerComing

LEMMA TailPlaces ==
  ASSUME NEW q \in Seq(Nat), q # <<>>, NEW i \in 1..Len(q), i # 1
  PROVE  i - 1 \in 1..Len(Tail(q)) /\ Tail(q)[i - 1] = q[i]
<1>1. Len(q) \in Nat /\ Len(Tail(q)) = Len(q) - 1
  OBVIOUS
<1>2. i - 1 \in 1..Len(Tail(q)) /\ i - 1 + 1 = i
  BY <1>1
<1>3. \A j \in 1..Len(Tail(q)) : Tail(q)[j] = q[j + 1]
  OBVIOUS
<1> QED
  BY <1>2, <1>3

LEMMA Longer ==
  ASSUME NEW p \in Seq(Nat), NEW q \in Seq(Nat), p # <<>> \/ q # <<>>
  PROVE  p \o q # <<>>
<1>1. Len(p \o q) = Len(p) + Len(q) /\ Len(p) \in Nat /\ Len(q) \in Nat
  OBVIOUS
<1>2. Len(p) # 0 \/ Len(q) # 0
  OBVIOUS
<1>3. Len(p \o q) # 0
  BY <1>1, <1>2
<1> QED
  BY <1>3

LEMMA InterruptKeepsAnswer ==
  ASSUME DriverInv, SystemTypes, AnswerComing, Interrupt
  PROVE  AnswerComing'
<1> DEFINE b == Head(fromKeyboard)
<1>1. /\ fromKeyboard # <<>> /\ ProcessKeyboardInterrupt(b) /\ fromKeyboard' = Tail(fromKeyboard)
      /\ toKeyboard' = toKeyboard \o chan'.written
  BY DEF Interrupt
<1>2. fromKeyboard \in Seq(Nat) /\ b = fromKeyboard[1] /\ toKeyboard \in Seq(Nat)
  BY <1>1 DEF SystemTypes
<1> HIDE DEF b
<1>3. DriverInv'
  BY <1>1, InterruptDriverInv
<1>4. chan'.written \in Seq(Nat)
  BY <1>3 DEF DriverInv, ChannelInv, Channels
<1> SUFFICES ASSUME chan'.queue # <<>>, toKeyboard' = <<>>
             PROVE  \E i \in 1..Len(fromKeyboard') : fromKeyboard'[i] \in GoesOn
  BY DEF AnswerComing
<1>5. toKeyboard = <<>> /\ chan'.written = <<>>
  BY <1>1, <1>2, <1>4, Longer
<1>6. chan.queue # <<>> /\ b \notin GoesOn
  BY <1>1, <1>5, InterruptWrites
<1>7. PICK i \in 1..Len(fromKeyboard) : fromKeyboard[i] \in GoesOn
  BY <1>5, <1>6 DEF AnswerComing
<1>8. i # 1
  BY <1>2, <1>6, <1>7
<1>9. i - 1 \in 1..Len(fromKeyboard') /\ fromKeyboard'[i - 1] = fromKeyboard[i]
  BY <1>1, <1>2, <1>8, TailPlaces
<1> QED
  BY <1>7, <1>9

-----------------------------------------------------------------------------
(* What the keyboard will be once every byte and every queued command has  *)
(* reached it: d, with n self tests answered by then.  At first the reset  *)
(* is on its way and nothing that came from the keyboard is an answer.     *)
Configures(n, d, to, from, q, dev) ==
  \/ /\ n = 0 /\ to = <<ResetCommand>> /\ q # <<>>
     /\ \A i \in 1..Len(from) : from[i] \notin ResponseCodes
     /\ Comes(PoweredOn, <<>>, q, d)
  \/ Leads("tests", n, from, 1) /\ Comes(dev, to, q, d)

Planned(n, d, lk) == d \in DeviceSet /\ d.leds = LedBits(lk) /\ d.applied = IF n = 0 THEN {} ELSE Settings

Room(n, length, r, presses) == length + (IF n = 0 THEN 4 ELSE 0) + r <= presses + 5

ConfigAt(r) ==
  \E n \in {0, 1} : \E d :
    /\ Configures(n, d, toKeyboard, fromKeyboard, chan.queue, device)
    /\ Planned(n, d, locks)
    /\ Room(n, Len(chan.queue), r, session.presses)

LEMMA KeysOnly ==
  ASSUME NEW q \in Seq(Nat), \A i \in 1..Len(q) : q[i] \notin ResponseCodes, NEW n \in {0, 1}
  PROVE  Leads("tests", n, q, n)
<1>1. ASSUME NEW i \in 1..Len(q)
      PROVE  Accepts("tests", n, q[i]) /\ Taken("tests", n, q[i]) = n
  <2>1. q[i] \notin ResponseCodes
    OBVIOUS
  <2>2. q[i] \notin {252, 253, ResendRequest} /\ q[i] # 170
    BY <2>1 DEF ResponseCodes, SelfTestResults
  <2> QED
    BY <2>2 DEF Accepts, Taken
<1> QED
  BY <1>1, LeadsStill

LEMMA SelfTestSent ==
  ASSUME NEW q \in Seq(Nat), \A i \in 1..Len(q) : q[i] \notin ResponseCodes, NEW n \in 0..Len(q)
  PROVE  Leads("tests", 0, Inserted(q, n, <<CommandAcknowledged, 170>>), 1)
<1> DEFINE p == SubSeq(q, 1, n)
           s == SubSeq(q, n + 1, Len(q))
           a == <<CommandAcknowledged>>
           t == <<170>>
<1>1. /\ p \in Seq(Nat) /\ \A i \in 1..Len(p) : p[i] \notin ResponseCodes
      /\ s \in Seq(Nat) /\ \A i \in 1..Len(s) : s[i] \notin ResponseCodes
  <2>1. p \in Seq(Nat) /\ Len(p) = n /\ \A i \in 1..n : p[i] = q[i] /\ i \in 1..Len(q)
    OBVIOUS
  <2>2. s \in Seq(Nat) /\ Len(s) = Len(q) - n
    OBVIOUS
  <2>3. \A i \in 1..(Len(q) - n) : s[i] = q[n + i] /\ n + i \in 1..Len(q)
    OBVIOUS
  <2> HIDE DEF p, s
  <2> QED
    BY <2>1, <2>2, <2>3
<1>2. a \in Seq(Nat) /\ t \in Seq(Nat) /\ a \o t = <<CommandAcknowledged, 170>>
  BY TwoBytes DEF CommandAcknowledged
<1>3. Leads("tests", 0, a, 0) /\ Leads("tests", 0, t, 1)
  <2>1. Accepts("tests", 0, CommandAcknowledged) /\ Taken("tests", 0, CommandAcknowledged) = 0
    BY DEF Accepts, Taken, CommandAcknowledged, ResendRequest
  <2>2. Accepts("tests", 0, 170) /\ Taken("tests", 0, 170) = 1
    BY DEF Accepts, Taken, ResendRequest
  <2>3. Leads("tests", 0, a, 0)
    BY <2>1, LeadsOne
  <2>4. Leads("tests", 0, t, 1)
    BY <2>2, LeadsOne
  <2> QED
    BY <2>3, <2>4
<1> HIDE DEF p, s, a, t
<1>4. Leads("tests", 0, p, 0) /\ Leads("tests", 1, s, 1)
  BY <1>1, KeysOnly
<1>5. Leads("tests", 0, a \o t, 1) /\ a \o t \in Seq(Nat)
  <2>1. Leads("tests", 0, a \o t, 1)
    BY <1>2, <1>3, LeadsJoin
  <2> QED
    BY <1>2, <2>1, JoinedPlaces
<1> DEFINE u == a \o t
<1> HIDE DEF u
<1>6. u \in Seq(Nat) /\ Leads("tests", 0, u, 1)
  BY <1>5 DEF u
<1>7. Leads("tests", 0, p \o u, 1) /\ p \o u \in Seq(Nat)
  <2>1. Leads("tests", 0, p \o u, 1)
    BY <1>1, <1>4, <1>6, LeadsJoin
  <2> QED
    BY <1>1, <1>6, <2>1, JoinedPlaces
<1> DEFINE v == p \o u
<1> HIDE DEF v
<1>8. v \in Seq(Nat) /\ Leads("tests", 0, v, 1)
  BY <1>7 DEF v
<1>9. Leads("tests", 0, v \o s, 1)
  BY <1>1, <1>4, <1>8, LeadsJoin
<1> QED
  BY <1>2, <1>9 DEF Inserted, p, s, u, v

LEMMA AcknowledgementSent ==
  ASSUME NEW q \in Seq(Nat), NEW k \in 0..Len(q), NEW n, Leads("tests", n, q, 1)
  PROVE  Leads("tests", n, Inserted(q, k, <<CommandAcknowledged>>), 1)
<1>1. <<CommandAcknowledged>> \in Seq(Nat) /\ Len(<<CommandAcknowledged>>) = 1
  <2>1. CommandAcknowledged \in Nat
    BY DEF CommandAcknowledged
  <2> QED
    BY <2>1
<1>2. \A y : \A i \in 1..1 : /\ Accepts("tests", y, <<CommandAcknowledged>>[i])
                             /\ Taken("tests", y, <<CommandAcknowledged>>[i]) = y
  <2>1. \A i \in 1..1 : <<CommandAcknowledged>>[i] = CommandAcknowledged
    OBVIOUS
  <2>2. \A y : Accepts("tests", y, CommandAcknowledged) /\ Taken("tests", y, CommandAcknowledged) = y
    BY DEF Accepts, Taken, CommandAcknowledged, ResendRequest
  <2> QED
    BY <2>1, <2>2
<1> DEFINE a == <<CommandAcknowledged>>
<1> HIDE DEF a
<1>3. a \in Seq(Nat) /\ \A y : \A i \in 1..Len(a) : Accepts("tests", y, a[i]) /\ Taken("tests", y, a[i]) = y
  BY <1>1, <1>2 DEF a
<1>4. Leads("tests", n, Inserted(q, k, a), 1)
  BY <1>3, LeadsInserted DEF Inserted
<1> QED
  BY <1>4 DEF a

LEMMA ResetTaken ==
  ASSUME NEW e
  PROVE  Received(e, ResetCommand) = PoweredOn /\ Answer(e, ResetCommand) = <<CommandAcknowledged, 170>>
<1>1. /\ ResetCommand \notin CommandsWithData /\ ResetCommand # EnableScanning /\ IsCommandByte(ResetCommand)
  BY DEF ResetCommand, CommandsWithData, EnableScanning, SetLedStates, SetScanCodeSet, SetTypematicByte, IsCommandByte
<1>2. Received(e, ResetCommand) = PoweredOn
  BY <1>1 DEF Received
<1>3. Answer(e, ResetCommand) = <<CommandAcknowledged, 170>>
  BY <1>1 DEF Answer
<1> QED
  BY <1>2, <1>3

LEMMA ReceiveConfigures ==
  ASSUME SystemTypes, NEW n \in {0, 1}, NEW d, Configures(n, d, toKeyboard, fromKeyboard, chan.queue, device),
         DeviceReceive
  PROVE  Configures(n, d, toKeyboard', fromKeyboard', chan.queue, device')
<1> DEFINE b == Head(toKeyboard)
<1>1. /\ toKeyboard # <<>> /\ toKeyboard' = Tail(toKeyboard) /\ device' = Received(device, b)
      /\ Sends(Answer(device, b)) /\ toKeyboard \in Seq(Nat) /\ fromKeyboard \in Seq(Nat)
  BY DEF DeviceReceive, SystemTypes
<1>2. Answer(device, b) \in Seq(Nat)
  BY AnswerType
<1> HIDE DEF b
<1>3. PICK k \in 0..Len(fromKeyboard) : fromKeyboard' = Inserted(fromKeyboard, k, Answer(device, b))
  BY <1>1, <1>2, SendsInserts
<1>4. CASE /\ n = 0 /\ toKeyboard = <<ResetCommand>> /\ chan.queue # <<>>
           /\ \A i \in 1..Len(fromKeyboard) : fromKeyboard[i] \notin ResponseCodes
           /\ Comes(PoweredOn, <<>>, chan.queue, d)
  <2>1. b = ResetCommand /\ toKeyboard' = <<>>
    BY <1>1, <1>4 DEF b
  <2>2. device' = PoweredOn /\ Answer(device, b) = <<CommandAcknowledged, 170>>
    BY <1>1, <2>1, ResetTaken
  <2>3. Leads("tests", n, fromKeyboard', 1)
    BY <1>1, <1>3, <1>4, <2>2, SelfTestSent
  <2> QED
    BY <1>4, <2>1, <2>2, <2>3 DEF Configures
<1>5. CASE Leads("tests", n, fromKeyboard, 1) /\ Comes(device, toKeyboard, chan.queue, d)
  <2>1. PICK m \in DeviceSet : /\ Leads("keyboard", device, toKeyboard, m) /\ m.expecting = 0
                               /\ Leads("commands", m, Behind(chan.queue), d) /\ d \in DeviceSet
    BY <1>5 DEF Comes
  <2>2. Accepts("keyboard", device, b) /\ Leads("keyboard", Taken("keyboard", device, b), toKeyboard', m)
    BY <1>1, <2>1, LeadsHead DEF b
  <2>3. Answer(device, b) = <<CommandAcknowledged>> /\ Leads("keyboard", device', toKeyboard', m)
    BY <1>1, <2>2 DEF Accepts, Taken
  <2>4. Leads("tests", n, fromKeyboard', 1)
    BY <1>1, <1>3, <1>5, <2>3, AcknowledgementSent
  <2>5. Comes(device', toKeyboard', chan.queue, d)
    BY <2>1, <2>3, Zenon DEF Comes
  <2> QED
    BY <2>4, <2>5 DEF Configures
<1> QED
  BY <1>4, <1>5 DEF Configures

LEMMA CodeConfigures ==
  ASSUME NEW n, NEW d, NEW to, NEW from \in Seq(Nat), NEW q, NEW dev, Configures(n, d, to, from, q, dev),
         NEW code \in Seq(Nat \ ResponseCodes)
  PROVE  Configures(n, d, to, from \o code, q, dev)
<1>1. code \in Seq(Nat) /\ \A i \in 1..Len(code) : code[i] \notin ResponseCodes
  <2>1. \A i \in 1..Len(code) : code[i] \in Nat \ ResponseCodes
    OBVIOUS
  <2>2. code \in Seq(Nat)
    BY <2>1
  <2> QED
    BY <2>1, <2>2
<1>2. CASE /\ n = 0 /\ to = <<ResetCommand>> /\ q # <<>>
           /\ \A i \in 1..Len(from) : from[i] \notin ResponseCodes
           /\ Comes(PoweredOn, <<>>, q, d)
  <2>1. \A i \in 1..Len(from \o code) : (from \o code)[i] \notin ResponseCodes
    <3>1. ASSUME NEW i \in 1..Len(from \o code) PROVE (from \o code)[i] \notin ResponseCodes
      <4>1. Len(from \o code) = Len(from) + Len(code) /\ Len(from) \in Nat /\ Len(code) \in Nat
        BY <1>1, JoinedPlaces
      <4>2. CASE i \in 1..Len(from)
        BY <1>1, <1>2, <4>2, JoinedPlaces
      <4>3. CASE i \notin 1..Len(from)
        <5>1. i - Len(from) \in 1..Len(code) /\ Len(from) + (i - Len(from)) = i
          BY <4>1, <4>3
        <5>2. (from \o code)[Len(from) + (i - Len(from))] = code[i - Len(from)]
          BY <1>1, <5>1, JoinedPlaces
        <5> QED
          BY <1>1, <5>1, <5>2
      <4> QED
        BY <4>2, <4>3
    <3> QED
      BY <3>1
  <2> QED
    BY <1>2, <2>1 DEF Configures
<1>3. CASE Leads("tests", n, from, 1) /\ Comes(dev, to, q, d)
  <2>1. Leads("tests", 1, code, 1)
    BY <1>1, KeysOnly
  <2>2. Leads("tests", n, from \o code, 1)
    BY <1>1, <1>3, <2>1, LeadsJoin
  <2> QED
    BY <1>3, <2>2 DEF Configures
<1> QED
  BY <1>2, <1>3 DEF Configures

-----------------------------------------------------------------------------
(* The driver takes byte b and the channel goes from queue q to q2,        *)
(* writing the bytes wr, in a way that leads the keyboard to d2 now.       *)
Redirects(q, d, wr, q2, d2) ==
  \A e : \A w \in Seq(Nat) : Comes(e, w, q, d) => Comes(e, w \o wr, q2, d2)

LEMMA NothingWritten ==
  ASSUME NEW q, NEW d
  PROVE  Redirects(q, d, <<>>, q, d)
<1>1. \A w \in Seq(Nat) : w \o <<>> = w
  OBVIOUS
<1> QED
  BY <1>1 DEF Redirects

LEMMA ByteConfigures ==
  ASSUME NEW n \in {0, 1}, NEW d, NEW to \in Seq(Nat), NEW from \in Seq(Nat), from # <<>>, NEW q, NEW dev,
         Configures(n, d, to, from, q, dev), NEW b, b = Head(from),
         NEW wr, NEW q2, NEW d2, Redirects(q, d, wr, q2, d2), b # 170,
         b \notin ResponseCodes => (q # <<>> => wr = <<>> /\ q2 # <<>>)
  PROVE  Configures(n, d2, to \o wr, Tail(from), q2, dev)
<1>1. CASE /\ n = 0 /\ to = <<ResetCommand>> /\ q # <<>>
           /\ \A i \in 1..Len(from) : from[i] \notin ResponseCodes
           /\ Comes(PoweredOn, <<>>, q, d)
  <2>1. 1 \in 1..Len(from) /\ b = from[1]
    OBVIOUS
  <2>2. wr = <<>> /\ q2 # <<>>
    BY <1>1, <2>1
  <2>3. to \o wr = to /\ <<>> \in Seq(Nat) /\ <<>> \o <<>> = <<>>
    BY <2>2
  <2>4. Comes(PoweredOn, <<>>, q2, d2)
    BY <1>1, <2>2, <2>3 DEF Redirects
  <2>5. \A i \in 1..Len(Tail(from)) : Tail(from)[i] = from[i + 1] /\ i + 1 \in 1..Len(from)
    OBVIOUS
  <2> QED
    BY <1>1, <2>2, <2>3, <2>4, <2>5 DEF Configures
<1>2. CASE Leads("tests", n, from, 1) /\ Comes(dev, to, q, d)
  <2>1. Leads("tests", Taken("tests", n, b), Tail(from), 1)
    BY <1>2, LeadsHead
  <2>2. Taken("tests", n, b) = n
    BY DEF Taken
  <2>3. Comes(dev, to \o wr, q2, d2)
    BY <1>2 DEF Redirects
  <2> QED
    BY <2>1, <2>2, <2>3 DEF Configures
<1> QED
  BY <1>1, <1>2 DEF Configures

(* A byte that is an answer is taken after the reset only. *)
LEMMA AnswerTaken ==
  ASSUME NEW n \in {0, 1}, NEW d, NEW to \in Seq(Nat), NEW from \in Seq(Nat), from # <<>>, NEW q, NEW dev,
         Configures(n, d, to, from, q, dev), Head(from) \in ResponseCodes
  PROVE  /\ Comes(dev, to, q, d)
         /\ Head(from) \notin {252, 253, ResendRequest}
         /\ Head(from) = 170 => n = 0 /\ Leads("tests", 1, Tail(from), 1)
<1>1. 1 \in 1..Len(from) /\ Head(from) = from[1]
  OBVIOUS
<1>2. Leads("tests", n, from, 1) /\ Comes(dev, to, q, d)
  BY <1>1 DEF Configures
<1>3. Accepts("tests", n, Head(from)) /\ Leads("tests", Taken("tests", n, Head(from)), Tail(from), 1)
  BY <1>2, LeadsHead
<1> QED
  BY <1>2, <1>3 DEF Accepts, Taken

(* The LEDs that a changed lock asks for are queued. *)
LEMMA LedsRedirect ==
  ASSUME NEW c, ChannelInv(c), c.written = <<>>, Len(c.queue) < MaxCommands, NEW command, Expected(command),
         NEW p, p = PushCommand(c, command), NEW d
  PROVE  /\ Redirects(c.queue, d, p.written, p.queue, KeyboardTakes(d, command))
         /\ ChannelInv(p) /\ Len(p.queue) = Len(c.queue) + 1 /\ p.queue # <<>>
         /\ c.queue # <<>> => p.written = <<>>
<1>1. ASSUME NEW e, NEW w \in Seq(Nat), Comes(e, w, c.queue, d)
      PROVE  /\ Comes(e, w \o p.written, p.queue, KeyboardTakes(d, command))
  <2>1. w \o c.written = w
    OBVIOUS
  <2>2. Comes(e, w \o c.written, c.queue, d)
    BY <1>1, <2>1
  <2>3. Comes(e, w \o p.written, p.queue, KeyboardTakes(d, command))
    BY <2>2, PushConfigures, Zenon
  <2> QED
    BY <2>3
<1>2. ChannelInv(p) /\ Len(p.queue) = Len(c.queue) + 1 /\ p.queue # <<>> /\ (c.queue # <<>> => p.written = <<>>)
  <2>1. c \in Channels /\ command \in Commands /\ c.queue \in Seq(Commands) /\ Len(c.queue) # MaxCommands
    BY QueueAssumption DEF ChannelInv, Channels, Expected
  <2> DEFINE pushed == [c EXCEPT !.queue = Append(@, command)]
  <2>2. pushed \in Channels /\ pushed.queue = Append(c.queue, command) /\ pushed.written = c.written
    BY <2>1, PushedType DEF Channels
  <2>3. p = IF c.state = "FREE" THEN ExecuteCommand(pushed) ELSE pushed
    BY <2>1 DEF PushCommand
  <2> HIDE DEF pushed
  <2>4. p.queue = Append(c.queue, command)
    BY <2>2, <2>3, ExecuteFields
  <2>5. c.queue # <<>> => p.written = c.written
    BY <2>2, <2>3 DEF ChannelInv
  <2>6. ChannelInv(p)
    BY <2>1, PushKeepsChannel
  <2> QED
    BY <2>1, <2>4, <2>5, <2>6, AppendedBehind
<1> QED
  BY <1>1, <1>2 DEF Redirects

LEMMA LedsPlanned ==
  ASSUME NEW n, NEW d, NEW lk, Planned(n, d, lk), NEW lk2
  PROVE  Planned(n, KeyboardTakes(d, Command(SetLedStates, LedBits(lk2))), lk2)
<1> DEFINE c == Command(SetLedStates, LedBits(lk2))
<1>1. Expected(c) /\ c.command = SetLedStates /\ c.data = LedBits(lk2)
  BY LedCommand DEF Command
<1> HIDE DEF c
<1>2. /\ KeyboardTakes(d, c) \in DeviceSet /\ KeyboardTakes(d, c).leds = LedBits(lk2)
      /\ KeyboardTakes(d, c).applied = d.applied
  BY <1>1, CommandTaken DEF Planned
<1> QED
  BY <1>2 DEF Planned, c

(* The self test's result: the four commands of InitialisePS2Keyboard.     *)
LEMMA InitialiseRedirects ==
  ASSUME NEW c, ChannelInv(c), c.written = <<>>, Len(c.queue) + 4 <= MaxCommands, NEW lk,
         NEW d, Planned(0, d, lk), NEW e, NEW w \in Seq(Nat), Comes(e, w, c.queue, d),
         NEW p, p = InitialiseKeyboard(c, lk)
  PROVE  /\ Len(p.queue) = Len(c.queue) + 4
         /\ \E d2 : Planned(1, d2, lk) /\ Comes(e, w \o p.written, p.queue, d2)
<1> DEFINE k1 == Command(SetScanCodeSet, 2)
           k2 == Command(SetTypematicByte, 32)
           k3 == Command(EnableScanning, 0)
           k4 == Command(SetLedStates, LedBits(lk))
           c1 == PushCommand(c, k1)
           c2 == PushCommand(c1, k2)
           c3 == PushCommand(c2, k3)
           c4 == PushCommand(c3, k4)
           d1 == KeyboardTakes(d, k1)
           d2 == KeyboardTakes(d1, k2)
           d3 == KeyboardTakes(d2, k3)
           d4 == KeyboardTakes(d3, k4)
<1>1. p = c4
  BY DEF InitialiseKeyboard, UpdateIndicatorLEDs
<1>2. /\ Expected(k1) /\ Expected(k2) /\ Expected(k3) /\ Expected(k4)
      /\ k1.command = SetScanCodeSet /\ k2.command = SetTypematicByte /\ k3.command = EnableScanning
      /\ k4.command = SetLedStates /\ k4.data = LedBits(lk)
  BY SettingCommands, LedCommand DEF Command
<1>3. Len(c.queue) \in Nat /\ MaxCommands \in Nat /\ w \o c.written = w
  BY QueueAssumption DEF ChannelInv, Channels
<1> HIDE DEF k1, k2, k3, k4, c1, c2, c3, c4, d1, d2, d3, d4
<1>4. ChannelInv(c1) /\ Len(c1.queue) = Len(c.queue) + 1 /\ Comes(e, w \o c1.written, c1.queue, d1)
  <2>1. Len(c.queue) < MaxCommands /\ Comes(e, w \o c.written, c.queue, d)
    BY <1>3
  <2> QED
    BY <1>2, <2>1, PushConfigures DEF c1, d1
<1>5. ChannelInv(c2) /\ Len(c2.queue) = Len(c.queue) + 2 /\ Comes(e, w \o c2.written, c2.queue, d2)
  <2>1. Len(c1.queue) < MaxCommands
    BY <1>3, <1>4
  <2>2. ChannelInv(c2) /\ Len(c2.queue) = Len(c1.queue) + 1 /\ Comes(e, w \o c2.written, c2.queue, d2)
    BY <1>2, <1>4, <2>1, PushConfigures DEF c2, d2
  <2> QED
    BY <1>3, <1>4, <2>2
<1>6. ChannelInv(c3) /\ Len(c3.queue) = Len(c.queue) + 3 /\ Comes(e, w \o c3.written, c3.queue, d3)
  <2>1. Len(c2.queue) < MaxCommands
    BY <1>3, <1>5
  <2>2. ChannelInv(c3) /\ Len(c3.queue) = Len(c2.queue) + 1 /\ Comes(e, w \o c3.written, c3.queue, d3)
    BY <1>2, <1>5, <2>1, PushConfigures DEF c3, d3
  <2> QED
    BY <1>3, <1>5, <2>2
<1>7. Len(c4.queue) = Len(c.queue) + 4 /\ Comes(e, w \o c4.written, c4.queue, d4)
  <2>1. Len(c3.queue) < MaxCommands
    BY <1>3, <1>6
  <2>2. Len(c4.queue) = Len(c3.queue) + 1 /\ Comes(e, w \o c4.written, c4.queue, d4)
    BY <1>2, <1>6, <2>1, PushConfigures DEF c4, d4
  <2> QED
    BY <1>3, <1>6, <2>2
<1>8. Planned(1, d4, lk)
  <2>0. d \in DeviceSet /\ d.applied = {} /\ SetLedStates \notin Settings
    BY DEF Planned, Settings, SetLedStates, SetScanCodeSet, SetTypematicByte, EnableScanning
  <2>1. d1 \in DeviceSet /\ d1.applied = {} \cup {SetScanCodeSet}
    BY <1>2, <2>0, CommandTaken DEF d1, Settings
  <2>2. d2 \in DeviceSet /\ d2.applied = d1.applied \cup {SetTypematicByte}
    BY <1>2, <2>0, <2>1, CommandTaken DEF d2, Settings
  <2>3. d3 \in DeviceSet /\ d3.applied = d2.applied \cup {EnableScanning}
    BY <1>2, <2>0, <2>2, CommandTaken DEF d3, Settings
  <2>4. d4 \in DeviceSet /\ d4.applied = d3.applied /\ d4.leds = LedBits(lk)
    BY <1>2, <2>3, CommandTaken DEF d4
  <2>5. d4.applied = Settings
    BY <2>1, <2>2, <2>3, <2>4 DEF Settings
  <2> QED
    BY <2>4, <2>5 DEF Planned
<1> QED
  BY <1>1, <1>7, <1>8

LEMMA SameLeds ==
  ASSUME NEW lk, NEW lk2, \A k \in LockKeys : lk2[k].active = lk[k].active
  PROVE  LedBits(lk2) = LedBits(lk)
  BY DEF LedBits, LockKeys

LEMMA InterruptKeepsConfig ==
  ASSUME DriverInv, SystemTypes, NEW r \in Nat, ConfigAt(r), Interrupt,
         NEW r2 \in Nat, TakesByte(Head(fromKeyboard), r, r2)
  PROVE  ConfigAt(r2)'
<1> DEFINE b == Head(fromKeyboard)
           q == chan.queue
           wr == chan'.written
           q2 == chan'.queue
<1>1. /\ fromKeyboard # <<>> /\ ProcessKeyboardInterrupt(b) /\ fromKeyboard' = Tail(fromKeyboard)
      /\ toKeyboard' = toKeyboard \o wr /\ UNCHANGED <<device, session>>
      /\ toKeyboard \in Seq(Nat) /\ fromKeyboard \in Seq(Nat)
  BY DEF Interrupt, environment, SystemTypes
<1>2. PICK n \in {0, 1} : \E d : /\ Configures(n, d, toKeyboard, fromKeyboard, q, device)
                                 /\ Planned(n, d, locks) /\ Room(n, Len(q), r, session.presses)
  BY Zenon DEF ConfigAt
<1>3. PICK d : /\ Configures(n, d, toKeyboard, fromKeyboard, q, device)
               /\ Planned(n, d, locks) /\ Room(n, Len(q), r, session.presses)
  BY <1>2
<1>4. TakesByte(b, r, r2)
  OBVIOUS
<1>5. ChannelInv(Fresh) /\ Fresh.written = <<>> /\ Fresh.queue = q /\ Len(q) \in Nat
  <2>1. ChannelInv(Fresh) /\ Fresh.written = <<>> /\ chan \in Channels
    BY FreshChannel DEF DriverInv, ChannelInv
  <2>2. Fresh.queue = q /\ Len(q) \in Nat
    BY <2>1 DEF Fresh, Channels
  <2> QED
    BY <2>1, <2>2
<1>6. session.presses \in Nat /\ session.presses + 5 <= MaxCommands
  BY SessionTypes
<1>7. MaxCommands \in Nat
  BY QueueAssumption
<1> HIDE DEF b, q, wr, q2
<1>8. ASSUME NEW m \in {0, 1}, NEW d2, Planned(m, d2, locks'), Room(m, Len(q2), r2, session.presses),
             Configures(m, d2, toKeyboard', fromKeyboard', q2, device)
      PROVE  ConfigAt(r2)'
  <2>1. session' = session /\ device' = device
    BY <1>1
  <2> QED
    BY <1>8, <2>1, Zenon DEF ConfigAt, q2
<1>9. ASSUME b # 170, NEW d2, Redirects(q, d, wr, q2, d2), Planned(n, d2, locks'),
             Room(n, Len(q2), r2, session.presses),
             b \notin ResponseCodes => (q # <<>> => wr = <<>> /\ q2 # <<>>)
      PROVE  ConfigAt(r2)'
  <2>1. Configures(n, d2, toKeyboard \o wr, Tail(fromKeyboard), q2, device)
    BY <1>1, <1>3, <1>9, ByteConfigures DEF b
  <2> QED
    BY <1>1, <1>8, <1>9, <2>1
<1>10. ASSUME chan' = Fresh, r2 = r, b # 170, \A k \in LockKeys : locks'[k].active = locks[k].active
       PROVE  ConfigAt(r2)'
  <2>1. wr = <<>> /\ q2 = q
    BY <1>5, <1>10 DEF wr, q2
  <2>2. Redirects(q, d, wr, q2, d)
    BY <2>1, NothingWritten
  <2>3. LedBits(locks') = LedBits(locks)
    BY <1>10, SameLeds
  <2>4. Planned(n, d, locks')
    BY <1>3, <2>3 DEF Planned
  <2>5. Room(n, Len(q2), r2, session.presses)
    BY <1>3, <1>10, <2>1
  <2> QED
    BY <1>9, <1>10, <2>1, <2>2, <2>4, <2>5
<1>11. CASE b \notin ResponseCodes
  <2>1. b # 170
    BY <1>11 DEF ResponseCodes, SelfTestResults
  <2>2. CASE r2 = r
    BY <1>4, <1>10, <1>11, <2>1, <2>2 DEF TakesByte
  <2>3. CASE r2 # r
    <3> DEFINE c == Command(SetLedStates, LedBits(locks'))
               d2 == KeyboardTakes(d, c)
    <3>1. chan' = PushCommand(Fresh, c) /\ r2 = r - 1
      BY <1>4, <1>11, <2>3 DEF TakesByte, UpdateIndicatorLEDs
    <3>2. Expected(c)
      BY LedCommand
    <3>3. Planned(n, d2, locks')
      BY <1>3, LedsPlanned
    <3> HIDE DEF c, d2
    <3>4. Len(q) + r <= session.presses + 5 /\ Len(q) < MaxCommands
      BY <1>3, <1>5, <1>6, <1>7, <3>1 DEF Room
    <3>5. /\ Redirects(q, d, wr, q2, d2)
          /\ Len(q2) = Len(q) + 1 /\ q2 # <<>> /\ (q # <<>> => wr = <<>>)
      BY <1>5, <3>1, <3>2, <3>4, LedsRedirect DEF wr, q2, d2
    <3>6. Room(n, Len(q2), r2, session.presses)
      BY <1>3, <1>5, <1>6, <3>1, <3>5 DEF Room
    <3> QED
      BY <1>9, <2>1, <3>3, <3>5, <3>6
  <2> QED
    BY <2>2, <2>3
<1>12. CASE b \in ResponseCodes
  <2>1. r2 = r /\ locks' = locks
    BY <1>4, <1>12 DEF TakesByte
  <2>2. /\ Comes(device, toKeyboard, q, d) /\ b \notin {252, 253, ResendRequest}
        /\ b = 170 => n = 0 /\ Leads("tests", 1, Tail(fromKeyboard), 1)
    BY <1>1, <1>3, <1>12, AnswerTaken DEF b
  <2>3. CASE b = 170
    <3>1. SelfTestDone(b)
      BY <1>1, <2>3 DEF ProcessKeyboardInterrupt, IgnoreByte, Acknowledge, ResendRequested, ScanCodeFailed,
                        ScanCodeProcessed, KeyDetectionErrors, Echo, CommandAcknowledged, ResendRequest,
                        ResponseCodes, SelfTestResults
    <3>2. chan' = InitialiseKeyboard(Fresh, locks)
      BY <3>1 DEF SelfTestDone, Respond
    <3>3. n = 0 /\ Len(q) + 4 <= MaxCommands
      BY <1>3, <1>5, <1>6, <1>7, <2>2, <2>3 DEF Room
    <3>4. /\ Len(q2) = Len(q) + 4
          /\ \E d2 : Planned(1, d2, locks) /\ Comes(device, toKeyboard \o wr, q2, d2)
      BY <1>1, <1>3, <1>5, <2>2, <3>2, <3>3, InitialiseRedirects DEF wr, q2
    <3>5. PICK d2 : Planned(1, d2, locks) /\ Comes(device, toKeyboard \o wr, q2, d2)
      BY <3>4
    <3>6. Configures(1, d2, toKeyboard', fromKeyboard', q2, device)
      BY <1>1, <2>2, <2>3, <3>5 DEF Configures
    <3>7. Room(1, Len(q2), r2, session.presses)
      BY <1>3, <1>5, <2>1, <3>3, <3>4 DEF Room
    <3> QED
      BY <1>8, <2>1, <3>5, <3>6, <3>7
  <2>4. CASE b = CommandAcknowledged
    <3>1. Acknowledge(b)
      BY <1>1, <2>4 DEF ProcessKeyboardInterrupt, IgnoreByte, SelfTestDone, ResendRequested, ScanCodeFailed,
                        ScanCodeProcessed, KeyDetectionErrors, Echo, CommandAcknowledged, ResendRequest,
                        ResponseCodes, SelfTestResults
    <3>2. chan' = IF Fresh.state = "WAITING" THEN NextCommand(Fresh) ELSE Fresh
      BY <3>1 DEF Acknowledge, Respond, OnCommandAcknowledged
    <3>3. b # 170
      BY <2>4 DEF CommandAcknowledged
    <3>4. CASE Fresh.state = "WAITING"
      <4>1. q # <<>> /\ chan' = NextCommand(Fresh)
        BY <1>5, <3>2, <3>4 DEF ChannelInv
      <4>2. ASSUME NEW e, NEW w \in Seq(Nat), Comes(e, w, q, d)
            PROVE  Len(q2) <= Len(q) /\ Comes(e, w \o wr, q2, d)
        BY <1>5, <4>1, <4>2, NextConfigures DEF wr, q2
      <4>3. Redirects(q, d, wr, q2, d)
        BY <4>2 DEF Redirects
      <4>4. Len(q2) <= Len(q)
        BY <1>1, <2>2, <4>2
      <4>5. Len(q2) \in Nat
        <5>1. DriverInv'
          BY <1>1, InterruptDriverInv
        <5> QED
          BY <5>1 DEF DriverInv, ChannelInv, Channels, q2
      <4>6. Room(n, Len(q2), r2, session.presses)
        BY <1>3, <1>5, <1>6, <2>1, <4>4, <4>5 DEF Room
      <4> QED
        BY <1>3, <1>9, <1>12, <2>1, <3>3, <4>3, <4>6
    <3>5. CASE Fresh.state # "WAITING"
      BY <1>10, <2>1, <3>2, <3>3, <3>5
    <3> QED
      BY <3>4, <3>5
  <2>5. CASE b \notin {170, CommandAcknowledged}
    <3>1. chan' = Fresh
      BY <1>1, <1>12, <2>2, <2>5
         DEF ProcessKeyboardInterrupt, IgnoreByte, SelfTestDone, Acknowledge, ResendRequested, ScanCodeFailed,
             ScanCodeProcessed, SelfTestResults, Respond
    <3> QED
      BY <1>10, <2>1, <2>5, <3>1
  <2> QED
    BY <2>3, <2>4, <2>5
<1> QED
  BY <1>11, <1>12

LEMMA ConfigInit ==
  ASSUME SystemInit
  PROVE  ConfigAt(session.presses)
<1> DEFINE reset == Command(ResetCommand, 0)
<1>1. reset \in Commands /\ CommandBytes(reset) = <<ResetCommand>>
  BY DEF Command, Commands, CommandBytes, CommandsWithData, ResetCommand, SetLedStates, SetScanCodeSet,
         SetTypematicByte
<1>2. IdleChannel \in Channels
  BY QueueAssumption DEF IdleChannel, Channels
<1> DEFINE pushed == [IdleChannel EXCEPT !.queue = Append(@, reset)]
<1>3. pushed \in Channels /\ pushed.queue = <<reset>> /\ pushed.written = <<>> /\ Len(pushed.queue) = 1
  <2>1. pushed \in Channels
    BY <1>1, <1>2, PushedType
  <2>2. pushed.queue = Append(<<>>, reset) /\ pushed.written = <<>>
    BY DEF IdleChannel
  <2>3. Append(<<>>, reset) = <<reset>> /\ Len(<<reset>>) = 1
    OBVIOUS
  <2> QED
    BY <2>1, <2>2, <2>3
<1>4. chan = ExecuteCommand(pushed)
  BY QueueAssumption DEF SystemInit, Init, PushCommand, IdleChannel
<1> HIDE DEF reset, pushed
<1>5. chan.queue = <<reset>> /\ chan.written = <<>> \o CommandBytes(reset)
  <2>1. chan.queue = pushed.queue /\ chan.written = pushed.written \o CommandBytes(Head(pushed.queue))
    BY <1>3, <1>4, ExecuteFields
  <2>2. Head(<<reset>>) = reset
    OBVIOUS
  <2> QED
    BY <1>3, <2>1, <2>2
<1>6. <<ResetCommand>> \in Seq(Nat) /\ <<>> \o <<ResetCommand>> = <<ResetCommand>>
  BY DEF ResetCommand
<1>7. toKeyboard = <<ResetCommand>> /\ fromKeyboard = <<>> /\ chan.queue # <<>> /\ Len(chan.queue) = 1
  BY <1>1, <1>5, <1>6 DEF SystemInit
<1>8. PoweredOn \in DeviceSet /\ PoweredOn.expecting = 0 /\ PoweredOn.leds = 0 /\ PoweredOn.applied = {}
  BY DEF PoweredOn, DeviceSet
<1>9. Behind(chan.queue) = <<>>
  BY <1>5 DEF Behind
<1>10. Comes(PoweredOn, <<>>, chan.queue, PoweredOn)
  <2>1. Leads("keyboard", PoweredOn, <<>>, PoweredOn)
    BY LeadsNowhere
  <2>2. Leads("commands", PoweredOn, Behind(chan.queue), PoweredOn)
    BY <1>9, LeadsNowhere
  <2> QED
    BY <1>8, <2>1, <2>2, Zenon DEF Comes
<1>11. LedBits(locks) = 0
  BY DEF LedBits, Bit, SystemInit, Init, LockKeys
<1>12. Planned(0, PoweredOn, locks)
  BY <1>8, <1>11 DEF Planned
<1>13. Configures(0, PoweredOn, toKeyboard, fromKeyboard, chan.queue, device)
  BY <1>7, <1>10 DEF Configures
<1>14. session.presses \in Nat
  BY UserAssumption DEF SystemInit
<1>15. Room(0, Len(chan.queue), session.presses, session.presses)
  BY <1>7, <1>14 DEF Room
<1>16. 0 \in {0, 1}
  OBVIOUS
<1> QED
  BY <1>12, <1>13, <1>15, <1>16, Zenon DEF ConfigAt

LEMMA ConfigDelivered ==
  ASSUME NEW r, ConfigAt(r), AnswerComing, WireIdle
  PROVE  device.leds = LedBits(locks) /\ device.applied = Settings
<1>1. PICK n \in {0, 1} : \E d : /\ Configures(n, d, toKeyboard, fromKeyboard, chan.queue, device)
                                 /\ Planned(n, d, locks)
  BY Zenon DEF ConfigAt
<1>2. PICK d : Configures(n, d, toKeyboard, fromKeyboard, chan.queue, device) /\ Planned(n, d, locks)
  BY <1>1
<1>3. toKeyboard = <<>> /\ fromKeyboard = <<>> /\ <<>> # <<ResetCommand>>
  BY DEF WireIdle
<1>4. chan.queue = <<>>
  BY <1>3 DEF AnswerComing
<1>5. Leads("tests", n, <<>>, 1) /\ Comes(device, <<>>, <<>>, d)
  BY <1>2, <1>3, <1>4 DEF Configures
<1>6. n = 1
  BY <1>5, LeadsNowhere
<1>7. device = d
  BY <1>5, LeadsNowhere DEF Comes, Behind
<1> QED
  BY <1>2, <1>6, <1>7 DEF Planned

-----------------------------------------------------------------------------
(* The inductive invariant of the system: what is coming to the driver     *)
(* agrees with the user, and what is coming to the keyboard with the       *)
(* driver, unless a byte was garbled.  r more LED commands may be queued.  *)
Faults == session.faults \in Nat /\ faultsLeft \in Nat /\ faultsLeft <= session.faults

WhatIsComing(r) == UserAt(r) /\ (faultsLeft = session.faults => ConfigAt(r))

SystemInv == DriverInv /\ SystemTypes /\ AnswerComing /\ Faults /\ \E r \in Nat : WhatIsComing(r)

LEMMA InitSystemInv == SystemInit => SystemInv
<1> SUFFICES ASSUME SystemInit PROVE SystemInv
  OBVIOUS
<1>1. DriverInv /\ SystemTypes /\ UserAt(session.presses) /\ ConfigAt(session.presses)
  BY UserInit, ConfigInit
<1>2. session.presses \in Nat /\ Faults
  BY UserAssumption DEF SystemInit, Faults
<1>3. toKeyboard # <<>>
  <2>1. chan.written # <<>>
    <3>1. ChannelInv(IdleChannel) /\ Written(IdleChannel, <<>>) /\ Command(ResetCommand, 0) \in Commands
      <4>1. IdleChannel \in Channels
        BY QueueAssumption DEF IdleChannel, Channels
      <4> QED
        BY <4>1, QueueAssumption DEF ChannelInv, IdleChannel, Written, Command, Commands, ResetCommand
    <3>2. Written(chan, <<>>)
      BY <3>1, PushWrites DEF SystemInit, Init
    <3>3. chan.queue # <<>>
      BY <1>1, QueueAssumption DEF SystemInit, Init, PushCommand, IdleChannel, ExecuteCommand
    <3> QED
      BY <3>2, <3>3 DEF Written
  <2> QED
    BY <2>1 DEF SystemInit
<1>4. AnswerComing
  BY <1>3 DEF AnswerComing
<1>5. WhatIsComing(session.presses)
  BY <1>1 DEF WhatIsComing
<1> QED
  BY <1>1, <1>2, <1>4, <1>5 DEF SystemInv

LEMMA ReceiveSystemInv ==
  ASSUME SystemInv, DeviceReceive
  PROVE  SystemInv'
<1>1. DriverInv /\ SystemTypes
  BY DEF SystemInv
<1>2. UNCHANGED <<chan, decoder, keyStates, locks, mods, session, faultsLeft>>
  BY DEF DeviceReceive, vars, environment
<1>3. PICK r \in Nat : WhatIsComing(r)
  BY Zenon DEF SystemInv
<1>4. UserAt(r)' /\ SystemTypes' /\ AnswerComing'
  BY <1>1, <1>3, DeviceKeepsUser, DeviceAnswers DEF WhatIsComing
<1>5. DriverInv'
  BY <1>1, <1>2 DEF DriverInv, ChannelInv, DecoderInv, KeysInv
<1>6. ASSUME ConfigAt(r) PROVE ConfigAt(r)'
  <2>1. PICK n \in {0, 1} : \E d : /\ Configures(n, d, toKeyboard, fromKeyboard, chan.queue, device)
                                   /\ Planned(n, d, locks) /\ Room(n, Len(chan.queue), r, session.presses)
    BY <1>6, Zenon DEF ConfigAt
  <2>2. PICK d : /\ Configures(n, d, toKeyboard, fromKeyboard, chan.queue, device)
                 /\ Planned(n, d, locks) /\ Room(n, Len(chan.queue), r, session.presses)
    BY <2>1
  <2>3. Configures(n, d, toKeyboard', fromKeyboard', chan.queue, device')
    BY <1>1, <2>2, ReceiveConfigures
  <2>4. chan' = chan /\ locks' = locks /\ session' = session
    BY <1>2
  <2>5. /\ Configures(n, d, toKeyboard', fromKeyboard', chan'.queue, device')
        /\ Planned(n, d, locks') /\ Room(n, Len(chan'.queue), r, session'.presses)
    BY <2>2, <2>3, <2>4
  <2> QED
    BY <2>5, Zenon DEF ConfigAt
<1>7. WhatIsComing(r)' /\ Faults'
  BY <1>2, <1>3, <1>4, <1>6 DEF WhatIsComing, Faults, SystemInv
<1> QED
  BY <1>3, <1>4, <1>5, <1>7, Zenon DEF SystemInv

LEMMA GarbledSystemInv ==
  ASSUME SystemInv, DeviceReceiveGarbled
  PROVE  SystemInv'
<1>1. DriverInv /\ SystemTypes /\ Faults
  BY DEF SystemInv
<1>2. UNCHANGED <<chan, decoder, keyStates, locks, mods, session>> /\ faultsLeft > 0 /\ faultsLeft' = faultsLeft - 1
  BY DEF DeviceReceiveGarbled, vars
<1>3. PICK r \in Nat : WhatIsComing(r)
  BY Zenon DEF SystemInv
<1>4. UserAt(r)' /\ SystemTypes' /\ AnswerComing'
  BY <1>1, <1>3, DeviceKeepsUser, DeviceAnswers DEF WhatIsComing
<1>5. DriverInv'
  BY <1>1, <1>2 DEF DriverInv, ChannelInv, DecoderInv, KeysInv
<1>6. Faults' /\ faultsLeft' # session'.faults
  BY <1>1, <1>2 DEF Faults
<1>7. WhatIsComing(r)'
  BY <1>4, <1>6 DEF WhatIsComing
<1> QED
  BY <1>3, <1>4, <1>5, <1>6, <1>7, Zenon DEF SystemInv

(* The user's key sends a code. *)
LEMMA KeySystemInv ==
  ASSUME SystemInv, NEW k \in session.keys, Press(k) \/ Repeat(k) \/ Release(k)
  PROVE  SystemInv'
<1>1. DriverInv /\ SystemTypes /\ Faults /\ AnswerComing
  BY DEF SystemInv
<1>2. UNCHANGED <<chan, decoder, keyStates, locks, mods, session, faultsLeft, toKeyboard, device>>
  BY DEF Press, Repeat, Release, vars
<1>3. PICK r \in Nat : WhatIsComing(r)
  BY Zenon DEF SystemInv
<1>4. UserAt(r)' /\ SystemTypes'
  BY <1>1, <1>3, PressKeepsUser, RepeatKeepsUser, ReleaseKeepsUser DEF WhatIsComing
<1>5. PICK code : code \in Seq(Nat \ ResponseCodes) /\ fromKeyboard' = fromKeyboard \o code
  <2>1. k \in DOMAIN MakeCode
    BY <1>1, SessionTypes
  <2>2. MakeCode[k] \in Seq(Nat \ ResponseCodes)
    BY <2>1, CodesAssumption DEF IsCodeOf
  <2>3. Release(k) => BreakCode[k] \in Seq(Nat \ ResponseCodes)
    BY <1>1, <2>1, CodesAssumption DEF IsCodeOf, SystemTypes, Release
  <2>4. (Press(k) \/ Repeat(k)) => fromKeyboard' = fromKeyboard \o MakeCode[k]
    BY DEF Press, Repeat
  <2>5. Release(k) => fromKeyboard' = fromKeyboard \o BreakCode[k]
    BY DEF Release
  <2> QED
    BY <2>2, <2>3, <2>4, <2>5
<1>6. fromKeyboard \in Seq(Nat) /\ code \in Seq(Nat)
  <2>1. \A i \in 1..Len(code) : code[i] \in Nat
    BY <1>5
  <2>2. code \in Seq(Nat)
    BY <1>5, <2>1
  <2> QED
    BY <1>1, <2>2 DEF SystemTypes
<1>7. AnswerComing'
  BY <1>1, <1>2, <1>5, <1>6, UserKeepsAnswer
<1>8. DriverInv'
  BY <1>1, <1>2 DEF DriverInv, ChannelInv, DecoderInv, KeysInv
<1>9. ASSUME ConfigAt(r) PROVE ConfigAt(r)'
  <2>1. PICK n \in {0, 1} : \E d : /\ Configures(n, d, toKeyboard, fromKeyboard, chan.queue, device)
                                   /\ Planned(n, d, locks) /\ Room(n, Len(chan.queue), r, session.presses)
    BY <1>9, Zenon DEF ConfigAt
  <2>2. PICK d : /\ Configures(n, d, toKeyboard, fromKeyboard, chan.queue, device)
                 /\ Planned(n, d, locks) /\ Room(n, Len(chan.queue), r, session.presses)
    BY <2>1
  <2>3. Configures(n, d, toKeyboard, fromKeyboard \o code, chan.queue, device)
    BY <1>5, <1>6, <2>2, CodeConfigures
  <2>4. chan' = chan /\ locks' = locks /\ session' = session /\ toKeyboard' = toKeyboard /\ device' = device
    BY <1>2
  <2>5. /\ Configures(n, d, toKeyboard', fromKeyboard', chan'.queue, device')
        /\ Planned(n, d, locks') /\ Room(n, Len(chan'.queue), r, session'.presses)
    BY <1>5, <2>2, <2>3, <2>4
  <2> QED
    BY <2>5, Zenon DEF ConfigAt
<1>10. WhatIsComing(r)' /\ Faults'
  BY <1>1, <1>2, <1>3, <1>4, <1>9 DEF WhatIsComing, Faults
<1> QED
  BY <1>3, <1>4, <1>7, <1>8, <1>10, Zenon DEF SystemInv

LEMMA InterruptSystemInv ==
  ASSUME SystemInv, Interrupt
  PROVE  SystemInv'
<1>1. DriverInv /\ SystemTypes /\ Faults /\ AnswerComing
  BY DEF SystemInv
<1>2. UNCHANGED <<session, faultsLeft>>
  BY DEF Interrupt, environment
<1>3. PICK r \in Nat : WhatIsComing(r)
  BY Zenon DEF SystemInv
<1>4. DriverInv' /\ SystemTypes'
  BY <1>1, <1>3, InterruptKeepsUser DEF WhatIsComing
<1>5. PICK r2 \in Nat : UserAt(r2)' /\ TakesByte(Head(fromKeyboard), r, r2)
  BY <1>1, <1>3, InterruptKeepsUser DEF WhatIsComing
<1>6. AnswerComing'
  BY <1>1, InterruptKeepsAnswer
<1>7. ConfigAt(r) => ConfigAt(r2)'
  BY <1>1, <1>5, InterruptKeepsConfig
<1>8. WhatIsComing(r2)' /\ Faults'
  BY <1>1, <1>2, <1>3, <1>5, <1>7 DEF WhatIsComing, Faults
<1> QED
  BY <1>4, <1>5, <1>6, <1>8, Zenon DEF SystemInv

LEMMA NextSystemInv == SystemInv /\ [SystemNext]_sysVars => SystemInv'
<1> SUFFICES ASSUME SystemInv, [SystemNext]_sysVars PROVE SystemInv'
  OBVIOUS
<1>1. CASE DeviceReceive
  BY <1>1, ReceiveSystemInv
<1>2. CASE DeviceReceiveGarbled
  BY <1>2, GarbledSystemInv
<1>3. CASE \E k \in session.keys : Press(k) \/ Repeat(k) \/ Release(k)
  BY <1>3, KeySystemInv
<1>4. CASE Interrupt
  BY <1>4, InterruptSystemInv
<1>5. CASE UNCHANGED sysVars
  <2>1. UNCHANGED <<chan, decoder, keyStates, locks, mods, toKeyboard, fromKeyboard, device, held, oddPresses,
                    session, pressesLeft, faultsLeft>>
    BY <1>5 DEF sysVars, vars, environment
  <2>2. (\E r \in Nat : WhatIsComing(r)) => (\E r \in Nat : WhatIsComing(r)')
    BY <2>1 DEF WhatIsComing, UserAt, ConfigAt
  <2>3. DriverInv' /\ SystemTypes' /\ AnswerComing' /\ Faults'
    BY <2>1 DEF SystemInv, DriverInv, ChannelInv, DecoderInv, KeysInv, SystemTypes, AnswerComing, Faults
  <2> QED
    BY <2>2, <2>3, Zenon DEF SystemInv
<1> QED
  BY <1>1, <1>2, <1>3, <1>4, <1>5 DEF SystemNext

(* SystemInv holds in every state that driver, keyboard and user reach.    *)
THEOREM SystemInvariant == SystemSpec => []SystemInv
BY InitSystemInv, NextSystemInv, PTL DEF SystemSpec

(* KeyStatesMatchUser: once the bytes of the keyboard are delivered, the   *)
(* key states that the driver keeps (UpdatePS2KeyboardKeyState) say which  *)
(* keys the user holds, whatever answers came between and inside the codes *)
(* and however the driver wrote its commands meanwhile.                    *)
THEOREM KeysAreKnown == SystemSpec => []KeyStatesMatchUser
<1>1. SystemInv => KeyStatesMatchUser
  BY UserDelivered DEF SystemInv, WhatIsComing
<1> QED
  BY <1>1, SystemInvariant, PTL

(* LocksCountPresses: once the bytes are delivered, a lock is on exactly   *)
(* after an odd number of presses of its key or while that key is held     *)
(* (SwitchPS2KCapsLock and its siblings), for any mixture of keys held.    *)
THEOREM LocksAreKnown == SystemSpec => []LocksCountPresses
<1>1. SystemInv => LocksCountPresses
  BY UserDelivered DEF SystemInv, WhatIsComing
<1> QED
  BY <1>1, SystemInvariant, PTL

(* KeyboardIsConfigured: a command in the queue always has an answer or a  *)
(* byte on the wires that it waits for; and when the wires are empty and   *)
(* no byte was garbled, the keyboard shows the LEDs of the locks and has   *)
(* taken the settings of InitialisePS2Keyboard, although the driver takes  *)
(* each acknowledgement of a data byte for one of a whole command.         *)
THEOREM KeyboardGetsConfigured == SystemSpec => []KeyboardIsConfigured
<1>1. SystemInv => KeyboardIsConfigured
  <2> SUFFICES ASSUME SystemInv PROVE KeyboardIsConfigured
    OBVIOUS
  <2>1. NeverStuck
    BY DEF SystemInv, AnswerComing, NeverStuck, WireIdle
  <2>2. PICK r \in Nat : WhatIsComing(r)
    BY Zenon DEF SystemInv
  <2>3. WireIdle /\ faultsLeft = session.faults => device.leds = LedBits(locks) /\ device.applied = Settings
    BY <2>2, ConfigDelivered DEF SystemInv, WhatIsComing
  <2> QED
    BY <2>1, <2>3 DEF KeyboardIsConfigured
<1> QED
  BY <1>1, SystemInvariant, PTL
=============================================================================

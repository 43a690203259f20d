--------------------- MODULE PS2ControllerDriver_proofs ---------------------
(***************************************************************************)
(* The initialisation of the PS/2 controller for every configuration byte  *)
(* it may start from or be reset to, every byte and any number of bytes    *)
(* the devices send.                                                       *)
(***************************************************************************)
EXTENDS PS2ControllerDriver, TLAPS

Asking == {"READ_CONFIG", "SELFTEST", "TEST_PORT1", "TEST_PORT2"}
Silent == {"DISABLE_PORT1", "DISABLE_PORT2", "ENABLE_PORT1", "ENABLE_PORT2", "WRITE_CONFIG"}
Commands == Asking \cup Silent

Command(c) == [by |-> "command", value |-> c]

Inputs == {Empty} \cup [by : {"command"}, value : Commands] \cup [by : {"data"}, value : Bytes]
Outputs == {Empty} \cup [by : {"device"} \cup Asking, value : Bytes]

Waits == {"config", "selfTestResult", "queryResult", "test1Result", "test2Result", "finalResult"}
PCs == Waits \cup
  {"disable1", "disable2", "discard", "read", "save", "saveData", "selfTest", "restore",
   "restoreData", "query", "queryRead", "disableAgain", "test1", "test2", "enable1", "enable2",
   "finalRead", "final", "finalData", "done", "panic"}

Drivers == [config : Bytes, hasSecondPort : BOOLEAN,
            firstPortWorking : BOOLEAN, secondPortWorking : BOOLEAN]

Types ==
  /\ pc \in PCs
  /\ drv \in Drivers
  /\ ctl \in [in : Inputs, out : Outputs, answer : Outputs, receiving : BOOLEAN,
              data : {"CONFIG", "DEVICE"}, config : Bytes]
  /\ port \in [selfTest : BOOLEAN, first : {"works", "fails"},
               second : {"works", "fails", "single", "stuck"}]
  /\ sent \in [n : Nat, harmful : BOOLEAN]

(* The question the driver has asked is in the input buffer, or its answer *)
(* is on its way, or in the output buffer.                                 *)
Asked(command) ==
  \/ /\ ctl.in = Command(command)
     /\ ctl.answer = Empty /\ ctl.out = Empty
  \/ /\ ctl.in = Empty /\ ctl.out = Empty
     /\ ctl.answer.by = command /\ ctl.answer.value \in Answers(command)
  \/ /\ ctl.in = Empty /\ ctl.answer = Empty
     /\ ctl.out.by = command /\ ctl.out.value \in Answers(command)

AnswerInv ==
  ~sent.harmful =>
    /\ pc \in Waits => Asked(AnswerTo[pc])
    /\ pc \notin Waits =>
         ctl.answer = Empty /\ (ctl.in.by = "command" => ctl.in.value \in Silent)
    /\ pc \notin Waits \cup NoAnswerToCome => ctl.out = Empty

(* A data byte is only written after the command that announces it. *)
DataInv ==
  /\ ctl.in.by = "data" =>
       /\ pc \in {"selfTest", "query", "test1", "done"}
       /\ ctl.data = "CONFIG" /\ ctl.in.value = drv.config
  /\ pc \in {"saveData", "restoreData", "finalData"} =>
       ctl.in = Command("WRITE_CONFIG") \/ (ctl.in = Empty /\ ctl.data = "CONFIG")

(* The configuration once the controller has worked off its input buffer. *)
After(command) ==
  CASE command = "DISABLE_PORT1" -> ctl.config \cup {Port1ClockOff}
    [] command = "ENABLE_PORT1"  -> ctl.config \ {Port1ClockOff}
    [] command = "DISABLE_PORT2" -> Wired(ctl.config \cup {Port2ClockOff})
    [] command = "ENABLE_PORT2"  -> Wired(ctl.config \ {Port2ClockOff})
    [] OTHER                     -> ctl.config

Due ==
  IF ctl.in.by = "command" THEN After(ctl.in.value)
  ELSE IF ctl.in.by = "data" /\ ctl.data = "CONFIG" THEN Wired(ctl.in.value)
  ELSE ctl.config

Works1 == port.first = "works"
Works2 == port.second = "works"
Present2 == port.second \in {"works", "fails"}

(* All is off, as far as it can be. *)
Plain(c) == Port1Interrupt \notin c /\ Port2Interrupt \notin c /\ Translation \notin c
AllOff(c) ==
  /\ Plain(c) /\ Port1ClockOff \in c
  /\ Port2ClockOff \in c <=> port.second # "single"

(* The clocks of the ports that work, and of no other, are on. *)
ClocksOn(c) ==
  /\ Port1ClockOff \notin c <=> Works1
  /\ port.second # "single" => (Port2ClockOff \notin c <=> Works2)

AllOn(c) ==
  /\ ClocksOn(c) /\ Translation \notin c
  /\ Port1Interrupt \in c <=> Works1
  /\ Port2Interrupt \in c <=> Works2

(* The configuration at the stages of the initialisation. *)
DisabledInv ==
  /\ pc = "disable2" => Port1ClockOff \in Due
  /\ pc \in {"discard", "read", "config"} =>
       Port1ClockOff \in Due /\ (Port2ClockOff \in Due <=> port.second # "single")

SavedInv ==
  /\ pc \in {"save", "saveData", "selfTest", "selfTestResult", "restore", "restoreData",
             "query", "queryRead", "queryResult"} =>
       AllOff(drv.config) /\ (drv.hasSecondPort <=> port.second # "single")
  /\ pc \in {"query", "queryRead", "queryResult"} => drv.hasSecondPort

QueryInv ==
  /\ pc = "query" => Due = drv.config
  /\ pc \in {"queryRead", "queryResult"} => Due = Wired(drv.config \ {Port2ClockOff})
  /\ pc = "disableAgain" => Plain(Due) /\ Port1ClockOff \in Due

TestedInv ==
  /\ pc \in {"test1", "test1Result", "test2", "test2Result", "enable1"} => AllOff(Due)
  /\ pc = "enable2" =>
       /\ Plain(Due) /\ (Port1ClockOff \notin Due <=> Works1)
       /\ Port2ClockOff \in Due <=> port.second # "single"

EnabledInv ==
  /\ pc \in {"finalRead", "finalResult"} => Plain(Due) /\ ClocksOn(Due)
  /\ pc \in {"final", "finalData"} => AllOn(drv.config)
  /\ pc = "done" => AllOn(Due)

ConfigInv == DisabledInv /\ SavedInv /\ QueryInv /\ TestedInv /\ EnabledInv

(* What the driver has found out. *)
FoundInv ==
  /\ pc \in {"disableAgain", "test2", "test2Result"} => drv.hasSecondPort
  /\ pc \in {"disableAgain", "test1", "test1Result", "test2", "test2Result"} =>
       (drv.hasSecondPort <=> Present2)
  /\ pc \in {"restore", "restoreData", "query", "queryRead", "queryResult", "disableAgain", "test1",
             "test1Result", "test2", "test2Result"} => port.selfTest
  /\ pc \in PCs \ {"enable1", "enable2", "finalRead", "finalResult", "final", "finalData", "done",
                   "panic"} => ~drv.secondPortWorking
  /\ pc \in {"test2", "test2Result"} => (drv.firstPortWorking <=> Works1)
  /\ pc \in {"enable1", "enable2", "finalRead", "finalResult", "final", "finalData", "done"} =>
       (drv.firstPortWorking <=> Works1) /\ (drv.secondPortWorking <=> Works2)
  /\ pc = "enable1" => Works1
  /\ pc = "enable2" => Works2
  /\ pc = "panic" => ~(port.selfTest /\ (Works1 \/ Works2))

(* The clock bit of a missing port is what it is wired to. *)
WiredInv == ctl.config = Wired(ctl.config)

ControllerInv ==
  Types /\ AnswerInv /\ DataInv /\ WiredInv /\ (~sent.harmful => ConfigInv /\ FoundInv)
-----------------------------------------------------------------------------
(* The controller's operators. *)

LEMMA WiredType ==
  ASSUME Types, NEW c \in Bytes
  PROVE  Wired(c) \in Bytes /\ Wired(Wired(c)) = Wired(c)
<1>1. CASE port.second = "single"
  BY <1>1 DEF Wired, Bytes
<1>2. CASE port.second = "stuck"
  BY <1>2 DEF Wired, Bytes, Port2ClockOff
<1>3. CASE port.second \notin {"single", "stuck"}
  BY <1>3 DEF Wired
<1> QED
  BY <1>1, <1>2, <1>3

(* Only the second port's clock bit is wired. *)
LEMMA WiredBits ==
  ASSUME Types, NEW c \in Bytes
  PROVE  /\ \A b : b # Port2ClockOff => (b \in Wired(c) <=> b \in c)
         /\ port.second = "single" => Port2ClockOff \notin Wired(c)
         /\ port.second = "stuck" => Port2ClockOff \in Wired(c)
         /\ Present2 => Wired(c) = c
BY DEF Types, Wired, Bytes, Port2ClockOff, Present2

LEMMA AfterType ==
  ASSUME Types, WiredInv, NEW c
  PROVE  After(c) \in Bytes /\ Wired(After(c)) = After(c)
<1>1. ctl.config \in Bytes
  BY DEF Types
<1>2. CASE c = "DISABLE_PORT1"
  BY <1>1, <1>2 DEF After, WiredInv, Wired, Bytes, Port1ClockOff, Port2ClockOff
<1>3. CASE c = "ENABLE_PORT1"
  BY <1>1, <1>3 DEF After, WiredInv, Wired, Bytes, Port1ClockOff, Port2ClockOff
<1>4. CASE c = "DISABLE_PORT2"
  <2>1. ctl.config \cup {Port2ClockOff} \in Bytes
    BY <1>1 DEF Bytes, Port2ClockOff
  <2> QED
    BY <1>4, <2>1, WiredType DEF After
<1>5. CASE c = "ENABLE_PORT2"
  <2>1. ctl.config \ {Port2ClockOff} \in Bytes
    BY <1>1 DEF Bytes
  <2> QED
    BY <1>5, <2>1, WiredType DEF After
<1>6. CASE c \notin {"DISABLE_PORT1", "ENABLE_PORT1", "DISABLE_PORT2", "ENABLE_PORT2"}
  BY <1>1, <1>6 DEF After, WiredInv
<1> QED
  BY <1>2, <1>3, <1>4, <1>5, <1>6

(* Only the self test leaves the controller a choice. *)
LEMMA ConfiguredIsAfter ==
  ASSUME NEW c, c # "SELFTEST"
  PROVE  Configured(c) = {After(c)}
BY DEF Configured, After

LEMMA ConfiguredType ==
  ASSUME Types, WiredInv, NEW c, NEW config \in Configured(c)
  PROVE  config \in Bytes /\ Wired(config) = config
<1>1. CASE c = "SELFTEST"
  <2>1. config = ctl.config \/ \E r \in ResetConfigs : config = Wired(r)
    BY <1>1 DEF Configured
  <2> QED
    BY <2>1, WiredType, ControllerAssumption DEF Types, WiredInv
<1>2. CASE c # "SELFTEST"
  BY <1>2, ConfiguredIsAfter, AfterType
<1> QED
  BY <1>1, <1>2

LEMMA AnswersType ==
  ASSUME Types, NEW c
  PROVE  /\ Answers(c) \in SUBSET Bytes
         /\ Answers(c) = {} <=> c \notin Asking
<1>1. ctl.config \in Bytes /\ SelfTestPassed \in Bytes /\ PortTestPassed \in Bytes
  BY DEF Types, Bytes, SelfTestPassed, PortTestPassed
<1>2. {{2, 3, 4, 5, 6, 7}} \in SUBSET Bytes /\ {{0}, {1}} \in SUBSET Bytes
  BY DEF Bytes
<1>3. CASE c = "READ_CONFIG"
  BY <1>1, <1>3 DEF Answers, Asking
<1>4. CASE c = "SELFTEST"
  BY <1>1, <1>2, <1>4 DEF Answers, Asking
<1>5. CASE c = "TEST_PORT1"
  BY <1>1, <1>2, <1>5 DEF Answers, Asking
<1>6. CASE c = "TEST_PORT2"
  BY <1>1, <1>2, <1>6 DEF Answers, Asking
<1>7. CASE c \notin Asking
  BY <1>7 DEF Answers, Asking
<1> QED
  BY <1>3, <1>4, <1>5, <1>6, <1>7 DEF Asking

LEMMA EmptyIsTyped == Empty \in Inputs /\ Empty \in Outputs /\ Empty.by = "nobody"
BY DEF Empty, Inputs, Outputs

LEMMA InputCases ==
  ASSUME Types
  PROVE  \/ ctl.in = Empty
         \/ /\ ctl.in.by = "command" /\ ctl.in.value \in Commands
            /\ ctl.in = Command(ctl.in.value) /\ ctl.in # Empty
         \/ ctl.in.by = "data" /\ ctl.in.value \in Bytes /\ ctl.in # Empty
<1>1. ctl.in \in Inputs
  BY DEF Types
<1> QED
  BY <1>1 DEF Inputs, Command, Empty

LEMMA CommandType ==
  ASSUME NEW c \in Commands
  PROVE  /\ Command(c) \in Inputs /\ Command(c) # Empty
         /\ Command(c).by = "command" /\ Command(c).value = c
BY DEF Command, Inputs, Empty
-----------------------------------------------------------------------------
(* The steps of the controller. *)

LEMMA AnswerToDomain ==
  /\ DOMAIN AnswerTo = Waits
  /\ \A w \in Waits : AnswerTo[w] \in Asking
  /\ \A w \in Waits : AnswerTo[w] = "SELFTEST" => w = "selfTestResult"
BY DEF AnswerTo, Waits, Asking

(* What the driver knows is about the configuration to come. *)
LEMMA ConfigStable ==
  ASSUME UNCHANGED <<pc, drv, port>>, Due' = Due \/ pc = "selfTestResult",
         ConfigInv /\ FoundInv
  PROVE  ConfigInv' /\ FoundInv'
<1>1. FoundInv'
  BY DEF FoundInv, Works1, Works2, Present2
<1>2. pc' = pc /\ drv' = drv /\ port' = port
  OBVIOUS
<1>3. SavedInv'
  BY <1>2 DEF ConfigInv, SavedInv, AllOff, Plain
<1>4. CASE Due' = Due
  <2>1. DisabledInv'
    BY <1>2, <1>4 DEF ConfigInv, DisabledInv
  <2>2. QueryInv'
    <3>1. Wired(drv.config \ {Port2ClockOff})' = Wired(drv.config \ {Port2ClockOff})
      BY <1>2 DEF Wired
    <3> QED
      BY <1>2, <1>4, <3>1 DEF ConfigInv, QueryInv, Plain
  <2>3. TestedInv'
    BY <1>2, <1>4 DEF ConfigInv, TestedInv, AllOff, Plain, Works1
  <2>4. EnabledInv'
    BY <1>2, <1>4 DEF ConfigInv, EnabledInv, ClocksOn, AllOn, Plain, Works1, Works2
  <2> QED
    BY <1>1, <1>3, <2>1, <2>2, <2>3, <2>4 DEF ConfigInv
<1>5. CASE pc = "selfTestResult"
  BY <1>1, <1>2, <1>3, <1>5 DEF ConfigInv, DisabledInv, QueryInv, TestedInv, EnabledInv
<1> QED
  BY <1>4, <1>5

LEMMA ProcessCommandKeeps == ControllerInv /\ ProcessCommand => ControllerInv'
<1> SUFFICES ASSUME ControllerInv, ProcessCommand PROVE ControllerInv'
  OBVIOUS
<1> DEFINE command == ctl.in.value
           answers == {[by |-> command, value |-> a] : a \in Answers(command)}
<1>1. /\ ctl.in.by = "command" /\ ctl.answer = Empty /\ ~ctl.receiving
      /\ UNCHANGED <<pc, drv, port, sent>>
  BY DEF ProcessCommand, AtRest
<1>2. PICK config \in Configured(command),
           answer \in (IF answers = {} THEN {Empty} ELSE answers) :
        ctl' = [ctl EXCEPT !.in = Empty, !.answer = answer, !.config = config,
                           !.data = IF command = "WRITE_CONFIG" THEN "CONFIG" ELSE "DEVICE"]
  BY DEF ProcessCommand
<1>3. Types /\ WiredInv
  BY DEF ControllerInv
<1>4. command \in Commands /\ ctl.in = Command(command)
  BY <1>1, <1>3, InputCases, EmptyIsTyped
<1>5. config \in Bytes /\ Wired(config) = config
  BY <1>3, ConfiguredType
<1>6. \/ command \notin Asking /\ answer = Empty
      \/ /\ command \in Asking
         /\ \E a \in Answers(command) : answer = [by |-> command, value |-> a]
  BY <1>3, AnswersType
<1>7. answer \in Outputs
  BY <1>3, <1>6, AnswersType, EmptyIsTyped DEF Outputs
<1> HIDE DEF command, answers
<1>8. /\ ctl'.in = Empty /\ ctl'.answer = answer /\ ctl'.config = config
      /\ ctl'.out = ctl.out
      /\ ctl'.data = IF command = "WRITE_CONFIG" THEN "CONFIG" ELSE "DEVICE"
  BY <1>2, <1>3 DEF Types
<1>9. Types'
  BY <1>1, <1>2, <1>3, <1>5, <1>7, EmptyIsTyped DEF Types
<1>10. WiredInv'
  BY <1>1, <1>5, <1>8 DEF WiredInv, Wired
<1>11. DataInv'
  BY <1>1, <1>4, <1>8, EmptyIsTyped, CommandType DEF ControllerInv, DataInv, command,
     Commands, Silent
<1>12. AnswerInv'
  <2> SUFFICES ASSUME ~sent.harmful PROVE AnswerInv'
    BY <1>1 DEF AnswerInv
  <2>1. CASE pc \in Waits
    <3>1. ctl.in # Empty
      BY <1>4, CommandType
    <3>2. ctl.in = Command(AnswerTo[pc]) /\ ctl.out = Empty
      BY <2>1, <3>1 DEF ControllerInv, AnswerInv, Asked
    <3>3. command = AnswerTo[pc]
      BY <2>1, <3>2, AnswerToDomain, CommandType DEF command, Commands
    <3>4. command \in Asking
      BY <2>1, <3>3, AnswerToDomain
    <3>5. PICK q \in Asking : q = command
      BY <3>4
    <3>6. PICK a \in Answers(q) : answer = [by |-> q, value |-> a]
      BY <1>6, <3>5
    <3>7. a \in Answers(q)'
      <4>1. q = "READ_CONFIG" => config = ctl.config
        BY <3>5 DEF Configured, command
      <4> QED
        BY <1>1, <1>8, <4>1 DEF Answers, Asking
    <3>8. Asked(q)'
      BY <1>8, <3>2, <3>6, <3>7 DEF Asked
    <3>9. Asked(AnswerTo[pc])'
      <4>1. q = AnswerTo[pc]'
        BY <1>1, <3>3, <3>5 DEF AnswerTo
      <4> QED
        BY <3>8, <4>1 DEF Asked, Answers, Command
    <3> QED
      BY <1>1, <2>1, <3>9 DEF AnswerInv
  <2>2. CASE pc \notin Waits
    <3>1. command \in Silent
      BY <1>1, <2>2 DEF ControllerInv, AnswerInv, command
    <3>2. answer = Empty
      BY <1>6, <3>1 DEF Silent, Asking
    <3> QED
      BY <1>1, <1>8, <2>2, <3>2, EmptyIsTyped DEF ControllerInv, AnswerInv
  <2> QED
    BY <2>1, <2>2
<1>13. ~sent.harmful => ConfigInv' /\ FoundInv'
  <2> SUFFICES ASSUME ~sent.harmful PROVE ConfigInv' /\ FoundInv'
    OBVIOUS
  <2>1. CASE command = "SELFTEST"
    <3>1. pc \in Waits
      BY <1>1, <2>1 DEF ControllerInv, AnswerInv, command, Silent
    <3>2. ctl.in # Empty
      BY <1>4, CommandType
    <3>3. ctl.in = Command(AnswerTo[pc])
      BY <3>1, <3>2 DEF ControllerInv, AnswerInv, Asked
    <3>4. AnswerTo[pc] = "SELFTEST"
      BY <2>1, <3>1, <3>3, AnswerToDomain, CommandType DEF command, Commands
    <3>5. pc = "selfTestResult"
      BY <3>1, <3>4, AnswerToDomain
    <3> QED
      BY <1>1, <3>5, ConfigStable DEF ControllerInv
  <2>2. CASE command # "SELFTEST"
    <3>1. config = After(command)
      BY <2>2, ConfiguredIsAfter DEF command
    <3>2. Due' = Due
      BY <1>1, <1>8, <3>1, EmptyIsTyped DEF Due, command
    <3> QED
      BY <1>1, <3>2, ConfigStable DEF ControllerInv
  <2> QED
    BY <2>1, <2>2
<1> QED
  BY <1>1, <1>9, <1>10, <1>11, <1>12, <1>13 DEF ControllerInv

LEMMA ProcessDataKeeps == ControllerInv /\ ProcessData => ControllerInv'
<1> SUFFICES ASSUME ControllerInv, ProcessData PROVE ControllerInv'
  OBVIOUS
<1>1. /\ ctl.in.by = "data" /\ ctl.data = "CONFIG"
      /\ ctl' = [ctl EXCEPT !.in = Empty, !.data = "DEVICE", !.config = Wired(ctl.in.value)]
      /\ pc \in {"selfTest", "query", "test1", "done"}
      /\ UNCHANGED <<pc, drv, port, sent>>
  BY DEF ProcessData, ControllerInv, DataInv
<1>2. Types /\ ctl.in.value \in Bytes
  BY <1>1, InputCases, EmptyIsTyped DEF ControllerInv
<1>3. /\ Wired(ctl.in.value) \in Bytes
      /\ Wired(Wired(ctl.in.value)) = Wired(ctl.in.value)
  BY <1>2, WiredType
<1>4. /\ ctl'.in = Empty /\ ctl'.config = Wired(ctl.in.value)
      /\ ctl'.answer = ctl.answer /\ ctl'.out = ctl.out
  BY <1>1, <1>2 DEF Types
<1>5. Types'
  BY <1>1, <1>2, <1>3, EmptyIsTyped DEF Types
<1>6. WiredInv'
  BY <1>1, <1>3, <1>4 DEF WiredInv, Wired
<1>7. DataInv'
  BY <1>1, <1>4, EmptyIsTyped DEF DataInv
<1>8. pc \notin Waits
  BY <1>1 DEF Waits
<1>9. AnswerInv'
  BY <1>1, <1>4, <1>8, EmptyIsTyped DEF ControllerInv, AnswerInv
<1>10. Due' = Due
  BY <1>1, <1>4, EmptyIsTyped DEF Due
<1> QED
  BY <1>1, <1>5, <1>6, <1>7, <1>9, <1>10, ConfigStable DEF ControllerInv

LEMMA DeliverAnswerKeeps == ControllerInv /\ DeliverAnswer => ControllerInv'
<1> SUFFICES ASSUME ControllerInv, DeliverAnswer PROVE ControllerInv'
  OBVIOUS
<1>1. /\ ctl.answer # Empty /\ ctl.out = Empty
      /\ ctl' = [ctl EXCEPT !.out = ctl.answer, !.answer = Empty]
      /\ UNCHANGED <<pc, drv, port, sent>>
  BY DEF DeliverAnswer, Ready
<1>2. Types'
  BY <1>1, EmptyIsTyped DEF ControllerInv, Types
<1>3. /\ ctl'.out = ctl.answer /\ ctl'.answer = Empty /\ ctl'.in = ctl.in
      /\ ctl'.config = ctl.config /\ ctl'.data = ctl.data
  BY <1>1 DEF ControllerInv, Types
<1>4. WiredInv' /\ DataInv'
  BY <1>1, <1>3 DEF ControllerInv, WiredInv, Wired, DataInv
<1>5. AnswerInv'
  <2> SUFFICES ASSUME ~sent.harmful PROVE AnswerInv'
    BY <1>1 DEF AnswerInv
  <2>1. pc \in Waits
    BY <1>1 DEF ControllerInv, AnswerInv
  <2>2. /\ ctl.in = Empty /\ ctl.answer.by = AnswerTo[pc]
        /\ ctl.answer.value \in Answers(AnswerTo[pc])
    BY <1>1, <2>1 DEF ControllerInv, AnswerInv, Asked
  <2>3. Answers(AnswerTo[pc])' = Answers(AnswerTo[pc])
    BY <1>1, <1>3 DEF Answers, AnswerTo
  <2>4. Asked(AnswerTo[pc])'
    BY <1>1, <1>3, <2>2, <2>3 DEF Asked, AnswerTo
  <2> QED
    BY <1>1, <2>1, <2>4 DEF AnswerInv
<1>6. Due' = Due
  BY <1>1, <1>3 DEF Due, After, Wired
<1> QED
  BY <1>1, <1>2, <1>4, <1>5, <1>6, ConfigStable DEF ControllerInv

LEMMA DeviceSendsKeeps == ControllerInv /\ DeviceSends => ControllerInv'
<1> SUFFICES ASSUME ControllerInv, DeviceSends PROVE ControllerInv'
  OBVIOUS
<1>1. /\ ctl' = [ctl EXCEPT !.receiving = TRUE]
      /\ UNCHANGED <<pc, drv, port, sent>>
  BY DEF DeviceSends
<1>2. Types'
  BY <1>1 DEF ControllerInv, Types
<1>3. /\ ctl'.out = ctl.out /\ ctl'.answer = ctl.answer /\ ctl'.in = ctl.in
      /\ ctl'.config = ctl.config /\ ctl'.data = ctl.data
  BY <1>1 DEF ControllerInv, Types
<1>4. WiredInv' /\ DataInv'
  BY <1>1, <1>3 DEF ControllerInv, WiredInv, Wired, DataInv
<1>5. AnswerInv'
  BY <1>1, <1>3 DEF ControllerInv, AnswerInv, Asked, Answers, AnswerTo
<1>6. Due' = Due
  BY <1>1, <1>3 DEF Due, After, Wired
<1> QED
  BY <1>1, <1>2, <1>4, <1>5, <1>6, ConfigStable DEF ControllerInv

LEMMA ReceiveByteKeeps == ControllerInv /\ ReceiveByte => ControllerInv'
<1> SUFFICES ASSUME ControllerInv, ReceiveByte PROVE ControllerInv'
  OBVIOUS
<1>1. PICK b \in DeviceBytes :
        ctl' = [ctl EXCEPT !.out = [by |-> "device", value |-> b], !.receiving = FALSE]
  BY DEF ReceiveByte
<1>2. /\ sent' = [n |-> sent.n + 1, harmful |-> sent.harmful \/ pc \notin NoAnswerToCome]
      /\ UNCHANGED <<pc, drv, port>>
  BY DEF ReceiveByte
<1>3. [by |-> "device", value |-> b] \in Outputs
  BY ControllerAssumption DEF Outputs
<1>4. sent' \in [n : Nat, harmful : BOOLEAN]
  BY <1>2 DEF ControllerInv, Types
<1>5. Types'
  BY <1>1, <1>2, <1>3, <1>4 DEF ControllerInv, Types
<1>6. /\ ctl'.answer = ctl.answer /\ ctl'.in = ctl.in
      /\ ctl'.config = ctl.config /\ ctl'.data = ctl.data
  BY <1>1 DEF ControllerInv, Types
<1>7. WiredInv' /\ DataInv'
  BY <1>2, <1>6 DEF ControllerInv, WiredInv, Wired, DataInv
<1>8. ~sent'.harmful => ~sent.harmful /\ pc \in NoAnswerToCome /\ pc \notin Waits
  BY <1>2 DEF NoAnswerToCome, Waits
<1>9. AnswerInv'
  BY <1>2, <1>6, <1>8 DEF ControllerInv, AnswerInv
<1>10. Due' = Due
  BY <1>2, <1>6 DEF Due, After, Wired
<1> QED
  BY <1>2, <1>5, <1>7, <1>8, <1>9, <1>10, ConfigStable DEF ControllerInv
-----------------------------------------------------------------------------
(* The kinds of steps the driver takes. *)

Announcing == {"saveData", "restoreData", "finalData"}

(* All of the invariant but what is known at each stage. *)
BaseInv == Types /\ AnswerInv /\ DataInv /\ WiredInv

LEMMA WriteCommandKeeps ==
  ASSUME BaseInv, NEW from \in PCs \ Waits, NEW c \in Commands, NEW to \in PCs,
         WritePS2Command(from, c, to),
         c \in Asking => to \in Waits /\ AnswerTo[to] = c /\ from \notin NoAnswerToCome,
         c \in Silent => to \notin Waits /\ (from \in NoAnswerToCome => to \in NoAnswerToCome),
         to \in Announcing => c = "WRITE_CONFIG"
  PROVE  /\ BaseInv'
         /\ Due = ctl.config /\ Due' = After(c) /\ Due \in Bytes
         /\ pc = from /\ pc' = to /\ drv' = drv /\ port' = port /\ sent' = sent
<1>1. /\ pc = from /\ pc' = to /\ ctl.in = Empty
      /\ ctl' = [ctl EXCEPT !.in = Command(c)]
      /\ drv' = drv /\ port' = port /\ sent' = sent
  BY DEF WritePS2Command, Busy, Command
<1>2. /\ Command(c) \in Inputs /\ Command(c) # Empty
      /\ Command(c).by = "command" /\ Command(c).value = c
  BY CommandType
<1>3. Types'
  BY <1>1, <1>2 DEF BaseInv, Types
<1>4. /\ ctl'.in = Command(c) /\ ctl'.out = ctl.out /\ ctl'.answer = ctl.answer
      /\ ctl'.config = ctl.config /\ ctl'.data = ctl.data
  BY <1>1 DEF BaseInv, Types
<1>5. WiredInv'
  BY <1>1, <1>4 DEF BaseInv, WiredInv, Wired
<1>6. DataInv'
  BY <1>1, <1>2, <1>4 DEF DataInv, Announcing
<1>7. AnswerInv'
  <2> SUFFICES ASSUME ~sent.harmful PROVE AnswerInv'
    BY <1>1 DEF AnswerInv
  <2>1. ctl.answer = Empty /\ (from \notin NoAnswerToCome => ctl.out = Empty)
    BY <1>1 DEF BaseInv, AnswerInv
  <2>2. CASE c \in Asking
    <3>1. Asked(c)'
      BY <1>4, <2>1, <2>2 DEF Asked
    <3>2. Asked(AnswerTo[pc])'
      BY <1>1, <2>2, <3>1 DEF Asked, Answers, AnswerTo
    <3> QED
      BY <1>1, <2>2, <3>2 DEF AnswerInv
  <2>3. CASE c \in Silent
    BY <1>1, <1>2, <1>4, <2>1, <2>3 DEF AnswerInv
  <2> QED
    BY <2>2, <2>3 DEF Commands
<1>8. Due = ctl.config /\ Due \in Bytes
  BY <1>1, EmptyIsTyped DEF Due, BaseInv, Types
<1>9. Due' = After(c)
  BY <1>1, <1>2, <1>4 DEF Due, After, Wired
<1> QED
  BY <1>1, <1>3, <1>5, <1>6, <1>7, <1>8, <1>9 DEF BaseInv

LEMMA WriteDataKeeps ==
  ASSUME BaseInv, NEW from \in Announcing, NEW to \in {"selfTest", "query", "test1", "done"},
         WriteConfigData(from, to), from = "finalData" => to = "done"
  PROVE  /\ BaseInv'
         /\ Due' = Wired(drv.config) /\ drv.config \in Bytes
         /\ pc = from /\ pc' = to /\ drv' = drv /\ port' = port /\ sent' = sent
<1> DEFINE item == [by |-> "data", value |-> drv.config]
<1>1. /\ pc = from /\ pc' = to /\ ctl.in = Empty
      /\ ctl' = [ctl EXCEPT !.in = item]
      /\ drv' = drv /\ port' = port /\ sent' = sent
  BY DEF WriteConfigData, Busy
<1>2. drv.config \in Bytes
  BY DEF BaseInv, Types, Drivers
<1>3. item \in Inputs /\ item.by = "data" /\ item.value = drv.config
  BY <1>2 DEF Inputs
<1> HIDE DEF item
<1>4. ctl.data = "CONFIG"
  BY <1>1, CommandType DEF BaseInv, DataInv, Announcing, Commands, Silent
<1>5. Types'
  BY <1>1, <1>3 DEF BaseInv, Types, PCs
<1>6. /\ ctl'.in = item /\ ctl'.out = ctl.out /\ ctl'.answer = ctl.answer
      /\ ctl'.config = ctl.config /\ ctl'.data = ctl.data
  BY <1>1 DEF BaseInv, Types
<1>7. WiredInv'
  BY <1>1, <1>6 DEF BaseInv, WiredInv, Wired
<1>8. DataInv'
  BY <1>1, <1>3, <1>4, <1>6 DEF DataInv
<1>9. AnswerInv'
  BY <1>1, <1>3, <1>6 DEF BaseInv, AnswerInv, Waits, Announcing, NoAnswerToCome
<1>10. Due' = Wired(drv.config)
  BY <1>1, <1>3, <1>4, <1>6 DEF Due, Wired
<1> QED
  BY <1>1, <1>2, <1>5, <1>7, <1>8, <1>9, <1>10 DEF BaseInv

LEMMA ReadAnswerKeeps ==
  ASSUME BaseInv, NEW from \in Waits, ReadAnswer(from),
         pc' \in PCs \ (Waits \cup Announcing),
         drv' \in Drivers
  PROVE  /\ BaseInv'
         /\ pc = from /\ port' = port /\ sent' = sent
         /\ ~sent.harmful => /\ ctl.out.value \in Answers(AnswerTo[from])
                             /\ Due = ctl.config /\ Due' = Due /\ Due \in Bytes
<1>1. /\ pc = from /\ ctl.out # Empty
      /\ ctl' = [ctl EXCEPT !.out = Empty]
      /\ port' = port /\ sent' = sent
  BY DEF ReadAnswer, Ready
<1>2. Types'
  BY <1>1, EmptyIsTyped DEF BaseInv, Types
<1>3. /\ ctl'.in = ctl.in /\ ctl'.out = Empty /\ ctl'.answer = ctl.answer
      /\ ctl'.config = ctl.config /\ ctl'.data = ctl.data
  BY <1>1 DEF BaseInv, Types
<1>4. WiredInv'
  BY <1>1, <1>3 DEF BaseInv, WiredInv, Wired
<1>5. ctl.in.by # "data"
  BY <1>1 DEF BaseInv, DataInv, Waits
<1>6. DataInv'
  BY <1>3, <1>5 DEF DataInv, Announcing
<1>7. ~sent.harmful => /\ ctl.in = Empty /\ ctl.answer = Empty
                       /\ ctl.out.value \in Answers(AnswerTo[from])
  BY <1>1 DEF BaseInv, AnswerInv, Asked
<1>8. AnswerInv'
  BY <1>1, <1>3, <1>7, EmptyIsTyped DEF AnswerInv
<1>9. ~sent.harmful => Due = ctl.config /\ Due' = Due
  BY <1>1, <1>3, <1>7, EmptyIsTyped DEF Due
<1> QED
  BY <1>1, <1>2, <1>4, <1>6, <1>7, <1>8, <1>9 DEF BaseInv, Types

LEMMA ReadValueType ==
  ASSUME BaseInv, NEW from, ReadAnswer(from)
  PROVE  ctl.out.value \in Bytes
<1>1. ctl.out \in Outputs /\ ctl.out # Empty
  BY DEF BaseInv, Types, ReadAnswer, Ready
<1> QED
  BY <1>1 DEF Outputs

(* A comparison stored in the driver's state. *)
LEMMA DriverFields ==
  ASSUME NEW d \in Drivers, NEW c \in Bytes, NEW P \in BOOLEAN
  PROVE  /\ [d EXCEPT !.hasSecondPort = P, !.config = c] \in Drivers
         /\ [d EXCEPT !.config = c, !.hasSecondPort = P] \in Drivers
         /\ [d EXCEPT !.firstPortWorking = P] \in Drivers
         /\ [d EXCEPT !.secondPortWorking = P] \in Drivers
         /\ [d EXCEPT !.config = c] \in Drivers
BY DEF Drivers

-----------------------------------------------------------------------------
(* The steps of the driver. *)

LEMMA DisableDevicesKeeps == ControllerInv /\ DisableDevices => ControllerInv'
<1> SUFFICES ASSUME ControllerInv, DisableDevices PROVE ControllerInv'
  OBVIOUS
<1> USE DEF Port1Interrupt, Port2Interrupt, Port1ClockOff, Port2ClockOff, Translation
<1>1. BaseInv /\ Types /\ (~sent.harmful => ConfigInv /\ FoundInv)
  BY DEF ControllerInv, BaseInv
<1>2. CASE WritePS2Command("disable1", "DISABLE_PORT1", "disable2")
  <2>1. /\ BaseInv'
        /\ Due = ctl.config /\ Due' = After("DISABLE_PORT1") /\ Due \in Bytes
        /\ pc = "disable1" /\ pc' = "disable2" /\ drv' = drv /\ port' = port /\ sent' = sent
    BY <1>1, <1>2, WriteCommandKeeps DEF PCs, Waits, Commands, Asking, Silent,
       NoAnswerToCome, Announcing, AnswerTo
  <2>2. Due' = ctl.config \cup {Port1ClockOff}
    BY <2>1 DEF After
  <2>3. ~sent.harmful => ConfigInv' /\ FoundInv'
    BY <1>1, <2>1, <2>2 DEF Types, BaseInv, ConfigInv, DisabledInv, SavedInv, QueryInv,
       TestedInv, EnabledInv, FoundInv, PCs, Waits, AllOff, AllOn, ClocksOn, Plain,
       Works1, Works2, Present2
  <2> QED
    BY <2>1, <2>3 DEF ControllerInv, BaseInv
<1>3. CASE WritePS2Command("disable2", "DISABLE_PORT2", "discard")
  <2>1. /\ BaseInv'
        /\ Due = ctl.config /\ Due' = After("DISABLE_PORT2") /\ Due \in Bytes
        /\ pc = "disable2" /\ pc' = "discard" /\ drv' = drv /\ port' = port /\ sent' = sent
    BY <1>1, <1>3, WriteCommandKeeps DEF PCs, Waits, Commands, Asking, Silent,
       NoAnswerToCome, Announcing, AnswerTo
  <2>2. ctl.config \cup {Port2ClockOff} \in Bytes
    BY <2>1 DEF Bytes, Port2ClockOff
  <2>3. Due' = Wired(ctl.config \cup {Port2ClockOff})
    BY <2>1 DEF After
  <2>4. /\ \A b : b # Port2ClockOff => (b \in Due' <=> b \in ctl.config)
        /\ port.second = "single" => Port2ClockOff \notin Due'
        /\ port.second = "stuck" => Port2ClockOff \in Due'
        /\ Present2 => Due' = ctl.config \cup {Port2ClockOff}
    BY <1>1, <2>2, <2>3, WiredBits DEF BaseInv
  <2>5. ~sent.harmful => ConfigInv' /\ FoundInv'
    BY <1>1, <2>1, <2>4 DEF Types, BaseInv, ConfigInv, DisabledInv, SavedInv, QueryInv,
       TestedInv, EnabledInv, FoundInv, PCs, Waits, AllOff, AllOn, ClocksOn, Plain,
       Works1, Works2, Present2
  <2> QED
    BY <2>1, <2>5 DEF ControllerInv, BaseInv
<1> QED
  BY <1>2, <1>3 DEF DisableDevices

LEMMA DiscardDataPortKeeps == ControllerInv /\ DiscardDataPort => ControllerInv'
<1> SUFFICES ASSUME ControllerInv, DiscardDataPort PROVE ControllerInv'
  OBVIOUS
<1>1. /\ pc = "discard" /\ pc' = "read" /\ ctl' = [ctl EXCEPT !.out = Empty]
      /\ drv' = drv /\ port' = port /\ sent' = sent
  BY DEF DiscardDataPort
<1>2. Types'
  BY <1>1, EmptyIsTyped DEF ControllerInv, Types, PCs
<1>3. /\ ctl'.in = ctl.in /\ ctl'.out = Empty /\ ctl'.answer = ctl.answer
      /\ ctl'.config = ctl.config /\ ctl'.data = ctl.data
  BY <1>1 DEF ControllerInv, Types
<1>4. WiredInv' /\ DataInv'
  BY <1>1, <1>3 DEF ControllerInv, WiredInv, Wired, DataInv
<1>5. AnswerInv'
  BY <1>1, <1>3 DEF ControllerInv, AnswerInv, Waits
<1>6. Due' = Due
  BY <1>1, <1>3 DEF Due, After, Wired
<1>7. ~sent.harmful => ConfigInv' /\ FoundInv'
  BY <1>1, <1>6 DEF ControllerInv, ConfigInv, DisabledInv, SavedInv, QueryInv, TestedInv,
     EnabledInv, FoundInv, PCs, Waits
<1> QED
  BY <1>1, <1>2, <1>4, <1>5, <1>7 DEF ControllerInv

LEMMA RetrieveConfigKeeps == ControllerInv /\ RetrieveConfig => ControllerInv'
<1> SUFFICES ASSUME ControllerInv, RetrieveConfig PROVE ControllerInv'
  OBVIOUS
<1> USE DEF Port1Interrupt, Port2Interrupt, Port1ClockOff, Port2ClockOff, Translation
<1>1. BaseInv /\ Types /\ (~sent.harmful => ConfigInv /\ FoundInv)
  BY DEF ControllerInv, BaseInv
<1>2. CASE WritePS2Command("read", "READ_CONFIG", "config")
  <2>1. /\ BaseInv'
        /\ Due = ctl.config /\ Due' = After("READ_CONFIG") /\ Due \in Bytes
        /\ pc = "read" /\ pc' = "config" /\ drv' = drv /\ port' = port /\ sent' = sent
    BY <1>1, <1>2, WriteCommandKeeps DEF PCs, Waits, Commands, Asking, Silent,
       NoAnswerToCome, Announcing, AnswerTo
  <2>2. Due' = ctl.config
    BY <2>1 DEF After
  <2>3. ~sent.harmful => ConfigInv' /\ FoundInv'
    BY <1>1, <2>1, <2>2 DEF Types, BaseInv, ConfigInv, DisabledInv, SavedInv, QueryInv,
       TestedInv, EnabledInv, FoundInv, PCs, Waits, AllOff, AllOn, ClocksOn, Plain,
       Works1, Works2, Present2
  <2> QED
    BY <2>1, <2>3 DEF ControllerInv, BaseInv
<1> QED
  BY <1>2 DEF RetrieveConfig

LEMMA ModifyConfigKeeps == ControllerInv /\ ModifyConfig => ControllerInv'
<1> SUFFICES ASSUME ControllerInv, ModifyConfig PROVE ControllerInv'
  OBVIOUS
<1> USE DEF Port1Interrupt, Port2Interrupt, Port1ClockOff, Port2ClockOff, Translation
<1>1. BaseInv /\ Types /\ (~sent.harmful => ConfigInv /\ FoundInv)
  BY DEF ControllerInv, BaseInv
<1>2. CASE ModifyConfig
  <2>1. ctl.out.value \in Bytes
    BY <1>1, <1>2, ReadValueType DEF ModifyConfig
  <2>2. drv' \in Drivers
    <3>1. /\ drv \in Drivers /\ ctl.out.value \ {Port1Interrupt, Port2Interrupt, Translation} \in Bytes
          /\ (Port2ClockOff \in ctl.out.value) \in BOOLEAN
      BY <1>1, <2>1 DEF Types, Bytes
    <3>2. drv' = [drv EXCEPT !.hasSecondPort = Port2ClockOff \in ctl.out.value,
                            !.config = ctl.out.value \ {Port1Interrupt, Port2Interrupt, Translation}]
      BY <1>2 DEF ModifyConfig
    <3> QED
      BY <3>1, <3>2, DriverFields, Zenon
  <2>3. pc' \in {"save"}
    BY <1>2, <2>2 DEF AfterTests, ModifyConfig
  <2>4. /\ BaseInv' /\ pc = "config" /\ port' = port /\ sent' = sent
        /\ ~sent.harmful => /\ ctl.out.value \in Answers("READ_CONFIG")
                            /\ Due = ctl.config /\ Due' = Due /\ Due \in Bytes
    BY <1>1, <1>2, <2>2, <2>3, ReadAnswerKeeps DEF PCs, Waits, Announcing, AnswerTo,
       ModifyConfig
  <2>5. ~sent.harmful => ConfigInv' /\ FoundInv'
    <3> SUFFICES ASSUME ~sent.harmful PROVE ConfigInv' /\ FoundInv'
      OBVIOUS
    <3>1. ctl.out.value = ctl.config /\ Due = ctl.config
      BY <2>4 DEF Answers
    <3>2. /\ drv'.hasSecondPort <=> Port2ClockOff \in ctl.config
          /\ drv'.config = ctl.config \ {Port1Interrupt, Port2Interrupt, Translation}
          /\ drv'.secondPortWorking = drv.secondPortWorking
      BY <1>1, <3>1 DEF Types, Drivers, ModifyConfig
    <3> QED
      BY <1>1, <2>3, <2>4, <3>1, <3>2 DEF ConfigInv, DisabledInv, SavedInv, QueryInv,
         TestedInv, EnabledInv, FoundInv, PCs, Waits, AllOff, Plain
  <2> QED
    BY <2>4, <2>5 DEF ControllerInv, BaseInv
<1> QED
  BY <1>2 DEF ModifyConfig

LEMMA SaveConfigKeeps == ControllerInv /\ SaveConfig => ControllerInv'
<1> SUFFICES ASSUME ControllerInv, SaveConfig PROVE ControllerInv'
  OBVIOUS
<1> USE DEF Port1Interrupt, Port2Interrupt, Port1ClockOff, Port2ClockOff, Translation
<1>1. BaseInv /\ Types /\ (~sent.harmful => ConfigInv /\ FoundInv)
  BY DEF ControllerInv, BaseInv
<1>2. CASE WritePS2Command("save", "WRITE_CONFIG", "saveData")
  <2>1. /\ BaseInv'
        /\ Due = ctl.config /\ Due' = After("WRITE_CONFIG") /\ Due \in Bytes
        /\ pc = "save" /\ pc' = "saveData" /\ drv' = drv /\ port' = port /\ sent' = sent
    BY <1>1, <1>2, WriteCommandKeeps DEF PCs, Waits, Commands, Asking, Silent,
       NoAnswerToCome, Announcing, AnswerTo
  <2>2. Due' = ctl.config
    BY <2>1 DEF After
  <2>3. ~sent.harmful => ConfigInv' /\ FoundInv'
    BY <1>1, <2>1, <2>2 DEF Types, BaseInv, ConfigInv, DisabledInv, SavedInv, QueryInv,
       TestedInv, EnabledInv, FoundInv, PCs, Waits, AllOff, AllOn, ClocksOn, Plain,
       Works1, Works2, Present2
  <2> QED
    BY <2>1, <2>3 DEF ControllerInv, BaseInv
<1>3. CASE WriteConfigData("saveData", "selfTest")
  <2>1. /\ BaseInv' /\ Due' = Wired(drv.config) /\ drv.config \in Bytes
        /\ pc = "saveData" /\ pc' = "selfTest" /\ drv' = drv /\ port' = port /\ sent' = sent
    BY <1>1, <1>3, WriteDataKeeps DEF Announcing
  <2>2. /\ \A b : b # Port2ClockOff => (b \in Due' <=> b \in drv.config)
        /\ port.second = "single" => Port2ClockOff \notin Due'
        /\ port.second = "stuck" => Due' = drv.config \cup {Port2ClockOff}
        /\ Present2 => Due' = drv.config
    BY <1>1, <2>1 DEF Types, Wired, Present2
  <2>3. ~sent.harmful => ConfigInv' /\ FoundInv'
    BY <1>1, <2>1, <2>2 DEF Types, ConfigInv, DisabledInv, SavedInv, QueryInv, TestedInv,
       EnabledInv, FoundInv, PCs, Waits, AllOff, AllOn, ClocksOn, Plain, Works1, Works2,
       Present2
  <2> QED
    BY <2>1, <2>3 DEF ControllerInv, BaseInv
<1> QED
  BY <1>2, <1>3 DEF SaveConfig

LEMMA PerformPS2SelfTestKeeps == ControllerInv /\ PerformPS2SelfTest => ControllerInv'
<1> SUFFICES ASSUME ControllerInv, PerformPS2SelfTest PROVE ControllerInv'
  OBVIOUS
<1> USE DEF Port1Interrupt, Port2Interrupt, Port1ClockOff, Port2ClockOff, Translation
<1>1. BaseInv /\ Types /\ (~sent.harmful => ConfigInv /\ FoundInv)
  BY DEF ControllerInv, BaseInv
<1>2. CASE WritePS2Command("selfTest", "SELFTEST", "selfTestResult")
  <2>1. /\ BaseInv'
        /\ Due = ctl.config /\ Due' = After("SELFTEST") /\ Due \in Bytes
        /\ pc = "selfTest" /\ pc' = "selfTestResult" /\ drv' = drv /\ port' = port /\ sent' = sent
    BY <1>1, <1>2, WriteCommandKeeps DEF PCs, Waits, Commands, Asking, Silent,
       NoAnswerToCome, Announcing, AnswerTo
  <2>2. Due' = ctl.config
    BY <2>1 DEF After
  <2>3. ~sent.harmful => ConfigInv' /\ FoundInv'
    BY <1>1, <2>1, <2>2 DEF Types, BaseInv, ConfigInv, DisabledInv, SavedInv, QueryInv,
       TestedInv, EnabledInv, FoundInv, PCs, Waits, AllOff, AllOn, ClocksOn, Plain,
       Works1, Works2, Present2
  <2> QED
    BY <2>1, <2>3 DEF ControllerInv, BaseInv
<1> DEFINE Result ==
      /\ ReadAnswer("selfTestResult")
      /\ pc' = IF ctl.out.value = SelfTestPassed THEN "restore" ELSE "panic"
      /\ UNCHANGED drv
<1>3. CASE Result
  <2>1. ctl.out.value \in Bytes
    BY <1>1, <1>3, ReadValueType
  <2>2. drv' \in Drivers
    BY <1>1, <1>3, <2>1 DEF Types
  <2>3. pc' \in {"restore", "panic"}
    BY <1>3 DEF AfterTests
  <2>4. /\ BaseInv' /\ pc = "selfTestResult" /\ port' = port /\ sent' = sent
        /\ ~sent.harmful => /\ ctl.out.value \in Answers("SELFTEST")
                            /\ Due = ctl.config /\ Due' = Due /\ Due \in Bytes
    BY <1>1, <1>3, <2>2, <2>3, ReadAnswerKeeps DEF PCs, Waits, Announcing, AnswerTo
  <2>5. ~sent.harmful => ConfigInv' /\ FoundInv'
    <3> SUFFICES ASSUME ~sent.harmful PROVE ConfigInv' /\ FoundInv'
      OBVIOUS
    <3>1. ctl.out.value = SelfTestPassed <=> port.selfTest
      <4>1. 3 \in {2, 3, 4, 5, 6, 7} /\ 3 \notin SelfTestPassed
        BY DEF SelfTestPassed
      <4> QED
        BY <1>1, <2>4, <4>1 DEF Answers, Types
    <3>2. pc' = IF port.selfTest THEN "restore" ELSE "panic"
      BY <1>3, <3>1
    <3> QED
      BY <1>1, <1>3, <2>4, <3>2 DEF Types, ConfigInv, DisabledInv, SavedInv, QueryInv,
         TestedInv, EnabledInv, FoundInv, PCs, Waits, AllOff, Plain
  <2> QED
    BY <2>4, <2>5 DEF ControllerInv, BaseInv
<1> QED
  BY <1>2, <1>3 DEF PerformPS2SelfTest

LEMMA RestoreConfigKeeps == ControllerInv /\ RestoreConfig => ControllerInv'
<1> SUFFICES ASSUME ControllerInv, RestoreConfig PROVE ControllerInv'
  OBVIOUS
<1> USE DEF Port1Interrupt, Port2Interrupt, Port1ClockOff, Port2ClockOff, Translation
<1>1. BaseInv /\ Types /\ (~sent.harmful => ConfigInv /\ FoundInv)
  BY DEF ControllerInv, BaseInv
<1>2. CASE WritePS2Command("restore", "WRITE_CONFIG", "restoreData")
  <2>1. /\ BaseInv'
        /\ Due = ctl.config /\ Due' = After("WRITE_CONFIG") /\ Due \in Bytes
        /\ pc = "restore" /\ pc' = "restoreData" /\ drv' = drv /\ port' = port /\ sent' = sent
    BY <1>1, <1>2, WriteCommandKeeps DEF PCs, Waits, Commands, Asking, Silent,
       NoAnswerToCome, Announcing, AnswerTo
  <2>2. Due' = ctl.config
    BY <2>1 DEF After
  <2>3. ~sent.harmful => ConfigInv' /\ FoundInv'
    BY <1>1, <2>1, <2>2 DEF Types, BaseInv, ConfigInv, DisabledInv, SavedInv, QueryInv,
       TestedInv, EnabledInv, FoundInv, PCs, Waits, AllOff, AllOn, ClocksOn, Plain,
       Works1, Works2, Present2
  <2> QED
    BY <2>1, <2>3 DEF ControllerInv, BaseInv
<1>3. CASE WriteConfigData("restoreData", IF drv.hasSecondPort THEN "query" ELSE "test1")
  <2>1. /\ BaseInv' /\ Due' = Wired(drv.config) /\ drv.config \in Bytes
        /\ pc = "restoreData" /\ pc' = (IF drv.hasSecondPort THEN "query" ELSE "test1")
        /\ drv' = drv /\ port' = port /\ sent' = sent
    BY <1>1, <1>3, WriteDataKeeps DEF Announcing
  <2>2. /\ \A b : b # Port2ClockOff => (b \in Due' <=> b \in drv.config)
        /\ port.second = "single" => Port2ClockOff \notin Due'
        /\ port.second = "stuck" => Due' = drv.config \cup {Port2ClockOff}
        /\ Present2 => Due' = drv.config
    BY <1>1, <2>1 DEF Types, Wired, Present2
  <2>3. ~sent.harmful => ConfigInv' /\ FoundInv'
    BY <1>1, <2>1, <2>2 DEF Types, ConfigInv, DisabledInv, SavedInv, QueryInv, TestedInv,
       EnabledInv, FoundInv, PCs, Waits, AllOff, AllOn, ClocksOn, Plain, Works1, Works2,
       Present2
  <2> QED
    BY <2>1, <2>3 DEF ControllerInv, BaseInv
<1> QED
  BY <1>2, <1>3 DEF RestoreConfig

LEMMA QuerySecondPortKeeps == ControllerInv /\ QuerySecondPort => ControllerInv'
<1> SUFFICES ASSUME ControllerInv, QuerySecondPort PROVE ControllerInv'
  OBVIOUS
<1> USE DEF Port1Interrupt, Port2Interrupt, Port1ClockOff, Port2ClockOff, Translation
<1>1. BaseInv /\ Types /\ (~sent.harmful => ConfigInv /\ FoundInv)
  BY DEF ControllerInv, BaseInv
<1>2. CASE WritePS2Command("query", "ENABLE_PORT2", "queryRead")
  <2>1. /\ BaseInv'
        /\ Due = ctl.config /\ Due' = After("ENABLE_PORT2") /\ Due \in Bytes
        /\ pc = "query" /\ pc' = "queryRead" /\ drv' = drv /\ port' = port /\ sent' = sent
    BY <1>1, <1>2, WriteCommandKeeps DEF PCs, Waits, Commands, Asking, Silent,
       NoAnswerToCome, Announcing, AnswerTo
  <2>2. ctl.config \ {Port2ClockOff} \in Bytes
    BY <2>1 DEF Bytes, Port2ClockOff
  <2>3. Due' = Wired(ctl.config \ {Port2ClockOff})
    BY <2>1 DEF After
  <2>4. /\ \A b : b # Port2ClockOff => (b \in Due' <=> b \in ctl.config)
        /\ port.second = "single" => Port2ClockOff \notin Due'
        /\ port.second = "stuck" => Port2ClockOff \in Due'
        /\ Present2 => Due' = ctl.config \ {Port2ClockOff}
    BY <1>1, <2>2, <2>3, WiredBits DEF BaseInv
  <2>5. Wired(drv.config \ {Port2ClockOff})' = Wired(drv.config \ {Port2ClockOff})
    BY <2>1 DEF Wired
  <2>6. ~sent.harmful => ConfigInv' /\ FoundInv'
    BY <1>1, <2>1, <2>4, <2>3, <2>5 DEF Types, BaseInv, ConfigInv, DisabledInv, SavedInv,
       QueryInv, TestedInv, EnabledInv, FoundInv, PCs, Waits, AllOff, AllOn, ClocksOn,
       Plain, Works1, Works2, Present2
  <2> QED
    BY <2>1, <2>6 DEF ControllerInv, BaseInv
<1>3. CASE WritePS2Command("queryRead", "READ_CONFIG", "queryResult")
  <2>1. /\ BaseInv'
        /\ Due = ctl.config /\ Due' = After("READ_CONFIG") /\ Due \in Bytes
        /\ pc = "queryRead" /\ pc' = "queryResult" /\ drv' = drv /\ port' = port /\ sent' = sent
    BY <1>1, <1>3, WriteCommandKeeps DEF PCs, Waits, Commands, Asking, Silent,
       NoAnswerToCome, Announcing, AnswerTo
  <2>2. Due' = ctl.config
    BY <2>1 DEF After
  <2>3. Wired(drv.config \ {Port2ClockOff})' = Wired(drv.config \ {Port2ClockOff})
    BY <2>1 DEF Wired
  <2>4. ~sent.harmful => ConfigInv' /\ FoundInv'
    BY <1>1, <2>1, <2>2, <2>3 DEF Types, BaseInv, ConfigInv, DisabledInv, SavedInv,
       QueryInv, TestedInv, EnabledInv, FoundInv, PCs, Waits, AllOff, AllOn, ClocksOn,
       Plain, Works1, Works2, Present2
  <2> QED
    BY <2>1, <2>4 DEF ControllerInv, BaseInv
<1> DEFINE Result ==
      /\ ReadAnswer("queryResult")
      /\ drv' = [drv EXCEPT !.config = ctl.out.value,
                            !.hasSecondPort = Port2ClockOff \notin ctl.out.value]
      /\ pc' = IF drv'.hasSecondPort THEN "disableAgain" ELSE "test1"
<1>4. CASE Result
  <2>1. ctl.out.value \in Bytes
    BY <1>1, <1>4, ReadValueType
  <2>2. drv' \in Drivers
    <3>1. /\ drv \in Drivers /\ ctl.out.value \in Bytes
          /\ (Port2ClockOff \notin ctl.out.value) \in BOOLEAN
      BY <1>1, <2>1 DEF Types, Bytes
    <3>2. drv' = [drv EXCEPT !.config = ctl.out.value,
                            !.hasSecondPort = Port2ClockOff \notin ctl.out.value]
      BY <1>4
    <3> QED
      BY <3>1, <3>2, DriverFields, Zenon
  <2>3. pc' \in {"disableAgain", "test1"}
    BY <1>4, <2>2 DEF AfterTests
  <2>4. /\ BaseInv' /\ pc = "queryResult" /\ port' = port /\ sent' = sent
        /\ ~sent.harmful => /\ ctl.out.value \in Answers("READ_CONFIG")
                            /\ Due = ctl.config /\ Due' = Due /\ Due \in Bytes
    BY <1>1, <1>4, <2>2, <2>3, ReadAnswerKeeps DEF PCs, Waits, Announcing, AnswerTo
  <2>5. ~sent.harmful => ConfigInv' /\ FoundInv'
    <3> SUFFICES ASSUME ~sent.harmful PROVE ConfigInv' /\ FoundInv'
      OBVIOUS
    <3>1. ctl.out.value = ctl.config /\ Due = ctl.config /\ Due' = ctl.config
      BY <2>4 DEF Answers
    <3>2. /\ drv'.hasSecondPort <=> Port2ClockOff \notin ctl.config
          /\ drv'.secondPortWorking = drv.secondPortWorking
      BY <1>1, <1>4, <3>1 DEF Types, Drivers
    <3>3. /\ AllOff(drv.config) /\ port.second # "single" /\ port.selfTest
          /\ ctl.config = Wired(drv.config \ {Port2ClockOff}) /\ ~drv.secondPortWorking
      BY <1>1, <2>4, <3>1 DEF ConfigInv, SavedInv, QueryInv, FoundInv, PCs, Waits
    <3>4. /\ Plain(ctl.config) /\ Port1ClockOff \in ctl.config
          /\ Port2ClockOff \notin ctl.config <=> Present2
      BY <1>1, <3>3 DEF Types, Wired, AllOff, Plain, Present2
    <3>5. pc' = IF Present2 THEN "disableAgain" ELSE "test1"
      BY <1>4, <3>2, <3>4
    <3>6. CASE Present2
      BY <2>4, <3>1, <3>2, <3>3, <3>4, <3>5, <3>6 DEF ConfigInv, DisabledInv, SavedInv,
         QueryInv, TestedInv, EnabledInv, FoundInv, PCs, Waits, Present2, Plain
    <3>7. CASE ~Present2
      BY <2>4, <3>1, <3>2, <3>3, <3>4, <3>5, <3>7 DEF ConfigInv, DisabledInv, SavedInv,
         QueryInv, TestedInv, EnabledInv, FoundInv, PCs, Waits, Present2, Plain, AllOff
    <3> QED
      BY <3>6, <3>7
  <2> QED
    BY <2>4, <2>5 DEF ControllerInv, BaseInv
<1>5. CASE WritePS2Command("disableAgain", "DISABLE_PORT2", "test1")
  <2>1. /\ BaseInv'
        /\ Due = ctl.config /\ Due' = After("DISABLE_PORT2") /\ Due \in Bytes
        /\ pc = "disableAgain" /\ pc' = "test1" /\ drv' = drv /\ port' = port /\ sent' = sent
    BY <1>1, <1>5, WriteCommandKeeps DEF PCs, Waits, Commands, Asking, Silent,
       NoAnswerToCome, Announcing, AnswerTo
  <2>2. ctl.config \cup {Port2ClockOff} \in Bytes
    BY <2>1 DEF Bytes, Port2ClockOff
  <2>3. Due' = Wired(ctl.config \cup {Port2ClockOff})
    BY <2>1 DEF After
  <2>4. /\ \A b : b # Port2ClockOff => (b \in Due' <=> b \in ctl.config)
        /\ port.second = "single" => Port2ClockOff \notin Due'
        /\ port.second = "stuck" => Port2ClockOff \in Due'
        /\ Present2 => Due' = ctl.config \cup {Port2ClockOff}
    BY <1>1, <2>2, <2>3, WiredBits DEF BaseInv
  <2>5. ~sent.harmful => ConfigInv' /\ FoundInv'
    BY <1>1, <2>1, <2>4 DEF Types, BaseInv, ConfigInv, DisabledInv, SavedInv, QueryInv,
       TestedInv, EnabledInv, FoundInv, PCs, Waits, AllOff, AllOn, ClocksOn, Plain,
       Works1, Works2, Present2
  <2> QED
    BY <2>1, <2>5 DEF ControllerInv, BaseInv
<1> QED
  BY <1>2, <1>3, <1>4, <1>5 DEF QuerySecondPort

LEMMA TestPS2PortsKeeps == ControllerInv /\ TestPS2Ports => ControllerInv'
<1> SUFFICES ASSUME ControllerInv, TestPS2Ports PROVE ControllerInv'
  OBVIOUS
<1> USE DEF Port1Interrupt, Port2Interrupt, Port1ClockOff, Port2ClockOff, Translation
<1>1. BaseInv /\ Types /\ (~sent.harmful => ConfigInv /\ FoundInv)
  BY DEF ControllerInv, BaseInv
<1>2. CASE WritePS2Command("test1", "TEST_PORT1", "test1Result")
  <2>1. /\ BaseInv'
        /\ Due = ctl.config /\ Due' = After("TEST_PORT1") /\ Due \in Bytes
        /\ pc = "test1" /\ pc' = "test1Result" /\ drv' = drv /\ port' = port /\ sent' = sent
    BY <1>1, <1>2, WriteCommandKeeps DEF PCs, Waits, Commands, Asking, Silent,
       NoAnswerToCome, Announcing, AnswerTo
  <2>2. Due' = ctl.config
    BY <2>1 DEF After
  <2>3. ~sent.harmful => ConfigInv' /\ FoundInv'
    BY <1>1, <2>1, <2>2 DEF Types, BaseInv, ConfigInv, DisabledInv, SavedInv, QueryInv,
       TestedInv, EnabledInv, FoundInv, PCs, Waits, AllOff, AllOn, ClocksOn, Plain,
       Works1, Works2, Present2
  <2> QED
    BY <2>1, <2>3 DEF ControllerInv, BaseInv
<1> DEFINE Result1 ==
      /\ ReadAnswer("test1Result")
      /\ drv' = [drv EXCEPT !.firstPortWorking = ctl.out.value = PortTestPassed]
      /\ pc' = IF drv.hasSecondPort THEN "test2" ELSE AfterTests(drv')
<1>3. CASE Result1
  <2>1. ctl.out.value \in Bytes
    BY <1>1, <1>3, ReadValueType
  <2>2. drv' \in Drivers
    <3>1. /\ drv \in Drivers /\ ctl.out.value \in Bytes
          /\ (ctl.out.value = PortTestPassed) \in BOOLEAN
      BY <1>1, <2>1 DEF Types, Bytes
    <3>2. drv' = [drv EXCEPT !.firstPortWorking = ctl.out.value = PortTestPassed]
      BY <1>3
    <3> QED
      BY <3>1, <3>2, DriverFields, Zenon
  <2>3. pc' \in {"test2", "enable1", "enable2", "panic"}
    BY <1>3, <2>2 DEF AfterTests
  <2>4. /\ BaseInv' /\ pc = "test1Result" /\ port' = port /\ sent' = sent
        /\ ~sent.harmful => /\ ctl.out.value \in Answers("TEST_PORT1")
                            /\ Due = ctl.config /\ Due' = Due /\ Due \in Bytes
    BY <1>1, <1>3, <2>2, <2>3, ReadAnswerKeeps DEF PCs, Waits, Announcing, AnswerTo
  <2>5. ~sent.harmful => ConfigInv' /\ FoundInv'
    <3> SUFFICES ASSUME ~sent.harmful PROVE ConfigInv' /\ FoundInv'
      OBVIOUS
    <3>1. ctl.out.value = PortTestPassed <=> Works1
      <4>1. 0 \in {0} /\ 1 \in {1} /\ PortTestPassed = {}
        BY DEF PortTestPassed
      <4> QED
        BY <1>1, <2>4, <4>1 DEF Answers, Types, Works1
    <3>2. /\ drv'.firstPortWorking <=> Works1
          /\ drv'.secondPortWorking = drv.secondPortWorking
          /\ drv'.hasSecondPort = drv.hasSecondPort
      BY <1>1, <1>3, <3>1 DEF Types, Drivers
    <3>3. /\ AllOff(Due) /\ port.selfTest /\ (drv.hasSecondPort <=> Present2)
          /\ ~drv.secondPortWorking
      BY <1>1, <2>4 DEF ConfigInv, TestedInv, FoundInv, PCs, Waits
    <3>4. AllOff(Due)'
      BY <2>4, <3>3 DEF AllOff, Plain
    <3>5. pc' = IF Present2 THEN "test2" ELSE IF Works1 THEN "enable1" ELSE "panic"
      BY <1>3, <3>2, <3>3 DEF AfterTests, Works2, Present2
    <3> QED
      BY <2>4, <3>2, <3>3, <3>4, <3>5 DEF ConfigInv, DisabledInv, SavedInv, QueryInv,
         TestedInv, EnabledInv, FoundInv, PCs, Waits, AllOff, Plain, Works1, Works2,
         Present2
  <2> QED
    BY <2>4, <2>5 DEF ControllerInv, BaseInv
<1>4. CASE WritePS2Command("test2", "TEST_PORT2", "test2Result")
  <2>1. /\ BaseInv'
        /\ Due = ctl.config /\ Due' = After("TEST_PORT2") /\ Due \in Bytes
        /\ pc = "test2" /\ pc' = "test2Result" /\ drv' = drv /\ port' = port /\ sent' = sent
    BY <1>1, <1>4, WriteCommandKeeps DEF PCs, Waits, Commands, Asking, Silent,
       NoAnswerToCome, Announcing, AnswerTo
  <2>2. Due' = ctl.config
    BY <2>1 DEF After
  <2>3. ~sent.harmful => ConfigInv' /\ FoundInv'
    BY <1>1, <2>1, <2>2 DEF Types, BaseInv, ConfigInv, DisabledInv, SavedInv, QueryInv,
       TestedInv, EnabledInv, FoundInv, PCs, Waits, AllOff, AllOn, ClocksOn, Plain,
       Works1, Works2, Present2
  <2> QED
    BY <2>1, <2>3 DEF ControllerInv, BaseInv
<1> DEFINE Result2 ==
      /\ ReadAnswer("test2Result")
      /\ drv' = [drv EXCEPT !.secondPortWorking = ctl.out.value = PortTestPassed]
      /\ pc' = AfterTests(drv')
<1>5. CASE Result2
  <2>1. ctl.out.value \in Bytes
    BY <1>1, <1>5, ReadValueType
  <2>2. drv' \in Drivers
    <3>1. /\ drv \in Drivers /\ ctl.out.value \in Bytes
          /\ (ctl.out.value = PortTestPassed) \in BOOLEAN
      BY <1>1, <2>1 DEF Types, Bytes
    <3>2. drv' = [drv EXCEPT !.secondPortWorking = ctl.out.value = PortTestPassed]
      BY <1>5
    <3> QED
      BY <3>1, <3>2, DriverFields, Zenon
  <2>3. pc' \in {"enable1", "enable2", "panic"}
    BY <1>5, <2>2 DEF AfterTests
  <2>4. /\ BaseInv' /\ pc = "test2Result" /\ port' = port /\ sent' = sent
        /\ ~sent.harmful => /\ ctl.out.value \in Answers("TEST_PORT2")
                            /\ Due = ctl.config /\ Due' = Due /\ Due \in Bytes
    BY <1>1, <1>5, <2>2, <2>3, ReadAnswerKeeps DEF PCs, Waits, Announcing, AnswerTo
  <2>5. ~sent.harmful => ConfigInv' /\ FoundInv'
    <3> SUFFICES ASSUME ~sent.harmful PROVE ConfigInv' /\ FoundInv'
      OBVIOUS
    <3>1. ctl.out.value = PortTestPassed <=> Works2
      <4>1. 0 \in {0} /\ 1 \in {1} /\ PortTestPassed = {}
        BY DEF PortTestPassed
      <4> QED
        BY <1>1, <2>4, <4>1 DEF Answers, Types, Works2
    <3>2. /\ drv'.secondPortWorking <=> Works2
          /\ drv'.firstPortWorking = drv.firstPortWorking
          /\ drv'.hasSecondPort = drv.hasSecondPort
      BY <1>1, <1>5, <3>1 DEF Types, Drivers
    <3>3. /\ AllOff(Due) /\ port.selfTest /\ (drv.hasSecondPort <=> Present2)
          /\ (drv.firstPortWorking <=> Works1)
      BY <1>1, <2>4 DEF ConfigInv, TestedInv, FoundInv, PCs, Waits
    <3>4. AllOff(Due)'
      BY <2>4, <3>3 DEF AllOff, Plain
    <3>5. pc' = IF Works1 THEN "enable1" ELSE IF Works2 THEN "enable2" ELSE "panic"
      BY <1>5, <3>2, <3>3 DEF AfterTests, Works2, Present2
    <3> QED
      BY <2>4, <3>2, <3>3, <3>4, <3>5 DEF ConfigInv, DisabledInv, SavedInv, QueryInv,
         TestedInv, EnabledInv, FoundInv, PCs, Waits, AllOff, Plain, Works1, Works2,
         Present2
  <2> QED
    BY <2>4, <2>5 DEF ControllerInv, BaseInv
<1> QED
  BY <1>2, <1>3, <1>4, <1>5 DEF TestPS2Ports

LEMMA EnableDevicesKeeps == ControllerInv /\ EnableDevices => ControllerInv'
<1> SUFFICES ASSUME ControllerInv, EnableDevices PROVE ControllerInv'
  OBVIOUS
<1> USE DEF Port1Interrupt, Port2Interrupt, Port1ClockOff, Port2ClockOff, Translation
<1>1. BaseInv /\ Types /\ (~sent.harmful => ConfigInv /\ FoundInv)
  BY DEF ControllerInv, BaseInv
<1>2. CASE WritePS2Command("enable1", "ENABLE_PORT1",
                          IF drv.secondPortWorking THEN "enable2" ELSE "finalRead")
  <2>1. /\ BaseInv'
        /\ Due = ctl.config /\ Due' = After("ENABLE_PORT1") /\ Due \in Bytes
        /\ pc = "enable1" /\ pc' = (IF drv.secondPortWorking THEN "enable2" ELSE "finalRead")
        /\ drv' = drv /\ port' = port /\ sent' = sent
    BY <1>1, <1>2, WriteCommandKeeps DEF PCs, Waits, Commands, Asking, Silent,
       NoAnswerToCome, Announcing, AnswerTo
  <2>2. Due' = ctl.config \ {Port1ClockOff}
    BY <2>1 DEF After
  <2>3. ~sent.harmful => ConfigInv' /\ FoundInv'
    BY <1>1, <2>1, <2>2 DEF Types, BaseInv, ConfigInv, DisabledInv, SavedInv, QueryInv,
       TestedInv, EnabledInv, FoundInv, PCs, Waits, AllOff, AllOn, ClocksOn, Plain,
       Works1, Works2, Present2
  <2> QED
    BY <2>1, <2>3 DEF ControllerInv, BaseInv
<1>3. CASE WritePS2Command("enable2", "ENABLE_PORT2", "finalRead")
  <2>1. /\ BaseInv'
        /\ Due = ctl.config /\ Due' = After("ENABLE_PORT2") /\ Due \in Bytes
        /\ pc = "enable2" /\ pc' = "finalRead" /\ drv' = drv /\ port' = port /\ sent' = sent
    BY <1>1, <1>3, WriteCommandKeeps DEF PCs, Waits, Commands, Asking, Silent,
       NoAnswerToCome, Announcing, AnswerTo
  <2>2. ctl.config \ {Port2ClockOff} \in Bytes
    BY <2>1 DEF Bytes, Port2ClockOff
  <2>3. Due' = Wired(ctl.config \ {Port2ClockOff})
    BY <2>1 DEF After
  <2>4. /\ \A b : b # Port2ClockOff => (b \in Due' <=> b \in ctl.config)
        /\ port.second = "single" => Port2ClockOff \notin Due'
        /\ port.second = "stuck" => Port2ClockOff \in Due'
        /\ Present2 => Due' = ctl.config \ {Port2ClockOff}
    BY <1>1, <2>2, <2>3, WiredBits DEF BaseInv
  <2>5. ~sent.harmful => ConfigInv' /\ FoundInv'
    BY <1>1, <2>1, <2>4 DEF Types, BaseInv, ConfigInv, DisabledInv, SavedInv, QueryInv,
       TestedInv, EnabledInv, FoundInv, PCs, Waits, AllOff, AllOn, ClocksOn, Plain,
       Works1, Works2, Present2
  <2> QED
    BY <2>1, <2>5 DEF ControllerInv, BaseInv
<1> QED
  BY <1>2, <1>3 DEF EnableDevices

LEMMA EnableInterruptsKeeps == ControllerInv /\ EnableInterrupts => ControllerInv'
<1> SUFFICES ASSUME ControllerInv, EnableInterrupts PROVE ControllerInv'
  OBVIOUS
<1> USE DEF Port1Interrupt, Port2Interrupt, Port1ClockOff, Port2ClockOff, Translation
<1>1. BaseInv /\ Types /\ (~sent.harmful => ConfigInv /\ FoundInv)
  BY DEF ControllerInv, BaseInv
<1>2. CASE WritePS2Command("finalRead", "READ_CONFIG", "finalResult")
  <2>1. /\ BaseInv'
        /\ Due = ctl.config /\ Due' = After("READ_CONFIG") /\ Due \in Bytes
        /\ pc = "finalRead" /\ pc' = "finalResult" /\ drv' = drv /\ port' = port /\ sent' = sent
    BY <1>1, <1>2, WriteCommandKeeps DEF PCs, Waits, Commands, Asking, Silent,
       NoAnswerToCome, Announcing, AnswerTo
  <2>2. Due' = ctl.config
    BY <2>1 DEF After
  <2>3. ~sent.harmful => ConfigInv' /\ FoundInv'
    BY <1>1, <2>1, <2>2 DEF Types, BaseInv, ConfigInv, DisabledInv, SavedInv, QueryInv,
       TestedInv, EnabledInv, FoundInv, PCs, Waits, AllOff, AllOn, ClocksOn, Plain,
       Works1, Works2, Present2
  <2> QED
    BY <2>1, <2>3 DEF ControllerInv, BaseInv
<1> DEFINE interrupts == (IF drv.firstPortWorking THEN {Port1Interrupt} ELSE {})
                         \cup (IF drv.secondPortWorking THEN {Port2Interrupt} ELSE {})
           Result ==
      /\ ReadAnswer("finalResult")
      /\ drv' = [drv EXCEPT !.config =
                   ctl.out.value \cup (IF drv.firstPortWorking THEN {Port1Interrupt} ELSE {})
                                 \cup (IF drv.secondPortWorking THEN {Port2Interrupt} ELSE {})]
      /\ pc' = "final"
<1>3. CASE Result
  <2>1. ctl.out.value \in Bytes
    BY <1>1, <1>3, ReadValueType
  <2>2. drv' \in Drivers
    <3>1. drv \in Drivers /\ ctl.out.value \cup interrupts \in Bytes /\ TRUE \in BOOLEAN
      BY <1>1, <2>1 DEF Types, Bytes
    <3>2. drv' = [drv EXCEPT !.config = ctl.out.value \cup interrupts]
      BY <1>3
    <3> QED
      BY <3>1, <3>2, DriverFields, Zenon
  <2>3. pc' \in {"final"}
    BY <1>3, <2>2 DEF AfterTests
  <2>4. /\ BaseInv' /\ pc = "finalResult" /\ port' = port /\ sent' = sent
        /\ ~sent.harmful => /\ ctl.out.value \in Answers("READ_CONFIG")
                            /\ Due = ctl.config /\ Due' = Due /\ Due \in Bytes
    BY <1>1, <1>3, <2>2, <2>3, ReadAnswerKeeps DEF PCs, Waits, Announcing, AnswerTo
  <2>5. ~sent.harmful => ConfigInv' /\ FoundInv'
    <3> SUFFICES ASSUME ~sent.harmful PROVE ConfigInv' /\ FoundInv'
      OBVIOUS
    <3>1. ctl.out.value = ctl.config /\ Due = ctl.config
      BY <2>4 DEF Answers
    <3>2. /\ drv'.config = ctl.config \cup interrupts
          /\ drv'.firstPortWorking = drv.firstPortWorking
          /\ drv'.secondPortWorking = drv.secondPortWorking
      BY <1>1, <1>3, <3>1 DEF Types, Drivers
    <3>3. /\ Plain(ctl.config) /\ ClocksOn(ctl.config)
          /\ (drv.firstPortWorking <=> Works1) /\ (drv.secondPortWorking <=> Works2)
      BY <1>1, <2>4, <3>1 DEF ConfigInv, EnabledInv, FoundInv, PCs, Waits
    <3>4. AllOn(drv'.config)
      BY <3>2, <3>3 DEF AllOn, ClocksOn, Plain
    <3> QED
      BY <2>3, <2>4, <3>2, <3>3, <3>4 DEF ConfigInv, DisabledInv, SavedInv, QueryInv,
         TestedInv, EnabledInv, FoundInv, PCs, Waits, AllOn, ClocksOn, Works1, Works2
  <2> QED
    BY <2>4, <2>5 DEF ControllerInv, BaseInv
<1>4. CASE WritePS2Command("final", "WRITE_CONFIG", "finalData")
  <2>1. /\ BaseInv'
        /\ Due = ctl.config /\ Due' = After("WRITE_CONFIG") /\ Due \in Bytes
        /\ pc = "final" /\ pc' = "finalData" /\ drv' = drv /\ port' = port /\ sent' = sent
    BY <1>1, <1>4, WriteCommandKeeps DEF PCs, Waits, Commands, Asking, Silent,
       NoAnswerToCome, Announcing, AnswerTo
  <2>2. Due' = ctl.config
    BY <2>1 DEF After
  <2>3. ~sent.harmful => ConfigInv' /\ FoundInv'
    BY <1>1, <2>1, <2>2 DEF Types, BaseInv, ConfigInv, DisabledInv, SavedInv, QueryInv,
       TestedInv, EnabledInv, FoundInv, PCs, Waits, AllOff, AllOn, ClocksOn, Plain,
       Works1, Works2, Present2
  <2> QED
    BY <2>1, <2>3 DEF ControllerInv, BaseInv
<1>5. CASE WriteConfigData("finalData", "done")
  <2>1. /\ BaseInv' /\ Due' = Wired(drv.config) /\ drv.config \in Bytes
        /\ pc = "finalData" /\ pc' = "done" /\ drv' = drv /\ port' = port /\ sent' = sent
    BY <1>1, <1>5, WriteDataKeeps DEF Announcing
  <2>2. /\ \A b : b # Port2ClockOff => (b \in Due' <=> b \in drv.config)
        /\ port.second = "single" => Port2ClockOff \notin Due'
        /\ port.second = "stuck" => Due' = drv.config \cup {Port2ClockOff}
        /\ Present2 => Due' = drv.config
    BY <1>1, <2>1 DEF Types, Wired, Present2
  <2>3. ~sent.harmful => ConfigInv' /\ FoundInv'
    BY <1>1, <2>1, <2>2 DEF Types, ConfigInv, DisabledInv, SavedInv, QueryInv, TestedInv,
       EnabledInv, FoundInv, PCs, Waits, AllOff, AllOn, ClocksOn, Plain, Works1, Works2,
       Present2
  <2> QED
    BY <2>1, <2>3 DEF ControllerInv, BaseInv
<1> QED
  BY <1>2, <1>3, <1>4, <1>5 DEF EnableInterrupts

-----------------------------------------------------------------------------
(* The invariant holds, and what follows from it. *)

LEMMA InitControllerInv == Init => ControllerInv
<1> SUFFICES ASSUME Init PROVE ControllerInv
  OBVIOUS
<1>1. PICK c \in InitialConfigs,
           out \in {Empty} \cup {[by |-> "device", value |-> b] : b \in DeviceBytes} :
        ctl = [in |-> Empty, out |-> out, answer |-> Empty, receiving |-> FALSE,
               data |-> "DEVICE", config |-> Wired(c)]
  BY DEF Init
<1>2. port \in [selfTest : BOOLEAN, first : {"works", "fails"},
               second : {"works", "fails", "single", "stuck"}]
  BY DEF Init
<1>3. c \in Bytes /\ out \in Outputs
  BY ControllerAssumption, EmptyIsTyped DEF Outputs
<1>4. Wired(c) \in Bytes /\ Wired(Wired(c)) = Wired(c)
  BY <1>2, <1>3 DEF Wired, Bytes, Port2ClockOff
<1>5. {} \in Bytes
  BY DEF Bytes
<1>6. Types
  BY <1>1, <1>2, <1>3, <1>4, <1>5, EmptyIsTyped DEF Init, Types, Drivers, PCs
<1>7. AnswerInv /\ DataInv /\ WiredInv
  BY <1>1, <1>4, EmptyIsTyped DEF Init, AnswerInv, DataInv, WiredInv, Waits, NoAnswerToCome
<1>8. ConfigInv /\ FoundInv
  BY DEF Init, ConfigInv, DisabledInv, SavedInv, QueryInv, TestedInv, EnabledInv, FoundInv
<1> QED
  BY <1>6, <1>7, <1>8 DEF ControllerInv

LEMMA StutterKeeps == ControllerInv /\ UNCHANGED vars => ControllerInv'
<1> SUFFICES ASSUME ControllerInv, UNCHANGED vars PROVE ControllerInv'
  OBVIOUS
<1>1. UNCHANGED <<pc, drv, port>> /\ ctl' = ctl /\ sent' = sent
  BY DEF vars
<1>2. Types' /\ AnswerInv' /\ DataInv' /\ WiredInv'
  BY <1>1 DEF ControllerInv, Types, AnswerInv, Asked, Answers, AnswerTo, DataInv,
     WiredInv, Wired
<1>3. Due' = Due
  BY <1>1 DEF Due, After, Wired
<1> QED
  BY <1>1, <1>2, <1>3, ConfigStable DEF ControllerInv

LEMMA NextControllerInv == ControllerInv /\ [Next]_vars => ControllerInv'
BY ProcessCommandKeeps, ProcessDataKeeps, DeliverAnswerKeeps, DeviceSendsKeeps,
   ReceiveByteKeeps, DisableDevicesKeeps, DiscardDataPortKeeps, RetrieveConfigKeeps,
   ModifyConfigKeeps, SaveConfigKeeps, PerformPS2SelfTestKeeps, RestoreConfigKeeps,
   QuerySecondPortKeeps, TestPS2PortsKeeps, EnableDevicesKeeps, EnableInterruptsKeeps,
   StutterKeeps DEF Next, Controller, Driver

LEMMA ControllerInvariant == Spec => []ControllerInv
BY InitControllerInv, NextControllerInv, PTL DEF Spec

LEMMA ControllerInvImplies == ControllerInv => AnswersAreOwn /\ PortsAreSetUp
<1> SUFFICES ASSUME ControllerInv PROVE AnswersAreOwn /\ PortsAreSetUp
  OBVIOUS
<1>1. AnswersAreOwn
  <2> SUFFICES ASSUME ~sent.harmful, ctl.out # Empty, pc \in Waits
               PROVE  ctl.out.by = AnswerTo[pc]
    BY AnswerToDomain DEF AnswersAreOwn, Ready
  <2> QED
    BY DEF ControllerInv, AnswerInv, Asked
<1>2. PortsAreSetUp
  <2> SUFFICES ASSUME ctl.in = Empty, ~sent.harmful PROVE PortsAreSetUp
    BY DEF PortsAreSetUp, Busy
  <2>1. Due = ctl.config
    BY EmptyIsTyped DEF Due
  <2>2. pc = "done" =>
          /\ drv.firstPortWorking = Works1 /\ drv.secondPortWorking = Works2
          /\ AllOn(ctl.config)
    BY <2>1 DEF ControllerInv, ConfigInv, EnabledInv, FoundInv, Types, Drivers, Works1,
       Works2
  <2>3. pc = "panic" => ~(port.selfTest /\ (Works1 \/ Works2))
    BY DEF ControllerInv, FoundInv
  <2> QED
    BY <2>2, <2>3 DEF PortsAreSetUp, AllOn, ClocksOn, Works1, Works2
<1> QED
  BY <1>1, <1>2

(* What the driver reads as an answer is the controller's answer to the    *)
(* command before, for every byte left in the output buffer and whatever   *)
(* devices send as long as no answer is to come.                           *)
THEOREM AnswersCorrect == Spec => []AnswersAreOwn
BY ControllerInvariant, ControllerInvImplies, PTL

(* DexprOS_InitialisePS2Controller reports and sets up exactly the ports   *)
(* that work, from any configuration and after any reset by the self test. *)
THEOREM InitialisationCorrect == Spec => []PortsAreSetUp
BY ControllerInvariant, ControllerInvImplies, PTL
=============================================================================

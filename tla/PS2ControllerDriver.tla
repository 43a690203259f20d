------------------------ MODULE PS2ControllerDriver ------------------------
(***************************************************************************)
(* DexprOS_InitialisePS2Controller (src/Drivers/PS2ControllerDriver.c)     *)
(* against a controller with one or two ports, either of which may fail    *)
(* its test, and devices that send bytes while their port is enabled.      *)
(*                                                                         *)
(* A byte is the set of its bits that are 1.  A busy loop on the status    *)
(* port and the access that follows it are one step: the input buffer is   *)
(* only filled by the driver and the output buffer only emptied by it, so  *)
(* what the loop has seen is still true at the access.                     *)
(***************************************************************************)
EXTENDS Naturals

CONSTANTS
  InitialConfigs,  \* configuration bytes the firmware may leave behind
  ResetConfigs,    \* configuration bytes a self test may leave behind
  DeviceBytes,     \* bytes a device may send
  MaxDeviceBytes   \* how many of them are sent during the initialisation

Bytes == SUBSET (0..7)

ASSUME ControllerAssumption ==
  /\ InitialConfigs \subseteq Bytes /\ ResetConfigs \subseteq Bytes /\ DeviceBytes \subseteq Bytes
  /\ MaxDeviceBytes \in Nat

VARIABLES
  pc,     \* the driver's next access to a port, or its end
  drv,    \* [config, hasSecondPort, firstPortWorking, secondPortWorking]
  ctl,    \* the controller: [in, out, answer, receiving, data, config], its two
          \* buffers, the answer to be put into the second, whether a byte of a
          \* device is on its way, what the next data byte is for, configuration
  port,   \* the hardware: [selfTest, first, second]
  sent    \* [n, harmful]: the bytes the devices have sent, and whether one
          \* came when the driver still had answers to wait for

vars == <<pc, drv, ctl, port, sent>>

Empty == [by |-> "nobody", value |-> {}]
Busy == ctl.in # Empty     \* DEXPROS_PS2C_WRITE_WAIT_BIT
Ready == ctl.out # Empty   \* DEXPROS_PS2C_DATA_READ_READY_BIT

(* Bits of the configuration byte. *)
Port1Interrupt == 0
Port2Interrupt == 1
Port1ClockOff == 4
Port2ClockOff == 5
Translation == 6

SelfTestPassed == {0, 2, 4, 6}  \* 0x55
PortTestPassed == {}            \* 0x0

-----------------------------------------------------------------------------
(* The controller, as the driver's use of it takes it to be.               *)

(* A controller without a second port has that port's clock bit always     *)
(* clear ("single") or always set ("stuck").                               *)
Wired(config) ==
  CASE port.second = "single" -> config \ {Port2ClockOff}
    [] port.second = "stuck"  -> config \cup {Port2ClockOff}
    [] OTHER                  -> config

(* The possible answers to a command; no answer to the others. *)
Answers(command) ==
  CASE command = "READ_CONFIG" -> {ctl.config}
    [] command = "SELFTEST"    -> IF port.selfTest THEN {SelfTestPassed} ELSE {{2, 3, 4, 5, 6, 7}}
    [] command = "TEST_PORT1"  -> IF port.first = "works" THEN {PortTestPassed} ELSE {{0}, {1}}
    [] command = "TEST_PORT2"  -> IF port.second = "works" THEN {PortTestPassed} ELSE {{0}, {1}}
    [] OTHER                   -> {}

(* The possible configurations after a command. *)
Configured(command) ==
  CASE command = "DISABLE_PORT1" -> {ctl.config \cup {Port1ClockOff}}
    [] command = "ENABLE_PORT1"  -> {ctl.config \ {Port1ClockOff}}
    [] command = "DISABLE_PORT2" -> {Wired(ctl.config \cup {Port2ClockOff})}
    [] command = "ENABLE_PORT2"  -> {Wired(ctl.config \ {Port2ClockOff})}
    [] command = "SELFTEST"      -> {ctl.config} \cup {Wired(c) : c \in ResetConfigs}
    [] OTHER                     -> {ctl.config}

(* The controller does one thing at a time: it receives a byte from a      *)
(* device, takes a command or a data byte from its input buffer, or waits  *)
(* until the output buffer is free for its answer.                         *)
AtRest == ~ctl.receiving /\ ctl.answer = Empty

ProcessCommand ==
  LET command == ctl.in.value
      answers == {[by |-> command, value |-> a] : a \in Answers(command)}
  IN  /\ ctl.in.by = "command" /\ AtRest
      /\ \E config \in Configured(command), answer \in (IF answers = {} THEN {Empty} ELSE answers) :
           ctl' = [ctl EXCEPT !.in = Empty, !.answer = answer, !.config = config,
                              !.data = IF command = "WRITE_CONFIG" THEN "CONFIG" ELSE "DEVICE"]
      /\ UNCHANGED <<pc, drv, port, sent>>

ProcessData ==
  /\ ctl.in.by = "data" /\ AtRest
  /\ ctl' = [ctl EXCEPT !.in = Empty, !.data = "DEVICE",
                        !.config = IF ctl.data = "CONFIG" THEN Wired(ctl.in.value) ELSE @]
  /\ UNCHANGED <<pc, drv, port, sent>>

DeliverAnswer ==
  /\ ctl.answer # Empty /\ ~Ready
  /\ ctl' = [ctl EXCEPT !.out = ctl.answer, !.answer = Empty]
  /\ UNCHANGED <<pc, drv, port, sent>>

(* A device begins to send a byte, which nothing stops any more. *)
DeviceSends ==
  /\ AtRest /\ ~Busy /\ ~Ready
  /\ \/ Port1ClockOff \notin ctl.config
     \/ Port2ClockOff \notin ctl.config /\ port.second \in {"works", "fails"}
  /\ sent.n < MaxDeviceBytes
  /\ ctl' = [ctl EXCEPT !.receiving = TRUE]
  /\ UNCHANGED <<pc, drv, port, sent>>

(* Before the discarding read and after the last answer a device's byte    *)
(* does no harm.                                                           *)
NoAnswerToCome == {"disable1", "disable2", "discard", "final", "finalData", "done", "panic"}

ReceiveByte ==
  /\ ctl.receiving
  /\ \E b \in DeviceBytes :
       ctl' = [ctl EXCEPT !.out = [by |-> "device", value |-> b], !.receiving = FALSE]
  /\ sent' = [n |-> sent.n + 1, harmful |-> sent.harmful \/ pc \notin NoAnswerToCome]
  /\ UNCHANGED <<pc, drv, port>>

-----------------------------------------------------------------------------
(* The driver.                                                             *)

Init ==
  /\ pc = "disable1"
  /\ drv = [config |-> {}, hasSecondPort |-> FALSE,
            firstPortWorking |-> FALSE, secondPortWorking |-> FALSE]
  /\ port \in [selfTest : BOOLEAN, first : {"works", "fails"},
               second : {"works", "fails", "single", "stuck"}]
  /\ \E c \in InitialConfigs, out \in {Empty} \cup {[by |-> "device", value |-> b] : b \in DeviceBytes} :
       ctl = [in |-> Empty, out |-> out, answer |-> Empty, receiving |-> FALSE,
              data |-> "DEVICE", config |-> Wired(c)]
  /\ sent = [n |-> 0, harmful |-> FALSE]

(* WritePS2Command, and the first half of the functions that go on to wait *)
(* for an answer or to write a data byte.                                  *)
WritePS2Command(from, command, to) ==
  /\ pc = from /\ ~Busy
  /\ ctl' = [ctl EXCEPT !.in = [by |-> "command", value |-> command]]
  /\ pc' = to
  /\ UNCHANGED <<drv, port, sent>>

(* Faulty variant: the wait is for the other status bit. *)
WriteConfigDataWrongBit(from, to) ==
  /\ pc = from /\ Ready
  /\ ctl' = [ctl EXCEPT !.in = [by |-> "data", value |-> drv.config]]
  /\ pc' = to
  /\ UNCHANGED <<drv, port, sent>>

(* The second half of WriteConfigurationByte. *)
WriteConfigData(from, to) ==
  /\ pc = from /\ ~Busy
  /\ ctl' = [ctl EXCEPT !.in = [by |-> "data", value |-> drv.config]]
  /\ pc' = to
  /\ UNCHANGED <<drv, port, sent>>

(* The wait for an answer and the read of it. *)
ReadAnswer(from) ==
  /\ pc = from /\ Ready
  /\ ctl' = [ctl EXCEPT !.out = Empty]
  /\ UNCHANGED <<port, sent>>

DisableDevices ==
  \/ WritePS2Command("disable1", "DISABLE_PORT1", "disable2")
  \/ WritePS2Command("disable2", "DISABLE_PORT2", "discard")

(* Faulty variant: the data port is not read. *)
DiscardDataPortMissing ==
  /\ pc = "discard"
  /\ pc' = "read"
  /\ UNCHANGED <<drv, ctl, port, sent>>

DiscardDataPort ==
  /\ pc = "discard"
  /\ ctl' = [ctl EXCEPT !.out = Empty]
  /\ pc' = "read"
  /\ UNCHANGED <<drv, port, sent>>

RetrieveConfig == WritePS2Command("read", "READ_CONFIG", "config")

ModifyConfig ==
  /\ ReadAnswer("config")
  /\ drv' = [drv EXCEPT !.hasSecondPort = Port2ClockOff \in ctl.out.value,
                        !.config = ctl.out.value \ {Port1Interrupt, Port2Interrupt, Translation}]
  /\ pc' = "save"

SaveConfig ==
  \/ WritePS2Command("save", "WRITE_CONFIG", "saveData")
  \/ WriteConfigData("saveData", "selfTest")

PerformPS2SelfTest ==
  \/ WritePS2Command("selfTest", "SELFTEST", "selfTestResult")
  \/ /\ ReadAnswer("selfTestResult")
     /\ pc' = IF ctl.out.value = SelfTestPassed THEN "restore" ELSE "panic"
     /\ UNCHANGED drv

(* Faulty variant: the self test is taken to leave the configuration alone. *)
RestoreConfigMissing ==
  /\ pc = "restore"
  /\ pc' = IF drv.hasSecondPort THEN "query" ELSE "test1"
  /\ UNCHANGED <<drv, ctl, port, sent>>

RestoreConfig ==
  \/ WritePS2Command("restore", "WRITE_CONFIG", "restoreData")
  \/ WriteConfigData("restoreData", IF drv.hasSecondPort THEN "query" ELSE "test1")

(* "Query the actual presence of the second channel" *)
QuerySecondPort ==
  \/ WritePS2Command("query", "ENABLE_PORT2", "queryRead")
  \/ WritePS2Command("queryRead", "READ_CONFIG", "queryResult")
  \/ /\ ReadAnswer("queryResult")
     /\ drv' = [drv EXCEPT !.config = ctl.out.value,
                           !.hasSecondPort = Port2ClockOff \notin ctl.out.value]
     /\ pc' = IF drv'.hasSecondPort THEN "disableAgain" ELSE "test1"
  \/ WritePS2Command("disableAgain", "DISABLE_PORT2", "test1")

(* Where the driver goes on once the ports are tested. *)
AfterTests(d) ==
  IF d.firstPortWorking THEN "enable1" ELSE IF d.secondPortWorking THEN "enable2" ELSE "panic"

TestPS2Ports ==
  \/ WritePS2Command("test1", "TEST_PORT1", "test1Result")
  \/ /\ ReadAnswer("test1Result")
     /\ drv' = [drv EXCEPT !.firstPortWorking = ctl.out.value = PortTestPassed]
     /\ pc' = IF drv.hasSecondPort THEN "test2" ELSE AfterTests(drv')
  \/ WritePS2Command("test2", "TEST_PORT2", "test2Result")
  \/ /\ ReadAnswer("test2Result")
     /\ drv' = [drv EXCEPT !.secondPortWorking = ctl.out.value = PortTestPassed]
     /\ pc' = AfterTests(drv')

EnableDevices ==
  \/ WritePS2Command("enable1", "ENABLE_PORT1",
                     IF drv.secondPortWorking THEN "enable2" ELSE "finalRead")
  \/ WritePS2Command("enable2", "ENABLE_PORT2", "finalRead")

EnableInterrupts ==
  \/ WritePS2Command("finalRead", "READ_CONFIG", "finalResult")
  \/ /\ ReadAnswer("finalResult")
     /\ drv' = [drv EXCEPT !.config =
                  ctl.out.value \cup (IF drv.firstPortWorking THEN {Port1Interrupt} ELSE {})
                                \cup (IF drv.secondPortWorking THEN {Port2Interrupt} ELSE {})]
     /\ pc' = "final"
  \/ WritePS2Command("final", "WRITE_CONFIG", "finalData")
  \/ WriteConfigData("finalData", "done")

Controller == ProcessCommand \/ ProcessData \/ DeliverAnswer \/ ReceiveByte

Driver ==
  \/ DisableDevices \/ DiscardDataPort \/ RetrieveConfig \/ ModifyConfig \/ SaveConfig
  \/ PerformPS2SelfTest \/ RestoreConfig \/ QuerySecondPort \/ TestPS2Ports
  \/ EnableDevices \/ EnableInterrupts

Next == Controller \/ Driver \/ DeviceSends

(* The driver runs with interrupts disabled, so nothing keeps it from its  *)
(* next step; the controller is taken to answer every command.             *)
Spec == Init /\ [][Next]_vars /\ WF_vars(Driver) /\ WF_vars(Controller)

-----------------------------------------------------------------------------
AnswerTo ==
  [config |-> "READ_CONFIG", selfTestResult |-> "SELFTEST", queryResult |-> "READ_CONFIG",
   test1Result |-> "TEST_PORT1", test2Result |-> "TEST_PORT2", finalResult |-> "READ_CONFIG"]

(* What the driver takes for the answer to a command is the controller's   *)
(* answer to that command, whatever lay in the output buffer before, as    *)
(* long as no device sends a byte while answers are still to come.  The    *)
(* code does not exclude that: the discarding read does not wait until the *)
(* second port has been disabled, and the ports are enabled again before   *)
(* the configuration is read for the last time.                            *)
AnswersAreOwn ==
  ~sent.harmful /\ Ready /\ pc \in DOMAIN AnswerTo => ctl.out.by = AnswerTo[pc]

(* When the initialisation is over the driver reports exactly the ports    *)
(* that work, and only those have their clock and their interrupt on, with *)
(* translation off, whatever the firmware or the self test had set and     *)
(* however a missing second port shows; the kernel panics only if the      *)
(* controller fails its test or no port works.                             *)
PortsAreSetUp ==
  LET works1 == port.first = "works"
      works2 == port.second = "works"
  IN  ~Busy /\ ~sent.harmful =>
        /\ pc = "done" =>
             /\ drv.firstPortWorking = works1 /\ drv.secondPortWorking = works2
             /\ Port1Interrupt \in ctl.config <=> works1
             /\ Port2Interrupt \in ctl.config <=> works2
             /\ Port1ClockOff \notin ctl.config <=> works1
             /\ port.second # "single" => (Port2ClockOff \notin ctl.config <=> works2)
             /\ Translation \notin ctl.config
        /\ pc = "panic" => ~(port.selfTest /\ (works1 \/ works2))

(* No busy loop waits for ever, even if devices send at the wrong time and *)
(* their bytes are taken for answers: the initialisation ends.             *)
InitialisationEnds == <>(pc \in {"done", "panic"})
=============================================================================

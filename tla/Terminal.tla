------------------------------ MODULE Terminal ------------------------------
(***************************************************************************)
(* What the shell promises its user: a log that keeps the most recent      *)
(* characters, and at its end a prompt and a line that can be edited and   *)
(* entered.  Rings, scrolling and screens are not mentioned.  Nothing is   *)
(* promised once a key was pressed before the prompt was complete.         *)
(***************************************************************************)
EXTENDS Naturals, SequencesExt

CONSTANTS Capacity, MaxLine, Prompt, Banner, EndOfLine, Characters,
          Respond(_)  \* line -> [clears, halts, output]

VARIABLES log, line, phase

terminalVars == <<log, line, phase>>

Keep(text) == IF Len(text) <= Capacity THEN text
              ELSE SubSeq(text, Len(text) - Capacity + 1, Len(text))

Init == log = <<>> /\ line = <<>> /\ phase = "booting"

ShowBanner == phase = "booting" /\ log' = Keep(Banner) /\ phase' = "printed" /\ UNCHANGED line

ShowPrompt ==
  phase = "printed" /\ log' = Keep(log \o Prompt) /\ phase' = "ready" /\ UNCHANGED line

Type(c) ==
  /\ phase = "ready" /\ Len(line) < MaxLine
  /\ line' = Append(line, c) /\ log' = Keep(Append(log, c))
  /\ UNCHANGED phase

Erase ==
  /\ phase = "ready" /\ line # <<>>
  /\ line' = Front(line) /\ log' = Front(log)
  /\ UNCHANGED phase

Enter ==
  LET response == Respond(line)
      entered == Keep(Append(log, EndOfLine))
      answered == IF response.clears THEN <<>> ELSE Keep(entered \o response.output)
  IN  /\ phase = "ready"
      /\ IF response.halts
         THEN phase' = "halted" /\ log' = entered /\ UNCHANGED line
         ELSE line' = <<>> /\ log' = Keep(answered \o Prompt) /\ UNCHANGED phase

Spoil == phase' = "spoiled" /\ log' = <<>> /\ line' = <<>>

Next ==
  \/ ShowBanner \/ ShowPrompt
  \/ \E c \in Characters : Type(c)
  \/ Erase \/ Enter \/ Spoil

Spec == Init /\ [][Next]_terminalVars
=============================================================================

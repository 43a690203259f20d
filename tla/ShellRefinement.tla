-------------------------- MODULE ShellRefinement --------------------------
(* The shell implements Terminal: the log is the text in the ring. *)
EXTENDS Shell

(* What a line is answered with, said by its first word. *)
Response(typed) ==
  LET line == DropWhile(typed, IsSpace)
      name == SubSeq(line, 1, Len(line) - Len(DropWhile(line, LAMBDA c : c # Space)))
      named == {b \in Builtins : b.text = name}
      builtin == CHOOSE b \in named : TRUE
      effect == IF named # {} THEN builtin.effect
                ELSE IF name = <<>> \/ Head(name) = Hash THEN "none" ELSE "error"
  IN  [clears |-> effect = "clear",
       halts |-> effect = "reset",
       output |-> CASE effect = "echo" -> Append(ExtractArguments(line), NewLine)
                    [] effect = "print" -> builtin.output
                    [] effect = "error" -> ErrorText
                    [] OTHER -> <<>>]

Phase ==
  CASE early > 0 -> "spoiled"
    [] early = 0 /\ ~sh.running -> "halted"
    [] early = 0 /\ At("print") -> "booting"
    [] early = 0 /\ \E pc \in {"enable", "puts", "putting", "put"} : At(pc) -> "printed"
    [] OTHER -> "ready"

T == INSTANCE Terminal WITH
       Capacity <- RingSize - 1, MaxLine <- MaxCommand, Prompt <- PromptText,
       Banner <- BootText, EndOfLine <- NewLine, Characters <- TypedChars \ {NewLine},
       Respond <- Response,
       log <- IF early > 0 THEN <<>> ELSE Text(sh),
       line <- IF early > 0 THEN <<>> ELSE sh.command,
       phase <- Phase

(* Every step of the shell is a step of the terminal or changes nothing    *)
(* the terminal shows: the ring holds the most recent RingSize - 1         *)
(* characters in order, backspace removes the character it removes from    *)
(* the line, and each command answers what its name promises.              *)
ImplementsTerminal == T!Spec
=============================================================================

------------------------------ MODULE MCShell ------------------------------
(* Small consoles, one of the characters wider than the others, and a ring *)
(* that fills up after a few commands.                                     *)
EXTENDS ShellRefinement

Widths == [c \in {"e", "c", "x", "?", ">", "SP", "#", "h", "w", "NUL"} |->
             CASE c = "w" -> 2 [] c = "NUL" -> 0 [] OTHER -> 1]

Prompt == <<">", "#">>
Banner == <<"h", "NL", "NL", "NL">>
Unknown == <<"?", "NL">>

Command(text, effect, output) == [text |-> text, effect |-> effect, output |-> output]
Commands == {Command(<<"e">>, "echo", <<>>), Command(<<"c">>, "clear", <<>>),
             Command(<<"h">>, "print", <<"h", "NL", "NL", "h", "NL">>),
             Command(<<"x">>, "reset", <<>>)}

TypedKeys == {"e", "c", "h", "x", "w", "SP", "NL"}
AllKeys == TypedKeys \cup {BackspaceKey}

(* Three lines of four characters, without and with keys during the        *)
(* activation of the prompt; and a single line, on which everything above  *)
(* the prompt has scrolled away and more keys come early than the prompt   *)
(* has characters.                                                         *)
MCSessions ==
  {[width |-> 4, height |-> 4, keys |-> AllKeys, events |-> 5, early |-> 0],
   [width |-> 4, height |-> 4, keys |-> AllKeys, events |-> 4, early |-> 2],
   [width |-> 8, height |-> 1, keys |-> {"e", BackspaceKey}, events |-> 6, early |-> 3]}
=============================================================================

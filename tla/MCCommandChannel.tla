--------------------------- MODULE MCCommandChannel ---------------------------
(***************************************************************************)
(* CommandChannel for TLC: a switch there and back, a save and a plain     *)
(* command, created in any order.                                          *)
(***************************************************************************)
EXTENDS CommandChannel

MCCommands == {"enter", "exit", "save", "say"}
MCKindOf == [c \in MCCommands |->
               CASE c = "enter" -> "mapping" [] c = "exit" -> "normal"
                 [] c = "save" -> "save" [] c = "say" -> "plain"]
=============================================================================

--------------------------- MODULE MCToolConsole ---------------------------
(* A small instance of ToolConsole for TLC. *)
EXTENDS ToolConsole

\* A shell's block is seven lines of stdin and has many states: there the records are all that
\* is written, with what is printed of lines taken from stdin.
MCMaxUnits == [l \in Languages |-> IF l = "tcl" THEN 1 ELSE 0]
=============================================================================

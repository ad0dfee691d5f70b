----------------------------- MODULE MCConsole -----------------------------
(***************************************************************************)
(* The wall clock, and an application task that registers the same command *)
(* and may exit.                                                           *)
(***************************************************************************)
EXTENDS Console
MCHandlers  == {"clock", "app"}
MCRegisters == [h \in Handlers |-> "T"]

\* Two commands and one more key, when the mailbox of a handler that has exited has
\* room for one, and a line that is completed by what the one before has left in the
\* buffer.
MCScripts == {<<"%", "T", "enter", "%", "T", "enter", "%">>,
              <<"%", "L", "T", "enter", "%", "L", "enter">>}
=============================================================================

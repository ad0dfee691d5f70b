------------------------------ MODULE MCSystem ------------------------------
(***************************************************************************)
(* Two tasks beside the null one: one that boots and may become real-time, *)
(* with a mailbox of its own, and one it creates.                          *)
(***************************************************************************)
EXTENDS System
MCSystemTids == <<MAX_TASKS - 1>>
MCBootInfos  == [prio : {2}, priv : {FALSE}]
=============================================================================

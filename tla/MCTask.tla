------------------------------- MODULE MCTask -------------------------------
(***************************************************************************)
(* Four tasks beside the null one: the console display task, which boots   *)
(* alone or with one application task, and the tasks they create.          *)
(***************************************************************************)
EXTENDS KTask

MCSystemTids == <<MAX_TASKS - 1>>
MCBootInfos  == [prio : {2}, priv : {FALSE}]
MCCallPrios  == {1, 2, 3}
=============================================================================

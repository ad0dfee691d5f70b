------------------------------- MODULE MCMsg -------------------------------
(***************************************************************************)
(* Three tasks beside the null one: the KCD, which boots, and two it       *)
(* creates; mailboxes of two or three units and messages of one or two.    *)
(***************************************************************************)
EXTENDS KMsg

MCSystemTids == <<MAX_TASKS - 1>>
MCBootInfos  == [prio : {2}, priv : {FALSE}]
MCCallPrios  == {1, 2}
=============================================================================

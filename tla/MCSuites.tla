------------------------------ MODULE MCSuites ------------------------------
(***************************************************************************)
(* Room for the four tasks a suite has, and the three system tasks.        *)
(***************************************************************************)
EXTENDS Suites
MCSystemTids == <<MAX_TASKS - 2, MAX_TASKS - 1, MAX_TASKS - 3>>
MCBootInfos  == [prio : {HIGH_INDEX, 2}, priv : BOOLEAN]
=============================================================================

----------------------------- MODULE MCRealTime -----------------------------
EXTENDS RealTime
MCSystemTids == <<MAX_TASKS - 1>>
MCBootInfos  == [prio : {2}, priv : {FALSE}]
MCCallPrios  == {1}
=============================================================================

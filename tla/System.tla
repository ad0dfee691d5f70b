------------------------------- MODULE System -------------------------------
(***************************************************************************)
(* The kernel as a whole: the calls of KMsg and those of RealTime, and the *)
(* two interrupts, on one set of tasks.  Nothing is added to either: every *)
(* step is one of theirs, with the state of the other left alone.          *)
(***************************************************************************)
EXTENDS KMsg, RealTime

sysVars == <<taskVars, msgVars, rtVars>>

SysInit == /\ MsgInit
           /\ g_timer_count = 0
           /\ tsk_period = [t \in Tasks |-> 0]

\* A switched-out k_recv_msg goes on before anything else of its task does.
SysNext == \/ MsgNext /\ UNCHANGED rtVars
           \/ Running /\ RtCalls /\ UNCHANGED msgVars
           \/ Running /\ Tick /\ UNCHANGED msgVars

SysSpec == SysInit /\ [][SysNext]_sysVars

----------------------------------------------------------------------------
\* "rt_tsk_susp(); // wait till its next period" (ae_tasks.c:128): the task that
\* gives up the rest of its period is not the one that runs next, unless its next
\* period has begun.
SuspensionWaits ==
    [][\A t \in Tasks :
         Running /\ gp_current_task = t /\ RtTskSusp /\ gp_current_task' = t
            => Begins(t)' <= g_timer_count]_sysVars
=============================================================================

------------------------------ MODULE RealTime ------------------------------
(***************************************************************************)
(* Real-time tasks: the rt_tsk calls of k_task.c and the timer interrupt   *)
(* of timer.c, on top of the scheduler.                                    *)
(*                                                                         *)
(* Time is g_timer_count, in ticks of RTX_TICK_SIZE microseconds; only the *)
(* timer interrupt moves it, by what TIMER1 says has passed, which is more *)
(* than a tick when the kernel has kept the interrupt waiting.             *)
(***************************************************************************)
EXTENDS KTask

CONSTANTS
    Periods,        \* the periods, in ticks, that tasks pass to rt_tsk_set
    MaxLate,        \* an interrupt finds at most this many ticks gone by
    Horizon         \* bound on g_timer_count, a U32 in the code

ASSUME RealTimeAssumption ==
    /\ Periods \subseteq Nat
    /\ MaxLate \in Nat \ {0}
    /\ Horizon \in Nat

VARIABLES
    g_timer_count,
    tsk_period          \* the field of that name of each TCB

rtVars       == <<g_timer_count, tsk_period>>
realTimeVars == <<taskVars, rtVars>>

\* The kernel memory with the clock in it, and the step to another one.
RtKernel == [tcb |-> tcb, queue |-> queue, cur |-> gp_current_task, ub |-> ub,
             now |-> g_timer_count, period |-> tsk_period]
RtBecomes(k) == /\ Becomes(k)
                /\ g_timer_count' = k.now
                /\ tsk_period' = k.period
                /\ UNCHANGED <<g_num_active_tasks, booted, exited>>

----------------------------------------------------------------------------
(***************************************************************************)
(* The calls.                                                              *)
(***************************************************************************)
\* Mutant of Promote: the period gets the tick that belongs to the deadline.
PromotePlusOne(k, period) ==
    LET t == k.cur
        r == [k EXCEPT !.period[t] = period + 1,
                       !.tcb[t] = [@ EXCEPT !.real_time = TRUE, !.prio = RT_INDEX,
                                            !.tsk_deadline = k.now + 1 + period,
                                            !.state = "READY"]]
    IN  Run(Dispatch(PushTailReady(r, t)))

\* The caller becomes a real-time task, and the earliest deadline runs.
Promote(k, period) ==
    LET t == k.cur
        r == [k EXCEPT !.period[t] = period,
                       !.tcb[t] = [@ EXCEPT !.real_time = TRUE,
                                            !.tsk_deadline = k.now + 1 + period,
                                            !.prio = RT_INDEX, !.state = "READY"]]
    IN  Run(Dispatch(PushTailReady(r, t)))

\* k_rt_tsk_set.  The test at its head rejects no period: it asks for one that
\* is zero and no multiple of 2500 microseconds at once.
RtTskSet(period) ==
    /\ Up /\ ~Cur.real_time
    /\ RtBecomes(Promote(RtKernel, period))

\* The processor's division, which yields 0 for a divisor of 0.
Quotient(n, p) == IF p = 0 THEN 0 ELSE n \div p

\* Mutant of NextDeadline: one period too few is given up.
NextDeadlineShort(d, p, now) == IF d < now THEN d + Quotient(now - d, p) * p ELSE d + p

\* A job that is late gives up the periods that have passed.
NextDeadline(d, p, now) ==
    IF d < now THEN d + (Quotient(now - d, p) + 1) * p ELSE d + p

Suspend(k) ==
    LET t == k.cur
        d == NextDeadline(k.tcb[t].tsk_deadline, k.period[t], k.now)
        s == [k EXCEPT !.tcb[t] = [@ EXCEPT !.state = "SUSPENDED", !.tsk_deadline = d]]
    IN  Run(Dispatch(PushTail(s, t, SuspendQ)))

\* k_rt_tsk_susp
RtTskSusp ==
    /\ Up /\ Cur.real_time
    /\ RtBecomes(Suspend(RtKernel))

----------------------------------------------------------------------------
(***************************************************************************)
(* The timer interrupt, taken only between kernel calls.                   *)
(***************************************************************************)
Due(k, t) == k.tcb[t].tsk_deadline - k.period[t] <= k.now

\* Mutants of Release: the job is made READY where it is, or moved as it is.
ReleaseInPlace(k, t) ==
    IF ~Due(k, t) THEN k ELSE PushTailReady([k EXCEPT !.tcb[t].state = "READY"], t)
ReleaseSuspended(k, t) ==
    IF ~Due(k, t) THEN k ELSE PushTailReady(PopTask(k, t, SuspendQ), t)

\* One turn of the loop over suspend_tsk.
Release(k, t) ==
    IF ~Due(k, t) THEN k
    ELSE PushTailReady([PopTask(k, t, SuspendQ) EXCEPT !.tcb[t].state = "READY"], t)

\* The turns of the loop over the nodes of path, one after the other.
Turns(k, path) ==
    LET after[i \in 0 .. Len(path)] == IF i = 0 THEN k ELSE Release(after[i - 1], path[i])
    IN  after[Len(path)]

\* Mutant of ReleaseAll: the loop stops at the first job that is not due, as the
\* one commented out in the source does.
ReleaseFirst(k) ==
    LET path == Nodes(k, SuspendQ)
        keep == {i \in 1 .. Len(path) : ~Due(k, path[i])}
        n    == IF keep = {} THEN Len(path) ELSE (CHOOSE i \in keep : \A j \in keep : i <= j) - 1
    IN  Turns(k, SubSeq(path, 1, n))

\* The link to the next node is read before the node is taken off.
ReleaseAll(k) == Turns(k, Nodes(k, SuspendQ))

\* What scheduler() returned goes back to the head of its ready queue: the null
\* task, which it returns when nothing is ready, to ready_queue[5], past the end
\* of the array.  That write spoils a variable of the kernel, or one of no use.
PutBack(k, t, spoils) ==
    IF InBounds(k.tcb[t].prio) THEN PushHeadReady(k, t)
    ELSE [k EXCEPT !.tcb[t].state = "READY", !.ub = spoils]

\* The task old, queued again in d, is preempted by the one the scheduler chose.
SwitchFrom(d, old) == [Run(d) EXCEPT !.tcb[old].state = "READY"]

\* Mutant of PreemptRT: a job is not preempted.
PreemptRTNever(r, spoils) ==
    PutBack([Dispatch(r) EXCEPT !.cur = r.cur], Dispatch(r).cur, spoils)

\* A running real-time task gives way to an earlier deadline only.
PreemptRT(r, spoils) ==
    LET old == r.cur
        d   == Dispatch(r)
    IN  IF /\ d.tcb[d.cur].real_time
           /\ d.tcb[d.cur].tsk_deadline < d.tcb[old].tsk_deadline
        THEN SwitchFrom(PushTailReady(d, old), old)
        ELSE PutBack([d EXCEPT !.cur = old], d.cur, spoils)

\* Any other running task gives way to real-time tasks only.
PreemptNRT(r, spoils) ==
    LET old == r.cur
        d   == Dispatch(r)
    IN  IF d.cur = TID_NULL THEN r
        ELSE IF d.tcb[d.cur].real_time THEN SwitchFrom(PushHeadReady(d, old), old)
        ELSE PutBack([d EXCEPT !.cur = old], d.cur, spoils)

\* Mutant of Elapse: a task stays suspended until the processor is idle.
ElapseIdleOnly(k, now, spoils) ==
    LET c == [k EXCEPT !.now = now]
        d == Dispatch(ReleaseAll(c))
    IN  IF c.cur # TID_NULL THEN c ELSE IF d.cur = TID_NULL THEN d ELSE Run(d)

\* TIMER0_IRQHandler, when TIMER1 reads now.  The store through suspend_tsk.HEAD
\* goes to address NULL when nothing is suspended.
Elapse(k, now, spoils) ==
    LET c   == [k EXCEPT !.now = now,
                         !.ub = IF k.queue[SuspendQ].HEAD = NULL THEN spoils ELSE @]
        r   == ReleaseAll(c)
        old == r.cur
        d   == Dispatch(r)
    IN  IF old = TID_NULL THEN (IF d.cur = TID_NULL THEN r ELSE Run(d))
        ELSE IF ~r.tcb[old].real_time THEN PreemptNRT(r, spoils)
        ELSE IF r.tcb[old].state \in {"DORMANT", "SUSPENDED", "READY"} THEN Run(d)
        ELSE IF r.tcb[old].state = "RUNNING" THEN PreemptRT(r, spoils)
        ELSE r

\* The timer is started by k_tsk_init, before the first task runs.
Tick ==
    /\ Up
    /\ \E late \in 1 .. MaxLate, spoils \in BOOLEAN :
          /\ g_timer_count + late <= Horizon
          /\ RtBecomes(Elapse(RtKernel, g_timer_count + late, spoils))

----------------------------------------------------------------------------
RtInit == /\ Init
          /\ g_timer_count = 0
          /\ tsk_period = [t \in Tasks |-> 0]

RtCalls == \/ \E p \in Periods : UserTask /\ RtTskSet(p)
           \/ RtTskSusp

RtNext == \/ (Boot \/ Calls) /\ UNCHANGED rtVars
          \/ RtCalls
          \/ Tick

RtSpec == RtInit /\ [][RtNext]_realTimeVars

\* The timer, started before the first task runs, keeps ticking: of the steps of
\* the system, Ticks are those that move g_timer_count.
Ticks == /\ Up /\ g_timer_count < Horizon
         /\ g_timer_count' \in g_timer_count + 1 .. g_timer_count + MaxLate

\* A real-time task ends its jobs: one that does not will "make the job taking
\* over the cpu and makes all other tasks starved" (ae_tasks.c:114).
EndsJobs(t) == <>[](Up /\ gp_current_task = t /\ Cur.real_time)
                  => []<><<RtTskSusp /\ gp_current_task = t>>_realTimeVars

RtFairSpec == /\ RtSpec
              /\ WF_g_timer_count(Ticks)
              /\ \A t \in Tasks : EndsJobs(t)

----------------------------------------------------------------------------
(***************************************************************************)
(* Properties.                                                             *)
(***************************************************************************)
RtTypeOK ==
    /\ TypeOK
    /\ g_timer_count \in 0 .. Horizon
    /\ tsk_period \in [Tasks -> Periods \cup {0}]

Ready(t) == tcb[t].state = "READY" /\ tcb[t].real_time

\* Earliest deadline first, at every moment and not only at a tick: no real-time
\* job is ready while a task runs that is not one, or has a later deadline.
EarliestDeadlineFirst ==
    Up => \A t \in Tasks : Ready(t) =>
             Cur.real_time /\ Cur.tsk_deadline <= tcb[t].tsk_deadline

\* The suspended tasks are those of suspend_tsk, each there once; a real-time
\* task that is neither is ready, running or has exited.
SuspendedExact ==
    /\ WellLinked(Kernel, SuspendQ)
    /\ TasksOf(Kernel, SuspendQ) = {t \in Tasks : tcb[t].state = "SUSPENDED"}

\* The interrupt leaves no job behind whose period has begun: the walk over
\* suspend_tsk goes on past the nodes it takes off it.
ReleasedOnTime ==
    [][g_timer_count' # g_timer_count =>
         \A t \in TasksOf(Kernel', SuspendQ) : ~Due(RtKernel', t)]_realTimeVars

\* The deadlines of a task stay on the grid its first one began, and a late job
\* gives up the periods that are over and no other: its next deadline is still to
\* come, and the period that ends there has begun by now or follows the last one.
MaxOf(a, b) == IF a > b THEN a ELSE b
DeadlinesOnGrid ==
    [][\A t \in Tasks :
         tcb[t].state = "RUNNING" /\ tcb'[t].state = "SUSPENDED" /\ tsk_period[t] > 0 =>
            LET d == tcb[t].tsk_deadline
                e == tcb'[t].tsk_deadline
            IN  /\ (e - d) % tsk_period[t] = 0
                /\ e > MaxOf(d, g_timer_count)
                /\ e - tsk_period[t] <= MaxOf(d, g_timer_count)
      ]_realTimeVars

\* As long as every job ends, a job that has been released gets to run, and so
\* does the one of a suspended task whose period begins within the horizon.
Begins(t) == tcb[t].tsk_deadline - tsk_period[t]
EveryJobRuns ==
    \A t \in Tasks \ {TID_NULL} :
        (\/ Up /\ Ready(t)
         \/ Up /\ tcb[t].state = "SUSPENDED" /\ g_timer_count < Horizon /\ Begins(t) <= Horizon)
        ~> (gp_current_task = t \/ ub)
=============================================================================

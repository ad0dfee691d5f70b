------------------------------- MODULE KTask -------------------------------
(***************************************************************************)
(* Tasks and the scheduler: k_task.c without the real-time calls.          *)
(*                                                                         *)
(* One action per system call, made by the current task.  Kernel calls run *)
(* in the SVC handler at priority 0, above every interrupt: each is one    *)
(* atomic step.  The step maps the kernel memory k, which holds the TCBs,  *)
(* the queues, gp_current_task and the flag ub, through the same sequence  *)
(* of queue operations as the C function; its early returns with an error  *)
(* change nothing and are the conjuncts of the guard.                      *)
(***************************************************************************)
EXTENDS PriorityQueue

CONSTANTS
    SystemTids,     \* <<TID_CON, TID_KCD, TID_WCLCK>>, in the order of their creation
    CallPrios,      \* the priorities tasks ask for in tsk_create and tsk_set_prio
    BootInfos,      \* the [prio, priv] the application may give a boot-time task
    MaxBootTasks    \* the application boots at most this many tasks of its own

Reserved == Len(SystemTids)
FirstReserved == MAX_TASKS - Reserved         \* TID_WCLCK, the lowest reserved id

ASSUME SystemTidsAssumption ==
    /\ SystemTids \in Seq(Tasks)
    /\ Reserved >= 1 /\ Reserved < MAX_TASKS
    /\ \A i \in 1 .. Reserved : SystemTids[i] >= FirstReserved
    /\ \A i, j \in 1 .. Reserved : SystemTids[i] = SystemTids[j] => i = j
ASSUME BootInfosAssumption ==
    BootInfos \subseteq [prio : RT_INDEX .. LOWEST_INDEX, priv : BOOLEAN]
ASSUME CallPriosAssumption == CallPrios \subseteq Prio
ASSUME MaxBootAssumption == MaxBootTasks \in Nat /\ MaxBootTasks < MAX_TASKS

VARIABLES
    tcb,                  \* g_tcbs
    queue,                \* ready_queue, suspend_tsk and the waiting lists
    gp_current_task,
    g_num_active_tasks,
    ub,                   \* the code has done something C leaves undefined
    booted,               \* the creations k_tsk_init has gone through, Finished at its end
    exited                \* history: the tasks that have called tsk_exit

kernelVars == <<tcb, queue, gp_current_task, ub>>
taskVars   == <<kernelVars, g_num_active_tasks, booted, exited>>

\* The kernel memory as one value, and the step to another one.
Kernel == [tcb |-> tcb, queue |-> queue, cur |-> gp_current_task, ub |-> ub]
Becomes(k) == /\ tcb' = k.tcb
              /\ queue' = k.queue
              /\ gp_current_task' = k.cur
              /\ ub' = k.ub

\* ready_queue[prio]: the null priority indexes past the end of the array.
InBounds(p)          == p # NULL_INDEX
PushHeadReady(k, t)  == IF InBounds(k.tcb[t].prio) THEN PushHead(k, t, ReadyQ(k.tcb[t].prio))
                        ELSE [k EXCEPT !.ub = TRUE]
PushTailReady(k, t)  == IF InBounds(k.tcb[t].prio) THEN PushTail(k, t, ReadyQ(k.tcb[t].prio))
                        ELSE [k EXCEPT !.ub = TRUE]

----------------------------------------------------------------------------
(***************************************************************************)
(* The scheduler.                                                          *)
(***************************************************************************)
NonEmptyLevels(k) == {i \in RT_INDEX .. LOWEST_INDEX : k.queue[ReadyQ(i)].HEAD # NULL}

\* Mutant of FirstLevel: the ready queues are searched from the other end.
FirstLevelDown(k) == CHOOSE i \in NonEmptyLevels(k) : \A j \in NonEmptyLevels(k) : i >= j

FirstLevel(k)     == CHOOSE i \in NonEmptyLevels(k) : \A j \in NonEmptyLevels(k) : i <= j

\* Mutant of Dispatch: NULL when nothing is ready, as the comment on its last
\* line says.
DispatchNull(k) ==
    IF NonEmptyLevels(k) = {} THEN [k EXCEPT !.cur = NULL]
    ELSE LET q == ReadyQ(FirstLevel(k))
         IN  [PopHead(k, q) EXCEPT !.cur = k.queue[q].HEAD]

\* scheduler(), whose result every caller makes the current task.
Dispatch(k) ==
    IF NonEmptyLevels(k) = {} THEN [k EXCEPT !.cur = TID_NULL]
    ELSE LET q == ReadyQ(FirstLevel(k))
         IN  [PopHead(k, q) EXCEPT !.cur = k.queue[q].HEAD]

\* gp_current_task->state = RUNNING, after the task k has chosen.
Run(k) == [k EXCEPT !.tcb[k.cur].state = "RUNNING"]

Parked == {"BLK_RECV", "BLK_SEND", "SUSPENDED"}

\* k_tsk_run_new: a real-time caller keeps the processor whatever its state.
RunNew(k) ==
    LET old == k.cur
        d   == Dispatch(k)
    IN  IF k.tcb[old].real_time THEN k
        ELSE IF d.cur = old THEN d
        ELSE [Run(d) EXCEPT !.tcb[old].state = IF @ \in Parked THEN @ ELSE "READY"]

\* The caller goes back to the head of its own ready queue and the scheduler picks.
Preempt(k) == RunNew(PushHeadReady(k, k.cur))

----------------------------------------------------------------------------
(***************************************************************************)
(* k_tsk_init: the null task, the system tasks at HIGH, then the           *)
(* application's tasks in order, then the first dispatch.                  *)
(***************************************************************************)
Finished == MAX_TASKS + 1
Booting  == booted # Finished
Up       == ~Booting /\ ~ub

\* k_tsk_create_new: the fields it writes; the links are not among them.
Created(T, prio, priv) ==
    [T EXCEPT !.state = "READY", !.prio = prio, !.priv = priv,
              !.real_time = FALSE, !.tsk_deadline = 0]
CreateNew(k, t, prio, priv) == [k EXCEPT !.tcb[t] = Created(@, prio, priv)]

Init ==
    /\ tcb = [t \in Tasks |-> IF t = TID_NULL THEN Created(ZeroTCB, NULL_INDEX, FALSE)
                              ELSE ZeroTCB]
    /\ queue = [q \in Queues |-> EmptyQUEUE]
    /\ gp_current_task = TID_NULL
    /\ g_num_active_tasks = 1
    /\ ub = FALSE
    /\ booted = 0
    /\ exited = {}

\* Only the console display task, the first of them, is privileged.
BootSystemTask ==
    /\ booted < Reserved
    /\ Becomes(PushTailReady(CreateNew(Kernel, SystemTids[booted + 1], HIGH_INDEX, booted = 0),
                             SystemTids[booted + 1]))
    /\ g_num_active_tasks' = g_num_active_tasks + 1
    /\ booted' = booted + 1
    /\ UNCHANGED exited

\* An iteration of the loop over task[], whose p_tcb is &g_tcbs[i + 1].  The
\* function has already returned if num_tasks is above MAX_TASKS - 3.
BootTask ==
    /\ booted >= Reserved
    /\ booted - Reserved < MaxBootTasks
    /\ booted - Reserved < MAX_TASKS - Reserved
    /\ \/ \E info \in BootInfos :
             /\ Becomes(PushTailReady(
                    CreateNew(Kernel, booted - Reserved + 1, info.prio, info.priv),
                    booted - Reserved + 1))
             /\ g_num_active_tasks' = g_num_active_tasks + 1
       \/ UNCHANGED <<kernelVars, g_num_active_tasks>>   \* no memory for the stack
    /\ booted' = booted + 1
    /\ UNCHANGED exited

BootDone ==
    /\ Booting /\ booted >= Reserved
    /\ Becomes(Run(Dispatch(Kernel)))
    /\ booted' = Finished
    /\ UNCHANGED <<g_num_active_tasks, exited>>

----------------------------------------------------------------------------
(***************************************************************************)
(* The system calls.                                                       *)
(***************************************************************************)
Cur == tcb[gp_current_task]

\* Mutant of Yield: without the test for the null priority.
YieldUnguarded ==
    /\ Up /\ Cur.state = "RUNNING" /\ ~Cur.real_time
    /\ Becomes(RunNew(PushTailReady(Kernel, gp_current_task)))
    /\ UNCHANGED <<g_num_active_tasks, booted, exited>>

\* k_tsk_yield
Yield ==
    /\ Up /\ Cur.state = "RUNNING" /\ ~Cur.real_time
    /\ Becomes(RunNew(IF Cur.prio = NULL_INDEX THEN Kernel
                      ELSE PushTailReady(Kernel, gp_current_task)))
    /\ UNCHANGED <<g_num_active_tasks, booted, exited>>

\* The id k_tsk_create's loop stops at, FirstReserved when it finds none free.
FreeSlots == {t \in 1 .. FirstReserved - 1 : tcb[t].state = "DORMANT"}
NewTid    == IF FreeSlots = {} THEN FirstReserved
             ELSE CHOOSE t \in FreeSlots : \A u \in FreeSlots : t <= u

\* Mutants of Create: the new task never preempts its creator, and it enters its
\* ready queue at the head.
CreateNoPreempt(prio) ==
    /\ Up
    /\ tcb[NewTid].state = "DORMANT"
    /\ Becomes(PushTailReady(CreateNew(Kernel, NewTid, prio, FALSE), NewTid))
    /\ UNCHANGED <<g_num_active_tasks, booted, exited>>
CreateAtHead(prio) ==
    LET t == NewTid
        k == CreateNew(Kernel, t, prio, FALSE)
    IN  /\ Up
        /\ tcb[t].state = "DORMANT"
        /\ Becomes(IF prio >= Cur.prio THEN PushHeadReady(k, t)
                   ELSE PushHeadReady(Run([k EXCEPT !.cur = t]), gp_current_task))
        /\ UNCHANGED <<g_num_active_tasks, booted, exited>>

\* k_tsk_create, with the stack allocated: the error returns change nothing.
Create(prio) ==
    LET t == NewTid
        k == CreateNew(Kernel, t, prio, FALSE)
        p == PushHeadReady(Run([k EXCEPT !.cur = t]), gp_current_task)
    IN  /\ Up
        /\ tcb[t].state = "DORMANT"
        /\ Becomes(IF prio >= Cur.prio THEN PushTailReady(k, t) ELSE p)
        /\ UNCHANGED <<g_num_active_tasks, booted, exited>>

\* Mutant of Exit: a task that exits is put back on its ready queue.
ExitRequeues ==
    /\ Up
    /\ Becomes(RunNew(PushTailReady(Kernel, gp_current_task)))
    /\ exited' = exited \cup {gp_current_task}
    /\ UNCHANGED <<g_num_active_tasks, booted>>

\* k_tsk_exit: the branch that would make the task DORMANT and free its
\* memory is the one taken when gp_current_task is NULL.
Exit ==
    /\ Up
    /\ Becomes(Run(Dispatch(Kernel)))
    /\ exited' = exited \cup {gp_current_task}
    /\ UNCHANGED <<g_num_active_tasks, booted>>

\* The checks of k_tsk_set_prio.
MaySetPrio(t, prio) ==
    /\ tcb[t].prio # NULL_INDEX /\ prio # NULL_INDEX
    /\ tcb[t].priv => Cur.priv
    /\ t # TID_NULL /\ tcb[t].state # "DORMANT"
    /\ tcb[t].real_time <=> prio = RT_INDEX

\* A blocked task, and a real-time one, only has its priority changed.
SetPrioBlocked(k, t, prio) == [k EXCEPT !.tcb[t].prio = prio]

\* The new priority is above the caller's: t is taken off its queue and runs.
SetPrioPreempt(k, t, prio) ==
    Run([PushHeadReady(PopTask([k EXCEPT !.tcb[t].prio = prio], t, ReadyQ(k.tcb[t].prio)), k.cur)
           EXCEPT !.cur = t])

\* The caller changes its own priority: only a lower one has any effect.
SetPrioSelf(k, prio) ==
    LET t    == k.cur
        lvl  == FirstLevel(k)
        high == IF NonEmptyLevels(k) = {} THEN TID_NULL ELSE k.queue[ReadyQ(lvl)].HEAD
        low  == [k EXCEPT !.tcb[t].prio = prio]
    IN  IF k.tcb[t].prio >= prio THEN k
        ELSE IF low.tcb[high].prio > prio THEN low
        ELSE Run(PushTailReady([PopHead(low, ReadyQ(low.tcb[high].prio)) EXCEPT !.cur = high], t))

\* Another task whose new priority is not above the caller's.
SetPrioMove(k, t, prio) ==
    PushTailReady(PopTask([k EXCEPT !.tcb[t].prio = prio], t, ReadyQ(k.tcb[t].prio)), t)

\* k_tsk_set_prio
SetPrio(t, prio) ==
    /\ Up
    /\ MaySetPrio(t, prio)
    /\ Becomes(
         IF tcb[t].state \in {"BLK_RECV", "BLK_SEND"} \/ tcb[t].real_time
         THEN SetPrioBlocked(Kernel, t, prio)
         ELSE IF tcb[t].prio = prio THEN Kernel
         ELSE IF t = gp_current_task THEN SetPrioSelf(Kernel, prio)
         ELSE IF Cur.prio > prio THEN SetPrioPreempt(Kernel, t, prio)
         ELSE SetPrioMove(Kernel, t, prio))
    /\ UNCHANGED <<g_num_active_tasks, booted, exited>>

----------------------------------------------------------------------------
(***************************************************************************)
(* The null task only yields.  Every other task makes any call, in any     *)
(* order, for the priorities and targets the instance allows.              *)
(***************************************************************************)
UserTask == gp_current_task # TID_NULL

Boot == BootSystemTask \/ BootTask \/ BootDone

\* The callers this instance allows to change the priority of t to prio.
InMiddle(t) == \E i \in RT_INDEX .. LOWEST_INDEX :
                  /\ t \in TasksOf(Kernel, ReadyQ(i))
                  /\ t \notin {queue[ReadyQ(i)].HEAD, queue[ReadyQ(i)].TAIL}

\* Careful callers: the target has not exited, and a task is not raised above
\* its caller out of the middle of a ready queue.
Careful(t, prio) == t \notin exited /\ ~(prio < Cur.prio /\ InMiddle(t))

Calls == \/ Yield
         \/ UserTask /\ \E p \in CallPrios : Create(p)
         \/ UserTask /\ Exit

Next == \/ Boot
        \/ Calls
        \/ UserTask /\ \E t \in Tasks, p \in CallPrios : SetPrio(t, p)

CarefulNext == \/ Boot
               \/ Calls
               \/ UserTask /\ \E t \in Tasks, p \in CallPrios : Careful(t, p) /\ SetPrio(t, p)

Spec        == Init /\ [][Next]_taskVars
CarefulSpec == Init /\ [][CarefulNext]_taskVars

\* The application's part in round-robin scheduling: a task that shares its
\* priority with a READY one does not keep the processor for ever, but yields.
Shares(t) == /\ Up /\ gp_current_task = t
             /\ \E u \in Tasks : tcb[u].state = "READY" /\ tcb[u].prio = tcb[t].prio
Cooperates(t) == <>[]Shares(t) => []<><<Yield /\ gp_current_task = t>>_taskVars
FairSpec == CarefulSpec /\ \A t \in Tasks : Cooperates(t)

----------------------------------------------------------------------------
(***************************************************************************)
(* Properties.                                                             *)
(***************************************************************************)
TypeOK ==
    /\ tcb \in [Tasks -> TCB]
    /\ queue \in [Queues -> QUEUE]
    /\ gp_current_task \in Tasks
    /\ g_num_active_tasks \in Nat
    /\ ub \in BOOLEAN
    /\ booted \in 0 .. Finished
    /\ exited \subseteq Tasks

\* No call indexes ready_queue out of bounds or follows a null link.
NoUndefined == ~ub

\* A task is READY exactly when it is on the ready queue of its priority, once:
\* none is lost, none is on two lists, and every queue is a proper linked list.
ReadyListsExact ==
    \A i \in RT_INDEX .. LOWEST_INDEX :
        /\ WellLinked(Kernel, ReadyQ(i))
        /\ TasksOf(Kernel, ReadyQ(i)) =
              {t \in Tasks \ {TID_NULL} : tcb[t].state = "READY" /\ tcb[t].prio = i}

\* The scheduler "always chooses the highest priority" (k_task.c:302): between
\* calls no READY task has a priority above that of the current task, which is
\* the only RUNNING one among those that have not exited.
HighestPriorityRuns ==
    Up => /\ {t \in Tasks : tcb[t].state = "RUNNING"} \ exited = {gp_current_task}
          /\ \A t \in Tasks : tcb[t].state = "READY" => tcb[t].prio >= Cur.prio

\* A task that has called tsk_exit never runs again.
ExitedNeverRuns == gp_current_task \notin exited

\* t is ahead of u on the ready queue of priority i.
Ahead(k, i, t, u) ==
    LET path == Nodes(k, ReadyQ(i))
    IN  \E m, n \in 1 .. Len(path) : m < n /\ path[m] = t /\ path[n] = u

\* t stays on the ready queue of its priority.
Waits(t) == /\ tcb[t].state = "READY" /\ tcb'[t].state = "READY"
            /\ tcb[t].prio = tcb'[t].prio

TurnsKept ==
    \A t, u \in Tasks \ {TID_NULL} :
       Waits(t) /\ t # u /\ tcb'[u].prio = tcb[t].prio
       => /\ Waits(u) => (Ahead(Kernel, tcb[t].prio, t, u) <=> Ahead(Kernel', tcb[t].prio, t, u))
          /\ /\ tcb[u].state = "READY" /\ tcb[u].prio = tcb[t].prio
             /\ u = gp_current_task'
             => Ahead(Kernel, tcb[t].prio, u, t)
          /\ tcb[u].state \notin {"READY", "RUNNING"} /\ tcb'[u].state = "READY"
               => Ahead(Kernel', tcb[t].prio, t, u)

\* First come, first served within a priority: two tasks that stay READY at
\* the same priority keep their order, the task that is dispatched was ahead of
\* those that wait on, and one that becomes READY without having been preempted
\* goes behind them.
FirstComeFirstServed == [][TurnsKept]_taskVars

\* With tasks that yield, a READY task that nothing outranks gets to run.
Topmost(t) == \A u \in Tasks : tcb[u].state \in {"READY", "RUNNING"} /\ u \notin exited
                                 => tcb[u].prio >= tcb[t].prio
RoundRobin ==
    \A t \in Tasks \ {TID_NULL} :
        (Up /\ tcb[t].state = "READY" /\ Topmost(t))
          ~> (gp_current_task = t \/ ~Topmost(t))
=============================================================================

--------------------------- MODULE RealTimeProofs ---------------------------
(***************************************************************************)
(* What is proved of real-time tasks and the timer interrupt, for every    *)
(* number of tasks, every choice of periods and however late interrupts    *)
(* come: nobody who is suspended is lost or forgotten, deadlines stay on   *)
(* their grid, and the earliest deadline always runs.                      *)
(***************************************************************************)
EXTENDS RealTime, KTaskProofs

USE MaxTasksAssumption, NullAssumption, SizeModAssumption

----------------------------------------------------------------------------
(***************************************************************************)
(* The inductive invariant.  As in KTaskProofs the lemmas are about one    *)
(* kernel memory k and the one a call leaves, and R is the set of the      *)
(* tasks that live and are on no queue.                                    *)
(***************************************************************************)
\* Nobody else asks for the priority of the jobs, which k_tsk_create and the boot
\* would grant.
OnlyJobsAtTop == RT_INDEX \notin CallPrios /\ \A info \in BootInfos : info.prio # RT_INDEX

\* A task of R is on no queue, a READY one is on the queue of its priority, a job
\* that waits for its period is on suspend_tsk, and the others do not exist.
Seated(k, R, u) ==
    IF u \in R THEN Loose(k, u)
    ELSE \/ k.tcb[u].state = "DORMANT" /\ Loose(k, u)
         \/ /\ k.tcb[u].state = "READY" /\ InBounds(k.tcb[u].prio)
            /\ u \in TasksOf(k, ReadyQ(k.tcb[u].prio))
         \/ /\ k.tcb[u].state = "SUSPENDED" /\ k.tcb[u].real_time
            /\ u \in TasksOf(k, SuspendQ)

\* The TCB T of t: a job has its priority, which nobody else has, and only the null
\* task has the null priority.
Fits(T, t) ==
    /\ T.real_time => T.prio = RT_INDEX
    /\ OnlyJobsAtTop /\ T.prio = RT_INDEX /\ T.state # "DORMANT" => T.real_time
    /\ IF t = TID_NULL THEN T.prio = NULL_INDEX ELSE T.state = "DORMANT" \/ InBounds(T.prio)

\* The ready jobs are in the order of their deadlines.
Sorted(k) == OnlyJobsAtTop => ByDeadline(k, ReadyQ(RT_INDEX))

InPlace(k, R) ==
    /\ Memory(k) /\ Lists(k) /\ TID_NULL \in R
    /\ \A u \in Tasks : Seated(k, R, u) /\ Fits(k.tcb[u], u)
    /\ Sorted(k)

\* Between two steps the current task is the only one that runs, but for those that
\* have exited and the null task, which an interrupt leaves RUNNING.
Manned(k, ex) ==
    /\ InPlace(k, Live(k, ex)) /\ Cleared(k, {})
    /\ ex \subseteq Tasks /\ k.cur \in Tasks /\ k.cur \notin ex /\ TID_NULL \notin ex
    /\ \A u \in ex \cup {k.cur} : k.tcb[u].state = "RUNNING"
    /\ k.tcb[TID_NULL].state \in {"READY", "RUNNING"}

\* No job is ready whose deadline is before that of the current task, if it is one.
Earliest(k) ==
    OnlyJobsAtTop => \A u \in Tasks :
        k.tcb[u].state = "READY" /\ k.tcb[u].real_time =>
           k.tcb[k.cur].real_time /\ k.tcb[k.cur].tsk_deadline <= k.tcb[u].tsk_deadline

\* At boot nobody is blocked, and only tasks that do not exist have the top priority.
Fresh(k) == \A u \in Tasks : /\ k.tcb[u].state \notin Blocked
                             /\ OnlyJobsAtTop /\ k.tcb[u].prio = RT_INDEX
                                => k.tcb[u].state = "DORMANT"

RtInv == /\ RtTypeOK
         /\ Booting => Orderly /\ Fresh(Kernel)
         /\ ~Booting => Manned(Kernel, exited) /\ Earliest(Kernel)

----------------------------------------------------------------------------
(***************************************************************************)
(* Where a task is.                                                        *)
(***************************************************************************)
LEMMA QueueIds ==
    /\ SuspendQ \in Queues /\ ReadyQ(RT_INDEX) \in Queues
    /\ \A i \in RT_INDEX .. LOWEST_INDEX : ReadyQ(i) \in Queues /\ i \in Prio /\ InBounds(i)
    /\ \A i \in Prio : InBounds(i) => i \in RT_INDEX .. LOWEST_INDEX /\ ReadyQ(i) \in Queues
    /\ \A i, j : ReadyQ(i) = ReadyQ(j) => i = j
    /\ \A i : ReadyQ(i) # SuspendQ
    /\ RT_INDEX \in Prio /\ InBounds(RT_INDEX) /\ RT_INDEX \in RT_INDEX .. LOWEST_INDEX
    /\ \A i \in Prio : i \in Int /\ RT_INDEX <= i
    /\ RT_INDEX # NULL_INDEX /\ ~InBounds(NULL_INDEX) /\ TID_NULL \in Tasks
  <1>1. SuspendQ \in Queues
    BY DEF Queues
  <1>2. RT_INDEX \in RT_INDEX .. LOWEST_INDEX /\ RT_INDEX \in Prio /\ RT_INDEX # NULL_INDEX
        /\ \A i \in Prio : i \in Int /\ RT_INDEX <= i
    BY DEF RT_INDEX, LOWEST_INDEX, NULL_INDEX, Prio
  <1>3. \A i : ReadyQ(i) # SuspendQ
    BY DEF ReadyQ, SuspendQ
  <1>4. InBounds(RT_INDEX) /\ ~InBounds(NULL_INDEX)
    BY <1>2 DEF InBounds
  <1> QED
    BY <1>1, <1>2, <1>3, <1>4, ReadyQueueIds, NullTask

\* Who is on a queue: a READY task on the one of its priority, or a job on suspend_tsk.
LEMMA SeatOf ==
    ASSUME NEW k, NEW R, InPlace(k, R), NEW q \in Queues, NEW u \in TasksOf(k, q)
    PROVE  /\ u \in Tasks \ R
           /\ \/ /\ k.tcb[u].state = "READY" /\ InBounds(k.tcb[u].prio)
                 /\ q = ReadyQ(k.tcb[u].prio)
              \/ k.tcb[u].state = "SUSPENDED" /\ k.tcb[u].real_time /\ q = SuspendQ
  <1>1. /\ Memory(k) /\ Linked(k, q)
        /\ \A v \in Tasks : Seated(k, R, v)
        /\ \A r \in Queues : r # q => TasksOf(k, r) \cap TasksOf(k, q) = {}
    BY DEF InPlace, Lists
  <1>2. u \in Tasks
    BY <1>1, LinkedFacts
  <1>3. ~Loose(k, u)
    BY DEF Loose
  <1>4. u \notin R
    BY <1>1, <1>2, <1>3 DEF Seated
  <1>5. \/ /\ k.tcb[u].state = "READY" /\ InBounds(k.tcb[u].prio)
           /\ u \in TasksOf(k, ReadyQ(k.tcb[u].prio))
        \/ /\ k.tcb[u].state = "SUSPENDED" /\ k.tcb[u].real_time
           /\ u \in TasksOf(k, SuspendQ)
    BY <1>1, <1>2, <1>3, <1>4 DEF Seated
  <1>6. k.tcb[u].prio \in Prio
    BY <1>1, <1>2, MemoryFields
  <1> QED
    BY <1>1, <1>2, <1>4, <1>5, <1>6, QueueIds

\* The other way about.
LEMMA ReadySeat ==
    ASSUME NEW k, NEW R, InPlace(k, R), NEW u \in Tasks \ R
    PROVE  /\ k.tcb[u].state = "READY" =>
                 /\ InBounds(k.tcb[u].prio) /\ k.tcb[u].prio \in RT_INDEX .. LOWEST_INDEX
                 /\ ReadyQ(k.tcb[u].prio) \in Queues /\ u \in TasksOf(k, ReadyQ(k.tcb[u].prio))
           /\ k.tcb[u].state = "SUSPENDED" => u \in TasksOf(k, SuspendQ)
  <1>1. Memory(k) /\ Seated(k, R, u) /\ u \notin R
    BY DEF InPlace
  <1>2. k.tcb[u].prio \in Prio
    BY <1>1, MemoryFields
  <1> QED
    BY <1>1, <1>2, QueueIds DEF Seated

\* The order of a queue depends on who is on it and on their deadlines.
LEMMA SortedAlike ==
    ASSUME NEW k, Memory(k), NEW q, Linked(k, q), ByDeadline(k, q), NEW l,
           Nodes(l, q) = Nodes(k, q),
           \A u \in TasksOf(k, q) : l.tcb[u].tsk_deadline = k.tcb[u].tsk_deadline
    PROVE  ByDeadline(l, q)
  <1> SUFFICES ASSUME NEW u \in Tasks, NEW v \in Tasks, Precedes(l, q, u, v)
               PROVE  l.tcb[u].tsk_deadline <= l.tcb[v].tsk_deadline
    BY DEF ByDeadline
  <1>1. Precedes(k, q, u, v)
    BY DEF Precedes
  <1>2. u \in TasksOf(k, q) /\ v \in TasksOf(k, q)
    BY <1>1, PrecedesOn
  <1>3. k.tcb[u].tsk_deadline <= k.tcb[v].tsk_deadline
    BY <1>1 DEF ByDeadline
  <1> QED
    BY <1>2, <1>3

\* Fits is about three fields.
LEMMA FitsAlike ==
    ASSUME NEW A, NEW t, Fits(A, t), NEW B, B.prio = A.prio, B.real_time = A.real_time,
           B.state = A.state \/ A.state # "DORMANT"
    PROVE  Fits(B, t)
  BY DEF Fits

\* What the null task and the jobs are.
LEMMA FitsFacts ==
    ASSUME NEW k, NEW R, InPlace(k, R)
    PROVE  /\ k.tcb[TID_NULL].prio = NULL_INDEX /\ ~k.tcb[TID_NULL].real_time
           /\ \A u \in Tasks : /\ k.tcb[u].real_time => k.tcb[u].prio = RT_INDEX
                               /\ u # TID_NULL /\ k.tcb[u].state # "DORMANT"
                                  => InBounds(k.tcb[u].prio)
                               /\ OnlyJobsAtTop /\ k.tcb[u].prio = RT_INDEX
                                  /\ k.tcb[u].state # "DORMANT" => k.tcb[u].real_time
           /\ TID_NULL \in Tasks /\ TID_NULL \in R /\ Memory(k) /\ Lists(k)
  <1>1. TID_NULL \in Tasks /\ RT_INDEX # NULL_INDEX
    BY QueueIds
  <1> QED
    BY <1>1 DEF InPlace, Fits

\* From k to l the queues stay, and the fields, except the clock, the periods and the
\* like, change for one task that is on none of them.
Repainted(l, k, R) == /\ InPlace(l, R) /\ (\A S : Cleared(k, S) => Cleared(l, S))
                      /\ \A q \in Queues : TasksOf(l, q) = TasksOf(k, q)

LEMMA Repaint ==
    ASSUME NEW k, NEW R, InPlace(k, R), NEW t \in Tasks, Loose(k, t),
           NEW l, Memory(l), l.queue = k.queue,
           \A u \in Tasks : u # t => l.tcb[u] = k.tcb[u],
           l.tcb[t].next = k.tcb[t].next, l.tcb[t].prev = k.tcb[t].prev,
           Fits(l.tcb[t], t)
    PROVE  Repainted(l, k, R \cup {t})
  <1>1. /\ Memory(k) /\ Lists(k) /\ TID_NULL \in R
        /\ \A u \in Tasks : Seated(k, R, u) /\ Fits(k.tcb[u], u)
        /\ OnlyJobsAtTop => ByDeadline(k, ReadyQ(RT_INDEX))
    BY DEF InPlace, Sorted
  <1>2. \A u \in Tasks : l.tcb[u].next = k.tcb[u].next /\ l.tcb[u].prev = k.tcb[u].prev
    OBVIOUS
  <1>3. /\ Lists(l)
        /\ \A q \in Queues : Nodes(l, q) = Nodes(k, q) /\ TasksOf(l, q) = TasksOf(k, q)
        /\ \A u : Loose(l, u) <=> Loose(k, u)
    BY <1>1, <1>2, Relisted
  <1>4. ASSUME NEW u \in Tasks
        PROVE  Seated(l, R \cup {t}, u) /\ Fits(l.tcb[u], u)
    <2>1. CASE u = t
      BY <1>3, <2>1 DEF Seated
    <2>2. CASE u # t
      <3>1. l.tcb[u] = k.tcb[u] /\ k.tcb[u].prio \in Prio
        BY <1>1, <2>2, MemoryFields
      <3>2. Fits(l.tcb[u], u)
        BY <1>1, <3>1
      <3>3. /\ InBounds(k.tcb[u].prio) => ReadyQ(k.tcb[u].prio) \in Queues
            /\ SuspendQ \in Queues
        BY <3>1, QueueIds
      <3>4. Seated(l, R \cup {t}, u)
        BY <1>1, <1>3, <2>2, <3>1, <3>3 DEF Seated
      <3> QED
        BY <3>2, <3>4
    <2> QED
      BY <2>1, <2>2
  <1>5. Sorted(l)
    <2> SUFFICES ASSUME OnlyJobsAtTop PROVE ByDeadline(l, ReadyQ(RT_INDEX))
      BY DEF Sorted
    <2>1. ReadyQ(RT_INDEX) \in Queues
      BY QueueIds
    <2>2. /\ ByDeadline(k, ReadyQ(RT_INDEX)) /\ Linked(k, ReadyQ(RT_INDEX))
          /\ Nodes(l, ReadyQ(RT_INDEX)) = Nodes(k, ReadyQ(RT_INDEX))
      BY <1>1, <1>3, <2>1 DEF Lists
    <2>3. \A u \in TasksOf(k, ReadyQ(RT_INDEX)) : u # t /\ u \in Tasks
      BY <1>1, <2>1, <2>2, LinkedFacts DEF Loose
    <2> QED
      BY <1>1, <2>2, <2>3, SortedAlike
  <1>6. ASSUME NEW S, Cleared(k, S)
        PROVE  Cleared(l, S)
    BY <1>2, <1>3, <1>6 DEF Cleared
  <1>7. InPlace(l, R \cup {t})
    BY <1>1, <1>3, <1>4, <1>5 DEF InPlace
  <1> QED
    BY <1>3, <1>6, <1>7 DEF Repainted

\* A task of R only gets another state.
LEMMA Restate ==
    ASSUME NEW k, NEW R, InPlace(k, R), NEW t \in R, t \in Tasks, NEW l, NEW s,
           Restated(l, k, t, s), s = k.tcb[t].state \/ k.tcb[t].state # "DORMANT"
    PROVE  Repainted(l, k, R)
  <1>1. Loose(k, t) /\ Fits(k.tcb[t], t)
    BY DEF InPlace, Seated
  <1>2. /\ Memory(l) /\ l.queue = k.queue /\ \A u \in Tasks : u # t => l.tcb[u] = k.tcb[u]
        /\ l.tcb[t].next = k.tcb[t].next /\ l.tcb[t].prev = k.tcb[t].prev
        /\ SameTask(l.tcb[t], k.tcb[t]) /\ l.tcb[t].state = s
    BY DEF Restated
  <1>3. Fits(l.tcb[t], t)
    BY <1>1, <1>2, FitsAlike DEF SameTask
  <1>4. Repainted(l, k, R \cup {t})
    BY <1>1, <1>2, <1>3, Repaint
  <1>5. R \cup {t} = R
    OBVIOUS
  <1> QED
    BY <1>4, <1>5

----------------------------------------------------------------------------
(***************************************************************************)
(* Taking a task off a queue and putting one on.                           *)
(***************************************************************************)
\* t is taken off q, or put on it.
OneMoves(l, k, q, t) == \/ Shifted(l, k, q, t, TasksOf(k, q) \ {t})
                        \/ Shifted(l, k, q, t, TasksOf(k, q) \cup {t})

\* Everybody but the task that moves stays where it is.
LEMMA OthersSeated ==
    ASSUME NEW k, NEW R, InPlace(k, R), NEW q \in Queues, NEW t \in Tasks,
           NEW l, OneMoves(l, k, q, t), NEW u \in Tasks, u # t
    PROVE  /\ Seated(l, R, u) /\ Fits(l.tcb[u], u)
           /\ Loose(l, u) => Loose(k, u) /\ l.tcb[u].next = k.tcb[u].next
  <1>1. Memory(k) /\ Lists(k) /\ Seated(k, R, u) /\ Fits(k.tcb[u], u)
    BY DEF InPlace
  <1>0. PICK S : Shifted(l, k, q, t, S) /\ S \in {TasksOf(k, q) \ {t}, TasksOf(k, q) \cup {t}}
    BY DEF OneMoves
  <1>2. /\ \A r \in Queues, v \in Tasks : v # t => (v \in TasksOf(l, r) <=> v \in TasksOf(k, r))
        /\ \A v \in Tasks : v # t => (Loose(l, v) <=> Loose(k, v))
    BY <1>0, <1>1, ShiftedLoose
  <1>3. SameTask(l.tcb[u], k.tcb[u]) /\ l.tcb[u].state = k.tcb[u].state
    BY <1>0 DEF Shifted
  <1>4. l.tcb[u].prio = k.tcb[u].prio /\ l.tcb[u].real_time = k.tcb[u].real_time
        /\ k.tcb[u].prio \in Prio
    BY <1>1, <1>3, MemoryFields DEF SameTask
  <1>5. Fits(l.tcb[u], u)
    BY <1>1, <1>3, <1>4, FitsAlike
  <1>6. /\ InBounds(k.tcb[u].prio) => ReadyQ(k.tcb[u].prio) \in Queues
        /\ SuspendQ \in Queues
    BY <1>4, QueueIds
  <1>7. Seated(l, R, u)
    BY <1>1, <1>2, <1>3, <1>4, <1>6 DEF Seated
  <1>8. Loose(l, u) => Loose(k, u) /\ l.tcb[u].next = k.tcb[u].next
    <2>1. Loose(k, u) => u \in Tasks \ TasksOf(k, q)
      BY DEF Loose
    <2> QED
      BY <1>0, <1>2, <2>1 DEF Shifted
  <1> QED
    BY <1>5, <1>7, <1>8

\* The order of the ready jobs when another queue changes.
LEMMA SortedElsewhere ==
    ASSUME NEW k, NEW R, InPlace(k, R), NEW q \in Queues, q # ReadyQ(RT_INDEX),
           NEW t \in Tasks, NEW S, NEW l, Shifted(l, k, q, t, S)
    PROVE  Sorted(l)
  <1> SUFFICES ASSUME OnlyJobsAtTop PROVE ByDeadline(l, ReadyQ(RT_INDEX))
    BY DEF Sorted
  <1>1. ReadyQ(RT_INDEX) \in Queues
    BY QueueIds
  <1>2. /\ Memory(k) /\ Linked(k, ReadyQ(RT_INDEX)) /\ ByDeadline(k, ReadyQ(RT_INDEX))
        /\ Nodes(l, ReadyQ(RT_INDEX)) = Nodes(k, ReadyQ(RT_INDEX))
    BY <1>1 DEF InPlace, Sorted, Lists, Shifted
  <1>3. TasksOf(k, ReadyQ(RT_INDEX)) \subseteq Tasks
    BY <1>2, LinkedFacts
  <1>4. \A u \in TasksOf(k, ReadyQ(RT_INDEX)) : l.tcb[u].tsk_deadline = k.tcb[u].tsk_deadline
    BY <1>3 DEF Shifted, SameTask
  <1> QED
    BY <1>2, <1>4, SortedAlike

TakenOff(l, k, R, t) == /\ InPlace(l, R \cup {t})
                        /\ Cleared(k, {}) => Cleared(l, {t})
                        /\ Cleared(k, {}) /\ l.tcb[t].next = NULL => Cleared(l, {})

LEMMA TakeOff ==
    ASSUME NEW k, NEW R, InPlace(k, R), NEW q \in Queues, NEW t \in TasksOf(k, q),
           NEW l, Shifted(l, k, q, t, TasksOf(k, q) \ {t})
    PROVE  TakenOff(l, k, R, t)
  <1>1. /\ t \in Tasks \ R /\ k.tcb[t].state \in {"READY", "SUSPENDED"}
        /\ Memory(k) /\ Lists(k) /\ TID_NULL \in R /\ Fits(k.tcb[t], t)
    <2>1. t \in Tasks \ R /\ k.tcb[t].state \in {"READY", "SUSPENDED"}
      BY SeatOf
    <2> QED
      BY <2>1 DEF InPlace
  <1>2. Memory(l) /\ Lists(l) /\ SameTask(l.tcb[t], k.tcb[t])
    BY <1>1 DEF Shifted
  <1>3. Loose(l, t)
    <2>1. PICK S : S = TasksOf(k, q) \ {t}
      OBVIOUS
    <2>2. Shifted(l, k, q, t, S) /\ t \in TasksOf(k, q) /\ t \in Tasks /\ Lists(k)
      BY <1>1, <2>1
    <2>3. S = TasksOf(k, q) \ {t} /\ t \in TasksOf(k, q) => Loose(l, t)
      BY <2>2, ShiftedLoose
    <2> QED
      BY <2>1, <2>2, <2>3
  <1>4. Fits(l.tcb[t], t)
    <2>1. l.tcb[t].prio = k.tcb[t].prio /\ l.tcb[t].real_time = k.tcb[t].real_time
      BY <1>2 DEF SameTask
    <2>2. k.tcb[t].state # "DORMANT"
      BY <1>1
    <2> QED
      BY <1>1, <2>1, <2>2, FitsAlike
  <1>5. \A u \in Tasks : u # t => /\ Seated(l, R, u) /\ Fits(l.tcb[u], u)
                                  /\ Loose(l, u) => Loose(k, u) /\ l.tcb[u].next = k.tcb[u].next
    <2>1. OneMoves(l, k, q, t) /\ t \in Tasks
      BY <1>1 DEF OneMoves
    <2> QED
      BY <2>1, OthersSeated
  <1>6. \A u \in Tasks : Seated(l, R \cup {t}, u) /\ Fits(l.tcb[u], u)
    BY <1>3, <1>4, <1>5 DEF Seated
  <1>7. Sorted(l)
    <2>1. CASE q # ReadyQ(RT_INDEX)
      BY <1>1, <2>1, SortedElsewhere
    <2>2. CASE q = ReadyQ(RT_INDEX)
      <3> SUFFICES ASSUME OnlyJobsAtTop PROVE ByDeadline(l, ReadyQ(RT_INDEX))
        BY DEF Sorted
      <3>1. ByDeadline(k, q)
        BY <2>2 DEF InPlace, Sorted
      <3> QED
        BY <1>1, <2>2, <3>1, SortedWithout
    <2> QED
      BY <2>1, <2>2
  <1>8. InPlace(l, R \cup {t})
    BY <1>1, <1>2, <1>6, <1>7 DEF InPlace
  <1>9. Cleared(k, {}) => Cleared(l, {t})
    BY <1>5 DEF Cleared
  <1>10. Cleared(k, {}) /\ l.tcb[t].next = NULL => Cleared(l, {})
    BY <1>5 DEF Cleared
  <1> QED
    BY <1>8, <1>9, <1>10 DEF TakenOff

\* A task of R goes to a queue, in m, and gets the state that belongs to it.
PutOn(l, k, R, t) == /\ InPlace(l, R \ {t})
                     /\ Cleared(k, {t}) => Cleared(l, {})

LEMMA Put ==
    ASSUME NEW k, NEW R, InPlace(k, R), NEW t \in R, t \in Tasks, t # TID_NULL,
           k.tcb[t].state # "DORMANT",
           NEW q \in Queues, NEW m, Shifted(m, k, q, t, TasksOf(k, q) \cup {t}),
           NEW s, NEW l, Restated(l, m, t, s),
           \/ q = ReadyQ(k.tcb[t].prio) /\ InBounds(k.tcb[t].prio) /\ s = "READY"
           \/ q = SuspendQ /\ k.tcb[t].real_time /\ s = "SUSPENDED",
           OnlyJobsAtTop /\ q = ReadyQ(RT_INDEX) => ByDeadline(m, q)
    PROVE  PutOn(l, k, R, t)
  <1>1. /\ Memory(k) /\ Lists(k) /\ TID_NULL \in R /\ Fits(k.tcb[t], t) /\ Loose(k, t)
        /\ Memory(m) /\ Lists(m)
    BY DEF InPlace, Seated, Shifted
  <1>2. /\ Memory(l) /\ l.queue = m.queue /\ \A u \in Tasks : u # t => l.tcb[u] = m.tcb[u]
        /\ \A u \in Tasks : l.tcb[u].next = m.tcb[u].next /\ l.tcb[u].prev = m.tcb[u].prev
        /\ SameTask(l.tcb[t], m.tcb[t]) /\ l.tcb[t].state = s
    BY DEF Restated
  <1>3. /\ Lists(l)
        /\ \A r \in Queues : Nodes(l, r) = Nodes(m, r) /\ TasksOf(l, r) = TasksOf(m, r)
        /\ \A u : Loose(l, u) <=> Loose(m, u)
    BY <1>1, <1>2, Relisted
  <1>4. \A u \in Tasks : u # t => /\ Seated(m, R, u) /\ Fits(m.tcb[u], u)
                                  /\ Loose(m, u) => Loose(k, u) /\ m.tcb[u].next = k.tcb[u].next
    <2>1. OneMoves(m, k, q, t)
      BY DEF OneMoves
    <2> QED
      BY <2>1, OthersSeated
  <1>5. ASSUME NEW u \in Tasks, u # t
        PROVE  /\ Seated(l, R \ {t}, u) /\ Fits(l.tcb[u], u)
               /\ Loose(l, u) => Loose(k, u) /\ l.tcb[u].next = k.tcb[u].next
    <2>1. l.tcb[u] = m.tcb[u] /\ m.tcb[u].prio \in Prio
      BY <1>1, <1>2, <1>5, MemoryFields
    <2>2. /\ InBounds(m.tcb[u].prio) => ReadyQ(m.tcb[u].prio) \in Queues
          /\ SuspendQ \in Queues
      BY <2>1, QueueIds
    <2> QED
      BY <1>3, <1>4, <1>5, <2>1, <2>2 DEF Seated
  <1>6. SameTask(l.tcb[t], k.tcb[t]) /\ t \in TasksOf(l, q) /\ ~Loose(l, t)
    <2>1. SameTask(m.tcb[t], k.tcb[t]) /\ t \in TasksOf(m, q)
      BY <1>1 DEF Shifted
    <2> QED
      BY <1>2, <1>3, <2>1 DEF SameTask, Loose
  <1>7. l.tcb[t].prio = k.tcb[t].prio /\ l.tcb[t].real_time = k.tcb[t].real_time
    BY <1>6 DEF SameTask
  <1>8. Fits(l.tcb[t], t)
    BY <1>1, <1>7, FitsAlike
  <1>9. Seated(l, R \ {t}, t)
    BY <1>2, <1>6, <1>7 DEF Seated
  <1>10. Sorted(l)
    <2> SUFFICES ASSUME OnlyJobsAtTop PROVE ByDeadline(l, ReadyQ(RT_INDEX))
      BY DEF Sorted
    <2>1. ByDeadline(m, ReadyQ(RT_INDEX))
      <3>1. CASE q # ReadyQ(RT_INDEX)
        BY <1>1, <3>1, SortedElsewhere DEF Sorted
      <3>2. CASE q = ReadyQ(RT_INDEX)
        BY <3>2
      <3> QED
        BY <3>1, <3>2
    <2>2. ReadyQ(RT_INDEX) \in Queues
      BY QueueIds
    <2>3. Linked(m, ReadyQ(RT_INDEX)) /\ Nodes(l, ReadyQ(RT_INDEX)) = Nodes(m, ReadyQ(RT_INDEX))
      BY <1>1, <1>3, <2>2 DEF Lists
    <2>4. \A u \in TasksOf(m, ReadyQ(RT_INDEX)) :
             l.tcb[u].tsk_deadline = m.tcb[u].tsk_deadline
      <3>1. TasksOf(m, ReadyQ(RT_INDEX)) \subseteq Tasks
        BY <1>1, <2>3, LinkedFacts
      <3> QED
        BY <1>2, <3>1 DEF SameTask
    <2> QED
      BY <1>1, <2>1, <2>3, <2>4, SortedAlike
  <1>11. InPlace(l, R \ {t})
    <2>1. \A u \in Tasks : Seated(l, R \ {t}, u) /\ Fits(l.tcb[u], u)
      BY <1>5, <1>8, <1>9
    <2> QED
      BY <1>1, <1>2, <1>3, <1>10, <2>1 DEF InPlace
  <1>12. Cleared(k, {t}) => Cleared(l, {})
    BY <1>5, <1>6 DEF Cleared
  <1> QED
    BY <1>11, <1>12 DEF PutOn

----------------------------------------------------------------------------
(***************************************************************************)
(* The scheduler.                                                          *)
(***************************************************************************)
\* What a task is, the clock and the periods are the same in l as in k.
Alike(l, k) == /\ DOMAIN l = DOMAIN k
               /\ \A f \in DOMAIN k : f \notin {"tcb", "queue", "cur", "ub"} => l[f] = k[f]
               /\ \A u \in Tasks : SameTask(l.tcb[u], k.tcb[u])

\* And so are those that are suspended.
Steady(l, k) == Alike(l, k) /\ TasksOf(l, SuspendQ) = TasksOf(k, SuspendQ)

LEMMA SteadySteps ==
    ASSUME NEW j, NEW k
    PROVE  /\ Steady(k, k)
           /\ \A l : Steady(k, j) /\ Steady(l, k) => Steady(l, j)
           /\ \A l : Alike(k, j) /\ Alike(l, k) => Alike(l, j)
  <1>1. Steady(k, k)
    BY DEF Steady, Alike, SameTask
  <1>2. \A l : Alike(k, j) /\ Alike(l, k) => Alike(l, j)
    BY DEF Alike, SameTask
  <1> QED
    BY <1>1, <1>2 DEF Steady

\* Writes to other parts of the memory.
LEMMA SameLists ==
    ASSUME NEW k, NEW R, InPlace(k, R), NEW l, Memory(l), l.queue = k.queue, l.tcb = k.tcb
    PROVE  Repainted(l, k, R)
  <1>1. TID_NULL \in Tasks /\ TID_NULL \in R
    BY QueueIds DEF InPlace
  <1>2. Loose(k, TID_NULL) /\ Fits(k.tcb[TID_NULL], TID_NULL)
    BY <1>1 DEF InPlace, Seated
  <1>3. Repainted(l, k, R \cup {TID_NULL})
    BY <1>1, <1>2, Repaint
  <1>4. R \cup {TID_NULL} = R
    BY <1>1
  <1> QED
    BY <1>3, <1>4

\* gp_current_task = &g_tcbs[t].
Turned(l, k, R, t) == Repainted(l, k, R) /\ l.cur = t /\ l.tcb = k.tcb /\ Steady(l, k)

LEMMA SetCur ==
    ASSUME NEW k, NEW R, InPlace(k, R), NEW t \in Tasks
    PROVE  Turned([k EXCEPT !.cur = t], k, R, t)
  <1>1. PICK l : l = [k EXCEPT !.cur = t]
    OBVIOUS
  <1>2. Memory(k)
    BY DEF InPlace
  <1>3. /\ Memory(l) /\ l.tcb = k.tcb /\ l.queue = k.queue /\ l.cur = t
        /\ DOMAIN l = DOMAIN k /\ \A f \in DOMAIN k : f # "cur" => l[f] = k[f]
    BY <1>1, <1>2 DEF Memory
  <1>4. Repainted(l, k, R)
    BY <1>3, SameLists
  <1>5. Steady(l, k)
    BY <1>3, <1>4, QueueIds DEF Steady, Alike, SameTask, Repainted
  <1> QED
    BY <1>1, <1>3, <1>4, <1>5 DEF Turned

\* A ready queue changes.
LEMMA ShiftedSteady ==
    ASSUME NEW k, NEW q \in Queues, q # SuspendQ, NEW t \in Tasks, NEW S, NEW l,
           Shifted(l, k, q, t, S)
    PROVE  Steady(l, k) /\ l.cur = k.cur
  BY QueueIds DEF Shifted, SameRest, Steady, Alike

\* A task of R only gets another state.
LEMMA RestatedSteady ==
    ASSUME NEW k, NEW R, NEW t \in Tasks, NEW l, NEW s,
           Restated(l, k, t, s), Repainted(l, k, R)
    PROVE  Steady(l, k) /\ l.cur = k.cur
  <1>1. /\ DOMAIN l = DOMAIN k /\ l.cur = k.cur
        /\ \A f \in DOMAIN k : f \notin {"tcb", "queue"} => l[f] = k[f]
    BY DEF Restated, SameRest
  <1>2. \A u \in Tasks : SameTask(l.tcb[u], k.tcb[u])
    BY DEF Restated, SameTask
  <1>3. TasksOf(l, SuspendQ) = TasksOf(k, SuspendQ)
    BY QueueIds DEF Repainted
  <1> QED
    BY <1>1, <1>2, <1>3 DEF Steady, Alike

\* The level of a READY task is not empty.
LEMMA LevelOf ==
    ASSUME NEW k, NEW R, InPlace(k, R), NEW u \in Tasks \ R, k.tcb[u].state = "READY"
    PROVE  k.tcb[u].prio \in NonEmptyLevels(k)
  <1>1. /\ k.tcb[u].prio \in RT_INDEX .. LOWEST_INDEX
        /\ ReadyQ(k.tcb[u].prio) \in Queues /\ u \in TasksOf(k, ReadyQ(k.tcb[u].prio))
    BY ReadySeat
  <1>2. k.queue[ReadyQ(k.tcb[u].prio)].HEAD # NULL
    <2>1. Memory(k) /\ Linked(k, ReadyQ(k.tcb[u].prio))
      BY <1>1 DEF InPlace, Lists
    <2> QED
      BY <1>1, <2>1, LinkedFacts
  <1> QED
    BY <1>1, <1>2 DEF NonEmptyLevels

\* The head of the first level, which is before the others of its queue.
LEMMA FirstJob ==
    ASSUME NEW k, NEW R, InPlace(k, R), NonEmptyLevels(k) # {},
           NEW q, q = ReadyQ(FirstLevel(k)), NEW h, h = k.queue[q].HEAD
    PROVE  /\ q \in Queues /\ q # SuspendQ /\ h # NULL /\ h \in TasksOf(k, q)
           /\ h \in Tasks \ R /\ k.tcb[h].state = "READY" /\ q = ReadyQ(k.tcb[h].prio)
           /\ \A u \in Tasks \ R : k.tcb[u].state = "READY" => k.tcb[h].prio <= k.tcb[u].prio
  <1>1. PICK i : i = FirstLevel(k)
    OBVIOUS
  <1>2. i \in RT_INDEX .. LOWEST_INDEX /\ h # NULL
    BY <1>1, FirstLevelLeast DEF NonEmptyLevels
  <1>3. q \in Queues /\ q # SuspendQ
    BY <1>1, <1>2, QueueIds
  <1>4. Memory(k) /\ Linked(k, q)
    BY <1>3 DEF InPlace, Lists
  <1>5. h \in TasksOf(k, q)
    BY <1>2, <1>4, LinkedFacts
  <1>6. h \in Tasks \ R /\ k.tcb[h].state = "READY" /\ q = ReadyQ(k.tcb[h].prio)
    BY <1>3, <1>5, SeatOf
  <1>7. k.tcb[h].prio = i
    BY <1>1, <1>6, QueueIds
  <1>8. \A u \in Tasks \ R : k.tcb[u].state = "READY" => i <= k.tcb[u].prio
    BY <1>1, LevelOf, FirstLevelLeast
  <1> QED
    BY <1>2, <1>3, <1>5, <1>6, <1>7, <1>8

\* No job of k that is ready comes before h.
Leads(k, R, h) ==
    OnlyJobsAtTop => \A u \in Tasks \ R :
        k.tcb[u].state = "READY" /\ k.tcb[u].real_time
        => h # TID_NULL /\ k.tcb[h].real_time /\ k.tcb[h].tsk_deadline <= k.tcb[u].tsk_deadline

\* scheduler(): the task it makes the current one is READY, or nobody is.
Chose(d, k, R) ==
    /\ InPlace(d, R \cup {d.cur}) /\ Cleared(d, {}) /\ Steady(d, k) /\ d.cur \in Tasks
    /\ \A u \in Tasks : u # d.cur => d.tcb[u].state = k.tcb[u].state
    /\ d.cur = TID_NULL => d.tcb = k.tcb /\ \A u \in Tasks \ R : k.tcb[u].state # "READY"
    /\ d.cur # TID_NULL => /\ d.cur \notin R /\ k.tcb[d.cur].state = "READY"
                           /\ d.tcb[d.cur].state = "RUNNING"
    /\ Leads(k, R, d.cur)

LEMMA HeadLeads ==
    ASSUME NEW k, NEW R, InPlace(k, R), NonEmptyLevels(k) # {},
           NEW q, q = ReadyQ(FirstLevel(k)), NEW h, h = k.queue[q].HEAD,
           \A u \in TasksOf(k, q) : u # h => Precedes(k, q, h, u)
    PROVE  Leads(k, R, h) /\ h # TID_NULL
  <1>1. /\ q \in Queues /\ h \in TasksOf(k, q)
        /\ h \in Tasks \ R /\ k.tcb[h].state = "READY" /\ q = ReadyQ(k.tcb[h].prio)
        /\ \A u \in Tasks \ R : k.tcb[u].state = "READY" => k.tcb[h].prio <= k.tcb[u].prio
    BY FirstJob
  <1>2. h # TID_NULL
    BY <1>1 DEF InPlace
  <1> SUFFICES ASSUME OnlyJobsAtTop, NEW u \in Tasks \ R,
                      k.tcb[u].state = "READY", k.tcb[u].real_time
               PROVE  k.tcb[h].real_time /\ k.tcb[h].tsk_deadline <= k.tcb[u].tsk_deadline
    BY <1>2 DEF Leads
  <1>3. k.tcb[u].prio = RT_INDEX
    BY FitsFacts
  <1>4. k.tcb[h].prio = RT_INDEX
    <2>1. Memory(k)
      BY DEF InPlace
    <2>2. k.tcb[h].prio \in Prio /\ k.tcb[h].prio <= k.tcb[u].prio
      BY <1>1, <2>1, MemoryFields
    <2> QED
      BY <1>3, <2>2, QueueIds DEF Prio, RT_INDEX
  <1>5. k.tcb[h].real_time
    BY <1>1, <1>4, FitsFacts
  <1>6. k.tcb[h].tsk_deadline <= k.tcb[u].tsk_deadline
    <2>1. CASE u = h
      <3>1. k.tcb[h].tsk_deadline \in Nat
        BY <1>1, MemoryFields DEF InPlace
      <3> QED
        BY <2>1, <3>1
    <2>2. CASE u # h
      <3>1. u \in TasksOf(k, q)
        BY <1>1, <1>3, <1>4, ReadySeat
      <3>2. Precedes(k, q, h, u) /\ q = ReadyQ(RT_INDEX)
        BY <1>1, <1>4, <2>2, <3>1
      <3>3. ByDeadline(k, q)
        BY <3>2 DEF InPlace, Sorted
      <3> QED
        BY <1>1, <3>2, <3>3 DEF ByDeadline
    <2> QED
      BY <2>1, <2>2
  <1> QED
    BY <1>5, <1>6

LEMMA DispatchChose ==
    ASSUME NEW k, NEW R, InPlace(k, R), Cleared(k, {})
    PROVE  Chose(Dispatch(k), k, R)
  <1>1. PICK d : d = Dispatch(k)
    OBVIOUS
  <1>2. Memory(k) /\ Lists(k) /\ TID_NULL \in R /\ TID_NULL \in Tasks
    BY NullTask DEF InPlace
  <1>3. CASE NonEmptyLevels(k) = {}
    <2>1. d = [k EXCEPT !.cur = TID_NULL]
      BY <1>1, <1>3 DEF Dispatch
    <2>2. Turned(d, k, R, TID_NULL)
      BY <1>2, <2>1, SetCur
    <2>3. \A u \in Tasks \ R : k.tcb[u].state # "READY"
      BY <1>3, LevelOf
    <2>4. R \cup {TID_NULL} = R
      BY <1>2
    <2>5. Leads(k, R, d.cur)
      BY <2>3 DEF Leads
    <2> QED
      BY <1>1, <1>2, <2>2, <2>3, <2>4, <2>5 DEF Chose, Turned, Repainted
  <1>4. CASE NonEmptyLevels(k) # {}
    <2>1. PICK q, h : q = ReadyQ(FirstLevel(k)) /\ h = k.queue[q].HEAD
      OBVIOUS
    <2>2. /\ q \in Queues /\ q # SuspendQ /\ k.queue[q].HEAD # NULL /\ h \in TasksOf(k, q)
          /\ h \in Tasks \ R /\ k.tcb[h].state = "READY"
      BY <1>4, <2>1, FirstJob
    <2>3. PICK x : x = PopHead(k, q)
      OBVIOUS
    <2>4. HeadPopped(x, k, q, h)
      BY <1>2, <2>1, <2>2, <2>3, PopHeadLists
    <2>5. /\ Shifted(x, k, q, h, TasksOf(k, q) \ {h})
          /\ \A u \in TasksOf(k, q) : u # h => Precedes(k, q, h, u)
          /\ x.tcb[h].state = "RUNNING" /\ x.tcb[h].next = NULL
      BY <2>2, <2>4 DEF HeadPopped, PoppedState
    <2>6. TakenOff(x, k, R, h)
      BY <2>2, <2>5, TakeOff
    <2>7. /\ InPlace(x, R \cup {h}) /\ Cleared(x, {})
          /\ \A u \in Tasks : u # h => x.tcb[u].state = k.tcb[u].state
      BY <2>5, <2>6 DEF TakenOff, Shifted
    <2>8. Steady(x, k)
      BY <2>2, <2>5, ShiftedSteady
    <2>9. Leads(k, R, h) /\ h # TID_NULL
      BY <1>4, <2>1, <2>5, HeadLeads
    <2>10. d = [x EXCEPT !.cur = h]
      BY <1>1, <1>4, <2>1, <2>3 DEF Dispatch
    <2>11. Turned(d, x, R \cup {h}, h)
      BY <2>2, <2>7, <2>10, SetCur
    <2>12. /\ d.cur = h /\ d.tcb = x.tcb /\ InPlace(d, R \cup {h}) /\ Cleared(d, {})
           /\ Steady(d, x)
      BY <2>7, <2>11 DEF Turned, Repainted
    <2>13. Steady(d, k)
      BY <2>8, <2>12, SteadySteps
    <2> QED
      BY <1>1, <2>2, <2>5, <2>7, <2>9, <2>12, <2>13 DEF Chose
  <1> QED
    BY <1>3, <1>4

----------------------------------------------------------------------------
(***************************************************************************)
(* Queueing a task of R that is READY or RUNNING.                          *)
(***************************************************************************)
Queued(l, k, R, t) == /\ PutOn(l, k, R, t) /\ Steady(l, k) /\ l.cur = k.cur
                      /\ l.tcb[t].state = "READY"
                      /\ \A u \in Tasks : u # t => l.tcb[u].state = k.tcb[u].state

LEMMA QueuedFrom ==
    ASSUME NEW k, NEW R, InPlace(k, R), NEW t \in R, t \in Tasks, t # TID_NULL,
           k.tcb[t].state # "DORMANT", NEW q \in Queues, q = ReadyQ(k.tcb[t].prio),
           NEW m, Shifted(m, k, q, t, TasksOf(k, q) \cup {t}),
           NEW l, Restated(l, m, t, "READY"),
           OnlyJobsAtTop /\ q = ReadyQ(RT_INDEX) => ByDeadline(m, q)
    PROVE  Queued(l, k, R, t)
  <1>1. InBounds(k.tcb[t].prio) /\ q # SuspendQ
    BY FitsFacts, QueueIds
  <1>2. PutOn(l, k, R, t)
    BY <1>1, Put
  <1>3. Steady(m, k) /\ m.cur = k.cur
    BY <1>1, ShiftedSteady
  <1>4. /\ DOMAIN l = DOMAIN m /\ l.cur = m.cur /\ l.tcb[t].state = "READY"
        /\ \A f \in DOMAIN m : f \notin {"tcb", "queue"} => l[f] = m[f]
        /\ \A u \in Tasks : SameTask(l.tcb[u], m.tcb[u])
        /\ \A u \in Tasks : u # t => l.tcb[u].state = m.tcb[u].state
        /\ \A u \in Tasks : l.tcb[u].next = m.tcb[u].next /\ l.tcb[u].prev = m.tcb[u].prev
        /\ Memory(l) /\ l.queue = m.queue
    BY DEF Restated, SameRest, SameTask
  <1>5. TasksOf(l, SuspendQ) = TasksOf(m, SuspendQ)
    <2>1. Memory(m) /\ Lists(m)
      BY DEF Shifted
    <2> QED
      BY <1>4, <2>1, Relisted, QueueIds
  <1>6. Steady(l, m)
    BY <1>4, <1>5 DEF Steady, Alike
  <1>7. Steady(l, k)
    BY <1>3, <1>6, SteadySteps
  <1>8. \A u \in Tasks : u # t => m.tcb[u].state = k.tcb[u].state
    BY DEF Shifted
  <1> QED
    BY <1>2, <1>3, <1>4, <1>7, <1>8 DEF Queued

LEMMA RestatedSelf ==
    ASSUME NEW m, Memory(m), NEW t, NEW s, m.tcb[t].state = s
    PROVE  Restated(m, m, t, s)
  BY DEF Restated, SameRest, SameTask

\* At the tail, or where its deadline belongs: a job whose state is not READY keeps it
\* when it goes before others, and its state is set by the caller.
TailPut(m, k, R, t) ==
    /\ Memory(m) /\ m.cur = k.cur
    /\ \A l : Restated(l, m, t, "READY") => Queued(l, k, R, t)
    /\ k.tcb[t].state = "READY" \/ ~k.tcb[t].real_time => Queued(m, k, R, t)

LEMMA TailReady ==
    ASSUME NEW k, NEW R, InPlace(k, R), NEW t \in R, t \in Tasks, t # TID_NULL,
           k.tcb[t].state \in {"READY", "RUNNING"}
    PROVE  TailPut(PushTailReady(k, t), k, R, t)
  <1>1. /\ Memory(k) /\ Lists(k) /\ Loose(k, t) /\ k.tcb[t].real_time \in BOOLEAN
        /\ k.tcb[t].prio \in Prio
    BY MemoryFields DEF InPlace, Seated
  <1>2. PICK q : q = ReadyQ(k.tcb[t].prio)
    OBVIOUS
  <1>3. InBounds(k.tcb[t].prio) /\ q \in Queues
    BY <1>1, <1>2, FitsFacts, QueueIds
  <1>4. PICK m : m = PushTailReady(k, t)
    OBVIOUS
  <1>5. m = PushTail(k, t, q)
    BY <1>2, <1>3, <1>4 DEF PushTailReady
  <1>6. /\ Shifted(m, k, q, t, TasksOf(k, q) \cup {t})
        /\ m.tcb[t].state \in {k.tcb[t].state, "READY"}
        /\ ~k.tcb[t].real_time => m.tcb[t].state = "READY"
        /\ OnlyJobsAtTop /\ q = ReadyQ(RT_INDEX) => ByDeadline(m, q)
    <2>1. CASE ~k.tcb[t].real_time
      <3>1. /\ Shifted(m, k, q, t, TasksOf(k, q) \cup {t})
            /\ m.tcb[t].state = "READY"
        BY <1>1, <1>3, <1>5, <2>1, PushTailLists
      <3>2. ~(OnlyJobsAtTop /\ q = ReadyQ(RT_INDEX))
        <4>1. OnlyJobsAtTop => k.tcb[t].prio # RT_INDEX
          BY <2>1, FitsFacts
        <4> QED
          BY <1>2, <4>1, QueueIds
      <3> QED
        BY <3>1, <3>2
    <2>2. CASE k.tcb[t].real_time
      <3>1. k.tcb[t].prio = RT_INDEX
        BY <2>2, FitsFacts
      <3>2. \A u \in TasksOf(k, q) : k.tcb[u].state = "READY"
        BY <1>2, <1>3, SeatOf, QueueIds
      <3>3. /\ Shifted(m, k, q, t, TasksOf(k, q) \cup {t})
            /\ m.tcb[t].state \in {k.tcb[t].state, "READY"}
            /\ ByDeadline(k, q) => ByDeadline(m, q)
        BY <1>1, <1>3, <1>5, <2>2, <3>1, <3>2, PushTailSorted
      <3>4. OnlyJobsAtTop /\ q = ReadyQ(RT_INDEX) => ByDeadline(k, q)
        BY DEF InPlace, Sorted
      <3> QED
        BY <2>2, <3>3, <3>4
    <2> QED
      BY <1>1, <2>1, <2>2
  <1>7. Memory(m) /\ m.cur = k.cur
    BY <1>6 DEF Shifted, SameRest
  <1>8. ASSUME NEW l, Restated(l, m, t, "READY")
        PROVE  Queued(l, k, R, t)
    BY <1>2, <1>3, <1>6, <1>8, QueuedFrom
  <1>9. ASSUME k.tcb[t].state = "READY" \/ ~k.tcb[t].real_time
        PROVE  Queued(m, k, R, t)
    <2>1. m.tcb[t].state = "READY"
      BY <1>6, <1>9
    <2>2. Restated(m, m, t, "READY")
      BY <1>7, <2>1, RestatedSelf
    <2> QED
      BY <1>8, <2>2
  <1> QED
    BY <1>4, <1>7, <1>8, <1>9 DEF TailPut

\* At the head, where no job is that has an earlier deadline than t.
LEMMA HeadReady ==
    ASSUME NEW k, NEW R, InPlace(k, R), Cleared(k, {}), NEW t \in R, t \in Tasks, t # TID_NULL,
           k.tcb[t].state \in {"READY", "RUNNING"},
           k.tcb[t].real_time => Leads(k, R, t)
    PROVE  Queued(PushHeadReady(k, t), k, R, t) /\ Cleared(PushHeadReady(k, t), {})
  <1>1. Memory(k) /\ Lists(k) /\ Loose(k, t) /\ k.tcb[t].prio \in Prio /\ k.tcb[t].next = NULL
    BY MemoryFields DEF InPlace, Seated, Cleared
  <1>2. PICK q : q = ReadyQ(k.tcb[t].prio)
    OBVIOUS
  <1>3. InBounds(k.tcb[t].prio) /\ q \in Queues
    BY <1>1, <1>2, FitsFacts, QueueIds
  <1>4. PICK m : m = PushHeadReady(k, t)
    OBVIOUS
  <1>5. m = PushHead(k, t, q)
    BY <1>2, <1>3, <1>4 DEF PushHeadReady
  <1>6. Shifted(m, k, q, t, TasksOf(k, q) \cup {t}) /\ m.tcb[t].state = "READY"
    BY <1>1, <1>3, <1>5, PushHeadLists
  <1>7. ASSUME OnlyJobsAtTop, q = ReadyQ(RT_INDEX)
        PROVE  ByDeadline(m, q)
    <2>1. k.tcb[t].prio = RT_INDEX /\ k.tcb[t].real_time
      BY <1>2, <1>7, FitsFacts, QueueIds
    <2>2. ASSUME NEW u \in TasksOf(k, q)
          PROVE  k.tcb[t].tsk_deadline <= k.tcb[u].tsk_deadline
      <3>1. u \in Tasks \ R /\ k.tcb[u].state = "READY" /\ q = ReadyQ(k.tcb[u].prio)
        BY <1>2, <1>3, SeatOf, QueueIds
      <3>2. k.tcb[u].prio = RT_INDEX
        BY <1>7, <3>1, QueueIds
      <3>3. k.tcb[u].real_time
        BY <1>7, <3>1, <3>2, FitsFacts
      <3> QED
        BY <1>7, <2>1, <3>1, <3>3 DEF Leads
    <2>3. ByDeadline(k, q)
      BY <1>7 DEF InPlace, Sorted
    <2> QED
      BY <1>1, <1>3, <1>5, <2>2, <2>3, PushHeadSorted
  <1>8. Restated(m, m, t, "READY")
    BY <1>6, RestatedSelf DEF Shifted
  <1>9. Queued(m, k, R, t)
    BY <1>2, <1>3, <1>6, <1>7, <1>8, QueuedFrom
  <1>10. Cleared(m, {})
    BY <1>9 DEF Queued, PutOn, Cleared
  <1> QED
    BY <1>4, <1>9, <1>10

----------------------------------------------------------------------------
(***************************************************************************)
(* The loop of the interrupt over suspend_tsk.                             *)
(***************************************************************************)
\* The clock and the periods are in k too.
Clocked(k) == "now" \in DOMAIN k /\ "period" \in DOMAIN k

LEMMA AlikeDue ==
    ASSUME NEW k, Clocked(k), NEW l, Alike(l, k)
    PROVE  /\ Clocked(l) /\ l.now = k.now /\ l.period = k.period
           /\ \A u \in Tasks : Due(l, u) <=> Due(k, u)
  <1>1. Clocked(l) /\ l.now = k.now /\ l.period = k.period
    BY DEF Clocked, Alike
  <1>2. \A u \in Tasks : l.tcb[u].tsk_deadline = k.tcb[u].tsk_deadline
    BY DEF Alike, SameTask
  <1> QED
    BY <1>1, <1>2 DEF Due

\* From k to l the tasks of S have left suspend_tsk, to be READY.
Woken(l, k, R, S) ==
    /\ InPlace(l, R) /\ Cleared(l, {}) /\ Alike(l, k) /\ l.cur = k.cur
    /\ TasksOf(l, SuspendQ) = TasksOf(k, SuspendQ) \ S
    /\ \A u \in Tasks \ TasksOf(k, SuspendQ) : l.tcb[u].state = k.tcb[u].state

LEMMA WokenOne ==
    ASSUME NEW k, NEW R, InPlace(k, R), Cleared(k, {}), NEW t \in TasksOf(k, SuspendQ),
           NEW l, l = PushTailReady([PopTask(k, t, SuspendQ) EXCEPT !.tcb[t].state = "READY"], t)
    PROVE  Woken(l, k, R, {t})
  <1>1. PICK q : q = SuspendQ
    OBVIOUS
  <1>2. q \in Queues /\ Memory(k) /\ Lists(k) /\ TID_NULL \in R
    BY <1>1, QueueIds DEF InPlace
  <1>3. t \in Tasks \ R /\ k.tcb[t].state = "SUSPENDED" /\ t # TID_NULL
    BY <1>1, <1>2, SeatOf, QueueIds
  <1>4. PICK x : x = PopTask(k, t, q)
    OBVIOUS
  <1>5. /\ Shifted(x, k, q, t, TasksOf(k, q) \ {t})
        /\ x.tcb[t].state \in {"SUSPENDED", "READY"}
    BY <1>1, <1>2, <1>3, <1>4, PopTaskLists
  <1>6. TakenOff(x, k, R, t)
    BY <1>1, <1>2, <1>5, TakeOff
  <1>7. InPlace(x, R \cup {t}) /\ Cleared(x, {t}) /\ Memory(x)
    BY <1>6 DEF TakenOff, InPlace
  <1>8. PICK y : y = [x EXCEPT !.tcb[t].state = "READY"]
    OBVIOUS
  <1>9. Restated(y, x, t, "READY")
    BY <1>3, <1>7, <1>8, WriteState DEF States
  <1>10. Repainted(y, x, R \cup {t})
    <2>1. t \in R \cup {t} /\ t \in Tasks /\ x.tcb[t].state # "DORMANT"
      BY <1>3, <1>5
    <2> QED
      BY <1>7, <1>9, <2>1, Restate
  <1>11. /\ InPlace(y, R \cup {t}) /\ Cleared(y, {t}) /\ y.tcb[t].state = "READY"
         /\ \A u \in Tasks : u # t => y.tcb[u].state = x.tcb[u].state
    BY <1>7, <1>9, <1>10 DEF Repainted, Restated
  <1>12. Steady(y, x) /\ y.cur = x.cur
    BY <1>3, <1>9, <1>10, RestatedSteady
  <1>13. TailPut(l, y, R \cup {t}, t)
    <2>1. l = PushTailReady(y, t)
      BY <1>1, <1>4, <1>8
    <2> QED
      BY <1>3, <1>11, <2>1, TailReady
  <1>14. Queued(l, y, R \cup {t}, t)
    BY <1>11, <1>13 DEF TailPut
  <1>15. /\ InPlace(l, R) /\ Cleared(l, {}) /\ Steady(l, y) /\ l.cur = y.cur
         /\ \A u \in Tasks : u # t => l.tcb[u].state = y.tcb[u].state
    <2>1. (R \cup {t}) \ {t} = R
      BY <1>3
    <2> QED
      BY <1>11, <1>14, <2>1 DEF Queued, PutOn
  <1>16. /\ Alike(x, k) /\ x.cur = k.cur /\ TasksOf(x, q) = TasksOf(k, q) \ {t}
         /\ \A u \in Tasks : u # t => x.tcb[u].state = k.tcb[u].state
    BY <1>5 DEF Shifted, SameRest, Alike
  <1>17. Alike(l, x) /\ TasksOf(l, SuspendQ) = TasksOf(x, SuspendQ)
    BY <1>12, <1>15, SteadySteps DEF Steady
  <1>18. Alike(l, k)
    BY <1>16, <1>17, SteadySteps
  <1> QED
    BY <1>1, <1>3, <1>11, <1>12, <1>15, <1>16, <1>17, <1>18 DEF Woken

\* The turns one after the other.
TurnsTo(f, k, path, n) ==
    f = [i \in 0 .. n |-> IF i = 0 THEN k ELSE Release(f[i - 1], path[i])]

LEMMA TurnsExist ==
    ASSUME NEW k, NEW path, NEW n \in Nat
    PROVE  \E f : TurnsTo(f, k, path, n)
  <1> DEFINE Bad == {i \in Nat : ~ \E f : TurnsTo(f, k, path, i)}
  <1> SUFFICES ASSUME Bad # {} PROVE FALSE
    OBVIOUS
  <1>1. Bad \in SUBSET Nat
    OBVIOUS
  <1>2. PICK i \in Bad : \A j \in Bad : i <= j
    BY <1>1, Least
  <1>3. i \in Nat /\ ~ \E f : TurnsTo(f, k, path, i)
    OBVIOUS
  <1>4. i # 0
    <2>1. PICK f : f = [j \in 0 .. 0 |-> k]
      OBVIOUS
    <2>2. TurnsTo(f, k, path, 0)
      BY <2>1 DEF TurnsTo
    <2> QED
      BY <1>3, <2>2
  <1>5. i - 1 \in Nat /\ i - 1 \notin Bad
    BY <1>2, <1>4
  <1>6. PICK f : TurnsTo(f, k, path, i - 1)
    BY <1>5
  <1> HIDE DEF Bad
  <1>7. f = [j \in 0 .. i - 1 |-> IF j = 0 THEN k ELSE Release(f[j - 1], path[j])]
    BY <1>6 DEF TurnsTo
  <1>8. PICK x : x = Release(f[i - 1], path[i])
    OBVIOUS
  <1>9. PICK g : g = [j \in 0 .. i |-> IF j = i THEN x ELSE f[j]]
    OBVIOUS
  <1>10. ASSUME NEW j \in 0 .. i
         PROVE  g[j] = IF j = 0 THEN k ELSE Release(g[j - 1], path[j])
    <2>1. CASE j = i
      <3>1. g[j - 1] = f[i - 1] /\ g[j] = x
        BY <1>3, <1>4, <1>9, <2>1
      <3> QED
        BY <1>4, <1>8, <2>1, <3>1
    <2>2. CASE j # i
      <3>1. j \in 0 .. i - 1 /\ g[j] = f[j]
        BY <1>3, <1>9, <2>2
      <3>2. f[j] = IF j = 0 THEN k ELSE Release(f[j - 1], path[j])
        BY <1>7, <3>1
      <3>3. j # 0 => g[j - 1] = f[j - 1]
        BY <1>3, <1>9, <3>1
      <3> QED
        BY <3>1, <3>2, <3>3
    <2> QED
      BY <2>1, <2>2
  <1>11. TurnsTo(g, k, path, i)
    <2>1. g = [j \in 0 .. i |-> g[j]]
      BY <1>9
    <2> QED
      BY <1>10, <2>1 DEF TurnsTo
  <1> QED
    BY <1>3, <1>11

LEMMA TurnsAre ==
    ASSUME NEW k, NEW path, NEW n \in Nat, Len(path) = n
    PROVE  \E f : TurnsTo(f, k, path, n) /\ Turns(k, path) = f[n]
  <1>1. PICK f : f = CHOOSE g : TurnsTo(g, k, path, n)
    OBVIOUS
  <1>2. TurnsTo(f, k, path, n)
    BY <1>1, TurnsExist
  <1>3. PICK g : g = CHOOSE h : h = [i \in 0 .. n |->
                                        IF i = 0 THEN k ELSE Release(h[i - 1], path[i])]
    OBVIOUS
  <1>4. Turns(k, path) = g[n]
    BY <1>3 DEF Turns
  <1>5. g = [i \in 0 .. n |-> IF i = 0 THEN k ELSE Release(g[i - 1], path[i])]
    BY <1>2, <1>3 DEF TurnsTo
  <1> QED
    BY <1>4, <1>5 DEF TurnsTo

\* Those of the first i nodes of p whose period has begun.
DueOf(k, p, i) == {p[j] : j \in {h \in 1 .. i : Due(k, p[h])}}

LEMMA WokenTurn ==
    ASSUME NEW k, NEW R, Clocked(k), NEW n \in Nat, NEW p, Path(n, p),
           Range(p) = TasksOf(k, SuspendQ), NEW i \in 1 .. n,
           NEW j, Woken(j, k, R, DueOf(k, p, i - 1))
    PROVE  Woken(Release(j, p[i]), k, R, DueOf(k, p, i))
  <1>1. PICK l : l = Release(j, p[i])
    OBVIOUS
  <1>2. PICK t : t = p[i]
    OBVIOUS
  <1>3. t \in Tasks /\ t \in TasksOf(k, SuspendQ)
    BY <1>2 DEF Path, Range
  <1>4. PICK S, V : S = DueOf(k, p, i - 1) /\ V = DueOf(k, p, i)
    OBVIOUS
  <1>5. /\ InPlace(j, R) /\ Cleared(j, {}) /\ Alike(j, k) /\ j.cur = k.cur
        /\ TasksOf(j, SuspendQ) = TasksOf(k, SuspendQ) \ S
        /\ \A u \in Tasks \ TasksOf(k, SuspendQ) : j.tcb[u].state = k.tcb[u].state
    BY <1>4 DEF Woken
  <1>6. Due(j, t) <=> Due(k, t)
    BY <1>3, <1>5, AlikeDue
  <1>7. V = S \cup {u \in {t} : Due(k, u)}
    <2>1. 1 .. i = (1 .. i - 1) \cup {i}
      OBVIOUS
    <2> QED
      BY <1>2, <1>4, <2>1 DEF DueOf
  <1>8. CASE ~Due(k, t)
    <2>1. l = j
      BY <1>1, <1>2, <1>6, <1>8 DEF Release
    <2>2. V = S
      BY <1>7, <1>8
    <2> QED
      BY <1>1, <1>4, <1>5, <2>1, <2>2 DEF Woken
  <1>9. CASE Due(k, t)
    <2>1. t \notin S
      BY <1>2, <1>4 DEF DueOf, Path
    <2>2. t \in TasksOf(j, SuspendQ)
      BY <1>3, <1>5, <2>1
    <2>3. l = PushTailReady([PopTask(j, t, SuspendQ) EXCEPT !.tcb[t].state = "READY"], t)
      BY <1>1, <1>2, <1>6, <1>9 DEF Release
    <2>4. Woken(l, j, R, {t})
      BY <1>5, <2>2, <2>3, WokenOne
    <2>5. /\ InPlace(l, R) /\ Cleared(l, {}) /\ Alike(l, j) /\ l.cur = j.cur
          /\ TasksOf(l, SuspendQ) = TasksOf(j, SuspendQ) \ {t}
          /\ \A u \in Tasks \ TasksOf(j, SuspendQ) : l.tcb[u].state = j.tcb[u].state
      BY <2>4 DEF Woken
    <2>6. Alike(l, k)
      BY <1>5, <2>5, SteadySteps
    <2>7. V = S \cup {t}
      BY <1>7, <1>9
    <2>8. TasksOf(l, SuspendQ) = TasksOf(k, SuspendQ) \ V
      BY <1>5, <2>5, <2>7
    <2>9. \A u \in Tasks \ TasksOf(k, SuspendQ) : l.tcb[u].state = k.tcb[u].state
      BY <1>5, <2>5
    <2> QED
      BY <1>1, <1>4, <1>5, <2>5, <2>6, <2>8, <2>9 DEF Woken
  <1> QED
    BY <1>8, <1>9

\* All of them: nobody stays suspended whose period has begun.
LEMMA ReleaseAllWakes ==
    ASSUME NEW k, NEW R, InPlace(k, R), Cleared(k, {}), Clocked(k)
    PROVE  Woken(ReleaseAll(k), k, R, {u \in TasksOf(k, SuspendQ) : Due(k, u)})
  <1>1. PICK p, n : p = Nodes(k, SuspendQ) /\ n = Len(p)
    OBVIOUS
  <1>2. Memory(k) /\ Linked(k, SuspendQ)
    BY QueueIds DEF InPlace, Lists
  <1>3. Path(n, p) /\ Range(p) = TasksOf(k, SuspendQ) /\ n \in Nat
    BY <1>1, <1>2, LinkedFacts DEF Path
  <1>4. PICK f : TurnsTo(f, k, p, n) /\ Turns(k, p) = f[n]
    BY <1>1, <1>3, TurnsAre
  <1>5. ReleaseAll(k) = f[n]
    BY <1>1, <1>4 DEF ReleaseAll
  <1>6. \A i \in 0 .. n : f[i] = IF i = 0 THEN k ELSE Release(f[i - 1], p[i])
    BY <1>4 DEF TurnsTo
  <1> DEFINE Bad == {i \in 0 .. n : ~Woken(f[i], k, R, DueOf(k, p, i))}
  <1>7. Bad = {}
    <2> SUFFICES ASSUME Bad # {} PROVE FALSE
      OBVIOUS
    <2>1. Bad \in SUBSET Nat
      OBVIOUS
    <2>2. PICK i \in Bad : \A j \in Bad : i <= j
      BY <2>1, Least
    <2>3. CASE i = 0
      <3>1. DueOf(k, p, 0) = {}
        BY DEF DueOf
      <3>2. f[0] = k
        BY <1>3, <1>6
      <3>3. Woken(k, k, R, {})
        BY SteadySteps DEF Woken, Steady
      <3> QED
        BY <2>2, <2>3, <3>1, <3>2, <3>3
    <2>4. CASE i # 0
      <3>1. i \in 1 .. n /\ i - 1 \in 0 .. n /\ i - 1 \notin Bad
        BY <1>3, <2>2, <2>4
      <3>2. PICK j : j = f[i - 1]
        OBVIOUS
      <3>3. Woken(j, k, R, DueOf(k, p, i - 1)) /\ f[i] = Release(j, p[i])
        BY <1>6, <2>4, <3>1, <3>2
      <3>4. Woken(f[i], k, R, DueOf(k, p, i))
        BY <1>3, <3>1, <3>3, WokenTurn
      <3> QED
        BY <2>2, <3>4
    <2> QED
      BY <2>3, <2>4
  <1>8. Woken(f[n], k, R, DueOf(k, p, n))
    BY <1>3, <1>7
  <1>9. DueOf(k, p, n) = {u \in TasksOf(k, SuspendQ) : Due(k, u)}
    BY <1>3 DEF DueOf, Range, Path
  <1> QED
    BY <1>5, <1>8, <1>9

----------------------------------------------------------------------------
(***************************************************************************)
(* The task the scheduler chose runs.                                      *)
(***************************************************************************)
\* What a call leaves behind, and how much it leaves alone.
Ran(l, k, ex) == Manned(l, ex) /\ Earliest(l) /\ Steady(l, k)

\* Who lives and is on no queue.
LEMMA MannedFacts ==
    ASSUME NEW k, NEW ex, Manned(k, ex)
    PROVE  /\ InPlace(k, Live(k, ex)) /\ Cleared(k, {}) /\ Memory(k)
           /\ k.cur \in Tasks /\ k.cur \in Live(k, ex) /\ TID_NULL \in Live(k, ex)
           /\ TID_NULL \in Tasks /\ Live(k, ex) = ex \cup {k.cur, TID_NULL}
           /\ k.tcb[k.cur].state = "RUNNING" /\ Live(k, ex) \subseteq Tasks
           /\ \A u \in Live(k, ex) : k.tcb[u].state \in {"READY", "RUNNING"}
           /\ \A u \in Live(k, ex) : u # TID_NULL => k.tcb[u].state = "RUNNING"
           /\ \A u \in Tasks : k.tcb[u].state = "READY" /\ k.tcb[u].real_time
                               => u \notin Live(k, ex)
  <1>1. /\ InPlace(k, Live(k, ex)) /\ Cleared(k, {}) /\ k.cur \in Tasks /\ ex \subseteq Tasks
        /\ \A u \in ex \cup {k.cur} : k.tcb[u].state = "RUNNING"
        /\ k.tcb[TID_NULL].state \in {"READY", "RUNNING"}
    BY DEF Manned
  <1>2. Live(k, ex) = ex \cup {k.cur, TID_NULL} /\ TID_NULL \in Tasks
    BY QueueIds DEF Live
  <1>3. ~k.tcb[TID_NULL].real_time /\ Memory(k)
    BY <1>1, FitsFacts
  <1> QED
    BY <1>1, <1>2, <1>3

\* The state of a task of R other than DORMANT is written.
StateSet(l, k, R, t, s) ==
    /\ Repainted(l, k, R) /\ Steady(l, k) /\ l.cur = k.cur
    /\ l.tcb[t].state = s /\ \A u \in Tasks : u # t => l.tcb[u] = k.tcb[u]

LEMMA WriteStateOf ==
    ASSUME NEW k, NEW R, InPlace(k, R), NEW t \in R, t \in Tasks, k.tcb[t].state # "DORMANT",
           NEW s \in States
    PROVE  StateSet([k EXCEPT !.tcb[t].state = s], k, R, t, s)
  <1>0. PICK l : l = [k EXCEPT !.tcb[t].state = s]
    OBVIOUS
  <1>1. Restated(l, k, t, s)
    BY <1>0, WriteState DEF InPlace
  <1>2. Repainted(l, k, R)
    BY <1>1, Restate
  <1>3. Steady(l, k) /\ l.cur = k.cur
    BY <1>1, <1>2, RestatedSteady
  <1> QED
    BY <1>0, <1>1, <1>2, <1>3 DEF Restated, StateSet

\* What the scheduler is given: everybody is on a queue but the tasks of ex, which have
\* exited, and the null task.
Offered(j, ex) ==
    /\ InPlace(j, ex \cup {TID_NULL}) /\ Cleared(j, {})
    /\ ex \subseteq Tasks /\ TID_NULL \notin ex
    /\ \A u \in ex : j.tcb[u].state = "RUNNING"
    /\ j.tcb[TID_NULL].state \in {"READY", "RUNNING"}

LEMMA DispatchRuns ==
    ASSUME NEW j, NEW ex, Offered(j, ex), NEW d, d = Dispatch(j), NEW l, l = Run(d)
    PROVE  /\ Ran(l, j, ex) /\ l.cur = d.cur
           /\ \A u \in Tasks : u # d.cur => l.tcb[u].state = j.tcb[u].state
           /\ d.tcb[d.cur].state = "RUNNING" => l = d
  <1>1. PICK R : R = ex \cup {TID_NULL}
    OBVIOUS
  <1>2. /\ InPlace(j, R) /\ Cleared(j, {}) /\ TID_NULL \in R /\ TID_NULL \in Tasks
        /\ ex \subseteq Tasks /\ TID_NULL \notin ex
        /\ \A u \in ex : j.tcb[u].state = "RUNNING"
        /\ j.tcb[TID_NULL].state \in {"READY", "RUNNING"}
    BY <1>1, NullTask DEF Offered
  <1>3. Chose(d, j, R)
    BY <1>2, DispatchChose
  <1>4. /\ InPlace(d, R \cup {d.cur}) /\ Cleared(d, {}) /\ Steady(d, j) /\ d.cur \in Tasks
        /\ \A u \in Tasks : u # d.cur => d.tcb[u].state = j.tcb[u].state
        /\ d.cur = TID_NULL => d.tcb = j.tcb
        /\ d.cur # TID_NULL => d.cur \notin R /\ d.tcb[d.cur].state = "RUNNING"
        /\ Leads(j, R, d.cur)
    BY <1>3 DEF Chose
  <1>5. d.tcb[d.cur].state \in {"READY", "RUNNING"}
    BY <1>2, <1>4
  <1>6. l = [d EXCEPT !.tcb[d.cur].state = "RUNNING"]
    BY DEF Run
  <1>7. /\ Repainted(l, d, R \cup {d.cur}) /\ Steady(l, d) /\ l.cur = d.cur
        /\ l.tcb[d.cur].state = "RUNNING" /\ \A u \in Tasks : u # d.cur => l.tcb[u] = d.tcb[u]
    <2>1. d.cur \in R \cup {d.cur} /\ d.tcb[d.cur].state # "DORMANT" /\ "RUNNING" \in States
      BY <1>5 DEF States
    <2> QED
      <3>1. InPlace(d, R \cup {d.cur}) /\ d.cur \in Tasks
        BY <1>4
      <3>2. StateSet(l, d, R \cup {d.cur}, d.cur, "RUNNING")
        BY <1>6, <2>1, <3>1, WriteStateOf
      <3> QED
        BY <3>2 DEF StateSet
  <1>8. InPlace(l, R \cup {d.cur}) /\ Cleared(l, {})
    BY <1>4, <1>7 DEF Repainted
  <1>9. Steady(l, j)
    BY <1>4, <1>7, SteadySteps
  <1>10. \A u \in Tasks : u # d.cur => l.tcb[u].state = j.tcb[u].state
    BY <1>4, <1>7
  <1>11. Manned(l, ex)
    <2>1. Live(l, ex) = R \cup {d.cur}
      BY <1>1, <1>7 DEF Live
    <2>2. d.cur \notin ex
      BY <1>1, <1>2, <1>4
    <2>3. l.tcb[TID_NULL].state \in {"READY", "RUNNING"}
      BY <1>2, <1>7, <1>10
    <2>4. \A u \in ex \cup {l.cur} : l.tcb[u].state = "RUNNING"
      BY <1>2, <1>7, <1>10
    <2> QED
      BY <1>2, <1>4, <1>7, <1>8, <2>1, <2>2, <2>3, <2>4 DEF Manned
  <1>12. Earliest(l)
    <2> SUFFICES ASSUME OnlyJobsAtTop, NEW u \in Tasks, l.tcb[u].state = "READY",
                        l.tcb[u].real_time
                 PROVE  l.tcb[l.cur].real_time
                        /\ l.tcb[l.cur].tsk_deadline <= l.tcb[u].tsk_deadline
      BY DEF Earliest
    <2>1. u \notin Live(l, ex)
      BY <1>11, MannedFacts
    <2>2. u \notin R /\ u # d.cur
      BY <1>1, <1>7, <2>1 DEF Live
    <2>3. \A v \in Tasks : /\ l.tcb[v].real_time = j.tcb[v].real_time
                           /\ l.tcb[v].tsk_deadline = j.tcb[v].tsk_deadline
      BY <1>9 DEF Steady, Alike, SameTask
    <2>4. j.tcb[u].state = "READY" /\ j.tcb[u].real_time
      BY <1>10, <2>2, <2>3
    <2>5. j.tcb[d.cur].real_time /\ j.tcb[d.cur].tsk_deadline <= j.tcb[u].tsk_deadline
      BY <1>4, <2>2, <2>4 DEF Leads
    <2> QED
      BY <1>4, <1>7, <2>3, <2>5
  <1>13. d.tcb[d.cur].state = "RUNNING" => l = d
    BY <1>4, <1>6, SameState DEF InPlace
  <1> QED
    BY <1>7, <1>9, <1>10, <1>11, <1>12, <1>13 DEF Ran

\* The null task gets the state READY while another task runs.
LEMMA NullWaits ==
    ASSUME NEW k, NEW ex, Manned(k, ex), Earliest(k), k.cur # TID_NULL,
           NEW l, l = [k EXCEPT !.tcb[TID_NULL].state = "READY"]
    PROVE  Ran(l, k, ex) /\ l.cur = k.cur
  <1>1. /\ InPlace(k, Live(k, ex)) /\ Cleared(k, {}) /\ TID_NULL \in Live(k, ex)
        /\ TID_NULL \in Tasks /\ k.tcb[TID_NULL].state # "DORMANT" /\ "READY" \in States
        /\ \A u \in Tasks : k.tcb[u].state = "READY" /\ k.tcb[u].real_time
                            => u \notin Live(k, ex)
    BY MannedFacts DEF States
  <1>2. /\ Repainted(l, k, Live(k, ex)) /\ Steady(l, k) /\ l.cur = k.cur
        /\ l.tcb[TID_NULL].state = "READY"
        /\ \A u \in Tasks : u # TID_NULL => l.tcb[u] = k.tcb[u]
    <2>1. StateSet(l, k, Live(k, ex), TID_NULL, "READY")
      BY <1>1, WriteStateOf
    <2> QED
      BY <2>1 DEF StateSet
  <1>3. Live(l, ex) = Live(k, ex) /\ InPlace(l, Live(l, ex)) /\ Cleared(l, {})
    BY <1>1, <1>2 DEF Live, Repainted
  <1>4. Manned(l, ex)
    BY <1>2, <1>3 DEF Manned
  <1>5. Earliest(l)
    <2>1. ~l.tcb[TID_NULL].real_time
      BY <1>3, FitsFacts
    <2>2. k.cur \in Tasks
      BY DEF Manned
    <2> QED
      BY <1>2, <2>1, <2>2 DEF Earliest
  <1> QED
    BY <1>2, <1>4, <1>5 DEF Ran

\* k_tsk_run_new of a task that is not a job.
LEMMA NewRuns ==
    ASSUME NEW j, NEW ex, Offered(j, ex), j.cur \in Tasks \ ex, ~j.tcb[j.cur].real_time,
           j.tcb[j.cur].state = IF j.cur = TID_NULL THEN "RUNNING" ELSE "READY",
           NEW l, l = RunNew(j)
    PROVE  Ran(l, j, ex)
  <1>1. PICK d, r : d = Dispatch(j) /\ r = Run(d)
    OBVIOUS
  <1>2. /\ Ran(r, j, ex) /\ r.cur = d.cur
        /\ \A u \in Tasks : u # d.cur => r.tcb[u].state = j.tcb[u].state
        /\ d.tcb[d.cur].state = "RUNNING" => r = d
    BY <1>1, DispatchRuns
  <1>3. Chose(d, j, ex \cup {TID_NULL})
    BY <1>1, DispatchChose DEF Offered
  <1>4. CASE d.cur = j.cur
    <2>1. l = d
      BY <1>1, <1>4 DEF RunNew
    <2>2. d.tcb[d.cur].state = "RUNNING"
      BY <1>3, <1>4 DEF Chose
    <2> QED
      BY <1>2, <2>1, <2>2
  <1>5. CASE d.cur # j.cur
    <2>1. r.tcb[j.cur].state = j.tcb[j.cur].state
      BY <1>2, <1>5
    <2>2. l = [r EXCEPT !.tcb[j.cur].state = "READY"]
      <3>1. l = [r EXCEPT !.tcb[j.cur].state = IF @ \in Parked THEN @ ELSE "READY"]
        BY <1>1, <1>5 DEF RunNew
      <3>2. r.tcb[j.cur].state \notin Parked
        BY <2>1 DEF Parked
      <3> QED
        BY <3>1, <3>2
    <2>3. Manned(r, ex) /\ Earliest(r) /\ Steady(r, j)
      BY <1>2 DEF Ran
    <2>4. CASE j.cur # TID_NULL
      <3>1. Memory(r)
        BY <2>3, MannedFacts
      <3>2. l = r
        BY <2>1, <2>2, <2>4, <3>1, SameState
      <3> QED
        BY <1>2, <3>2
    <2>5. CASE j.cur = TID_NULL
      <3>1. Ran(l, r, ex)
        BY <1>2, <1>5, <2>2, <2>3, <2>5, NullWaits
      <3>2. Steady(l, j)
        BY <2>3, <3>1, SteadySteps DEF Ran
      <3> QED
        BY <3>1, <3>2 DEF Ran
    <2> QED
      BY <2>4, <2>5
  <1> QED
    BY <1>4, <1>5

----------------------------------------------------------------------------
(***************************************************************************)
(* k_tsk_yield, k_tsk_exit and k_tsk_create.                               *)
(***************************************************************************)
\* The current task is put back on its queue.
LEMMA OfferAgain ==
    ASSUME NEW k, NEW ex, Manned(k, ex), k.cur # TID_NULL,
           NEW j, Queued(j, k, Live(k, ex), k.cur)
    PROVE  Offered(j, ex) /\ Steady(j, k) /\ j.cur = k.cur /\ j.tcb[k.cur].state = "READY"
  <1>1. /\ InPlace(j, Live(k, ex) \ {k.cur}) /\ (Cleared(k, {k.cur}) => Cleared(j, {}))
        /\ Steady(j, k) /\ j.cur = k.cur /\ j.tcb[k.cur].state = "READY"
        /\ \A u \in Tasks : u # k.cur => j.tcb[u].state = k.tcb[u].state
    BY DEF Queued, PutOn
  <1>2. /\ Cleared(k, {}) /\ ex \subseteq Tasks /\ k.cur \in Tasks /\ k.cur \notin ex
        /\ TID_NULL \notin ex /\ \A u \in ex : k.tcb[u].state = "RUNNING"
        /\ k.tcb[TID_NULL].state \in {"READY", "RUNNING"} /\ TID_NULL \in Tasks
    BY NullTask DEF Manned
  <1>3. Cleared(k, {k.cur})
    BY <1>2 DEF Cleared
  <1>4. Live(k, ex) \ {k.cur} = ex \cup {TID_NULL}
    BY <1>2 DEF Live
  <1> QED
    BY <1>1, <1>2, <1>3, <1>4 DEF Offered

LEMMA YieldOnce ==
    ASSUME NEW k, NEW ex, Manned(k, ex), ~k.tcb[k.cur].real_time,
           NEW l, l = RunNew(IF k.tcb[k.cur].prio = NULL_INDEX THEN k
                             ELSE PushTailReady(k, k.cur))
    PROVE  Ran(l, k, ex)
  <1>1. /\ InPlace(k, Live(k, ex)) /\ Cleared(k, {}) /\ k.cur \in Tasks
        /\ k.cur \in Live(k, ex) /\ k.tcb[k.cur].state = "RUNNING"
        /\ Live(k, ex) = ex \cup {k.cur, TID_NULL}
    BY MannedFacts
  <1>2. k.cur \notin ex /\ TID_NULL \notin ex
    BY DEF Manned
  <1>3. CASE k.cur = TID_NULL
    <2>1. k.tcb[k.cur].prio = NULL_INDEX
      BY <1>1, <1>3, FitsFacts
    <2>2. l = RunNew(k)
      BY <2>1
    <2>3. Live(k, ex) = ex \cup {TID_NULL}
      BY <1>1, <1>3
    <2>4. Offered(k, ex)
      BY <1>1, <2>3 DEF Manned, Offered
    <2> QED
      BY <1>1, <1>2, <1>3, <2>2, <2>4, NewRuns
  <1>4. CASE k.cur # TID_NULL
    <2>1. k.tcb[k.cur].prio # NULL_INDEX
      BY <1>1, <1>4, FitsFacts DEF InBounds
    <2>2. PICK j : j = PushTailReady(k, k.cur)
      OBVIOUS
    <2>3. TailPut(j, k, Live(k, ex), k.cur)
      BY <1>1, <1>4, <2>2, TailReady
    <2>4. Queued(j, k, Live(k, ex), k.cur)
      BY <2>3 DEF TailPut
    <2>5. Offered(j, ex) /\ Steady(j, k) /\ j.cur = k.cur /\ j.tcb[k.cur].state = "READY"
      BY <1>4, <2>4, OfferAgain
    <2>6. ~j.tcb[j.cur].real_time
      BY <1>1, <2>5 DEF Steady, Alike, SameTask
    <2>7. l = RunNew(j)
      BY <2>1, <2>2
    <2>8. Ran(l, j, ex)
      BY <1>1, <1>2, <1>4, <2>5, <2>6, <2>7, NewRuns
    <2>9. Steady(l, k)
      BY <2>5, <2>8, SteadySteps DEF Ran
    <2> QED
      BY <2>8, <2>9 DEF Ran
  <1> QED
    BY <1>3, <1>4

LEMMA ExitOnce ==
    ASSUME NEW k, NEW ex, Manned(k, ex), k.cur # TID_NULL,
           NEW l, l = Run(Dispatch(k))
    PROVE  Ran(l, k, ex \cup {k.cur})
  <1>1. PICK E : E = ex \cup {k.cur}
    OBVIOUS
  <1>2. Live(k, ex) = E \cup {TID_NULL}
    BY <1>1 DEF Live
  <1>3. Offered(k, E)
    BY <1>1, <1>2 DEF Manned, Offered
  <1> QED
    BY <1>1, <1>3, DispatchRuns

\* k_tsk_create_new: a new TCB, which is on no queue yet.
Newborn(l, k, R, t, p) ==
    /\ InPlace(l, R \cup {t}) /\ (Cleared(k, {}) => Cleared(l, {})) /\ l.cur = k.cur
    /\ TasksOf(l, SuspendQ) = TasksOf(k, SuspendQ)
    /\ \A u \in Tasks : u # t => l.tcb[u] = k.tcb[u]
    /\ l.tcb[t].state = "READY" /\ ~l.tcb[t].real_time /\ l.tcb[t].prio = p

LEMMA NewTask ==
    ASSUME NEW k, NEW R, InPlace(k, R), NEW t \in Tasks \ R, k.tcb[t].state = "DORMANT",
           NEW p \in Prio, InBounds(p), OnlyJobsAtTop => p # RT_INDEX, NEW priv \in BOOLEAN
    PROVE  Newborn(CreateNew(k, t, p, priv), k, R, t, p)
  <1>1. PICK l : l = CreateNew(k, t, p, priv)
    OBVIOUS
  <1>2. /\ Memory(k) /\ k.tcb[t] \in TCB /\ k.tcb \in [Tasks -> TCB] /\ t # TID_NULL
        /\ SuspendQ \in Queues /\ Loose(k, t)
    BY QueueIds, MemoryFields DEF InPlace, Memory, Seated
  <1>3. PICK W : W = Created(k.tcb[t], p, priv)
    OBVIOUS
  <1>4. /\ W \in TCB /\ W.prio = p /\ W.state = "READY" /\ W.next = k.tcb[t].next
        /\ W.prev = k.tcb[t].prev /\ W.real_time = FALSE
    <2>1. W \in TCB
      BY <1>2, <1>3, CreatedType
    <2> QED
      BY <1>2, <1>3, <2>1 DEF TCB, Created
  <1>5. l = [k EXCEPT !.tcb = [k.tcb EXCEPT ![t] = W]]
    BY <1>1, <1>2, <1>3 DEF Memory, CreateNew
  <1>6. Memory(l) /\ l.tcb = [k.tcb EXCEPT ![t] = W] /\ l.queue = k.queue /\ l.cur = k.cur
    BY <1>2, <1>4, <1>5 DEF Memory
  <1>7. l.tcb[t] = W /\ \A u \in Tasks : u # t => l.tcb[u] = k.tcb[u]
    BY <1>2, <1>6
  <1>8. Fits(l.tcb[t], t)
    BY <1>2, <1>4, <1>7 DEF Fits
  <1>9. Repainted(l, k, R \cup {t})
    BY <1>2, <1>4, <1>6, <1>7, <1>8, Repaint
  <1> QED
    BY <1>1, <1>2, <1>4, <1>6, <1>7, <1>9 DEF Newborn, Repainted

\* Everything is in order after a step that leaves suspend_tsk alone.
GoOn(l, k, ex) == /\ Manned(l, ex) /\ Earliest(l)
                  /\ TasksOf(l, SuspendQ) = TasksOf(k, SuspendQ)

\* A new task that is not of a higher priority than its creator waits.
LEMMA CreateWaits ==
    ASSUME NEW k, NEW ex, Manned(k, ex), Earliest(k), NEW t \in Tasks, k.tcb[t].state = "DORMANT",
           NEW p \in Prio, InBounds(p), OnlyJobsAtTop => p # RT_INDEX, NEW priv \in BOOLEAN,
           NEW l, l = PushTailReady(CreateNew(k, t, p, priv), t)
    PROVE  GoOn(l, k, ex)
  <1>1. PICK R : R = Live(k, ex)
    OBVIOUS
  <1>2. /\ InPlace(k, R) /\ Cleared(k, {}) /\ k.cur \in Tasks /\ k.cur \in R /\ TID_NULL \in R
        /\ TID_NULL \in Tasks /\ R = ex \cup {k.cur, TID_NULL}
        /\ \A u \in R : k.tcb[u].state \in {"READY", "RUNNING"}
    BY <1>1, MannedFacts
  <1>3. t \in Tasks \ R
    BY <1>2
  <1>4. PICK c : c = CreateNew(k, t, p, priv)
    OBVIOUS
  <1>5. Newborn(c, k, R, t, p)
    BY <1>2, <1>3, <1>4, NewTask
  <1>6. /\ InPlace(c, R \cup {t}) /\ Cleared(c, {}) /\ c.cur = k.cur
        /\ TasksOf(c, SuspendQ) = TasksOf(k, SuspendQ)
        /\ \A u \in Tasks : u # t => c.tcb[u] = k.tcb[u]
        /\ c.tcb[t].state = "READY" /\ ~c.tcb[t].real_time
    BY <1>2, <1>5 DEF Newborn
  <1>7. TailPut(l, c, R \cup {t}, t)
    BY <1>2, <1>3, <1>4, <1>6, TailReady
  <1>8. Queued(l, c, R \cup {t}, t)
    BY <1>6, <1>7 DEF TailPut
  <1>9. /\ InPlace(l, R) /\ Cleared(l, {}) /\ Steady(l, c) /\ l.cur = c.cur
        /\ l.tcb[t].state = "READY"
        /\ \A u \in Tasks : u # t => l.tcb[u].state = c.tcb[u].state
    <2>1. (R \cup {t}) \ {t} = R
      BY <1>3
    <2>2. Cleared(c, {t})
      BY <1>6 DEF Cleared
    <2> QED
      BY <1>8, <2>1, <2>2 DEF Queued, PutOn
  <1>10. Live(l, ex) = R /\ \A u \in R : l.tcb[u].state = k.tcb[u].state
    BY <1>1, <1>2, <1>3, <1>6, <1>9 DEF Live, Manned
  <1>11. Manned(l, ex)
    BY <1>2, <1>6, <1>9, <1>10 DEF Manned
  <1>12. \A u \in Tasks : /\ l.tcb[u].real_time = c.tcb[u].real_time
                          /\ l.tcb[u].tsk_deadline = c.tcb[u].tsk_deadline
    BY <1>9 DEF Steady, Alike, SameTask
  <1>13. Earliest(l)
    BY <1>2, <1>3, <1>6, <1>9, <1>12 DEF Earliest
  <1> QED
    BY <1>6, <1>9, <1>11, <1>13 DEF Steady, GoOn

\* One of a higher priority runs at once; its creator, no job then, is the first to
\* follow.
LEMMA CreateTakesOver ==
    ASSUME NEW k, NEW ex, Manned(k, ex), Earliest(k), k.cur # TID_NULL,
           NEW t \in Tasks, k.tcb[t].state = "DORMANT",
           NEW p \in Prio, InBounds(p), OnlyJobsAtTop => p # RT_INDEX, NEW priv \in BOOLEAN,
           ~(p >= k.tcb[k.cur].prio),
           NEW l, l = PushHeadReady(Run([CreateNew(k, t, p, priv) EXCEPT !.cur = t]), k.cur)
    PROVE  GoOn(l, k, ex)
  <1>1. PICK R, o : R = Live(k, ex) /\ o = k.cur
    OBVIOUS
  <1>2. /\ InPlace(k, R) /\ Cleared(k, {}) /\ o \in Tasks /\ o \in R /\ TID_NULL \in R
        /\ TID_NULL \in Tasks /\ R = ex \cup {o, TID_NULL} /\ k.tcb[o].state = "RUNNING"
        /\ \A u \in R : k.tcb[u].state \in {"READY", "RUNNING"}
    BY <1>1, MannedFacts
  <1>3. t \in Tasks \ R /\ t # o
    BY <1>2
  <1>4. ~k.tcb[o].real_time
    <2>1. k.tcb[o].real_time => k.tcb[o].prio = RT_INDEX
      BY <1>2, FitsFacts
    <2> QED
      BY <1>1, <2>1 DEF Prio, RT_INDEX
  <1>5. PICK c : c = CreateNew(k, t, p, priv)
    OBVIOUS
  <1>6. Newborn(c, k, R, t, p)
    BY <1>2, <1>3, <1>5, NewTask
  <1>7. /\ InPlace(c, R \cup {t}) /\ Cleared(c, {}) /\ c.cur = o
        /\ TasksOf(c, SuspendQ) = TasksOf(k, SuspendQ)
        /\ \A u \in Tasks : u # t => c.tcb[u] = k.tcb[u]
        /\ c.tcb[t].state = "READY" /\ ~c.tcb[t].real_time
    BY <1>1, <1>2, <1>6 DEF Newborn
  <1>8. PICK d : d = [c EXCEPT !.cur = t]
    OBVIOUS
  <1>9. Turned(d, c, R \cup {t}, t)
    BY <1>3, <1>7, <1>8, SetCur
  <1>10. InPlace(d, R \cup {t}) /\ Cleared(d, {}) /\ d.cur = t /\ d.tcb = c.tcb /\ Steady(d, c)
    BY <1>7, <1>9 DEF Turned, Repainted
  <1>11. PICK r : r = Run(d)
    OBVIOUS
  <1>12. StateSet(r, d, R \cup {t}, t, "RUNNING")
    <2>1. t \in R \cup {t} /\ t \in Tasks /\ d.tcb[t].state # "DORMANT" /\ "RUNNING" \in States
      BY <1>3, <1>7, <1>10 DEF States
    <2>2. r = [d EXCEPT !.tcb[t].state = "RUNNING"]
      BY <1>10, <1>11 DEF Run
    <2> QED
      BY <1>10, <2>1, <2>2, WriteStateOf
  <1>13. /\ InPlace(r, R \cup {t}) /\ Cleared(r, {}) /\ r.cur = t /\ Steady(r, d)
         /\ r.tcb[t].state = "RUNNING" /\ \A u \in Tasks : u # t => r.tcb[u] = k.tcb[u]
    BY <1>7, <1>10, <1>12 DEF StateSet, Repainted
  <1>14. Queued(l, r, R \cup {t}, o)
    <2>1. o \in R \cup {t} /\ o # TID_NULL /\ r.tcb[o] = k.tcb[o]
      BY <1>1, <1>2, <1>3, <1>13
    <2>2. r.tcb[o].state \in {"READY", "RUNNING"} /\ ~r.tcb[o].real_time
      BY <1>2, <1>4, <2>1
    <2>3. l = PushHeadReady(r, o)
      BY <1>1, <1>5, <1>8, <1>11
    <2> QED
      BY <1>2, <1>13, <2>1, <2>2, <2>3, HeadReady
  <1>15. /\ InPlace(l, (R \cup {t}) \ {o}) /\ Cleared(l, {}) /\ Steady(l, r) /\ l.cur = t
         /\ l.tcb[o].state = "READY"
         /\ \A u \in Tasks : u # o => l.tcb[u].state = r.tcb[u].state
    BY <1>13, <1>14 DEF Queued, PutOn, Cleared
  <1>16. (R \cup {t}) \ {o} = Live(l, ex)
    <2>1. o \notin ex /\ o # TID_NULL
      BY <1>1 DEF Manned
    <2> QED
      BY <1>2, <1>3, <1>15, <2>1 DEF Live
  <1>17. Manned(l, ex)
    <2>1. /\ ex \subseteq Tasks /\ TID_NULL \notin ex /\ o \notin ex /\ o # TID_NULL
          /\ \A u \in ex : k.tcb[u].state = "RUNNING"
          /\ k.tcb[TID_NULL].state \in {"READY", "RUNNING"}
      BY <1>1 DEF Manned
    <2>2. t \notin ex /\ t # TID_NULL
      BY <1>2, <1>3
    <2>3. \A u \in ex \cup {t} : l.tcb[u].state = "RUNNING"
      BY <1>3, <1>13, <1>15, <2>1
    <2>4. l.tcb[TID_NULL].state \in {"READY", "RUNNING"}
      BY <1>2, <1>13, <1>15, <2>1, <2>2
    <2> QED
      BY <1>3, <1>15, <1>16, <2>1, <2>2, <2>3, <2>4 DEF Manned
  <1>18. \A u \in Tasks : /\ l.tcb[u].real_time = r.tcb[u].real_time
                          /\ l.tcb[u].tsk_deadline = r.tcb[u].tsk_deadline
    BY <1>15 DEF Steady, Alike, SameTask
  <1>19. Earliest(l)
    <2> SUFFICES ASSUME OnlyJobsAtTop, NEW u \in Tasks, l.tcb[u].state = "READY",
                        l.tcb[u].real_time
                 PROVE  FALSE
      BY DEF Earliest
    <2>1. u # t
      BY <1>3, <1>13, <1>15
    <2>2. k.tcb[u].real_time /\ u # o
      BY <1>4, <1>13, <1>18, <2>1
    <2>3. k.tcb[u].state = "READY"
      BY <1>13, <1>15, <2>1, <2>2
    <2> QED
      BY <1>1, <1>4, <2>2, <2>3 DEF Earliest
  <1> QED
    BY <1>7, <1>10, <1>12, <1>15, <1>17, <1>19 DEF Steady, StateSet, GoOn

----------------------------------------------------------------------------
(***************************************************************************)
(* k_rt_tsk_set and k_rt_tsk_susp.                                         *)
(***************************************************************************)
Timed(k) == Clocked(k) /\ k.now \in Nat /\ k.period \in [Tasks -> Nat]

\* The current task turns into a job.
Promoted(r, k, ex, period) ==
    /\ InPlace(r, Live(k, ex)) /\ Cleared(r, {}) /\ r.cur = k.cur
    /\ r.tcb[k.cur].state = "READY"
    /\ \A u \in Tasks : u # k.cur => r.tcb[u] = k.tcb[u]
    /\ TasksOf(r, SuspendQ) = TasksOf(k, SuspendQ)
    /\ Clocked(r) /\ r.now = k.now /\ r.period = [k.period EXCEPT ![k.cur] = period]

LEMMA PromoteWrites ==
    ASSUME NEW k, NEW ex, Manned(k, ex), Timed(k), k.cur # TID_NULL, NEW period \in Nat,
           NEW r, r = [k EXCEPT !.period[k.cur] = period,
                                !.tcb[k.cur] = [@ EXCEPT !.real_time = TRUE,
                                                    !.tsk_deadline = k.now + 1 + period,
                                                    !.prio = RT_INDEX, !.state = "READY"]]
    PROVE  Promoted(r, k, ex, period)
  <1>1. PICK R, t : R = Live(k, ex) /\ t = k.cur
    OBVIOUS
  <1>2. /\ InPlace(k, R) /\ Cleared(k, {}) /\ Memory(k) /\ t \in Tasks /\ t \in R
        /\ t # TID_NULL
    BY <1>1, MannedFacts
  <1>3. k.tcb[t] \in TCB /\ Loose(k, t) /\ SuspendQ \in Queues
    BY <1>2, QueueIds, MemoryFields DEF InPlace, Seated
  <1>4. PICK W : W = [k.tcb[t] EXCEPT !.real_time = TRUE, !.tsk_deadline = k.now + 1 + period,
                                      !.prio = RT_INDEX, !.state = "READY"]
    OBVIOUS
  <1>5. /\ W \in TCB /\ W.prio = RT_INDEX /\ W.state = "READY" /\ W.real_time = TRUE
        /\ W.next = k.tcb[t].next /\ W.prev = k.tcb[t].prev
    <2>1. k.now + 1 + period \in Nat /\ RT_INDEX \in Prio /\ "READY" \in States
      BY QueueIds DEF Timed, States
    <2> QED
      BY <1>3, <1>4, <2>1 DEF TCB
  <1>6. r = [k EXCEPT !.period = [k.period EXCEPT ![t] = period],
                      !.tcb = [k.tcb EXCEPT ![t] = W]]
    BY <1>1, <1>4
  <1>7. /\ Memory(r) /\ r.tcb = [k.tcb EXCEPT ![t] = W] /\ r.queue = k.queue /\ r.cur = k.cur
        /\ Clocked(r) /\ r.now = k.now /\ r.period = [k.period EXCEPT ![t] = period]
    <2>1. DOMAIN r = DOMAIN k /\ r = [f \in DOMAIN k |-> r[f]]
      BY <1>2, <1>6 DEF Memory
    <2>2. /\ r.tcb = [k.tcb EXCEPT ![t] = W] /\ r.queue = k.queue /\ r.cur = k.cur
          /\ r.ub = k.ub /\ r.now = k.now /\ r.period = [k.period EXCEPT ![t] = period]
      BY <1>2, <1>6 DEF Memory, Timed, Clocked
    <2>3. r.tcb \in [Tasks -> TCB]
      BY <1>2, <1>5, <2>2 DEF Memory
    <2> QED
      BY <1>2, <2>1, <2>2, <2>3 DEF Memory, Timed, Clocked
  <1>8. r.tcb[t] = W /\ \A u \in Tasks : u # t => r.tcb[u] = k.tcb[u]
    BY <1>2, <1>7 DEF Memory
  <1>9. Fits(r.tcb[t], t)
    BY <1>2, <1>5, <1>8, QueueIds DEF Fits, InBounds
  <1>10. Repainted(r, k, R \cup {t})
    <2>1. r.tcb[t].next = k.tcb[t].next /\ r.tcb[t].prev = k.tcb[t].prev
      BY <1>5, <1>8
    <2>2. InPlace(k, R) /\ t \in Tasks /\ Loose(k, t) /\ Memory(r) /\ r.queue = k.queue
      BY <1>2, <1>3, <1>7
    <2> QED
      BY <1>8, <1>9, <2>1, <2>2, Repaint
  <1>11. R \cup {t} = R
    BY <1>2
  <1> QED
    BY <1>1, <1>2, <1>3, <1>5, <1>7, <1>8, <1>10, <1>11 DEF Promoted, Repainted

\* The current task is a job now, and its period begins with the next tick.
BecameJob(l, k, ex, period) ==
    /\ Manned(l, ex) /\ Earliest(l) /\ TasksOf(l, SuspendQ) = TasksOf(k, SuspendQ)
    /\ l.now = k.now /\ l.period = [k.period EXCEPT ![k.cur] = period]

LEMMA PromoteOnce ==
    ASSUME NEW k, NEW ex, Manned(k, ex), Timed(k), k.cur # TID_NULL, NEW period \in Nat,
           NEW l, l = Promote(k, period)
    PROVE  BecameJob(l, k, ex, period)
  <1>1. PICK r : r = [k EXCEPT !.period[k.cur] = period,
                               !.tcb[k.cur] = [@ EXCEPT !.real_time = TRUE,
                                                   !.tsk_deadline = k.now + 1 + period,
                                                   !.prio = RT_INDEX, !.state = "READY"]]
    OBVIOUS
  <1>2. Promoted(r, k, ex, period)
    BY <1>1, PromoteWrites
  <1>3. PICK R, t : R = Live(k, ex) /\ t = k.cur
    OBVIOUS
  <1>4. /\ InPlace(r, R) /\ Cleared(r, {}) /\ r.cur = t /\ r.tcb[t].state = "READY"
        /\ \A u \in Tasks : u # t => r.tcb[u] = k.tcb[u]
        /\ TasksOf(r, SuspendQ) = TasksOf(k, SuspendQ)
        /\ Clocked(r) /\ r.now = k.now /\ r.period = [k.period EXCEPT ![t] = period]
    BY <1>2, <1>3 DEF Promoted
  <1>5. t \in R /\ t \in Tasks /\ t # TID_NULL /\ t \notin ex /\ R = ex \cup {t, TID_NULL}
    BY <1>3, MannedFacts DEF Manned
  <1>6. PICK j : j = PushTailReady(r, t)
    OBVIOUS
  <1>7. Queued(j, r, R, t)
    BY <1>4, <1>5, <1>6, TailReady DEF TailPut
  <1>8. /\ InPlace(j, R \ {t}) /\ Cleared(j, {}) /\ Steady(j, r)
        /\ \A u \in Tasks : u # t => j.tcb[u].state = r.tcb[u].state
    <2>1. Cleared(r, {t})
      BY <1>4 DEF Cleared
    <2> QED
      BY <1>7, <2>1 DEF Queued, PutOn
  <1>9. Offered(j, ex)
    <2>1. /\ ex \subseteq Tasks /\ TID_NULL \notin ex /\ TID_NULL \in Tasks
          /\ \A u \in ex : k.tcb[u].state = "RUNNING"
          /\ k.tcb[TID_NULL].state \in {"READY", "RUNNING"}
      BY NullTask DEF Manned
    <2>2. R \ {t} = ex \cup {TID_NULL}
      BY <1>5, <2>1
    <2>3. \A u \in Tasks : u # t => j.tcb[u].state = k.tcb[u].state
      BY <1>4, <1>8
    <2> QED
      BY <1>5, <1>8, <2>1, <2>2, <2>3 DEF Offered
  <1>10. l = Run(Dispatch(j))
    BY <1>1, <1>3, <1>6 DEF Promote
  <1>11. Ran(l, j, ex)
    BY <1>9, <1>10, DispatchRuns
  <1>12. Steady(l, r)
    BY <1>8, <1>11, SteadySteps DEF Ran
  <1>13. l.now = r.now /\ l.period = r.period /\ TasksOf(l, SuspendQ) = TasksOf(r, SuspendQ)
    BY <1>4, <1>12, AlikeDue DEF Steady
  <1> QED
    BY <1>3, <1>4, <1>11, <1>13 DEF Ran, BecameJob

----------------------------------------------------------------------------
(***************************************************************************)
(* Deadlines.                                                              *)
(***************************************************************************)
LEMMA Division ==
    ASSUME NEW n \in Nat, NEW p \in Nat \ {0}
    PROVE  /\ n \div p \in Nat /\ (n \div p) * p \in Nat
           /\ (n \div p) * p <= n /\ n < (n \div p) * p + p
  <1>1. PICK q, m : q = n \div p /\ m = n % p
    OBVIOUS
  <1>2. q \in Int /\ m \in 0 .. p - 1 /\ n = p * q + m
    BY <1>1
  <1>3. q \in Nat
    BY <1>2
  <1> QED
    BY <1>1, <1>2, <1>3

LEMMA Multiple ==
    ASSUME NEW m \in Nat, NEW p \in Nat \ {0}
    PROVE  (m * p) % p = 0
  <1>1. PICK n \in Nat : n = m * p
    OBVIOUS
  <1>2. PICK q : q = n \div p
    OBVIOUS
  <1>3. PICK r : r = n % p
    OBVIOUS
  <1>4. q \in Nat /\ r \in 0 .. p - 1 /\ n = q * p + r
    BY <1>2, <1>3
  <1>5. r = (m - q) * p
    BY <1>1, <1>4
  <1>6. m - q = 0
    <2>1. CASE m - q >= 1
      <3>1. (m - q) * p >= p
        BY <1>4, <2>1
      <3> QED
        BY <1>4, <1>5, <3>1
    <2>2. CASE m - q <= -1
      <3>1. (m - q) * p <= -p
        BY <1>4, <2>2
      <3> QED
        BY <1>4, <1>5, <3>1
    <2> QED
      BY <1>4, <2>1, <2>2
  <1> QED
    BY <1>1, <1>3, <1>5, <1>6

LEMMA NextDeadlineNat ==
    ASSUME NEW d \in Nat, NEW p \in Nat, NEW now \in Nat
    PROVE  NextDeadline(d, p, now) \in Nat
  <1>1. CASE d < now /\ p # 0
    <2>1. PICK n \in Nat : n = now - d
      BY <1>1
    <2>2. PICK q : q = n \div p
      OBVIOUS
    <2>3. q \in Nat /\ NextDeadline(d, p, now) = d + (q + 1) * p
      BY <1>1, <2>1, <2>2, Division DEF NextDeadline, Quotient
    <2>4. (q + 1) * p \in Nat
      BY <2>3
    <2> QED
      BY <2>3, <2>4
  <1>2. CASE p = 0
    <2>1. (0 + 1) * p = 0
      BY <1>2
    <2> QED
      BY <1>2, <2>1 DEF NextDeadline, Quotient
  <1>3. CASE ~(d < now)
    BY <1>3 DEF NextDeadline
  <1> QED
    BY <1>1, <1>2, <1>3

\* The job of the current task is over, and its deadline the next one.
Ended(s, k, ex) ==
    /\ InPlace(s, Live(k, ex)) /\ Cleared(s, {}) /\ s.cur = k.cur
    /\ s.tcb[k.cur].state = "SUSPENDED" /\ s.tcb[k.cur].real_time
    /\ s.tcb[k.cur].tsk_deadline =
          NextDeadline(k.tcb[k.cur].tsk_deadline, k.period[k.cur], k.now)
    /\ \A u \in Tasks : u # k.cur => s.tcb[u] = k.tcb[u]
    /\ TasksOf(s, SuspendQ) = TasksOf(k, SuspendQ)
    /\ Clocked(s) /\ s.now = k.now /\ s.period = k.period

LEMMA EndWrites ==
    ASSUME NEW k, NEW ex, Manned(k, ex), Timed(k), k.tcb[k.cur].real_time,
           NEW d, d = NextDeadline(k.tcb[k.cur].tsk_deadline, k.period[k.cur], k.now),
           NEW s, s = [k EXCEPT !.tcb[k.cur] =
                                   [@ EXCEPT !.state = "SUSPENDED", !.tsk_deadline = d]]
    PROVE  Ended(s, k, ex)
  <1>1. PICK R, t : R = Live(k, ex) /\ t = k.cur
    OBVIOUS
  <1>2. /\ InPlace(k, R) /\ Cleared(k, {}) /\ Memory(k) /\ t \in Tasks /\ t \in R
        /\ k.tcb[t].state = "RUNNING"
    BY <1>1, MannedFacts
  <1>3. k.tcb[t] \in TCB /\ Loose(k, t) /\ SuspendQ \in Queues /\ Fits(k.tcb[t], t)
    BY <1>2, QueueIds, MemoryFields DEF InPlace, Seated
  <1>4. d = NextDeadline(k.tcb[t].tsk_deadline, k.period[t], k.now)
    BY <1>1
  <1>5. d \in Nat
    BY <1>2, <1>4, MemoryFields, NextDeadlineNat DEF Timed
  <1>6. PICK W : W = [k.tcb[t] EXCEPT !.state = "SUSPENDED", !.tsk_deadline = d]
    OBVIOUS
  <1>7. /\ W \in TCB /\ W.prio = k.tcb[t].prio /\ W.state = "SUSPENDED" /\ W.tsk_deadline = d
        /\ W.real_time = k.tcb[t].real_time /\ W.next = k.tcb[t].next /\ W.prev = k.tcb[t].prev
    BY <1>3, <1>5, <1>6 DEF TCB, States
  <1>8. s = [k EXCEPT !.tcb = [k.tcb EXCEPT ![t] = W]]
    BY <1>1, <1>4, <1>6
  <1>9. /\ Memory(s) /\ s.tcb = [k.tcb EXCEPT ![t] = W] /\ s.queue = k.queue /\ s.cur = k.cur
        /\ Clocked(s) /\ s.now = k.now /\ s.period = k.period
    <2>1. DOMAIN s = DOMAIN k /\ s = [f \in DOMAIN k |-> s[f]]
      BY <1>2, <1>8 DEF Memory
    <2>2. /\ s.tcb = [k.tcb EXCEPT ![t] = W] /\ s.queue = k.queue /\ s.cur = k.cur
          /\ s.ub = k.ub /\ s.now = k.now /\ s.period = k.period
      BY <1>2, <1>8 DEF Memory, Timed, Clocked
    <2>3. s.tcb \in [Tasks -> TCB]
      BY <1>2, <1>7, <2>2 DEF Memory
    <2> QED
      BY <1>2, <2>1, <2>2, <2>3 DEF Memory, Timed, Clocked
  <1>10. s.tcb[t] = W /\ \A u \in Tasks : u # t => s.tcb[u] = k.tcb[u]
    BY <1>2, <1>9 DEF Memory
  <1>11. Fits(s.tcb[t], t)
    <2>1. k.tcb[t].state # "DORMANT"
      BY <1>2
    <2> QED
      BY <1>3, <1>7, <1>10, <2>1, FitsAlike
  <1>12. Repainted(s, k, R \cup {t})
    <2>1. s.tcb[t].next = k.tcb[t].next /\ s.tcb[t].prev = k.tcb[t].prev
      BY <1>7, <1>10
    <2>2. InPlace(k, R) /\ t \in Tasks /\ Loose(k, t) /\ Memory(s) /\ s.queue = k.queue
      BY <1>2, <1>3, <1>9
    <2> QED
      BY <1>10, <1>11, <2>1, <2>2, Repaint
  <1>13. R \cup {t} = R
    BY <1>2
  <1> QED
    BY <1>1, <1>2, <1>3, <1>4, <1>7, <1>9, <1>10, <1>12, <1>13 DEF Ended, Repainted

\* The current task has ended its job and waits for the next one.
JobOver(l, k, ex) ==
    /\ Manned(l, ex) /\ Earliest(l)
    /\ TasksOf(l, SuspendQ) = TasksOf(k, SuspendQ) \cup {k.cur}
    /\ l.now = k.now /\ l.period = k.period
    /\ l.tcb[k.cur].tsk_deadline =
          NextDeadline(k.tcb[k.cur].tsk_deadline, k.period[k.cur], k.now)

LEMMA SuspendOnce ==
    ASSUME NEW k, NEW ex, Manned(k, ex), Timed(k), k.tcb[k.cur].real_time,
           NEW l, l = Suspend(k)
    PROVE  JobOver(l, k, ex)
  <1>0. PICK d : d = NextDeadline(k.tcb[k.cur].tsk_deadline, k.period[k.cur], k.now)
    OBVIOUS
  <1>1. PICK s : s = [k EXCEPT !.tcb[k.cur] =
                                  [@ EXCEPT !.state = "SUSPENDED", !.tsk_deadline = d]]
    OBVIOUS
  <1>2. Ended(s, k, ex)
    BY <1>0, <1>1, EndWrites
  <1>3. PICK R, t, q : R = Live(k, ex) /\ t = k.cur /\ q = SuspendQ
    OBVIOUS
  <1>4. /\ InPlace(s, R) /\ Cleared(s, {}) /\ s.cur = t
        /\ s.tcb[t].state = "SUSPENDED" /\ s.tcb[t].real_time
        /\ \A u \in Tasks : u # t => s.tcb[u] = k.tcb[u]
        /\ TasksOf(s, q) = TasksOf(k, q)
        /\ Clocked(s) /\ s.now = k.now /\ s.period = k.period
        /\ s.tcb[t].tsk_deadline = NextDeadline(k.tcb[t].tsk_deadline, k.period[t], k.now)
    BY <1>2, <1>3 DEF Ended
  <1>5. t \in R /\ t \in Tasks /\ t \notin ex /\ R = ex \cup {t, TID_NULL}
    BY <1>3, MannedFacts DEF Manned
  <1>6. /\ s.tcb[t].prio = RT_INDEX /\ t # TID_NULL /\ q \in Queues /\ q # ReadyQ(RT_INDEX)
        /\ Memory(s) /\ Lists(s) /\ Loose(s, t)
    BY <1>3, <1>4, <1>5, FitsFacts, QueueIds DEF InPlace, Seated
  <1>7. PICK j : j = PushTail(s, t, q)
    OBVIOUS
  <1>8. Shifted(j, s, q, t, TasksOf(s, q) \cup {t}) /\ j.tcb[t].state = "SUSPENDED"
    BY <1>4, <1>5, <1>6, <1>7, PushTailSorted
  <1>9. PutOn(j, s, R, t)
    <2>1. Restated(j, j, t, "SUSPENDED")
      BY <1>8, RestatedSelf DEF Shifted
    <2> QED
      BY <1>3, <1>4, <1>5, <1>6, <1>8, <2>1, Put
  <1>10. /\ InPlace(j, R \ {t}) /\ Cleared(j, {}) /\ Alike(j, s)
         /\ TasksOf(j, q) = TasksOf(s, q) \cup {t}
         /\ \A u \in Tasks : u # t => j.tcb[u].state = s.tcb[u].state
    <2>1. Cleared(s, {t})
      BY <1>4 DEF Cleared
    <2> QED
      BY <1>8, <1>9, <2>1 DEF PutOn, Shifted, SameRest, Alike
  <1>11. Offered(j, ex)
    <2>1. /\ ex \subseteq Tasks /\ TID_NULL \notin ex /\ TID_NULL \in Tasks
          /\ \A u \in ex : k.tcb[u].state = "RUNNING"
          /\ k.tcb[TID_NULL].state \in {"READY", "RUNNING"}
      BY NullTask DEF Manned
    <2>2. R \ {t} = ex \cup {TID_NULL}
      BY <1>5, <1>6, <2>1
    <2>3. \A u \in Tasks : u # t => j.tcb[u].state = k.tcb[u].state
      BY <1>4, <1>10
    <2> QED
      BY <1>5, <1>6, <1>10, <2>1, <2>2, <2>3 DEF Offered
  <1>12. l = Run(Dispatch(j))
    BY <1>0, <1>1, <1>3, <1>7 DEF Suspend
  <1>13. Ran(l, j, ex)
    BY <1>11, <1>12, DispatchRuns
  <1>14. Alike(l, s) /\ TasksOf(l, q) = TasksOf(j, q)
    BY <1>3, <1>10, <1>13, SteadySteps DEF Ran, Steady
  <1>15. l.now = s.now /\ l.period = s.period /\ l.tcb[t].tsk_deadline = s.tcb[t].tsk_deadline
    BY <1>4, <1>5, <1>14, AlikeDue DEF Alike, SameTask
  <1> QED
    BY <1>3, <1>4, <1>10, <1>13, <1>14, <1>15 DEF Ran, JobOver

----------------------------------------------------------------------------
(***************************************************************************)
(* The timer interrupt.                                                    *)
(***************************************************************************)
\* What the scheduler leaves when it chooses beside a task that runs.
Beside(d, r, R) ==
    /\ InPlace(d, R \cup {d.cur}) /\ Cleared(d, {}) /\ Steady(d, r) /\ d.cur \in Tasks
    /\ \A u \in Tasks : u # d.cur => d.tcb[u].state = r.tcb[u].state
    /\ d.cur = TID_NULL => \A u \in Tasks \ R : r.tcb[u].state # "READY"
    /\ d.cur = TID_NULL => d.tcb = r.tcb
    /\ d.cur # TID_NULL => /\ d.cur \in Tasks \ R /\ r.tcb[d.cur].state = "READY"
                           /\ d.tcb[d.cur].state = "RUNNING"
    /\ \A u \in Tasks : /\ d.tcb[u].real_time = r.tcb[u].real_time
                        /\ d.tcb[u].tsk_deadline = r.tcb[u].tsk_deadline
    /\ Leads(r, R, d.cur)

\* What the scheduler chooses next to a current task, which is on no queue.
LEMMA ChoseBeside ==
    ASSUME NEW r, NEW ex, Manned(r, ex), NEW R, R = Live(r, ex), NEW d, d = Dispatch(r)
    PROVE  Beside(d, r, R)
  <1>1. InPlace(r, R) /\ Cleared(r, {})
    BY MannedFacts
  <1>2. Chose(d, r, R)
    BY <1>1, DispatchChose
  <1>3. /\ InPlace(d, R \cup {d.cur}) /\ Cleared(d, {}) /\ Steady(d, r) /\ d.cur \in Tasks
        /\ \A u \in Tasks : u # d.cur => d.tcb[u].state = r.tcb[u].state
        /\ d.cur = TID_NULL => d.tcb = r.tcb /\ \A u \in Tasks \ R : r.tcb[u].state # "READY"
        /\ d.cur # TID_NULL => /\ d.cur \notin R /\ r.tcb[d.cur].state = "READY"
                               /\ d.tcb[d.cur].state = "RUNNING"
        /\ Leads(r, R, d.cur)
    BY <1>2 DEF Chose
  <1>4. \A u \in Tasks : /\ d.tcb[u].real_time = r.tcb[u].real_time
                         /\ d.tcb[u].tsk_deadline = r.tcb[u].tsk_deadline
    BY <1>3 DEF Steady, Alike, SameTask
  <1> QED
    BY <1>3, <1>4 DEF Beside

\* Nobody is ready: no job is.
LEMMA NobodyReady ==
    ASSUME NEW r, NEW ex, Manned(r, ex),
           \A u \in Tasks \ Live(r, ex) : r.tcb[u].state # "READY"
    PROVE  Ran(r, r, ex)
  <1>1. Earliest(r)
    BY MannedFacts DEF Earliest
  <1> QED
    BY <1>1, SteadySteps DEF Ran

\* The current task o is preempted by the one in d, and goes back to its queue.
LEMMA Switched ==
    ASSUME NEW r, NEW ex, Manned(r, ex), NEW o, o = r.cur, o # TID_NULL,
           NEW d, d = Dispatch(r), d.cur # TID_NULL,
           r.tcb[o].real_time => /\ d.tcb[d.cur].real_time
                                 /\ d.tcb[d.cur].tsk_deadline <= r.tcb[o].tsk_deadline,
           NEW l, Queued(l, d, Live(r, ex) \cup {d.cur}, o)
    PROVE  Ran(l, r, ex)
  <1>1. PICK R, t : R = Live(r, ex) /\ t = d.cur
    OBVIOUS
  <1>2. /\ InPlace(d, R \cup {t}) /\ Cleared(d, {}) /\ Steady(d, r) /\ t \in Tasks \ R
        /\ \A u \in Tasks : u # t => d.tcb[u].state = r.tcb[u].state
        /\ d.tcb[t].state = "RUNNING"
        /\ \A u \in Tasks : /\ d.tcb[u].real_time = r.tcb[u].real_time
                            /\ d.tcb[u].tsk_deadline = r.tcb[u].tsk_deadline
        /\ Leads(r, R, t)
    BY <1>1, ChoseBeside DEF Beside
  <1>3. /\ o \in R /\ o \in Tasks /\ TID_NULL \in R /\ R = ex \cup {o, TID_NULL} /\ o \notin ex
        /\ ex \subseteq Tasks /\ TID_NULL \notin ex /\ TID_NULL \in Tasks
        /\ \A u \in ex : r.tcb[u].state = "RUNNING"
        /\ r.tcb[TID_NULL].state \in {"READY", "RUNNING"}
    BY <1>1, MannedFacts DEF Manned
  <1>4. /\ InPlace(l, (R \cup {t}) \ {o}) /\ Cleared(l, {}) /\ Steady(l, d) /\ l.cur = t
        /\ l.tcb[o].state = "READY"
        /\ \A u \in Tasks : u # o => l.tcb[u].state = d.tcb[u].state
    <2>1. Cleared(d, {o})
      BY <1>2 DEF Cleared
    <2> QED
      BY <1>1, <2>1 DEF Queued, PutOn
  <1>5. Live(l, ex) = (R \cup {t}) \ {o}
    BY <1>2, <1>3, <1>4 DEF Live
  <1>6. Manned(l, ex)
    <2>1. t \notin ex /\ t # TID_NULL /\ t # o
      BY <1>2, <1>3
    <2>2. \A u \in ex \cup {t} : l.tcb[u].state = "RUNNING"
      BY <1>2, <1>3, <1>4, <2>1
    <2>3. l.tcb[TID_NULL].state \in {"READY", "RUNNING"}
      BY <1>2, <1>3, <1>4, <2>1
    <2> QED
      BY <1>2, <1>3, <1>4, <1>5, <2>1, <2>2, <2>3 DEF Manned
  <1>7. Steady(l, r)
    BY <1>2, <1>4, SteadySteps
  <1>8. Earliest(l)
    <2> SUFFICES ASSUME OnlyJobsAtTop, NEW u \in Tasks, l.tcb[u].state = "READY",
                        l.tcb[u].real_time
                 PROVE  l.tcb[t].real_time /\ l.tcb[t].tsk_deadline <= l.tcb[u].tsk_deadline
      BY <1>4 DEF Earliest
    <2>1. \A v \in Tasks : /\ l.tcb[v].real_time = r.tcb[v].real_time
                           /\ l.tcb[v].tsk_deadline = r.tcb[v].tsk_deadline
      BY <1>7 DEF Steady, Alike, SameTask
    <2>2. CASE u = o
      BY <1>1, <1>2, <2>1, <2>2
    <2>3. CASE u # o
      <3>1. u # t
        BY <1>2, <1>4, <2>3
      <3>2. r.tcb[u].state = "READY" /\ r.tcb[u].real_time
        BY <1>2, <1>4, <2>1, <2>3, <3>1
      <3>3. u \notin R
        BY <1>1, <3>2, MannedFacts
      <3>4. r.tcb[t].real_time /\ r.tcb[t].tsk_deadline <= r.tcb[u].tsk_deadline
        BY <1>2, <3>2, <3>3 DEF Leads
      <3> QED
        BY <1>2, <2>1, <3>4
    <2> QED
      BY <2>2, <2>3
  <1> QED
    BY <1>6, <1>7, <1>8 DEF Ran

\* The current task goes on, and the task chosen goes back to the head of its queue.
LEMMA GoesOn ==
    ASSUME NEW r, NEW ex, Manned(r, ex), NEW o, o = r.cur,
           NEW d, d = Dispatch(r), d.cur # TID_NULL,
           d.tcb[d.cur].real_time => /\ r.tcb[o].real_time
                                     /\ r.tcb[o].tsk_deadline <= d.tcb[d.cur].tsk_deadline,
           NEW spoils \in BOOLEAN, NEW l, l = PutBack([d EXCEPT !.cur = o], d.cur, spoils)
    PROVE  Ran(l, r, ex)
  <1>1. PICK R, t : R = Live(r, ex) /\ t = d.cur
    OBVIOUS
  <1>2. /\ InPlace(d, R \cup {t}) /\ Cleared(d, {}) /\ Steady(d, r) /\ t \in Tasks \ R
        /\ \A u \in Tasks : u # t => d.tcb[u].state = r.tcb[u].state
        /\ d.tcb[t].state = "RUNNING" /\ r.tcb[t].state = "READY"
        /\ \A u \in Tasks : /\ d.tcb[u].real_time = r.tcb[u].real_time
                            /\ d.tcb[u].tsk_deadline = r.tcb[u].tsk_deadline
        /\ Leads(r, R, t)
    BY <1>1, ChoseBeside DEF Beside
  <1>3. o \in Tasks /\ o \in R /\ TID_NULL \in R /\ R \subseteq Tasks /\ TID_NULL \in Tasks
    BY <1>1, MannedFacts
  <1>4. PICK e : e = [d EXCEPT !.cur = o]
    OBVIOUS
  <1>5. Turned(e, d, R \cup {t}, o)
    BY <1>2, <1>3, <1>4, SetCur
  <1>6. InPlace(e, R \cup {t}) /\ Cleared(e, {}) /\ e.cur = o /\ e.tcb = d.tcb /\ Steady(e, d)
    BY <1>2, <1>5 DEF Turned, Repainted
  <1>7. t \in R \cup {t} /\ t \in Tasks /\ t # TID_NULL /\ e.tcb[t].state = "RUNNING"
    BY <1>1, <1>2, <1>6
  <1>8. l = PushHeadReady(e, t)
    <2>1. InBounds(e.tcb[t].prio)
      BY <1>6, <1>7, FitsFacts
    <2> QED
      BY <1>1, <1>4, <2>1 DEF PutBack
  <1>9. Leads(e, R \cup {t}, t)
    <2> SUFFICES ASSUME OnlyJobsAtTop, NEW u \in Tasks \ (R \cup {t}),
                        e.tcb[u].state = "READY", e.tcb[u].real_time
                 PROVE  /\ t # TID_NULL /\ e.tcb[t].real_time
                        /\ e.tcb[t].tsk_deadline <= e.tcb[u].tsk_deadline
      BY DEF Leads
    <2>1. u \in Tasks \ R /\ r.tcb[u].state = "READY" /\ r.tcb[u].real_time
      BY <1>2, <1>6
    <2>2. r.tcb[t].real_time /\ r.tcb[t].tsk_deadline <= r.tcb[u].tsk_deadline
      BY <1>2, <2>1 DEF Leads
    <2> QED
      BY <1>2, <1>6, <1>7, <2>1, <2>2
  <1>10. Queued(l, e, R \cup {t}, t)
    BY <1>6, <1>7, <1>8, <1>9, HeadReady
  <1>11. /\ InPlace(l, (R \cup {t}) \ {t}) /\ Cleared(l, {}) /\ Steady(l, e) /\ l.cur = o
         /\ l.tcb[t].state = "READY"
         /\ \A u \in Tasks : u # t => l.tcb[u].state = e.tcb[u].state
    <2>1. Cleared(e, {t})
      BY <1>6 DEF Cleared
    <2> QED
      BY <1>6, <1>10, <2>1 DEF Queued, PutOn
  <1>12. \A u \in Tasks : l.tcb[u].state = r.tcb[u].state
    BY <1>2, <1>6, <1>11
  <1>13. (R \cup {t}) \ {t} = R /\ Live(l, ex) = R
    BY <1>1, <1>2, <1>11 DEF Live
  <1>14. Manned(l, ex)
    <2>1. /\ ex \subseteq Tasks /\ o \notin ex /\ TID_NULL \notin ex /\ o \in Tasks
          /\ \A u \in ex \cup {o} : r.tcb[u].state = "RUNNING"
          /\ r.tcb[TID_NULL].state \in {"READY", "RUNNING"}
      BY DEF Manned
    <2>2. /\ \A u \in ex \cup {o} : l.tcb[u].state = "RUNNING"
          /\ l.tcb[TID_NULL].state \in {"READY", "RUNNING"}
      BY <1>3, <1>12, <2>1
    <2>3. InPlace(l, Live(l, ex)) /\ Cleared(l, {}) /\ l.cur = o
      BY <1>11, <1>13
    <2> QED
      BY <2>1, <2>2, <2>3 DEF Manned
  <1>15. Steady(l, r)
    <2>1. Steady(e, r)
      BY <1>2, <1>6, SteadySteps
    <2> QED
      BY <1>11, <2>1, SteadySteps
  <1>16. Earliest(l)
    <2> SUFFICES ASSUME OnlyJobsAtTop, NEW u \in Tasks, l.tcb[u].state = "READY",
                        l.tcb[u].real_time
                 PROVE  l.tcb[o].real_time /\ l.tcb[o].tsk_deadline <= l.tcb[u].tsk_deadline
      BY <1>11 DEF Earliest
    <2>1. \A v \in Tasks : /\ l.tcb[v].real_time = r.tcb[v].real_time
                           /\ l.tcb[v].tsk_deadline = r.tcb[v].tsk_deadline
      BY <1>15 DEF Steady, Alike, SameTask
    <2>2. r.tcb[u].state = "READY" /\ r.tcb[u].real_time
      BY <1>12, <2>1
    <2>3. u \notin R
      BY <1>1, <2>2, MannedFacts
    <2>4. r.tcb[t].real_time /\ r.tcb[t].tsk_deadline <= r.tcb[u].tsk_deadline
      BY <1>2, <2>2, <2>3 DEF Leads
    <2>5. r.tcb[o].real_time /\ r.tcb[o].tsk_deadline <= r.tcb[t].tsk_deadline
      BY <1>1, <1>2, <2>4
    <2>6. /\ r.tcb[o].tsk_deadline \in Nat /\ r.tcb[t].tsk_deadline \in Nat
          /\ r.tcb[u].tsk_deadline \in Nat
      BY <1>2, <1>3, MannedFacts, MemoryFields
    <2> QED
      BY <1>3, <2>1, <2>4, <2>5, <2>6
  <1> QED
    BY <1>14, <1>15, <1>16 DEF Ran

\* gp_current_task->state = RUNNING changes nothing then.
LEMMA SwitchIs ==
    ASSUME NEW m, Memory(m), m.cur \in Tasks, m.tcb[m.cur].state = "RUNNING", NEW o
    PROVE  SwitchFrom(m, o) = [m EXCEPT !.tcb[o].state = "READY"]
  <1>1. Run(m) = m
    BY SameState DEF Run
  <1> QED
    BY <1>1 DEF SwitchFrom

\* Nothing is ready: the null task gets its state, and a variable the spoils.
LEMMA NullPutBack ==
    ASSUME NEW r, NEW ex, Manned(r, ex), NEW o, o = r.cur, o # TID_NULL,
           NEW d, d = Dispatch(r), d.cur = TID_NULL,
           NEW spoils \in BOOLEAN, NEW l, l = PutBack([d EXCEPT !.cur = o], d.cur, spoils)
    PROVE  Ran(l, r, ex)
  <1>1. PICK R : R = Live(r, ex)
    OBVIOUS
  <1>2. /\ InPlace(d, R \cup {d.cur}) /\ Cleared(d, {}) /\ Steady(d, r) /\ d.tcb = r.tcb
        /\ \A u \in Tasks \ R : r.tcb[u].state # "READY"
    BY <1>1, ChoseBeside DEF Beside
  <1>3. /\ o \in Tasks /\ o \in R /\ TID_NULL \in R /\ R \subseteq Tasks
        /\ R = ex \cup {o, TID_NULL}
        /\ ex \subseteq Tasks /\ o \notin ex /\ TID_NULL \notin ex /\ TID_NULL \in Tasks
        /\ \A u \in ex \cup {o} : r.tcb[u].state = "RUNNING"
        /\ r.tcb[TID_NULL].state \in {"READY", "RUNNING"}
    BY <1>1, MannedFacts DEF Manned
  <1>4. R \cup {d.cur} = R /\ InPlace(d, R)
    BY <1>2, <1>3
  <1>5. PICK e : e = [d EXCEPT !.cur = o]
    OBVIOUS
  <1>6. Turned(e, d, R, o)
    BY <1>3, <1>4, <1>5, SetCur
  <1>7. InPlace(e, R) /\ Cleared(e, {}) /\ e.cur = o /\ e.tcb = r.tcb /\ Steady(e, d)
    BY <1>2, <1>6 DEF Turned, Repainted
  <1>8. PICK y : y = [e EXCEPT !.tcb[TID_NULL].state = "READY"]
    OBVIOUS
  <1>9. StateSet(y, e, R, TID_NULL, "READY")
    <2>1. e.tcb[TID_NULL].state # "DORMANT" /\ "READY" \in States
      BY <1>3, <1>7 DEF States
    <2> QED
      BY <1>3, <1>7, <1>8, <2>1, WriteStateOf
  <1>10. /\ InPlace(y, R) /\ Cleared(y, {}) /\ y.cur = o /\ Steady(y, e)
         /\ y.tcb[TID_NULL].state = "READY"
         /\ \A u \in Tasks : u # TID_NULL => y.tcb[u] = r.tcb[u]
    BY <1>7, <1>9 DEF StateSet, Repainted
  <1>11. l = [y EXCEPT !.ub = spoils]
    <2>1. ~InBounds(e.tcb[TID_NULL].prio)
      BY <1>7, FitsFacts, QueueIds
    <2> QED
      BY <1>5, <1>8, <2>1 DEF PutBack
  <1>12. Memory(y)
    BY <1>10 DEF InPlace
  <1>13. /\ Memory(l) /\ l.tcb = y.tcb /\ l.queue = y.queue /\ l.cur = o
         /\ DOMAIN l = DOMAIN y /\ \A f \in DOMAIN y : f # "ub" => l[f] = y[f]
    BY <1>10, <1>11, <1>12 DEF Memory
  <1>14. Repainted(l, y, R)
    BY <1>10, <1>13, SameLists
  <1>15. InPlace(l, R) /\ Cleared(l, {}) /\ TasksOf(l, SuspendQ) = TasksOf(y, SuspendQ)
    BY <1>10, <1>14, QueueIds DEF Repainted
  <1>16. Steady(l, r)
    <2>1. Steady(l, y)
      BY <1>13, <1>15 DEF Steady, Alike, SameTask
    <2>2. Steady(e, r)
      BY <1>2, <1>7, SteadySteps
    <2>3. Steady(y, r)
      BY <1>10, <2>2, SteadySteps
    <2> QED
      BY <2>1, <2>3, SteadySteps
  <1>17. Live(l, ex) = R
    BY <1>3, <1>13 DEF Live
  <1>18. Manned(l, ex)
    <2>1. /\ \A u \in ex \cup {o} : l.tcb[u].state = "RUNNING"
          /\ l.tcb[TID_NULL].state = "READY"
      BY <1>3, <1>10, <1>13
    <2> QED
      BY <1>3, <1>13, <1>15, <1>17, <2>1 DEF Manned
  <1>19. Earliest(l)
    <2> SUFFICES ASSUME NEW u \in Tasks, l.tcb[u].state = "READY", l.tcb[u].real_time
                 PROVE  FALSE
      BY DEF Earliest
    <2>1. u \notin R
      BY <1>17, <1>18, MannedFacts
    <2>2. r.tcb[u].state = "READY"
      BY <1>3, <1>10, <1>13, <2>1
    <2> QED
      BY <1>2, <2>1, <2>2
  <1> QED
    BY <1>16, <1>18, <1>19 DEF Ran

LEMMA PreemptsOthers ==
    ASSUME NEW r, NEW ex, Manned(r, ex), r.cur # TID_NULL, ~r.tcb[r.cur].real_time,
           NEW spoils \in BOOLEAN, NEW l, l = PreemptNRT(r, spoils)
    PROVE  Ran(l, r, ex)
  <1>1. PICK o, d, R : o = r.cur /\ d = Dispatch(r) /\ R = Live(r, ex)
    OBVIOUS
  <1>2. /\ InPlace(d, R \cup {d.cur}) /\ Cleared(d, {}) /\ d.cur \in Tasks
        /\ d.cur = TID_NULL => \A u \in Tasks \ R : r.tcb[u].state # "READY"
        /\ d.cur # TID_NULL => d.cur \in Tasks \ R /\ d.tcb[d.cur].state = "RUNNING"
        /\ \A u \in Tasks : u # d.cur => d.tcb[u].state = r.tcb[u].state
        /\ \A u \in Tasks : d.tcb[u].real_time = r.tcb[u].real_time
    <2>1. Beside(d, r, R)
      BY <1>1, ChoseBeside
    <2> QED
      BY <2>1 DEF Beside
  <1>3. o \in Tasks /\ o \in R /\ r.tcb[o].state = "RUNNING"
    BY <1>1, MannedFacts
  <1>4. CASE d.cur = TID_NULL
    <2>1. l = r
      BY <1>1, <1>4 DEF PreemptNRT
    <2>2. Ran(r, r, ex)
      BY <1>1, <1>2, <1>4, NobodyReady
    <2> QED
      BY <2>1, <2>2
  <1>5. CASE d.cur # TID_NULL /\ ~d.tcb[d.cur].real_time
    <2>1. l = PutBack([d EXCEPT !.cur = o], d.cur, spoils)
      BY <1>1, <1>5 DEF PreemptNRT
    <2> QED
      BY <1>1, <1>5, <2>1, GoesOn
  <1>6. CASE d.cur # TID_NULL /\ d.tcb[d.cur].real_time
    <2>1. PICK m : m = PushHeadReady(d, o)
      OBVIOUS
    <2>2. Queued(m, d, R \cup {d.cur}, o)
      <3>1. o \in R \cup {d.cur} /\ d.tcb[o].state = "RUNNING" /\ ~d.tcb[o].real_time
        BY <1>1, <1>2, <1>3, <1>6
      <3> QED
        BY <1>1, <1>2, <1>3, <2>1, <3>1, HeadReady
    <2>3. Ran(m, r, ex)
      BY <1>1, <1>6, <2>2, Switched
    <2>4. m.cur = d.cur /\ m.tcb[o].state = "READY" /\ Memory(m)
          /\ m.tcb[m.cur].state = "RUNNING" /\ m.cur \in Tasks
      BY <2>2, <2>3, MannedFacts DEF Queued, Ran
    <2>5. SwitchFrom(m, o) = [m EXCEPT !.tcb[o].state = "READY"]
      BY <2>4, SwitchIs
    <2>6. SwitchFrom(m, o) = m
      BY <1>3, <2>4, <2>5, SameState
    <2>7. l = SwitchFrom(m, o)
      BY <1>1, <1>6, <2>1 DEF PreemptNRT
    <2> QED
      BY <2>3, <2>6, <2>7
  <1> QED
    BY <1>2, <1>4, <1>5, <1>6

LEMMA PreemptsJobs ==
    ASSUME NEW r, NEW ex, Manned(r, ex), r.cur # TID_NULL, r.tcb[r.cur].real_time,
           NEW spoils \in BOOLEAN, NEW l, l = PreemptRT(r, spoils)
    PROVE  Ran(l, r, ex)
  <1>1. PICK o, d, R : o = r.cur /\ d = Dispatch(r) /\ R = Live(r, ex)
    OBVIOUS
  <1>2. /\ InPlace(d, R \cup {d.cur}) /\ Cleared(d, {}) /\ d.cur \in Tasks
        /\ d.cur # TID_NULL => d.cur \in Tasks \ R /\ d.tcb[d.cur].state = "RUNNING"
        /\ \A u \in Tasks : u # d.cur => d.tcb[u].state = r.tcb[u].state
        /\ \A u \in Tasks : /\ d.tcb[u].real_time = r.tcb[u].real_time
                            /\ d.tcb[u].tsk_deadline = r.tcb[u].tsk_deadline
    <2>1. Beside(d, r, R)
      BY <1>1, ChoseBeside
    <2> QED
      BY <2>1 DEF Beside
  <1>3. o \in Tasks /\ o \in R /\ r.tcb[o].state = "RUNNING" /\ Memory(r)
    BY <1>1, MannedFacts
  <1>4. /\ d.tcb[d.cur].tsk_deadline \in Nat /\ d.tcb[o].tsk_deadline \in Nat
        /\ ~d.tcb[TID_NULL].real_time
    <2>1. Memory(d) /\ ~d.tcb[TID_NULL].real_time
      BY <1>2, FitsFacts
    <2> QED
      BY <1>2, <1>3, <2>1, MemoryFields
  <1>5. CASE d.tcb[d.cur].real_time /\ d.tcb[d.cur].tsk_deadline < d.tcb[o].tsk_deadline
    <2>1. d.cur # TID_NULL
      BY <1>4, <1>5
    <2>2. o # d.cur /\ d.tcb[o].state = "RUNNING"
      BY <1>2, <1>3, <2>1
    <2>3. PICK m : m = PushTailReady(d, o)
      OBVIOUS
    <2>4. TailPut(m, d, R \cup {d.cur}, o)
      <3>1. o \in R \cup {d.cur}
        BY <1>3
      <3> QED
        BY <1>1, <1>2, <1>3, <2>2, <2>3, <3>1, TailReady
    <2>5. Memory(m) /\ m.cur = d.cur
      BY <2>4 DEF TailPut
    <2>6. PICK y : y = [m EXCEPT !.tcb[o].state = "READY"]
      OBVIOUS
    <2>7. Restated(y, m, o, "READY")
      BY <1>3, <2>5, <2>6, WriteState DEF States
    <2>8. Queued(y, d, R \cup {d.cur}, o)
      BY <2>4, <2>7 DEF TailPut
    <2>9. Ran(y, r, ex)
      <3>1. d.tcb[d.cur].real_time /\ d.tcb[d.cur].tsk_deadline <= r.tcb[o].tsk_deadline
        BY <1>2, <1>3, <1>4, <1>5
      <3>2. o = r.cur /\ o # TID_NULL /\ d = Dispatch(r)
        BY <1>1
      <3>3. Queued(y, d, Live(r, ex) \cup {d.cur}, o)
        BY <1>1, <2>8
      <3> QED
        BY <2>1, <3>1, <3>2, <3>3, Switched
    <2>10. m.tcb[m.cur].state = "RUNNING"
      BY <1>2, <2>1, <2>2, <2>5, <2>7, <2>8 DEF Queued, Restated
    <2>11. SwitchFrom(m, o) = y
      BY <1>2, <2>5, <2>6, <2>10, SwitchIs
    <2>12. l = SwitchFrom(m, o)
      BY <1>1, <1>5, <2>3 DEF PreemptRT
    <2> QED
      BY <2>9, <2>11, <2>12
  <1>6. CASE ~(d.tcb[d.cur].real_time /\ d.tcb[d.cur].tsk_deadline < d.tcb[o].tsk_deadline)
    <2>1. l = PutBack([d EXCEPT !.cur = o], d.cur, spoils)
      BY <1>1, <1>6 DEF PreemptRT
    <2>2. CASE d.cur = TID_NULL
      BY <1>1, <2>1, <2>2, NullPutBack
    <2>3. CASE d.cur # TID_NULL
      <3>1. d.tcb[d.cur].real_time => /\ r.tcb[o].real_time
                                      /\ r.tcb[o].tsk_deadline <= d.tcb[d.cur].tsk_deadline
        BY <1>1, <1>2, <1>3, <1>4, <1>6
      <3> QED
        BY <1>1, <2>1, <2>3, <3>1, GoesOn
    <2> QED
      BY <2>2, <2>3
  <1> QED
    BY <1>5, <1>6

\* The clock moves, and a variable may be spoilt: nobody does.
ClockSet(c, k, ex, now) ==
    /\ Manned(c, ex) /\ Clocked(c) /\ c.tcb = k.tcb /\ c.queue = k.queue /\ c.cur = k.cur
    /\ c.now = now /\ c.period = k.period /\ TasksOf(c, SuspendQ) = TasksOf(k, SuspendQ)

LEMMA SetClock ==
    ASSUME NEW k, NEW ex, Manned(k, ex), Clocked(k), NEW now, NEW b \in BOOLEAN,
           NEW c, c = [k EXCEPT !.now = now, !.ub = b]
    PROVE  ClockSet(c, k, ex, now)
  <1>1. InPlace(k, Live(k, ex)) /\ Memory(k)
    BY MannedFacts
  <1>2. /\ Memory(c) /\ c.tcb = k.tcb /\ c.queue = k.queue /\ c.cur = k.cur
        /\ c.now = now /\ c.period = k.period /\ Clocked(c)
    <2>1. DOMAIN c = DOMAIN k /\ c = [f \in DOMAIN k |-> c[f]]
      BY <1>1 DEF Memory
    <2>2. /\ c.tcb = k.tcb /\ c.queue = k.queue /\ c.cur = k.cur
          /\ c.ub = b /\ c.now = now /\ c.period = k.period
      BY <1>1 DEF Memory, Clocked
    <2> QED
      BY <1>1, <2>1, <2>2 DEF Memory, Clocked
  <1>3. Repainted(c, k, Live(k, ex))
    BY <1>1, <1>2, SameLists
  <1>4. Live(c, ex) = Live(k, ex)
    BY <1>2 DEF Live
  <1>5. Manned(c, ex)
    <2>1. Cleared(k, {}) /\ InPlace(c, Live(c, ex)) /\ Cleared(c, {})
      BY <1>3, <1>4 DEF Manned, Repainted
    <2> QED
      BY <1>2, <2>1 DEF Manned
  <1>6. TasksOf(c, SuspendQ) = TasksOf(k, SuspendQ)
    BY <1>3, QueueIds DEF Repainted
  <1> QED
    BY <1>2, <1>5, <1>6 DEF ClockSet

\* The jobs that begin wake up, and the others go on.
LEMMA WokenManned ==
    ASSUME NEW k, NEW ex, Manned(k, ex), NEW S, NEW r, Woken(r, k, Live(k, ex), S)
    PROVE  Manned(r, ex)
  <1>1. /\ InPlace(r, Live(k, ex)) /\ Cleared(r, {}) /\ r.cur = k.cur
        /\ \A u \in Tasks \ TasksOf(k, SuspendQ) : r.tcb[u].state = k.tcb[u].state
    BY DEF Woken
  <1>2. Live(r, ex) = Live(k, ex)
    BY <1>1 DEF Live
  <1>3. \A u \in Live(k, ex) : u \in Tasks \ TasksOf(k, SuspendQ)
    <2>1. /\ InPlace(k, Live(k, ex)) /\ Live(k, ex) \subseteq Tasks /\ SuspendQ \in Queues
      BY MannedFacts, QueueIds
    <2> QED
      BY <2>1, SeatOf
  <1>4. \A u \in Live(k, ex) : r.tcb[u].state = k.tcb[u].state
    BY <1>1, <1>3
  <1>5. Live(k, ex) = ex \cup {k.cur, TID_NULL}
    BY DEF Live
  <1> QED
    BY <1>1, <1>2, <1>4, <1>5 DEF Manned

\* What the interrupt does with whoever runs.
LEMMA Rescheduled ==
    ASSUME NEW r, NEW ex, Manned(r, ex), NEW d, d = Dispatch(r), NEW spoils \in BOOLEAN, NEW l,
           l = IF r.cur = TID_NULL THEN (IF d.cur = TID_NULL THEN r ELSE Run(d))
               ELSE IF ~r.tcb[r.cur].real_time THEN PreemptNRT(r, spoils)
               ELSE IF r.tcb[r.cur].state \in {"DORMANT", "SUSPENDED", "READY"} THEN Run(d)
               ELSE IF r.tcb[r.cur].state = "RUNNING" THEN PreemptRT(r, spoils)
               ELSE r
    PROVE  Ran(l, r, ex)
  <1>1. CASE r.cur = TID_NULL /\ d.cur = TID_NULL
    <2>1. PICK R : R = Live(r, ex)
      OBVIOUS
    <2>2. Beside(d, r, R)
      BY <2>1, ChoseBeside
    <2>3. \A u \in Tasks \ Live(r, ex) : r.tcb[u].state # "READY"
      BY <1>1, <2>1, <2>2 DEF Beside
    <2>4. Ran(r, r, ex)
      BY <2>3, NobodyReady
    <2> QED
      BY <1>1, <2>4
  <1>2. CASE r.cur = TID_NULL /\ d.cur # TID_NULL
    <2>1. Live(r, ex) = ex \cup {TID_NULL}
      BY <1>2 DEF Live
    <2>2. Offered(r, ex)
      BY <2>1 DEF Manned, Offered
    <2>3. l = Run(d)
      BY <1>2
    <2> QED
      BY <2>2, <2>3, DispatchRuns
  <1>3. CASE r.cur # TID_NULL /\ ~r.tcb[r.cur].real_time
    <2>1. l = PreemptNRT(r, spoils)
      BY <1>3
    <2> QED
      BY <1>3, <2>1, PreemptsOthers
  <1>4. CASE r.cur # TID_NULL /\ r.tcb[r.cur].real_time
    <2>1. r.tcb[r.cur].state = "RUNNING"
      BY MannedFacts
    <2>2. l = PreemptRT(r, spoils)
      BY <1>4, <2>1
    <2> QED
      BY <1>4, <2>2, PreemptsJobs
  <1> QED
    BY <1>1, <1>2, <1>3, <1>4

\* TIMER0_IRQHandler.
Elapsed(l, k, ex, now) ==
    /\ Manned(l, ex) /\ Earliest(l) /\ l.now = now /\ l.period = k.period
    /\ TasksOf(l, SuspendQ) \subseteq TasksOf(k, SuspendQ)
    /\ \A u \in TasksOf(l, SuspendQ) : ~Due(l, u)

LEMMA ElapseOnce ==
    ASSUME NEW k, NEW ex, Manned(k, ex), Clocked(k), NEW now, NEW spoils \in BOOLEAN,
           NEW l, l = Elapse(k, now, spoils)
    PROVE  Elapsed(l, k, ex, now)
  <1>1. PICK b \in BOOLEAN : b = IF k.queue[SuspendQ].HEAD = NULL THEN spoils ELSE k.ub
    <2>1. k.ub \in BOOLEAN
      BY MannedFacts DEF Memory
    <2> QED
      BY <2>1
  <1>2. PICK c : c = [k EXCEPT !.now = now, !.ub = b]
    OBVIOUS
  <1>3. ClockSet(c, k, ex, now)
    BY <1>2, SetClock
  <1>4. /\ Manned(c, ex) /\ Clocked(c) /\ c.now = now /\ c.period = k.period
        /\ TasksOf(c, SuspendQ) = TasksOf(k, SuspendQ)
    BY <1>3 DEF ClockSet
  <1>5. PICK r, S : r = ReleaseAll(c) /\ S = {u \in TasksOf(c, SuspendQ) : Due(c, u)}
    OBVIOUS
  <1>6. Woken(r, c, Live(c, ex), S)
    <2>1. InPlace(c, Live(c, ex)) /\ Cleared(c, {})
      BY <1>4, MannedFacts
    <2> QED
      BY <1>4, <1>5, <2>1, ReleaseAllWakes
  <1>7. Manned(r, ex)
    BY <1>4, <1>6, WokenManned
  <1>8. Alike(r, c) /\ TasksOf(r, SuspendQ) = TasksOf(c, SuspendQ) \ S
    BY <1>6 DEF Woken
  <1>9. PICK d : d = Dispatch(r)
    OBVIOUS
  <1>10. l = IF r.cur = TID_NULL THEN (IF d.cur = TID_NULL THEN r ELSE Run(d))
             ELSE IF ~r.tcb[r.cur].real_time THEN PreemptNRT(r, spoils)
             ELSE IF r.tcb[r.cur].state \in {"DORMANT", "SUSPENDED", "READY"} THEN Run(d)
             ELSE IF r.tcb[r.cur].state = "RUNNING" THEN PreemptRT(r, spoils)
             ELSE r
    <2>1. c = [k EXCEPT !.now = now,
                        !.ub = IF k.queue[SuspendQ].HEAD = NULL THEN spoils ELSE @]
      BY <1>1, <1>2
    <2> QED
      BY <1>5, <1>9, <2>1 DEF Elapse
  <1>11. Ran(l, r, ex)
    BY <1>7, <1>9, <1>10, Rescheduled
  <1>12. Manned(l, ex) /\ Earliest(l) /\ Alike(l, r) /\ TasksOf(l, SuspendQ) = TasksOf(r, SuspendQ)
    BY <1>11 DEF Ran, Steady
  <1>13. Alike(l, c)
    BY <1>8, <1>12, SteadySteps
  <1>14. l.now = c.now /\ l.period = c.period /\ \A u \in Tasks : Due(l, u) <=> Due(c, u)
    BY <1>4, <1>13, AlikeDue
  <1>15. TasksOf(c, SuspendQ) \subseteq Tasks
    BY <1>4, MannedFacts, QueueIds, SeatOf
  <1>16. TasksOf(l, SuspendQ) \subseteq TasksOf(k, SuspendQ)
    BY <1>4, <1>8, <1>12
  <1>17. \A u \in TasksOf(l, SuspendQ) : ~Due(l, u)
    BY <1>5, <1>8, <1>12, <1>14, <1>15
  <1> QED
    BY <1>4, <1>12, <1>14, <1>16, <1>17 DEF Elapsed

----------------------------------------------------------------------------
(***************************************************************************)
(* Booting.                                                                *)
(***************************************************************************)
LEMMA FreshEntered ==
    ASSUME NEW k, Fresh(k), NEW l, NEW R, NEW t \in Tasks, NEW p, Entered(l, k, R, t, p),
           OnlyJobsAtTop => p # RT_INDEX
    PROVE  Fresh(l)
  <1>1. /\ \A u \in Tasks : u # t => /\ l.tcb[u].state = k.tcb[u].state
                                   /\ l.tcb[u].prio = k.tcb[u].prio
        /\ l.tcb[t].prio = p /\ l.tcb[t].state = "READY"
    BY DEF Entered
  <1> QED
    BY <1>1 DEF Fresh, Blocked

\* A task that k_tsk_init creates is not a job.
LEMMA NewIsFresh ==
    ASSUME NEW k, NEW b, Starting(k, b), Fresh(k), NEW t \in Tasks, k.tcb[t].state = "DORMANT",
           NEW p \in Prio, InBounds(p), OnlyJobsAtTop => p # RT_INDEX, NEW priv \in BOOLEAN
    PROVE  Fresh(PushTailReady(CreateNew(k, t, p, priv), t))
  <1>1. /\ Placed(k, {TID_NULL}) /\ Cleared(k, {}) /\ k.tcb[TID_NULL].state = "READY"
        /\ t \notin {TID_NULL}
    BY DEF Starting
  <1>2. Entered(PushTailReady(CreateNew(k, t, p, priv), t), k, {TID_NULL}, t, p)
    BY <1>1, NewAtTail
  <1> QED
    BY <1>2, FreshEntered

LEMMA BootFresh ==
    ASSUME CarefulInstance, Orderly, Fresh(Kernel), BootSystemTask \/ BootTask
    PROVE  Fresh(Kernel') /\ Booting'
  <1>1. TypeOK
    BY DEF Orderly
  <1>2. /\ Reserved \in Nat /\ Reserved >= 1 /\ Reserved < MAX_TASKS
        /\ FirstReserved = MAX_TASKS - Reserved /\ FirstReserved \in Nat
        /\ Finished = MAX_TASKS + 1 /\ MAX_TASKS \in Nat /\ MaxBootTasks \in Nat
        /\ \A i \in 1 .. Reserved : SystemTids[i] \in Tasks
        /\ booted \in 0 .. MAX_TASKS + 1 /\ MaxBootTasks < FirstReserved
    BY <1>1, ReservedFacts, SystemTidsAssumption, MaxBootAssumption
       DEF Tasks, Finished, FirstReserved, TypeOK, CarefulInstance
  <1>3. PICK k : k = Kernel
    OBVIOUS
  <1>4. /\ Booting => Starting(k, booted)
        /\ k \in KernelType /\ Fresh(k)
    BY <1>1, <1>3, TypeOKKernel DEF Orderly
  <1>5. CASE BootSystemTask
    <2>1. booted < Reserved /\ booted' = booted + 1
      BY <1>5 DEF BootSystemTask
    <2>2. Booting /\ Booting' /\ booted + 1 \in 1 .. Reserved /\ booted \in Nat
      BY <1>2, <2>1 DEF Booting, Finished
    <2>3. PICK t \in Tasks : t = SystemTids[booted + 1]
      BY <1>2, <2>2
    <2>4. HIGH_INDEX \in Prio /\ InBounds(HIGH_INDEX) /\ (booted = 0) \in BOOLEAN
          /\ HIGH_INDEX # RT_INDEX
      BY DEF Prio, HIGH_INDEX, RT_INDEX, NULL_INDEX, InBounds
    <2>5. PICK l \in KernelType : l = PushTailReady(CreateNew(k, t, HIGH_INDEX, booted = 0), t)
      BY <1>4, <2>4, CreateNewType, PushReadyType
    <2>6. Kernel' = l
      <3>1. Becomes(l)
        BY <1>3, <1>5, <2>3, <2>5 DEF BootSystemTask
      <3> QED
        BY <3>1, KernelStep
    <2>7. k.tcb[t].state = "DORMANT"
      <3>1. booted + 1 > booted
        BY <2>2
      <3> QED
        BY <1>4, <2>2, <2>3, <3>1 DEF Starting
    <2>8. Fresh(l)
      BY <1>4, <2>2, <2>4, <2>5, <2>7, NewIsFresh
    <2> QED
      BY <2>2, <2>6, <2>8
  <1>6. CASE BootTask
    <2>1. /\ booted >= Reserved /\ booted - Reserved < MaxBootTasks
          /\ booted' = booted + 1
      BY <1>6 DEF BootTask
    <2>2. Booting /\ Booting' /\ booted \in Nat
      BY <1>2, <2>1 DEF Booting, Finished
    <2>3. PICK t : t = booted - Reserved + 1
      OBVIOUS
    <2>4. t \in Tasks /\ t \in Nat /\ t < FirstReserved /\ t # TID_NULL /\ t > booted - Reserved
      BY <1>2, <2>1, <2>2, <2>3 DEF Tasks, TID_NULL
    <2>5. CASE \E info \in BootInfos :
                  Becomes(PushTailReady(CreateNew(k, t, info.prio, info.priv), t))
      <3>1. PICK info \in BootInfos :
               Becomes(PushTailReady(CreateNew(k, t, info.prio, info.priv), t))
        BY <2>5
      <3>2. info.prio \in RT_INDEX .. LOWEST_INDEX /\ info.priv \in BOOLEAN
        BY BootInfosAssumption
      <3>3. info.prio \in Prio /\ InBounds(info.prio) /\ (OnlyJobsAtTop => info.prio # RT_INDEX)
        BY <3>1, <3>2, ReadyQueueIds DEF OnlyJobsAtTop
      <3>4. PICK l \in KernelType : l = PushTailReady(CreateNew(k, t, info.prio, info.priv), t)
        BY <1>4, <2>4, <3>2, <3>3, CreateNewType, PushReadyType
      <3>5. Kernel' = l
        BY <3>1, <3>4, KernelStep
      <3>6. k.tcb[t].state = "DORMANT"
        BY <1>4, <2>2, <2>4 DEF Starting
      <3>7. Fresh(l)
        BY <1>4, <2>2, <2>4, <3>2, <3>3, <3>4, <3>6, NewIsFresh
      <3> QED
        BY <2>2, <3>5, <3>7
    <2>6. CASE UNCHANGED kernelVars
      <3>1. Kernel' = k
        BY <1>3, <2>6 DEF kernelVars, Kernel
      <3> QED
        BY <1>4, <2>2, <3>1
    <2> QED
      BY <1>3, <1>6, <2>3, <2>5, <2>6 DEF BootTask
  <1> QED
    BY <1>5, <1>6

\* The tasks that k_tsk_init has created are in their places.
LEMMA FreshOffered ==
    ASSUME NEW k, NEW b, Starting(k, b), Fresh(k)
    PROVE  Offered(k, {})
  <1>1. /\ Memory(k) /\ Lists(k) /\ Cleared(k, {}) /\ TID_NULL \in Tasks
        /\ k.tcb[TID_NULL].state = "READY" /\ k.tcb[TID_NULL].prio = NULL_INDEX
        /\ \A u \in Tasks : k.tcb[u].real_time = FALSE /\ Settled(k, {TID_NULL}, u)
        /\ \A u \in Tasks \ {TID_NULL} : k.tcb[u].state = "DORMANT" \/ InBounds(k.tcb[u].prio)
        /\ \A u \in Tasks : /\ k.tcb[u].state \notin {"BLK_RECV", "BLK_SEND"}
                            /\ OnlyJobsAtTop /\ k.tcb[u].prio = RT_INDEX
                                => k.tcb[u].state = "DORMANT"
    BY NullTask DEF Starting, Placed, PlacedBut, Levels, Fresh, Blocked
  <1>2. /\ RT_INDEX # NULL_INDEX /\ ReadyQ(RT_INDEX) \in Queues /\ InBounds(RT_INDEX)
        /\ \A i \in Prio : InBounds(i) => ReadyQ(i) \in Queues
        /\ \A i, j : ReadyQ(i) = ReadyQ(j) => i = j
    BY QueueIds
  <1>3. \A u \in Tasks : Seated(k, {TID_NULL}, u) /\ Fits(k.tcb[u], u)
    BY <1>1, <1>2 DEF Seated, Settled, Fits
  <1>4. Sorted(k)
    <2> SUFFICES ASSUME OnlyJobsAtTop, NEW u \in Tasks, NEW v \in Tasks,
                        Precedes(k, ReadyQ(RT_INDEX), u, v)
                 PROVE  FALSE
      BY DEF Sorted, ByDeadline
    <2>1. u \in TasksOf(k, ReadyQ(RT_INDEX))
      BY <1>1, <1>2, PrecedesOn DEF Lists
    <2>2. ~Loose(k, u)
      BY <1>2, <2>1 DEF Loose
    <2>3. /\ k.tcb[u].state = "READY" /\ InBounds(k.tcb[u].prio)
          /\ u \in TasksOf(k, ReadyQ(k.tcb[u].prio))
      BY <1>1, <2>2 DEF Settled
    <2>4. ReadyQ(k.tcb[u].prio) \in Queues
      BY <1>1, <1>2, <2>3, MemoryFields
    <2>5. ReadyQ(k.tcb[u].prio) = ReadyQ(RT_INDEX)
      <3>1. PICK q, r \in Queues : q = ReadyQ(k.tcb[u].prio) /\ r = ReadyQ(RT_INDEX)
        BY <1>2, <2>4
      <3>2. q # r => TasksOf(k, q) \cap TasksOf(k, r) = {}
        BY <1>1 DEF Lists
      <3> QED
        BY <2>1, <2>3, <3>1, <3>2
    <2>6. k.tcb[u].prio = RT_INDEX
      BY <2>5 DEF ReadyQ
    <2> QED
      BY <1>1, <2>3, <2>6
  <1>5. {} \cup {TID_NULL} = {TID_NULL}
    OBVIOUS
  <1> QED
    BY <1>1, <1>3, <1>4, <1>5 DEF Offered, InPlace

----------------------------------------------------------------------------
(***************************************************************************)
(* The steps.                                                              *)
(***************************************************************************)
\* Who is where depends on the TCBs, the queues and the current task.
Carries(m, l, ex) == /\ Manned(m, ex) /\ (Earliest(l) => Earliest(m))
                     /\ TasksOf(m, SuspendQ) = TasksOf(l, SuspendQ)

LEMMA Carried ==
    ASSUME NEW l, NEW ex, Manned(l, ex), NEW m, Memory(m),
           m.tcb = l.tcb, m.queue = l.queue, m.cur = l.cur
    PROVE  Carries(m, l, ex)
  <1>1. InPlace(l, Live(l, ex)) /\ Cleared(l, {})
    BY DEF Manned
  <1>2. Repainted(m, l, Live(l, ex))
    BY <1>1, SameLists
  <1>3. Live(m, ex) = Live(l, ex)
    BY DEF Live
  <1>4. InPlace(m, Live(m, ex)) /\ Cleared(m, {}) /\ TasksOf(m, SuspendQ) = TasksOf(l, SuspendQ)
    BY <1>1, <1>2, <1>3, QueueIds DEF Repainted
  <1>5. Manned(m, ex)
    BY <1>4 DEF Manned
  <1>6. Earliest(l) => Earliest(m)
    BY DEF Earliest
  <1> QED
    BY <1>4, <1>5, <1>6 DEF Carries

LEMMA KernelIs ==
    ASSUME NEW k, k = Kernel
    PROVE  /\ k.tcb = tcb /\ k.queue = queue /\ k.cur = gp_current_task /\ k.ub = ub
           /\ TypeOK => Memory(k)
  BY KernelMemory DEF Kernel

\* The memory with the clock, when k_tsk_init has finished.
RtStands(k) == /\ Manned(k, exited) /\ Earliest(k) /\ Timed(k)
               /\ k.tcb = tcb /\ k.queue = queue /\ k.cur = gp_current_task
               /\ k.now = g_timer_count /\ k.period = tsk_period
               /\ TasksOf(k, SuspendQ) = TasksOf(Kernel, SuspendQ)

LEMMA RtKernelStands ==
    ASSUME RtInv, Up
    PROVE  RtStands(RtKernel)
  <1>1. PICK k, l : k = RtKernel /\ l = Kernel
    OBVIOUS
  <1>2. /\ k.tcb = tcb /\ k.queue = queue /\ k.cur = gp_current_task /\ k.ub = ub
        /\ k.now = g_timer_count /\ k.period = tsk_period
        /\ k = [f \in DOMAIN k |-> k[f]]
        /\ DOMAIN k = {"tcb", "queue", "cur", "ub", "now", "period"}
    BY <1>1 DEF RtKernel
  <1>3. /\ TypeOK /\ g_timer_count \in 0 .. Horizon
        /\ tsk_period \in [Tasks -> Periods \cup {0}]
        /\ Manned(l, exited) /\ Earliest(l)
    BY <1>1 DEF RtInv, RtTypeOK, Up
  <1>4. l.tcb = tcb /\ l.queue = queue /\ l.cur = gp_current_task
    BY <1>1, KernelIs
  <1>5. Memory(k)
    BY <1>2, <1>3 DEF Memory, TypeOK
  <1>6. Carries(k, l, exited)
    BY <1>2, <1>3, <1>4, <1>5, Carried
  <1>7. Periods \cup {0} \subseteq Nat
    BY RealTimeAssumption
  <1>8. Timed(k)
    <2>1. tsk_period \in [Tasks -> Nat] /\ g_timer_count \in Nat
      BY <1>3, <1>7
    <2> QED
      BY <1>2, <2>1 DEF Timed, Clocked
  <1> QED
    BY <1>1, <1>2, <1>3, <1>6, <1>8 DEF Carries, RtStands

\* A step of a system call or of the interrupt keeps the invariant when what it makes
\* of the memory is in order.
LEMMA RtKept ==
    ASSUME RtInv, Up, NEW l, NEW ex, Manned(l, ex), Earliest(l), Becomes(l), booted' = booted,
           exited' = ex, g_num_active_tasks' = g_num_active_tasks,
           g_timer_count' \in 0 .. Horizon, tsk_period' \in [Tasks -> Periods \cup {0}]
    PROVE  RtInv' /\ TasksOf(Kernel', SuspendQ) = TasksOf(l, SuspendQ)
  <1>1. Memory(l) /\ ex \subseteq Tasks
    BY DEF Manned, InPlace
  <1>2. /\ tcb' = l.tcb /\ queue' = l.queue /\ gp_current_task' = l.cur /\ ub' = l.ub
    BY DEF Becomes
  <1>3. TypeOK'
    BY <1>1, <1>2 DEF Memory, RtInv, RtTypeOK, TypeOK
  <1>4. PICK m : m = Kernel'
    OBVIOUS
  <1>5. m.tcb = l.tcb /\ m.queue = l.queue /\ m.cur = l.cur /\ m.ub = l.ub
        /\ m = [f \in DOMAIN m |-> m[f]] /\ DOMAIN m = {"tcb", "queue", "cur", "ub"}
    BY <1>2, <1>4 DEF Kernel
  <1>6. Memory(m)
    BY <1>1, <1>5 DEF Memory
  <1>7. Carries(m, l, ex)
    BY <1>5, <1>6, Carried
  <1>8. ~Booting'
    BY DEF Booting, Up
  <1>9. /\ Manned(Kernel', ex) /\ Earliest(Kernel')
        /\ TasksOf(Kernel', SuspendQ) = TasksOf(l, SuspendQ)
    BY <1>4, <1>7 DEF Carries
  <1>10. Manned(Kernel, exited)' /\ Earliest(Kernel)'
    BY <1>9
  <1> QED
    BY <1>3, <1>8, <1>9, <1>10 DEF RtInv, RtTypeOK

\* A call of a task that leaves the clock, the periods and suspend_tsk alone.
QuietCall == RtInv' /\ TasksOf(Kernel', SuspendQ) = TasksOf(Kernel, SuspendQ)

LEMMA CallKept ==
    ASSUME RtInv, Up, NEW l, NEW ex, Manned(l, ex), Earliest(l), Becomes(l), booted' = booted,
           exited' = ex, g_num_active_tasks' = g_num_active_tasks, UNCHANGED rtVars,
           TasksOf(l, SuspendQ) = TasksOf(Kernel, SuspendQ)
    PROVE  QuietCall
  <1>1. g_timer_count' \in 0 .. Horizon /\ tsk_period' \in [Tasks -> Periods \cup {0}]
    BY DEF RtInv, RtTypeOK, rtVars
  <1>2. RtInv' /\ TasksOf(Kernel', SuspendQ) = TasksOf(l, SuspendQ)
    BY <1>1, RtKept
  <1> QED
    BY <1>2 DEF QuietCall

\* k_tsk_yield
LEMMA YieldStep ==
    ASSUME RtInv, Yield, UNCHANGED rtVars
    PROVE  QuietCall
  <1>1. PICK k : k = Kernel
    OBVIOUS
  <1>2. /\ Up /\ booted' = booted /\ exited' = exited
        /\ g_num_active_tasks' = g_num_active_tasks
    BY DEF Yield
  <1>3. Manned(k, exited)
    BY <1>1, <1>2 DEF RtInv, Up
  <1>4. /\ k.cur = gp_current_task /\ k.tcb[k.cur].prio = Cur.prio
        /\ ~k.tcb[k.cur].real_time
    BY <1>1, KernelIs DEF Cur, Yield
  <1>5. PICK l : l = RunNew(IF k.tcb[k.cur].prio = NULL_INDEX THEN k ELSE PushTailReady(k, k.cur))
    OBVIOUS
  <1>6. Becomes(l)
    BY <1>1, <1>4, <1>5 DEF Yield
  <1>7. Ran(l, k, exited)
    BY <1>3, <1>4, <1>5, YieldOnce
  <1>8. Manned(l, exited) /\ Earliest(l) /\ TasksOf(l, SuspendQ) = TasksOf(Kernel, SuspendQ)
    BY <1>1, <1>7 DEF Ran, Steady
  <1> QED
    BY <1>2, <1>6, <1>8, CallKept

\* k_tsk_exit
LEMMA ExitStep ==
    ASSUME RtInv, UserTask, Exit, UNCHANGED rtVars
    PROVE  QuietCall
  <1>1. PICK k : k = Kernel
    OBVIOUS
  <1>2. /\ Up /\ booted' = booted /\ exited' = exited \cup {gp_current_task}
        /\ g_num_active_tasks' = g_num_active_tasks
    BY DEF Exit
  <1>3. Manned(k, exited)
    BY <1>1, <1>2 DEF RtInv, Up
  <1>4. k.cur = gp_current_task /\ k.cur # TID_NULL
    BY <1>1, KernelIs DEF UserTask
  <1>5. PICK l, ex : l = Run(Dispatch(k)) /\ ex = exited \cup {k.cur}
    OBVIOUS
  <1>6. Becomes(l)
    BY <1>1, <1>5 DEF Exit
  <1>7. Ran(l, k, ex)
    BY <1>3, <1>4, <1>5, ExitOnce
  <1>8. Manned(l, ex) /\ Earliest(l) /\ TasksOf(l, SuspendQ) = TasksOf(Kernel, SuspendQ)
    BY <1>1, <1>7 DEF Ran, Steady
  <1>9. exited' = ex
    BY <1>2, <1>4, <1>5
  <1> QED
    BY <1>2, <1>6, <1>8, <1>9, CallKept

\* The id k_tsk_create takes.
LEMMA NewTidIsTask == NewTid \in Tasks
  <1>1. FirstReserved \in Tasks /\ FreeSlots \in SUBSET Nat /\ FreeSlots \subseteq Tasks
    BY ReservedFacts DEF FreeSlots, Tasks, FirstReserved
  <1>2. FreeSlots # {} => \E i \in FreeSlots : \A j \in FreeSlots : i <= j
    BY <1>1, Least
  <1> QED
    BY <1>1, <1>2 DEF NewTid

\* k_tsk_create
LEMMA CreateStep ==
    ASSUME CarefulInstance, RtInv, UserTask, NEW prio \in CallPrios, Create(prio),
           UNCHANGED rtVars
    PROVE  QuietCall
  <1>1. PICK k, t : k = Kernel /\ t = NewTid
    OBVIOUS
  <1>2. /\ Up /\ booted' = booted /\ exited' = exited
        /\ g_num_active_tasks' = g_num_active_tasks
    BY DEF Create
  <1>3. Manned(k, exited) /\ Earliest(k)
    BY <1>1, <1>2 DEF RtInv, Up
  <1>4. /\ k.cur = gp_current_task /\ k.tcb[k.cur].prio = Cur.prio /\ k.cur # TID_NULL
        /\ k.tcb = tcb
    BY <1>1, KernelIs DEF Cur, UserTask
  <1>5. t \in Tasks /\ k.tcb[t].state = "DORMANT"
    BY <1>1, <1>4, NewTidIsTask DEF Create
  <1>6. prio \in Prio /\ InBounds(prio) /\ (OnlyJobsAtTop => prio # RT_INDEX) /\ FALSE \in BOOLEAN
    BY CallPriosAssumption DEF CarefulInstance, InBounds, OnlyJobsAtTop
  <1>7. PICK l : l = IF prio >= Cur.prio THEN PushTailReady(CreateNew(k, t, prio, FALSE), t)
                     ELSE PushHeadReady(Run([CreateNew(k, t, prio, FALSE) EXCEPT !.cur = t]),
                                        gp_current_task)
    OBVIOUS
  <1>8. Becomes(l)
    BY <1>1, <1>7 DEF Create
  <1>9. GoOn(l, k, exited)
    <2>1. CASE prio >= Cur.prio
      <3>1. l = PushTailReady(CreateNew(k, t, prio, FALSE), t)
        BY <1>7, <2>1
      <3>2. OnlyJobsAtTop => prio # RT_INDEX
        BY <1>6
      <3>3. prio \in Prio /\ InBounds(prio) /\ FALSE \in BOOLEAN
        BY <1>6
      <3> QED
        BY <1>3, <1>5, <3>1, <3>2, <3>3, CreateWaits
    <2>2. CASE ~(prio >= Cur.prio)
      <3>1. l = PushHeadReady(Run([CreateNew(k, t, prio, FALSE) EXCEPT !.cur = t]), k.cur)
        BY <1>4, <1>7, <2>2
      <3>2. ~(prio >= k.tcb[k.cur].prio)
        BY <1>4, <2>2
      <3>3. OnlyJobsAtTop => prio # RT_INDEX
        BY <1>6
      <3>4. prio \in Prio /\ InBounds(prio) /\ FALSE \in BOOLEAN /\ k.cur # TID_NULL
        BY <1>4, <1>6
      <3> QED
        BY <1>3, <1>5, <3>1, <3>2, <3>3, <3>4, CreateTakesOver
    <2> QED
      BY <2>1, <2>2
  <1>10. TasksOf(l, SuspendQ) = TasksOf(Kernel, SuspendQ)
    BY <1>1, <1>9 DEF GoOn
  <1>11. Manned(l, exited) /\ Earliest(l)
    BY <1>9 DEF GoOn
  <1> QED
    BY <1>2, <1>8, <1>10, <1>11, CallKept

\* k_rt_tsk_set
LEMMA RtTskSetStep ==
    ASSUME RtInv, UserTask, NEW period \in Periods, RtTskSet(period)
    PROVE  QuietCall /\ g_timer_count' = g_timer_count
  <1>1. PICK k, l : k = RtKernel /\ l = Promote(k, period)
    OBVIOUS
  <1>2. Up /\ RtBecomes(l)
    BY <1>1 DEF RtTskSet
  <1>3. RtStands(k)
    BY <1>1, <1>2, RtKernelStands
  <1>4. /\ Manned(k, exited) /\ Timed(k) /\ k.cur # TID_NULL /\ period \in Nat
        /\ k.now = g_timer_count /\ k.period = tsk_period /\ k.cur \in Tasks
        /\ TasksOf(k, SuspendQ) = TasksOf(Kernel, SuspendQ)
    BY <1>3, RealTimeAssumption DEF RtStands, UserTask, Manned
  <1>5. BecameJob(l, k, exited, period)
    BY <1>1, <1>4, PromoteOnce
  <1>6. /\ Manned(l, exited) /\ Earliest(l) /\ TasksOf(l, SuspendQ) = TasksOf(Kernel, SuspendQ)
        /\ l.now = g_timer_count /\ l.period = [tsk_period EXCEPT ![k.cur] = period]
    BY <1>4, <1>5 DEF BecameJob
  <1>7. /\ Becomes(l) /\ booted' = booted /\ exited' = exited
        /\ g_num_active_tasks' = g_num_active_tasks
        /\ g_timer_count' = g_timer_count /\ tsk_period' = [tsk_period EXCEPT ![k.cur] = period]
    BY <1>2, <1>6 DEF RtBecomes
  <1>8. g_timer_count' \in 0 .. Horizon /\ tsk_period' \in [Tasks -> Periods \cup {0}]
    BY <1>4, <1>7 DEF RtInv, RtTypeOK
  <1>9. RtInv' /\ TasksOf(Kernel', SuspendQ) = TasksOf(l, SuspendQ)
    BY <1>2, <1>6, <1>7, <1>8, RtKept
  <1> QED
    BY <1>6, <1>7, <1>9 DEF QuietCall

\* k_rt_tsk_susp.  Only the caller joins the suspended tasks, with its next deadline.
Suspending ==
    /\ RtInv' /\ g_timer_count' = g_timer_count
    /\ TasksOf(Kernel', SuspendQ) = TasksOf(Kernel, SuspendQ) \cup {gp_current_task}
    /\ tcb'[gp_current_task].tsk_deadline =
          NextDeadline(Cur.tsk_deadline, tsk_period[gp_current_task], g_timer_count)

LEMMA RtTskSuspStep ==
    ASSUME RtInv, RtTskSusp
    PROVE  Suspending
  <1>1. PICK k, l : k = RtKernel /\ l = Suspend(k)
    OBVIOUS
  <1>2. Up /\ RtBecomes(l)
    BY <1>1 DEF RtTskSusp
  <1>3. RtStands(k)
    BY <1>1, <1>2, RtKernelStands
  <1>4. /\ Manned(k, exited) /\ Timed(k) /\ k.cur = gp_current_task /\ k.tcb = tcb
        /\ k.now = g_timer_count /\ k.period = tsk_period
        /\ TasksOf(k, SuspendQ) = TasksOf(Kernel, SuspendQ)
        /\ k.tcb[k.cur].real_time
    BY <1>3 DEF RtStands, Cur, RtTskSusp
  <1>5. JobOver(l, k, exited)
    BY <1>1, <1>4, SuspendOnce
  <1>6. /\ Manned(l, exited) /\ Earliest(l)
        /\ TasksOf(l, SuspendQ) = TasksOf(Kernel, SuspendQ) \cup {gp_current_task}
        /\ l.now = g_timer_count /\ l.period = tsk_period
        /\ l.tcb[gp_current_task].tsk_deadline =
              NextDeadline(Cur.tsk_deadline, tsk_period[gp_current_task], g_timer_count)
    BY <1>4, <1>5 DEF JobOver, Cur
  <1>7. /\ Becomes(l) /\ booted' = booted /\ exited' = exited
        /\ g_num_active_tasks' = g_num_active_tasks
        /\ g_timer_count' = g_timer_count /\ tsk_period' = tsk_period /\ tcb' = l.tcb
    BY <1>2, <1>6 DEF RtBecomes, Becomes
  <1>8. g_timer_count' \in 0 .. Horizon /\ tsk_period' \in [Tasks -> Periods \cup {0}]
    BY <1>7 DEF RtInv, RtTypeOK
  <1>9. RtInv' /\ TasksOf(Kernel', SuspendQ) = TasksOf(l, SuspendQ)
    BY <1>2, <1>6, <1>7, <1>8, RtKept
  <1> QED
    BY <1>6, <1>7, <1>9 DEF Suspending

\* TIMER0_IRQHandler.  Nobody joins the suspended tasks, and no job that has begun is
\* left among them.
Ticking ==
    /\ RtInv' /\ TasksOf(Kernel', SuspendQ) \subseteq TasksOf(Kernel, SuspendQ)
    /\ \A t \in TasksOf(Kernel', SuspendQ) : ~Due(RtKernel', t)

LEMMA TickStep ==
    ASSUME RtInv, Tick
    PROVE  Ticking
  <1>1. Up
    BY DEF Tick
  <1>2. PICK late \in 1 .. MaxLate, spoils \in BOOLEAN :
           /\ g_timer_count + late <= Horizon
           /\ RtBecomes(Elapse(RtKernel, g_timer_count + late, spoils))
    BY DEF Tick
  <1>3. PICK k, now, l : k = RtKernel /\ now = g_timer_count + late /\ l = Elapse(k, now, spoils)
    OBVIOUS
  <1>4. RtBecomes(l)
    BY <1>2, <1>3
  <1>5. RtStands(k)
    BY <1>1, <1>3, RtKernelStands
  <1>6. /\ Manned(k, exited) /\ Timed(k) /\ k.now = g_timer_count /\ k.period = tsk_period
        /\ TasksOf(k, SuspendQ) = TasksOf(Kernel, SuspendQ)
    BY <1>5 DEF RtStands
  <1>7. now \in 0 .. Horizon
    BY <1>2, <1>3, RealTimeAssumption DEF RtInv, RtTypeOK
  <1>8. Clocked(k)
    BY <1>6 DEF Timed
  <1>9. Elapsed(l, k, exited, now)
    BY <1>3, <1>6, <1>8, ElapseOnce
  <1>10. /\ Manned(l, exited) /\ Earliest(l) /\ l.now = now /\ l.period = tsk_period
         /\ TasksOf(l, SuspendQ) \subseteq TasksOf(Kernel, SuspendQ)
         /\ \A u \in TasksOf(l, SuspendQ) : ~Due(l, u)
    BY <1>6, <1>9 DEF Elapsed
  <1>11. /\ Becomes(l) /\ booted' = booted /\ exited' = exited
         /\ g_num_active_tasks' = g_num_active_tasks
         /\ g_timer_count' = now /\ tsk_period' = tsk_period
    BY <1>4, <1>10 DEF RtBecomes
  <1>12. g_timer_count' \in 0 .. Horizon /\ tsk_period' \in [Tasks -> Periods \cup {0}]
    BY <1>7, <1>11 DEF RtInv, RtTypeOK
  <1>13. RtInv' /\ TasksOf(Kernel', SuspendQ) = TasksOf(l, SuspendQ)
    BY <1>1, <1>10, <1>11, <1>12, RtKept
  <1>14. PICK m : m = RtKernel'
    OBVIOUS
  <1>15. m.tcb = l.tcb /\ m.now = l.now /\ m.period = l.period
    BY <1>10, <1>11, <1>14 DEF RtKernel, Becomes
  <1>16. \A u : Due(m, u) <=> Due(l, u)
    BY <1>15 DEF Due
  <1>17. \A u \in TasksOf(Kernel', SuspendQ) : ~Due(m, u)
    BY <1>10, <1>13, <1>16
  <1> QED
    BY <1>10, <1>13, <1>14, <1>17 DEF Ticking

\* While k_tsk_init creates tasks, nobody is suspended.
LEMMA NobodyAsleep ==
    ASSUME NEW k, NEW b, Starting(k, b), Fresh(k)
    PROVE  TasksOf(k, SuspendQ) = {} /\ \A u \in Tasks : k.tcb[u].state # "SUSPENDED"
  <1>1. InPlace(k, {TID_NULL})
    <2>1. Offered(k, {}) /\ {} \cup {TID_NULL} = {TID_NULL}
      BY FreshOffered
    <2> QED
      BY <2>1 DEF Offered
  <1>2. /\ \A u \in Tasks : k.tcb[u].real_time = FALSE
        /\ k.tcb[TID_NULL].state = "READY"
    BY DEF Starting, Placed, PlacedBut
  <1>3. ASSUME NEW u \in TasksOf(k, SuspendQ)
        PROVE  FALSE
    <2>1. /\ u \in Tasks
          /\ \/ SuspendQ = ReadyQ(k.tcb[u].prio)
             \/ k.tcb[u].real_time
      BY <1>1, <1>3, QueueIds, SeatOf
    <2> QED
      BY <1>2, <2>1, QueueIds
  <1>4. \A u \in Tasks : k.tcb[u].state # "SUSPENDED"
    <2> SUFFICES ASSUME NEW u \in Tasks, k.tcb[u].state = "SUSPENDED"
                 PROVE  FALSE
      OBVIOUS
    <2>1. u \in Tasks \ {TID_NULL}
      BY <1>2
    <2>2. u \in TasksOf(k, SuspendQ)
      BY <1>1, <2>1, ReadySeat
    <2> QED
      BY <1>3, <2>2
  <1> QED
    BY <1>3, <1>4

\* k_tsk_init
Awake == \A u \in Tasks : tcb[u].state # "SUSPENDED"

LEMMA BootStep ==
    ASSUME CarefulInstance, RtInv, Boot, UNCHANGED rtVars
    PROVE  RtInv' /\ Awake'
  <1>1. /\ g_timer_count' \in 0 .. Horizon /\ tsk_period' \in [Tasks -> Periods \cup {0}]
        /\ TypeOK
    BY DEF RtInv, RtTypeOK, rtVars
  <1>2. Booting
    <2>1. /\ Reserved \in Nat /\ Reserved < MAX_TASKS /\ Finished = MAX_TASKS + 1
          /\ booted \in 0 .. MAX_TASKS + 1 /\ MAX_TASKS \in Nat
      BY <1>1, ReservedFacts DEF TypeOK, Finished
    <2> QED
      BY <2>1 DEF Boot, BootSystemTask, BootTask, BootDone, Booting
  <1>3. Orderly /\ Fresh(Kernel)
    BY <1>2 DEF RtInv
  <1>4. Kept
    BY <1>3, BootKept
  <1>5. Orderly' /\ TypeOK'
    BY <1>4 DEF Kept, Orderly
  <1>6. CASE BootSystemTask \/ BootTask
    <2>1. Fresh(Kernel') /\ Booting'
      BY <1>3, <1>6, BootFresh
    <2>2. PICK l, b : l = Kernel' /\ b = booted'
      OBVIOUS
    <2>3. Starting(l, b) /\ Fresh(l) /\ l.tcb = tcb'
      <3>1. Starting(Kernel', booted')
        BY <1>5, <2>1 DEF Orderly
      <3>2. Kernel'.tcb = tcb'
        BY DEF Kernel
      <3> QED
        BY <2>1, <2>2, <3>1, <3>2
    <2>4. \A u \in Tasks : l.tcb[u].state # "SUSPENDED"
      BY <2>3, NobodyAsleep
    <2>5. Awake'
      BY <2>3, <2>4 DEF Awake
    <2>6. Fresh(Kernel)'
      BY <2>1
    <2> QED
      BY <1>1, <1>5, <2>1, <2>5, <2>6 DEF RtInv, RtTypeOK
  <1>7. CASE BootDone
    <2>1. PICK k : k = Kernel
      OBVIOUS
    <2>2. /\ Starting(k, booted) /\ Fresh(k) /\ exited = {} /\ k \in KernelType
      BY <1>1, <1>2, <1>3, <2>1, TypeOKKernel DEF Orderly
    <2>3. PICK d, l : d = Dispatch(k) /\ l = Run(d)
      OBVIOUS
    <2>4. Kernel' = l
      <3>1. l \in KernelType
        BY <2>2, <2>3, DispatchType, RunType
      <3>2. Becomes(l)
        BY <1>7, <2>1, <2>3 DEF BootDone
      <3> QED
        BY <3>1, <3>2, KernelStep
    <2>5. Offered(k, {})
      BY <2>2, FreshOffered
    <2>6. Ran(l, k, {})
      BY <2>3, <2>5, DispatchRuns
    <2>7. Manned(l, {}) /\ Earliest(l) /\ TasksOf(l, SuspendQ) = TasksOf(k, SuspendQ)
      BY <2>6 DEF Ran, Steady
    <2>8. exited' = {} /\ ~Booting'
      BY <1>7, <2>2 DEF BootDone, Booting
    <2>9. Manned(Kernel, exited)' /\ Earliest(Kernel)'
      BY <2>4, <2>7, <2>8
    <2>10. Awake'
      <3>1. TasksOf(l, SuspendQ) = {}
        BY <2>2, <2>7, NobodyAsleep
      <3>2. /\ InPlace(l, Live(l, {}))
            /\ \A u \in Live(l, {}) : l.tcb[u].state \in {"READY", "RUNNING"}
        BY <2>7, MannedFacts
      <3>3. \A u \in Tasks : l.tcb[u].state # "SUSPENDED"
        <4> SUFFICES ASSUME NEW u \in Tasks, l.tcb[u].state = "SUSPENDED"
                     PROVE  FALSE
          OBVIOUS
        <4>1. u \in Tasks \ Live(l, {})
          BY <3>2
        <4>2. u \in TasksOf(l, SuspendQ)
          BY <3>2, <4>1, ReadySeat
        <4> QED
          BY <3>1, <4>2
      <3>4. tcb' = l.tcb
        BY <2>4 DEF Kernel
      <3> QED
        BY <3>3, <3>4 DEF Awake
    <2> QED
      BY <1>1, <1>5, <2>8, <2>9, <2>10 DEF RtInv, RtTypeOK
  <1> QED
    BY <1>6, <1>7 DEF Boot

----------------------------------------------------------------------------
(***************************************************************************)
(* What the invariant says.                                                *)
(***************************************************************************)
LEMMA BootingInPlace ==
    ASSUME NEW k, NEW b, Starting(k, b), Fresh(k)
    PROVE  InPlace(k, {TID_NULL})
  <1>1. Offered(k, {}) /\ {} \cup {TID_NULL} = {TID_NULL}
    BY FreshOffered
  <1> QED
    BY <1>1 DEF Offered

\* Who is on a queue, and who is not.
Settles(k, R) ==
    /\ InPlace(k, R)
    /\ \A u \in Tasks : k.tcb[u].state = "SUSPENDED" => u \notin R
    /\ \A u \in Tasks \ {TID_NULL} : k.tcb[u].state = "READY" => u \notin R

LEMMA InvSettles ==
    ASSUME RtInv, NEW k, k = Kernel
    PROVE  \E R : Settles(k, R)
  <1>1. CASE Booting
    <2>1. Starting(k, booted) /\ Fresh(k)
      BY <1>1 DEF RtInv, Orderly
    <2>2. k.tcb[TID_NULL].state = "READY"
      BY <2>1 DEF Starting
    <2>3. InPlace(k, {TID_NULL})
      BY <2>1, BootingInPlace
    <2>4. Settles(k, {TID_NULL})
      BY <2>2, <2>3 DEF Settles
    <2> QED
      BY <2>4
  <1>2. CASE ~Booting
    <2>1. Manned(k, exited)
      BY <1>2 DEF RtInv
    <2>2. /\ InPlace(k, Live(k, exited))
          /\ \A u \in Live(k, exited) : k.tcb[u].state \in {"READY", "RUNNING"}
          /\ \A u \in Live(k, exited) : u # TID_NULL => k.tcb[u].state = "RUNNING"
      BY <2>1, MannedFacts
    <2>3. Settles(k, Live(k, exited))
      BY <2>2 DEF Settles
    <2> QED
      BY <2>3
  <1> QED
    BY <1>1, <1>2

LEMMA InvSuspended ==
    ASSUME RtInv
    PROVE  SuspendedExact
  <1>1. PICK k : k = Kernel
    OBVIOUS
  <1>2. PICK R : Settles(k, R)
    BY <1>1, InvSettles
  <1>3. InPlace(k, R) /\ \A u \in Tasks : k.tcb[u].state = "SUSPENDED" => u \notin R
    BY <1>2 DEF Settles
  <1>4. Memory(k) /\ Linked(k, SuspendQ)
    BY <1>3, QueueIds DEF InPlace, Lists
  <1>5. WellLinked(k, SuspendQ)
    BY <1>4, LinkedFacts
  <1>6. ASSUME NEW u \in TasksOf(k, SuspendQ)
        PROVE  u \in Tasks /\ k.tcb[u].state = "SUSPENDED"
    BY <1>3, <1>6, QueueIds, SeatOf
  <1>7. ASSUME NEW u \in Tasks, k.tcb[u].state = "SUSPENDED"
        PROVE  u \in TasksOf(k, SuspendQ)
    <2>1. u \in Tasks \ R
      BY <1>3, <1>7
    <2> QED
      BY <1>3, <1>7, <2>1, ReadySeat
  <1>8. k.tcb = tcb
    BY <1>1, KernelIs
  <1>9. TasksOf(k, SuspendQ) = {t \in Tasks : tcb[t].state = "SUSPENDED"}
    BY <1>6, <1>7, <1>8
  <1> QED
    BY <1>1, <1>5, <1>9 DEF SuspendedExact

LEMMA InvReadyLists ==
    ASSUME RtInv
    PROVE  ReadyListsExact
  <1>1. PICK k : k = Kernel
    OBVIOUS
  <1>2. PICK R : Settles(k, R)
    BY <1>1, InvSettles
  <1>3. /\ InPlace(k, R) /\ TID_NULL \in R
        /\ \A u \in Tasks \ {TID_NULL} : k.tcb[u].state = "READY" => u \notin R
    BY <1>2 DEF Settles, InPlace
  <1>4. ASSUME NEW i \in RT_INDEX .. LOWEST_INDEX
        PROVE  /\ WellLinked(k, ReadyQ(i))
               /\ TasksOf(k, ReadyQ(i)) =
                     {t \in Tasks \ {TID_NULL} : k.tcb[t].state = "READY" /\ k.tcb[t].prio = i}
    <2>1. ReadyQ(i) \in Queues /\ ReadyQ(i) # SuspendQ
      BY QueueIds
    <2>2. Memory(k) /\ Linked(k, ReadyQ(i))
      BY <1>3, <2>1 DEF InPlace, Lists
    <2>3. WellLinked(k, ReadyQ(i))
      BY <2>2, LinkedFacts
    <2>4. ASSUME NEW u \in TasksOf(k, ReadyQ(i))
          PROVE  u \in Tasks \ {TID_NULL} /\ k.tcb[u].state = "READY" /\ k.tcb[u].prio = i
      <3>1. /\ u \in Tasks \ R
            /\ k.tcb[u].state = "READY" /\ ReadyQ(i) = ReadyQ(k.tcb[u].prio)
        BY <1>3, <2>1, <2>4, SeatOf
      <3>2. i = k.tcb[u].prio
        BY <3>1 DEF ReadyQ
      <3> QED
        BY <1>3, <3>1, <3>2
    <2>5. ASSUME NEW u \in Tasks \ {TID_NULL}, k.tcb[u].state = "READY", k.tcb[u].prio = i
          PROVE  u \in TasksOf(k, ReadyQ(i))
      <3>1. u \in Tasks \ R
        BY <1>3, <2>5
      <3> QED
        BY <1>3, <2>5, <3>1, ReadySeat
    <2>6. TasksOf(k, ReadyQ(i)) =
              {t \in Tasks \ {TID_NULL} : k.tcb[t].state = "READY" /\ k.tcb[t].prio = i}
      BY <2>4, <2>5
    <2> QED
      BY <2>3, <2>6
  <1>5. k.tcb = tcb
    BY <1>1, KernelIs
  <1> QED
    BY <1>1, <1>4, <1>5 DEF ReadyListsExact

LEMMA InvEarliest ==
    ASSUME OnlyJobsAtTop, RtInv
    PROVE  EarliestDeadlineFirst
  <1> SUFFICES ASSUME Up, NEW t \in Tasks, Ready(t)
               PROVE  Cur.real_time /\ Cur.tsk_deadline <= tcb[t].tsk_deadline
    BY DEF EarliestDeadlineFirst
  <1>1. PICK k : k = Kernel
    OBVIOUS
  <1>2. Earliest(k)
    BY <1>1 DEF RtInv, Up
  <1>3. k.tcb = tcb /\ k.cur = gp_current_task
    BY <1>1, KernelIs
  <1> QED
    BY <1>2, <1>3 DEF Earliest, Ready, Cur

----------------------------------------------------------------------------
(***************************************************************************)
(* The invariant is kept.                                                  *)
(***************************************************************************)
LEMMA InitRtInv == ASSUME RtInit PROVE RtInv
  <1>1. Orderly /\ Booting /\ TypeOK
    BY InitOrderly DEF RtInit, Orderly
  <1>2. g_timer_count \in 0 .. Horizon /\ tsk_period \in [Tasks -> Periods \cup {0}]
    BY RealTimeAssumption DEF RtInit
  <1>3. Fresh(Kernel)
    <2>1. PICK k : k = Kernel
      OBVIOUS
    <2>2. \A t \in Tasks : k.tcb[t] = IF t = TID_NULL THEN Created(ZeroTCB, NULL_INDEX, FALSE)
                                      ELSE ZeroTCB
      BY <2>1, KernelIs DEF RtInit, Init
    <2>3. /\ Created(ZeroTCB, NULL_INDEX, FALSE).prio = NULL_INDEX
          /\ Created(ZeroTCB, NULL_INDEX, FALSE).state = "READY"
          /\ ZeroTCB.state = "DORMANT" /\ NULL_INDEX # RT_INDEX
      BY QueueIds DEF Created, ZeroTCB
    <2> QED
      BY <2>1, <2>2, <2>3 DEF Fresh, Blocked
  <1> QED
    BY <1>1, <1>2, <1>3 DEF RtInv, RtTypeOK

\* What a step does to the clock and to suspend_tsk.
RtStep ==
    /\ RtInv'
    /\ \/ QuietCall /\ g_timer_count' = g_timer_count
       \/ Awake' /\ g_timer_count' = g_timer_count
       \/ Suspending
       \/ Ticking

LEMMA StepRtInv ==
    ASSUME CarefulInstance, RtInv, RtNext
    PROVE  RtStep
  <1>1. CASE Boot /\ UNCHANGED rtVars
    BY <1>1, BootStep DEF RtStep, rtVars
  <1>2. CASE Calls /\ UNCHANGED rtVars
    <2>1. QuietCall
      <3>1. CASE Yield
        BY <1>2, <3>1, YieldStep
      <3>2. CASE UserTask /\ \E p \in CallPrios : Create(p)
        BY <1>2, <3>2, CreateStep
      <3>3. CASE UserTask /\ Exit
        BY <1>2, <3>3, ExitStep
      <3> QED
        BY <1>2, <3>1, <3>2, <3>3 DEF Calls
    <2> QED
      BY <1>2, <2>1 DEF RtStep, QuietCall, rtVars
  <1>3. CASE \E p \in Periods : UserTask /\ RtTskSet(p)
    BY <1>3, RtTskSetStep DEF RtStep, QuietCall
  <1>4. CASE RtTskSusp
    BY <1>4, RtTskSuspStep DEF RtStep, Suspending
  <1>5. CASE Tick
    BY <1>5, TickStep DEF RtStep, Ticking
  <1> QED
    BY <1>1, <1>2, <1>3, <1>4, <1>5 DEF RtNext, RtCalls

LEMMA StutterRtInv ==
    ASSUME RtInv, UNCHANGED realTimeVars
    PROVE  RtInv'
  <1>1. /\ Kernel' = Kernel /\ booted' = booted /\ exited' = exited
        /\ tcb' = tcb /\ queue' = queue /\ gp_current_task' = gp_current_task /\ ub' = ub
        /\ g_num_active_tasks' = g_num_active_tasks
        /\ g_timer_count' = g_timer_count /\ tsk_period' = tsk_period
    BY DEF realTimeVars, taskVars, kernelVars, rtVars, Kernel
  <1>2. TypeOK' /\ (Booting' <=> Booting)
    BY <1>1 DEF RtInv, RtTypeOK, TypeOK, Booting
  <1>3. Booting => Orderly' /\ Fresh(Kernel)'
    BY <1>1, <1>2 DEF RtInv, Orderly
  <1>4. ~Booting => Manned(Kernel, exited)' /\ Earliest(Kernel)'
    BY <1>1 DEF RtInv
  <1> QED
    BY <1>1, <1>2, <1>3, <1>4 DEF RtInv, RtTypeOK

\* After a step, as before it, who is suspended is on suspend_tsk.
LEMMA SuspendedNext ==
    ASSUME RtInv', NEW t \in Tasks, tcb'[t].state = "SUSPENDED"
    PROVE  t \in TasksOf(Kernel', SuspendQ)
  <1>1. PICK l : l = Kernel'
    OBVIOUS
  <1>2. l.tcb[t].state = "SUSPENDED"
    BY <1>1 DEF Kernel
  <1>3. CASE Booting'
    <2>1. PICK b : b = booted'
      OBVIOUS
    <2>2. Starting(l, b) /\ Fresh(l)
      BY <1>1, <1>3, <2>1 DEF RtInv, Orderly
    <2> QED
      BY <1>2, <2>2, NobodyAsleep
  <1>4. CASE ~Booting'
    <2>1. PICK ex : ex = exited'
      OBVIOUS
    <2>2. Manned(l, ex)
      BY <1>1, <1>4, <2>1 DEF RtInv
    <2>3. /\ InPlace(l, Live(l, ex))
          /\ \A u \in Live(l, ex) : l.tcb[u].state \in {"READY", "RUNNING"}
      BY <2>2, MannedFacts
    <2>4. t \in Tasks \ Live(l, ex)
      BY <1>2, <2>3
    <2>5. t \in TasksOf(l, SuspendQ)
      BY <1>2, <2>3, <2>4, ReadySeat
    <2> QED
      BY <1>1, <2>5
  <1> QED
    BY <1>3, <1>4

\* k_rt_tsk_susp's arithmetic.
OnGrid(e, d, p, now) == /\ (e - d) % p = 0
                        /\ e > MaxOf(d, now)
                        /\ e - p <= MaxOf(d, now)

LEMMA NextOnGrid ==
    ASSUME NEW d \in Nat, NEW p \in Nat \ {0}, NEW now \in Nat,
           NEW e, e = NextDeadline(d, p, now)
    PROVE  OnGrid(e, d, p, now)
  <1>1. CASE d < now
    <2>1. PICK n \in Nat : n = now - d
      BY <1>1
    <2>2. PICK q : q = n \div p
      OBVIOUS
    <2>3. q \in Nat /\ q * p \in Nat /\ q * p <= n /\ n < q * p + p
      BY <2>1, <2>2, Division
    <2>4. e = d + (q + 1) * p
      BY <1>1, <2>1, <2>2 DEF NextDeadline, Quotient
    <2>5. (q + 1) * p = q * p + p
      BY <2>3
    <2>6. PICK m \in Nat : m = q * p
      BY <2>3
    <2>7. e = d + (m + p) /\ m <= n /\ n < m + p
      BY <2>3, <2>4, <2>5, <2>6
    <2>8. e - d = (q + 1) * p /\ q + 1 \in Nat
      BY <2>3, <2>5, <2>6, <2>7
    <2>9. ((q + 1) * p) % p = 0
      BY <2>8, Multiple
    <2>10. (e - d) % p = 0
      BY <2>8, <2>9
    <2>11. e > now /\ e - p <= now /\ MaxOf(d, now) = now
      BY <1>1, <2>1, <2>7 DEF MaxOf
    <2> QED
      BY <2>10, <2>11 DEF OnGrid
  <1>2. CASE ~(d < now)
    <2>1. e = d + p
      BY <1>2 DEF NextDeadline
    <2>2. (1 * p) % p = 0
      BY Multiple
    <2>3. e - d = 1 * p
      BY <2>1
    <2>4. (e - d) % p = 0
      BY <2>2, <2>3
    <2>5. MaxOf(d, now) = d
      BY <1>2 DEF MaxOf
    <2> QED
      BY <2>1, <2>4, <2>5 DEF OnGrid
  <1> QED
    BY <1>1, <1>2

----------------------------------------------------------------------------
(***************************************************************************)
(* Theorems.                                                               *)
(***************************************************************************)
\* The inductive invariant: between any two steps every task is where its state says,
\* the suspended jobs on suspend_tsk, every queue is a proper list, the ready jobs are
\* in the order of their deadlines, and no ready job is due before the current task.
THEOREM RealTimeInvariant ==
    ASSUME CarefulInstance
    PROVE  RtSpec => []RtInv
  <1>1. RtInit => RtInv
    BY InitRtInv
  <1>2. ASSUME RtInv, [RtNext]_realTimeVars PROVE RtInv'
    BY <1>2, StepRtInv, StutterRtInv DEF RtStep
  <1> QED
    BY <1>1, <1>2, PTL DEF RtSpec

\* Every field of the TCBs, the queues, the clock and the periods keeps its range,
\* whatever the timer interrupt finds.
THEOREM RealTimeTypes ==
    ASSUME CarefulInstance
    PROVE  RtSpec => []RtTypeOK
  <1>1. RtInv => RtTypeOK
    BY DEF RtInv
  <1> QED
    BY <1>1, RealTimeInvariant, PTL

\* suspend_tsk is a proper list of exactly the SUSPENDED tasks: the walk of the timer
\* interrupt, which takes nodes off the list it walks, loses nobody and skips nobody.
THEOREM SuspendedTasksAreExact ==
    ASSUME CarefulInstance
    PROVE  RtSpec => []SuspendedExact
  <1>1. RtInv => SuspendedExact
    BY InvSuspended
  <1> QED
    BY <1>1, RealTimeInvariant, PTL

\* The ready queues hold exactly the READY tasks of their priority, also when the timer
\* interrupt puts back the task its scheduler has just taken off one.
THEOREM RealTimeReadyLists ==
    ASSUME CarefulInstance
    PROVE  RtSpec => []ReadyListsExact
  <1>1. RtInv => ReadyListsExact
    BY InvReadyLists
  <1> QED
    BY <1>1, RealTimeInvariant, PTL

\* Earliest deadline first: where only k_rt_tsk_set gives the top priority, no job is
\* ready while a task runs that is no job or has a later deadline, whichever calls,
\* ends of jobs and interrupts came before.
THEOREM EarliestDeadlineAlwaysFirst ==
    ASSUME CarefulInstance, OnlyJobsAtTop
    PROVE  RtSpec => []EarliestDeadlineFirst
  <1>1. RtInv => EarliestDeadlineFirst
    BY InvEarliest
  <1> QED
    BY <1>1, RealTimeInvariant, PTL

\* The timer interrupt leaves no job suspended whose period has begun, however many
\* tasks it wakes up and however late it comes.
THEOREM ReleasesAreOnTime ==
    ASSUME CarefulInstance
    PROVE  RtSpec => ReleasedOnTime
  <1>1. ASSUME RtInv, [RtNext]_realTimeVars
        PROVE  [g_timer_count' # g_timer_count =>
                  \A t \in TasksOf(Kernel', SuspendQ) : ~Due(RtKernel', t)]_realTimeVars
    <2>1. CASE RtNext
      <3>1. RtStep
        BY <1>1, <2>1, StepRtInv
      <3> QED
        BY <3>1 DEF RtStep, Suspending, Ticking
    <2>2. CASE UNCHANGED realTimeVars
      BY <2>2
    <2> QED
      BY <1>1, <2>1, <2>2
  <1> QED
    BY <1>1, RealTimeInvariant, PTL DEF RtSpec, ReleasedOnTime

\* A job that ends late gives up the periods that are over and no other, and its
\* deadlines stay on the grid of the first one, for every period and every delay.
THEOREM DeadlinesStayOnGrid ==
    ASSUME CarefulInstance
    PROVE  RtSpec => DeadlinesOnGrid
  <1>1. ASSUME RtInv, [RtNext]_realTimeVars
        PROVE  [\A t \in Tasks :
                  tcb[t].state = "RUNNING" /\ tcb'[t].state = "SUSPENDED" /\ tsk_period[t] > 0 =>
                     LET d == tcb[t].tsk_deadline
                         e == tcb'[t].tsk_deadline
                     IN  /\ (e - d) % tsk_period[t] = 0
                         /\ e > MaxOf(d, g_timer_count)
                         /\ e - tsk_period[t] <= MaxOf(d, g_timer_count)
               ]_realTimeVars
    <2>1. CASE RtNext
      <3>1. RtStep
        BY <1>1, <2>1, StepRtInv
      <3>2. ASSUME NEW t \in Tasks, tcb[t].state = "RUNNING", tcb'[t].state = "SUSPENDED",
                   tsk_period[t] > 0
            PROVE  OnGrid(tcb'[t].tsk_deadline, tcb[t].tsk_deadline, tsk_period[t], g_timer_count)
        <4>1. t \in TasksOf(Kernel', SuspendQ)
          BY <3>1, <3>2, SuspendedNext DEF RtStep
        <4>2. t \notin TasksOf(Kernel, SuspendQ)
          BY <1>1, <3>2, InvSuspended DEF SuspendedExact
        <4>3. Suspending
          BY <3>1, <3>2, <4>1, <4>2 DEF RtStep, QuietCall, Ticking, Awake
        <4>4. t = gp_current_task
              /\ tcb'[t].tsk_deadline =
                    NextDeadline(tcb[t].tsk_deadline, tsk_period[t], g_timer_count)
          BY <4>1, <4>2, <4>3 DEF Suspending, Cur
        <4>5. /\ tcb[t].tsk_deadline \in Nat /\ tsk_period[t] \in Nat \ {0}
              /\ g_timer_count \in Nat
          <5>1. /\ tcb \in [Tasks -> TCB] /\ g_timer_count \in 0 .. Horizon
                /\ tsk_period \in [Tasks -> Periods \cup {0}] /\ Periods \cup {0} \subseteq Nat
            BY <1>1, RealTimeAssumption DEF RtInv, RtTypeOK, TypeOK
          <5>2. tcb[t] \in TCB /\ tsk_period[t] \in Nat /\ g_timer_count \in Nat
            BY <3>2, <5>1
          <5> QED
            BY <3>2, <5>2 DEF TCB
        <4> QED
          BY <4>4, <4>5, NextOnGrid
      <3> QED
        BY <3>2 DEF OnGrid
    <2>2. CASE UNCHANGED realTimeVars
      BY <2>2
    <2> QED
      BY <1>1, <2>1, <2>2
  <1> QED
    BY <1>1, RealTimeInvariant, PTL DEF RtSpec, DeadlinesOnGrid
=============================================================================

--------------------------- MODULE PriorityQueue ---------------------------
(***************************************************************************)
(* The intrusive doubly linked task queues of priority_queue.c.            *)
(*                                                                         *)
(* The queues live in the kernel's memory: the links are the prev and next *)
(* fields of the TCBs and a QUEUE is a (HEAD, TAIL, current_size) triple.  *)
(* A kernel memory is a record k with at least the fields                  *)
(*    k.tcb    the array g_tcbs, a function from task ids to TCBs          *)
(*    k.queue  every QUEUE of the kernel, by its id                        *)
(*    k.ub     TRUE once the C code has done something undefined           *)
(* and each operation of priority_queue.c maps a memory to the memory it   *)
(* leaves behind, including the links it forgets to reset.                 *)
(***************************************************************************)
EXTENDS Integers, Sequences, FiniteSets, Functions

CONSTANTS
    MAX_TASKS,      \* size of g_tcbs (0x10 in common.h)
    NULL,           \* the null pointer
    SIZE_MOD        \* current_size is an unsigned int: it counts modulo this

ASSUME MaxTasksAssumption == MAX_TASKS \in Nat /\ MAX_TASKS >= 2
ASSUME NullAssumption     == NULL \notin Int
ASSUME SizeModAssumption  == SIZE_MOD \in Nat /\ SIZE_MOD > 2 * MAX_TASKS

Tasks    == 0 .. MAX_TASKS - 1
TID_NULL == 0
TID_UART == MAX_TASKS + 238          \* 0xFE when MAX_TASKS = 0x10: no task has it
TaskPtr  == Tasks \cup {NULL}

(***************************************************************************)
(* Priorities are the queue indices priority2order gives them: the order   *)
(* of the C priority values, without the values.                           *)
(***************************************************************************)
RT_INDEX     == 0
HIGH_INDEX   == 1
LOWEST_INDEX == 4
NULL_INDEX   == 5
Prio         == RT_INDEX .. NULL_INDEX

(***************************************************************************)
(* The queues: ready_queue[0..4], suspend_tsk, and the waiting_list of     *)
(* each mailbox.                                                           *)
(***************************************************************************)
Mailboxes     == Tasks \cup {TID_UART}
ReadyQ(i)     == <<"ready", i>>
WaitQ(m)      == <<"wait", m>>
SuspendQ      == <<"suspend", TID_NULL>>
ReadyQueues   == {ReadyQ(i) : i \in RT_INDEX .. LOWEST_INDEX}
WaitQueues    == {WaitQ(m) : m \in Mailboxes}
Queues        == ReadyQueues \cup WaitQueues \cup {SuspendQ}

States == {"DORMANT", "READY", "RUNNING", "BLK_SEND", "BLK_RECV", "SUSPENDED"}

TCB == [state : States, prio : Prio, priv : BOOLEAN, real_time : BOOLEAN,
        tsk_deadline : Nat, prev : TaskPtr, next : TaskPtr]

QUEUE == [HEAD : TaskPtr, TAIL : TaskPtr, current_size : 0 .. SIZE_MOD - 1]

\* A TCB of zeroed memory, and a queue as every initialisation leaves it.
ZeroTCB == [state |-> "DORMANT", prio |-> RT_INDEX, priv |-> FALSE,
            real_time |-> FALSE, tsk_deadline |-> 0, prev |-> NULL, next |-> NULL]
EmptyQUEUE == [HEAD |-> NULL, TAIL |-> NULL, current_size |-> 0]

Incr(n) == (n + 1) % SIZE_MOD
Decr(n) == (n + SIZE_MOD - 1) % SIZE_MOD

\* The tasks met on the way from the head of q along next: as many as there
\* are, or MAX_TASKS + 1 of them when the links do not end.
Nodes(k, q) ==
    LET next == [t \in TaskPtr |-> IF t = NULL THEN NULL ELSE k.tcb[t].next]
        node[i \in 1 .. MAX_TASKS + 1] ==
            IF i = 1 THEN k.queue[q].HEAD ELSE next[node[i - 1]]
    IN  [i \in 1 .. Cardinality({i \in 1 .. MAX_TASKS + 1 : node[i] # NULL}) |-> node[i]]

----------------------------------------------------------------------------
(***************************************************************************)
(* Removal.                                                                *)
(***************************************************************************)
\* The state pop_head gives the node it removes.
PoppedState(s) == IF s = "BLK_SEND" THEN "READY" ELSE "RUNNING"

\* pop_head: the removed task is the old k.queue[q].HEAD.
PopHead(k, q) ==
    LET t == k.queue[q].HEAD
        n == k.tcb[t].next
    IN  IF t = NULL THEN k
        ELSE [k EXCEPT
                !.queue[q] = [HEAD |-> n,
                              TAIL |-> IF n = NULL THEN NULL ELSE @.TAIL,
                              current_size |-> Decr(@.current_size)],
                !.tcb = [u \in Tasks |->
                          IF u = t THEN [k.tcb[u] EXCEPT !.next = NULL, !.prev = NULL,
                                                         !.state = PoppedState(k.tcb[u].state)]
                          ELSE IF u = n THEN [k.tcb[u] EXCEPT !.prev = NULL]
                          ELSE k.tcb[u]]]

\* Mutant of PopTail: the new tail keeps its link to the removed task.
PopTailKeepsLink(k, q) ==
    LET t == k.queue[q].TAIL
        p == k.tcb[t].prev
    IN  IF t = NULL \/ k.queue[q].current_size = 0 THEN k
        ELSE [k EXCEPT
                !.queue[q] = [HEAD |-> IF p = NULL THEN NULL ELSE @.HEAD,
                              TAIL |-> p,
                              current_size |-> Decr(@.current_size)],
                !.tcb[t] = [k.tcb[t] EXCEPT !.next = NULL, !.prev = NULL]]

\* pop_tail: the state of the removed task is left alone.
PopTail(k, q) ==
    LET t == k.queue[q].TAIL
        p == k.tcb[t].prev
    IN  IF t = NULL \/ k.queue[q].current_size = 0 THEN k
        ELSE [k EXCEPT
                !.queue[q] = [HEAD |-> IF p = NULL THEN NULL ELSE @.HEAD,
                              TAIL |-> p,
                              current_size |-> Decr(@.current_size)],
                !.tcb = [u \in Tasks |->
                          IF u = t THEN [k.tcb[u] EXCEPT !.next = NULL, !.prev = NULL]
                          ELSE IF u = p THEN [k.tcb[u] EXCEPT !.next = NULL]
                          ELSE k.tcb[u]]]

\* The middle case of pop_task: t is bypassed, its own links are kept.
Unlink(k, t, q) ==
    LET p == k.tcb[t].prev
        n == k.tcb[t].next
    IN  IF p = NULL \/ n = NULL THEN [k EXCEPT !.ub = TRUE]
        ELSE [k EXCEPT !.queue[q].current_size = Decr(@),
                       !.tcb = [u \in Tasks |->
                                 [k.tcb[u] EXCEPT
                                     !.next = IF u = p THEN n ELSE k.tcb[u].next,
                                     !.prev = IF u = n THEN p ELSE k.tcb[u].prev]]]

\* The loop of pop_task that looks for t strictly between HEAD and TAIL: it
\* comes to x, and not to the tail before.
WalkMeets(k, q, x) ==
    LET path == Nodes(k, q)
    IN  \E i \in 2 .. Len(path) : path[i] = x /\ \A j \in 2 .. i - 1 : path[j] # k.queue[q].TAIL

\* pop_task.  A walk that meets neither t nor the tail reads through NULL or
\* never ends.
PopTask(k, t, q) ==
    LET Q == k.queue[q] IN
    CASE Q.HEAD = NULL \/ Q.TAIL = NULL -> k
      [] Q.HEAD # NULL /\ Q.TAIL # NULL /\ Q.HEAD = t ->
            [PopHead(k, q) EXCEPT !.tcb[t].state = "READY"]
      [] Q.HEAD \notin {NULL, t} /\ Q.TAIL = t -> PopTail(k, q)
      [] Q.HEAD \notin {NULL, t} /\ Q.TAIL \notin {NULL, t} ->
            IF WalkMeets(k, q, t) THEN Unlink(k, t, q)
            ELSE IF WalkMeets(k, q, Q.TAIL) THEN k
            ELSE [k EXCEPT !.ub = TRUE]

----------------------------------------------------------------------------
(***************************************************************************)
(* Insertion.                                                              *)
(***************************************************************************)
\* push_head: t.next is written only when the queue is not empty.
PushHead(k, t, q) ==
    LET h == k.queue[q].HEAD IN
    [k EXCEPT
        !.queue[q] = [HEAD |-> t,
                      TAIL |-> IF h = NULL THEN t ELSE @.TAIL,
                      current_size |-> Incr(@.current_size)],
        !.tcb = [u \in Tasks |->
                  IF u = t
                  THEN [k.tcb[u] EXCEPT
                           !.prev = NULL,
                           !.next = IF h = NULL THEN k.tcb[u].next ELSE h,
                           !.state = IF k.tcb[u].state = "SUSPENDED" THEN "SUSPENDED"
                                     ELSE "READY"]
                  ELSE IF u = h THEN [k.tcb[u] EXCEPT !.prev = t]
                  ELSE k.tcb[u]]]

\* The first node of q whose deadline is not before d, NULL if there is none.
FirstNotBefore(k, q, d) ==
    LET path == Nodes(k, q)
        late == {t \in Tasks :
                    /\ k.tcb[t].tsk_deadline >= d
                    /\ \E i \in 1 .. Len(path) :
                          /\ path[i] = t
                          /\ \A j \in 1 .. i - 1 : k.tcb[path[j]].tsk_deadline < d}
    IN  IF late = {} THEN NULL ELSE CHOOSE t \in late : TRUE

\* The last lines of push_tail: the node at the tail, whichever task it is, is
\* the one that becomes READY, unless the inserted task is blocked or suspended.
FinishTail(k, t, q) ==
    LET last == k.queue[q].TAIL IN
    [k EXCEPT
        !.queue[q].current_size = Incr(@),
        !.tcb[last] = [k.tcb[last] EXCEPT
            !.next = NULL,
            !.state = IF k.tcb[t].state \in {"BLK_SEND", "SUSPENDED"}
                      THEN k.tcb[last].state ELSE "READY"]]

Append1(k, t, q) ==
    LET last == k.queue[q].TAIL IN
    [k EXCEPT !.tcb[t].prev = last, !.tcb[last].next = t, !.queue[q].TAIL = t]

InsertFirst(k, t, q) ==
    LET h == k.queue[q].HEAD IN
    [k EXCEPT !.tcb[h].prev = t, !.tcb[t].next = h, !.queue[q].HEAD = t]

InsertBefore(k, t, s) ==
    LET p == k.tcb[s].prev IN
    IF p = NULL THEN [k EXCEPT !.ub = TRUE]
    ELSE [k EXCEPT !.tcb[t].prev = p, !.tcb[t].next = s,
                   !.tcb[p].next = t, !.tcb[s].prev = t]

\* push_tail: real-time tasks enter a non-empty queue in deadline order, and
\* are refused when their priority is not the real-time one.
PushTail(k, t, q) ==
    LET Q == k.queue[q]
        T == k.tcb[t]
        s == FirstNotBefore(k, q, T.tsk_deadline)
    IN  CASE Q.TAIL = NULL ->
               FinishTail([k EXCEPT !.queue[q].HEAD = t, !.queue[q].TAIL = t], t, q)
          [] Q.TAIL # NULL /\ ~T.real_time -> FinishTail(Append1(k, t, q), t, q)
          [] Q.TAIL # NULL /\ T.real_time /\ T.prio # RT_INDEX -> k
          [] Q.TAIL # NULL /\ T.real_time /\ T.prio = RT_INDEX ->
               FinishTail(IF s = NULL THEN Append1(k, t, q)
                          ELSE IF s = Q.HEAD THEN InsertFirst(k, t, q)
                          ELSE InsertBefore(k, t, s), t, q)

----------------------------------------------------------------------------
(***************************************************************************)
(* Reading a queue.                                                        *)
(***************************************************************************)
TasksOf(k, q) == Range(Nodes(k, q))

\* The queue is what a doubly linked list should be: the walk from HEAD ends,
\* at TAIL, visits no task twice, every prev after the first undoes a next, and
\* current_size counts the nodes.  (push_tail leaves the prev of a first node.)
WellLinked(k, q) ==
    LET path == Nodes(k, q)
        n    == Len(path)
    IN  /\ n <= MAX_TASKS /\ Cardinality(Range(path)) = n
        /\ k.queue[q].current_size = n
        /\ k.queue[q].TAIL = IF n = 0 THEN NULL ELSE path[n]
        /\ \A i \in 2 .. n : k.tcb[path[i]].prev = path[i - 1]
=============================================================================

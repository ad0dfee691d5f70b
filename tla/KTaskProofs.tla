----------------------------- MODULE KTaskProofs -----------------------------
(***************************************************************************)
(* What is proved of the scheduler of KTask for every number of tasks,     *)
(* every set of reserved ids and every choice of priorities: every call    *)
(* keeps the types, and the calls of careful callers keep every ready      *)
(* queue exact, run the highest priority, and never do anything undefined. *)
(***************************************************************************)
EXTENDS KTask, PriorityQueueProofs

USE MaxTasksAssumption, NullAssumption, SizeModAssumption

----------------------------------------------------------------------------
(***************************************************************************)
(* Every queue operation maps a well-typed kernel memory to a well-typed   *)
(* one: no link ever leaves g_tcbs.                                        *)
(***************************************************************************)
KernelType == [tcb : [Tasks -> TCB], queue : [Queues -> QUEUE], cur : Tasks, ub : BOOLEAN]

\* What membership in the types says, field by field.
LEMMA Fields ==
    ASSUME NEW k \in KernelType
    PROVE  /\ k.tcb \in [Tasks -> TCB] /\ k.queue \in [Queues -> QUEUE]
           /\ k.cur \in Tasks /\ k.ub \in BOOLEAN
           /\ \A q \in Queues : /\ k.queue[q].HEAD \in TaskPtr /\ k.queue[q].TAIL \in TaskPtr
                                /\ k.queue[q].current_size \in 0 .. SIZE_MOD - 1
           /\ \A t \in Tasks : /\ k.tcb[t].state \in States /\ k.tcb[t].prio \in Prio
                               /\ k.tcb[t].prev \in TaskPtr /\ k.tcb[t].next \in TaskPtr
                               /\ k.tcb[t].real_time \in BOOLEAN
                               /\ k.tcb[t].tsk_deadline \in Nat
           /\ NULL \notin Tasks
  BY DEF KernelType, QUEUE, TCB, Tasks

\* Writing state and links leaves a TCB a TCB.
LEMMA Written ==
    ASSUME NEW T \in TCB
    PROVE  /\ \A s \in States : [T EXCEPT !.state = s] \in TCB
           /\ \A p \in TaskPtr : [T EXCEPT !.prev = p] \in TCB
           /\ \A n \in TaskPtr : [T EXCEPT !.next = n] \in TCB
           /\ \A p \in Prio : [T EXCEPT !.prio = p] \in TCB
           /\ [T EXCEPT !.next = NULL, !.prev = NULL] \in TCB
           /\ [T EXCEPT !.next = NULL, !.prev = NULL, !.state = PoppedState(T.state)] \in TCB
  <1>1. NULL \in TaskPtr
    BY DEF TaskPtr
  <1>2. T.state \in States /\ PoppedState(T.state) \in States
    BY DEF TCB, PoppedState, States
  <1> QED
    BY <1>1, <1>2 DEF TCB

\* pop_head, of any queue: of an array index out of range nothing is written.
LEMMA PopHeadType ==
    ASSUME NEW k \in KernelType, NEW q
    PROVE  PopHead(k, q) \in KernelType
  <1>1. PICK t : t = k.queue[q].HEAD
    OBVIOUS
  <1>2. PICK n : n = k.tcb[t].next
    OBVIOUS
  <1>3. CASE t = NULL
    BY <1>1, <1>3 DEF PopHead
  <1>4. CASE t # NULL
    <2>1. ASSUME NEW u \in Tasks
          PROVE  /\ [k.tcb[u] EXCEPT !.next = NULL, !.prev = NULL, !.state = PoppedState(@)] \in TCB
                 /\ [k.tcb[u] EXCEPT !.prev = NULL] \in TCB
                 /\ k.tcb[u] \in TCB
      <3>1. k.tcb[u] \in TCB /\ NULL \in TaskPtr
        BY DEF KernelType, TaskPtr
      <3> QED
        BY <3>1, Written
    <2>2. PopHead(k, q).tcb \in [Tasks -> TCB]
      <3>1. PopHead(k, q).tcb =
              [u \in Tasks |->
                 IF u = t THEN [k.tcb[u] EXCEPT !.next = NULL, !.prev = NULL,
                                                !.state = PoppedState(@)]
                 ELSE IF u = n THEN [k.tcb[u] EXCEPT !.prev = NULL]
                 ELSE k.tcb[u]]
        BY <1>1, <1>2, <1>4 DEF PopHead, KernelType
      <3> QED
        BY <2>1, <3>1
    <2>3. PopHead(k, q).queue \in [Queues -> QUEUE]
      <3>1. CASE q \in Queues
        <4>1. t \in Tasks /\ n \in TaskPtr
          BY <1>1, <1>2, <1>4, <3>1, Fields DEF TaskPtr
        <4>2. PICK Q : Q = [HEAD |-> n, TAIL |-> IF n = NULL THEN NULL ELSE k.queue[q].TAIL,
                        current_size |-> Decr(k.queue[q].current_size)]
          OBVIOUS
        <4>3. Q \in QUEUE
          BY <4>2, <4>1, <3>1, Fields, CountsInRange DEF QUEUE, TaskPtr
        <4>4. PopHead(k, q).queue = [k.queue EXCEPT ![q] = Q]
          BY <1>1, <1>2, <1>4, <4>2 DEF PopHead, KernelType
        <4> QED
          BY <4>3, <4>4 DEF KernelType
      <3>2. CASE q \notin Queues
        BY <1>1, <1>2, <1>4, <3>2 DEF PopHead, KernelType
      <3> QED
        BY <3>1, <3>2
    <2>4. PopHead(k, q) = [tcb |-> PopHead(k, q).tcb, queue |-> PopHead(k, q).queue,
                           cur |-> k.cur, ub |-> k.ub]
      BY <1>1, <1>2, <1>4 DEF PopHead, KernelType
    <2> QED
      BY <2>2, <2>3, <2>4 DEF KernelType
  <1> QED
    BY <1>3, <1>4

LEMMA PopTailType ==
    ASSUME NEW k \in KernelType, NEW q \in Queues
    PROVE  PopTail(k, q) \in KernelType
  <1>1. PICK t : t = k.queue[q].TAIL
    OBVIOUS
  <1>2. PICK p : p = k.tcb[t].prev
    OBVIOUS
  <1>3. CASE t = NULL \/ k.queue[q].current_size = 0
    BY <1>1, <1>3 DEF PopTail
  <1>4. CASE ~(t = NULL \/ k.queue[q].current_size = 0)
    <2>1. t \in Tasks /\ p \in TaskPtr
      BY <1>1, <1>2, <1>4, Fields DEF TaskPtr
    <2>2. PICK Q : Q = [HEAD |-> IF p = NULL THEN NULL ELSE k.queue[q].HEAD, TAIL |-> p,
                        current_size |-> Decr(k.queue[q].current_size)]
      OBVIOUS
    <2>3. PICK T : T = [u \in Tasks |->
                          IF u = t THEN [k.tcb[u] EXCEPT !.next = NULL, !.prev = NULL]
                          ELSE IF u = p THEN [k.tcb[u] EXCEPT !.next = NULL]
                          ELSE k.tcb[u]]
      OBVIOUS
    <2>4. PopTail(k, q) = [tcb |-> T, queue |-> [k.queue EXCEPT ![q] = Q],
                           cur |-> k.cur, ub |-> k.ub]
      BY <1>1, <1>2, <1>4, <2>2, <2>3 DEF PopTail, KernelType
    <2>5. Q \in QUEUE
      BY <2>1, <2>2, Fields, CountsInRange DEF QUEUE, TaskPtr
    <2>6. T \in [Tasks -> TCB]
      <3>1. \A u \in Tasks : /\ k.tcb[u] \in TCB
                             /\ [k.tcb[u] EXCEPT !.next = NULL, !.prev = NULL] \in TCB
                             /\ [k.tcb[u] EXCEPT !.next = NULL] \in TCB
        BY Written DEF KernelType, TaskPtr
      <3> QED
        BY <2>3, <3>1
    <2> QED
      BY <2>4, <2>5, <2>6 DEF KernelType
  <1> QED
    BY <1>3, <1>4

LEMMA UnlinkType ==
    ASSUME NEW k \in KernelType, NEW t \in Tasks, NEW q \in Queues
    PROVE  Unlink(k, t, q) \in KernelType
  <1>1. PICK p \in TaskPtr : p = k.tcb[t].prev
    BY Fields
  <1>2. PICK n \in TaskPtr : n = k.tcb[t].next
    BY Fields
  <1>3. CASE p = NULL \/ n = NULL
    BY <1>1, <1>2, <1>3 DEF Unlink, KernelType
  <1>4. CASE ~(p = NULL \/ n = NULL)
    <2>1. PICK T : T = [u \in Tasks |->
                          [k.tcb[u] EXCEPT !.next = IF u = p THEN n ELSE k.tcb[u].next,
                                           !.prev = IF u = n THEN p ELSE k.tcb[u].prev]]
      OBVIOUS
    <2>2. Unlink(k, t, q) =
            [tcb |-> T,
             queue |-> [k.queue EXCEPT ![q].current_size = Decr(k.queue[q].current_size)],
             cur |-> k.cur, ub |-> k.ub]
      BY <1>1, <1>2, <1>4, <2>1 DEF Unlink, KernelType
    <2>3. T \in [Tasks -> TCB]
      <3>1. ASSUME NEW u \in Tasks
            PROVE  [k.tcb[u] EXCEPT !.next = IF u = p THEN n ELSE k.tcb[u].next,
                                    !.prev = IF u = n THEN p ELSE k.tcb[u].prev] \in TCB
        <4>1. k.tcb[u] \in TCB
          BY DEF KernelType
        <4>2. /\ (IF u = p THEN n ELSE k.tcb[u].next) \in TaskPtr
              /\ (IF u = n THEN p ELSE k.tcb[u].prev) \in TaskPtr
          BY Fields
        <4> QED
          BY <4>1, <4>2 DEF TCB
      <3> QED
        BY <2>1, <3>1
    <2>4. [k.queue EXCEPT ![q].current_size = Decr(k.queue[q].current_size)] \in [Queues -> QUEUE]
      BY CountsInRange DEF KernelType, QUEUE
    <2> QED
      BY <2>2, <2>3, <2>4 DEF KernelType
  <1> QED
    BY <1>3, <1>4

\* The writes to one task that callers of the queue operations make.
LEMMA OneTask ==
    ASSUME NEW k \in KernelType, NEW t \in Tasks
    PROVE  /\ \A s \in States : [k EXCEPT !.tcb[t].state = s] \in KernelType
           /\ \A p \in Prio : [k EXCEPT !.tcb[t].prio = p] \in KernelType
           /\ [k EXCEPT !.cur = t] \in KernelType
           /\ [k EXCEPT !.ub = TRUE] \in KernelType
  <1>1. k.tcb[t] \in TCB
    BY DEF KernelType
  <1>2. \A s \in States : [k.tcb EXCEPT ![t].state = s] \in [Tasks -> TCB]
    BY <1>1, Written DEF KernelType
  <1>3. \A p \in Prio : [k.tcb EXCEPT ![t].prio = p] \in [Tasks -> TCB]
    BY <1>1, Written DEF KernelType
  <1> QED
    BY <1>2, <1>3 DEF KernelType

LEMMA PopTaskType ==
    ASSUME NEW k \in KernelType, NEW t \in Tasks, NEW q \in Queues
    PROVE  PopTask(k, t, q) \in KernelType
  <1>1. [PopHead(k, q) EXCEPT !.tcb[t].state = "READY"] \in KernelType
    BY PopHeadType, OneTask DEF States
  <1>2. [k EXCEPT !.ub = TRUE] \in KernelType
    BY OneTask
  <1> QED
    BY <1>1, <1>2, PopTailType, UnlinkType, Fields DEF PopTask

LEMMA PushHeadType ==
    ASSUME NEW k \in KernelType, NEW t \in Tasks, NEW q \in Queues
    PROVE  PushHead(k, t, q) \in KernelType
  <1>1. PICK h : h = k.queue[q].HEAD
    OBVIOUS
  <1>2. PICK Q : Q = [HEAD |-> t, TAIL |-> IF h = NULL THEN t ELSE k.queue[q].TAIL,
                      current_size |-> Incr(k.queue[q].current_size)]
    OBVIOUS
  <1>3. PICK T : T = [u \in Tasks |->
                        IF u = t
                        THEN [k.tcb[u] EXCEPT
                                 !.prev = NULL,
                                 !.next = IF h = NULL THEN k.tcb[u].next ELSE h,
                                 !.state = IF k.tcb[u].state = "SUSPENDED" THEN "SUSPENDED"
                                           ELSE "READY"]
                        ELSE IF u = h THEN [k.tcb[u] EXCEPT !.prev = t]
                        ELSE k.tcb[u]]
    OBVIOUS
  <1>4. PushHead(k, t, q) = [k EXCEPT !.queue[q] = Q, !.tcb = T]
    BY <1>1, <1>2, <1>3 DEF PushHead
  <1>5. Q \in QUEUE
    BY <1>1, <1>2, Fields, CountsInRange DEF QUEUE, TaskPtr
  <1>6. T \in [Tasks -> TCB]
    <2>1. ASSUME NEW u \in Tasks
          PROVE  /\ [k.tcb[u] EXCEPT
                        !.prev = NULL,
                        !.next = IF h = NULL THEN k.tcb[u].next ELSE h,
                        !.state = IF k.tcb[u].state = "SUSPENDED" THEN "SUSPENDED"
                                  ELSE "READY"] \in TCB
                 /\ [k.tcb[u] EXCEPT !.prev = t] \in TCB
                 /\ k.tcb[u] \in TCB
      <3>1. k.tcb[u] \in TCB /\ h \in TaskPtr /\ NULL \in TaskPtr /\ t \in TaskPtr
        BY <1>1, Fields DEF KernelType, TaskPtr
      <3>2. "SUSPENDED" \in States /\ "READY" \in States
        BY DEF States
      <3> QED
        BY <3>1, <3>2 DEF TCB
    <2> QED
      BY <1>3, <2>1
  <1>7. [k.queue EXCEPT ![q] = Q] \in [Queues -> QUEUE]
    BY <1>5 DEF KernelType
  <1> QED
    BY <1>4, <1>6, <1>7 DEF KernelType

\* Writing one link.
LEMMA WritePrev ==
    ASSUME NEW k \in KernelType, NEW t \in Tasks, NEW p \in TaskPtr
    PROVE  /\ [k EXCEPT !.tcb[t].prev = p] \in KernelType
           /\ [k EXCEPT !.tcb[t].prev = p].queue = k.queue
  <1>1. [k.tcb[t] EXCEPT !.prev = p] \in TCB
    BY Written DEF KernelType
  <1> QED
    BY <1>1 DEF KernelType

LEMMA WriteNext ==
    ASSUME NEW k \in KernelType, NEW t \in Tasks, NEW p \in TaskPtr
    PROVE  /\ [k EXCEPT !.tcb[t].next = p] \in KernelType
           /\ [k EXCEPT !.tcb[t].next = p].queue = k.queue
  <1>1. [k.tcb[t] EXCEPT !.next = p] \in TCB
    BY Written DEF KernelType
  <1> QED
    BY <1>1 DEF KernelType

LEMMA WriteTAIL ==
    ASSUME NEW k \in KernelType, NEW q \in Queues, NEW p \in TaskPtr
    PROVE  /\ [k EXCEPT !.queue[q].TAIL = p] \in KernelType
           /\ [k EXCEPT !.queue[q].TAIL = p].queue[q].TAIL = p
  <1>1. [k.queue[q] EXCEPT !.TAIL = p] \in QUEUE
    BY DEF KernelType, QUEUE
  <1> QED
    BY <1>1 DEF KernelType, QUEUE

LEMMA WriteHEAD ==
    ASSUME NEW k \in KernelType, NEW q \in Queues, NEW p \in TaskPtr
    PROVE  /\ [k EXCEPT !.queue[q].HEAD = p] \in KernelType
           /\ [k EXCEPT !.queue[q].HEAD = p].queue[q].TAIL = k.queue[q].TAIL
  <1>1. [k.queue[q] EXCEPT !.HEAD = p] \in QUEUE
    BY DEF KernelType, QUEUE
  <1> QED
    BY <1>1 DEF KernelType, QUEUE

\* The parts of push_tail.
LEMMA LinkType ==
    ASSUME NEW k \in KernelType, NEW t \in Tasks, NEW q \in Queues,
           k.queue[q].TAIL # NULL
    PROVE  /\ Append1(k, t, q) \in KernelType /\ Append1(k, t, q).queue[q].TAIL # NULL
           /\ k.queue[q].HEAD # NULL =>
                /\ InsertFirst(k, t, q) \in KernelType
                /\ InsertFirst(k, t, q).queue[q].TAIL # NULL
           /\ \A s \in Tasks : /\ InsertBefore(k, t, s) \in KernelType
                               /\ InsertBefore(k, t, s).queue[q].TAIL # NULL
  <1>1. /\ t \in TaskPtr /\ t # NULL /\ \A u \in Tasks : u \in TaskPtr
        /\ \A u \in Tasks : k.tcb[u] \in TCB
        /\ \A T \in TCB, p \in TaskPtr :
              [T EXCEPT !.prev = p] \in TCB /\ [T EXCEPT !.next = p] \in TCB
    BY Fields, Written DEF KernelType, TaskPtr
  <1>2. \A f \in [Tasks -> TCB], u \in Tasks, p \in TaskPtr :
          [f EXCEPT ![u].prev = p] \in [Tasks -> TCB] /\ [f EXCEPT ![u].next = p] \in [Tasks -> TCB]
    BY <1>1
  <1>3. Append1(k, t, q) \in KernelType /\ Append1(k, t, q).queue[q].TAIL # NULL
    <2>1. PICK last : last = k.queue[q].TAIL /\ last \in Tasks /\ last \in TaskPtr
      BY Fields DEF TaskPtr
    <2>2. PICK a : a = [k EXCEPT !.tcb[t].prev = last]
      OBVIOUS
    <2>3. a \in KernelType
      BY <2>1, <2>2, WritePrev
    <2>4. PICK b : b = [a EXCEPT !.tcb[last].next = t]
      OBVIOUS
    <2>5. b \in KernelType
      BY <2>1, <2>3, <2>4, <1>1, WriteNext
    <2>6. PICK c : c = [b EXCEPT !.queue[q].TAIL = t]
      OBVIOUS
    <2>7. c \in KernelType /\ c.queue[q].TAIL = t
      BY <2>5, <2>6, <1>1, WriteTAIL
    <2>8. Append1(k, t, q) = c
      BY <2>1, <2>2, <2>4, <2>6 DEF Append1
    <2> QED
      BY <1>1, <2>7, <2>8
  <1>4. ASSUME k.queue[q].HEAD # NULL
        PROVE  InsertFirst(k, t, q) \in KernelType /\ InsertFirst(k, t, q).queue[q].TAIL # NULL
    <2>1. PICK h : h = k.queue[q].HEAD /\ h \in Tasks /\ h \in TaskPtr
      BY <1>4, Fields DEF TaskPtr
    <2>2. PICK a : a = [k EXCEPT !.tcb[h].prev = t]
      OBVIOUS
    <2>3. a \in KernelType /\ a.queue = k.queue
      BY <1>1, <2>1, <2>2, WritePrev
    <2>4. PICK b : b = [a EXCEPT !.tcb[t].next = h]
      OBVIOUS
    <2>5. b \in KernelType /\ b.queue = a.queue
      BY <2>1, <2>3, <2>4, WriteNext
    <2>6. PICK c : c = [b EXCEPT !.queue[q].HEAD = t]
      OBVIOUS
    <2>7. c \in KernelType /\ c.queue[q].TAIL = b.queue[q].TAIL
      BY <1>1, <2>5, <2>6, WriteHEAD
    <2>8. InsertFirst(k, t, q) = c
      BY <2>1, <2>2, <2>4, <2>6 DEF InsertFirst
    <2> QED
      BY <2>3, <2>5, <2>7, <2>8
  <1>5. ASSUME NEW s \in Tasks
        PROVE  InsertBefore(k, t, s) \in KernelType /\ InsertBefore(k, t, s).queue[q].TAIL # NULL
    <2>1. PICK p \in TaskPtr : p = k.tcb[s].prev
      BY Fields
    <2>2. CASE p = NULL
      BY <2>1, <2>2 DEF InsertBefore, KernelType
    <2>3. CASE p # NULL
      <3>1. p \in Tasks
        BY <2>3 DEF TaskPtr
      <3>2. PICK a : a = [k EXCEPT !.tcb[t].prev = p]
        OBVIOUS
      <3>3. a \in KernelType /\ a.queue = k.queue
        BY <3>2, WritePrev
      <3>4. PICK b : b = [a EXCEPT !.tcb[t].next = s]
        OBVIOUS
      <3>5. b \in KernelType /\ b.queue = a.queue
        BY <1>1, <3>3, <3>4, WriteNext
      <3>6. PICK c : c = [b EXCEPT !.tcb[p].next = t]
        OBVIOUS
      <3>7. c \in KernelType /\ c.queue = b.queue
        BY <1>1, <3>1, <3>5, <3>6, WriteNext
      <3>8. PICK d : d = [c EXCEPT !.tcb[s].prev = t]
        OBVIOUS
      <3>9. d \in KernelType /\ d.queue = c.queue
        BY <1>1, <3>7, <3>8, WritePrev
      <3>10. InsertBefore(k, t, s) = d
        BY <2>1, <2>3, <3>2, <3>4, <3>6, <3>8 DEF InsertBefore
      <3> QED
        BY <3>3, <3>5, <3>7, <3>9, <3>10
    <2> QED
      BY <2>2, <2>3
  <1> QED
    BY <1>3, <1>4, <1>5

LEMMA FinishTailType ==
    ASSUME NEW k \in KernelType, NEW t \in Tasks, NEW q \in Queues,
           k.queue[q].TAIL # NULL
    PROVE  FinishTail(k, t, q) \in KernelType
  <1>1. PICK last \in Tasks : last = k.queue[q].TAIL
    BY Fields DEF TaskPtr
  <1>2. PICK s \in States : s = IF k.tcb[t].state \in {"BLK_SEND", "SUSPENDED"}
                               THEN k.tcb[last].state ELSE "READY"
    BY Fields DEF States
  <1>3. PICK T \in TCB : T = [k.tcb[last] EXCEPT !.next = NULL, !.state = s]
    <2>1. k.tcb[last] \in TCB /\ NULL \in TaskPtr
      BY DEF KernelType, TaskPtr
    <2> QED
      BY <2>1 DEF TCB
  <1>4. PICK a : a = [k EXCEPT !.queue[q].current_size = Incr(k.queue[q].current_size)]
    OBVIOUS
  <1>5. a \in KernelType
    <2>1. k.queue[q] \in QUEUE /\ Incr(k.queue[q].current_size) \in 0 .. SIZE_MOD - 1
      BY Fields, CountsInRange DEF KernelType
    <2>2. PICK Q \in QUEUE :
            Q = [k.queue[q] EXCEPT !.current_size = Incr(k.queue[q].current_size)]
      BY <2>1 DEF QUEUE
    <2>3. a = [k EXCEPT !.queue[q] = Q]
      BY <1>4, <2>2
    <2> QED
      BY <2>3 DEF KernelType
  <1>6. PICK b : b = [a EXCEPT !.tcb[last] = T]
    OBVIOUS
  <1>7. b \in KernelType
    BY <1>5, <1>6 DEF KernelType
  <1>8. FinishTail(k, t, q) = b
    BY <1>1, <1>2, <1>3, <1>4, <1>6 DEF FinishTail
  <1> QED
    BY <1>7, <1>8

LEMMA PushTailType ==
    ASSUME NEW k \in KernelType, NEW t \in Tasks, NEW q \in Queues
    PROVE  PushTail(k, t, q) \in KernelType
  <1>1. CASE k.queue[q].TAIL = NULL
    <2>1. PICK l : l = [k EXCEPT !.queue[q].HEAD = t, !.queue[q].TAIL = t]
      OBVIOUS
    <2>2. l \in KernelType /\ l.queue[q].TAIL # NULL
      <3>1. t \in TaskPtr /\ t # NULL
        BY Fields DEF TaskPtr
      <3>2. PICK a \in KernelType : a = [k EXCEPT !.queue[q].HEAD = t]
        BY <3>1, WriteHEAD
      <3>3. PICK b : b = [a EXCEPT !.queue[q].TAIL = t]
        OBVIOUS
      <3>4. b \in KernelType /\ b.queue[q].TAIL = t
        BY <3>1, <3>3, WriteTAIL
      <3>5. l = b
        BY <2>1, <3>2, <3>3
      <3> QED
        BY <3>1, <3>4, <3>5
    <2>3. PushTail(k, t, q) = FinishTail(l, t, q)
      BY <1>1, <2>1 DEF PushTail
    <2> QED
      BY <2>2, <2>3, FinishTailType
  <1>2. CASE k.queue[q].TAIL # NULL
    <2>1. PICK s : s = FirstNotBefore(k, q, k.tcb[t].tsk_deadline)
      OBVIOUS
    <2>2. s \in TaskPtr
      BY <2>1 DEF FirstNotBefore, TaskPtr
    <2>3. \/ PushTail(k, t, q) = k
          \/ PushTail(k, t, q) = FinishTail(Append1(k, t, q), t, q)
          \/ k.queue[q].HEAD # NULL /\ PushTail(k, t, q) = FinishTail(InsertFirst(k, t, q), t, q)
          \/ s # NULL /\ PushTail(k, t, q) = FinishTail(InsertBefore(k, t, s), t, q)
      BY <1>2, <2>1, Fields DEF PushTail
    <2> QED
      BY <1>2, <2>2, <2>3, LinkType, FinishTailType DEF TaskPtr
  <1> QED
    BY <1>1, <1>2

----------------------------------------------------------------------------
(***************************************************************************)
(* The scheduler and the system calls.                                     *)
(***************************************************************************)
LEMMA LevelQueues == \A i \in RT_INDEX .. LOWEST_INDEX : ReadyQ(i) \in Queues /\ i \in Prio
  BY DEF Queues, ReadyQueues, Prio, RT_INDEX, LOWEST_INDEX, NULL_INDEX

\* The first non-empty ready queue, when there is one, has a task at its head.
LEMMA FirstLevelHead ==
    ASSUME NEW k \in KernelType, NonEmptyLevels(k) # {}
    PROVE  /\ FirstLevel(k) \in RT_INDEX .. LOWEST_INDEX
           /\ k.queue[ReadyQ(FirstLevel(k))].HEAD \in Tasks
  <1>1. PICK S : S = NonEmptyLevels(k)
    OBVIOUS
  <1>2. S \subseteq 0 .. 4 /\ S # {}
    BY <1>1 DEF NonEmptyLevels, RT_INDEX, LOWEST_INDEX
  <1>3. \E i \in S : \A j \in S : i <= j
    <2>1. S \in SUBSET Nat
      BY <1>2
    <2> QED
      BY <1>2, <2>1, Least
  <1>4. FirstLevel(k) \in NonEmptyLevels(k)
    BY <1>1, <1>3 DEF FirstLevel
  <1> QED
    BY <1>4, LevelQueues, Fields DEF NonEmptyLevels, TaskPtr

LEMMA DispatchType ==
    ASSUME NEW k \in KernelType
    PROVE  Dispatch(k) \in KernelType
  <1>1. CASE NonEmptyLevels(k) = {}
    <2>1. TID_NULL \in Tasks
      BY DEF TID_NULL, Tasks
    <2> QED
      BY <1>1, <2>1, OneTask DEF Dispatch
  <1>2. CASE NonEmptyLevels(k) # {}
    <2>1. PICK q : q = ReadyQ(FirstLevel(k))
      OBVIOUS
    <2>2. PICK t \in Tasks : t = k.queue[q].HEAD
      BY <1>2, <2>1, FirstLevelHead
    <2>3. Dispatch(k) = [PopHead(k, q) EXCEPT !.cur = t]
      BY <1>2, <2>1, <2>2 DEF Dispatch
    <2>4. PICK x \in KernelType : x = PopHead(k, q)
      BY PopHeadType
    <2>5. [x EXCEPT !.cur = t] \in KernelType
      BY <2>4, OneTask
    <2> QED
      BY <2>3, <2>4, <2>5
  <1> QED
    BY <1>1, <1>2

LEMMA RunType ==
    ASSUME NEW k \in KernelType
    PROVE  Run(k) \in KernelType
  <1>1. k.cur \in Tasks /\ "RUNNING" \in States
    BY Fields DEF States
  <1> QED
    BY <1>1, OneTask DEF Run

LEMMA RunNewType ==
    ASSUME NEW k \in KernelType
    PROVE  RunNew(k) \in KernelType
  <1>1. PICK old \in Tasks : old = k.cur
    BY Fields
  <1>2. PICK d \in KernelType : d = Dispatch(k)
    BY DispatchType
  <1>3. PICK r \in KernelType : r = Run(d)
    BY <1>2, RunType
  <1>4. PICK s \in States : s = IF r.tcb[old].state \in Parked THEN r.tcb[old].state ELSE "READY"
    BY <1>3, Fields DEF States
  <1>5. [r EXCEPT !.tcb[old].state = s] \in KernelType
    BY <1>3, OneTask
  <1>6. RunNew(k) \in {k, d, [r EXCEPT !.tcb[old].state = s]}
    BY <1>1, <1>2, <1>3, <1>4 DEF RunNew
  <1> QED
    BY <1>2, <1>5, <1>6

LEMMA PushReadyType ==
    ASSUME NEW k \in KernelType, NEW t \in Tasks
    PROVE  PushHeadReady(k, t) \in KernelType /\ PushTailReady(k, t) \in KernelType
  <1>1. CASE InBounds(k.tcb[t].prio)
    <2>1. ReadyQ(k.tcb[t].prio) \in Queues
      BY <1>1, LevelQueues, Fields
         DEF InBounds, Prio, RT_INDEX, LOWEST_INDEX, NULL_INDEX
    <2> QED
      BY <1>1, <2>1, PushHeadType, PushTailType DEF PushHeadReady, PushTailReady
  <1>2. CASE ~InBounds(k.tcb[t].prio)
    BY <1>2, OneTask DEF PushHeadReady, PushTailReady
  <1> QED
    BY <1>1, <1>2

LEMMA CreatedType ==
    ASSUME NEW T \in TCB, NEW prio \in Prio, NEW priv \in BOOLEAN
    PROVE  Created(T, prio, priv) \in TCB
  <1>1. "READY" \in States
    BY DEF States
  <1> QED
    BY <1>1 DEF Created, TCB

LEMMA CreateNewType ==
    ASSUME NEW k \in KernelType, NEW t \in Tasks, NEW prio \in Prio, NEW priv \in BOOLEAN
    PROVE  CreateNew(k, t, prio, priv) \in KernelType
  <1>1. k.tcb[t] \in TCB
    BY DEF KernelType
  <1>2. PICK T \in TCB : T = Created(k.tcb[t], prio, priv)
    BY <1>1, CreatedType
  <1>3. CreateNew(k, t, prio, priv) = [k EXCEPT !.tcb[t] = T]
    BY <1>2 DEF CreateNew
  <1> QED
    BY <1>2, <1>3 DEF KernelType

\* k_tsk_set_prio, its four ways.
LEMMA SetPrioType ==
    ASSUME NEW k \in KernelType, NEW t \in Tasks, NEW prio \in Prio,
           k.tcb[t].prio # NULL_INDEX
    PROVE  /\ SetPrioBlocked(k, t, prio) \in KernelType
           /\ SetPrioPreempt(k, t, prio) \in KernelType
           /\ SetPrioSelf(k, prio) \in KernelType
           /\ SetPrioMove(k, t, prio) \in KernelType
  <1>1. SetPrioBlocked(k, t, prio) \in KernelType
    BY OneTask DEF SetPrioBlocked
  <1>2. PICK x \in KernelType : x = PopTask([k EXCEPT !.tcb[t].prio = prio], t, ReadyQ(k.tcb[t].prio))
    <2>1. ReadyQ(k.tcb[t].prio) \in Queues
      BY LevelQueues, Fields DEF Prio, RT_INDEX, LOWEST_INDEX, NULL_INDEX
    <2>2. [k EXCEPT !.tcb[t].prio = prio] \in KernelType
      BY OneTask
    <2> QED
      BY <2>1, <2>2, PopTaskType
  <1>3. SetPrioPreempt(k, t, prio) \in KernelType
    <2>1. PICK y \in KernelType : y = PushHeadReady(x, k.cur)
      BY <1>2, PushReadyType, Fields
    <2>2. PICK z \in KernelType : z = [y EXCEPT !.cur = t]
      BY <2>1, OneTask
    <2> QED
      BY <1>2, <2>1, <2>2, RunType DEF SetPrioPreempt
  <1>4. SetPrioMove(k, t, prio) \in KernelType
    BY <1>2, PushReadyType DEF SetPrioMove
  <1>5. SetPrioSelf(k, prio) \in KernelType
    <2>1. PICK c \in Tasks : c = k.cur
      BY Fields
    <2>2. PICK low \in KernelType : low = [k EXCEPT !.tcb[c].prio = prio]
      BY OneTask
    <2>3. PICK high \in Tasks : high = IF NonEmptyLevels(k) = {} THEN TID_NULL
                                      ELSE k.queue[ReadyQ(FirstLevel(k))].HEAD
      BY FirstLevelHead DEF TID_NULL, Tasks
    <2>4. PICK x1 \in KernelType : x1 = PopHead(low, ReadyQ(low.tcb[high].prio))
      BY <2>2, PopHeadType
    <2>5. PICK y \in KernelType : y = [x1 EXCEPT !.cur = high]
      BY <2>4, OneTask
    <2>6. PICK z \in KernelType : z = Run(PushTailReady(y, c))
      BY <2>5, PushReadyType, RunType
    <2>7. SetPrioSelf(k, prio) \in {k, low, z}
      BY <2>1, <2>2, <2>3, <2>4, <2>5, <2>6 DEF SetPrioSelf
    <2> QED
      BY <2>2, <2>6, <2>7
  <1> QED
    BY <1>1, <1>3, <1>4, <1>5

----------------------------------------------------------------------------
(***************************************************************************)
(* The theorem.                                                            *)
(***************************************************************************)
LEMMA TypeOKKernel ==
    ASSUME TypeOK
    PROVE  /\ Kernel \in KernelType
           /\ Kernel.tcb = tcb /\ Kernel.queue = queue /\ Kernel.cur = gp_current_task
  BY DEF TypeOK, KernelType, Kernel

\* A step to a well-typed memory, the rest of the state well typed.
LEMMA BecomesTyped ==
    ASSUME NEW k \in KernelType, Becomes(k),
           g_num_active_tasks' \in Nat, booted' \in 0 .. Finished, exited' \subseteq Tasks
    PROVE  TypeOK'
  BY DEF Becomes, KernelType, TypeOK

LEMMA InitTypeOK == Init => TypeOK
  <1> SUFFICES ASSUME Init PROVE TypeOK
    OBVIOUS
  <1>1. ZeroTCB \in TCB
    BY DEF ZeroTCB, TCB, States, Prio, TaskPtr, RT_INDEX, NULL_INDEX
  <1>2. Created(ZeroTCB, NULL_INDEX, FALSE) \in TCB
    <2>1. NULL_INDEX \in Prio /\ FALSE \in BOOLEAN
      BY DEF Prio, RT_INDEX, NULL_INDEX
    <2> QED
      BY <1>1, <2>1, CreatedType
  <1>3. EmptyQUEUE \in QUEUE
    BY DEF EmptyQUEUE, QUEUE, TaskPtr
  <1>4. TID_NULL \in Tasks
    BY DEF TID_NULL, Tasks
  <1>5. tcb \in [Tasks -> TCB]
    BY <1>1, <1>2 DEF Init
  <1>6. queue \in [Queues -> QUEUE]
    BY <1>3 DEF Init
  <1>7. 0 \in 0 .. Finished
    BY DEF Finished
  <1> QED
    BY <1>4, <1>5, <1>6, <1>7 DEF Init, TypeOK

LEMMA ReservedFacts ==
    /\ Reserved \in Nat /\ Reserved >= 1 /\ Reserved < MAX_TASKS
    /\ FirstReserved \in Tasks /\ FirstReserved >= 1
    /\ \A i \in 1 .. Reserved : SystemTids[i] \in Tasks
  BY SystemTidsAssumption DEF Reserved, FirstReserved, Tasks

LEMMA BootType ==
    ASSUME TypeOK, Boot
    PROVE  TypeOK'
  <1>1. /\ g_num_active_tasks \in Nat /\ g_num_active_tasks + 1 \in Nat
        /\ booted \in 0 .. MAX_TASKS + 1 /\ Finished = MAX_TASKS + 1 /\ exited \subseteq Tasks
    BY DEF TypeOK, Finished
  <1>2. \A i \in RT_INDEX .. LOWEST_INDEX : i \in Prio
    BY LevelQueues
  <1>3. CASE BootSystemTask
    <2>1. SystemTids[booted + 1] \in Tasks /\ booted + 1 \in 0 .. Finished
      BY <1>1, <1>3, ReservedFacts DEF BootSystemTask
    <2>2. HIGH_INDEX \in Prio /\ (booted = 0) \in BOOLEAN
      BY DEF Prio, HIGH_INDEX, RT_INDEX, NULL_INDEX
    <2>3. PICK k \in KernelType :
            k = PushTailReady(CreateNew(Kernel, SystemTids[booted + 1], HIGH_INDEX, booted = 0),
                              SystemTids[booted + 1])
      BY <2>1, <2>2, TypeOKKernel, CreateNewType, PushReadyType
    <2>4. Becomes(k)
      BY <1>3, <2>3 DEF BootSystemTask
    <2> QED
      BY <1>1, <1>3, <2>1, <2>4, BecomesTyped DEF BootSystemTask
  <1>4. CASE BootTask
    <2>1. PICK t \in Tasks : t = booted - Reserved + 1
      BY <1>1, <1>4, ReservedFacts DEF BootTask, Tasks
    <2>2. booted + 1 \in 0 .. Finished
      BY <1>1, <1>4, ReservedFacts DEF BootTask
    <2>3. CASE \E info \in BootInfos :
                  /\ Becomes(PushTailReady(CreateNew(Kernel, t, info.prio, info.priv), t))
                  /\ g_num_active_tasks' = g_num_active_tasks + 1
      <3>1. PICK info \in BootInfos :
                  /\ Becomes(PushTailReady(CreateNew(Kernel, t, info.prio, info.priv), t))
                  /\ g_num_active_tasks' = g_num_active_tasks + 1
        BY <2>3
      <3>2. info.prio \in Prio /\ info.priv \in BOOLEAN
        BY <1>2, BootInfosAssumption
      <3>3. PICK k \in KernelType :
              k = PushTailReady(CreateNew(Kernel, t, info.prio, info.priv), t)
        BY <3>2, TypeOKKernel, CreateNewType, PushReadyType
      <3> QED
        BY <1>1, <1>4, <2>2, <3>1, <3>3, BecomesTyped DEF BootTask
    <2>4. CASE UNCHANGED <<kernelVars, g_num_active_tasks>>
      BY <1>4, <2>2, <2>4 DEF BootTask, TypeOK, kernelVars
    <2> QED
      BY <1>4, <2>1, <2>3, <2>4 DEF BootTask
  <1>5. CASE BootDone
    <2>1. PICK k \in KernelType : k = Run(Dispatch(Kernel))
      BY TypeOKKernel, DispatchType, RunType
    <2>2. Finished \in 0 .. Finished
      BY <1>1
    <2> QED
      BY <1>1, <1>5, <2>1, <2>2, BecomesTyped DEF BootDone
  <1> QED
    BY <1>3, <1>4, <1>5 DEF Boot

LEMMA YieldType ==
    ASSUME TypeOK, Yield
    PROVE  TypeOK'
  <1>1. PushTailReady(Kernel, gp_current_task) \in KernelType
    BY TypeOKKernel, PushReadyType DEF TypeOK
  <1>2. PICK k \in KernelType :
          k = RunNew(IF Cur.prio = NULL_INDEX THEN Kernel
                     ELSE PushTailReady(Kernel, gp_current_task))
    BY <1>1, TypeOKKernel, RunNewType
  <1> QED
    BY <1>2, BecomesTyped DEF Yield, TypeOK

LEMMA CreateType ==
    ASSUME TypeOK, NEW prio \in CallPrios, Create(prio)
    PROVE  TypeOK'
  <1>1. PICK t \in Tasks : t = NewTid
    <2>1. CASE FreeSlots = {}
      BY <2>1, ReservedFacts DEF NewTid
    <2>2. CASE FreeSlots # {}
      <3>1. FreeSlots \subseteq Tasks /\ FreeSlots \in SUBSET Nat
        BY ReservedFacts DEF FreeSlots, Tasks, FirstReserved
      <3>2. \E i \in FreeSlots : \A j \in FreeSlots : i <= j
        BY <2>2, <3>1, Least
      <3> QED
        BY <2>2, <3>1, <3>2 DEF NewTid
    <2> QED
      BY <2>1, <2>2
  <1>2. PICK k \in KernelType : k = CreateNew(Kernel, t, prio, FALSE)
    BY CallPriosAssumption, TypeOKKernel, CreateNewType
  <1>3. PICK a \in KernelType : a = [k EXCEPT !.cur = t]
    BY <1>2, OneTask
  <1>4. PICK p \in KernelType : p = PushHeadReady(Run(a), gp_current_task)
    BY <1>3, RunType, PushReadyType DEF TypeOK
  <1>5. PushTailReady(k, t) \in KernelType
    BY <1>2, PushReadyType
  <1>6. PICK r \in KernelType : r = IF prio >= Cur.prio THEN PushTailReady(k, t) ELSE p
    BY <1>4, <1>5
  <1>7. Becomes(r) /\ UNCHANGED <<g_num_active_tasks, booted, exited>>
    BY <1>1, <1>2, <1>3, <1>4, <1>6 DEF Create
  <1> QED
    BY <1>6, <1>7, BecomesTyped DEF TypeOK

LEMMA ExitType ==
    ASSUME TypeOK, Exit
    PROVE  TypeOK'
  <1>1. PICK k \in KernelType : k = Run(Dispatch(Kernel))
    BY TypeOKKernel, DispatchType, RunType
  <1> QED
    BY <1>1, BecomesTyped DEF Exit, TypeOK

LEMMA SetPrioStepType ==
    ASSUME TypeOK, NEW t \in Tasks, NEW prio \in CallPrios, SetPrio(t, prio)
    PROVE  TypeOK'
  <1>1. prio \in Prio /\ Kernel.tcb[t].prio # NULL_INDEX
    BY CallPriosAssumption, TypeOKKernel DEF SetPrio, MaySetPrio
  <1>2. PICK k : k = IF tcb[t].state \in {"BLK_RECV", "BLK_SEND"} \/ tcb[t].real_time
                     THEN SetPrioBlocked(Kernel, t, prio)
                     ELSE IF tcb[t].prio = prio THEN Kernel
                     ELSE IF t = gp_current_task THEN SetPrioSelf(Kernel, prio)
                     ELSE IF Cur.prio > prio THEN SetPrioPreempt(Kernel, t, prio)
                     ELSE SetPrioMove(Kernel, t, prio)
    OBVIOUS
  <1>3. k \in KernelType
    BY <1>1, <1>2, TypeOKKernel, SetPrioType
  <1>4. Becomes(k)
    BY <1>2 DEF SetPrio
  <1> QED
    BY <1>3, <1>4, BecomesTyped DEF SetPrio, TypeOK

\* Whatever tasks call, in any order and with any arguments, for every number
\* of tasks: each link of a TCB and each end of a queue is NULL or a task, no
\* state or priority is made up, and gp_current_task is always a task.
THEOREM TaskTypes == Spec => []TypeOK
  <1>1. ASSUME TypeOK, [Next]_taskVars PROVE TypeOK'
    <2>1. CASE Boot
      BY <1>1, <2>1, BootType
    <2>2. CASE Calls
      BY <1>1, <2>2, YieldType, CreateType, ExitType DEF Calls
    <2>3. CASE \E t \in Tasks, p \in CallPrios : SetPrio(t, p)
      BY <1>1, <2>3, SetPrioStepType
    <2>4. CASE UNCHANGED taskVars
      BY <1>1, <2>4 DEF TypeOK, taskVars, kernelVars
    <2> QED
      BY <1>1, <2>1, <2>2, <2>3, <2>4 DEF Next
  <1> QED
    BY InitTypeOK, <1>1, PTL DEF Spec

\* The same of the calls the model checker explores.
THEOREM CarefulTaskTypes == CarefulSpec => []TypeOK
  <1>1. [CarefulNext]_taskVars => [Next]_taskVars
    BY DEF CarefulNext, Next
  <1> QED
    BY <1>1, TaskTypes, PTL DEF CarefulSpec, Spec

----------------------------------------------------------------------------
(***************************************************************************)
(* The inductive invariant.  The lemmas are about one kernel memory k and  *)
(* the one a call leaves: R is the set of the tasks that are on no queue   *)
(* although they live, which are the current one, the null task and those  *)
(* that have exited.                                                       *)
(***************************************************************************)
Blocked == {"BLK_RECV", "BLK_SEND"}

\* A task of R is on no queue, a READY one is on the queue of its priority, one that
\* is blocked on send on the waiting list of a mailbox, and the others on none.
Settled(k, R, u) ==
    IF u \in R THEN Loose(k, u)
    ELSE \/ k.tcb[u].state \in {"DORMANT", "BLK_RECV"} /\ Loose(k, u)
         \/ /\ k.tcb[u].state = "READY" /\ InBounds(k.tcb[u].prio)
            /\ u \in TasksOf(k, ReadyQ(k.tcb[u].prio))
         \/ k.tcb[u].state = "BLK_SEND" /\ \E m \in Mailboxes : u \in TasksOf(k, WaitQ(m))

\* Every queue is a proper list, and every task but those of X is settled.
PlacedBut(k, R, X) ==
    /\ Memory(k) /\ Lists(k) /\ k.ub = FALSE /\ TID_NULL \in R
    /\ \A u \in Tasks : k.tcb[u].real_time = FALSE
    /\ \A u \in Tasks \ X : Settled(k, R, u)
Placed(k, R) == PlacedBut(k, R, {})

\* A task on no queue has no successor: push_head does not write next when the
\* queue is empty.
Cleared(k, S) == \A u \in Tasks \ S : Loose(k, u) => k.tcb[u].next = NULL

\* Only the null task has the null priority.
Levels(k) == /\ k.tcb[TID_NULL].prio = NULL_INDEX
             /\ \A u \in Tasks \ {TID_NULL} : k.tcb[u].state = "DORMANT" \/ InBounds(k.tcb[u].prio)

\* Before k_tsk_init has finished, after b creations.
Starting(k, b) ==
    /\ Placed(k, {TID_NULL}) /\ Cleared(k, {}) /\ Levels(k)
    /\ k.cur = TID_NULL /\ k.tcb[TID_NULL].state = "READY"
    /\ \A i \in 1 .. Reserved : i > b => k.tcb[SystemTids[i]].state = "DORMANT"
    /\ \A u \in Tasks : u > b - Reserved /\ u < FirstReserved /\ u # TID_NULL
                        => k.tcb[u].state = "DORMANT"

\* After it, when the tasks of ex have exited.
Live(k, ex) == ex \cup {k.cur, TID_NULL}
Scheduled(k, ex) ==
    /\ Placed(k, Live(k, ex)) /\ Cleared(k, {}) /\ Levels(k)
    /\ ex \subseteq Tasks /\ k.cur \notin ex /\ TID_NULL \notin ex
    /\ \A u \in ex \cup {k.cur} : k.tcb[u].state = "RUNNING"
    /\ k.cur # TID_NULL => k.tcb[TID_NULL].state = "READY"

\* A READY task of higher priority than the current one.
Outranking(k, u) == k.tcb[u].state = "READY" /\ k.tcb[u].prio < k.tcb[k.cur].prio
Quiet(k)         == \A u \in Tasks : ~Outranking(k, u)

\* The queues are in order, and the scheduler has chosen well.
Orderly == /\ TypeOK
           /\ Booting => Starting(Kernel, booted) /\ exited = {}
           /\ ~Booting => Scheduled(Kernel, exited)
IInv == Orderly /\ (~Booting => Quiet(Kernel))

----------------------------------------------------------------------------
(***************************************************************************)
(* Facts about one memory.                                                 *)
(***************************************************************************)
LEMMA ReadyQueueIds ==
    /\ \A i \in Prio : InBounds(i) => i \in RT_INDEX .. LOWEST_INDEX /\ ReadyQ(i) \in Queues
    /\ \A i, j : ReadyQ(i) = ReadyQ(j) => i = j
    /\ \A i \in RT_INDEX .. LOWEST_INDEX : ReadyQ(i) \in Queues /\ i \in Prio /\ InBounds(i)
    /\ \A i \in Prio : i \in Int /\ i <= NULL_INDEX /\ (InBounds(i) <=> i < NULL_INDEX)
  <1>1. \A i \in RT_INDEX .. LOWEST_INDEX : ReadyQ(i) \in Queues /\ i \in Prio
    BY LevelQueues
  <1>2. \A i \in Prio : InBounds(i) => i \in RT_INDEX .. LOWEST_INDEX
    BY DEF InBounds, Prio, RT_INDEX, LOWEST_INDEX, NULL_INDEX
  <1>3. \A i, j : ReadyQ(i) = ReadyQ(j) => i = j
    BY DEF ReadyQ
  <1>4. \A i \in RT_INDEX .. LOWEST_INDEX : InBounds(i)
    BY DEF InBounds, RT_INDEX, LOWEST_INDEX, NULL_INDEX
  <1>5. \A i \in Prio : i \in Int /\ i <= NULL_INDEX /\ (InBounds(i) <=> i < NULL_INDEX)
    BY DEF InBounds, Prio, RT_INDEX, NULL_INDEX
  <1> QED
    BY <1>1, <1>2, <1>3, <1>4, <1>5

LEMMA NullTask == TID_NULL \in Tasks
  BY DEF TID_NULL, Tasks

LEMMA WaitQueueIds ==
    /\ \A m \in Mailboxes : WaitQ(m) \in Queues
    /\ \A m, n : WaitQ(m) = WaitQ(n) => m = n
    /\ \A m, i : WaitQ(m) # ReadyQ(i)
  <1>1. \A m \in Mailboxes : WaitQ(m) \in Queues
    BY DEF Queues, WaitQueues
  <1>2. \A m, n : WaitQ(m) = WaitQ(n) => m = n
    BY DEF WaitQ
  <1>3. \A m, i : WaitQ(m) # ReadyQ(i)
    BY DEF WaitQ, ReadyQ
  <1> QED
    BY <1>1, <1>2, <1>3

\* Who is on a queue: a READY task, and the queue is that of its priority, or a
\* task blocked on send, and it is a waiting list.
LEMMA OnQueue ==
    ASSUME NEW k, NEW R, Placed(k, R), NEW q \in Queues, NEW u \in TasksOf(k, q)
    PROVE  /\ u \in Tasks \ R
           /\ \/ /\ k.tcb[u].state = "READY" /\ InBounds(k.tcb[u].prio)
                 /\ q = ReadyQ(k.tcb[u].prio)
              \/ k.tcb[u].state = "BLK_SEND" /\ \E m \in Mailboxes : q = WaitQ(m)
  <1>1. Memory(k) /\ Lists(k) /\ \A v \in Tasks : Settled(k, R, v)
    BY DEF Placed, PlacedBut
  <1>2. u \in Tasks
    BY <1>1, LinkedFacts DEF Lists
  <1>3. ~Loose(k, u)
    BY DEF Loose
  <1>4. u \notin R /\ Settled(k, R, u) /\ k.tcb[u].state \in {"READY", "BLK_SEND"}
    BY <1>1, <1>2, <1>3 DEF Settled
  <1>5. CASE k.tcb[u].state = "READY"
    <2>1. InBounds(k.tcb[u].prio) /\ u \in TasksOf(k, ReadyQ(k.tcb[u].prio))
      BY <1>4, <1>5 DEF Settled
    <2>2. ReadyQ(k.tcb[u].prio) \in Queues
      BY <1>1, <1>2, <2>1, MemoryFields, ReadyQueueIds
    <2>3. q = ReadyQ(k.tcb[u].prio)
      BY <1>1, <2>1, <2>2 DEF Lists
    <2> QED
      BY <1>2, <1>4, <1>5, <2>1, <2>3
  <1>6. CASE k.tcb[u].state = "BLK_SEND"
    <2>1. PICK m \in Mailboxes : u \in TasksOf(k, WaitQ(m))
      BY <1>4, <1>6 DEF Settled
    <2>2. q = WaitQ(m)
      BY <1>1, <2>1, WaitQueueIds DEF Lists
    <2> QED
      BY <1>2, <1>4, <1>6, <2>2
  <1> QED
    BY <1>4, <1>5, <1>6

\* Who is on a ready queue.
LEMMA OnReadyQueue ==
    ASSUME NEW k, NEW R, Placed(k, R), NEW i \in RT_INDEX .. LOWEST_INDEX,
           NEW u \in TasksOf(k, ReadyQ(i))
    PROVE  u \in Tasks \ R /\ k.tcb[u].state = "READY" /\ k.tcb[u].prio = i
  <1>1. ReadyQ(i) \in Queues
    BY ReadyQueueIds
  <1>2. /\ u \in Tasks \ R /\ k.tcb[u].state = "READY"
        /\ ReadyQ(i) = ReadyQ(k.tcb[u].prio)
    BY <1>1, OnQueue, WaitQueueIds
  <1> QED
    BY <1>2, ReadyQueueIds

\* Where a READY task is.
LEMMA ReadyTask ==
    ASSUME NEW k, NEW R, Placed(k, R), NEW u \in Tasks \ R, k.tcb[u].state = "READY"
    PROVE  /\ InBounds(k.tcb[u].prio)
           /\ k.tcb[u].prio \in RT_INDEX .. LOWEST_INDEX
           /\ ReadyQ(k.tcb[u].prio) \in Queues /\ u \in TasksOf(k, ReadyQ(k.tcb[u].prio))
  <1>1. Settled(k, R, u) /\ Memory(k)
    BY DEF Placed, PlacedBut
  <1>2. k.tcb[u].prio \in Prio
    BY <1>1, MemoryFields
  <1> QED
    BY <1>1, <1>2, ReadyQueueIds DEF Settled

\* Where a task is goes by its state, its priority and the queues alone.
LEMMA SettledAlike ==
    ASSUME NEW k, NEW l, NEW R, NEW S, NEW u \in Tasks, Memory(k), Settled(k, R, u),
           u \in R <=> u \in S,
           l.tcb[u].state = k.tcb[u].state, l.tcb[u].prio = k.tcb[u].prio,
           \A q \in Queues : u \in TasksOf(l, q) <=> u \in TasksOf(k, q)
    PROVE  Settled(l, S, u)
  <1>1. Loose(l, u) <=> Loose(k, u)
    BY DEF Loose
  <1>2. \A m \in Mailboxes : u \in TasksOf(l, WaitQ(m)) <=> u \in TasksOf(k, WaitQ(m))
    BY WaitQueueIds
  <1>3. InBounds(k.tcb[u].prio) => (u \in TasksOf(l, ReadyQ(k.tcb[u].prio))
                                    <=> u \in TasksOf(k, ReadyQ(k.tcb[u].prio)))
    BY MemoryFields, ReadyQueueIds
  <1> QED
    BY <1>1, <1>2, <1>3 DEF Settled

----------------------------------------------------------------------------
(***************************************************************************)
(* Steps of one memory to another.                                         *)
(***************************************************************************)
\* The rest of the memory, and the waiting lists, are as they were.
Aside(l, k) == /\ DOMAIN l = DOMAIN k
               /\ \A f \in DOMAIN k : f \notin {"tcb", "queue", "cur", "ub"} => l[f] = k[f]
               /\ \A m \in Mailboxes : Nodes(l, WaitQ(m)) = Nodes(k, WaitQ(m))

LEMMA AsideSame == \A k : Aside(k, k)
  BY DEF Aside

LEMMA AsideSteps ==
    ASSUME NEW k, NEW j, NEW l, Aside(j, k), Aside(l, j)
    PROVE  Aside(l, k)
  BY DEF Aside

\* Beside that, nobody blocks and nobody wakes up.
Undisturbed(k, l) ==
    /\ Aside(l, k)
    /\ \A u \in Tasks : l.tcb[u].state # k.tcb[u].state =>
          l.tcb[u].state \notin Blocked /\ k.tcb[u].state \notin Blocked

LEMMA UndisturbedSteps ==
    ASSUME NEW k, NEW j, NEW l, Undisturbed(k, j), Undisturbed(j, l)
    PROVE  Undisturbed(k, l)
  BY AsideSteps DEF Undisturbed

\* Only the state of t changes, apart from links, and no other tasks change places.
Changed(l, k, t) ==
    /\ \A u \in Tasks : l.tcb[u].prio = k.tcb[u].prio /\ l.tcb[u].real_time = k.tcb[u].real_time
                        /\ l.tcb[u].priv = k.tcb[u].priv
    /\ \A u \in Tasks : u # t => l.tcb[u].state = k.tcb[u].state
    /\ \A q \in Queues, u, v \in Tasks \ {t} : Precedes(l, q, u, v) <=> Precedes(k, q, u, v)

\* Taking t off a queue, or putting it on one, changes where t is and nobody else.
LEMMA ShiftedLoose ==
    ASSUME NEW k, NEW l, NEW q \in Queues, NEW t \in Tasks, NEW S, Lists(k),
           Shifted(l, k, q, t, S)
    PROVE  /\ S = TasksOf(k, q) \ {t} /\ t \in TasksOf(k, q) => Loose(l, t)
           /\ S \in {TasksOf(k, q) \ {t}, TasksOf(k, q) \cup {t}} =>
                /\ \A r \in Queues, u \in Tasks : u # t => (u \in TasksOf(l, r) <=> u \in TasksOf(k, r))
                /\ \A u \in Tasks : u # t => (Loose(l, u) <=> Loose(k, u))
           /\ l.ub = k.ub /\ l.cur = k.cur
           /\ Changed(l, k, t)
           /\ (\E i : q = ReadyQ(i)) => Aside(l, k)
  <1>1. TasksOf(l, q) = S /\ \A r \in Queues : r # q => TasksOf(l, r) = TasksOf(k, r)
    BY DEF Shifted
  <1>2. ASSUME S = TasksOf(k, q) \ {t}, t \in TasksOf(k, q) PROVE Loose(l, t)
    <2>1. \A r \in Queues : r # q => t \notin TasksOf(k, r)
      BY <1>2 DEF Lists
    <2> QED
      BY <1>1, <1>2, <2>1 DEF Loose
  <1>3. ASSUME S \in {TasksOf(k, q) \ {t}, TasksOf(k, q) \cup {t}}
        PROVE  \A r \in Queues, u \in Tasks : u # t => (u \in TasksOf(l, r) <=> u \in TasksOf(k, r))
    BY <1>1, <1>3
  <1>4. l.ub = k.ub /\ l.cur = k.cur
    BY DEF Shifted, SameRest
  <1>5. Changed(l, k, t)
    BY DEF Shifted, SameTask, Changed
  <1>6. ASSUME NEW i, q = ReadyQ(i) PROVE Aside(l, k)
    <2>1. \A m \in Mailboxes : Nodes(l, WaitQ(m)) = Nodes(k, WaitQ(m))
      BY <1>6, WaitQueueIds DEF Shifted
    <2> QED
      BY <2>1 DEF Shifted, SameRest, Aside
  <1> QED
    BY <1>2, <1>3, <1>4, <1>5, <1>6 DEF Loose

\* t taken off its queue.
Taken(l, k, R, t) ==
    /\ Placed(l, R \cup {t}) /\ l.cur = k.cur /\ Changed(l, k, t)
    /\ Cleared(k, {}) => Cleared(l, {t})
    /\ Cleared(k, {}) /\ l.tcb[t].next = NULL => Cleared(l, {})

LEMMA TakenPlaced ==
    ASSUME NEW k, NEW R, NEW q \in Queues, NEW t \in Tasks, PlacedBut(k, R, {t}),
           t \in TasksOf(k, q), NEW l, Shifted(l, k, q, t, TasksOf(k, q) \ {t})
    PROVE  Taken(l, k, R, t) /\ ((\E i : q = ReadyQ(i)) => Aside(l, k))
  <1>1. /\ Memory(k) /\ Lists(k) /\ k.ub = FALSE /\ TID_NULL \in R
        /\ \A u \in Tasks : k.tcb[u].real_time = FALSE
        /\ \A u \in Tasks \ {t} : Settled(k, R, u)
    BY DEF PlacedBut
  <1>2. /\ Loose(l, t)
        /\ \A r \in Queues, u \in Tasks : u # t => (u \in TasksOf(l, r) <=> u \in TasksOf(k, r))
        /\ \A u \in Tasks : u # t => (Loose(l, u) <=> Loose(k, u))
        /\ l.ub = k.ub /\ l.cur = k.cur /\ Changed(l, k, t)
        /\ (\E i : q = ReadyQ(i)) => Aside(l, k)
    <2>1. PICK S : S = TasksOf(k, q) \ {t}
      OBVIOUS
    <2>2. Shifted(l, k, q, t, S)
      BY <2>1
    <2>3. (\E i : q = ReadyQ(i)) => Aside(l, k)
      BY <1>1, <2>2, ShiftedLoose
    <2>4. l.ub = k.ub /\ l.cur = k.cur /\ Changed(l, k, t)
      BY <1>1, <2>2, ShiftedLoose
    <2>5. Loose(l, t)
      BY <1>1, <2>1, <2>2, ShiftedLoose
    <2>6. S \in {TasksOf(k, q) \ {t}, TasksOf(k, q) \cup {t}}
      BY <2>1
    <2>7. /\ \A r \in Queues, u \in Tasks : u # t => (u \in TasksOf(l, r) <=> u \in TasksOf(k, r))
          /\ \A u \in Tasks : u # t => (Loose(l, u) <=> Loose(k, u))
      BY <1>1, <2>2, <2>6, ShiftedLoose
    <2> QED
      BY <2>3, <2>4, <2>5, <2>7
  <1>3. Memory(l) /\ Lists(l)
    BY DEF Shifted
  <1>4. \A u \in Tasks : l.tcb[u].real_time = FALSE
    BY <1>1, <1>2 DEF Changed
  <1>5. ASSUME NEW u \in Tasks PROVE Settled(l, R \cup {t}, u)
    <2>1. CASE u = t
      BY <1>2, <2>1 DEF Settled
    <2>2. CASE u # t
      <3>1. Settled(k, R, u) /\ \A r \in Queues : u \in TasksOf(l, r) <=> u \in TasksOf(k, r)
        BY <1>1, <1>2, <2>2
      <3>2. l.tcb[u].state = k.tcb[u].state /\ l.tcb[u].prio = k.tcb[u].prio
        BY <1>2, <2>2 DEF Changed
      <3> QED
        BY <1>1, <2>2, <3>1, <3>2, SettledAlike
    <2> QED
      BY <2>1, <2>2
  <1>6. Placed(l, R \cup {t})
    BY <1>1, <1>2, <1>3, <1>4, <1>5 DEF Placed, PlacedBut
  <1>7. ASSUME Cleared(k, {}), NEW u \in Tasks, u # t, Loose(l, u)
        PROVE  l.tcb[u].next = NULL
    <2>1. Loose(k, u) /\ u \notin TasksOf(k, q)
      BY <1>2, <1>7 DEF Loose
    <2>2. l.tcb[u] = k.tcb[u]
      BY <1>7, <2>1 DEF Shifted
    <2> QED
      BY <1>7, <2>1, <2>2 DEF Cleared
  <1> QED
    BY <1>2, <1>6, <1>7 DEF Cleared, Taken

\* t put on the queue of its priority, or on a waiting list.
LEMMA PutPlaced ==
    ASSUME NEW k, NEW R, Placed(k, R), NEW t \in R, t \in Tasks, t # TID_NULL,
           NEW q \in Queues, NEW l, Shifted(l, k, q, t, TasksOf(k, q) \cup {t}),
           \/ q = ReadyQ(k.tcb[t].prio) /\ InBounds(k.tcb[t].prio) /\ l.tcb[t].state = "READY"
           \/ (\E m \in Mailboxes : q = WaitQ(m)) /\ l.tcb[t].state = "BLK_SEND"
    PROVE  /\ Placed(l, R \ {t}) /\ l.cur = k.cur /\ Changed(l, k, t)
           /\ Cleared(k, {t}) => Cleared(l, {})
           /\ (\E i : q = ReadyQ(i)) => Aside(l, k)
  <1>1. /\ Memory(k) /\ Lists(k) /\ k.ub = FALSE /\ TID_NULL \in R
        /\ \A u \in Tasks : k.tcb[u].real_time = FALSE
        /\ \A u \in Tasks : Settled(k, R, u)
    BY DEF Placed, PlacedBut
  <1>2. q \in Queues
    OBVIOUS
  <1>3. /\ \A r \in Queues, u \in Tasks : u # t => (u \in TasksOf(l, r) <=> u \in TasksOf(k, r))
        /\ \A u \in Tasks : u # t => (Loose(l, u) <=> Loose(k, u))
        /\ l.ub = k.ub /\ l.cur = k.cur /\ Changed(l, k, t)
        /\ (\E i : q = ReadyQ(i)) => Aside(l, k)
    <2>1. PICK S : S = TasksOf(k, q) \cup {t}
      OBVIOUS
    <2>2. Shifted(l, k, q, t, S)
      BY <2>1
    <2>3. (\E i : q = ReadyQ(i)) => Aside(l, k)
      BY <1>1, <2>2, ShiftedLoose
    <2>4. l.ub = k.ub /\ l.cur = k.cur /\ Changed(l, k, t)
      BY <1>1, <2>2, ShiftedLoose
    <2>5. S \in {TasksOf(k, q) \ {t}, TasksOf(k, q) \cup {t}}
      BY <2>1
    <2>6. /\ \A r \in Queues, u \in Tasks : u # t => (u \in TasksOf(l, r) <=> u \in TasksOf(k, r))
          /\ \A u \in Tasks : u # t => (Loose(l, u) <=> Loose(k, u))
      BY <1>1, <2>2, <2>5, ShiftedLoose
    <2> QED
      BY <2>3, <2>4, <2>6
  <1>4. Memory(l) /\ Lists(l) /\ t \in TasksOf(l, q)
    BY DEF Shifted
  <1>5. \A u \in Tasks : l.tcb[u].real_time = FALSE
    BY <1>1, <1>3 DEF Changed
  <1>6. ASSUME NEW u \in Tasks PROVE Settled(l, R \ {t}, u)
    <2>1. CASE u = t
      <3>1. l.tcb[t].prio = k.tcb[t].prio
        BY <1>3 DEF Changed
      <3> QED
        BY <1>4, <2>1, <3>1 DEF Settled
    <2>2. CASE u # t
      <3>1. Settled(k, R, u) /\ \A r \in Queues : u \in TasksOf(l, r) <=> u \in TasksOf(k, r)
        BY <1>1, <1>3, <2>2
      <3>2. l.tcb[u].state = k.tcb[u].state /\ l.tcb[u].prio = k.tcb[u].prio
        BY <1>3, <2>2 DEF Changed
      <3> QED
        BY <1>1, <2>2, <3>1, <3>2, SettledAlike
    <2> QED
      BY <2>1, <2>2
  <1>7. Placed(l, R \ {t})
    BY <1>1, <1>3, <1>4, <1>5, <1>6 DEF Placed, PlacedBut
  <1>8. ASSUME Cleared(k, {t}), NEW u \in Tasks, Loose(l, u)
        PROVE  l.tcb[u].next = NULL
    <2>1. u # t
      BY <1>2, <1>4, <1>8 DEF Loose
    <2>2. Loose(k, u) /\ u \notin TasksOf(k, q)
      BY <1>2, <1>3, <1>8, <2>1 DEF Loose
    <2>3. l.tcb[u] = k.tcb[u]
      BY <1>8, <2>1, <2>2 DEF Shifted
    <2> QED
      BY <1>8, <2>1, <2>2, <2>3 DEF Cleared
  <1> QED
    BY <1>3, <1>7, <1>8 DEF Cleared

\* push_tail and push_head on the ready queue of a task of R.
Pushed(l, k, R, t) == /\ Placed(l, R \ {t}) /\ Cleared(l, {}) /\ l.cur = k.cur
                      /\ Changed(l, k, t) /\ l.tcb[t].state = "READY" /\ Aside(l, k)

LEMMA PushTailPlaced ==
    ASSUME NEW k, NEW R, Placed(k, R), NEW t \in R, t \in Tasks, t # TID_NULL,
           InBounds(k.tcb[t].prio), k.tcb[t].state \notin {"BLK_SEND", "SUSPENDED"},
           Cleared(k, {t})
    PROVE  /\ Pushed(PushTailReady(k, t), k, R, t)
           /\ \A u \in TasksOf(k, ReadyQ(k.tcb[t].prio)) :
                 Precedes(PushTailReady(k, t), ReadyQ(k.tcb[t].prio), u, t)
  <1>1. PICK q : q = ReadyQ(k.tcb[t].prio)
    OBVIOUS
  <1>2. PICK l : l = PushTail(k, t, q)
    OBVIOUS
  <1>3. Memory(k) /\ Lists(k) /\ Loose(k, t) /\ ~k.tcb[t].real_time
    BY DEF Placed, PlacedBut, Settled
  <1>4. q \in Queues
    BY <1>1, <1>3, MemoryFields, ReadyQueueIds
  <1>5. /\ Shifted(l, k, q, t, TasksOf(k, q) \cup {t})
        /\ \A u \in TasksOf(k, q) : Precedes(l, q, u, t)
        /\ l.tcb[t].state = "READY"
    BY <1>2, <1>3, <1>4, PushTailLists
  <1>6. /\ Placed(l, R \ {t}) /\ l.cur = k.cur /\ Changed(l, k, t)
        /\ Cleared(l, {}) /\ Aside(l, k)
    <2>1. /\ q = ReadyQ(k.tcb[t].prio) /\ l.tcb[t].state = "READY"
          /\ Shifted(l, k, q, t, TasksOf(k, q) \cup {t})
      BY <1>1, <1>5
    <2>2. l.cur = k.cur
      BY <2>1 DEF Shifted, SameRest
    <2>3. Placed(l, R \ {t}) /\ Changed(l, k, t)
      BY <1>4, <2>1, PutPlaced
    <2>4. Cleared(l, {}) /\ Aside(l, k)
      BY <1>4, <2>1, PutPlaced
    <2> QED
      BY <2>2, <2>3, <2>4
  <1>7. PushTailReady(k, t) = l
    BY <1>1, <1>2 DEF PushTailReady
  <1> QED
    BY <1>1, <1>5, <1>6, <1>7 DEF Pushed

LEMMA PushHeadPlaced ==
    ASSUME NEW k, NEW R, Placed(k, R), NEW t \in R, t \in Tasks, t # TID_NULL,
           InBounds(k.tcb[t].prio), k.tcb[t].state # "SUSPENDED", Cleared(k, {})
    PROVE  Pushed(PushHeadReady(k, t), k, R, t)
  <1>1. PICK q : q = ReadyQ(k.tcb[t].prio)
    OBVIOUS
  <1>2. PICK l : l = PushHead(k, t, q)
    OBVIOUS
  <1>3. Memory(k) /\ Lists(k) /\ Loose(k, t)
    BY DEF Placed, PlacedBut, Settled
  <1>4. q \in Queues
    BY <1>1, <1>3, MemoryFields, ReadyQueueIds
  <1>5. k.tcb[t].next = NULL /\ Cleared(k, {t})
    BY <1>3 DEF Cleared
  <1>6. Shifted(l, k, q, t, TasksOf(k, q) \cup {t}) /\ l.tcb[t].state = "READY"
    BY <1>2, <1>3, <1>4, <1>5, PushHeadLists
  <1>7. /\ Placed(l, R \ {t}) /\ l.cur = k.cur /\ Changed(l, k, t)
        /\ Cleared(l, {}) /\ Aside(l, k)
    BY <1>1, <1>4, <1>5, <1>6, PutPlaced
  <1>8. PushHeadReady(k, t) = l
    BY <1>1, <1>2 DEF PushHeadReady
  <1> QED
    BY <1>6, <1>7, <1>8 DEF Pushed

\* A write to the fields of t other than its links.
Relabelled(l, k, R, t) ==
    /\ PlacedBut(l, R, {t}) /\ (t \in R \/ Loose(k, t) => Placed(l, R \cup {t}))
    /\ (Cleared(k, {}) => Cleared(l, {}))
    /\ \A q \in Queues : Nodes(l, q) = Nodes(k, q) /\ TasksOf(l, q) = TasksOf(k, q)
    /\ \A q \in Queues : \A u, v : Precedes(l, q, u, v) <=> Precedes(k, q, u, v)

LEMMA Relabel ==
    ASSUME NEW k, NEW R, Placed(k, R), NEW t \in Tasks, NEW l, Memory(l),
           l.queue = k.queue, l.ub = k.ub,
           \A u \in Tasks : l.tcb[u].next = k.tcb[u].next /\ l.tcb[u].prev = k.tcb[u].prev,
           \A u \in Tasks : u # t => l.tcb[u].state = k.tcb[u].state /\ l.tcb[u].prio = k.tcb[u].prio,
           \A u \in Tasks : l.tcb[u].real_time = FALSE
    PROVE  Relabelled(l, k, R, t)
  <1>1. /\ Memory(k) /\ Lists(k) /\ k.ub = FALSE /\ TID_NULL \in R
        /\ \A u \in Tasks : Settled(k, R, u)
    BY DEF Placed, PlacedBut
  <1>2. /\ Lists(l)
        /\ \A q \in Queues : Nodes(l, q) = Nodes(k, q) /\ TasksOf(l, q) = TasksOf(k, q)
        /\ \A u : Loose(l, u) <=> Loose(k, u)
        /\ \A q \in Queues : \A u, v : Precedes(l, q, u, v) <=> Precedes(k, q, u, v)
    BY <1>1, Relisted
  <1>3. ASSUME NEW u \in Tasks, u # t PROVE Settled(l, R, u) /\ Settled(l, R \cup {t}, u)
    <2>1. Settled(k, R, u) /\ u \in R <=> u \in R \cup {t}
      BY <1>1, <1>3
    <2>2. l.tcb[u].state = k.tcb[u].state /\ l.tcb[u].prio = k.tcb[u].prio
      BY <1>3
    <2>3. \A q \in Queues : u \in TasksOf(l, q) <=> u \in TasksOf(k, q)
      BY <1>2
    <2> QED
      BY <1>1, <2>1, <2>2, <2>3, SettledAlike
  <1>4. PlacedBut(l, R, {t})
    BY <1>1, <1>2, <1>3 DEF PlacedBut
  <1>5. ASSUME t \in R \/ Loose(k, t) PROVE Placed(l, R \cup {t})
    <2>1. Loose(k, t)
      BY <1>1, <1>5 DEF Settled
    <2>2. Settled(l, R \cup {t}, t)
      BY <1>2, <2>1 DEF Settled
    <2> QED
      BY <1>1, <1>2, <1>3, <2>2 DEF Placed, PlacedBut
  <1>6. Cleared(k, {}) => Cleared(l, {})
    BY <1>2 DEF Cleared
  <1> QED
    BY <1>2, <1>4, <1>5, <1>6 DEF Relabelled

\* gp_current_task->state = s and the like, for a task of R.
Marked(l, k, R, t, s) ==
    /\ Placed(l, R) /\ (Cleared(k, {}) => Cleared(l, {})) /\ l.cur = k.cur
    /\ Changed(l, k, t) /\ l.tcb[t].state = s /\ Aside(l, k)

LEMMA SetStatePlaced ==
    ASSUME NEW k, NEW R, Placed(k, R), NEW t \in R, t \in Tasks, NEW s \in States
    PROVE  Marked([k EXCEPT !.tcb[t].state = s], k, R, t, s)
  <1>1. PICK l : l = [k EXCEPT !.tcb[t].state = s]
    OBVIOUS
  <1>2. Memory(k) /\ \A u \in Tasks : k.tcb[u].real_time = FALSE
    BY DEF Placed, PlacedBut
  <1>3. Restated(l, k, t, s)
    BY <1>1, <1>2, WriteState
  <1>4. /\ Memory(l) /\ l.queue = k.queue /\ l.ub = k.ub /\ l.cur = k.cur
        /\ \A u \in Tasks : u # t => l.tcb[u] = k.tcb[u]
        /\ SameTask(l.tcb[t], k.tcb[t]) /\ l.tcb[t].state = s
        /\ l.tcb[t].next = k.tcb[t].next /\ l.tcb[t].prev = k.tcb[t].prev
    BY <1>3 DEF Restated, SameRest
  <1>5. \A u \in Tasks : /\ l.tcb[u].real_time = FALSE
                         /\ l.tcb[u].next = k.tcb[u].next /\ l.tcb[u].prev = k.tcb[u].prev
                         /\ SameTask(l.tcb[u], k.tcb[u])
    BY <1>2, <1>4 DEF SameTask
  <1>6. Relabelled(l, k, R, t)
    BY <1>4, <1>5, Relabel DEF SameTask
  <1>7. R \cup {t} = R
    OBVIOUS
  <1>8. Changed(l, k, t)
    BY <1>4, <1>5, <1>6 DEF Changed, SameTask, Relabelled
  <1>9. Placed(l, R) /\ (Cleared(k, {}) => Cleared(l, {}))
    BY <1>6, <1>7 DEF Relabelled
  <1>10. Aside(l, k)
    BY <1>3, <1>6, WaitQueueIds DEF Restated, SameRest, Relabelled, Aside
  <1> QED
    BY <1>1, <1>4, <1>8, <1>9, <1>10 DEF Marked

\* gp_current_task = &g_tcbs[t].
Pointed(l, k, R, t) ==
    /\ Placed(l, R) /\ (Cleared(k, {}) => Cleared(l, {}))
    /\ l.cur = t /\ l.tcb = k.tcb /\ Aside(l, k) /\ \A u \in Tasks : Changed(l, k, u)

LEMMA SetCurPlaced ==
    ASSUME NEW k, NEW R, Placed(k, R), NEW t \in Tasks
    PROVE  Pointed([k EXCEPT !.cur = t], k, R, t)
  <1>1. PICK l : l = [k EXCEPT !.cur = t]
    OBVIOUS
  <1>2. Memory(k) /\ k.ub = FALSE /\ TID_NULL \in R /\ TID_NULL \in Tasks
        /\ \A u \in Tasks : k.tcb[u].real_time = FALSE
    BY NullTask DEF Placed, PlacedBut
  <1>3. Memory(l) /\ l.tcb = k.tcb /\ l.queue = k.queue /\ l.ub = k.ub /\ l.cur = t
    BY <1>1, <1>2 DEF Memory
  <1>4. Relabelled(l, k, R, TID_NULL)
    BY <1>2, <1>3, Relabel
  <1>5. Placed(l, R \cup {TID_NULL}) /\ (Cleared(k, {}) => Cleared(l, {}))
        /\ \A q \in Queues : \A u, v : Precedes(l, q, u, v) <=> Precedes(k, q, u, v)
    BY <1>2, <1>4 DEF Relabelled
  <1>6. R \cup {TID_NULL} = R
    BY <1>2
  <1>7. \A u \in Tasks : Changed(l, k, u)
    BY <1>3, <1>5 DEF Changed
  <1>8. Aside(l, k)
    <2>1. DOMAIN l = DOMAIN k /\ \A f \in DOMAIN k : f # "cur" => l[f] = k[f]
      BY <1>1
    <2> QED
      BY <1>4, <2>1, WaitQueueIds DEF Relabelled, Aside
  <1> QED
    BY <1>1, <1>3, <1>5, <1>6, <1>7, <1>8 DEF Pointed

\* The priority of t is written.
Reprioritised(l, k, R, t, p) ==
    /\ PlacedBut(l, R, {t}) /\ (t \in R \/ k.tcb[t].state \in Blocked => Placed(l, R))
    /\ (Cleared(k, {}) => Cleared(l, {})) /\ Aside(l, k)
    /\ l.cur = k.cur /\ l.queue = k.queue
    /\ \A u \in Tasks : u # t => l.tcb[u] = k.tcb[u]
    /\ l.tcb[t].prio = p /\ l.tcb[t].state = k.tcb[t].state
    /\ \A q \in Queues : TasksOf(l, q) = TasksOf(k, q)
    /\ \A q \in Queues, u, v \in Tasks : Precedes(l, q, u, v) <=> Precedes(k, q, u, v)

LEMMA SetPrioPlaced ==
    ASSUME NEW k, NEW R, Placed(k, R), NEW t \in Tasks, NEW p \in Prio
    PROVE  Reprioritised([k EXCEPT !.tcb[t].prio = p], k, R, t, p)
  <1>1. PICK l : l = [k EXCEPT !.tcb[t].prio = p]
    OBVIOUS
  <1>2. Memory(k) /\ \A u \in Tasks : k.tcb[u].real_time = FALSE
    BY DEF Placed, PlacedBut
  <1>3. PICK W : W = [k.tcb[t] EXCEPT !.prio = p]
    OBVIOUS
  <1>4. k.tcb[t] \in TCB
    BY <1>2, MemoryFields
  <1>5. /\ W \in TCB /\ W.prio = p /\ W.state = k.tcb[t].state /\ W.next = k.tcb[t].next
        /\ W.prev = k.tcb[t].prev /\ W.real_time = k.tcb[t].real_time
    BY <1>3, <1>4 DEF TCB
  <1>6. l = [k EXCEPT !.tcb = [k.tcb EXCEPT ![t] = W]]
    BY <1>1, <1>3 DEF Memory
  <1>7. /\ Memory(l) /\ l.tcb = [k.tcb EXCEPT ![t] = W] /\ l.queue = k.queue
        /\ l.ub = k.ub /\ l.cur = k.cur
    BY <1>2, <1>5, <1>6 DEF Memory
  <1>8. l.tcb[t] = W /\ \A u \in Tasks : u # t => l.tcb[u] = k.tcb[u]
    BY <1>2, <1>7 DEF Memory
  <1>9. \A u \in Tasks : /\ l.tcb[u].real_time = FALSE
                         /\ l.tcb[u].next = k.tcb[u].next /\ l.tcb[u].prev = k.tcb[u].prev
    BY <1>2, <1>5, <1>8
  <1>10. /\ PlacedBut(l, R, {t}) /\ (t \in R => Placed(l, R \cup {t}))
         /\ (Cleared(k, {}) => Cleared(l, {}))
         /\ \A q \in Queues : Nodes(l, q) = Nodes(k, q) /\ TasksOf(l, q) = TasksOf(k, q)
         /\ \A q \in Queues : \A u, v : Precedes(l, q, u, v) <=> Precedes(k, q, u, v)
    <2>1. \A u \in Tasks : u # t => l.tcb[u].state = k.tcb[u].state /\ l.tcb[u].prio = k.tcb[u].prio
      BY <1>8
    <2>2. Relabelled(l, k, R, t)
      BY <1>7, <1>9, <2>1, Relabel
    <2> QED
      BY <2>2 DEF Relabelled
  <1>11. t \in R => R \cup {t} = R
    OBVIOUS
  <1>12. ASSUME k.tcb[t].state \in Blocked PROVE Placed(l, R)
    <2>1. CASE t \in R
      BY <1>10, <1>11, <2>1
    <2>2. CASE t \notin R
      <3>1. Settled(k, R, t) /\ l.tcb[t].state = k.tcb[t].state
        BY <1>5, <1>8 DEF Placed, PlacedBut
      <3>2. Loose(l, t) <=> Loose(k, t)
        BY <1>10 DEF Loose
      <3>3. \A m \in Mailboxes : TasksOf(l, WaitQ(m)) = TasksOf(k, WaitQ(m))
        BY <1>10, WaitQueueIds
      <3>4. Settled(l, R, t)
        BY <1>12, <2>2, <3>1, <3>2, <3>3 DEF Settled, Blocked
      <3> QED
        BY <1>10, <3>4 DEF Placed, PlacedBut
    <2> QED
      BY <2>1, <2>2
  <1>13. Aside(l, k)
    <2>1. DOMAIN l = DOMAIN k /\ \A f \in DOMAIN k : f # "tcb" => l[f] = k[f]
      BY <1>1
    <2> QED
      BY <1>10, <2>1, WaitQueueIds DEF Aside
  <1> QED
    BY <1>1, <1>5, <1>7, <1>8, <1>10, <1>11, <1>12, <1>13 DEF Reprioritised

\* k_tsk_create_new of a task that does not exist.
Born(l, k, R, t, p) ==
    /\ Placed(l, R \cup {t}) /\ (Cleared(k, {}) => Cleared(l, {})) /\ l.cur = k.cur
    /\ Aside(l, k) /\ \A u \in Tasks : u # t => l.tcb[u] = k.tcb[u]
    /\ l.tcb[t].prio = p /\ l.tcb[t].state = "READY"
    /\ \A q \in Queues : TasksOf(l, q) = TasksOf(k, q)
    /\ \A q \in Queues, u, v \in Tasks : Precedes(l, q, u, v) <=> Precedes(k, q, u, v)

LEMMA CreateNewPlaced ==
    ASSUME NEW k, NEW R, Placed(k, R), NEW t \in Tasks, NEW p \in Prio, NEW priv \in BOOLEAN,
           t \notin R, k.tcb[t].state = "DORMANT"
    PROVE  Born(CreateNew(k, t, p, priv), k, R, t, p)
  <1>1. PICK l : l = CreateNew(k, t, p, priv)
    OBVIOUS
  <1>2. Memory(k) /\ \A u \in Tasks : k.tcb[u].real_time = FALSE
    BY DEF Placed, PlacedBut
  <1>3. PICK W : W = Created(k.tcb[t], p, priv)
    OBVIOUS
  <1>4. k.tcb[t] \in TCB
    BY <1>2, MemoryFields
  <1>5. /\ W \in TCB /\ W.prio = p /\ W.state = "READY" /\ W.next = k.tcb[t].next
        /\ W.prev = k.tcb[t].prev /\ W.real_time = FALSE
    <2>1. W \in TCB
      BY <1>3, <1>4, CreatedType
    <2> QED
      BY <1>3, <1>4, <2>1 DEF TCB, Created
  <1>6. l = [k EXCEPT !.tcb = [k.tcb EXCEPT ![t] = W]]
    BY <1>1, <1>3 DEF Memory, CreateNew
  <1>7. /\ Memory(l) /\ l.tcb = [k.tcb EXCEPT ![t] = W] /\ l.queue = k.queue
        /\ l.ub = k.ub /\ l.cur = k.cur
    BY <1>2, <1>5, <1>6 DEF Memory
  <1>8. l.tcb[t] = W /\ \A u \in Tasks : u # t => l.tcb[u] = k.tcb[u]
    BY <1>2, <1>7 DEF Memory
  <1>9. \A u \in Tasks : /\ l.tcb[u].real_time = FALSE
                         /\ l.tcb[u].next = k.tcb[u].next /\ l.tcb[u].prev = k.tcb[u].prev
    BY <1>2, <1>5, <1>8
  <1>10. Loose(k, t)
    BY DEF Placed, PlacedBut, Settled
  <1>11. /\ Placed(l, R \cup {t}) /\ (Cleared(k, {}) => Cleared(l, {}))
         /\ \A q \in Queues : Nodes(l, q) = Nodes(k, q) /\ TasksOf(l, q) = TasksOf(k, q)
         /\ \A q \in Queues : \A u, v : Precedes(l, q, u, v) <=> Precedes(k, q, u, v)
    <2>1. \A u \in Tasks : u # t => l.tcb[u].state = k.tcb[u].state /\ l.tcb[u].prio = k.tcb[u].prio
      BY <1>8
    <2>2. Relabelled(l, k, R, t)
      BY <1>7, <1>9, <2>1, Relabel
    <2> QED
      BY <1>10, <2>2 DEF Relabelled
  <1>12. Aside(l, k)
    <2>1. DOMAIN l = DOMAIN k /\ \A f \in DOMAIN k : f # "tcb" => l[f] = k[f]
      BY <1>6
    <2> QED
      BY <1>11, <2>1, WaitQueueIds DEF Aside
  <1> QED
    BY <1>1, <1>5, <1>7, <1>8, <1>11, <1>12 DEF Born

----------------------------------------------------------------------------
(***************************************************************************)
(* The scheduler.                                                          *)
(***************************************************************************)
LEMMA FirstLevelLeast ==
    ASSUME NEW k, NonEmptyLevels(k) # {}
    PROVE  /\ FirstLevel(k) \in NonEmptyLevels(k)
           /\ \A j \in NonEmptyLevels(k) : FirstLevel(k) <= j
  <1>1. NonEmptyLevels(k) \in SUBSET Nat
    BY DEF NonEmptyLevels, RT_INDEX, LOWEST_INDEX
  <1>2. \E i \in NonEmptyLevels(k) : \A j \in NonEmptyLevels(k) : i <= j
    BY <1>1, Least
  <1> QED
    BY <1>2 DEF FirstLevel

\* The ready queue of a READY task is a non-empty level.
LEMMA ReadyLevel ==
    ASSUME NEW k, NEW R, Placed(k, R), NEW u \in Tasks \ R, k.tcb[u].state = "READY"
    PROVE  k.tcb[u].prio \in NonEmptyLevels(k)
  <1>1. /\ k.tcb[u].prio \in RT_INDEX .. LOWEST_INDEX
        /\ ReadyQ(k.tcb[u].prio) \in Queues /\ u \in TasksOf(k, ReadyQ(k.tcb[u].prio))
    BY ReadyTask
  <1>2. k.queue[ReadyQ(k.tcb[u].prio)].HEAD # NULL
    <2>1. Memory(k) /\ Linked(k, ReadyQ(k.tcb[u].prio))
      BY <1>1 DEF Placed, PlacedBut, Lists
    <2> QED
      BY <1>1, <2>1, LinkedFacts
  <1> QED
    BY <1>1, <1>2 DEF NonEmptyLevels

\* The head of the first non-empty level.
LEMMA FirstTask ==
    ASSUME NEW k, NEW R, Placed(k, R), NonEmptyLevels(k) # {},
           NEW i, i = FirstLevel(k), NEW h, h = k.queue[ReadyQ(i)].HEAD
    PROVE  /\ i \in RT_INDEX .. LOWEST_INDEX /\ ReadyQ(i) \in Queues /\ h # NULL
           /\ h \in TasksOf(k, ReadyQ(i)) /\ h \in Tasks \ R /\ h # TID_NULL
           /\ k.tcb[h].state = "READY" /\ k.tcb[h].prio = i
           /\ \A u \in Tasks \ R : k.tcb[u].state = "READY" => i <= k.tcb[u].prio
  <1>1. i \in RT_INDEX .. LOWEST_INDEX /\ h # NULL
    BY FirstLevelLeast DEF NonEmptyLevels
  <1>2. ReadyQ(i) \in Queues
    BY <1>1, ReadyQueueIds
  <1>3. Memory(k) /\ Linked(k, ReadyQ(i)) /\ TID_NULL \in R
    BY <1>2 DEF Placed, PlacedBut, Lists
  <1>4. h \in TasksOf(k, ReadyQ(i))
    BY <1>1, <1>3, LinkedFacts
  <1>5. h \in Tasks \ R /\ k.tcb[h].state = "READY"
    BY <1>1, <1>4, OnReadyQueue
  <1>6. k.tcb[h].prio = i
    BY <1>1, <1>4, OnReadyQueue
  <1>7. \A u \in Tasks \ R : k.tcb[u].state = "READY" => i <= k.tcb[u].prio
    BY ReadyLevel, FirstLevelLeast
  <1> QED
    BY <1>1, <1>2, <1>3, <1>4, <1>5, <1>6, <1>7

\* pop_head of a ready queue that is not empty.
HeadTaken(x, k, R, q, h) ==
    /\ Placed(x, R \cup {h}) /\ Cleared(x, {}) /\ x.cur = k.cur /\ Changed(x, k, h)
    /\ Aside(x, k)
    /\ x.tcb[h].state = "RUNNING"
    /\ \A u \in TasksOf(k, q) : u # h => Precedes(k, q, h, u)

LEMMA HeadTakenFrom ==
    ASSUME NEW k, NEW R, Placed(k, R), Cleared(k, {}),
           NEW q, \E i \in RT_INDEX .. LOWEST_INDEX : q = ReadyQ(i),
           NEW h, h = k.queue[q].HEAD, h # NULL
    PROVE  HeadTaken(PopHead(k, q), k, R, q, h)
  <1>1. PICK x : x = PopHead(k, q)
    OBVIOUS
  <1>2. Memory(k) /\ Lists(k) /\ k.queue[q].HEAD # NULL /\ q \in Queues
    BY ReadyQueueIds DEF Placed, PlacedBut
  <1>3. HeadPopped(x, k, q, h)
    BY <1>1, <1>2, PopHeadLists
  <1>4. /\ Shifted(x, k, q, h, TasksOf(k, q) \ {h}) /\ h \in TasksOf(k, q) /\ h \in Tasks
        /\ \A u \in TasksOf(k, q) : u # h => Precedes(k, q, h, u)
        /\ x.tcb[h].state = PoppedState(k.tcb[h].state) /\ x.tcb[h].next = NULL
    BY <1>3 DEF HeadPopped
  <1>5. PlacedBut(k, R, {h})
    BY DEF Placed, PlacedBut
  <1>6. Taken(x, k, R, h) /\ Aside(x, k)
    BY <1>2, <1>4, <1>5, TakenPlaced
  <1>7. x.tcb[h].state = "RUNNING"
    <2>1. k.tcb[h].state = "READY"
      BY <1>4, OnReadyQueue
    <2> QED
      BY <1>4, <2>1 DEF PoppedState
  <1> QED
    BY <1>1, <1>4, <1>6, <1>7 DEF HeadTaken, Taken

\* scheduler(): the task it picks has the highest priority there is and has
\* waited longest.
Picked(d, k, R) ==
    /\ Placed(d, R \cup {d.cur}) /\ Cleared(d, {}) /\ d.cur \in Tasks /\ Changed(d, k, d.cur)
    /\ Aside(d, k)
    /\ \A u \in Tasks \ R : k.tcb[u].state = "READY" =>
          /\ d.cur # TID_NULL /\ k.tcb[d.cur].prio <= k.tcb[u].prio
          /\ u # d.cur /\ k.tcb[u].prio = k.tcb[d.cur].prio
             => Precedes(k, ReadyQ(k.tcb[u].prio), d.cur, u)
    /\ d.cur = TID_NULL => d.tcb = k.tcb
    /\ d.cur # TID_NULL => /\ d.cur \notin R /\ k.tcb[d.cur].state = "READY"
                           /\ d.tcb[d.cur].state = "RUNNING"

LEMMA DispatchPlaced ==
    ASSUME NEW k, NEW R, Placed(k, R), Cleared(k, {})
    PROVE  Picked(Dispatch(k), k, R)
  <1>1. PICK d : d = Dispatch(k)
    OBVIOUS
  <1>2. Memory(k) /\ Lists(k) /\ TID_NULL \in R /\ TID_NULL \in Tasks
    BY NullTask DEF Placed, PlacedBut
  <1>3. CASE NonEmptyLevels(k) = {}
    <2>1. d = [k EXCEPT !.cur = TID_NULL]
      BY <1>1, <1>3 DEF Dispatch
    <2>2. Pointed(d, k, R, TID_NULL)
      BY <1>2, <2>1, SetCurPlaced
    <2>3. \A u \in Tasks \ R : k.tcb[u].state # "READY"
      BY <1>3, ReadyLevel
    <2>4. R \cup {TID_NULL} = R
      BY <1>2
    <2> QED
      BY <1>1, <1>2, <2>2, <2>3, <2>4 DEF Picked, Pointed
  <1>4. CASE NonEmptyLevels(k) # {}
    <2>1. PICK i, h : i = FirstLevel(k) /\ h = k.queue[ReadyQ(i)].HEAD
      OBVIOUS
    <2>2. PICK q : q = ReadyQ(i)
      OBVIOUS
    <2>3. /\ q \in Queues /\ k.queue[q].HEAD # NULL /\ i \in RT_INDEX .. LOWEST_INDEX
          /\ h \in TasksOf(k, q) /\ h \in Tasks \ R /\ h # TID_NULL
          /\ k.tcb[h].state = "READY" /\ k.tcb[h].prio = i
          /\ \A u \in Tasks \ R : k.tcb[u].state = "READY" => i <= k.tcb[u].prio
      BY <1>4, <2>1, <2>2, FirstTask
    <2>4. PICK x : x = PopHead(k, q)
      OBVIOUS
    <2>5. HeadTaken(x, k, R, q, h)
      BY <2>1, <2>2, <2>3, <2>4, HeadTakenFrom
    <2>6. /\ Placed(x, R \cup {h}) /\ Changed(x, k, h) /\ Cleared(x, {}) /\ Aside(x, k)
          /\ x.tcb[h].state = "RUNNING"
          /\ \A u \in TasksOf(k, q) : u # h => Precedes(k, q, h, u)
      BY <2>5 DEF HeadTaken
    <2>7. d = [x EXCEPT !.cur = h]
      BY <1>1, <1>4, <2>1, <2>2, <2>4 DEF Dispatch
    <2>8. Pointed(d, x, R \cup {h}, h)
      BY <2>3, <2>6, <2>7, SetCurPlaced
    <2>9. /\ d.cur = h /\ d.tcb = x.tcb /\ Placed(d, R \cup {h}) /\ Cleared(d, {})
          /\ Aside(d, k)
      BY <2>6, <2>8, AsideSteps DEF Pointed
    <2>10. Changed(d, k, h)
      BY <2>3, <2>6, <2>8 DEF Changed, Pointed
    <2>11. d.tcb[h].state = "RUNNING"
      BY <2>6, <2>9
    <2>12. ASSUME NEW u \in Tasks \ R, k.tcb[u].state = "READY", u # h, k.tcb[u].prio = i
           PROVE  Precedes(k, ReadyQ(k.tcb[u].prio), h, u)
      <3>1. u \in TasksOf(k, q)
        BY <2>2, <2>12, ReadyTask
      <3> QED
        BY <2>2, <2>6, <2>12, <3>1
    <2> QED
      BY <1>1, <2>3, <2>9, <2>10, <2>11, <2>12 DEF Picked
  <1> QED
    BY <1>3, <1>4

----------------------------------------------------------------------------
(***************************************************************************)
(* First come, first served, of two memories.                              *)
(***************************************************************************)
\* t stays on the ready queue of its priority.
Stays(k, l, t) == /\ k.tcb[t].state = "READY" /\ l.tcb[t].state = "READY"
                  /\ k.tcb[t].prio = l.tcb[t].prio

InTurn(k, l) ==
    \A t, u \in Tasks \ {TID_NULL} :
       Stays(k, l, t) /\ t # u /\ l.tcb[u].prio = k.tcb[t].prio
       => /\ Stays(k, l, u) => (Precedes(k, ReadyQ(k.tcb[t].prio), t, u)
                                <=> Precedes(l, ReadyQ(k.tcb[t].prio), t, u))
          /\ /\ k.tcb[u].state = "READY" /\ k.tcb[u].prio = k.tcb[t].prio /\ u = l.cur
             => Precedes(k, ReadyQ(k.tcb[t].prio), u, t)
          /\ k.tcb[u].state \notin {"READY", "RUNNING"} /\ l.tcb[u].state = "READY"
             => Precedes(l, ReadyQ(k.tcb[t].prio), t, u)

\* The tasks of X are the ones that change places, and none of them stays.
LEMMA InTurnFrom ==
    ASSUME NEW k, Memory(k), Levels(k), NEW l, NEW X,
           \A q \in Queues, u, v \in Tasks \ X : Precedes(l, q, u, v) <=> Precedes(k, q, u, v),
           \A x \in X \ {TID_NULL} : ~Stays(k, l, x),
           \A t \in Tasks \ {TID_NULL} :
              /\ Stays(k, l, t) /\ t # l.cur /\ l.tcb[l.cur].prio = k.tcb[t].prio
              /\ k.tcb[l.cur].state = "READY" /\ k.tcb[l.cur].prio = k.tcb[t].prio
              => Precedes(k, ReadyQ(k.tcb[t].prio), l.cur, t),
           \A t, u \in Tasks \ {TID_NULL} :
              /\ Stays(k, l, t) /\ t # u /\ l.tcb[u].prio = k.tcb[t].prio
              /\ k.tcb[u].state \notin {"READY", "RUNNING"} /\ l.tcb[u].state = "READY"
              => Precedes(l, ReadyQ(k.tcb[t].prio), t, u)
    PROVE  InTurn(k, l)
  <1> SUFFICES ASSUME NEW t \in Tasks \ {TID_NULL}, NEW u \in Tasks \ {TID_NULL},
                      Stays(k, l, t), t # u, l.tcb[u].prio = k.tcb[t].prio
               PROVE  /\ Stays(k, l, u) => (Precedes(k, ReadyQ(k.tcb[t].prio), t, u)
                                            <=> Precedes(l, ReadyQ(k.tcb[t].prio), t, u))
                      /\ /\ k.tcb[u].state = "READY" /\ k.tcb[u].prio = k.tcb[t].prio /\ u = l.cur
                         => Precedes(k, ReadyQ(k.tcb[t].prio), u, t)
                      /\ k.tcb[u].state \notin {"READY", "RUNNING"} /\ l.tcb[u].state = "READY"
                         => Precedes(l, ReadyQ(k.tcb[t].prio), t, u)
    BY DEF InTurn
  <1>1. ReadyQ(k.tcb[t].prio) \in Queues
    <2>1. InBounds(k.tcb[t].prio) /\ k.tcb[t].prio \in Prio
      BY MemoryFields DEF Levels, Stays
    <2> QED
      BY <2>1, ReadyQueueIds
  <1>2. ASSUME Stays(k, l, u)
        PROVE  Precedes(k, ReadyQ(k.tcb[t].prio), t, u) <=> Precedes(l, ReadyQ(k.tcb[t].prio), t, u)
    BY <1>1, <1>2
  <1>3. ASSUME k.tcb[u].state = "READY", k.tcb[u].prio = k.tcb[t].prio, u = l.cur
        PROVE  Precedes(k, ReadyQ(k.tcb[t].prio), u, t)
    BY <1>3
  <1>4. ASSUME k.tcb[u].state \notin {"READY", "RUNNING"}, l.tcb[u].state = "READY"
        PROVE  Precedes(l, ReadyQ(k.tcb[t].prio), t, u)
    BY <1>4
  <1> QED
    BY <1>2, <1>3, <1>4

----------------------------------------------------------------------------
(***************************************************************************)
(* The system calls, of one memory to the next.                            *)
(***************************************************************************)
\* Nobody comes to outrank the current task who did not outrank the one before.
NoneNew(k, l) == \A u \in Tasks : Outranking(l, u) => Outranking(k, u)

\* What a call of k_task.c may do: it is first come, first served, leaves nobody
\* behind who should run, and has no part in blocking.
Lawful(k, l) == InTurn(k, l) /\ NoneNew(k, l) /\ Undisturbed(k, l)

LEMMA QuietNoneNew ==
    ASSUME NEW k, NEW l, Quiet(l)
    PROVE  NoneNew(k, l)
  BY DEF Quiet, NoneNew

\* Only t changes its state, and neither state is one of those that are blocked.
LEMMA OneUndisturbed ==
    ASSUME NEW k, NEW l, Aside(l, k), NEW t,
           l.tcb[t].state \notin Blocked, k.tcb[t].state \notin Blocked,
           \A u \in Tasks : u # t => l.tcb[u].state = k.tcb[u].state
    PROVE  Undisturbed(k, l)
  BY DEF Undisturbed

\* So it is when the scheduler picks a task.
LEMMA PickedUndisturbed ==
    ASSUME NEW k, NEW R, NEW d, Picked(d, k, R)
    PROVE  Undisturbed(k, d)
  <1>1. Aside(d, k) /\ Changed(d, k, d.cur)
    BY DEF Picked
  <1>2. CASE d.cur = TID_NULL
    BY <1>1, <1>2 DEF Picked, Undisturbed
  <1>3. CASE d.cur # TID_NULL
    <2>1. d.tcb[d.cur].state \notin Blocked /\ k.tcb[d.cur].state \notin Blocked
      BY <1>3 DEF Picked, Blocked
    <2> QED
      BY <1>1, <2>1, OneUndisturbed DEF Changed
  <1> QED
    BY <1>2, <1>3

\* What Scheduled says of the current task.
LEMMA CurrentTask ==
    ASSUME NEW k, NEW ex, Scheduled(k, ex)
    PROVE  /\ Memory(k) /\ k.cur \in Tasks /\ k.cur \in Live(k, ex) /\ TID_NULL \in Live(k, ex)
           /\ k.tcb[k.cur].state = "RUNNING" /\ k.tcb[k.cur].prio \in Prio
           /\ k.tcb[k.cur].prio = NULL_INDEX <=> k.cur = TID_NULL
           /\ k.tcb[k.cur].real_time = FALSE
           /\ \A u \in Tasks \ Live(k, ex) : k.tcb[u].state \in {"READY", "DORMANT"} \cup Blocked
           /\ \A u \in Tasks \ {TID_NULL} : k.tcb[u].state = "READY" => u \notin Live(k, ex)
           /\ \A u \in Tasks : k.tcb[u].state \in {"DORMANT"} \cup Blocked => u \notin Live(k, ex)
  <1>1. Memory(k) /\ \A u \in Tasks : Settled(k, Live(k, ex), u) /\ k.tcb[u].real_time = FALSE
    BY DEF Scheduled, Placed, PlacedBut
  <1>2. k.cur \in Tasks /\ k.tcb[k.cur].state = "RUNNING" /\ k.tcb[k.cur].prio \in Prio
    BY <1>1, MemoryFields DEF Scheduled, Memory
  <1>3. k.tcb[k.cur].prio = NULL_INDEX <=> k.cur = TID_NULL
    BY <1>2 DEF Scheduled, Levels, InBounds
  <1>4. k.tcb[TID_NULL].state \in {"READY", "RUNNING"}
    BY DEF Scheduled
  <1> QED
    BY <1>1, <1>2, <1>3, <1>4 DEF Scheduled, Live, Settled, Blocked

\* A choice of the scheduler, before the state of the null task is set right.
Chosen(k, ex) ==
    /\ Placed(k, Live(k, ex)) /\ Cleared(k, {}) /\ Levels(k)
    /\ ex \subseteq Tasks /\ k.cur \notin ex /\ TID_NULL \notin ex
    /\ \A u \in ex : k.tcb[u].state = "RUNNING"
    /\ k.cur # TID_NULL => k.tcb[k.cur].state = "RUNNING"
    /\ k.tcb[TID_NULL].state \in {"READY", "RUNNING"}
    /\ \A u \in Tasks \ {TID_NULL} :
          k.tcb[u].state = "READY" => k.tcb[u].prio >= k.tcb[k.cur].prio

\* The scheduler chooses when only the tasks of ex and the null task are off the
\* queues.
LEMMA PickedChosen ==
    ASSUME NEW ex \in SUBSET Tasks, TID_NULL \notin ex,
           NEW j, Placed(j, ex \cup {TID_NULL}), Levels(j),
           \A u \in ex : j.tcb[u].state = "RUNNING",
           j.tcb[TID_NULL].state \in {"READY", "RUNNING"},
           NEW d, Picked(d, j, ex \cup {TID_NULL})
    PROVE  Chosen(d, ex)
  <1>1. /\ Placed(d, Live(d, ex)) /\ Cleared(d, {}) /\ d.cur \in Tasks /\ Changed(d, j, d.cur)
        /\ d.cur # TID_NULL => /\ d.cur \notin ex /\ j.tcb[d.cur].state = "READY"
                               /\ d.tcb[d.cur].state = "RUNNING"
        /\ d.cur = TID_NULL => d.tcb = j.tcb
    <2>1. (ex \cup {TID_NULL}) \cup {d.cur} = Live(d, ex)
      BY DEF Live
    <2> QED
      BY <2>1 DEF Picked
  <1>2. Levels(d)
    <2>1. d.tcb[TID_NULL].prio = NULL_INDEX
      BY <1>1, NullTask DEF Levels, Changed
    <2>2. ASSUME NEW u \in Tasks \ {TID_NULL}
          PROVE  d.tcb[u].state = "DORMANT" \/ InBounds(d.tcb[u].prio)
      BY <1>1, <2>2 DEF Levels, Changed
    <2> QED
      BY <2>1, <2>2 DEF Levels
  <1>3. d.cur \notin ex
    BY <1>1
  <1>4. \A u \in ex : d.tcb[u].state = "RUNNING"
    BY <1>1, <1>3 DEF Changed
  <1>5. ASSUME NEW u \in Tasks \ {TID_NULL}, d.tcb[u].state = "READY"
        PROVE  d.tcb[u].prio >= d.tcb[d.cur].prio
    <2>1. u # d.cur
      BY <1>1, <1>5
    <2>2. j.tcb[u].state = "READY" /\ u \notin ex
      BY <1>1, <1>4, <1>5, <2>1 DEF Changed
    <2>3. j.tcb[d.cur].prio <= j.tcb[u].prio
      BY <2>2 DEF Picked
    <2>4. Memory(j)
      BY DEF Placed, PlacedBut
    <2>5. j.tcb[d.cur].prio \in Prio /\ j.tcb[u].prio \in Prio
      BY <1>1, <2>4, MemoryFields
    <2>6. d.tcb[u].prio = j.tcb[u].prio /\ d.tcb[d.cur].prio = j.tcb[d.cur].prio
      BY <1>1 DEF Changed
    <2> QED
      BY <2>3, <2>5, <2>6, ReadyQueueIds
  <1>6. d.tcb[TID_NULL].state \in {"READY", "RUNNING"}
    BY <1>1, NullTask DEF Changed
  <1> QED
    BY <1>1, <1>2, <1>3, <1>4, <1>5, <1>6 DEF Chosen

\* The null task is RUNNING when chosen and READY when not: then the system runs.
NullState(k, s) == s = IF k.cur = TID_NULL THEN "RUNNING" ELSE "READY"

LEMMA ChosenRuns ==
    ASSUME NEW d, NEW ex, Chosen(d, ex), NEW l, NEW s, NullState(d, s),
           \/ l = d /\ d.tcb[TID_NULL].state = s
           \/ Marked(l, d, Live(d, ex), TID_NULL, s)
    PROVE  Scheduled(l, ex) /\ Quiet(l) /\ Undisturbed(d, l) /\ l.cur = d.cur
  <1>1. l.cur = d.cur /\ Placed(l, Live(d, ex)) /\ Cleared(l, {}) /\ l.tcb[TID_NULL].state = s
    BY DEF Chosen, Marked
  <1>2. /\ \A u \in Tasks : l.tcb[u].prio = d.tcb[u].prio
        /\ \A u \in Tasks : u # TID_NULL => l.tcb[u].state = d.tcb[u].state
    BY DEF Marked, Changed
  <1>3. Live(l, ex) = Live(d, ex)
    BY <1>1 DEF Live
  <1>4. Memory(l) /\ l.cur \in Tasks
    BY <1>1 DEF Placed, PlacedBut, Memory
  <1>5. Levels(l)
    BY <1>2, NullTask DEF Levels, Chosen
  <1>6. \A u \in ex \cup {l.cur} : l.tcb[u].state = "RUNNING"
    <2>1. CASE l.cur = TID_NULL
      BY <1>1, <1>2, <2>1 DEF Chosen, NullState
    <2>2. CASE l.cur # TID_NULL
      BY <1>1, <1>2, <1>4, <2>2 DEF Chosen
    <2> QED
      BY <2>1, <2>2
  <1>7. l.cur # TID_NULL => l.tcb[TID_NULL].state = "READY"
    BY <1>1 DEF NullState
  <1>8. ASSUME NEW u \in Tasks, l.tcb[u].state = "READY"
        PROVE  l.tcb[u].prio >= l.tcb[l.cur].prio
    <2>1. CASE u = TID_NULL
      <3>1. l.tcb[u].prio = NULL_INDEX /\ l.tcb[l.cur].prio \in Prio /\ l.tcb[u].prio \in Prio
        BY <1>4, <1>5, <2>1, MemoryFields DEF Levels
      <3> QED
        BY <3>1, ReadyQueueIds
    <2>2. CASE u # TID_NULL
      BY <1>1, <1>2, <1>4, <1>8, <2>2 DEF Chosen
    <2> QED
      BY <2>1, <2>2
  <1>9. Quiet(l)
    <2>1. ASSUME NEW u \in Tasks, Outranking(l, u) PROVE FALSE
      <3>1. l.tcb[u].prio >= l.tcb[l.cur].prio /\ l.tcb[u].prio < l.tcb[l.cur].prio
        BY <1>8, <2>1 DEF Outranking
      <3>2. l.tcb[u].prio \in Int /\ l.tcb[l.cur].prio \in Int
        BY <1>4, MemoryFields, ReadyQueueIds
      <3> QED
        BY <3>1, <3>2
    <2> QED
      BY <2>1 DEF Quiet
  <1>10. Undisturbed(d, l)
    <2>1. Aside(l, d)
      BY AsideSame DEF Marked
    <2>2. s \notin Blocked /\ d.tcb[TID_NULL].state \notin Blocked
      BY DEF NullState, Chosen, Blocked
    <2> QED
      BY <1>1, <1>2, <2>1, <2>2, OneUndisturbed
  <1> QED
    BY <1>1, <1>3, <1>5, <1>6, <1>7, <1>9, <1>10 DEF Scheduled, Chosen

\* Writing a state that is already there.
LEMMA SameState ==
    ASSUME NEW k, Memory(k), NEW t \in Tasks, NEW s, k.tcb[t].state = s
    PROVE  [k EXCEPT !.tcb[t].state = s] = k
  <1>1. k.tcb[t] \in TCB
    BY MemoryFields
  <1>2. [k.tcb[t] EXCEPT !.state = s] = k.tcb[t]
    BY <1>1 DEF TCB
  <1>3. [k.tcb EXCEPT ![t] = [k.tcb[t] EXCEPT !.state = s]] = k.tcb
    BY <1>2 DEF Memory
  <1>4. [k EXCEPT !.tcb[t].state = s] =
            [k EXCEPT !.tcb = [k.tcb EXCEPT ![t] = [k.tcb[t] EXCEPT !.state = s]]]
    OBVIOUS
  <1> QED
    BY <1>3, <1>4 DEF Memory

\* Run, after a choice.
LEMMA RunChosen ==
    ASSUME NEW d, NEW ex, Chosen(d, ex), d.tcb[TID_NULL].state = "READY"
    PROVE  /\ Scheduled(Run(d), ex) /\ Quiet(Run(d)) /\ Undisturbed(d, Run(d))
           /\ Run(d).cur = d.cur /\ Changed(Run(d), d, TID_NULL)
  <1>1. Memory(d) /\ d.cur \in Tasks /\ Placed(d, Live(d, ex))
    BY DEF Chosen, Placed, PlacedBut, Memory
  <1>2. CASE d.cur # TID_NULL
    <2>1. Run(d) = d
      BY <1>1, <1>2, SameState DEF Run, Chosen
    <2>2. NullState(d, "READY")
      BY <1>2 DEF NullState
    <2>3. Scheduled(Run(d), ex) /\ Quiet(Run(d)) /\ Undisturbed(d, Run(d))
      BY <2>1, <2>2, ChosenRuns
    <2> QED
      BY <1>2, <2>1, <2>3 DEF Changed
  <1>3. CASE d.cur = TID_NULL
    <2>1. Run(d) = [d EXCEPT !.tcb[TID_NULL].state = "RUNNING"]
      BY <1>3 DEF Run
    <2>2. Marked(Run(d), d, Live(d, ex), TID_NULL, "RUNNING")
      <3>1. TID_NULL \in Live(d, ex) /\ "RUNNING" \in States
        BY DEF Live, States
      <3> QED
        BY <1>1, <2>1, <3>1, NullTask, SetStatePlaced
    <2>3. NullState(d, "RUNNING")
      BY <1>3 DEF NullState
    <2>4. /\ Scheduled(Run(d), ex) /\ Quiet(Run(d)) /\ Undisturbed(d, Run(d))
          /\ Run(d).cur = d.cur
      BY <2>2, <2>3, ChosenRuns
    <2> QED
      BY <1>3, <2>2, <2>4 DEF Marked
  <1> QED
    BY <1>2, <1>3

\* A choice of the scheduler is first come, first served.
LEMMA SwitchInTurn ==
    ASSUME NEW k, Memory(k), Levels(k), k.cur = TID_NULL \/ k.tcb[k.cur].state = "RUNNING",
           NEW j, Changed(j, k, k.cur),
           NEW R, \A u \in Tasks \ {TID_NULL} : k.tcb[u].state = "READY" => u \notin R,
           NEW d, Picked(d, j, R), NEW l, l.cur = d.cur, Changed(l, d, TID_NULL)
    PROVE  InTurn(k, l)
  <1>1. /\ Memory(k) /\ Levels(k) /\ d.cur \in Tasks
        /\ k.cur # TID_NULL => k.tcb[k.cur].state = "RUNNING"
    BY DEF Picked
  <1>2. PICK c, h : c = k.cur /\ h = d.cur
    OBVIOUS
  <1>3. /\ \A u \in Tasks : l.tcb[u].prio = k.tcb[u].prio
        /\ \A u \in Tasks : u \notin {c, h, TID_NULL} => l.tcb[u].state = k.tcb[u].state
    BY <1>2 DEF Changed, Picked
  <1>4. \A q \in Queues, u, v \in Tasks \ {c, h, TID_NULL} : Precedes(l, q, u, v) <=> Precedes(k, q, u, v)
    BY <1>2 DEF Changed, Picked
  <1>5. h # TID_NULL => l.tcb[h].state = "RUNNING"
    BY <1>1, <1>2 DEF Changed, Picked
  <1>6. \A x \in {c, h, TID_NULL} \ {TID_NULL} : ~Stays(k, l, x)
    BY <1>1, <1>2, <1>5 DEF Stays
  <1>7. ASSUME NEW t \in Tasks \ {TID_NULL}, Stays(k, l, t), t # h,
               k.tcb[h].state = "READY", k.tcb[h].prio = k.tcb[t].prio
        PROVE  Precedes(k, ReadyQ(k.tcb[t].prio), h, t)
    <2>1. InBounds(k.tcb[t].prio) /\ k.tcb[t].prio \in Prio
      BY <1>1, <1>7, MemoryFields DEF Levels, Stays
    <2>2. t # c /\ h # c
      <3>1. t # c
        BY <1>1, <1>2, <1>7 DEF Stays
      <3>2. h # TID_NULL
        BY <1>1, <1>7, <2>1 DEF Levels, InBounds
      <3> QED
        BY <1>1, <1>2, <1>7, <3>1, <3>2
    <2>3. t \notin R /\ j.tcb[t].state = "READY"
      BY <1>2, <1>7, <2>2 DEF Changed, Stays
    <2>4. j.tcb[t].prio = k.tcb[t].prio /\ j.tcb[h].prio = k.tcb[h].prio
      BY <1>1, <1>2 DEF Changed
    <2>5. Precedes(j, ReadyQ(k.tcb[t].prio), h, t)
      BY <1>2, <1>7, <2>3, <2>4 DEF Picked
    <2>6. ReadyQ(k.tcb[t].prio) \in Queues /\ h \in Tasks
      BY <1>1, <1>2, <2>1, ReadyQueueIds
    <2> QED
      BY <1>2, <2>2, <2>5, <2>6 DEF Changed
  <1>8. ASSUME NEW u \in Tasks \ {TID_NULL},
               k.tcb[u].state \notin {"READY", "RUNNING"}, l.tcb[u].state = "READY"
        PROVE  FALSE
    BY <1>1, <1>2, <1>3, <1>5, <1>8
  <1> QED
    BY <1>1, <1>2, <1>4, <1>6, <1>7, <1>8, InTurnFrom

\* k_tsk_run_new, when the caller is on a ready queue or blocked, or is the null task.
Redispatched(l, j, ex) ==
    /\ Scheduled(l, ex) /\ Quiet(l) /\ Undisturbed(j, l)
    /\ \E d : Picked(d, j, ex \cup {TID_NULL}) /\ l.cur = d.cur /\ Changed(l, d, TID_NULL)

Dispatchable(j, ex) ==
    /\ Placed(j, ex \cup {TID_NULL}) /\ Cleared(j, {}) /\ Levels(j)
    /\ ex \subseteq Tasks /\ TID_NULL \notin ex /\ j.cur \notin ex
    /\ \A u \in ex : j.tcb[u].state = "RUNNING"
    /\ \/ j.cur = TID_NULL /\ j.tcb[TID_NULL].state = "RUNNING"
       \/ /\ j.cur # TID_NULL /\ j.tcb[j.cur].state \in {"READY"} \cup Blocked
          /\ j.tcb[TID_NULL].state = "READY"

LEMMA RunNewRuns ==
    ASSUME NEW j, NEW ex, Dispatchable(j, ex), NEW l, l = RunNew(j)
    PROVE  Redispatched(l, j, ex)
  <1>1. PICK c : c = j.cur
    OBVIOUS
  <1>2. /\ Placed(j, ex \cup {TID_NULL}) /\ Cleared(j, {}) /\ Levels(j)
        /\ ex \in SUBSET Tasks /\ TID_NULL \notin ex /\ c \notin ex
        /\ \A u \in ex : j.tcb[u].state = "RUNNING"
        /\ c = TID_NULL => j.tcb[TID_NULL].state = "RUNNING"
        /\ c # TID_NULL => /\ j.tcb[c].state \in {"READY"} \cup Blocked
                           /\ j.tcb[TID_NULL].state = "READY"
    BY <1>1 DEF Dispatchable
  <1>3. c \in Tasks /\ j.tcb[c].real_time = FALSE
    BY <1>1, <1>2 DEF Placed, PlacedBut, Memory
  <1>4. PICK d : d = Dispatch(j)
    OBVIOUS
  <1>5. Picked(d, j, ex \cup {TID_NULL})
    BY <1>2, <1>4, DispatchPlaced
  <1>6. Chosen(d, ex)
    BY <1>2, <1>5, PickedChosen
  <1>7. d.cur \in Tasks /\ Changed(d, j, d.cur) /\ Memory(d)
    BY <1>5, <1>6 DEF Picked, Chosen, Placed, PlacedBut
  <1>8. Scheduled(l, ex) /\ Quiet(l) /\ Undisturbed(d, l) /\ l.cur = d.cur /\ Changed(l, d, TID_NULL)
    <2>1. CASE d.cur = c
      <3>1. l = d
        BY <1>1, <1>3, <1>4, <2>1 DEF RunNew
      <3>2. NullState(d, d.tcb[TID_NULL].state)
        <4>1. CASE c = TID_NULL
          BY <1>2, <1>5, <2>1, <4>1 DEF Picked, NullState
        <4>2. CASE c # TID_NULL
          BY <1>2, <1>7, <2>1, <4>2, NullTask DEF Changed, NullState
        <4> QED
          BY <4>1, <4>2
      <3>3. Scheduled(l, ex) /\ Quiet(l) /\ Undisturbed(d, l) /\ l.cur = d.cur
        BY <1>6, <3>1, <3>2, ChosenRuns
      <3> QED
        BY <3>1, <3>3 DEF Changed
    <2>2. CASE d.cur # c
      <3>1. l = [Run(d) EXCEPT !.tcb[c].state = IF @ \in Parked THEN @ ELSE "READY"]
        BY <1>1, <1>3, <1>4, <2>2 DEF RunNew
      <3>2. d.tcb[c].state = j.tcb[c].state
        BY <1>3, <1>7, <2>2 DEF Changed
      <3>3. CASE c = TID_NULL
        <4>1. d.cur # TID_NULL /\ d.tcb[d.cur].state = "RUNNING"
          BY <1>5, <2>2, <3>3 DEF Picked
        <4>2. Run(d) = d
          BY <1>7, <4>1, SameState DEF Run
        <4>3. l = [d EXCEPT !.tcb[TID_NULL].state = "READY"]
          BY <1>2, <3>1, <3>2, <3>3, <4>2 DEF Parked
        <4>4. TID_NULL \in Live(d, ex) /\ "READY" \in States /\ Placed(d, Live(d, ex))
          BY <1>6 DEF Live, States, Chosen
        <4>5. Marked(l, d, Live(d, ex), TID_NULL, "READY")
          BY <4>3, <4>4, NullTask, SetStatePlaced
        <4>6. NullState(d, "READY")
          BY <4>1 DEF NullState
        <4> QED
          BY <1>6, <4>5, <4>6, ChosenRuns DEF Marked
      <3>4. CASE c # TID_NULL
        <4>1. d.tcb[TID_NULL].state = "READY"
          BY <1>2, <1>5, <1>7, <3>4, NullTask DEF Picked, Changed
        <4>2. PICK e : e = Run(d)
          OBVIOUS
        <4>3. /\ Scheduled(e, ex) /\ Quiet(e) /\ Undisturbed(d, e)
              /\ e.cur = d.cur /\ Changed(e, d, TID_NULL)
          BY <1>6, <4>1, <4>2, RunChosen
        <4>4. e.tcb[c].state = j.tcb[c].state /\ Memory(e)
          BY <1>3, <3>2, <3>4, <4>3, CurrentTask DEF Changed
        <4>5. l = [e EXCEPT !.tcb[c].state = j.tcb[c].state]
          BY <1>2, <3>1, <3>4, <4>2, <4>4 DEF Parked, Blocked
        <4>6. l = e
          BY <1>3, <4>4, <4>5, SameState
        <4> QED
          BY <4>3, <4>6
      <3> QED
        BY <3>3, <3>4
    <2> QED
      BY <2>1, <2>2
  <1>9. Undisturbed(j, l)
    BY <1>5, <1>8, PickedUndisturbed, UndisturbedSteps
  <1> QED
    BY <1>5, <1>8, <1>9 DEF Redispatched

\* The caller goes to its ready queue before it: all is in turn.
LEMMA YieldsInTurn ==
    ASSUME NEW k, NEW ex, Scheduled(k, ex), NEW j, Changed(j, k, k.cur), NEW l,
           Redispatched(l, j, ex)
    PROVE  InTurn(k, l)
  <1>1. /\ Memory(k) /\ Levels(k) /\ k.tcb[k.cur].state = "RUNNING"
        /\ \A u \in Tasks \ {TID_NULL} : k.tcb[u].state = "READY" => u \notin ex \cup {TID_NULL}
    BY CurrentTask DEF Scheduled, Live
  <1>2. PICK d : Picked(d, j, ex \cup {TID_NULL}) /\ l.cur = d.cur /\ Changed(l, d, TID_NULL)
    BY DEF Redispatched
  <1> QED
    BY <1>1, <1>2, SwitchInTurn

\* k_tsk_yield
LEMMA YieldRuns ==
    ASSUME NEW k, NEW ex, Scheduled(k, ex), NEW l,
           l = RunNew(IF k.tcb[k.cur].prio = NULL_INDEX THEN k ELSE PushTailReady(k, k.cur))
    PROVE  Scheduled(l, ex) /\ Lawful(k, l)
  <1>1. PICK c : c = k.cur
    OBVIOUS
  <1>2. /\ Memory(k) /\ c \in Tasks /\ c \in Live(k, ex)
        /\ k.tcb[c].state = "RUNNING" /\ k.tcb[c].prio \in Prio
        /\ k.tcb[c].prio = NULL_INDEX <=> c = TID_NULL
    BY <1>1, CurrentTask
  <1>3. /\ Placed(k, Live(k, ex)) /\ Cleared(k, {}) /\ Levels(k)
        /\ ex \subseteq Tasks /\ c \notin ex /\ TID_NULL \notin ex
        /\ \A u \in ex : k.tcb[u].state = "RUNNING"
        /\ c # TID_NULL => k.tcb[TID_NULL].state = "READY"
    BY <1>1 DEF Scheduled
  <1>4. PICK j : j = IF c = TID_NULL THEN k ELSE PushTailReady(k, c)
    OBVIOUS
  <1>5. l = RunNew(j)
    BY <1>1, <1>2, <1>4
  <1>6. /\ Placed(j, ex \cup {TID_NULL}) /\ Cleared(j, {}) /\ j.cur = c /\ Changed(j, k, c)
        /\ c # TID_NULL => j.tcb[c].state = "READY"
        /\ c = TID_NULL => j = k
        /\ Undisturbed(k, j)
    <2>1. CASE c = TID_NULL
      <3>1. Live(k, ex) = ex \cup {TID_NULL}
        BY <1>1, <2>1 DEF Live
      <3>2. Undisturbed(k, k)
        BY AsideSame DEF Undisturbed
      <3> QED
        BY <1>1, <1>3, <1>4, <2>1, <3>1, <3>2 DEF Changed
    <2>2. CASE c # TID_NULL
      <3>1. InBounds(k.tcb[c].prio) /\ Cleared(k, {c})
        BY <1>2, <1>3, <2>2 DEF InBounds, Cleared
      <3>2. Pushed(j, k, Live(k, ex), c)
        BY <1>2, <1>3, <1>4, <2>2, <3>1, PushTailPlaced
      <3>3. Live(k, ex) \ {c} = ex \cup {TID_NULL}
        BY <1>1, <1>3, <2>2 DEF Live
      <3>4. /\ Placed(j, ex \cup {TID_NULL}) /\ Cleared(j, {}) /\ j.cur = c /\ Changed(j, k, c)
            /\ j.tcb[c].state = "READY" /\ Aside(j, k)
        BY <1>1, <3>2, <3>3 DEF Pushed
      <3>5. Undisturbed(k, j)
        BY <1>2, <3>4, OneUndisturbed DEF Changed, Blocked
      <3> QED
        BY <2>2, <3>4, <3>5
    <2> QED
      BY <2>1, <2>2
  <1>7. Levels(j) /\ (\A u \in ex : j.tcb[u].state = "RUNNING")
    <2>1. j.tcb[TID_NULL].prio = NULL_INDEX
      BY <1>3, <1>6, NullTask DEF Levels, Changed
    <2>2. ASSUME NEW u \in Tasks \ {TID_NULL}
          PROVE  j.tcb[u].state = "DORMANT" \/ InBounds(j.tcb[u].prio)
      BY <1>2, <1>3, <1>6, <2>2 DEF Levels, Changed
    <2>3. \A u \in ex : j.tcb[u].state = "RUNNING"
      BY <1>3, <1>6 DEF Changed
    <2> QED
      BY <2>1, <2>2, <2>3 DEF Levels
  <1>8. c = TID_NULL => j.tcb[TID_NULL].state = "RUNNING"
    BY <1>2, <1>6
  <1>9. c # TID_NULL => j.tcb[TID_NULL].state = "READY"
    BY <1>3, <1>6, NullTask DEF Changed
  <1>10. Dispatchable(j, ex)
    BY <1>3, <1>6, <1>7, <1>8, <1>9 DEF Dispatchable
  <1>11. Redispatched(l, j, ex)
    BY <1>5, <1>10, RunNewRuns
  <1>12. InTurn(k, l)
    BY <1>1, <1>6, <1>11, YieldsInTurn
  <1>13. Scheduled(l, ex) /\ NoneNew(k, l) /\ Undisturbed(k, l)
    BY <1>6, <1>11, QuietNoneNew, UndisturbedSteps DEF Redispatched
  <1> QED
    BY <1>12, <1>13 DEF Lawful

\* k_tsk_exit, of a task other than the null task.
LEMMA ExitRuns ==
    ASSUME NEW k, NEW ex, Scheduled(k, ex), k.cur # TID_NULL,
           NEW l, l = Run(Dispatch(k))
    PROVE  Scheduled(l, ex \cup {k.cur}) /\ Lawful(k, l)
  <1>1. PICK ex2 : ex2 = ex \cup {k.cur}
    OBVIOUS
  <1>2. /\ Memory(k) /\ k.cur \in Tasks /\ k.tcb[k.cur].state = "RUNNING"
        /\ \A u \in Tasks \ {TID_NULL} : k.tcb[u].state = "READY" => u \notin Live(k, ex)
    BY CurrentTask
  <1>3. /\ Placed(k, ex2 \cup {TID_NULL}) /\ Cleared(k, {}) /\ Levels(k)
        /\ ex2 \in SUBSET Tasks /\ TID_NULL \notin ex2
        /\ \A u \in ex2 : k.tcb[u].state = "RUNNING"
        /\ k.tcb[TID_NULL].state = "READY"
        /\ ex2 \cup {TID_NULL} = Live(k, ex)
    <2>1. ex2 \cup {TID_NULL} = Live(k, ex)
      BY <1>1 DEF Live
    <2> QED
      BY <1>1, <1>2, <2>1 DEF Scheduled
  <1>4. PICK d : d = Dispatch(k)
    OBVIOUS
  <1>5. Picked(d, k, ex2 \cup {TID_NULL})
    BY <1>3, <1>4, DispatchPlaced
  <1>6. Chosen(d, ex2)
    BY <1>3, <1>5, PickedChosen
  <1>7. d.tcb[TID_NULL].state = "READY"
    BY <1>3, <1>5, NullTask DEF Picked, Changed
  <1>8. /\ Scheduled(l, ex2) /\ Quiet(l) /\ Undisturbed(d, l)
        /\ l.cur = d.cur /\ Changed(l, d, TID_NULL)
    BY <1>4, <1>6, <1>7, RunChosen
  <1>9. Changed(k, k, k.cur)
    BY DEF Changed
  <1>10. InTurn(k, l)
    BY <1>2, <1>3, <1>5, <1>8, <1>9, SwitchInTurn
  <1>11. NoneNew(k, l) /\ Undisturbed(k, l)
    BY <1>5, <1>8, QuietNoneNew, PickedUndisturbed, UndisturbedSteps
  <1> QED
    BY <1>1, <1>8, <1>10, <1>11 DEF Lawful

\* A new task enters at the tail of the ready queue of its priority.
Entered(l, k, R, t, p) ==
    /\ Placed(l, R) /\ Cleared(l, {}) /\ l.cur = k.cur /\ Aside(l, k)
    /\ \A u \in Tasks : u # t => l.tcb[u].state = k.tcb[u].state /\ l.tcb[u].prio = k.tcb[u].prio
    /\ l.tcb[t].prio = p /\ l.tcb[t].state = "READY"
    /\ \A q \in Queues, u, v \in Tasks \ {t} : Precedes(l, q, u, v) <=> Precedes(k, q, u, v)
    /\ \A u \in TasksOf(k, ReadyQ(p)) : Precedes(l, ReadyQ(p), u, t)

LEMMA NewAtTail ==
    ASSUME NEW k, NEW R, Placed(k, R), Cleared(k, {}), NEW t \in Tasks, t \notin R,
           k.tcb[t].state = "DORMANT", NEW p \in Prio, InBounds(p), NEW priv \in BOOLEAN
    PROVE  Entered(PushTailReady(CreateNew(k, t, p, priv), t), k, R, t, p)
  <1>1. PICK j : j = CreateNew(k, t, p, priv)
    OBVIOUS
  <1>2. Born(j, k, R, t, p)
    BY <1>1, CreateNewPlaced
  <1>3. /\ Placed(j, R \cup {t}) /\ Cleared(j, {}) /\ j.cur = k.cur /\ Aside(j, k)
        /\ \A u \in Tasks : u # t => j.tcb[u] = k.tcb[u]
        /\ j.tcb[t].prio = p /\ j.tcb[t].state = "READY"
        /\ \A q \in Queues : TasksOf(j, q) = TasksOf(k, q)
        /\ \A q \in Queues, u, v \in Tasks : Precedes(j, q, u, v) <=> Precedes(k, q, u, v)
    BY <1>2 DEF Born
  <1>4. t # TID_NULL /\ Cleared(j, {t}) /\ ReadyQ(p) \in Queues
    BY <1>3, ReadyQueueIds DEF Placed, PlacedBut, Cleared
  <1>5. PICK l : l = PushTailReady(j, t)
    OBVIOUS
  <1>6. /\ Pushed(l, j, R \cup {t}, t)
        /\ \A u \in TasksOf(j, ReadyQ(p)) : Precedes(l, ReadyQ(p), u, t)
    BY <1>3, <1>4, <1>5, PushTailPlaced
  <1>7. (R \cup {t}) \ {t} = R
    OBVIOUS
  <1>8. /\ Placed(l, R) /\ Cleared(l, {}) /\ l.cur = k.cur /\ Changed(l, j, t)
        /\ l.tcb[t].state = "READY" /\ Aside(l, k)
    BY <1>3, <1>6, <1>7, AsideSteps DEF Pushed
  <1>9. /\ \A u \in Tasks : u # t => l.tcb[u].state = k.tcb[u].state /\ l.tcb[u].prio = k.tcb[u].prio
        /\ l.tcb[t].prio = p
    BY <1>3, <1>8 DEF Changed
  <1>10. \A q \in Queues, u, v \in Tasks \ {t} : Precedes(l, q, u, v) <=> Precedes(k, q, u, v)
    BY <1>3, <1>8 DEF Changed
  <1>11. \A u \in TasksOf(k, ReadyQ(p)) : Precedes(l, ReadyQ(p), u, t)
    BY <1>3, <1>4, <1>6
  <1> QED
    BY <1>1, <1>5, <1>8, <1>9, <1>10, <1>11 DEF Entered

LEMMA EnteredInTurn ==
    ASSUME NEW k, NEW R, Placed(k, R), Levels(k), NEW t \in Tasks, t \notin R,
           k.tcb[t].state = "DORMANT", NEW p, NEW l, Entered(l, k, R, t, p),
           k.cur = TID_NULL \/ k.tcb[k.cur].state = "RUNNING",
           \A u \in Tasks \ {TID_NULL} : k.tcb[u].state = "READY" => u \notin R
    PROVE  InTurn(k, l) /\ Levels(k)
  <1>1. Memory(k) /\ t # TID_NULL /\ k.tcb[TID_NULL].prio = NULL_INDEX
    BY DEF Placed, PlacedBut, Levels
  <1>2. ~Stays(k, l, t)
    BY DEF Stays
  <1>3. \A q \in Queues, u, v \in Tasks \ {t} : Precedes(l, q, u, v) <=> Precedes(k, q, u, v)
    BY DEF Entered
  <1>4. ASSUME NEW v \in Tasks \ {TID_NULL}, Stays(k, l, v), k.tcb[l.cur].state = "READY",
               k.tcb[l.cur].prio = k.tcb[v].prio
        PROVE  FALSE
    <2>1. l.cur = TID_NULL
      BY <1>4 DEF Entered
    <2>2. k.tcb[v].prio = NULL_INDEX
      BY <1>1, <1>4, <2>1
    <2> QED
      BY <1>4, <2>2 DEF Levels, Stays, InBounds
  <1>5. ASSUME NEW v \in Tasks \ {TID_NULL}, NEW u \in Tasks \ {TID_NULL}, Stays(k, l, v), v # u,
               l.tcb[u].prio = k.tcb[v].prio, k.tcb[u].state \notin {"READY", "RUNNING"},
               l.tcb[u].state = "READY"
        PROVE  Precedes(l, ReadyQ(k.tcb[v].prio), v, u)
    <2>1. u = t /\ k.tcb[v].prio = p
      BY <1>5 DEF Entered
    <2>2. v \in TasksOf(k, ReadyQ(p))
      <3>1. v \in Tasks \ R /\ k.tcb[v].state = "READY"
        BY <1>5 DEF Stays
      <3> QED
        BY <2>1, <3>1, ReadyTask
    <2> QED
      BY <2>1, <2>2 DEF Entered
  <1> QED
    BY <1>1, <1>2, <1>3, <1>4, <1>5, InTurnFrom

LEMMA EnteredLevels ==
    ASSUME NEW k, Levels(k), NEW t \in Tasks, t # TID_NULL, NEW R, NEW p, InBounds(p),
           NEW l, Entered(l, k, R, t, p)
    PROVE  Levels(l)
  <1>1. l.tcb[TID_NULL].prio = NULL_INDEX
    BY NullTask DEF Entered, Levels
  <1>2. ASSUME NEW u \in Tasks \ {TID_NULL}
        PROVE  l.tcb[u].state = "DORMANT" \/ InBounds(l.tcb[u].prio)
    BY <1>2 DEF Entered, Levels
  <1> QED
    BY <1>1, <1>2 DEF Levels

\* k_tsk_create of a task that does not outrank its creator.
LEMMA CreateQueuesRuns ==
    ASSUME NEW k, NEW ex, Scheduled(k, ex), NEW t \in Tasks, k.tcb[t].state = "DORMANT",
           NEW p \in Prio, InBounds(p), p >= k.tcb[k.cur].prio, NEW priv \in BOOLEAN,
           NEW l, l = PushTailReady(CreateNew(k, t, p, priv), t)
    PROVE  Scheduled(l, ex) /\ Lawful(k, l)
  <1>1. /\ Memory(k) /\ k.cur \in Tasks /\ k.tcb[k.cur].state = "RUNNING"
        /\ t \notin Live(k, ex)
        /\ \A u \in Tasks \ {TID_NULL} : k.tcb[u].state = "READY" => u \notin Live(k, ex)
    BY CurrentTask
  <1>2. /\ Placed(k, Live(k, ex)) /\ Cleared(k, {}) /\ Levels(k)
        /\ ex \subseteq Tasks /\ k.cur \notin ex /\ TID_NULL \notin ex
        /\ \A u \in ex \cup {k.cur} : k.tcb[u].state = "RUNNING"
        /\ k.cur # TID_NULL => k.tcb[TID_NULL].state = "READY"
    BY DEF Scheduled
  <1>3. Entered(l, k, Live(k, ex), t, p)
    BY <1>1, <1>2, NewAtTail
  <1>4. InTurn(k, l)
    BY <1>1, <1>2, <1>3, EnteredInTurn
  <1>5. t # TID_NULL /\ t # k.cur /\ t \notin ex
    BY <1>1 DEF Live
  <1>6. Levels(l)
    BY <1>2, <1>3, <1>5, EnteredLevels
  <1>7. /\ Placed(l, Live(l, ex)) /\ Cleared(l, {}) /\ l.cur = k.cur /\ Aside(l, k)
        /\ \A u \in Tasks : u # t => l.tcb[u].state = k.tcb[u].state /\ l.tcb[u].prio = k.tcb[u].prio
        /\ l.tcb[t].prio = p /\ l.tcb[t].state = "READY"
    BY <1>3 DEF Entered, Live
  <1>8. /\ \A u \in ex \cup {l.cur} : l.tcb[u].state = "RUNNING"
        /\ l.cur # TID_NULL => l.tcb[TID_NULL].state = "READY"
    BY <1>1, <1>2, <1>5, <1>7, NullTask
  <1>9. ASSUME NEW u \in Tasks, Outranking(l, u) PROVE Outranking(k, u)
    <2>1. l.tcb[l.cur].prio = k.tcb[k.cur].prio
      BY <1>1, <1>5, <1>7
    <2>2. u # t
      BY <1>1, <1>7, <1>9, <2>1, MemoryFields, ReadyQueueIds DEF Outranking
    <2> QED
      BY <1>7, <1>9, <2>1, <2>2 DEF Outranking
  <1>10. Undisturbed(k, l)
    BY <1>7, OneUndisturbed DEF Blocked
  <1>11. Scheduled(l, ex)
    BY <1>2, <1>6, <1>7, <1>8 DEF Scheduled
  <1> QED
    BY <1>4, <1>9, <1>10, <1>11 DEF Lawful, NoneNew

\* k_tsk_create of a task that does: it runs, and its creator goes to the head of
\* its own ready queue.
LEMMA CreatePreemptsRuns ==
    ASSUME NEW k, NEW ex, Scheduled(k, ex), k.cur # TID_NULL,
           NEW t \in Tasks, k.tcb[t].state = "DORMANT",
           NEW p \in Prio, InBounds(p), ~(p >= k.tcb[k.cur].prio), NEW priv \in BOOLEAN,
           NEW l, l = PushHeadReady(Run([CreateNew(k, t, p, priv) EXCEPT !.cur = t]), k.cur)
    PROVE  Scheduled(l, ex) /\ Lawful(k, l)
  <1>1. PICK c : c = k.cur
    OBVIOUS
  <1>2. /\ Memory(k) /\ c \in Tasks /\ c \in Live(k, ex) /\ k.tcb[c].state = "RUNNING"
        /\ t \notin Live(k, ex) /\ k.tcb[c].prio \in Prio
        /\ k.tcb[c].prio = NULL_INDEX <=> c = TID_NULL
        /\ \A u \in Tasks \ {TID_NULL} : k.tcb[u].state = "READY" => u \notin Live(k, ex)
    BY <1>1, CurrentTask
  <1>3. /\ Placed(k, Live(k, ex)) /\ Cleared(k, {}) /\ Levels(k)
        /\ ex \subseteq Tasks /\ c \notin ex /\ TID_NULL \notin ex /\ c # TID_NULL
        /\ \A u \in ex : k.tcb[u].state = "RUNNING"
        /\ k.tcb[TID_NULL].state = "READY"
    BY <1>1 DEF Scheduled
  <1>4. t # TID_NULL /\ t # c /\ t \notin ex
    BY <1>1, <1>2 DEF Live
  <1>5. PICK R : R = Live(k, ex) \cup {t}
    OBVIOUS
  <1>6. PICK a : a = CreateNew(k, t, p, priv)
    OBVIOUS
  <1>7. Born(a, k, Live(k, ex), t, p)
    BY <1>2, <1>3, <1>6, CreateNewPlaced
  <1>8. /\ Placed(a, R) /\ Cleared(a, {}) /\ a.cur = c /\ Aside(a, k)
        /\ \A u \in Tasks : u # t => a.tcb[u] = k.tcb[u]
        /\ a.tcb[t].prio = p /\ a.tcb[t].state = "READY"
        /\ \A q \in Queues, u, v \in Tasks : Precedes(a, q, u, v) <=> Precedes(k, q, u, v)
    BY <1>1, <1>3, <1>5, <1>7 DEF Born
  <1>9. PICK b : b = [a EXCEPT !.cur = t]
    OBVIOUS
  <1>10. Pointed(b, a, R, t)
    BY <1>8, <1>9, SetCurPlaced
  <1>11. /\ Placed(b, R) /\ Cleared(b, {}) /\ b.cur = t /\ b.tcb = a.tcb /\ Changed(b, a, t)
         /\ Aside(b, k)
    BY <1>8, <1>10, AsideSteps DEF Pointed
  <1>12. PICK d : d = [b EXCEPT !.tcb[t].state = "RUNNING"]
    OBVIOUS
  <1>13. Marked(d, b, R, t, "RUNNING")
    BY <1>5, <1>11, <1>12, SetStatePlaced DEF States
  <1>14. /\ Placed(d, R) /\ Cleared(d, {}) /\ d.cur = t /\ Changed(d, b, t)
         /\ d.tcb[t].state = "RUNNING" /\ Aside(d, k)
    BY <1>11, <1>13, AsideSteps DEF Marked
  <1>15. l = PushHeadReady(d, c)
    BY <1>1, <1>6, <1>9, <1>11, <1>12 DEF Run
  <1>16. d.tcb[c].prio = k.tcb[c].prio /\ d.tcb[c].state = "RUNNING"
    BY <1>2, <1>4, <1>8, <1>11, <1>14 DEF Changed
  <1>17. Pushed(l, d, R, c)
    <2>1. InBounds(d.tcb[c].prio) /\ c \in R
      BY <1>2, <1>3, <1>5, <1>16 DEF InBounds
    <2> QED
      BY <1>2, <1>3, <1>14, <1>15, <1>16, <2>1, PushHeadPlaced
  <1>18. /\ Placed(l, R \ {c}) /\ Cleared(l, {}) /\ l.cur = t
         /\ Changed(l, d, c) /\ l.tcb[c].state = "READY" /\ Aside(l, k)
    BY <1>14, <1>17, AsideSteps DEF Pushed
  <1>19. R \ {c} = Live(l, ex)
    BY <1>1, <1>3, <1>4, <1>5, <1>18 DEF Live
  <1>20. /\ \A u \in Tasks : u \notin {c, t} =>
               l.tcb[u].state = k.tcb[u].state /\ l.tcb[u].prio = k.tcb[u].prio
         /\ l.tcb[c].prio = k.tcb[c].prio /\ l.tcb[t].prio = p /\ l.tcb[t].state = "RUNNING"
    BY <1>2, <1>4, <1>8, <1>11, <1>14, <1>16, <1>18 DEF Changed
  <1>21. \A q \in Queues, u, v \in Tasks \ {c, t} : Precedes(l, q, u, v) <=> Precedes(k, q, u, v)
    BY <1>8, <1>11, <1>14, <1>18 DEF Changed
  <1>22. Levels(l)
    <2>1. l.tcb[TID_NULL].prio = NULL_INDEX
      BY <1>3, <1>4, <1>20, NullTask DEF Levels
    <2>2. ASSUME NEW u \in Tasks \ {TID_NULL}
          PROVE  l.tcb[u].state = "DORMANT" \/ InBounds(l.tcb[u].prio)
      BY <1>2, <1>3, <1>20, <2>2 DEF Levels
    <2> QED
      BY <2>1, <2>2 DEF Levels
  <1>23. /\ \A u \in ex \cup {t} : l.tcb[u].state = "RUNNING"
         /\ l.tcb[TID_NULL].state = "READY"
    BY <1>3, <1>4, <1>20, NullTask
  <1>24. ASSUME NEW u \in Tasks, Outranking(l, u) PROVE Outranking(k, u)
    <2>1. l.tcb[u].state = "READY" /\ l.tcb[u].prio < p /\ u # t
      BY <1>18, <1>20, <1>24 DEF Outranking
    <2>2. k.tcb[u].prio \in Int /\ k.tcb[c].prio \in Int /\ p \in Int
      BY <1>2, MemoryFields, ReadyQueueIds
    <2>3. u # c
      BY <1>1, <1>20, <2>1, <2>2
    <2> QED
      BY <1>1, <1>20, <2>1, <2>2, <2>3 DEF Outranking
  <1>25. Scheduled(l, ex)
    BY <1>3, <1>4, <1>18, <1>19, <1>22, <1>23 DEF Scheduled
  <1>26. InTurn(k, l)
    <2>1. ~Stays(k, l, c) /\ ~Stays(k, l, t)
      BY <1>2, <1>20 DEF Stays
    <2>2. k.tcb[l.cur].state # "READY"
      BY <1>18
    <2>3. ASSUME NEW u \in Tasks, k.tcb[u].state \notin {"READY", "RUNNING"}, l.tcb[u].state = "READY"
          PROVE  FALSE
      BY <1>2, <1>20, <2>3
    <2> QED
      BY <1>2, <1>3, <1>21, <2>1, <2>2, <2>3, InTurnFrom
  <1>27. Undisturbed(k, l)
    <2>1. \A u \in {c, t} : l.tcb[u].state \notin Blocked /\ k.tcb[u].state \notin Blocked
      BY <1>2, <1>18, <1>20 DEF Blocked
    <2> QED
      BY <1>18, <1>20, <2>1 DEF Undisturbed
  <1> QED
    BY <1>24, <1>25, <1>26, <1>27 DEF Lawful, NoneNew

\* A READY task is given another priority and taken off its queue.  Out of the
\* middle of it, it keeps its links.
Drawn(j, k, R, t, p) ==
    /\ Placed(j, R \cup {t}) /\ Cleared(j, {t}) /\ j.cur = k.cur /\ Aside(j, k)
    /\ t \in {k.queue[ReadyQ(k.tcb[t].prio)].HEAD, k.queue[ReadyQ(k.tcb[t].prio)].TAIL}
       => Cleared(j, {})
    /\ \A u \in Tasks : u # t => j.tcb[u].state = k.tcb[u].state /\ j.tcb[u].prio = k.tcb[u].prio
    /\ j.tcb[t].prio = p /\ j.tcb[t].state = "READY"
    /\ \A q \in Queues, u, v \in Tasks \ {t} : Precedes(j, q, u, v) <=> Precedes(k, q, u, v)

LEMMA DrawnFrom ==
    ASSUME NEW k, NEW R, Placed(k, R), Cleared(k, {}), NEW t \in Tasks \ R,
           k.tcb[t].state = "READY", NEW p \in Prio
    PROVE  Drawn(PopTask([k EXCEPT !.tcb[t].prio = p], t, ReadyQ(k.tcb[t].prio)), k, R, t, p)
  <1>1. PICK q : q = ReadyQ(k.tcb[t].prio)
    OBVIOUS
  <1>2. q \in Queues /\ t \in TasksOf(k, q)
    BY <1>1, ReadyTask
  <1>3. PICK a : a = [k EXCEPT !.tcb[t].prio = p]
    OBVIOUS
  <1>4. Reprioritised(a, k, R, t, p)
    BY <1>3, SetPrioPlaced
  <1>5. /\ PlacedBut(a, R, {t}) /\ Cleared(a, {}) /\ a.cur = k.cur /\ a.queue = k.queue
        /\ Aside(a, k)
        /\ \A u \in Tasks : u # t => a.tcb[u] = k.tcb[u]
        /\ a.tcb[t].prio = p /\ a.tcb[t].state = "READY"
        /\ TasksOf(a, q) = TasksOf(k, q)
        /\ \A r \in Queues, u, v \in Tasks : Precedes(a, r, u, v) <=> Precedes(k, r, u, v)
    BY <1>2, <1>4 DEF Reprioritised
  <1>6. Memory(a) /\ Lists(a) /\ t \in TasksOf(a, q)
    BY <1>2, <1>5 DEF PlacedBut
  <1>7. PICK j : j = PopTask(a, t, q)
    OBVIOUS
  <1>8. /\ Shifted(j, a, q, t, TasksOf(a, q) \ {t})
        /\ j.tcb[t].state = "READY"
        /\ t \in {a.queue[q].HEAD, a.queue[q].TAIL} => j.tcb[t].next = NULL
    <2>1. /\ Shifted(j, a, q, t, TasksOf(a, q) \ {t})
          /\ j.tcb[t].state \in {a.tcb[t].state, "READY"}
          /\ t \in {a.queue[q].HEAD, a.queue[q].TAIL} => j.tcb[t].next = NULL
      BY <1>2, <1>6, <1>7, PopTaskLists
    <2> QED
      BY <1>5, <2>1
  <1>9. /\ Placed(j, R \cup {t}) /\ j.cur = a.cur /\ Changed(j, a, t)
        /\ Cleared(j, {t}) /\ (j.tcb[t].next = NULL => Cleared(j, {})) /\ Aside(j, a)
    <2>1. PlacedBut(a, R, {t}) /\ Cleared(a, {}) /\ Shifted(j, a, q, t, TasksOf(a, q) \ {t})
      BY <1>5, <1>8
    <2>2. q \in Queues /\ t \in Tasks /\ t \in TasksOf(a, q)
      BY <1>2, <1>6
    <2>3. Taken(j, a, R, t) /\ Aside(j, a)
      BY <1>1, <2>1, <2>2, TakenPlaced
    <2> QED
      BY <2>1, <2>3 DEF Taken
  <1>10. /\ \A u \in Tasks : u # t => j.tcb[u].state = k.tcb[u].state /\ j.tcb[u].prio = k.tcb[u].prio
         /\ j.tcb[t].prio = p
    BY <1>5, <1>9 DEF Changed
  <1>11. \A r \in Queues, u, v \in Tasks \ {t} : Precedes(j, r, u, v) <=> Precedes(k, r, u, v)
    BY <1>5, <1>9 DEF Changed
  <1>12. t \in {k.queue[q].HEAD, k.queue[q].TAIL} => Cleared(j, {})
    BY <1>5, <1>8, <1>9
  <1>13. Aside(j, k)
    BY <1>5, <1>9, AsideSteps
  <1> QED
    BY <1>1, <1>3, <1>5, <1>7, <1>8, <1>9, <1>10, <1>11, <1>12, <1>13 DEF Drawn

\* When nothing changes, everybody keeps the place it has.
LEMMA SameLawful ==
    ASSUME NEW k, NEW ex, Scheduled(k, ex)
    PROVE  Lawful(k, k)
  <1>1. InTurn(k, k)
    BY CurrentTask DEF InTurn
  <1>2. NoneNew(k, k) /\ Undisturbed(k, k)
    BY AsideSame DEF NoneNew, Undisturbed
  <1> QED
    BY <1>1, <1>2 DEF Lawful

\* What Scheduled says of a target of k_tsk_set_prio other than the caller.
LEMMA TargetTask ==
    ASSUME NEW k, NEW ex, Scheduled(k, ex), NEW t \in Tasks \ ex, t # TID_NULL, t # k.cur,
           k.tcb[t].state = "READY"
    PROVE  /\ t \notin Live(k, ex) /\ InBounds(k.tcb[t].prio)
           /\ k.tcb[t].prio \in RT_INDEX .. LOWEST_INDEX
           /\ t \in TasksOf(k, ReadyQ(k.tcb[t].prio))
  <1>1. t \in Tasks \ Live(k, ex) /\ Placed(k, Live(k, ex))
    BY DEF Live, Scheduled
  <1> QED
    BY <1>1, ReadyTask

\* k_tsk_set_prio of another task that does not come to outrank the caller.
LEMMA SetPrioMoveRuns ==
    ASSUME NEW k, NEW ex, Scheduled(k, ex), NEW t \in Tasks \ ex, t # TID_NULL, t # k.cur,
           k.tcb[t].state = "READY", NEW p \in Prio, InBounds(p), p # k.tcb[t].prio,
           ~(k.tcb[k.cur].prio > p), NEW l, l = SetPrioMove(k, t, p)
    PROVE  Scheduled(l, ex) /\ Lawful(k, l)
  <1>1. /\ Memory(k) /\ k.cur \in Tasks /\ k.tcb[k.cur].state = "RUNNING"
        /\ k.tcb[k.cur].prio \in Prio
    BY CurrentTask
  <1>2. /\ Placed(k, Live(k, ex)) /\ Cleared(k, {}) /\ Levels(k)
        /\ ex \subseteq Tasks /\ k.cur \notin ex /\ TID_NULL \notin ex
        /\ \A u \in ex \cup {k.cur} : k.tcb[u].state = "RUNNING"
        /\ k.cur # TID_NULL => k.tcb[TID_NULL].state = "READY"
    BY DEF Scheduled
  <1>3. t \notin Live(k, ex) /\ k.tcb[t].state = "READY"
    BY TargetTask
  <1>4. PICK j : j = PopTask([k EXCEPT !.tcb[t].prio = p], t, ReadyQ(k.tcb[t].prio))
    OBVIOUS
  <1>5. Drawn(j, k, Live(k, ex), t, p)
    BY <1>2, <1>3, <1>4, DrawnFrom
  <1>6. /\ Placed(j, Live(k, ex) \cup {t}) /\ Cleared(j, {t}) /\ j.cur = k.cur /\ Aside(j, k)
        /\ \A u \in Tasks : u # t => j.tcb[u].state = k.tcb[u].state /\ j.tcb[u].prio = k.tcb[u].prio
        /\ j.tcb[t].prio = p /\ j.tcb[t].state = "READY"
        /\ \A q \in Queues, u, v \in Tasks \ {t} : Precedes(j, q, u, v) <=> Precedes(k, q, u, v)
    BY <1>5 DEF Drawn
  <1>7. l = PushTailReady(j, t)
    BY <1>4 DEF SetPrioMove
  <1>8. Pushed(l, j, Live(k, ex) \cup {t}, t)
    BY <1>6, <1>7, PushTailPlaced
  <1>9. /\ Placed(l, Live(k, ex)) /\ Cleared(l, {}) /\ l.cur = k.cur /\ Changed(l, j, t)
        /\ l.tcb[t].state = "READY" /\ Aside(l, k)
    <2>1. (Live(k, ex) \cup {t}) \ {t} = Live(k, ex)
      BY <1>3
    <2> QED
      BY <1>6, <1>8, <2>1, AsideSteps DEF Pushed
  <1>10. /\ \A u \in Tasks : u # t => l.tcb[u].state = k.tcb[u].state /\ l.tcb[u].prio = k.tcb[u].prio
         /\ l.tcb[t].prio = p
    BY <1>6, <1>9 DEF Changed
  <1>11. Live(l, ex) = Live(k, ex)
    BY <1>9 DEF Live
  <1>12. Levels(l)
    <2>1. l.tcb[TID_NULL].prio = NULL_INDEX
      BY <1>2, <1>10, NullTask DEF Levels
    <2>2. ASSUME NEW u \in Tasks \ {TID_NULL}
          PROVE  l.tcb[u].state = "DORMANT" \/ InBounds(l.tcb[u].prio)
      BY <1>2, <1>10, <2>2 DEF Levels
    <2> QED
      BY <2>1, <2>2 DEF Levels
  <1>13. /\ \A u \in ex \cup {l.cur} : l.tcb[u].state = "RUNNING"
         /\ l.cur # TID_NULL => l.tcb[TID_NULL].state = "READY"
    BY <1>1, <1>2, <1>9, <1>10, NullTask
  <1>14. ASSUME NEW u \in Tasks, Outranking(l, u) PROVE Outranking(k, u)
    <2>1. l.tcb[l.cur].prio = k.tcb[k.cur].prio
      BY <1>1, <1>9, <1>10
    <2>2. u # t
      BY <1>1, <1>10, <1>14, <2>1, ReadyQueueIds DEF Outranking
    <2> QED
      BY <1>10, <1>14, <2>1, <2>2 DEF Outranking
  <1>15. Scheduled(l, ex)
    BY <1>2, <1>9, <1>11, <1>12, <1>13 DEF Scheduled
  <1>16. InTurn(k, l)
    <2>1. ~Stays(k, l, t)
      BY <1>10 DEF Stays
    <2>2. k.tcb[l.cur].state # "READY"
      BY <1>1, <1>9
    <2>3. ASSUME NEW u \in Tasks, k.tcb[u].state \notin {"READY", "RUNNING"}, l.tcb[u].state = "READY"
          PROVE  FALSE
      BY <1>3, <1>10, <2>3
    <2>4. \A q \in Queues, u, v \in Tasks \ {t} : Precedes(l, q, u, v) <=> Precedes(k, q, u, v)
      BY <1>6, <1>9 DEF Changed
    <2> QED
      BY <1>1, <1>2, <2>1, <2>2, <2>3, <2>4, InTurnFrom
  <1>17. Undisturbed(k, l)
    BY <1>9, <1>10, OneUndisturbed DEF Blocked
  <1> QED
    BY <1>14, <1>15, <1>16, <1>17 DEF Lawful, NoneNew

\* k_tsk_set_prio of another task that comes to outrank the caller, and was not
\* in the middle of its queue.
LEMMA SetPrioPreemptRuns ==
    ASSUME NEW k, NEW ex, Scheduled(k, ex), k.cur # TID_NULL,
           NEW t \in Tasks \ ex, t # TID_NULL, t # k.cur,
           k.tcb[t].state = "READY", NEW p \in Prio, InBounds(p), p # k.tcb[t].prio,
           k.tcb[k.cur].prio > p,
           t \in {k.queue[ReadyQ(k.tcb[t].prio)].HEAD, k.queue[ReadyQ(k.tcb[t].prio)].TAIL},
           NEW l, l = SetPrioPreempt(k, t, p)
    PROVE  Scheduled(l, ex) /\ Lawful(k, l)
  <1>1. PICK c : c = k.cur
    OBVIOUS
  <1>2. /\ Memory(k) /\ c \in Tasks /\ c \in Live(k, ex) /\ k.tcb[c].state = "RUNNING"
        /\ k.tcb[c].prio \in Prio
        /\ k.tcb[c].prio = NULL_INDEX <=> c = TID_NULL
        /\ \A u \in Tasks \ {TID_NULL} : k.tcb[u].state = "READY" => u \notin Live(k, ex)
    BY <1>1, CurrentTask
  <1>3. /\ Placed(k, Live(k, ex)) /\ Cleared(k, {}) /\ Levels(k)
        /\ ex \subseteq Tasks /\ c \notin ex /\ TID_NULL \notin ex /\ c # TID_NULL /\ t # c
        /\ \A u \in ex : k.tcb[u].state = "RUNNING"
        /\ k.tcb[TID_NULL].state = "READY"
    BY <1>1 DEF Scheduled
  <1>4. t \notin Live(k, ex) /\ k.tcb[t].state = "READY"
    BY TargetTask
  <1>5. PICK R : R = Live(k, ex) \cup {t}
    OBVIOUS
  <1>6. PICK j : j = PopTask([k EXCEPT !.tcb[t].prio = p], t, ReadyQ(k.tcb[t].prio))
    OBVIOUS
  <1>7. Drawn(j, k, Live(k, ex), t, p)
    BY <1>3, <1>4, <1>6, DrawnFrom
  <1>8. /\ Placed(j, R) /\ Cleared(j, {}) /\ j.cur = c /\ Aside(j, k)
        /\ \A u \in Tasks : u # t => j.tcb[u].state = k.tcb[u].state /\ j.tcb[u].prio = k.tcb[u].prio
        /\ j.tcb[t].prio = p /\ j.tcb[t].state = "READY"
        /\ \A q \in Queues, u, v \in Tasks \ {t} : Precedes(j, q, u, v) <=> Precedes(k, q, u, v)
    BY <1>1, <1>5, <1>7 DEF Drawn
  <1>9. PICK a : a = PushHeadReady(j, c)
    OBVIOUS
  <1>10. Pushed(a, j, R, c)
    <2>1. c \in R /\ InBounds(j.tcb[c].prio) /\ j.tcb[c].state = "RUNNING"
      BY <1>2, <1>3, <1>5, <1>8 DEF InBounds
    <2> QED
      BY <1>2, <1>3, <1>8, <1>9, <2>1, PushHeadPlaced
  <1>11. /\ Placed(a, R \ {c}) /\ Cleared(a, {}) /\ Changed(a, j, c) /\ a.tcb[c].state = "READY"
         /\ Aside(a, k)
    BY <1>8, <1>10, AsideSteps DEF Pushed
  <1>12. PICK b : b = [a EXCEPT !.cur = t]
    OBVIOUS
  <1>13. Pointed(b, a, R \ {c}, t)
    BY <1>11, <1>12, SetCurPlaced
  <1>14. /\ Placed(b, R \ {c}) /\ Cleared(b, {}) /\ b.cur = t /\ b.tcb = a.tcb /\ Changed(b, a, t)
         /\ Aside(b, k)
    BY <1>11, <1>13, AsideSteps DEF Pointed
  <1>15. l = [b EXCEPT !.tcb[t].state = "RUNNING"]
    <2>1. l = Run(b)
      BY <1>1, <1>6, <1>9, <1>12 DEF SetPrioPreempt
    <2> QED
      BY <1>14, <2>1 DEF Run
  <1>16. Marked(l, b, R \ {c}, t, "RUNNING")
    <2>1. t \in R \ {c} /\ "RUNNING" \in States
      BY <1>3, <1>5 DEF States
    <2> QED
      BY <1>14, <1>15, <2>1, SetStatePlaced
  <1>17. /\ Placed(l, R \ {c}) /\ Cleared(l, {}) /\ l.cur = t /\ Changed(l, b, t)
         /\ l.tcb[t].state = "RUNNING" /\ Aside(l, k)
    BY <1>14, <1>16, AsideSteps DEF Marked
  <1>18. R \ {c} = Live(l, ex)
    BY <1>1, <1>3, <1>5, <1>17 DEF Live
  <1>19. /\ \A u \in Tasks : u \notin {c, t} =>
               l.tcb[u].state = k.tcb[u].state /\ l.tcb[u].prio = k.tcb[u].prio
         /\ l.tcb[c].prio = k.tcb[c].prio /\ l.tcb[t].prio = p /\ l.tcb[t].state = "RUNNING"
    BY <1>2, <1>3, <1>8, <1>11, <1>14, <1>17 DEF Changed
  <1>20. \A q \in Queues, u, v \in Tasks \ {c, t} : Precedes(l, q, u, v) <=> Precedes(k, q, u, v)
    BY <1>8, <1>11, <1>14, <1>17 DEF Changed
  <1>21. l.tcb[c].state = "READY"
    BY <1>2, <1>3, <1>11, <1>14, <1>17 DEF Changed
  <1>22. t # TID_NULL /\ t \notin ex
    OBVIOUS
  <1>23. Levels(l)
    <2>1. l.tcb[TID_NULL].prio = NULL_INDEX
      BY <1>3, <1>19, <1>22, NullTask DEF Levels
    <2>2. ASSUME NEW u \in Tasks \ {TID_NULL}
          PROVE  l.tcb[u].state = "DORMANT" \/ InBounds(l.tcb[u].prio)
      BY <1>2, <1>3, <1>19, <2>2 DEF Levels
    <2> QED
      BY <2>1, <2>2 DEF Levels
  <1>24. /\ \A u \in ex \cup {t} : l.tcb[u].state = "RUNNING"
         /\ l.tcb[TID_NULL].state = "READY"
    BY <1>3, <1>19, <1>22, NullTask
  <1>25. ASSUME NEW u \in Tasks, Outranking(l, u) PROVE Outranking(k, u)
    <2>1. l.tcb[u].state = "READY" /\ l.tcb[u].prio < p /\ u # t
      BY <1>17, <1>19, <1>25 DEF Outranking
    <2>2. k.tcb[u].prio \in Int /\ k.tcb[c].prio \in Int /\ p \in Int
      BY <1>2, MemoryFields, ReadyQueueIds
    <2>3. u # c
      BY <1>1, <1>19, <2>1, <2>2
    <2> QED
      BY <1>1, <1>19, <2>1, <2>2, <2>3 DEF Outranking
  <1>26. Scheduled(l, ex)
    BY <1>3, <1>17, <1>18, <1>22, <1>23, <1>24 DEF Scheduled
  <1>27. InTurn(k, l)
    <2>1. ~Stays(k, l, c) /\ ~Stays(k, l, t)
      BY <1>2, <1>19 DEF Stays
    <2>2. k.tcb[l.cur].prio # l.tcb[l.cur].prio
      BY <1>17, <1>19
    <2>3. ASSUME NEW u \in Tasks, k.tcb[u].state \notin {"READY", "RUNNING"}, l.tcb[u].state = "READY"
          PROVE  FALSE
      BY <1>2, <1>4, <1>19, <2>3
    <2> QED
      BY <1>2, <1>3, <1>20, <2>1, <2>2, <2>3, InTurnFrom
  <1>28. Undisturbed(k, l)
    <2>1. \A u \in {c, t} : l.tcb[u].state \notin Blocked /\ k.tcb[u].state \notin Blocked
      BY <1>2, <1>4, <1>19, <1>21 DEF Blocked
    <2> QED
      BY <1>17, <1>19, <2>1 DEF Undisturbed
  <1> QED
    BY <1>25, <1>26, <1>27, <1>28 DEF Lawful, NoneNew

\* k_tsk_set_prio of the caller itself, to a lower priority that no READY task
\* has or is above.
LEMMA SetPrioSelfStays ==
    ASSUME NEW k, NEW ex, Scheduled(k, ex), k.cur # TID_NULL,
           NEW p \in Prio, InBounds(p),
           \A u \in Tasks \ {TID_NULL} : k.tcb[u].state = "READY" => k.tcb[u].prio > p,
           NEW l, l = [k EXCEPT !.tcb[k.cur].prio = p]
    PROVE  Scheduled(l, ex) /\ Lawful(k, l)
  <1>1. PICK c : c = k.cur
    OBVIOUS
  <1>2. /\ Memory(k) /\ c \in Tasks /\ c \in Live(k, ex) /\ k.tcb[c].state = "RUNNING"
        /\ k.tcb[c].prio \in Prio
    BY <1>1, CurrentTask
  <1>3. /\ Placed(k, Live(k, ex)) /\ Cleared(k, {}) /\ Levels(k)
        /\ ex \subseteq Tasks /\ c \notin ex /\ TID_NULL \notin ex /\ c # TID_NULL
        /\ \A u \in ex : k.tcb[u].state = "RUNNING"
        /\ k.tcb[TID_NULL].state = "READY"
    BY <1>1 DEF Scheduled
  <1>4. Reprioritised(l, k, Live(k, ex), c, p)
    BY <1>1, <1>2, <1>3, SetPrioPlaced
  <1>5. /\ Placed(l, Live(k, ex)) /\ Cleared(l, {}) /\ l.cur = c /\ Aside(l, k)
        /\ \A u \in Tasks : u # c => l.tcb[u] = k.tcb[u]
        /\ l.tcb[c].prio = p /\ l.tcb[c].state = "RUNNING"
        /\ \A q \in Queues, u, v \in Tasks : Precedes(l, q, u, v) <=> Precedes(k, q, u, v)
    BY <1>1, <1>2, <1>3, <1>4 DEF Reprioritised
  <1>6. Live(l, ex) = Live(k, ex)
    BY <1>1, <1>5 DEF Live
  <1>7. Levels(l)
    <2>1. l.tcb[TID_NULL].prio = NULL_INDEX
      BY <1>3, <1>5, NullTask DEF Levels
    <2>2. ASSUME NEW u \in Tasks \ {TID_NULL}
          PROVE  l.tcb[u].state = "DORMANT" \/ InBounds(l.tcb[u].prio)
      BY <1>3, <1>5, <2>2 DEF Levels
    <2> QED
      BY <2>1, <2>2 DEF Levels
  <1>8. /\ \A u \in ex \cup {c} : l.tcb[u].state = "RUNNING"
        /\ l.tcb[TID_NULL].state = "READY"
    BY <1>3, <1>5, NullTask
  <1>9. ASSUME NEW u \in Tasks, Outranking(l, u) PROVE FALSE
    <2>1. l.tcb[u].state = "READY" /\ l.tcb[u].prio < p /\ u # c /\ l.tcb[u] = k.tcb[u]
      BY <1>5, <1>9 DEF Outranking
    <2>2. k.tcb[u].prio \in Int /\ p \in Int /\ p < NULL_INDEX
      BY <1>2, MemoryFields, ReadyQueueIds
    <2>3. u # TID_NULL
      BY <1>7, <2>1, <2>2 DEF Levels, NULL_INDEX
    <2>4. k.tcb[u].prio > p
      BY <2>1, <2>3
    <2> QED
      BY <2>1, <2>2, <2>4
  <1>10. Scheduled(l, ex)
    BY <1>3, <1>5, <1>6, <1>7, <1>8 DEF Scheduled
  <1>11. InTurn(k, l)
    <2>1. ~Stays(k, l, c)
      BY <1>2 DEF Stays
    <2>2. k.tcb[l.cur].state # "READY"
      BY <1>2, <1>5
    <2>3. ASSUME NEW u \in Tasks, k.tcb[u].state \notin {"READY", "RUNNING"}, l.tcb[u].state = "READY"
          PROVE  FALSE
      BY <1>5, <2>3
    <2>4. \A q \in Queues, u, v \in Tasks \ {c} : Precedes(l, q, u, v) <=> Precedes(k, q, u, v)
      BY <1>5
    <2> QED
      BY <1>2, <1>3, <2>1, <2>2, <2>3, <2>4, InTurnFrom
  <1>12. Undisturbed(k, l)
    BY <1>2, <1>5 DEF Undisturbed
  <1> QED
    BY <1>9, <1>10, <1>11, <1>12 DEF Lawful, NoneNew

\* To one at which the first READY task may run: it does, and the caller goes to
\* the tail of its new ready queue.
LEMMA SetPrioSelfYields ==
    ASSUME NEW k, NEW ex, Scheduled(k, ex), k.cur # TID_NULL,
           NEW p \in Prio, InBounds(p), NonEmptyLevels(k) # {},
           NEW i, i = FirstLevel(k), NEW h, h = k.queue[ReadyQ(i)].HEAD, ~(i > p),
           NEW low, low = [k EXCEPT !.tcb[k.cur].prio = p],
           NEW l, l = Run(PushTailReady([PopHead(low, ReadyQ(i)) EXCEPT !.cur = h], k.cur))
    PROVE  Scheduled(l, ex) /\ Lawful(k, l)
  <1>1. PICK c : c = k.cur
    OBVIOUS
  <1>2. /\ Memory(k) /\ c \in Tasks /\ c \in Live(k, ex) /\ k.tcb[c].state = "RUNNING"
        /\ \A u \in Tasks \ {TID_NULL} : k.tcb[u].state = "READY" => u \notin Live(k, ex)
    BY <1>1, CurrentTask
  <1>3. /\ Placed(k, Live(k, ex)) /\ Cleared(k, {}) /\ Levels(k)
        /\ ex \subseteq Tasks /\ c \notin ex /\ TID_NULL \notin ex /\ c # TID_NULL
        /\ \A u \in ex : k.tcb[u].state = "RUNNING"
        /\ k.tcb[TID_NULL].state = "READY"
    BY <1>1 DEF Scheduled
  <1>4. PICK R, q : R = Live(k, ex) /\ q = ReadyQ(i)
    OBVIOUS
  <1>5. /\ i \in RT_INDEX .. LOWEST_INDEX /\ q \in Queues /\ h # NULL
        /\ h \in TasksOf(k, q) /\ h \in Tasks \ R /\ h # TID_NULL
        /\ k.tcb[h].state = "READY" /\ k.tcb[h].prio = i
        /\ \A u \in Tasks \ R : k.tcb[u].state = "READY" => i <= k.tcb[u].prio
    BY <1>3, <1>4, FirstTask
  <1>6. h # c /\ h \notin ex
    BY <1>1, <1>4, <1>5 DEF Live
  <1>7. Reprioritised(low, k, R, c, p)
    BY <1>1, <1>2, <1>3, <1>4, SetPrioPlaced
  <1>8. /\ Placed(low, R) /\ Cleared(low, {}) /\ low.cur = c /\ low.queue = k.queue
        /\ Aside(low, k)
        /\ \A u \in Tasks : u # c => low.tcb[u] = k.tcb[u]
        /\ low.tcb[c].prio = p /\ low.tcb[c].state = "RUNNING"
        /\ TasksOf(low, q) = TasksOf(k, q)
        /\ \A r \in Queues, u, v \in Tasks : Precedes(low, r, u, v) <=> Precedes(k, r, u, v)
    BY <1>1, <1>2, <1>3, <1>4, <1>5, <1>7 DEF Reprioritised
  <1>9. PICK x : x = PopHead(low, q)
    OBVIOUS
  <1>10. HeadTaken(x, low, R, q, h)
    BY <1>4, <1>5, <1>8, <1>9, HeadTakenFrom
  <1>11. /\ Placed(x, R \cup {h}) /\ Changed(x, low, h) /\ Cleared(x, {})
         /\ x.tcb[h].state = "RUNNING" /\ Aside(x, k)
         /\ \A u \in TasksOf(low, q) : u # h => Precedes(low, q, h, u)
    BY <1>8, <1>10, AsideSteps DEF HeadTaken
  <1>12. PICK y : y = [x EXCEPT !.cur = h]
    OBVIOUS
  <1>13. Pointed(y, x, R \cup {h}, h)
    BY <1>5, <1>11, <1>12, SetCurPlaced
  <1>14. /\ Placed(y, R \cup {h}) /\ Cleared(y, {}) /\ y.cur = h /\ y.tcb = x.tcb
         /\ Aside(y, k) /\ \A u \in Tasks : Changed(y, x, u)
    BY <1>11, <1>13, AsideSteps DEF Pointed
  <1>15. y.tcb[c].prio = p /\ y.tcb[c].state = "RUNNING"
    BY <1>2, <1>6, <1>8, <1>11, <1>14 DEF Changed
  <1>16. PICK z : z = PushTailReady(y, c)
    OBVIOUS
  <1>17. Pushed(z, y, R \cup {h}, c)
    <2>1. c \in R \cup {h} /\ Cleared(y, {c})
      BY <1>2, <1>4, <1>14 DEF Cleared
    <2> QED
      BY <1>2, <1>3, <1>14, <1>15, <1>16, <2>1, PushTailPlaced
  <1>18. /\ Placed(z, (R \cup {h}) \ {c}) /\ Cleared(z, {}) /\ z.cur = h
         /\ Changed(z, y, c) /\ z.tcb[c].state = "READY" /\ Aside(z, k)
    BY <1>14, <1>17, AsideSteps DEF Pushed
  <1>19. z.tcb[h].state = "RUNNING"
    BY <1>5, <1>6, <1>11, <1>14, <1>18 DEF Changed
  <1>20. l = z
    <2>1. l = Run(z)
      BY <1>1, <1>4, <1>9, <1>12, <1>16
    <2>2. Memory(z) /\ z.cur = h
      BY <1>18 DEF Placed, PlacedBut
    <2>3. [z EXCEPT !.tcb[h].state = "RUNNING"] = z
      BY <1>5, <1>19, <2>2, SameState
    <2> QED
      BY <2>1, <2>2, <2>3 DEF Run
  <1>21. (R \cup {h}) \ {c} = Live(l, ex)
    BY <1>1, <1>3, <1>4, <1>6, <1>18, <1>20 DEF Live
  <1>22. /\ \A u \in Tasks : u \notin {c, h} =>
               l.tcb[u].state = k.tcb[u].state /\ l.tcb[u].prio = k.tcb[u].prio
         /\ l.tcb[c].prio = p /\ l.tcb[h].prio = i
    <2>1. \A u \in Tasks : /\ u # c => l.tcb[u].state = y.tcb[u].state
                           /\ l.tcb[u].prio = y.tcb[u].prio
      BY <1>18, <1>20 DEF Changed
    <2>2. \A u \in Tasks : /\ u # h => y.tcb[u].state = low.tcb[u].state
                           /\ y.tcb[u].prio = low.tcb[u].prio
      BY <1>11, <1>14 DEF Changed
    <2>3. l.tcb[c].prio = p /\ l.tcb[h].prio = i
      <3>1. l.tcb[c].prio = p
        BY <1>2, <1>15, <2>1
      <3>2. low.tcb[h].prio = i
        BY <1>5, <1>6, <1>8
      <3>3. l.tcb[h].prio = low.tcb[h].prio
        BY <1>5, <2>1, <2>2
      <3> QED
        BY <3>1, <3>2, <3>3
    <2>4. ASSUME NEW u \in Tasks, u \notin {c, h}
          PROVE  l.tcb[u].state = k.tcb[u].state /\ l.tcb[u].prio = k.tcb[u].prio
      <3>1. low.tcb[u] = k.tcb[u]
        BY <1>8, <2>4
      <3>2. l.tcb[u].state = y.tcb[u].state /\ l.tcb[u].prio = y.tcb[u].prio
        BY <2>1, <2>4
      <3>3. y.tcb[u].state = low.tcb[u].state /\ y.tcb[u].prio = low.tcb[u].prio
        BY <2>2, <2>4
      <3> QED
        BY <3>1, <3>2, <3>3
    <2> QED
      BY <2>3, <2>4
  <1>23. \A r \in Queues, u, v \in Tasks \ {c, h} : Precedes(l, r, u, v) <=> Precedes(k, r, u, v)
    BY <1>5, <1>8, <1>11, <1>14, <1>18, <1>20 DEF Changed
  <1>24. Levels(l)
    <2>1. l.tcb[TID_NULL].prio = NULL_INDEX
      BY <1>3, <1>5, <1>22, NullTask DEF Levels
    <2>2. InBounds(i)
      BY <1>3, <1>5 DEF Levels
    <2>3. ASSUME NEW u \in Tasks \ {TID_NULL}
          PROVE  l.tcb[u].state = "DORMANT" \/ InBounds(l.tcb[u].prio)
      <3>1. CASE u \in {c, h}
        <4>1. l.tcb[u].prio = p \/ l.tcb[u].prio = i
          BY <1>22, <3>1
        <4> QED
          BY <2>2, <4>1
      <3>2. CASE u \notin {c, h}
        <4>1. l.tcb[u].state = k.tcb[u].state /\ l.tcb[u].prio = k.tcb[u].prio
          BY <1>22, <3>2
        <4>2. k.tcb[u].state = "DORMANT" \/ InBounds(k.tcb[u].prio)
          BY <1>3 DEF Levels
        <4> QED
          BY <4>1, <4>2
      <3> QED
        BY <3>1, <3>2
    <2> QED
      BY <2>1, <2>3 DEF Levels
  <1>25. /\ \A u \in ex \cup {h} : l.tcb[u].state = "RUNNING"
         /\ l.tcb[TID_NULL].state = "READY"
    BY <1>3, <1>5, <1>6, <1>19, <1>20, <1>22, NullTask
  <1>26. ASSUME NEW u \in Tasks, Outranking(l, u) PROVE FALSE
    <2>1. k.tcb[u].prio \in Int /\ i \in Int /\ p \in Int /\ i <= NULL_INDEX
      BY <1>2, <1>5, MemoryFields, ReadyQueueIds
    <2>2. l.tcb[u].state = "READY" /\ l.tcb[u].prio < i /\ u # h
      BY <1>18, <1>19, <1>20, <1>22, <1>26 DEF Outranking
    <2>3. u # c
      BY <1>22, <2>1, <2>2
    <2>4. u # TID_NULL
      BY <1>24, <2>1, <2>2 DEF Levels, NULL_INDEX
    <2>5. k.tcb[u].state = "READY" /\ l.tcb[u].prio = k.tcb[u].prio
      BY <1>22, <2>2, <2>3
    <2>6. u \notin R
      BY <1>2, <1>4, <2>4, <2>5
    <2> QED
      BY <1>5, <2>1, <2>2, <2>5, <2>6
  <1>27. Scheduled(l, ex)
    BY <1>3, <1>5, <1>6, <1>18, <1>20, <1>21, <1>24, <1>25 DEF Scheduled
  <1>28. InTurn(k, l)
    <2>1. ~Stays(k, l, c) /\ ~Stays(k, l, h)
      BY <1>2, <1>19, <1>20 DEF Stays
    <2>2. ASSUME NEW v \in Tasks \ {TID_NULL}, Stays(k, l, v), v # h, i = k.tcb[v].prio
          PROVE  Precedes(k, q, h, v)
      <3>1. v \in Tasks \ R /\ k.tcb[v].state = "READY"
        BY <1>2, <1>4, <2>2 DEF Stays
      <3>2. v \in TasksOf(k, q)
        BY <1>3, <1>4, <2>2, <3>1, ReadyTask
      <3> QED
        BY <1>5, <1>8, <1>11, <2>2, <3>2
    <2>3. l.cur = h
      BY <1>18, <1>20
    <2>4. ASSUME NEW u \in Tasks, k.tcb[u].state \notin {"READY", "RUNNING"}, l.tcb[u].state = "READY"
          PROVE  FALSE
      BY <1>2, <1>5, <1>22, <2>4
    <2>5. ASSUME NEW v \in Tasks \ {TID_NULL}, Stays(k, l, v), v # l.cur,
                 l.tcb[l.cur].prio = k.tcb[v].prio
          PROVE  Precedes(k, ReadyQ(k.tcb[v].prio), l.cur, v)
      <3>1. i = k.tcb[v].prio
        BY <1>22, <2>3, <2>5
      <3>2. Precedes(k, q, h, v)
        BY <2>2, <2>3, <2>5, <3>1
      <3> QED
        BY <1>4, <2>3, <3>1, <3>2
    <2>6. PICK X : X = {c, h}
      OBVIOUS
    <2>7. \A r \in Queues, u, v \in Tasks \ X : Precedes(l, r, u, v) <=> Precedes(k, r, u, v)
      BY <1>23, <2>6
    <2>8. \A v \in X \ {TID_NULL} : ~Stays(k, l, v)
      BY <2>1, <2>6
    <2>9. Memory(k) /\ Levels(k)
      BY <1>2, <1>3
    <2> QED
      BY <2>4, <2>5, <2>7, <2>8, <2>9, InTurnFrom
  <1>29. Undisturbed(k, l)
    <2>1. \A u \in {c, h} : l.tcb[u].state \notin Blocked /\ k.tcb[u].state \notin Blocked
      BY <1>2, <1>5, <1>18, <1>19, <1>20 DEF Blocked
    <2> QED
      BY <1>18, <1>20, <1>22, <2>1 DEF Undisturbed
  <1> QED
    BY <1>26, <1>27, <1>28, <1>29 DEF Lawful, NoneNew

LEMMA SetPrioSelfRuns ==
    ASSUME NEW k, NEW ex, Scheduled(k, ex), k.cur # TID_NULL,
           NEW p \in Prio, InBounds(p), NEW l, l = SetPrioSelf(k, p)
    PROVE  Scheduled(l, ex) /\ Lawful(k, l)
  <1>1. PICK c : c = k.cur
    OBVIOUS
  <1>2. PICK i : i = FirstLevel(k)
    OBVIOUS
  <1>3. PICK h : h = IF NonEmptyLevels(k) = {} THEN TID_NULL ELSE k.queue[ReadyQ(i)].HEAD
    OBVIOUS
  <1>4. PICK low : low = [k EXCEPT !.tcb[c].prio = p]
    OBVIOUS
  <1>5. l = IF k.tcb[c].prio >= p THEN k
            ELSE IF low.tcb[h].prio > p THEN low
            ELSE Run(PushTailReady([PopHead(low, ReadyQ(low.tcb[h].prio)) EXCEPT !.cur = h], c))
    BY <1>1, <1>2, <1>3, <1>4 DEF SetPrioSelf
  <1>6. /\ Memory(k) /\ c \in Tasks /\ c \in Live(k, ex)
        /\ \A u \in Tasks \ {TID_NULL} : k.tcb[u].state = "READY" => u \notin Live(k, ex)
    BY <1>1, CurrentTask
  <1>7. Placed(k, Live(k, ex)) /\ Levels(k)
    BY DEF Scheduled
  <1>8. \A u \in Tasks : u # c => low.tcb[u] = k.tcb[u]
    <2>1. Reprioritised(low, k, Live(k, ex), c, p)
      BY <1>4, <1>6, <1>7, SetPrioPlaced
    <2> QED
      BY <2>1 DEF Reprioritised
  <1>9. CASE k.tcb[c].prio >= p
    BY <1>5, <1>9, SameLawful
  <1>10. CASE ~(k.tcb[c].prio >= p) /\ NonEmptyLevels(k) = {}
    <2>1. low.tcb[h].prio = NULL_INDEX
      BY <1>1, <1>3, <1>7, <1>8, <1>10, NullTask DEF Levels
    <2>2. l = low
      BY <1>5, <1>10, <2>1, ReadyQueueIds
    <2>3. \A u \in Tasks \ {TID_NULL} : k.tcb[u].state # "READY"
      BY <1>6, <1>7, <1>10, ReadyLevel
    <2> QED
      BY <1>1, <1>4, <2>2, <2>3, SetPrioSelfStays
  <1>11. CASE ~(k.tcb[c].prio >= p) /\ NonEmptyLevels(k) # {}
    <2>1. /\ h \in Tasks \ Live(k, ex) /\ k.tcb[h].prio = i
          /\ \A u \in Tasks \ Live(k, ex) : k.tcb[u].state = "READY" => i <= k.tcb[u].prio
      BY <1>2, <1>3, <1>7, <1>11, FirstTask
    <2>2. low.tcb[h].prio = i
      BY <1>6, <1>8, <2>1
    <2>3. CASE i > p
      <3>1. l = low
        BY <1>5, <1>11, <2>2, <2>3
      <3>2. ASSUME NEW u \in Tasks \ {TID_NULL}, k.tcb[u].state = "READY"
            PROVE  k.tcb[u].prio > p
        <4>1. i <= k.tcb[u].prio
          BY <1>6, <2>1, <3>2
        <4>2. i \in Int /\ p \in Int /\ k.tcb[u].prio \in Int
          BY <1>6, <2>1, MemoryFields, ReadyQueueIds
        <4> QED
          BY <2>3, <4>1, <4>2
      <3> QED
        BY <1>1, <1>4, <3>1, <3>2, SetPrioSelfStays
    <2>4. CASE ~(i > p)
      <3>1. l = Run(PushTailReady([PopHead(low, ReadyQ(i)) EXCEPT !.cur = h], k.cur))
        BY <1>1, <1>5, <1>11, <2>2, <2>4
      <3>2. h = k.queue[ReadyQ(i)].HEAD /\ low = [k EXCEPT !.tcb[k.cur].prio = p]
        BY <1>1, <1>3, <1>4, <1>11
      <3> QED
        BY <1>2, <1>11, <2>4, <3>1, <3>2, SetPrioSelfYields
    <2> QED
      BY <2>3, <2>4
  <1> QED
    BY <1>9, <1>10, <1>11

\* Of a blocked task: it stays where it is.
LEMMA SetPrioBlockedRuns ==
    ASSUME NEW k, NEW ex, Scheduled(k, ex), NEW t \in Tasks, k.tcb[t].state \in Blocked,
           NEW p \in Prio, InBounds(p), NEW l, l = SetPrioBlocked(k, t, p)
    PROVE  Scheduled(l, ex) /\ Lawful(k, l)
  <1>1. /\ Memory(k) /\ k.cur \in Tasks /\ k.tcb[k.cur].state = "RUNNING"
        /\ t \notin Live(k, ex)
    BY CurrentTask
  <1>2. /\ Placed(k, Live(k, ex)) /\ Cleared(k, {}) /\ Levels(k)
        /\ ex \subseteq Tasks /\ k.cur \notin ex /\ TID_NULL \notin ex
        /\ \A u \in ex \cup {k.cur} : k.tcb[u].state = "RUNNING"
        /\ k.cur # TID_NULL => k.tcb[TID_NULL].state = "READY"
    BY DEF Scheduled
  <1>3. Reprioritised(l, k, Live(k, ex), t, p)
    BY <1>2, SetPrioPlaced DEF SetPrioBlocked
  <1>4. /\ Placed(l, Live(k, ex)) /\ Cleared(l, {}) /\ l.cur = k.cur /\ Aside(l, k)
        /\ \A u \in Tasks : u # t => l.tcb[u] = k.tcb[u]
        /\ l.tcb[t].prio = p /\ l.tcb[t].state = k.tcb[t].state
        /\ \A q \in Queues, u, v \in Tasks : Precedes(l, q, u, v) <=> Precedes(k, q, u, v)
    BY <1>2, <1>3 DEF Reprioritised
  <1>5. t \notin ex /\ t # k.cur /\ t # TID_NULL /\ Live(l, ex) = Live(k, ex)
    BY <1>1, <1>4 DEF Live
  <1>6. Levels(l)
    BY <1>2, <1>4, <1>5, NullTask DEF Levels
  <1>7. Scheduled(l, ex)
    BY <1>1, <1>2, <1>4, <1>5, <1>6, NullTask DEF Scheduled
  <1>8. ASSUME NEW u \in Tasks, Outranking(l, u) PROVE Outranking(k, u)
    <2>1. u # t
      BY <1>4, <1>8 DEF Outranking, Blocked
    <2> QED
      BY <1>1, <1>4, <1>5, <1>8, <2>1 DEF Outranking
  <1>9. Undisturbed(k, l)
    BY <1>4 DEF Undisturbed
  <1>10. InTurn(k, l)
    <2>1. ~Stays(k, l, t)
      BY DEF Stays, Blocked
    <2>2. k.tcb[l.cur].state # "READY"
      BY <1>1, <1>4
    <2>3. ASSUME NEW u \in Tasks, k.tcb[u].state \notin {"READY", "RUNNING"}, l.tcb[u].state = "READY"
          PROVE  FALSE
      BY <1>4, <2>3
    <2>4. PICK X : X = {t}
      OBVIOUS
    <2>5. \A q \in Queues, u, v \in Tasks \ X : Precedes(l, q, u, v) <=> Precedes(k, q, u, v)
      BY <1>4
    <2>6. \A x \in X \ {TID_NULL} : ~Stays(k, l, x)
      BY <2>1, <2>4
    <2> QED
      BY <1>1, <1>2, <2>2, <2>3, <2>5, <2>6, InTurnFrom
  <1> QED
    BY <1>7, <1>8, <1>9, <1>10 DEF Lawful, NoneNew

\* k_tsk_set_prio, of the arguments its checks let through, by a careful caller.
LEMMA SetPrioRuns ==
    ASSUME NEW k, NEW ex, Scheduled(k, ex), k.cur # TID_NULL, NEW t \in Tasks \ ex, t # TID_NULL,
           k.tcb[t].state # "DORMANT", NEW p \in Prio, InBounds(p),
           p < k.tcb[k.cur].prio /\ t \in TasksOf(k, ReadyQ(k.tcb[t].prio)) =>
              t \in {k.queue[ReadyQ(k.tcb[t].prio)].HEAD, k.queue[ReadyQ(k.tcb[t].prio)].TAIL},
           NEW l, l = IF k.tcb[t].state \in {"BLK_RECV", "BLK_SEND"} \/ k.tcb[t].real_time
                      THEN SetPrioBlocked(k, t, p)
                      ELSE IF k.tcb[t].prio = p THEN k
                      ELSE IF t = k.cur THEN SetPrioSelf(k, p)
                      ELSE IF k.tcb[k.cur].prio > p THEN SetPrioPreempt(k, t, p)
                      ELSE SetPrioMove(k, t, p)
    PROVE  Scheduled(l, ex) /\ Lawful(k, l)
  <1>1. k.tcb[t].real_time = FALSE
    BY DEF Scheduled, Placed, PlacedBut
  <1>2. k.tcb[t].state \in {"READY"} \cup Blocked \/ t = k.cur
    <2>1. ASSUME t # k.cur
          PROVE  k.tcb[t].state \in {"READY", "DORMANT"} \cup Blocked
      <3>1. t \in Tasks \ Live(k, ex)
        BY <2>1 DEF Live
      <3> QED
        BY <3>1, CurrentTask
    <2> QED
      BY <2>1
  <1>8. CASE k.tcb[t].state \in Blocked
    <2>1. l = SetPrioBlocked(k, t, p)
      BY <1>8 DEF Blocked
    <2> QED
      BY <1>8, <2>1, SetPrioBlockedRuns
  <1> SUFFICES ASSUME k.tcb[t].state \notin Blocked
               PROVE  Scheduled(l, ex) /\ Lawful(k, l)
    BY <1>8
  <1>3. /\ l = IF k.tcb[t].prio = p THEN k
               ELSE IF t = k.cur THEN SetPrioSelf(k, p)
               ELSE IF k.tcb[k.cur].prio > p THEN SetPrioPreempt(k, t, p)
               ELSE SetPrioMove(k, t, p)
        /\ t # k.cur => k.tcb[t].state = "READY"
    BY <1>1, <1>2 DEF Blocked
  <1>4. CASE k.tcb[t].prio = p
    BY <1>3, <1>4, SameLawful
  <1>5. CASE k.tcb[t].prio # p /\ t = k.cur
    <2>1. l = SetPrioSelf(k, p)
      BY <1>3, <1>5
    <2> QED
      BY <2>1, SetPrioSelfRuns
  <1>6. CASE k.tcb[t].prio # p /\ t # k.cur /\ k.tcb[k.cur].prio > p
    <2>1. l = SetPrioPreempt(k, t, p)
      BY <1>3, <1>6
    <2>2. t \in TasksOf(k, ReadyQ(k.tcb[t].prio)) /\ k.tcb[t].state = "READY"
      BY <1>3, <1>6, TargetTask
    <2>3. p < k.tcb[k.cur].prio
      BY <1>6, CurrentTask, ReadyQueueIds
    <2>4. t \in {k.queue[ReadyQ(k.tcb[t].prio)].HEAD, k.queue[ReadyQ(k.tcb[t].prio)].TAIL}
      BY <2>2, <2>3
    <2> QED
      BY <1>6, <2>1, <2>2, <2>4, SetPrioPreemptRuns
  <1>7. CASE k.tcb[t].prio # p /\ t # k.cur /\ ~(k.tcb[k.cur].prio > p)
    <2>1. l = SetPrioMove(k, t, p)
      BY <1>3, <1>7
    <2> QED
      BY <1>3, <1>7, <2>1, SetPrioMoveRuns
  <1> QED
    BY <1>4, <1>5, <1>6, <1>7

----------------------------------------------------------------------------
(***************************************************************************)
(* k_tsk_init, of one memory to the next.                                  *)
(***************************************************************************)
\* What Starting says of the tasks.
LEMMA StartingFacts ==
    ASSUME NEW k, NEW b, Starting(k, b)
    PROVE  /\ Memory(k) /\ Placed(k, {TID_NULL}) /\ Cleared(k, {}) /\ Levels(k)
           /\ k.cur = TID_NULL /\ TID_NULL \in Tasks /\ k.tcb[TID_NULL].state = "READY"
           /\ \A u \in Tasks \ {TID_NULL} : k.tcb[u].state = "READY" => u \notin {TID_NULL}
  BY NullTask DEF Starting, Placed, PlacedBut

\* The creation of a task at boot.
LEMMA NewStarts ==
    ASSUME NEW k, NEW b \in Nat, Starting(k, b), NEW t \in Tasks, k.tcb[t].state = "DORMANT",
           NEW p \in Prio, InBounds(p), NEW priv \in BOOLEAN,
           \A i \in 1 .. Reserved : i > b + 1 => SystemTids[i] # t,
           ~(t > (b + 1) - Reserved /\ t < FirstReserved /\ t # TID_NULL),
           NEW l, l = PushTailReady(CreateNew(k, t, p, priv), t)
    PROVE  Starting(l, b + 1) /\ InTurn(k, l) /\ Undisturbed(k, l)
  <1>1. /\ Memory(k) /\ Placed(k, {TID_NULL}) /\ Cleared(k, {}) /\ Levels(k)
        /\ k.cur = TID_NULL /\ TID_NULL \in Tasks /\ k.tcb[TID_NULL].state = "READY"
        /\ \A u \in Tasks \ {TID_NULL} : k.tcb[u].state = "READY" => u \notin {TID_NULL}
    BY StartingFacts
  <1>2. t # TID_NULL
    BY <1>1
  <1>3. PICK R : R = {TID_NULL}
    OBVIOUS
  <1>4. Entered(l, k, R, t, p)
    BY <1>1, <1>2, <1>3, NewAtTail
  <1>5. InTurn(k, l)
    BY <1>1, <1>2, <1>3, <1>4, EnteredInTurn
  <1>6. Levels(l)
    BY <1>1, <1>2, <1>4, EnteredLevels
  <1>7. /\ Placed(l, {TID_NULL}) /\ Cleared(l, {}) /\ l.cur = TID_NULL
        /\ \A u \in Tasks : u # t => l.tcb[u].state = k.tcb[u].state
    BY <1>1, <1>3, <1>4 DEF Entered
  <1>8. l.tcb[TID_NULL].state = "READY"
    BY <1>1, <1>2, <1>7
  <1>9. Reserved \in Nat /\ FirstReserved \in Nat /\ \A i \in 1 .. Reserved : SystemTids[i] \in Tasks
    BY ReservedFacts DEF Tasks
  <1>10. ASSUME NEW i \in 1 .. Reserved, i > b + 1
         PROVE  l.tcb[SystemTids[i]].state = "DORMANT"
    <2>1. k.tcb[SystemTids[i]].state = "DORMANT"
      BY <1>9, <1>10 DEF Starting
    <2> QED
      BY <1>7, <1>9, <1>10, <2>1
  <1>11. ASSUME NEW u \in Tasks, u > (b + 1) - Reserved, u < FirstReserved, u # TID_NULL
         PROVE  l.tcb[u].state = "DORMANT"
    <2>1. u \in Nat
      BY DEF Tasks
    <2>2. u > b - Reserved
      BY <1>9, <1>11, <2>1
    <2>3. k.tcb[u].state = "DORMANT"
      BY <1>11, <2>2 DEF Starting
    <2>4. u # t
      BY <1>11
    <2> QED
      BY <1>7, <2>3, <2>4
  <1>12. \A i \in 1 .. Reserved : i > b + 1 => l.tcb[SystemTids[i]].state = "DORMANT"
    BY <1>10
  <1>13. \A u \in Tasks : u > (b + 1) - Reserved /\ u < FirstReserved /\ u # TID_NULL
                          => l.tcb[u].state = "DORMANT"
    BY <1>11
  <1>14. Starting(l, b + 1)
    BY <1>6, <1>7, <1>8, <1>12, <1>13 DEF Starting
  <1>15. Undisturbed(k, l)
    <2>1. l.tcb[t].state \notin Blocked /\ k.tcb[t].state \notin Blocked /\ Aside(l, k)
      BY <1>4 DEF Entered, Blocked
    <2> QED
      BY <1>7, <2>1, OneUndisturbed
  <1> QED
    BY <1>5, <1>14, <1>15

\* The first dispatch.
LEMMA BootDoneRuns ==
    ASSUME NEW k, NEW b, Starting(k, b), NEW l, l = Run(Dispatch(k))
    PROVE  Scheduled(l, {}) /\ Quiet(l) /\ InTurn(k, l) /\ Undisturbed(k, l)
  <1>1. /\ Memory(k) /\ Placed(k, {TID_NULL}) /\ Cleared(k, {}) /\ Levels(k)
        /\ k.cur = TID_NULL /\ TID_NULL \in Tasks /\ k.tcb[TID_NULL].state = "READY"
        /\ \A u \in Tasks \ {TID_NULL} : k.tcb[u].state = "READY" => u \notin {TID_NULL}
    BY StartingFacts
  <1>2. PICK ex : ex = {}
    OBVIOUS
  <1>3. /\ ex \in SUBSET Tasks /\ TID_NULL \notin ex /\ ex \cup {TID_NULL} = {TID_NULL}
        /\ \A u \in ex : k.tcb[u].state = "RUNNING"
    BY <1>2
  <1>4. PICK d : d = Dispatch(k)
    OBVIOUS
  <1>5. Picked(d, k, ex \cup {TID_NULL})
    BY <1>1, <1>3, <1>4, DispatchPlaced
  <1>6. Chosen(d, ex)
    BY <1>1, <1>3, <1>5, PickedChosen
  <1>7. d.tcb[TID_NULL].state = "READY"
    BY <1>1, <1>5 DEF Picked, Changed
  <1>8. /\ Scheduled(l, ex) /\ Quiet(l) /\ Undisturbed(d, l)
        /\ l.cur = d.cur /\ Changed(l, d, TID_NULL)
    BY <1>4, <1>6, <1>7, RunChosen
  <1>9. Changed(k, k, k.cur)
    BY DEF Changed
  <1>10. InTurn(k, l)
    BY <1>1, <1>3, <1>5, <1>8, <1>9, SwitchInTurn
  <1>11. Undisturbed(k, l)
    BY <1>5, <1>8, PickedUndisturbed, UndisturbedSteps
  <1> QED
    BY <1>2, <1>8, <1>10, <1>11

----------------------------------------------------------------------------
(***************************************************************************)
(* The inductive invariant holds at the start and every step keeps it.     *)
(***************************************************************************)
\* What the theorems assume beside the constants' own assumptions: no task asks
\* k_tsk_create for the null priority, which it does not refuse, and the
\* application leaves the lowest reserved id alone, which k_tsk_init lets it take.
CarefulInstance == NULL_INDEX \notin CallPrios /\ MaxBootTasks < FirstReserved

\* What every step does: between calls the order holds, and nobody comes to outrank
\* the current task.
Kept == /\ Orderly'
        /\ InTurn(Kernel, Kernel') /\ Undisturbed(Kernel, Kernel')
        /\ Booting /\ booted' = Finished => Quiet(Kernel')
        /\ ~Booting => NoneNew(Kernel, Kernel')

\* A memory that typed code leaves is a memory to the queue lemmas.
LEMMA KernelStep ==
    ASSUME NEW k \in KernelType, Becomes(k)
    PROVE  Kernel' = k
  BY DEF Kernel, Becomes, KernelType

LEMMA KernelFields ==
    /\ Kernel.tcb = tcb /\ Kernel.queue = queue /\ Kernel.cur = gp_current_task /\ Kernel.ub = ub
  BY DEF Kernel

LEMMA KernelMemory ==
    ASSUME TypeOK
    PROVE  Memory(Kernel)
  <1>1. TID_NULL \in Tasks /\ Kernel = [f \in DOMAIN Kernel |-> Kernel[f]]
    BY NullTask DEF Kernel
  <1> QED
    BY <1>1 DEF TypeOK, Kernel, Memory

\* At the start every queue is empty and there is the null task only.
LEMMA InitOrderly == ASSUME Init PROVE Orderly /\ Booting
  <1>1. TypeOK
    BY InitTypeOK
  <1>2. PICK k : k = Kernel
    OBVIOUS
  <1>3. /\ Memory(k) /\ k.cur = TID_NULL /\ k.ub = FALSE
        /\ \A q \in Queues : k.queue[q] = EmptyQUEUE
        /\ \A t \in Tasks : k.tcb[t] = IF t = TID_NULL THEN Created(ZeroTCB, NULL_INDEX, FALSE)
                                       ELSE ZeroTCB
    <2>1. Memory(k) /\ k.tcb = tcb /\ k.queue = queue /\ k.cur = gp_current_task /\ k.ub = ub
      BY <1>1, <1>2, KernelMemory, KernelFields
    <2> QED
      BY <2>1 DEF Init
  <1>4. /\ k.tcb[TID_NULL].prio = NULL_INDEX /\ k.tcb[TID_NULL].state = "READY"
        /\ \A t \in Tasks : /\ k.tcb[t].real_time = FALSE /\ k.tcb[t].next = NULL
                            /\ t # TID_NULL => k.tcb[t].state = "DORMANT"
    <2>1. /\ Created(ZeroTCB, NULL_INDEX, FALSE).prio = NULL_INDEX
          /\ Created(ZeroTCB, NULL_INDEX, FALSE).state = "READY"
          /\ Created(ZeroTCB, NULL_INDEX, FALSE).real_time = FALSE
          /\ Created(ZeroTCB, NULL_INDEX, FALSE).next = NULL
      BY DEF Created, ZeroTCB
    <2>2. ZeroTCB.state = "DORMANT" /\ ZeroTCB.real_time = FALSE /\ ZeroTCB.next = NULL
      BY DEF ZeroTCB
    <2> QED
      BY <1>3, <2>1, <2>2, NullTask
  <1>5. ASSUME NEW q \in Queues
        PROVE  Linked(k, q) /\ TasksOf(k, q) = {}
    <2>1. PICK p : p = [i \in 1 .. 0 |-> TID_NULL]
      OBVIOUS
    <2>2. Path(0, p)
      BY <2>1 DEF Path
    <2>3. Along(k.tcb, k.queue[q], 0, p)
      BY <1>3, <2>2 DEF Along, Ends, Links, EmptyQUEUE
    <2>4. Linked(k, q) /\ TasksOf(k, q) = Range(p)
      BY <1>3, <2>3, FindPath
    <2>5. Range(p) = {}
      BY <2>1 DEF Range
    <2> QED
      BY <2>4, <2>5
  <1>6. Lists(k) /\ \A t \in Tasks : Loose(k, t)
    BY <1>5 DEF Lists, Loose
  <1>7. Placed(k, {TID_NULL})
    BY <1>3, <1>4, <1>6 DEF Placed, PlacedBut, Settled
  <1>8. Cleared(k, {}) /\ Levels(k)
    BY <1>4 DEF Cleared, Levels
  <1>9. \A i \in 1 .. Reserved : k.tcb[SystemTids[i]].state = "DORMANT"
    <2>1. \A i \in 1 .. Reserved : SystemTids[i] \in Tasks /\ SystemTids[i] # TID_NULL
      BY ReservedFacts, SystemTidsAssumption DEF Tasks, TID_NULL
    <2> QED
      BY <1>4, <2>1
  <1>10. Starting(k, 0)
    BY <1>3, <1>4, <1>7, <1>8, <1>9 DEF Starting
  <1>11. booted = 0 /\ exited = {} /\ Booting
    BY MaxTasksAssumption DEF Init, Booting, Finished
  <1> QED
    BY <1>1, <1>2, <1>10, <1>11 DEF Orderly

\* A step of k_tsk_init that is not its last.
LEMMA StartingKept ==
    ASSUME Orderly, TypeOK', Booting, booted' = booted + 1, booted' # Finished, exited' = exited,
           Starting(Kernel', booted + 1) /\ InTurn(Kernel, Kernel') /\ Undisturbed(Kernel, Kernel')
    PROVE  Kept
  BY DEF Orderly, Kept, Booting

LEMMA BootKept ==
    ASSUME CarefulInstance, Orderly, Boot
    PROVE  Kept
  <1>1. TypeOK /\ TypeOK'
    BY BootType DEF Orderly
  <1>2. /\ Reserved \in Nat /\ Reserved >= 1 /\ Reserved < MAX_TASKS
        /\ FirstReserved = MAX_TASKS - Reserved /\ FirstReserved \in Nat
        /\ Finished = MAX_TASKS + 1 /\ MAX_TASKS \in Nat /\ MaxBootTasks \in Nat
        /\ \A i \in 1 .. Reserved : SystemTids[i] \in Tasks /\ SystemTids[i] >= FirstReserved
        /\ \A i, j \in 1 .. Reserved : SystemTids[i] = SystemTids[j] => i = j
        /\ booted \in 0 .. MAX_TASKS + 1 /\ MaxBootTasks < FirstReserved
    BY <1>1, ReservedFacts, SystemTidsAssumption, MaxBootAssumption
       DEF Tasks, Finished, FirstReserved, TypeOK, CarefulInstance
  <1>3. PICK k : k = Kernel
    OBVIOUS
  <1>4. Booting => Starting(k, booted) /\ exited = {}
    BY <1>3 DEF Orderly
  <1>5. k \in KernelType
    BY <1>1, <1>3, TypeOKKernel
  <1>6. CASE BootSystemTask
    <2>1. booted < Reserved /\ booted' = booted + 1 /\ exited' = exited
      BY <1>6 DEF BootSystemTask
    <2>2. Booting /\ booted' # Finished /\ booted + 1 \in 1 .. Reserved /\ booted \in Nat
      BY <1>2, <2>1 DEF Booting
    <2>3. PICK t \in Tasks : t = SystemTids[booted + 1]
      BY <1>2, <2>2
    <2>4. t >= FirstReserved /\ t \in Nat
      BY <1>2, <2>2, <2>3 DEF Tasks
    <2>5. HIGH_INDEX \in Prio /\ InBounds(HIGH_INDEX) /\ (booted = 0) \in BOOLEAN
      BY DEF Prio, HIGH_INDEX, RT_INDEX, NULL_INDEX, InBounds
    <2>6. PICK l \in KernelType : l = PushTailReady(CreateNew(k, t, HIGH_INDEX, booted = 0), t)
      BY <1>5, <2>5, CreateNewType, PushReadyType
    <2>7. Kernel' = l
      <3>1. Becomes(l)
        BY <1>3, <1>6, <2>3, <2>6 DEF BootSystemTask
      <3> QED
        BY <3>1, KernelStep
    <2>8. k.tcb[t].state = "DORMANT"
      <3>1. booted + 1 > booted
        BY <2>2
      <3> QED
        BY <1>4, <2>2, <2>3, <3>1 DEF Starting
    <2>9. \A i \in 1 .. Reserved : i > booted + 1 => SystemTids[i] # t
      BY <1>2, <2>2, <2>3
    <2>10. ~(t > (booted + 1) - Reserved /\ t < FirstReserved /\ t # TID_NULL)
      BY <1>2, <2>4
    <2>11. Starting(l, booted + 1) /\ InTurn(k, l) /\ Undisturbed(k, l)
      BY <1>4, <2>2, <2>5, <2>6, <2>8, <2>9, <2>10, NewStarts
    <2> QED
      BY <1>1, <1>3, <2>1, <2>2, <2>7, <2>11, StartingKept
  <1>7. CASE BootTask
    <2>1. /\ booted >= Reserved /\ booted - Reserved < MaxBootTasks
          /\ booted' = booted + 1 /\ exited' = exited
      BY <1>7 DEF BootTask
    <2>2. Booting /\ booted' # Finished /\ booted \in Nat
      BY <1>2, <2>1 DEF Booting
    <2>3. PICK t : t = booted - Reserved + 1
      OBVIOUS
    <2>4. t \in Tasks /\ t \in Nat /\ t < FirstReserved /\ t # TID_NULL /\ t = (booted + 1) - Reserved
      BY <1>2, <2>1, <2>2, <2>3 DEF Tasks, TID_NULL
    <2>5. CASE \E info \in BootInfos : Becomes(PushTailReady(CreateNew(k, t, info.prio, info.priv), t))
      <3>1. PICK info \in BootInfos : Becomes(PushTailReady(CreateNew(k, t, info.prio, info.priv), t))
        BY <2>5
      <3>2. info.prio \in RT_INDEX .. LOWEST_INDEX /\ info.priv \in BOOLEAN
        BY BootInfosAssumption
      <3>3. info.prio \in Prio /\ InBounds(info.prio)
        BY <3>2, ReadyQueueIds
      <3>4. PICK l \in KernelType : l = PushTailReady(CreateNew(k, t, info.prio, info.priv), t)
        BY <1>5, <2>4, <3>2, <3>3, CreateNewType, PushReadyType
      <3>5. Kernel' = l
        BY <3>1, <3>4, KernelStep
      <3>6. k.tcb[t].state = "DORMANT"
        <4>1. t > booted - Reserved
          BY <1>2, <2>2, <2>3
        <4> QED
          BY <1>4, <2>2, <2>4, <4>1 DEF Starting
      <3>7. \A i \in 1 .. Reserved : i > booted + 1 => SystemTids[i] # t
        BY <1>2, <2>4
      <3>8. ~(t > (booted + 1) - Reserved /\ t < FirstReserved /\ t # TID_NULL)
        BY <2>4
      <3>9. Starting(l, booted + 1) /\ InTurn(k, l) /\ Undisturbed(k, l)
        BY <1>4, <2>2, <2>4, <3>2, <3>3, <3>4, <3>6, <3>7, <3>8, NewStarts
      <3> QED
        BY <1>1, <1>3, <2>1, <2>2, <3>5, <3>9, StartingKept
    <2>6. CASE UNCHANGED kernelVars
      <3>1. Kernel' = k
        BY <1>3, <2>6 DEF kernelVars, Kernel
      <3>2. Starting(k, booted + 1)
        <4>1. \A i \in 1 .. Reserved : i > booted + 1 => i > booted
          BY <2>2
        <4>2. \A u \in Tasks : u > (booted + 1) - Reserved => u > booted - Reserved
          BY <1>2, <2>2 DEF Tasks
        <4>3. \A i \in 1 .. Reserved : i > booted + 1 => k.tcb[SystemTids[i]].state = "DORMANT"
          BY <1>4, <2>2, <4>1 DEF Starting
        <4>4. \A u \in Tasks : u > (booted + 1) - Reserved /\ u < FirstReserved /\ u # TID_NULL
                               => k.tcb[u].state = "DORMANT"
          BY <1>4, <2>2, <4>2 DEF Starting
        <4> QED
          BY <1>4, <2>2, <4>3, <4>4 DEF Starting
      <3>3. InTurn(k, k)
        <4>1. k.cur = TID_NULL
          BY <1>4, <2>2 DEF Starting
        <4> QED
          BY <4>1 DEF InTurn
      <3>4. Undisturbed(k, k)
        BY AsideSame DEF Undisturbed
      <3> QED
        BY <1>1, <1>3, <2>1, <2>2, <3>1, <3>2, <3>3, <3>4, StartingKept
    <2> QED
      BY <1>3, <1>7, <2>3, <2>5, <2>6 DEF BootTask
  <1>8. CASE BootDone
    <2>1. Booting /\ booted' = Finished /\ exited' = exited
      BY <1>8 DEF BootDone
    <2>2. PICK l \in KernelType : l = Run(Dispatch(k))
      BY <1>5, DispatchType, RunType
    <2>3. Kernel' = l
      <3>1. Becomes(l)
        BY <1>3, <1>8, <2>2 DEF BootDone
      <3> QED
        BY <3>1, KernelStep
    <2>4. Scheduled(l, {}) /\ Quiet(l) /\ InTurn(k, l) /\ Undisturbed(k, l)
      BY <1>4, <2>1, <2>2, BootDoneRuns
    <2> QED
      BY <1>1, <1>3, <1>4, <2>1, <2>3, <2>4 DEF Orderly, Kept, Booting, Finished
  <1> QED
    BY <1>6, <1>7, <1>8 DEF Boot

\* A system call, which is made when k_tsk_init has finished.
LEMMA RunningKept ==
    ASSUME Orderly, TypeOK', Up, booted' = booted,
           Scheduled(Kernel', exited') /\ Lawful(Kernel, Kernel')
    PROVE  Kept
  BY DEF Orderly, Kept, Booting, Up, Lawful

LEMMA YieldKept ==
    ASSUME Orderly, Yield
    PROVE  Kept
  <1>1. TypeOK /\ TypeOK'
    BY YieldType DEF Orderly
  <1>2. PICK k \in KernelType : k = Kernel
    BY <1>1, TypeOKKernel
  <1>3. Up /\ booted' = booted /\ exited' = exited
    BY DEF Yield
  <1>4. Scheduled(k, exited)
    BY <1>2, <1>3 DEF Orderly, Up
  <1>5. k.cur = gp_current_task /\ k.tcb[k.cur].prio = Cur.prio /\ k.cur \in Tasks
    BY <1>1, <1>2, KernelFields DEF Cur, TypeOK
  <1>6. PushTailReady(k, k.cur) \in KernelType
    BY <1>2, <1>5, PushReadyType
  <1>7. PICK l \in KernelType :
          l = RunNew(IF k.tcb[k.cur].prio = NULL_INDEX THEN k ELSE PushTailReady(k, k.cur))
    BY <1>2, <1>6, RunNewType
  <1>8. Kernel' = l
    <2>1. Becomes(l)
      BY <1>2, <1>5, <1>7 DEF Yield
    <2> QED
      BY <2>1, KernelStep
  <1>9. Scheduled(l, exited) /\ Lawful(k, l)
    BY <1>4, <1>7, YieldRuns
  <1> QED
    BY <1>1, <1>2, <1>3, <1>8, <1>9, RunningKept

LEMMA CreateKept ==
    ASSUME CarefulInstance, Orderly, UserTask, NEW prio \in CallPrios, Create(prio)
    PROVE  Kept
  <1>1. TypeOK /\ TypeOK'
    BY CreateType DEF Orderly
  <1>2. PICK k \in KernelType : k = Kernel
    BY <1>1, TypeOKKernel
  <1>3. Up /\ booted' = booted /\ exited' = exited
    BY DEF Create
  <1>4. Scheduled(k, exited)
    BY <1>2, <1>3 DEF Orderly, Up
  <1>5. /\ k.cur = gp_current_task /\ k.tcb[k.cur].prio = Cur.prio /\ k.cur \in Tasks
        /\ k.cur # TID_NULL /\ k.tcb = tcb
    BY <1>1, <1>2, KernelFields DEF Cur, TypeOK, UserTask
  <1>6. prio \in Prio /\ InBounds(prio) /\ FALSE \in BOOLEAN
    BY CallPriosAssumption DEF CarefulInstance, InBounds
  <1>7. PICK t \in Tasks : t = NewTid
    <2>1. FirstReserved \in Tasks /\ FreeSlots \in SUBSET Nat /\ FreeSlots \subseteq Tasks
      BY ReservedFacts DEF FreeSlots, Tasks, FirstReserved
    <2>2. FreeSlots # {} => \E i \in FreeSlots : \A j \in FreeSlots : i <= j
      BY <2>1, Least
    <2> QED
      BY <2>1, <2>2 DEF NewTid
  <1>8. k.tcb[t].state = "DORMANT"
    BY <1>5, <1>7 DEF Create
  <1>9. PICK a \in KernelType : a = CreateNew(k, t, prio, FALSE)
    BY <1>2, <1>6, CreateNewType
  <1>10. CASE prio >= Cur.prio
    <2>1. PICK l \in KernelType : l = PushTailReady(a, t)
      BY <1>9, PushReadyType
    <2>2. Kernel' = l
      <3>1. Becomes(l)
        BY <1>2, <1>7, <1>9, <1>10, <2>1 DEF Create
      <3> QED
        BY <3>1, KernelStep
    <2>3. prio >= k.tcb[k.cur].prio /\ l = PushTailReady(CreateNew(k, t, prio, FALSE), t)
      BY <1>5, <1>9, <1>10, <2>1
    <2>4. Scheduled(l, exited) /\ Lawful(k, l)
      BY <1>4, <1>6, <1>8, <2>3, CreateQueuesRuns
    <2> QED
      BY <1>1, <1>2, <1>3, <2>2, <2>4, RunningKept
  <1>11. CASE ~(prio >= Cur.prio)
    <2>1. PICK b \in KernelType : b = [a EXCEPT !.cur = t]
      BY <1>9, OneTask
    <2>2. PICK l \in KernelType : l = PushHeadReady(Run(b), k.cur)
      BY <1>5, <2>1, RunType, PushReadyType
    <2>3. Kernel' = l
      <3>1. Becomes(l)
        BY <1>2, <1>5, <1>7, <1>9, <1>11, <2>1, <2>2 DEF Create
      <3> QED
        BY <3>1, KernelStep
    <2>4. /\ ~(prio >= k.tcb[k.cur].prio)
          /\ l = PushHeadReady(Run([CreateNew(k, t, prio, FALSE) EXCEPT !.cur = t]), k.cur)
      BY <1>5, <1>9, <1>11, <2>1, <2>2
    <2>5. Scheduled(l, exited) /\ Lawful(k, l)
      BY <1>4, <1>5, <1>6, <1>8, <2>4, CreatePreemptsRuns
    <2> QED
      BY <1>1, <1>2, <1>3, <2>3, <2>5, RunningKept
  <1> QED
    BY <1>10, <1>11

LEMMA ExitKept ==
    ASSUME Orderly, UserTask, Exit
    PROVE  Kept
  <1>1. TypeOK /\ TypeOK'
    BY ExitType DEF Orderly
  <1>2. PICK k \in KernelType : k = Kernel
    BY <1>1, TypeOKKernel
  <1>3. k.cur = gp_current_task /\ k.cur # TID_NULL
    BY <1>2, KernelFields DEF UserTask
  <1>4. Up /\ booted' = booted /\ exited' = exited \cup {k.cur}
    BY <1>3 DEF Exit
  <1>5. Scheduled(k, exited)
    BY <1>2, <1>4 DEF Orderly, Up
  <1>6. PICK l \in KernelType : l = Run(Dispatch(k))
    BY <1>2, DispatchType, RunType
  <1>7. Kernel' = l
    <2>1. Becomes(l)
      BY <1>2, <1>6 DEF Exit
    <2> QED
      BY <2>1, KernelStep
  <1>8. Scheduled(l, exited \cup {k.cur}) /\ Lawful(k, l)
    BY <1>3, <1>5, <1>6, ExitRuns
  <1> QED
    BY <1>1, <1>2, <1>4, <1>7, <1>8, RunningKept

LEMMA SetPrioKept ==
    ASSUME CarefulInstance, Orderly, UserTask, NEW t \in Tasks, NEW prio \in CallPrios,
           Careful(t, prio), SetPrio(t, prio)
    PROVE  Kept
  <1>1. TypeOK /\ TypeOK'
    BY SetPrioStepType DEF Orderly
  <1>2. PICK k \in KernelType : k = Kernel
    BY <1>1, TypeOKKernel
  <1>3. Up /\ booted' = booted /\ exited' = exited
    BY DEF SetPrio
  <1>4. Scheduled(k, exited)
    BY <1>2, <1>3 DEF Orderly, Up
  <1>5. /\ k.cur = gp_current_task /\ k.tcb[k.cur].prio = Cur.prio /\ k.cur \in Tasks
        /\ k.cur # TID_NULL /\ k.tcb = tcb /\ k.queue = queue
    BY <1>1, <1>2, KernelFields DEF Cur, TypeOK, UserTask
  <1>6. prio \in Prio /\ InBounds(prio)
    BY CallPriosAssumption DEF CarefulInstance, InBounds
  <1>7. /\ k.tcb[t].prio # NULL_INDEX /\ t # TID_NULL /\ k.tcb[t].state # "DORMANT"
        /\ t \notin exited
    BY <1>5 DEF SetPrio, MaySetPrio, Careful
  <1>8. ASSUME prio < k.tcb[k.cur].prio, t \in TasksOf(k, ReadyQ(k.tcb[t].prio))
        PROVE  t \in {k.queue[ReadyQ(k.tcb[t].prio)].HEAD, k.queue[ReadyQ(k.tcb[t].prio)].TAIL}
    <2>1. k.tcb[t].prio \in RT_INDEX .. LOWEST_INDEX
      <3>1. k.tcb[t].prio \in Prio
        BY <1>2, Fields
      <3> QED
        BY <1>7, <3>1, ReadyQueueIds DEF InBounds
    <2>2. ~InMiddle(t)
      BY <1>5, <1>8 DEF Careful
    <2> QED
      BY <1>2, <1>5, <1>8, <2>1, <2>2 DEF InMiddle
  <1>9. PICK l : l = IF k.tcb[t].state \in {"BLK_RECV", "BLK_SEND"} \/ k.tcb[t].real_time
                     THEN SetPrioBlocked(k, t, prio)
                     ELSE IF k.tcb[t].prio = prio THEN k
                     ELSE IF t = k.cur THEN SetPrioSelf(k, prio)
                     ELSE IF k.tcb[k.cur].prio > prio THEN SetPrioPreempt(k, t, prio)
                     ELSE SetPrioMove(k, t, prio)
    OBVIOUS
  <1>10. Kernel' = l
    <2>1. l \in KernelType
      BY <1>2, <1>6, <1>7, <1>9, SetPrioType
    <2>2. Becomes(l)
      BY <1>2, <1>5, <1>9 DEF SetPrio
    <2> QED
      BY <2>1, <2>2, KernelStep
  <1>11. Scheduled(l, exited) /\ Lawful(k, l)
    BY <1>4, <1>5, <1>6, <1>7, <1>8, <1>9, SetPrioRuns
  <1> QED
    BY <1>1, <1>2, <1>3, <1>10, <1>11, RunningKept

LEMMA StepKept ==
    ASSUME CarefulInstance, Orderly, CarefulNext
    PROVE  Kept
  <1>1. CASE Boot
    BY <1>1, BootKept
  <1>2. CASE Calls
    BY <1>2, YieldKept, CreateKept, ExitKept DEF Calls
  <1>3. CASE UserTask /\ \E t \in Tasks, p \in CallPrios : Careful(t, p) /\ SetPrio(t, p)
    BY <1>3, SetPrioKept
  <1> QED
    BY <1>1, <1>2, <1>3 DEF CarefulNext

----------------------------------------------------------------------------
(***************************************************************************)
(* What the invariant says.                                                *)
(***************************************************************************)
\* The tasks of no queue, at boot and afterwards.
LEMMA OrderlyPlaced ==
    ASSUME Orderly
    PROVE  \E R : /\ Placed(Kernel, R) /\ TID_NULL \in R
                  /\ \A u \in Tasks \ {TID_NULL} : Kernel.tcb[u].state = "READY" => u \notin R
                  /\ \A u \in Tasks : Kernel.tcb[u].state \in Blocked => u \notin R
  <1>1. CASE Booting
    <2>1. Starting(Kernel, booted)
      BY <1>1 DEF Orderly
    <2>2. Placed(Kernel, {TID_NULL}) /\ Kernel.tcb[TID_NULL].state \notin Blocked
      BY <2>1, StartingFacts DEF Blocked
    <2> QED
      BY <2>2
  <1>2. CASE ~Booting
    <2>1. Scheduled(Kernel, exited)
      BY <1>2 DEF Orderly
    <2>2. PICK R : R = Live(Kernel, exited)
      OBVIOUS
    <2>3. /\ Placed(Kernel, R) /\ TID_NULL \in R
          /\ \A u \in Tasks \ {TID_NULL} : Kernel.tcb[u].state = "READY" => u \notin R
          /\ \A u \in Tasks : Kernel.tcb[u].state \in Blocked => u \notin R
      BY <2>1, <2>2, CurrentTask DEF Scheduled
    <2> QED
      BY <2>3
  <1> QED
    BY <1>1, <1>2

\* Who is on the ready queues.
LEMMA OrderlyReadyLists ==
    ASSUME Orderly
    PROVE  ReadyListsExact
  <1>1. PICK k : k = Kernel
    OBVIOUS
  <1>2. PICK R : Placed(k, R) /\ TID_NULL \in R
                 /\ \A u \in Tasks \ {TID_NULL} : k.tcb[u].state = "READY" => u \notin R
    BY <1>1, OrderlyPlaced
  <1>3. ASSUME NEW i \in RT_INDEX .. LOWEST_INDEX
        PROVE  /\ WellLinked(k, ReadyQ(i))
               /\ TasksOf(k, ReadyQ(i)) =
                     {t \in Tasks \ {TID_NULL} : k.tcb[t].state = "READY" /\ k.tcb[t].prio = i}
    <2>1. ReadyQ(i) \in Queues
      BY ReadyQueueIds
    <2>2. Memory(k) /\ Linked(k, ReadyQ(i))
      BY <1>2, <2>1 DEF Placed, PlacedBut, Lists
    <2>3. WellLinked(k, ReadyQ(i)) /\ TasksOf(k, ReadyQ(i)) \subseteq Tasks
      BY <2>2, LinkedFacts
    <2>4. ASSUME NEW u \in TasksOf(k, ReadyQ(i))
          PROVE  u \in Tasks \ {TID_NULL} /\ k.tcb[u].state = "READY" /\ k.tcb[u].prio = i
      <3>1. u \in Tasks \ R /\ k.tcb[u].state = "READY" /\ k.tcb[u].prio = i
        BY <1>2, <2>4, OnReadyQueue
      <3> QED
        BY <1>2, <3>1
    <2>5. ASSUME NEW u \in Tasks \ {TID_NULL}, k.tcb[u].state = "READY", k.tcb[u].prio = i
          PROVE  u \in TasksOf(k, ReadyQ(i))
      <3>1. u \in Tasks \ R
        BY <1>2, <2>5
      <3>2. u \in TasksOf(k, ReadyQ(k.tcb[u].prio))
        BY <1>2, <2>5, <3>1, ReadyTask
      <3> QED
        BY <2>5, <3>2
    <2>6. TasksOf(k, ReadyQ(i)) =
              {t \in Tasks \ {TID_NULL} : k.tcb[t].state = "READY" /\ k.tcb[t].prio = i}
      BY <2>4, <2>5
    <2> QED
      BY <2>3, <2>6
  <1>4. k.tcb = tcb
    BY <1>1, KernelFields
  <1> QED
    BY <1>1, <1>3, <1>4 DEF ReadyListsExact

\* Who runs.
LEMMA InvHighest ==
    ASSUME IInv, Up
    PROVE  /\ {t \in Tasks : tcb[t].state = "RUNNING"} \ exited = {gp_current_task}
           /\ \A t \in Tasks : tcb[t].state = "READY" => tcb[t].prio >= Cur.prio
  <1>1. PICK k : k = Kernel
    OBVIOUS
  <1>2. Scheduled(k, exited)
    BY <1>1 DEF IInv, Orderly, Up
  <1>3. k.tcb = tcb /\ k.cur = gp_current_task
    BY <1>1, KernelFields
  <1>4. /\ k.cur \in Tasks /\ k.tcb[k.cur].state = "RUNNING" /\ k.cur \notin exited
        /\ \A u \in Tasks \ Live(k, exited) : k.tcb[u].state # "RUNNING"
        /\ k.cur # TID_NULL => k.tcb[TID_NULL].state = "READY"
    BY <1>2, CurrentTask DEF Scheduled, Blocked
  <1>5. ASSUME NEW u \in Tasks, k.tcb[u].state = "RUNNING", u \notin exited
        PROVE  u = k.cur
    BY <1>4, <1>5 DEF Live
  <1>6. {t \in Tasks : k.tcb[t].state = "RUNNING"} \ exited = {k.cur}
    BY <1>4, <1>5
  <1>7. ASSUME NEW u \in Tasks, k.tcb[u].state = "READY"
        PROVE  k.tcb[u].prio >= k.tcb[k.cur].prio
    <2>1. ~(k.tcb[u].prio < k.tcb[k.cur].prio)
      BY <1>1, <1>7 DEF IInv, Up, Quiet, Outranking
    <2>2. k.tcb[u].prio \in Int /\ k.tcb[k.cur].prio \in Int
      BY <1>2, <1>4, CurrentTask, MemoryFields, ReadyQueueIds
    <2> QED
      BY <2>1, <2>2
  <1> QED
    BY <1>3, <1>6, <1>7 DEF Cur

----------------------------------------------------------------------------
(***************************************************************************)
(* The theorems.                                                           *)
(***************************************************************************)
\* The inductive invariant: while k_tsk_init creates tasks, and from then on
\* between any two system calls of careful callers, every task is where its
\* state says, every queue is a proper list, and nothing outranks the current task.
THEOREM SchedulerInvariant ==
    ASSUME CarefulInstance
    PROVE  CarefulSpec => []IInv
  <1>1. Init => IInv
    BY InitOrderly DEF IInv
  <1>2. ASSUME IInv, [CarefulNext]_taskVars PROVE IInv'
    <2>1. CASE CarefulNext
      <3>1. Kept
        BY <1>2, <2>1, StepKept DEF IInv
      <3>2. CASE Booting
        BY <3>1, <3>2 DEF Kept, IInv, Booting
      <3>3. CASE ~Booting
        <4>1. Quiet(Kernel) /\ NoneNew(Kernel, Kernel')
          BY <1>2, <3>1, <3>3 DEF IInv, Kept
        <4>2. Quiet(Kernel')
          BY <4>1 DEF Quiet, NoneNew
        <4> QED
          BY <3>1, <4>2 DEF Kept, IInv
      <3> QED
        BY <3>2, <3>3
    <2>2. CASE UNCHANGED taskVars
      <3>1. TypeOK' /\ Kernel' = Kernel /\ booted' = booted /\ exited' = exited
        BY <1>2, <2>2 DEF IInv, Orderly, TypeOK, taskVars, kernelVars, Kernel
      <3> QED
        BY <1>2, <3>1 DEF IInv, Orderly, Booting
    <2> QED
      BY <1>2, <2>1, <2>2
  <1> QED
    BY <1>1, <1>2, PTL DEF CarefulSpec

\* The code of k_task.c and its queues never indexes ready_queue out of bounds and
\* never follows a null link, whatever careful callers ask for.
THEOREM NeverUndefined ==
    ASSUME CarefulInstance
    PROVE  CarefulSpec => []NoUndefined
  <1>1. IInv => NoUndefined
    BY KernelFields DEF IInv, Orderly, Starting, Scheduled, Placed, PlacedBut, NoUndefined
  <1> QED
    BY <1>1, SchedulerInvariant, PTL

\* Each ready queue of k_task.c is a proper doubly linked list of exactly the READY
\* tasks of its priority: no call loses a task, or puts it on two lists.
THEOREM ReadyListsAreExact ==
    ASSUME CarefulInstance
    PROVE  CarefulSpec => []ReadyListsExact
  <1>1. IInv => ReadyListsExact
    BY OrderlyReadyLists DEF IInv
  <1> QED
    BY <1>1, SchedulerInvariant, PTL

\* "The scheduler always chooses the highest priority" (k_task.c:302): no READY task
\* outranks the current one, and no other task that lives is RUNNING.
THEOREM HighestPriorityAlwaysRuns ==
    ASSUME CarefulInstance
    PROVE  CarefulSpec => []HighestPriorityRuns
  <1>1. IInv => HighestPriorityRuns
    BY InvHighest DEF HighestPriorityRuns
  <1> QED
    BY <1>1, SchedulerInvariant, PTL

\* k_tsk_exit is final although it leaves the caller RUNNING: a task that has made
\* the call is never the current task again.
THEOREM ExitedTasksNeverRun ==
    ASSUME CarefulInstance
    PROVE  CarefulSpec => []ExitedNeverRuns
  <1>1. IInv => ExitedNeverRuns
    BY KernelFields DEF IInv, Orderly, Scheduled, ExitedNeverRuns
  <1> QED
    BY <1>1, SchedulerInvariant, PTL

\* Tasks of one priority run first come, first served: two that wait on keep their
\* order, the one dispatched was ahead of those that wait on, and a new one goes
\* behind them.
THEOREM FirstComeIsFirstServed ==
    ASSUME CarefulInstance
    PROVE  CarefulSpec => FirstComeFirstServed
  <1>1. ASSUME NEW k, NEW i, NEW t, NEW u
        PROVE  Ahead(k, i, t, u) <=> Precedes(k, ReadyQ(i), t, u)
    BY DEF Ahead, Precedes, InOrder
  <1>2. ASSUME IInv, CarefulNext, NEW t \in Tasks \ {TID_NULL}, NEW u \in Tasks \ {TID_NULL},
               Waits(t), t # u, tcb'[u].prio = tcb[t].prio
        PROVE  /\ Waits(u) => (Ahead(Kernel, tcb[t].prio, t, u) <=> Ahead(Kernel', tcb[t].prio, t, u))
               /\ tcb[u].state = "READY" /\ tcb[u].prio = tcb[t].prio /\ u = gp_current_task'
                  => Ahead(Kernel, tcb[t].prio, u, t)
               /\ tcb[u].state \notin {"READY", "RUNNING"} /\ tcb'[u].state = "READY"
                  => Ahead(Kernel', tcb[t].prio, t, u)
    <2>1. PICK k, l : k = Kernel /\ l = Kernel'
      OBVIOUS
    <2>2. InTurn(k, l)
      BY <1>2, <2>1, StepKept DEF Kept, IInv
    <2>3. k.tcb = tcb /\ l.tcb = tcb' /\ l.cur = gp_current_task'
      BY <2>1 DEF Kernel
    <2>4. Stays(k, l, t) /\ l.tcb[u].prio = k.tcb[t].prio /\ (Waits(u) => Stays(k, l, u))
      BY <1>2, <2>3 DEF Waits, Stays
    <2>5. ASSUME Waits(u)
          PROVE  Precedes(k, ReadyQ(k.tcb[t].prio), t, u) <=> Precedes(l, ReadyQ(k.tcb[t].prio), t, u)
      BY <1>2, <2>2, <2>4, <2>5 DEF InTurn
    <2>6. ASSUME tcb[u].state = "READY", tcb[u].prio = tcb[t].prio, u = gp_current_task'
          PROVE  Precedes(k, ReadyQ(k.tcb[t].prio), u, t)
      BY <1>2, <2>2, <2>3, <2>4, <2>6 DEF InTurn
    <2>7. ASSUME tcb[u].state \notin {"READY", "RUNNING"}, tcb'[u].state = "READY"
          PROVE  Precedes(l, ReadyQ(k.tcb[t].prio), t, u)
      BY <1>2, <2>2, <2>3, <2>4, <2>7 DEF InTurn
    <2> QED
      BY <1>1, <2>1, <2>3, <2>5, <2>6, <2>7
  <1>3. IInv /\ [CarefulNext]_taskVars => [TurnsKept]_taskVars
    BY <1>2 DEF TurnsKept
  <1> QED
    BY <1>3, SchedulerInvariant, PTL DEF FirstComeFirstServed, CarefulSpec
=============================================================================

-------------------------------- MODULE KMsg --------------------------------
(***************************************************************************)
(* Mailboxes and message passing: k_msg.c on top of k_task.c, with the two *)
(* ways the UART interrupt handler takes part in it.                       *)
(*                                                                         *)
(* A mailbox keeps the messages of its ring buffer as a sequence (module   *)
(* MailboxBuffer has the bytes).  k_recv_msg is the one kernel call that   *)
(* does something after k_tsk_run_new has switched it out and back in:     *)
(* resume[t] is the buffer length that t, switched out there, will pop     *)
(* with, and its continuation is the action RecvResume, which nothing can  *)
(* precede once t is current again.                                        *)
(***************************************************************************)
EXTENDS KTask

CONSTANTS
    MIN_MSG_SIZE,   \* the length of a header alone
    Targets,        \* the mailboxes tasks create and send to
    Lengths,        \* the message lengths tasks put in a header
    Capacities,     \* the sizes tasks ask of mbx_create
    BufLengths,     \* the buffer lengths tasks pass to recv_msg
    UART_MBX_SIZE,  \* the capacity of the UART mailbox
    KeyLength       \* the length of the message that carries one typed character

ASSUME MsgAssumption ==
    /\ MIN_MSG_SIZE \in Nat \ {0}
    /\ Targets \subseteq Mailboxes
    /\ Lengths \subseteq Nat /\ Capacities \subseteq Nat /\ BufLengths \subseteq Nat
    /\ UART_MBX_SIZE \in Nat /\ KeyLength \in Nat

VARIABLES
    mbx,              \* g_mailboxes and UART_MAILBOX, their ring buffers
    message_header,   \* the message a task blocked in send_msg points to
    resume            \* the buffer length of a switched-out recv_msg

msgVars == <<mbx, message_header, resume>>
vars    == <<taskVars, msgVars>>

TID_KCD == MAX_TASKS - 1
Message == [length : Lengths \cup {KeyLength}, sender_tid : Mailboxes]
Mailbox == [active : BOOLEAN, capacity : Nat, current_size : Nat, msgs : Seq(Message)]

NewMailbox(size) == [active |-> TRUE, capacity |-> size, current_size |-> 0, msgs |-> <<>>]
NoMailbox        == [NewMailbox(0) EXCEPT !.active = FALSE]

\* The kernel memory with the mailboxes in it, and the step to another one.
Machine == [tcb |-> tcb, queue |-> queue, cur |-> gp_current_task, ub |-> ub,
            mbx |-> mbx, hdr |-> message_header]
MachineBecomes(k) == /\ Becomes(k)
                     /\ mbx' = k.mbx
                     /\ message_header' = k.hdr
                     /\ UNCHANGED <<g_num_active_tasks, booted, exited>>

----------------------------------------------------------------------------
(***************************************************************************)
(* The ring buffer, by its messages.                                       *)
(***************************************************************************)
\* Mutant of CanFit: off by one.
CanFitOneMore(B, n) == IF B.current_size = B.capacity THEN -1
                       ELSE IF B.capacity - B.current_size < n - 1 THEN 0
                       ELSE 1

\* can_fit: 1 when a message of length n fits.
CanFit(B, n) == IF B.current_size = B.capacity THEN -1
                ELSE IF B.capacity - B.current_size < n THEN 0
                ELSE 1

\* push_buffer
PushBuffer(k, m, msg) ==
    IF CanFit(k.mbx[m], msg.length) # 1 THEN k
    ELSE [k EXCEPT !.mbx[m].msgs = Append(@, msg),
                   !.mbx[m].current_size = @ + msg.length]

\* What pop_buffer returns, and what it leaves behind when that is 1.
PopResult(B, len) == IF B.current_size = 0 THEN 0
                     ELSE IF len < MIN_MSG_SIZE \/ len < Head(B.msgs).length THEN -1
                     ELSE 1

PopBuffer(k, m, len) ==
    IF PopResult(k.mbx[m], len) # 1 THEN k
    ELSE [k EXCEPT !.mbx[m].msgs = Tail(@),
                   !.mbx[m].current_size = @ - Head(k.mbx[m].msgs).length]

----------------------------------------------------------------------------
(***************************************************************************)
(* Sending.                                                                *)
(***************************************************************************)
\* The checks k_send_msg and k_send_msg_nb share.
MaySend(m, msg) ==
    /\ m # TID_UART => tcb[m].state # "DORMANT"
    /\ msg.length >= MIN_MSG_SIZE
    /\ mbx[m].active
    /\ msg.length <= mbx[m].capacity

\* Mutant of Room: nobody asks whether senders are waiting.
RoomOvertakes(k, m, msg) == CanFit(k.mbx[m], msg.length) = 1
Room(k, m, msg) == CanFit(k.mbx[m], msg.length) = 1 /\ k.queue[WaitQ(m)].current_size = 0

\* Mutant of Wakes: only receivers that outrank the sender are woken.
WakesHigherOnly(k, m) == /\ m # TID_UART /\ k.tcb[m].state = "BLK_RECV"
                         /\ k.tcb[m].prio < k.tcb[k.cur].prio

\* A receiver blocked on its mailbox goes to the tail of its ready queue.
Wakes(k, m) == m # TID_UART /\ k.tcb[m].state = "BLK_RECV"
Wake(k, m)  == [PushTailReady(k, m) EXCEPT !.tcb[m].state = "READY"]

\* Mutant of Deliver: the message is not stored when its receiver preempts the
\* sender.
DeliverLosesMessage(k, m, msg, preemptible) ==
    IF Wakes(k, m) /\ preemptible /\ k.tcb[m].prio < k.tcb[k.cur].prio
    THEN Preempt(Wake(k, m))
    ELSE LET b == PushBuffer(k, m, msg) IN IF Wakes(k, m) THEN Wake(b, m) ELSE b

\* The message is stored; a receiver that was blocked is ready again, and
\* preempts a caller of lower priority unless the message says it came from UART.
Deliver(k, m, msg, preemptible) ==
    LET b == PushBuffer(k, m, msg) IN
    IF ~Wakes(k, m) THEN b
    ELSE IF preemptible /\ k.tcb[m].prio < k.tcb[k.cur].prio THEN Preempt(Wake(b, m))
    ELSE Wake(b, m)

\* The caller joins the waiting list.
BlockSender(k, m, msg) ==
    RunNew(PushTail([k EXCEPT !.tcb[k.cur].state = "BLK_SEND", !.hdr[k.cur] = msg],
                    k.cur, WaitQ(m)))

Running == Up /\ resume[gp_current_task] = NULL
Calling == Running /\ UserTask

\* k_send_msg
SendMsg(m, msg) ==
    /\ Calling /\ MaySend(m, msg)
    /\ MachineBecomes(IF Room(Machine, m, msg) THEN Deliver(Machine, m, msg, TRUE)
                      ELSE BlockSender(Machine, m, msg))
    /\ UNCHANGED resume

\* k_send_msg_nb: ENOSPC, and no change, where k_send_msg would block.
SendMsgNb(m, msg) ==
    /\ MaySend(m, msg) /\ Room(Machine, m, msg)
    /\ MachineBecomes(Deliver(Machine, m, msg, msg.sender_tid # TID_UART))
    /\ UNCHANGED resume

----------------------------------------------------------------------------
(***************************************************************************)
(* Receiving.                                                              *)
(***************************************************************************)
\* One turn of the loop over the waiting list: the first sender's message is
\* stored if it fits, and the sender is ready again.
Admits(k, m) == /\ k.queue[WaitQ(m)].current_size > 0
                /\ k.queue[WaitQ(m)].HEAD # NULL
                /\ CanFit(k.mbx[m], k.hdr[k.queue[WaitQ(m)].HEAD].length) = 1

\* Mutants of Admit: the sender is not taken off the waiting list, and its message
\* is not stored.
AdmitKeepsWaiting(k, m) ==
    LET t == k.queue[WaitQ(m)].HEAD IN PushTailReady(PushBuffer(k, m, k.hdr[t]), t)
AdmitLosesMessage(k, m) ==
    LET t == k.queue[WaitQ(m)].HEAD IN PushTailReady(PopHead(k, WaitQ(m)), t)

Admit(k, m)  == LET t == k.queue[WaitQ(m)].HEAD
                IN  PushTailReady(PushBuffer(PopHead(k, WaitQ(m)), m, k.hdr[t]), t)

Turn(k, m)   == IF Admits(k, m) THEN Admit(k, m) ELSE k

\* Mutant of Drain: an if in place of the while.
DrainOne(k, m) == Turn(k, m)

\* The loop ends where the first sender's message does not fit.
Drain(k, m) ==
    LET after[i \in 0 .. MAX_TASKS] == IF i = 0 THEN k ELSE Turn(after[i - 1], m)
    IN  after[MAX_TASKS]

\* Mutant of Receive: the caller goes on without asking the scheduler.
ReceiveNoPreempt(k, len) == Drain(PopBuffer(k, k.cur, len), k.cur)

\* Pop a message, admit senders, and let the scheduler choose again.
Receive(k, len) == Preempt(Drain(PopBuffer(k, k.cur, len), k.cur))

Mine == mbx[gp_current_task]

\* k_recv_msg: on an empty mailbox the caller blocks, and the real-time caller,
\* which k_tsk_run_new does not switch out, goes straight on.
RecvMsg(len) ==
    LET t       == gp_current_task
        blocked == [Machine EXCEPT !.tcb[t].state = "BLK_RECV"]
    IN  /\ Calling /\ Mine.active
        /\ PopResult(Mine, len) # -1
        /\ IF PopResult(Mine, len) = 1
           THEN MachineBecomes(Receive(Machine, len)) /\ UNCHANGED resume
           ELSE IF Cur.real_time
           THEN MachineBecomes(Receive(blocked, len)) /\ UNCHANGED resume
           ELSE MachineBecomes(RunNew(blocked)) /\ resume' = [resume EXCEPT ![t] = len]

\* k_recv_msg from line 344 on: what pop_buffer returns is not looked at.
RecvResume ==
    /\ Up /\ resume[gp_current_task] # NULL
    /\ MachineBecomes(Receive(Machine, resume[gp_current_task]))
    /\ resume' = [resume EXCEPT ![gp_current_task] = NULL]

\* k_recv_msg_nb, called by a task
RecvMsgNb(len) ==
    /\ Calling /\ Mine.active
    /\ PopResult(Mine, len) = 1
    /\ MachineBecomes(Receive(Machine, len))
    /\ UNCHANGED resume

\* k_mbx_create, with the memory available
MbxCreate(size) ==
    /\ Calling /\ ~Mine.active /\ size >= MIN_MSG_SIZE
    /\ mbx' = [mbx EXCEPT ![gp_current_task] = NewMailbox(size)]
    /\ queue' = [queue EXCEPT ![WaitQ(gp_current_task)] = EmptyQUEUE]
    /\ UNCHANGED <<tcb, gp_current_task, g_num_active_tasks, ub, booted, exited,
                   message_header, resume>>

----------------------------------------------------------------------------
(***************************************************************************)
(* The UART interrupt, which is taken only between kernel calls.           *)
(***************************************************************************)
\* A character has arrived: k_send_msg_nb to the KCD in the name of TID_UART.
UartReceive ==
    /\ Running
    /\ SendMsgNb(TID_KCD, [length |-> KeyLength, sender_tid |-> TID_UART])

\* The transmitter is empty: k_recv_msg_nb with g_uart_mailbox_collect set, so
\* that it reads the UART mailbox and leaves the current task alone.
UartTransmit ==
    /\ Running
    /\ PopResult(mbx[TID_UART], UART_MBX_SIZE) = 1
    /\ MachineBecomes(Drain(PopBuffer(Machine, TID_UART, UART_MBX_SIZE), TID_UART))
    /\ UNCHANGED resume

----------------------------------------------------------------------------
MsgInit == /\ Init
           /\ mbx = [m \in Mailboxes |-> IF m = TID_UART THEN NewMailbox(UART_MBX_SIZE)
                                         ELSE NoMailbox]
           /\ message_header = [t \in Tasks |-> NULL]
           /\ resume = [t \in Tasks |-> NULL]

\* The calls of k_task.c, which leave the mailboxes alone.
TaskCalls ==
    /\ Booting \/ Running
    /\ \/ Boot
       \/ Calls
       \/ UserTask /\ \E t \in Tasks, p \in CallPrios : Careful(t, p) /\ SetPrio(t, p)
    /\ UNCHANGED msgVars

\* A task sends in its own name.
MsgCalls ==
    \/ \E m \in Targets, n \in Lengths :
          LET msg == [length |-> n, sender_tid |-> gp_current_task]
          IN  SendMsg(m, msg) \/ (Calling /\ SendMsgNb(m, msg))
    \/ \E len \in BufLengths : RecvMsg(len) \/ RecvMsgNb(len)
    \/ gp_current_task \in Targets /\ \E size \in Capacities : MbxCreate(size)
    \/ RecvResume

MsgNext  == TaskCalls \/ MsgCalls
UartNext == TaskCalls \/ MsgCalls \/ UartReceive \/ UartTransmit

MsgSpec  == MsgInit /\ [][MsgNext]_vars
UartSpec == MsgInit /\ [][UartNext]_vars

----------------------------------------------------------------------------
(***************************************************************************)
(* Properties.                                                             *)
(***************************************************************************)
MsgTypeOK ==
    /\ TypeOK
    /\ mbx \in [Mailboxes -> Mailbox]
    /\ message_header \in [Tasks -> Message \cup {NULL}]
    /\ resume \in [Tasks -> BufLengths \cup {NULL}]

\* The bytes of the messages of s.
SumLengths(s) ==
    LET sum[i \in 0 .. Len(s)] == IF i = 0 THEN 0 ELSE sum[i - 1] + s[i].length
    IN  sum[Len(s)]

\* The ring buffer never holds more than its capacity, and current_size is the
\* number of bytes of the messages in it.
BufferAccounts ==
    \A m \in Mailboxes : /\ mbx[m].current_size = SumLengths(mbx[m].msgs)
                         /\ mbx[m].current_size <= mbx[m].capacity

\* No lost wake-up: a task stays blocked on receive only while its mailbox is
\* empty and no sender waits for it (k_send_msg wakes it, k_msg.c:213).
NoLostWakeup ==
    \A t \in Tasks : tcb[t].state = "BLK_RECV" =>
        mbx[t].msgs = <<>> /\ queue[WaitQ(t)].HEAD = NULL

\* No sender waits for room that is there: the first message of a waiting list
\* does not fit in the mailbox (the loop at k_msg.c:349 and 400 has let in
\* every sender it could).
NoStuckSender ==
    \A m \in Mailboxes : queue[WaitQ(m)].HEAD # NULL =>
        CanFit(mbx[m], message_header[queue[WaitQ(m)].HEAD].length) # 1

\* The tasks blocked on send are the members of the waiting lists, each of one
\* list, once, and every list is a proper linked list.
WaitingListsExact ==
    LET senders == {t \in Tasks : tcb[t].state = "BLK_SEND"}
    IN  /\ \A m \in Mailboxes : WellLinked(Kernel, WaitQ(m))
        /\ UNION {TasksOf(Kernel, WaitQ(m)) : m \in Mailboxes} = senders
        /\ \A m, n \in Mailboxes :
              m # n => TasksOf(Kernel, WaitQ(m)) \cap TasksOf(Kernel, WaitQ(n)) = {}

\* A receiver that was woken up finds its message: by the time it runs, nothing
\* has taken it ("get the buffer when we have a message", k_msg.c:344).
WokenReceiverHasMessage ==
    \A t \in Tasks : resume[t] # NULL /\ tcb[t].state # "BLK_RECV" => mbx[t].msgs # <<>>

\* Only an interrupt leaves a READY task that outranks the current one: it
\* readies the KCD, or a sender blocked on the UART mailbox, without a dispatch.
\* No system call adds another one, whatever it does while there are some.
Outranks(t) == Up /\ tcb[t].state = "READY" /\ tcb[t].prio < Cur.prio
OnlyInterruptsInvert ==
    [][UartReceive \/ UartTransmit \/ \A t \in Tasks : Outranks(t)' => Outranks(t)]_vars

\* Each mailbox with its waiting list is a lossless first-in first-out channel:
\* a message is stored once, in the order of the sends, blocked or not, and only
\* the owner's receive takes it out.
Waiting(m) == LET path == Nodes(Kernel, WaitQ(m))
              IN  [i \in 1 .. Len(path) |-> message_header[path[i]]]
lines == [m \in Targets |-> mbx[m].msgs \o Waiting(m)]
Lines == INSTANCE Channel WITH line <- lines, Chans <- Targets, Msgs <- Message
LosslessFifo == Lines!Spec
=============================================================================

----------------------------- MODULE KMsgProofs -----------------------------
(***************************************************************************)
(* What is proved of message passing, for every number of tasks, every     *)
(* capacity and every length: no wake-up is lost, no sender is stuck, no   *)
(* buffer overflows, and each mailbox is a lossless first-in first-out     *)
(* channel, with the UART interrupt between any two calls.                 *)
(*                                                                         *)
(* The lemmas are about one kernel memory k with mailboxes in it, and the  *)
(* one that a step of a handler leaves.                                    *)
(***************************************************************************)
EXTENDS KMsg, KTaskProofs

USE MaxTasksAssumption, NullAssumption, SizeModAssumption

----------------------------------------------------------------------------
(***************************************************************************)
(* The bytes of a sequence of messages.                                    *)
(***************************************************************************)
LEMMA MessageLength == \A msg \in Message : msg.length \in Nat
  BY MsgAssumption DEF Message

\* g[i] is the length of the first i messages of s.
Sums(s, g) == /\ g = [i \in 0 .. Len(s) |-> g[i]] /\ g[0] = 0
              /\ \A i \in 1 .. Len(s) : g[i] = g[i - 1] + s[i].length

LEMMA SumsExist ==
    ASSUME NEW s \in Seq(Message)
    PROVE  \E g : Sums(s, g)
  <1> DEFINE Upto(n, g) == /\ g = [i \in 0 .. n |-> g[i]] /\ g[0] = 0
                           /\ \A i \in 1 .. n : g[i] = g[i - 1] + s[i].length
  <1> DEFINE Bad == {n \in 0 .. Len(s) : ~ \E g : Upto(n, g)}
  <1>1. Len(s) \in Nat
    OBVIOUS
  <1> SUFFICES ASSUME Bad # {} PROVE FALSE
    BY <1>1 DEF Sums
  <1>2. Bad \in SUBSET Nat
    BY <1>1
  <1>3. PICK n \in Bad : \A j \in Bad : n <= j
    BY <1>2, Least
  <1>4. n \in 0 .. Len(s) /\ ~ \E g : Upto(n, g)
    OBVIOUS
  <1> HIDE DEF Bad
  <1>5. n # 0
    <2>1. PICK g : g = [i \in 0 .. 0 |-> 0]
      OBVIOUS
    <2>2. Upto(0, g)
      BY <2>1
    <2> QED
      BY <1>4, <2>2
  <1>6. n - 1 \in 0 .. Len(s) /\ n \in Nat
    BY <1>1, <1>4, <1>5
  <1>7. n - 1 \notin Bad
    BY <1>3, <1>6
  <1>8. PICK g : Upto(n - 1, g)
    BY <1>6, <1>7 DEF Bad
  <1>9. PICK h : h = [i \in 0 .. n |-> IF i < n THEN g[i] ELSE g[n - 1] + s[n].length]
    OBVIOUS
  <1>10. Upto(n, h)
    <2>1. h = [i \in 0 .. n |-> h[i]] /\ h[0] = 0
      BY <1>5, <1>6, <1>8, <1>9
    <2>2. ASSUME NEW i \in 1 .. n
          PROVE  h[i] = h[i - 1] + s[i].length
      <3>1. i - 1 \in 0 .. n /\ i \in 0 .. n /\ h[i - 1] = g[i - 1]
        BY <1>6, <1>9
      <3>2. CASE i < n
        <4>1. i \in 1 .. n - 1 /\ h[i] = g[i]
          BY <1>6, <1>9, <3>2
        <4> QED
          BY <1>8, <3>1, <4>1
      <3>3. CASE i = n
        BY <1>6, <1>9, <3>1, <3>3
      <3> QED
        BY <1>6, <3>2, <3>3
    <2> QED
      BY <2>1, <2>2
  <1> QED
    BY <1>4, <1>10

LEMMA SumLengthsIs ==
    ASSUME NEW s \in Seq(Message), NEW g, Sums(s, g)
    PROVE  SumLengths(s) = g[Len(s)]
  <1>1. Len(s) \in Nat
    OBVIOUS
  <1>2. PICK sum : sum = CHOOSE f : f = [i \in 0 .. Len(s) |->
                                IF i = 0 THEN 0 ELSE f[i - 1] + s[i].length]
    OBVIOUS
  <1>3. SumLengths(s) = sum[Len(s)]
    BY <1>2 DEF SumLengths
  <1>4. g = [i \in 0 .. Len(s) |-> IF i = 0 THEN 0 ELSE g[i - 1] + s[i].length]
    <2>1. ASSUME NEW i \in 0 .. Len(s)
          PROVE  g[i] = IF i = 0 THEN 0 ELSE g[i - 1] + s[i].length
      <3>1. CASE i = 0
        BY <3>1 DEF Sums
      <3>2. CASE i # 0
        <4>1. i \in 1 .. Len(s)
          BY <1>1, <3>2
        <4> QED
          BY <3>2, <4>1 DEF Sums
      <3> QED
        BY <3>1, <3>2
    <2>2. g = [i \in 0 .. Len(s) |-> g[i]]
      BY DEF Sums
    <2> QED
      BY <2>1, <2>2
  <1>5. sum = [i \in 0 .. Len(s) |-> IF i = 0 THEN 0 ELSE sum[i - 1] + s[i].length]
    BY <1>2, <1>4
  <1>6. \A i \in 0 .. Len(s) : sum[i] = g[i]
    <2> DEFINE Bad == {i \in 0 .. Len(s) : sum[i] # g[i]}
    <2> SUFFICES ASSUME Bad # {} PROVE FALSE
      OBVIOUS
    <2>1. Bad \in SUBSET Nat
      OBVIOUS
    <2>2. PICK i \in Bad : \A j \in Bad : i <= j
      BY <2>1, Least
    <2>3. i # 0 => i - 1 \in 0 .. Len(s) /\ i - 1 \notin Bad
      BY <1>1, <2>1, <2>2
    <2>4. i # 0 => sum[i - 1] = g[i - 1]
      BY <2>3
    <2>5. sum[i] = (IF i = 0 THEN 0 ELSE sum[i - 1] + s[i].length)
          /\ g[i] = (IF i = 0 THEN 0 ELSE g[i - 1] + s[i].length)
      BY <1>4, <1>5
    <2> QED
      BY <2>2, <2>4, <2>5
  <1> QED
    BY <1>1, <1>3, <1>6

\* What a store adds and what a removal takes away.
LEMMA SumEmpty == SumLengths(<<>>) = 0
  <1>1. PICK g : g = [i \in 0 .. 0 |-> 0]
    OBVIOUS
  <1>2. Sums(<<>>, g) /\ <<>> \in Seq(Message)
    BY <1>1 DEF Sums
  <1> QED
    BY <1>1, <1>2, SumLengthsIs

LEMMA SumNat ==
    ASSUME NEW s \in Seq(Message)
    PROVE  SumLengths(s) \in Nat
  <1>1. PICK g : Sums(s, g)
    BY SumsExist
  <1>2. Len(s) \in Nat
    OBVIOUS
  <1>3. \A i \in 0 .. Len(s) : g[i] \in Nat
    <2> DEFINE Bad == {i \in 0 .. Len(s) : g[i] \notin Nat}
    <2> SUFFICES ASSUME Bad # {} PROVE FALSE
      OBVIOUS
    <2>1. Bad \in SUBSET Nat
      OBVIOUS
    <2>2. PICK i \in Bad : \A j \in Bad : i <= j
      BY <2>1, Least
    <2>3. i # 0
      BY <1>1, <2>2 DEF Sums
    <2>4. i - 1 \in 0 .. Len(s) /\ i - 1 \notin Bad /\ i \in 1 .. Len(s)
      BY <1>2, <2>1, <2>2, <2>3
    <2>5. g[i - 1] \in Nat /\ s[i].length \in Nat
      BY <2>4, MessageLength
    <2>6. g[i] = g[i - 1] + s[i].length
      BY <1>1, <2>4 DEF Sums
    <2> QED
      BY <2>2, <2>5, <2>6
  <1> QED
    BY <1>1, <1>2, <1>3, SumLengthsIs

LEMMA SumAppend ==
    ASSUME NEW s \in Seq(Message), NEW msg \in Message
    PROVE  SumLengths(Append(s, msg)) = SumLengths(s) + msg.length
  <1>1. PICK g : Sums(s, g)
    BY SumsExist
  <1>2. PICK n : n = Len(s)
    OBVIOUS
  <1>3. PICK r : r = Append(s, msg)
    OBVIOUS
  <1>4. n \in Nat /\ r \in Seq(Message) /\ Len(r) = n + 1 /\ r[n + 1] = msg
        /\ \A i \in 1 .. n : r[i] = s[i]
    BY <1>2, <1>3
  <1>5. PICK h : h = [i \in 0 .. n + 1 |-> IF i <= n THEN g[i] ELSE g[n] + msg.length]
    OBVIOUS
  <1>6. Sums(r, h)
    <2>1. h = [i \in 0 .. Len(r) |-> h[i]] /\ h[0] = 0
      BY <1>1, <1>4, <1>5 DEF Sums
    <2>2. ASSUME NEW i \in 1 .. n + 1
          PROVE  h[i] = h[i - 1] + r[i].length
      <3>1. i - 1 \in 0 .. n + 1 /\ i \in 0 .. n + 1 /\ h[i - 1] = g[i - 1]
        BY <1>4, <1>5
      <3>2. CASE i <= n
        <4>1. i \in 1 .. n /\ h[i] = g[i]
          BY <1>4, <1>5, <3>2
        <4> QED
          BY <1>1, <1>2, <1>4, <3>1, <4>1 DEF Sums
      <3>3. CASE i = n + 1
        <4>1. h[i] = g[n] + msg.length /\ i - 1 = n
          BY <1>4, <1>5, <3>3
        <4> QED
          BY <1>4, <3>1, <3>3, <4>1
      <3> QED
        BY <1>4, <3>2, <3>3
    <2> QED
      BY <1>4, <2>1, <2>2 DEF Sums
  <1>7. SumLengths(s) = g[n] /\ SumLengths(r) = h[n + 1]
    BY <1>1, <1>2, <1>4, <1>6, SumLengthsIs
  <1>8. h[n + 1] = g[n] + msg.length
    BY <1>4, <1>5
  <1> QED
    BY <1>3, <1>7, <1>8

LEMMA SumTail ==
    ASSUME NEW s \in Seq(Message), s # <<>>
    PROVE  SumLengths(s) = Head(s).length + SumLengths(Tail(s))
  <1>1. PICK g : Sums(s, g)
    BY SumsExist
  <1>2. PICK n : n = Len(s)
    OBVIOUS
  <1>3. PICK r : r = Tail(s)
    OBVIOUS
  <1>4. n \in Nat /\ n >= 1 /\ r \in Seq(Message) /\ Len(r) = n - 1
        /\ (\A i \in 1 .. n - 1 : r[i] = s[i + 1]) /\ Head(s) = s[1] /\ s[1] \in Message
    BY <1>2, <1>3
  <1>5. PICK h : Sums(r, h)
    BY <1>4, SumsExist
  <1>6. s[1].length \in Nat /\ (\A i \in 1 .. n - 1 : r[i].length \in Nat)
    BY <1>4, MessageLength
  <1>7. \A i \in 0 .. n - 1 : h[i] \in Int /\ g[i + 1] = s[1].length + h[i]
    <2> DEFINE Bad == {i \in 0 .. n - 1 : ~(h[i] \in Int /\ g[i + 1] = s[1].length + h[i])}
    <2> SUFFICES ASSUME Bad # {} PROVE FALSE
      OBVIOUS
    <2>1. Bad \in SUBSET Nat
      OBVIOUS
    <2>2. PICK i \in Bad : \A j \in Bad : i <= j
      BY <2>1, Least
    <2>3. i \in 0 .. n - 1 /\ ~(h[i] \in Int /\ g[i + 1] = s[1].length + h[i])
      BY <2>2
    <2> HIDE DEF Bad
    <2>4. i # 0
      <3>1. h[0] = 0
        BY <1>5 DEF Sums
      <3>2. 1 \in 1 .. Len(s) /\ 1 - 1 = 0
        BY <1>2, <1>4
      <3>3. g[1] = g[0] + s[1].length /\ g[0] = 0
        BY <1>1, <3>2 DEF Sums
      <3> QED
        BY <1>6, <2>3, <3>1, <3>3
    <2>5. i - 1 \in 0 .. n - 1 /\ i \in 1 .. n - 1 /\ i + 1 \in 1 .. n /\ (i + 1) - 1 = i
          /\ i \in Nat /\ (i - 1) + 1 = i
      BY <1>4, <2>3, <2>4
    <2>6. i - 1 \notin Bad
      BY <2>2, <2>5
    <2>7. h[i - 1] \in Int /\ g[i] = s[1].length + h[i - 1]
      BY <2>5, <2>6 DEF Bad
    <2>8. h[i] = h[i - 1] + r[i].length
      BY <1>4, <1>5, <2>5 DEF Sums
    <2>9. g[i + 1] = g[i] + s[i + 1].length
      BY <1>1, <1>2, <2>5 DEF Sums
    <2>10. s[i + 1] = r[i] /\ r[i].length \in Nat
      BY <1>4, <1>6, <2>5
    <2> QED
      BY <1>6, <2>3, <2>7, <2>8, <2>9, <2>10
  <1>8. SumLengths(s) = g[n] /\ SumLengths(r) = h[n - 1]
    BY <1>1, <1>2, <1>4, <1>5, SumLengthsIs
  <1>9. n - 1 \in 0 .. n - 1 /\ (n - 1) + 1 = n
    BY <1>4
  <1> QED
    BY <1>3, <1>4, <1>7, <1>8, <1>9

----------------------------------------------------------------------------
(***************************************************************************)
(* Memories with mailboxes.                                                *)
(***************************************************************************)
Mail(k) == /\ Memory(k) /\ {"mbx", "hdr"} \subseteq DOMAIN k
           /\ k.mbx \in [Mailboxes -> Mailbox] /\ k.hdr \in [Tasks -> Message \cup {NULL}]

\* The ring buffer B holds what it says it holds, and a mailbox that has not been
\* created holds nothing.
Accounts(B) == /\ B.current_size = SumLengths(B.msgs) /\ B.current_size <= B.capacity
               /\ \A i \in 1 .. Len(B.msgs) : B.msgs[i].length >= MIN_MSG_SIZE
               /\ ~B.active => B.msgs = <<>>

\* The senders waiting at m, and the line of the messages to m, stored and not.
Line(k, m) == Nodes(k, WaitQ(m))
Chan(k, m) == k.mbx[m].msgs \o [i \in 1 .. Len(Line(k, m)) |-> k.hdr[Line(k, m)[i]]]

\* A message that k_send_msg has let pass its checks.
Valid(B, msg) == /\ msg \in Message /\ msg.length >= MIN_MSG_SIZE
                 /\ B.active /\ msg.length <= B.capacity

\* The first sender of each list waits for room that is not there, and a task
\* blocked on receive has nothing to receive and nobody waiting: at every mailbox but
\* those of X, which a handler is in the middle of.
MailBut(k, X) ==
    /\ Mail(k)
    /\ \A m \in Mailboxes : Accounts(k.mbx[m])
    /\ \A m \in Mailboxes : \A i \in 1 .. Len(Line(k, m)) : Valid(k.mbx[m], k.hdr[Line(k, m)[i]])
    /\ \A m \in Mailboxes \ X :
          Len(Line(k, m)) # 0 => CanFit(k.mbx[m], k.hdr[Line(k, m)[1]].length) # 1
    /\ \A u \in Tasks \ X : k.tcb[u].state = "BLK_RECV" =>
          k.mbx[u].msgs = <<>> /\ Len(Line(k, u)) = 0
MailOK(k) == MailBut(k, {})

\* Who is woken finds a message, and no message goes before its receiver runs.
Fed(k, l, u) == /\ k.tcb[u].state = "BLK_RECV" /\ l.tcb[u].state # "BLK_RECV"
                     => l.mbx[u].msgs # <<>>
                /\ k.mbx[u].msgs # <<>> => l.mbx[u].msgs # <<>>

LEMMA TaskMailboxes == \A t \in Tasks : t \in Mailboxes
  BY DEF Mailboxes

LEMMA MailFields ==
    ASSUME NEW k, Mail(k), NEW m \in Mailboxes
    PROVE  /\ k.mbx[m] \in Mailbox /\ k.mbx[m].active \in BOOLEAN /\ k.mbx[m].capacity \in Nat
           /\ k.mbx[m].current_size \in Nat /\ k.mbx[m].msgs \in Seq(Message)
  BY DEF Mail, Mailbox

\* A message fits when there are as many bytes left as it has.
LEMMA FitMeans ==
    ASSUME NEW B \in Mailbox, Accounts(B), NEW n \in Nat, n >= MIN_MSG_SIZE
    PROVE  CanFit(B, n) = 1 <=> B.current_size + n <= B.capacity
  <1>1. B.current_size \in Nat /\ B.capacity \in Nat /\ B.current_size <= B.capacity
    BY DEF Mailbox, Accounts
  <1>2. MIN_MSG_SIZE \in Nat /\ MIN_MSG_SIZE >= 1
    BY MsgAssumption
  <1> QED
    BY <1>1, <1>2 DEF CanFit

\* An empty buffer is one without messages.
LEMMA EmptyMeans ==
    ASSUME NEW B \in Mailbox, Accounts(B)
    PROVE  B.current_size = 0 <=> B.msgs = <<>>
  <1>1. B.msgs \in Seq(Message) /\ B.current_size = SumLengths(B.msgs)
    BY DEF Mailbox, Accounts
  <1>2. CASE B.msgs = <<>>
    BY <1>1, <1>2, SumEmpty
  <1>3. CASE B.msgs # <<>>
    <2>1. 1 \in 1 .. Len(B.msgs) /\ Head(B.msgs) = B.msgs[1] /\ Tail(B.msgs) \in Seq(Message)
      BY <1>1, <1>3
    <2>2. Head(B.msgs).length >= MIN_MSG_SIZE /\ Head(B.msgs) \in Message
      BY <1>1, <2>1 DEF Accounts
    <2>3. Head(B.msgs).length \in Nat /\ Head(B.msgs).length > 0
      BY <2>2, MessageLength, MsgAssumption
    <2>4. B.current_size = Head(B.msgs).length + SumLengths(Tail(B.msgs))
      BY <1>1, <1>3, SumTail
    <2>5. SumLengths(Tail(B.msgs)) \in Nat
      BY <2>1, SumNat
    <2>6. B.current_size # 0
      BY <2>3, <2>4, <2>5
    <2> QED
      BY <1>3, <2>6
  <1> QED
    BY <1>2, <1>3

\* The lines depend on the links, the buffers and the headers.
LEMMA SameChan ==
    ASSUME NEW k, NEW l, NEW m, l.mbx[m].msgs = k.mbx[m].msgs, Line(l, m) = Line(k, m),
           \A i \in 1 .. Len(Line(k, m)) : l.hdr[Line(k, m)[i]] = k.hdr[Line(k, m)[i]]
    PROVE  Chan(l, m) = Chan(k, m)
  BY DEF Chan

LEMMA SameMail ==
    ASSUME NEW k, NEW X, MailBut(k, X), NEW l, Memory(l), DOMAIN l = DOMAIN k,
           l.mbx = k.mbx, l.hdr = k.hdr, \A m \in Mailboxes : Line(l, m) = Line(k, m),
           \A u \in Tasks : l.tcb[u].state = "BLK_RECV" => k.tcb[u].state = "BLK_RECV"
    PROVE  MailBut(l, X) /\ \A m \in Mailboxes : Chan(l, m) = Chan(k, m)
  <1>1. MailBut(l, X)
    <2>1. Mail(l) /\ \A m \in Mailboxes : Accounts(l.mbx[m])
      BY DEF MailBut, Mail
    <2>2. \A m \in Mailboxes : \A i \in 1 .. Len(Line(l, m)) :
             Valid(l.mbx[m], l.hdr[Line(l, m)[i]])
      BY DEF MailBut
    <2>3. \A m \in Mailboxes \ X :
             Len(Line(l, m)) # 0 => CanFit(l.mbx[m], l.hdr[Line(l, m)[1]].length) # 1
      BY DEF MailBut
    <2>4. \A u \in Tasks \ X : l.tcb[u].state = "BLK_RECV" =>
             l.mbx[u].msgs = <<>> /\ Len(Line(l, u)) = 0
      BY TaskMailboxes DEF MailBut
    <2> QED
      BY <2>1, <2>2, <2>3, <2>4 DEF MailBut
  <1>2. \A m \in Mailboxes : Chan(l, m) = Chan(k, m)
    BY DEF Chan
  <1> QED
    BY <1>1, <1>2

\* A call that has no part in blocking leaves the mail as it was.
LEMMA UndisturbedMail ==
    ASSUME NEW k, NEW X, MailBut(k, X), NEW l, Memory(l), Undisturbed(k, l)
    PROVE  /\ MailBut(l, X) /\ \A m \in Mailboxes : Chan(l, m) = Chan(k, m)
           /\ \A u \in Tasks : Fed(k, l, u) /\ l.mbx = k.mbx /\ l.hdr = k.hdr
           /\ \A u \in Tasks : l.tcb[u].state = "BLK_RECV" <=> k.tcb[u].state = "BLK_RECV"
  <1>1. DOMAIN l = DOMAIN k /\ l.mbx = k.mbx /\ l.hdr = k.hdr
    BY DEF Undisturbed, Aside, MailBut, Mail
  <1>2. \A m \in Mailboxes : Line(l, m) = Line(k, m)
    BY DEF Undisturbed, Aside, Line
  <1>3. \A u \in Tasks : l.tcb[u].state = "BLK_RECV" <=> k.tcb[u].state = "BLK_RECV"
    BY DEF Undisturbed, Blocked
  <1>4. MailBut(l, X) /\ \A m \in Mailboxes : Chan(l, m) = Chan(k, m)
    BY <1>1, <1>2, <1>3, SameMail
  <1>5. \A u \in Tasks : Fed(k, l, u)
    BY <1>1, <1>3 DEF Fed
  <1> QED
    BY <1>1, <1>3, <1>4, <1>5

----------------------------------------------------------------------------
(***************************************************************************)
(* Two memories with the same tasks and queues.                            *)
(***************************************************************************)
SameTasks(l, k) == l.tcb = k.tcb /\ l.queue = k.queue /\ l.cur = k.cur /\ l.ub = k.ub

LEMMA SameTasksPlaced ==
    ASSUME NEW k, Memory(k), NEW l, Memory(l), SameTasks(l, k)
    PROVE  /\ \A q : Nodes(l, q) = Nodes(k, q) /\ TasksOf(l, q) = TasksOf(k, q)
           /\ \A u : Loose(l, u) <=> Loose(k, u)
           /\ \A R : Placed(k, R) => Placed(l, R)
           /\ \A S : Cleared(k, S) => Cleared(l, S)
           /\ Levels(k) => Levels(l)
           /\ \A ex : Scheduled(k, ex) => Scheduled(l, ex)
  <1>1. \A q : Nodes(l, q) = Nodes(k, q)
    BY DEF Nodes, SameTasks
  <1>2. \A q : TasksOf(l, q) = TasksOf(k, q)
    BY <1>1 DEF TasksOf
  <1>3. \A u : Loose(l, u) <=> Loose(k, u)
    BY <1>2 DEF Loose
  <1>4. Lists(k) => Lists(l)
    BY <1>1, <1>2 DEF Lists, Linked, SameTasks
  <1>5. ASSUME NEW R, Placed(k, R)
        PROVE  Placed(l, R)
    <2>1. \A u \in Tasks : Settled(k, R, u) => Settled(l, R, u)
      BY <1>2, <1>3 DEF Settled, SameTasks
    <2> QED
      BY <1>4, <1>5, <2>1 DEF Placed, PlacedBut, SameTasks
  <1>6. \A S : Cleared(k, S) => Cleared(l, S)
    BY <1>3 DEF Cleared, SameTasks
  <1>7. Levels(k) => Levels(l)
    BY DEF Levels, SameTasks
  <1>8. \A ex : Scheduled(k, ex) => Scheduled(l, ex)
    BY <1>5, <1>6, <1>7 DEF Scheduled, Live, SameTasks
  <1> QED
    BY <1>1, <1>2, <1>3, <1>5, <1>6, <1>7, <1>8

----------------------------------------------------------------------------
(***************************************************************************)
(* The ring buffer.                                                        *)
(***************************************************************************)
LEMMA Sequences ==
    ASSUME NEW s \in Seq(Message), NEW w \in Seq(Message), NEW msg \in Message
    PROVE  /\ s \o Append(w, msg) = Append(s \o w, msg)
           /\ s # <<>> => s \o w # <<>> /\ Tail(s) \o w = Tail(s \o w)
           /\ w # <<>> => Append(s, Head(w)) \o Tail(w) = s \o w
           /\ Append(s, msg) \in Seq(Message) /\ Append(s, msg) # <<>>
           /\ s # <<>> => Tail(s) \in Seq(Message)
           /\ s \o <<>> = s
  <1>1. s \o Append(w, msg) = Append(s \o w, msg)
    OBVIOUS
  <1>2. s # <<>> => s \o w # <<>>
    OBVIOUS
  <1>3. s # <<>> => Tail(s) \o w = Tail(s \o w)
    OBVIOUS
  <1>4. ASSUME w # <<>> PROVE Append(s, Head(w)) \o Tail(w) = s \o w
    BY <1>4
  <1>5. Append(s, msg) \in Seq(Message) /\ Append(s, msg) # <<>>
        /\ (s # <<>> => Tail(s) \in Seq(Message))
    OBVIOUS
  <1>6. s \o <<>> = s
    OBVIOUS
  <1> QED
    BY <1>1, <1>2, <1>3, <1>4, <1>5, <1>6

LEMMA AdmitConcat ==
    \A s, w \in Seq(Message) : w # <<>> => Append(s, Head(w)) \o Tail(w) = s \o w
  OBVIOUS

LEMMA SendConcat ==
    \A s, w \in Seq(Message), msg \in Message : s \o Append(w, msg) = Append(s \o w, msg)
  BY Sequences

\* From k to l only the messages of m have changed, to s.
Rebuffered(l, k, m, s) ==
    /\ Mail(l) /\ DOMAIN l = DOMAIN k /\ SameTasks(l, k) /\ l.hdr = k.hdr
    /\ \A n \in Mailboxes : n # m => l.mbx[n] = k.mbx[n]
    /\ l.mbx[m].msgs = s /\ Accounts(l.mbx[m])
    /\ l.mbx[m].active = k.mbx[m].active /\ l.mbx[m].capacity = k.mbx[m].capacity

\* push_buffer of a message that fits
LEMMA PushBufferStores ==
    ASSUME NEW k, Mail(k), NEW m \in Mailboxes, Accounts(k.mbx[m]), NEW msg,
           Valid(k.mbx[m], msg), CanFit(k.mbx[m], msg.length) = 1
    PROVE  Rebuffered(PushBuffer(k, m, msg), k, m, Append(k.mbx[m].msgs, msg))
  <1>1. PICK l : l = PushBuffer(k, m, msg)
    OBVIOUS
  <1>2. PICK B : B = k.mbx[m]
    OBVIOUS
  <1>3. /\ B \in Mailbox /\ B.active \in BOOLEAN /\ B.capacity \in Nat /\ B.current_size \in Nat
        /\ B.msgs \in Seq(Message) /\ msg \in Message /\ msg.length \in Nat
        /\ msg.length >= MIN_MSG_SIZE /\ B.active
    BY <1>2, MailFields, MessageLength DEF Valid
  <1>4. PICK W : W = [B EXCEPT !.msgs = Append(B.msgs, msg),
                               !.current_size = B.current_size + msg.length]
    OBVIOUS
  <1>5. /\ W \in Mailbox /\ W.msgs = Append(B.msgs, msg) /\ W.active = B.active
        /\ W.capacity = B.capacity /\ W.current_size = B.current_size + msg.length
    <2>1. PICK s, c : s = Append(B.msgs, msg) /\ c = B.current_size + msg.length
      OBVIOUS
    <2>2. s \in Seq(Message) /\ c \in Nat
      BY <1>3, <2>1
    <2>3. W = [B EXCEPT !.msgs = s, !.current_size = c]
      BY <1>4, <2>1
    <2> QED
      BY <1>3, <2>1, <2>2, <2>3 DEF Mailbox
  <1>6. l = [k EXCEPT !.mbx = [k.mbx EXCEPT ![m] = W]]
    BY <1>1, <1>2, <1>4 DEF PushBuffer, Mail, Memory
  <1>7. PICK M : M = [k.mbx EXCEPT ![m] = W]
    OBVIOUS
  <1>8. M \in [Mailboxes -> Mailbox] /\ M[m] = W /\ \A n \in Mailboxes : n # m => M[n] = k.mbx[n]
    BY <1>5, <1>7 DEF Mail
  <1>9. l = [k EXCEPT !.mbx = M]
    BY <1>6, <1>7
  <1>10. l.mbx = M /\ DOMAIN l = DOMAIN k /\ SameTasks(l, k) /\ l.hdr = k.hdr
    BY <1>9 DEF Mail, Memory, SameTasks
  <1>11. Memory(l)
    BY <1>9 DEF Mail, Memory
  <1>12. Mail(l)
    BY <1>8, <1>10, <1>11 DEF Mail
  <1>13. Accounts(W)
    <2>1. W.current_size = SumLengths(W.msgs)
      BY <1>2, <1>3, <1>5, SumAppend DEF Accounts
    <2>2. W.current_size <= W.capacity
      BY <1>2, <1>3, <1>5, FitMeans
    <2>3. \A i \in 1 .. Len(W.msgs) : W.msgs[i].length >= MIN_MSG_SIZE
      <3>1. \A i \in 1 .. Len(B.msgs) : B.msgs[i].length >= MIN_MSG_SIZE
        BY <1>2 DEF Accounts
      <3>2. PICK n : n = Len(B.msgs)
        OBVIOUS
      <3>3. /\ n \in Nat /\ Len(W.msgs) = n + 1 /\ W.msgs[n + 1] = msg
            /\ \A i \in 1 .. n : W.msgs[i] = B.msgs[i]
        BY <1>3, <1>5, <3>2
      <3>4. ASSUME NEW i \in 1 .. n + 1
            PROVE  W.msgs[i].length >= MIN_MSG_SIZE
        <4>1. CASE i = n + 1
          BY <1>3, <3>3, <4>1
        <4>2. CASE i # n + 1
          <5>1. i \in 1 .. n
            BY <3>3, <4>2
          <5> QED
            BY <3>1, <3>2, <3>3, <5>1
        <4> QED
          BY <4>1, <4>2
      <3> QED
        BY <3>3, <3>4
    <2> QED
      BY <1>3, <1>5, <2>1, <2>2, <2>3 DEF Accounts
  <1> QED
    BY <1>1, <1>2, <1>5, <1>8, <1>10, <1>12, <1>13 DEF Rebuffered

\* pop_buffer when it returns a message
LEMMA PopBufferTakes ==
    ASSUME NEW k, Mail(k), NEW m \in Mailboxes, Accounts(k.mbx[m]), NEW len,
           PopResult(k.mbx[m], len) = 1
    PROVE  /\ Rebuffered(PopBuffer(k, m, len), k, m, Tail(k.mbx[m].msgs))
           /\ k.mbx[m].msgs # <<>>
  <1>1. PICK l : l = PopBuffer(k, m, len)
    OBVIOUS
  <1>2. PICK B : B = k.mbx[m]
    OBVIOUS
  <1>3. /\ B \in Mailbox /\ B.active \in BOOLEAN /\ B.capacity \in Nat /\ B.current_size \in Nat
        /\ B.msgs \in Seq(Message)
    BY <1>2, MailFields
  <1>4. B.msgs # <<>>
    <2>1. B.current_size # 0
      BY <1>2 DEF PopResult
    <2> QED
      BY <1>2, <1>3, <2>1, EmptyMeans
  <1>5. Head(B.msgs) \in Message /\ Head(B.msgs).length \in Nat /\ Tail(B.msgs) \in Seq(Message)
    <2>1. Head(B.msgs) \in Message
      BY <1>3, <1>4
    <2> QED
      BY <1>3, <1>4, <2>1, MessageLength
  <1>6. B.current_size = Head(B.msgs).length + SumLengths(Tail(B.msgs))
        /\ SumLengths(Tail(B.msgs)) \in Nat
    BY <1>2, <1>3, <1>4, <1>5, SumTail, SumNat DEF Accounts
  <1>7. PICK W : W = [B EXCEPT !.msgs = Tail(B.msgs),
                               !.current_size = B.current_size - Head(B.msgs).length]
    OBVIOUS
  <1>8. W.msgs = Tail(B.msgs) /\ W.active = B.active /\ W.capacity = B.capacity
        /\ W.current_size = SumLengths(Tail(B.msgs))
    BY <1>3, <1>5, <1>6, <1>7 DEF Mailbox
  <1>9. W \in Mailbox
    <2>1. PICK s, c : s = Tail(B.msgs) /\ c = B.current_size - Head(B.msgs).length
      OBVIOUS
    <2>2. s \in Seq(Message) /\ c \in Nat
      BY <1>3, <1>5, <1>6, <2>1
    <2>3. W = [B EXCEPT !.msgs = s, !.current_size = c]
      BY <1>7, <2>1
    <2> QED
      BY <1>3, <2>2, <2>3 DEF Mailbox
  <1>10. l = [k EXCEPT !.mbx = [k.mbx EXCEPT ![m] = W]]
    BY <1>1, <1>2, <1>7 DEF PopBuffer, Mail, Memory
  <1>11. PICK M : M = [k.mbx EXCEPT ![m] = W]
    OBVIOUS
  <1>12. M \in [Mailboxes -> Mailbox] /\ M[m] = W /\ \A n \in Mailboxes : n # m => M[n] = k.mbx[n]
    BY <1>9, <1>11 DEF Mail
  <1>13. l = [k EXCEPT !.mbx = M]
    BY <1>10, <1>11
  <1>14. l.mbx = M /\ DOMAIN l = DOMAIN k /\ SameTasks(l, k) /\ l.hdr = k.hdr
    BY <1>13 DEF Mail, Memory, SameTasks
  <1>15. Memory(l)
    BY <1>13 DEF Mail, Memory
  <1>16. Mail(l)
    BY <1>12, <1>14, <1>15 DEF Mail
  <1>17. Accounts(W)
    <2>1. W.current_size <= W.capacity
      <3>1. B.current_size <= B.capacity
        BY <1>2 DEF Accounts
      <3> QED
        BY <1>3, <1>5, <1>6, <1>8, <3>1
    <2>2. \A i \in 1 .. Len(W.msgs) : W.msgs[i].length >= MIN_MSG_SIZE
      <3>1. \A i \in 1 .. Len(B.msgs) : B.msgs[i].length >= MIN_MSG_SIZE
        BY <1>2 DEF Accounts
      <3>2. Len(W.msgs) = Len(B.msgs) - 1 /\ \A i \in 1 .. Len(B.msgs) - 1 : W.msgs[i] = B.msgs[i + 1]
        BY <1>3, <1>4, <1>8
      <3> QED
        BY <1>3, <3>1, <3>2
    <2>3. B.active
      BY <1>2, <1>4 DEF Accounts
    <2> QED
      BY <1>8, <2>1, <2>2, <2>3 DEF Accounts
  <1> QED
    BY <1>1, <1>2, <1>4, <1>8, <1>12, <1>14, <1>16, <1>17 DEF Rebuffered

\* The senders waiting at a mailbox, by their messages.
Callers(k, m) == [i \in 1 .. Len(Line(k, m)) |-> k.hdr[Line(k, m)[i]]]

LEMMA CallersFacts ==
    ASSUME NEW k, NEW X, MailBut(k, X), Lists(k), NEW m \in Mailboxes
    PROVE  /\ Callers(k, m) \in Seq(Message) /\ Len(Callers(k, m)) = Len(Line(k, m))
           /\ Len(Line(k, m)) \in Nat /\ Len(Line(k, m)) <= MAX_TASKS
           /\ Line(k, m) \in [1 .. Len(Line(k, m)) -> Tasks]
           /\ \A i \in 1 .. Len(Line(k, m)) : Line(k, m)[i] \in TasksOf(k, WaitQ(m))
           /\ Chan(k, m) = k.mbx[m].msgs \o Callers(k, m)
  <1>1. PICK n, p : n = Len(Line(k, m)) /\ p = Line(k, m)
    OBVIOUS
  <1>2. Linked(k, WaitQ(m)) /\ Memory(k) /\ WaitQ(m) \in Queues
    BY WaitQueueIds DEF Lists, MailBut, Mail
  <1>3. Path(n, p) /\ \A i \in 1 .. n : p[i] \in TasksOf(k, WaitQ(m))
    BY <1>1, <1>2, LinkedFacts DEF Line
  <1>4. n \in Nat /\ n <= MAX_TASKS /\ p \in [1 .. n -> Tasks]
    BY <1>3, PathLength DEF Path
  <1>5. PICK c : c = Callers(k, m)
    OBVIOUS
  <1>6. c = [i \in 1 .. n |-> k.hdr[p[i]]]
    BY <1>1, <1>5 DEF Callers
  <1>7. \A i \in 1 .. n : k.hdr[p[i]] \in Message
    BY <1>1 DEF MailBut, Valid
  <1>8. c \in [1 .. n -> Message]
    BY <1>6, <1>7
  <1>9. c \in Seq(Message) /\ Len(c) = n
    BY <1>4, <1>8, LenProperties, IsASeq
  <1> QED
    BY <1>1, <1>3, <1>4, <1>5, <1>9 DEF Chan, Callers

LEMMA FedSteps ==
    ASSUME NEW k, NEW j, NEW l, NEW u, Fed(k, j, u), Fed(j, l, u)
    PROVE  Fed(k, l, u)
  BY DEF Fed

\* A waiting list is empty when its current_size says so, or its HEAD.
LEMMA EmptyLine ==
    ASSUME NEW k, Memory(k), Lists(k), NEW m \in Mailboxes
    PROVE  /\ k.queue[WaitQ(m)].current_size = Len(Line(k, m))
           /\ k.queue[WaitQ(m)].HEAD = NULL <=> Len(Line(k, m)) = 0
           /\ k.queue[WaitQ(m)].HEAD # NULL => k.queue[WaitQ(m)].HEAD = Line(k, m)[1]
  <1>1. Linked(k, WaitQ(m)) /\ WaitQ(m) \in Queues
    BY WaitQueueIds DEF Lists
  <1>2. k.queue[WaitQ(m)].current_size = Len(Line(k, m))
    BY <1>1 DEF Linked, Along, Ends, Line
  <1> QED
    BY <1>1, <1>2, LinkedFacts DEF Line

\* When the mailbox that a handler is in the middle of is in order, all are.
LEMMA MailWhole ==
    ASSUME NEW k, NEW m \in Mailboxes, MailBut(k, {m}),
           Len(Line(k, m)) # 0 => CanFit(k.mbx[m], k.hdr[Line(k, m)[1]].length) # 1,
           m \in Tasks => k.tcb[m].state # "BLK_RECV"
    PROVE  MailOK(k)
  <1>1. \A n \in Mailboxes \ {} :
           Len(Line(k, n)) # 0 => CanFit(k.mbx[n], k.hdr[Line(k, n)[1]].length) # 1
    BY DEF MailBut
  <1>2. \A u \in Tasks \ {} : k.tcb[u].state = "BLK_RECV" =>
           k.mbx[u].msgs = <<>> /\ Len(Line(k, u)) = 0
    BY DEF MailBut
  <1> QED
    BY <1>1, <1>2 DEF MailBut, MailOK

LEMMA MailPart ==
    ASSUME NEW k, MailOK(k), NEW m
    PROVE  MailBut(k, {m})
  BY DEF MailOK, MailBut

\* A step of the ring buffer of m.
Aligned(l, k, m, s) ==
    /\ MailBut(l, {m}) /\ Chan(l, m) = s \o Callers(k, m)
    /\ \A n \in Mailboxes : Line(l, n) = Line(k, n)
    /\ \A n \in Mailboxes : n # m => Chan(l, n) = Chan(k, n)
    /\ \A R : Placed(k, R) => Placed(l, R)
    /\ \A S : Cleared(k, S) => Cleared(l, S)
    /\ \A ex : Scheduled(k, ex) => Scheduled(l, ex)

LEMMA RebufferedMail ==
    ASSUME NEW k, NEW m \in Mailboxes, MailBut(k, {m}), NEW s, NEW l, Rebuffered(l, k, m, s)
    PROVE  Aligned(l, k, m, s)
  <1>1. Mail(k) /\ Mail(l) /\ Memory(k) /\ Memory(l) /\ SameTasks(l, k) /\ l.hdr = k.hdr
    BY DEF MailBut, Rebuffered, Mail
  <1>2. \A n \in Mailboxes : Line(l, n) = Line(k, n)
    BY <1>1, SameTasksPlaced DEF Line
  <1>3. /\ \A R : Placed(k, R) => Placed(l, R)
        /\ \A S : Cleared(k, S) => Cleared(l, S)
        /\ \A ex : Scheduled(k, ex) => Scheduled(l, ex)
    BY <1>1, SameTasksPlaced
  <1>4. \A n \in Mailboxes : l.mbx[n].active = k.mbx[n].active /\ l.mbx[n].capacity = k.mbx[n].capacity
    BY DEF Rebuffered
  <1>5. \A n \in Mailboxes : Accounts(l.mbx[n])
    BY DEF Rebuffered, MailBut
  <1>6. \A n \in Mailboxes : \A i \in 1 .. Len(Line(l, n)) :
           Valid(l.mbx[n], l.hdr[Line(l, n)[i]])
    BY <1>1, <1>2, <1>4 DEF MailBut, Valid
  <1>7. \A n \in Mailboxes \ {m} :
           Len(Line(l, n)) # 0 => CanFit(l.mbx[n], l.hdr[Line(l, n)[1]].length) # 1
    BY <1>1, <1>2 DEF MailBut, Rebuffered
  <1>8. \A u \in Tasks \ {m} : l.tcb[u].state = "BLK_RECV" =>
           l.mbx[u].msgs = <<>> /\ Len(Line(l, u)) = 0
    BY <1>1, <1>2, TaskMailboxes DEF MailBut, Rebuffered, SameTasks
  <1>9. MailBut(l, {m})
    BY <1>1, <1>5, <1>6, <1>7, <1>8 DEF MailBut
  <1>10. Chan(l, m) = s \o Callers(k, m)
    BY <1>1, <1>2 DEF Rebuffered, Chan, Callers
  <1>11. \A n \in Mailboxes : n # m => Chan(l, n) = Chan(k, n)
    BY <1>1, <1>2 DEF Rebuffered, Chan
  <1> QED
    BY <1>2, <1>3, <1>9, <1>10, <1>11 DEF Aligned

----------------------------------------------------------------------------
(***************************************************************************)
(* The calls of the scheduler that message passing makes.                  *)
(***************************************************************************)
\* A task of R that becomes READY or blocked, on its queue or beside them, lets the
\* scheduler choose when it is the current one.
LEMMA CallerDispatchable ==
    ASSUME NEW k, NEW ex, Scheduled(k, ex), k.cur # TID_NULL, NEW j,
           Placed(j, Live(k, ex) \ {k.cur}), Cleared(j, {}), j.cur = k.cur, Changed(j, k, k.cur),
           j.tcb[k.cur].state \in {"READY"} \cup Blocked
    PROVE  Dispatchable(j, ex)
  <1>1. PICK c : c = k.cur
    OBVIOUS
  <1>2. /\ c \in Tasks /\ c # TID_NULL /\ ex \subseteq Tasks /\ c \notin ex /\ TID_NULL \notin ex
        /\ Levels(k) /\ k.tcb[TID_NULL].state = "READY"
        /\ \A u \in ex : k.tcb[u].state = "RUNNING"
    BY <1>1, CurrentTask DEF Scheduled
  <1>3. k.tcb[c].prio \in Prio /\ InBounds(k.tcb[c].prio)
    BY <1>1, <1>2, CurrentTask DEF InBounds
  <1>4. Live(k, ex) \ {c} = ex \cup {TID_NULL}
    BY <1>1, <1>2 DEF Live
  <1>5. Levels(j)
    <2>1. j.tcb[TID_NULL].prio = NULL_INDEX
      BY <1>2, NullTask DEF Levels, Changed
    <2>2. ASSUME NEW u \in Tasks \ {TID_NULL}
          PROVE  j.tcb[u].state = "DORMANT" \/ InBounds(j.tcb[u].prio)
      BY <1>1, <1>2, <1>3 DEF Levels, Changed
    <2> QED
      BY <2>1, <2>2 DEF Levels
  <1>6. (\A u \in ex : j.tcb[u].state = "RUNNING") /\ j.tcb[TID_NULL].state = "READY"
    BY <1>1, <1>2, NullTask DEF Changed
  <1> QED
    BY <1>1, <1>2, <1>4, <1>5, <1>6 DEF Dispatchable

\* The caller goes back to the head of its ready queue and the scheduler picks.
LEMMA PreemptRuns ==
    ASSUME NEW k, NEW ex, Scheduled(k, ex), k.cur # TID_NULL, NEW l, l = Preempt(k)
    PROVE  Scheduled(l, ex) /\ Quiet(l) /\ Undisturbed(k, l)
  <1>1. PICK c : c = k.cur
    OBVIOUS
  <1>2. /\ Memory(k) /\ c \in Tasks /\ c \in Live(k, ex) /\ c # TID_NULL
        /\ k.tcb[c].state = "RUNNING" /\ InBounds(k.tcb[c].prio)
    BY <1>1, CurrentTask DEF InBounds
  <1>3. Placed(k, Live(k, ex)) /\ Cleared(k, {})
    BY DEF Scheduled
  <1>4. PICK j : j = PushHeadReady(k, c)
    OBVIOUS
  <1>5. Pushed(j, k, Live(k, ex), c)
    BY <1>2, <1>3, <1>4, PushHeadPlaced
  <1>6. /\ Placed(j, Live(k, ex) \ {c}) /\ Cleared(j, {}) /\ j.cur = c /\ Changed(j, k, c)
        /\ j.tcb[c].state = "READY" /\ Aside(j, k)
    BY <1>1, <1>5 DEF Pushed
  <1>7. Dispatchable(j, ex)
    BY <1>1, <1>2, <1>6, CallerDispatchable
  <1>8. l = RunNew(j)
    BY <1>1, <1>4 DEF Preempt
  <1>9. Redispatched(l, j, ex)
    BY <1>7, <1>8, RunNewRuns
  <1>10. Undisturbed(k, j)
    BY <1>2, <1>6, OneUndisturbed DEF Changed, Blocked
  <1> QED
    BY <1>9, <1>10, UndisturbedSteps DEF Redispatched

\* A task blocked on receive is put on its ready queue.
Woke(l, k, ex, t) == /\ Scheduled(l, ex) /\ l.cur = k.cur /\ Changed(l, k, t)
                     /\ l.tcb[t].state = "READY" /\ Aside(l, k)

LEMMA WakeRuns ==
    ASSUME NEW k, NEW ex, Scheduled(k, ex), NEW t \in Tasks, k.tcb[t].state = "BLK_RECV"
    PROVE  Woke(Wake(k, t), k, ex, t)
  <1>1. PICK R : R = Live(k, ex)
    OBVIOUS
  <1>2. /\ Placed(k, R) /\ Cleared(k, {}) /\ Levels(k) /\ ex \subseteq Tasks /\ k.cur \notin ex
        /\ TID_NULL \notin ex /\ \A u \in ex \cup {k.cur} : k.tcb[u].state = "RUNNING"
        /\ k.cur # TID_NULL => k.tcb[TID_NULL].state = "READY"
    BY <1>1 DEF Scheduled
  <1>3. t \notin R /\ TID_NULL \in R /\ t # TID_NULL /\ k.cur \in R /\ ex \subseteq R
    BY <1>1, CurrentTask DEF Live, Blocked
  <1>4. InBounds(k.tcb[t].prio)
    BY <1>2, <1>3 DEF Levels
  <1>5. Settled(k, R, t) /\ \A u \in Tasks : Settled(k, R, u)
    BY <1>2 DEF Placed, PlacedBut
  <1>6. Loose(k, t)
    BY <1>3, <1>5 DEF Settled
  <1>7. Placed(k, R \cup {t})
    <2>1. \A u \in Tasks : Settled(k, R \cup {t}, u)
      BY <1>5, <1>6 DEF Settled
    <2> QED
      BY <1>2, <2>1 DEF Placed, PlacedBut
  <1>8. PICK l : l = PushTailReady(k, t)
    OBVIOUS
  <1>9. Pushed(l, k, R \cup {t}, t)
    BY <1>2, <1>3, <1>4, <1>7, <1>8, PushTailPlaced DEF Cleared
  <1>10. (R \cup {t}) \ {t} = R
    BY <1>3
  <1>11. /\ Placed(l, R) /\ Cleared(l, {}) /\ l.cur = k.cur /\ Changed(l, k, t)
         /\ l.tcb[t].state = "READY" /\ Aside(l, k)
    BY <1>9, <1>10 DEF Pushed
  <1>12. Memory(l)
    BY <1>11 DEF Placed, PlacedBut
  <1>13. Wake(k, t) = l
    BY <1>8, <1>11, <1>12, SameState DEF Wake
  <1>14. Live(l, ex) = R
    BY <1>1, <1>11 DEF Live
  <1>15. Levels(l)
    <2>1. l.tcb[TID_NULL].prio = NULL_INDEX
      BY <1>2, <1>11, NullTask DEF Levels, Changed
    <2>2. ASSUME NEW u \in Tasks \ {TID_NULL}
          PROVE  l.tcb[u].state = "DORMANT" \/ InBounds(l.tcb[u].prio)
      BY <1>2, <1>4, <1>11 DEF Levels, Changed
    <2> QED
      BY <2>1, <2>2 DEF Levels
  <1>16. /\ \A u \in ex \cup {l.cur} : l.tcb[u].state = "RUNNING"
         /\ l.cur # TID_NULL => l.tcb[TID_NULL].state = "READY"
    <2>1. \A u \in ex \cup {k.cur} : u \in Tasks /\ u # t
      BY <1>2, <1>3, CurrentTask
    <2> QED
      BY <1>2, <1>3, <1>11, <2>1, NullTask DEF Changed
  <1>17. Scheduled(l, ex)
    BY <1>2, <1>11, <1>14, <1>15, <1>16 DEF Scheduled
  <1> QED
    BY <1>11, <1>13, <1>17 DEF Woke

----------------------------------------------------------------------------
(***************************************************************************)
(* Sending.                                                                *)
(***************************************************************************)
\* A message enters the line of m, and nothing else happens to the lines.
Sent(l, k, ex, m, msg) ==
    /\ Scheduled(l, ex) /\ MailOK(l) /\ DOMAIN l = DOMAIN k
    /\ Chan(l, m) = Append(Chan(k, m), msg)
    /\ \A n \in Mailboxes : n # m => Chan(l, n) = Chan(k, n)
    /\ \A u \in Tasks : Fed(k, l, u)

\* k_send_msg and k_send_msg_nb, of a message there is room for
LEMMA DeliverSends ==
    ASSUME NEW k, NEW ex, Scheduled(k, ex), MailOK(k), NEW m \in Mailboxes, NEW msg,
           Valid(k.mbx[m], msg), Room(k, m, msg), NEW pre \in BOOLEAN,
           pre => k.cur # TID_NULL, m # TID_UART => m \in Tasks,
           NEW l, l = Deliver(k, m, msg, pre)
    PROVE  Sent(l, k, ex, m, msg) /\ (pre => NoneNew(k, l))
  <1>1. /\ Mail(k) /\ Memory(k) /\ Accounts(k.mbx[m]) /\ MailBut(k, {m}) /\ Lists(k)
        /\ Placed(k, Live(k, ex)) /\ \A u \in Tasks : k.tcb[u].state = "BLK_RECV" => k.mbx[u].msgs = <<>>
    BY MailPart DEF MailOK, MailBut, Mail, Scheduled, Placed, PlacedBut
  <1>2. CanFit(k.mbx[m], msg.length) = 1 /\ Len(Line(k, m)) = 0
    BY <1>1, EmptyLine DEF Room
  <1>3. PICK b : b = PushBuffer(k, m, msg)
    OBVIOUS
  <1>4. PICK s : s = Append(k.mbx[m].msgs, msg)
    OBVIOUS
  <1>5. Rebuffered(b, k, m, s)
    BY <1>1, <1>2, <1>3, <1>4, PushBufferStores
  <1>6. /\ MailBut(b, {m}) /\ Chan(b, m) = s \o Callers(k, m)
        /\ \A n \in Mailboxes : Line(b, n) = Line(k, n)
        /\ \A n \in Mailboxes : n # m => Chan(b, n) = Chan(k, n)
        /\ Scheduled(b, ex)
    <2>1. Aligned(b, k, m, s)
      BY <1>1, <1>5, RebufferedMail
    <2> QED
      BY <2>1 DEF Aligned
  <1>7. /\ Memory(b) /\ SameTasks(b, k) /\ DOMAIN b = DOMAIN k /\ b.mbx[m].msgs = s
        /\ \A n \in Mailboxes : n # m => b.mbx[n] = k.mbx[n]
    BY <1>5 DEF Rebuffered, Mail
  <1>8. k.mbx[m].msgs \in Seq(Message) /\ msg \in Message /\ s # <<>>
    BY <1>1, <1>4, MailFields DEF Valid
  <1>9. Chan(b, m) = Append(Chan(k, m), msg)
    <2>1. Callers(k, m) = <<>> /\ Chan(k, m) = k.mbx[m].msgs \o Callers(k, m)
      BY <1>1, <1>2, CallersFacts
    <2>2. Chan(k, m) = k.mbx[m].msgs /\ Chan(b, m) = s
      BY <1>4, <1>6, <1>8, <2>1
    <2> QED
      BY <1>4, <2>2
  <1>10. \A u \in Tasks : b.mbx[u].msgs # <<>> \/ k.mbx[u].msgs = <<>>
    BY <1>7, <1>8, TaskMailboxes
  <1>11. CASE ~Wakes(k, m)
    <2>1. m \in Tasks => b.tcb[m].state # "BLK_RECV"
      <3>1. m \in Tasks => m # TID_UART
        BY DEF Tasks, TID_UART
      <3> QED
        BY <1>7, <1>11, <3>1 DEF Wakes, SameTasks
    <2>2. MailOK(b)
      BY <1>2, <1>6, <2>1, MailWhole
    <2>3. \A u \in Tasks : Fed(k, b, u)
      BY <1>7, <1>10 DEF Fed, SameTasks
    <2>4. NoneNew(k, b)
      BY <1>7 DEF NoneNew, Outranking, SameTasks
    <2>5. l = b
      BY <1>3, <1>11 DEF Deliver
    <2> QED
      BY <1>6, <1>7, <1>9, <2>2, <2>3, <2>4, <2>5 DEF Sent
  <1>12. CASE Wakes(k, m)
    <2>1. m \in Tasks /\ k.tcb[m].state = "BLK_RECV" /\ b.tcb[m].state = "BLK_RECV"
      BY <1>7, <1>12 DEF Wakes, SameTasks
    <2>2. PICK w : w = Wake(b, m)
      OBVIOUS
    <2>3. Woke(w, b, ex, m)
      BY <1>6, <2>1, <2>2, WakeRuns
    <2>4. /\ Scheduled(w, ex) /\ w.cur = b.cur /\ Changed(w, b, m) /\ w.tcb[m].state = "READY"
          /\ Aside(w, b)
      BY <2>3 DEF Woke
    <2>5. Memory(w) /\ DOMAIN w = DOMAIN b
      BY <2>4 DEF Scheduled, Placed, PlacedBut, Aside
    <2>6. w.mbx = b.mbx /\ w.hdr = b.hdr /\ \A n \in Mailboxes : Line(w, n) = Line(b, n)
      BY <1>6, <2>4 DEF Aside, Line, MailBut, Mail
    <2>7. \A u \in Tasks : w.tcb[u].state = "BLK_RECV" <=> b.tcb[u].state = "BLK_RECV" /\ u # m
      BY <2>4 DEF Changed
    <2>8. MailBut(w, {m}) /\ \A n \in Mailboxes : Chan(w, n) = Chan(b, n)
      BY <1>6, <2>5, <2>6, <2>7, SameMail
    <2>9. MailOK(w)
      BY <1>2, <1>6, <2>6, <2>7, <2>8, MailWhole
    <2>10. \A u \in Tasks : Fed(k, w, u)
      BY <1>7, <1>8, <1>10, <2>6, <2>7 DEF Fed, SameTasks
    <2>11. Sent(w, k, ex, m, msg)
      BY <1>6, <1>7, <1>9, <2>4, <2>5, <2>8, <2>9, <2>10 DEF Sent
    <2>12. CASE pre /\ k.tcb[m].prio < k.tcb[k.cur].prio
      <3>1. l = Preempt(w)
        BY <1>3, <1>12, <2>2, <2>12 DEF Deliver
      <3>2. w.cur # TID_NULL
        BY <1>7, <2>4, <2>12 DEF SameTasks
      <3>3. Scheduled(l, ex) /\ Quiet(l) /\ Undisturbed(w, l)
        BY <2>4, <3>1, <3>2, PreemptRuns
      <3>4. Memory(l) /\ DOMAIN l = DOMAIN w
        BY <3>3 DEF Scheduled, Placed, PlacedBut, Undisturbed, Aside
      <3>5. MailOK(l) /\ (\A n \in Mailboxes : Chan(l, n) = Chan(w, n))
            /\ \A u \in Tasks : Fed(w, l, u)
        BY <2>9, <3>3, <3>4, UndisturbedMail DEF MailOK
      <3>6. \A u \in Tasks : Fed(k, l, u)
        BY <2>10, <3>5, FedSteps
      <3>7. Sent(l, k, ex, m, msg)
        BY <2>11, <3>3, <3>4, <3>5, <3>6 DEF Sent
      <3> QED
        BY <3>3, <3>7, QuietNoneNew
    <2>13. CASE ~(pre /\ k.tcb[m].prio < k.tcb[k.cur].prio)
      <3>1. l = w
        BY <1>3, <1>12, <2>2, <2>13 DEF Deliver
      <3>2. ASSUME pre PROVE NoneNew(k, w)
        <4>1. ~(w.tcb[m].prio < w.tcb[w.cur].prio)
          <5>1. w.tcb[m].prio = k.tcb[m].prio /\ w.cur = k.cur /\ k.cur \in Tasks
            BY <1>1, <1>7, <2>1, <2>4 DEF Changed, SameTasks, Memory
          <5>2. w.tcb[k.cur].prio = k.tcb[k.cur].prio
            BY <1>7, <2>4, <5>1 DEF Changed, SameTasks
          <5> QED
            BY <2>13, <3>2, <5>1, <5>2
        <4>2. ASSUME NEW u \in Tasks, u # m
              PROVE  Outranking(w, u) => Outranking(k, u)
          <5>1. w.cur = k.cur /\ k.cur \in Tasks
            BY <1>1, <1>7, <2>4 DEF SameTasks, Memory
          <5>2. w.tcb[k.cur].prio = k.tcb[k.cur].prio /\ w.tcb[u].prio = k.tcb[u].prio
                /\ w.tcb[u].state = k.tcb[u].state
            BY <1>7, <2>4, <4>2, <5>1 DEF Changed, SameTasks
          <5> QED
            BY <5>1, <5>2 DEF Outranking
        <4> QED
          BY <4>1, <4>2 DEF NoneNew, Outranking
      <3> QED
        BY <2>11, <3>1, <3>2
    <2> QED
      BY <2>12, <2>13
  <1> QED
    BY <1>11, <1>12

\* k_send_msg of a message there is no room for: the caller joins the waiting list,
\* and the scheduler chooses another task.
LEMMA BlockSenderSends ==
    ASSUME NEW k, NEW ex, Scheduled(k, ex), MailOK(k), k.cur # TID_NULL,
           NEW m \in Mailboxes, NEW msg, Valid(k.mbx[m], msg), ~Room(k, m, msg),
           NEW l, l = BlockSender(k, m, msg)
    PROVE  Sent(l, k, ex, m, msg) /\ NoneNew(k, l)
  <1>1. PICK c, q, R : c = k.cur /\ q = WaitQ(m) /\ R = Live(k, ex)
    OBVIOUS
  <1>2. /\ Mail(k) /\ Memory(k) /\ MailBut(k, {}) /\ Lists(k) /\ Placed(k, R) /\ Cleared(k, {})
        /\ Accounts(k.mbx[m]) /\ \A u \in Tasks : k.tcb[u].real_time = FALSE
    BY <1>1 DEF MailOK, MailBut, Mail, Scheduled, Placed, PlacedBut
  <1>3. /\ c \in Tasks /\ c \in R /\ c # TID_NULL /\ k.tcb[c].state = "RUNNING" /\ q \in Queues
    BY <1>1, CurrentTask, WaitQueueIds
  <1>4. PICK k0 : k0 = [k EXCEPT !.tcb[c].state = "BLK_SEND"]
    OBVIOUS
  <1>5. Marked(k0, k, R, c, "BLK_SEND")
    BY <1>2, <1>3, <1>4, SetStatePlaced DEF States
  <1>6. /\ Placed(k0, R) /\ Cleared(k0, {}) /\ k0.cur = c /\ Changed(k0, k, c)
        /\ k0.tcb[c].state = "BLK_SEND" /\ Aside(k0, k) /\ Memory(k0)
    BY <1>1, <1>2, <1>5 DEF Marked, Placed, PlacedBut
  <1>7. PICK k1 : k1 = [k EXCEPT !.tcb[c].state = "BLK_SEND", !.hdr[c] = msg]
    OBVIOUS
  <1>8. PICK h : h = [k.hdr EXCEPT ![c] = msg]
    OBVIOUS
  <1>9. /\ h \in [Tasks -> Message \cup {NULL}] /\ h[c] = msg
        /\ \A u \in Tasks : u # c => h[u] = k.hdr[u]
    BY <1>2, <1>3, <1>8 DEF Mail, Valid
  <1>10. k0.hdr = k.hdr /\ k0.mbx = k.mbx /\ DOMAIN k0 = DOMAIN k
    BY <1>2, <1>6 DEF Aside, Mail
  <1>11. k1 = [k0 EXCEPT !.hdr = h]
    BY <1>2, <1>4, <1>7, <1>8 DEF Mail, Memory
  <1>12. SameTasks(k1, k0) /\ k1.hdr = h /\ k1.mbx = k.mbx /\ DOMAIN k1 = DOMAIN k /\ Memory(k1)
    <2>1. DOMAIN k1 = DOMAIN k /\ k1.mbx = k.mbx
      BY <1>2, <1>10, <1>11 DEF Mail
    <2>2. k1.hdr = h /\ SameTasks(k1, k0)
      BY <1>2, <1>6, <1>10, <1>11 DEF Mail, Memory, SameTasks
    <2>3. Memory(k1)
      BY <1>2, <1>6, <1>10, <1>11 DEF Mail, Memory
    <2> QED
      BY <2>1, <2>2, <2>3
  <1>13. /\ Placed(k1, R) /\ Cleared(k1, {})
         /\ \A r : Nodes(k1, r) = Nodes(k0, r) /\ TasksOf(k1, r) = TasksOf(k0, r)
    <2>1. /\ \A S : Placed(k0, S) => Placed(k1, S)
          /\ \A S : Cleared(k0, S) => Cleared(k1, S)
          /\ \A r : Nodes(k1, r) = Nodes(k0, r) /\ TasksOf(k1, r) = TasksOf(k0, r)
      BY <1>6, <1>12, SameTasksPlaced
    <2> QED
      BY <1>6, <2>1
  <1>14. Loose(k1, c) /\ Lists(k1) /\ ~k1.tcb[c].real_time /\ k1.tcb[c].state = "BLK_SEND"
    BY <1>3, <1>6, <1>12, <1>13 DEF Placed, PlacedBut, Settled, SameTasks
  <1>15. PICK k2 : k2 = PushTail(k1, c, q)
    OBVIOUS
  <1>16. /\ Shifted(k2, k1, q, c, TasksOf(k1, q) \cup {c})
         /\ k2.tcb[c].state = "BLK_SEND"
         /\ Nodes(k2, q) = Behind(Len(Nodes(k1, q)), Nodes(k1, q), c)
    BY <1>3, <1>12, <1>14, <1>15, PushTailLists
  <1>17. Placed(k2, R \ {c}) /\ Changed(k2, k1, c)
    <2>1. \E n \in Mailboxes : q = WaitQ(n)
      BY <1>1
    <2> QED
      BY <1>3, <1>13, <1>16, <2>1, PutPlaced
  <1>18. Cleared(k2, {}) /\ k2.cur = c
    <2>1. (\E n \in Mailboxes : q = WaitQ(n)) /\ Cleared(k1, {c})
      BY <1>1, <1>13 DEF Cleared
    <2>2. Cleared(k1, {c}) => Cleared(k2, {})
      BY <1>3, <1>13, <1>16, <2>1, PutPlaced
    <2> QED
      BY <1>6, <1>12, <1>16, <2>1, <2>2 DEF Shifted, SameRest, SameTasks
  <1>19. Changed(k2, k, c)
    BY <1>6, <1>12, <1>13, <1>17 DEF Changed, SameTasks, Precedes
  <1>20. Dispatchable(k2, ex)
    BY <1>1, <1>3, <1>16, <1>17, <1>18, <1>19, CallerDispatchable DEF Blocked
  <1>21. l = RunNew(k2)
    BY <1>1, <1>7, <1>15 DEF BlockSender
  <1>22. Redispatched(l, k2, ex)
    BY <1>20, <1>21, RunNewRuns
  <1>23. Scheduled(l, ex) /\ Quiet(l) /\ Undisturbed(k2, l) /\ Memory(l)
    BY <1>22 DEF Redispatched, Scheduled, Placed, PlacedBut
  <1>24. Memory(k2) /\ DOMAIN k2 = DOMAIN k /\ k2.mbx = k.mbx /\ k2.hdr = h
    BY <1>2, <1>12, <1>16 DEF Shifted, SameRest, Mail
  <1>25. PICK n, p : n = Len(Line(k, m)) /\ p = Line(k, m)
    OBVIOUS
  <1>26. /\ Line(k2, m) = Behind(n, p, c)
         /\ \A i \in Mailboxes : i # m => Line(k2, i) = Line(k, i)
    <2>1. \A i \in Mailboxes : Line(k1, i) = Line(k, i)
      BY <1>6, <1>13 DEF Aside, Line
    <2>2. Line(k2, m) = Behind(n, p, c)
      BY <1>1, <1>16, <1>25, <2>1 DEF Line
    <2>3. ASSUME NEW i \in Mailboxes, i # m
          PROVE  Line(k2, i) = Line(k1, i)
      BY <1>1, <1>16, <2>3, WaitQueueIds DEF Shifted, Line
    <2> QED
      BY <2>1, <2>2, <2>3
  <1>27. /\ n \in Nat /\ p \in [1 .. n -> Tasks] /\ Callers(k, m) \in Seq(Message)
         /\ Len(Callers(k, m)) = n /\ Chan(k, m) = k.mbx[m].msgs \o Callers(k, m)
    BY <1>2, <1>25, CallersFacts
  <1>28. \A i \in Mailboxes : \A j \in 1 .. Len(Line(k, i)) :
            Line(k, i)[j] \in Tasks /\ Line(k, i)[j] # c
    <2>1. \A i \in Mailboxes : c \notin TasksOf(k, WaitQ(i))
      BY <1>2, <1>3, WaitQueueIds DEF Placed, PlacedBut, Settled, Loose
    <2>2. \A i \in Mailboxes : Line(k, i) \in [1 .. Len(Line(k, i)) -> Tasks]
             /\ \A j \in 1 .. Len(Line(k, i)) : Line(k, i)[j] \in TasksOf(k, WaitQ(i))
      BY <1>2, CallersFacts
    <2> QED
      BY <2>1, <2>2
  <1>29. \A i \in Mailboxes : \A j \in 1 .. Len(Line(k, i)) : h[Line(k, i)[j]] = k.hdr[Line(k, i)[j]]
    BY <1>9, <1>28
  <1>30. /\ Len(Line(k2, m)) = n + 1 /\ Line(k2, m)[n + 1] = c
         /\ \A j \in 1 .. n : Line(k2, m)[j] = p[j]
    <2>1. PICK w : w = Behind(n, p, c)
      OBVIOUS
    <2>2. w \in [1 .. n + 1 -> Tasks] /\ w[n + 1] = c /\ \A j \in 1 .. n : w[j] = p[j]
      BY <1>3, <1>27, <2>1 DEF Behind
    <2>3. Len(w) = n + 1
      BY <1>27, <2>2, LenProperties, IsASeq
    <2> QED
      BY <1>26, <2>1, <2>2, <2>3
  <1>31. msg \in Message /\ msg.length \in Nat /\ msg.length >= MIN_MSG_SIZE
         /\ msg.length <= k.mbx[m].capacity
    BY MessageLength DEF Valid
  <1>32. Callers(k2, m) = Append(Callers(k, m), msg)
    <2>1. PICK w, v : w = Callers(k, m) /\ v = Callers(k2, m)
      OBVIOUS
    <2>2. w = [j \in 1 .. n |-> k.hdr[p[j]]]
      BY <1>25, <2>1 DEF Callers
    <2>3. v = [j \in 1 .. n + 1 |-> h[Line(k2, m)[j]]]
      BY <1>24, <1>30, <2>1 DEF Callers
    <2>4. \A j \in 1 .. n : v[j] = w[j]
      <3>1. \A j \in 1 .. n : h[p[j]] = k.hdr[p[j]]
        BY <1>25, <1>29
      <3>2. \A j \in 1 .. n : j \in 1 .. n + 1
        BY <1>27
      <3> QED
        BY <1>30, <2>2, <2>3, <3>1, <3>2
    <2>5. v[n + 1] = msg
      BY <1>9, <1>27, <1>30, <2>3
    <2>6. w \in Seq(Message) /\ Len(w) = n /\ \A j \in 1 .. n : w[j] \in Message
      BY <1>27, <2>1
    <2>7. /\ Append(w, msg) \in Seq(Message) /\ Len(Append(w, msg)) = n + 1
          /\ Append(w, msg)[n + 1] = msg /\ \A j \in 1 .. n : Append(w, msg)[j] = w[j]
      BY <1>31, <2>6, AppendProperties
    <2>8. \A j \in 1 .. n + 1 : j \in 1 .. n \/ j = n + 1
      BY <1>27
    <2>9. v \in [1 .. n + 1 -> Message]
      BY <1>31, <2>3, <2>4, <2>5, <2>6, <2>8
    <2>10. v \in Seq(Message) /\ Len(v) = n + 1
      BY <1>27, <2>9, LenProperties, IsASeq
    <2>11. \A j \in 1 .. n + 1 : v[j] = Append(w, msg)[j]
      BY <2>4, <2>5, <2>7, <2>8
    <2>12. v = Append(w, msg)
      BY <2>7, <2>10, <2>11, SeqEqual
    <2> QED
      BY <2>1, <2>12
  <1>33. Chan(k2, m) = Append(Chan(k, m), msg)
    <2>1. Chan(k2, m) = k.mbx[m].msgs \o Callers(k2, m)
      BY <1>24 DEF Chan, Callers
    <2>2. k.mbx[m].msgs \in Seq(Message)
      BY <1>2, MailFields
    <2> QED
      BY <1>27, <1>31, <1>32, <2>1, <2>2, SendConcat
  <1>34. \A i \in Mailboxes : i # m => Chan(k2, i) = Chan(k, i)
    BY <1>24, <1>26, <1>29, SameChan
  <1>35. MailOK(k2)
    <2>1. Mail(k2) /\ \A i \in Mailboxes : Accounts(k2.mbx[i])
      BY <1>2, <1>9, <1>24 DEF Mail, MailBut
    <2>2. ASSUME NEW i \in Mailboxes, NEW j \in 1 .. Len(Line(k2, i))
          PROVE  Valid(k2.mbx[i], k2.hdr[Line(k2, i)[j]])
      <3>1. CASE i # m
        BY <1>2, <1>24, <1>26, <1>29, <3>1 DEF MailBut
      <3>2. CASE i = m /\ j = n + 1
        BY <1>9, <1>24, <1>30, <3>2
      <3>3. CASE i = m /\ j # n + 1
        <4>1. j \in 1 .. n
          BY <1>27, <1>30, <3>3
        <4>2. Valid(k.mbx[m], k.hdr[p[j]]) /\ h[p[j]] = k.hdr[p[j]]
          BY <1>2, <1>25, <1>29, <4>1 DEF MailBut
        <4> QED
          BY <1>24, <1>30, <3>3, <4>1, <4>2
      <3> QED
        BY <3>1, <3>2, <3>3
    <2>3. ASSUME NEW i \in Mailboxes, Len(Line(k2, i)) # 0
          PROVE  CanFit(k2.mbx[i], k2.hdr[Line(k2, i)[1]].length) # 1
      <3>1. CASE i # m
        <4>1. Len(Line(k, i)) # 0 /\ Len(Line(k, i)) \in Nat
          BY <1>2, <1>26, <2>3, <3>1, CallersFacts
        <4>2. h[Line(k, i)[1]] = k.hdr[Line(k, i)[1]]
          BY <1>29, <4>1
        <4> QED
          BY <1>2, <1>24, <1>26, <3>1, <4>1, <4>2 DEF MailBut
      <3>2. CASE i = m /\ n # 0
        <4>1. 1 \in 1 .. n /\ Line(k2, m)[1] = p[1]
          BY <1>27, <1>30, <3>2
        <4>2. h[p[1]] = k.hdr[p[1]]
          BY <1>25, <1>29, <4>1
        <4> QED
          BY <1>2, <1>24, <1>25, <3>2, <4>1, <4>2 DEF MailBut
      <3>3. CASE i = m /\ n = 0
        <4>1. Line(k2, m)[1] = c
          BY <1>30, <3>3
        <4>2. CanFit(k.mbx[m], msg.length) # 1
          BY <1>2, <1>25, <3>3, EmptyLine DEF Room
        <4> QED
          BY <1>9, <1>24, <3>3, <4>1, <4>2
      <3> QED
        BY <3>1, <3>2, <3>3
    <2>4. ASSUME NEW u \in Tasks, k2.tcb[u].state = "BLK_RECV"
          PROVE  k2.mbx[u].msgs = <<>> /\ Len(Line(k2, u)) = 0
      <3>1. u # c /\ k.tcb[u].state = "BLK_RECV"
        BY <1>16, <1>19, <2>4 DEF Changed
      <3>2. k.mbx[u].msgs = <<>> /\ Len(Line(k, u)) = 0 /\ u \in Mailboxes
        BY <1>2, <3>1, TaskMailboxes DEF MailBut
      <3>3. u # m
        <4> SUFFICES ASSUME u = m PROVE Room(k, m, msg)
          OBVIOUS
        <4>1. k.mbx[m].current_size = 0
          BY <1>2, <3>2, EmptyMeans, MailFields
        <4>2. CanFit(k.mbx[m], msg.length) = 1
          BY <1>2, <1>31, <4>1, FitMeans, MailFields
        <4> QED
          BY <1>2, <3>2, <4>2, EmptyLine DEF Room
      <3> QED
        BY <1>24, <1>26, <3>2, <3>3
    <2> QED
      BY <2>1, <2>2, <2>3, <2>4 DEF MailOK, MailBut
  <1>36. \A u \in Tasks : Fed(k, k2, u)
    BY <1>3, <1>19, <1>24 DEF Fed, Changed
  <1>37. MailOK(l) /\ (\A i \in Mailboxes : Chan(l, i) = Chan(k2, i)) /\ \A u \in Tasks : Fed(k2, l, u)
    BY <1>23, <1>35, UndisturbedMail DEF MailOK
  <1>38. DOMAIN l = DOMAIN k /\ \A u \in Tasks : Fed(k, l, u)
    BY <1>23, <1>24, <1>36, <1>37, FedSteps DEF Undisturbed, Aside
  <1>39. Sent(l, k, ex, m, msg)
    BY <1>23, <1>33, <1>34, <1>37, <1>38 DEF Sent
  <1> QED
    BY <1>23, <1>39, QuietNoneNew

----------------------------------------------------------------------------
(***************************************************************************)
(* Receiving.                                                              *)
(***************************************************************************)
\* k_recv_msg on an empty mailbox: the caller blocks, and no sender is waiting.
Awaiting(l, k, ex) ==
    /\ Scheduled(l, ex) /\ MailOK(l) /\ NoneNew(k, l) /\ DOMAIN l = DOMAIN k
    /\ l.tcb[k.cur].state = "BLK_RECV"
    /\ \A n \in Mailboxes : Chan(l, n) = Chan(k, n)
    /\ \A u \in Tasks : Fed(k, l, u)

LEMMA ReceiveBlocks ==
    ASSUME NEW k, NEW ex, Scheduled(k, ex), MailOK(k), k.cur # TID_NULL,
           k.mbx[k.cur].current_size = 0,
           NEW l, l = RunNew([k EXCEPT !.tcb[k.cur].state = "BLK_RECV"])
    PROVE  Awaiting(l, k, ex)
  <1>1. PICK c, R : c = k.cur /\ R = Live(k, ex)
    OBVIOUS
  <1>2. /\ Mail(k) /\ Memory(k) /\ MailBut(k, {}) /\ Lists(k) /\ Placed(k, R) /\ Cleared(k, {})
    BY <1>1 DEF MailOK, MailBut, Mail, Scheduled, Placed, PlacedBut
  <1>3. /\ c \in Tasks /\ c \in R /\ c # TID_NULL /\ k.tcb[c].state = "RUNNING" /\ c \in Mailboxes
    BY <1>1, CurrentTask, TaskMailboxes
  <1>4. PICK j : j = [k EXCEPT !.tcb[c].state = "BLK_RECV"]
    OBVIOUS
  <1>5. Marked(j, k, R, c, "BLK_RECV")
    BY <1>2, <1>3, <1>4, SetStatePlaced DEF States
  <1>6. /\ Placed(j, R) /\ Cleared(j, {}) /\ j.cur = c /\ Changed(j, k, c)
        /\ j.tcb[c].state = "BLK_RECV" /\ Aside(j, k) /\ Memory(j)
    BY <1>1, <1>2, <1>5 DEF Marked, Placed, PlacedBut
  <1>7. Placed(j, R \ {c})
    <2>1. Loose(j, c) /\ \A u \in Tasks : Settled(j, R, u)
      BY <1>3, <1>6 DEF Placed, PlacedBut, Settled
    <2>2. \A u \in Tasks : Settled(j, R \ {c}, u)
      BY <1>6, <2>1 DEF Settled
    <2>3. TID_NULL \in R \ {c}
      BY <1>3, <1>6 DEF Placed, PlacedBut
    <2> QED
      BY <1>6, <2>2, <2>3 DEF Placed, PlacedBut
  <1>8. Dispatchable(j, ex)
    BY <1>1, <1>3, <1>6, <1>7, CallerDispatchable DEF Blocked
  <1>9. l = RunNew(j)
    BY <1>1, <1>4
  <1>10. Redispatched(l, j, ex)
    BY <1>8, <1>9, RunNewRuns
  <1>11. Scheduled(l, ex) /\ Quiet(l) /\ Undisturbed(j, l) /\ Memory(l)
    BY <1>10 DEF Redispatched, Scheduled, Placed, PlacedBut
  <1>12. l.tcb[c].state = "BLK_RECV"
    BY <1>3, <1>6, <1>11 DEF Undisturbed, Blocked
  <1>13. DOMAIN j = DOMAIN k /\ j.mbx = k.mbx /\ j.hdr = k.hdr
         /\ \A n \in Mailboxes : Line(j, n) = Line(k, n)
    BY <1>2, <1>6 DEF Aside, Line, Mail
  <1>14. k.mbx[c].msgs = <<>> /\ Len(Line(k, c)) = 0
    <2>1. /\ Accounts(k.mbx[c]) /\ k.mbx[c] \in Mailbox /\ k.mbx[c].capacity \in Nat
          /\ k.mbx[c].current_size = 0
      BY <1>1, <1>2, <1>3, MailFields DEF MailBut
    <2>2. k.mbx[c].msgs = <<>>
      BY <2>1, EmptyMeans
    <2> SUFFICES ASSUME Len(Line(k, c)) # 0 PROVE FALSE
      BY <2>2
    <2>3. 1 \in 1 .. Len(Line(k, c))
      BY <1>2, <1>3, CallersFacts
    <2>4. PICK msg : msg = k.hdr[Line(k, c)[1]]
      OBVIOUS
    <2>5. Valid(k.mbx[c], msg) /\ CanFit(k.mbx[c], msg.length) # 1
      BY <1>2, <1>3, <2>3, <2>4 DEF MailBut
    <2>6. msg.length \in Nat /\ msg.length >= MIN_MSG_SIZE /\ msg.length <= k.mbx[c].capacity
      BY <2>5, MessageLength DEF Valid
    <2>7. CanFit(k.mbx[c], msg.length) = 1
      BY <2>1, <2>6, FitMeans
    <2> QED
      BY <2>5, <2>7
  <1>15. MailOK(j) /\ \A n \in Mailboxes : Chan(j, n) = Chan(k, n)
    <2>1. \A n \in Mailboxes : Chan(j, n) = Chan(k, n)
      BY <1>13, SameChan
    <2>2. \A u \in Tasks \ {} : j.tcb[u].state = "BLK_RECV" =>
             j.mbx[u].msgs = <<>> /\ Len(Line(j, u)) = 0
      <3> SUFFICES ASSUME NEW u \in Tasks, j.tcb[u].state = "BLK_RECV"
                   PROVE  j.mbx[u].msgs = <<>> /\ Len(Line(j, u)) = 0
        OBVIOUS
      <3>1. k.mbx[u].msgs = <<>> /\ Len(Line(k, u)) = 0 /\ u \in Mailboxes
        BY <1>2, <1>6, <1>14, TaskMailboxes DEF MailBut, Changed
      <3> QED
        BY <1>13, <3>1
    <2>3. Mail(j) /\ \A n \in Mailboxes : Accounts(j.mbx[n])
      BY <1>2, <1>6, <1>13 DEF Mail, MailBut
    <2>4. \A n \in Mailboxes : \A i \in 1 .. Len(Line(j, n)) :
             Valid(j.mbx[n], j.hdr[Line(j, n)[i]])
      BY <1>2, <1>13 DEF MailBut
    <2>5. \A n \in Mailboxes \ {} :
             Len(Line(j, n)) # 0 => CanFit(j.mbx[n], j.hdr[Line(j, n)[1]].length) # 1
      BY <1>2, <1>13 DEF MailBut
    <2> QED
      BY <2>1, <2>2, <2>3, <2>4, <2>5 DEF MailOK, MailBut
  <1>16. \A u \in Tasks : Fed(k, j, u)
    BY <1>6, <1>13 DEF Fed, Changed
  <1>17. MailOK(l) /\ (\A n \in Mailboxes : Chan(l, n) = Chan(j, n)) /\ \A u \in Tasks : Fed(j, l, u)
    BY <1>11, <1>15, UndisturbedMail DEF MailOK
  <1>18. DOMAIN l = DOMAIN k /\ \A u \in Tasks : Fed(k, l, u)
    BY <1>11, <1>13, <1>16, <1>17, FedSteps DEF Undisturbed, Aside
  <1> QED
    BY <1>1, <1>11, <1>12, <1>15, <1>17, <1>18, QuietNoneNew DEF Awaiting

\* A task that is let in from a waiting list enters its ready queue.
LEMMA LetInScheduled ==
    ASSUME NEW k, NEW ex, Scheduled(k, ex), NEW t \in Tasks \ Live(k, ex),
           k.tcb[t].state # "DORMANT",
           NEW l, Placed(l, Live(k, ex)), Cleared(l, {}), l.cur = k.cur,
           \A u \in Tasks : l.tcb[u].prio = k.tcb[u].prio,
           \A u \in Tasks : u # t => l.tcb[u].state = k.tcb[u].state
    PROVE  Scheduled(l, ex)
  <1>1. /\ Levels(k) /\ ex \subseteq Tasks /\ k.cur \notin ex /\ TID_NULL \notin ex
        /\ (\A u \in ex \cup {k.cur} : k.tcb[u].state = "RUNNING")
        /\ k.cur # TID_NULL => k.tcb[TID_NULL].state = "READY"
    BY DEF Scheduled
  <1>2. t # TID_NULL /\ t \notin ex /\ t # k.cur /\ k.cur \in Tasks
    BY CurrentTask DEF Live
  <1>3. Live(l, ex) = Live(k, ex)
    BY DEF Live
  <1>4. Levels(l)
    <2>1. l.tcb[TID_NULL].prio = NULL_INDEX
      BY <1>1, NullTask DEF Levels
    <2>2. \A u \in Tasks \ {TID_NULL} : l.tcb[u].state = "DORMANT" \/ InBounds(l.tcb[u].prio)
      BY <1>1, <1>2 DEF Levels
    <2> QED
      BY <2>1, <2>2 DEF Levels
  <1>5. \A u \in ex \cup {l.cur} : l.tcb[u].state = "RUNNING"
    BY <1>1, <1>2
  <1>6. l.cur # TID_NULL => l.tcb[TID_NULL].state = "READY"
    BY <1>1, <1>2, NullTask
  <1> QED
    BY <1>1, <1>3, <1>4, <1>5, <1>6 DEF Scheduled

\* What the turns of the loop over the waiting list of m do: the lines stay as they
\* are, and senders become READY.
Progress(l, k, ex, m) ==
    /\ Scheduled(l, ex) /\ MailBut(l, {m}) /\ l.cur = k.cur /\ DOMAIN l = DOMAIN k
    /\ \A n \in Mailboxes : Chan(l, n) = Chan(k, n)
    /\ \A u \in Tasks : /\ l.tcb[u].state = "BLK_RECV" <=> k.tcb[u].state = "BLK_RECV"
                        /\ k.mbx[u].msgs # <<>> => l.mbx[u].msgs # <<>>

LEMMA AdmitProgress ==
    ASSUME NEW k, NEW ex, Scheduled(k, ex), NEW m \in Mailboxes, MailBut(k, {m}), Admits(k, m),
           NEW l, l = Admit(k, m)
    PROVE  Progress(l, k, ex, m) /\ Len(Line(l, m)) = Len(Line(k, m)) - 1
  <1>1. PICK q, R, n, p : q = WaitQ(m) /\ R = Live(k, ex) /\ n = Len(Line(k, m)) /\ p = Line(k, m)
    OBVIOUS
  <1>2. /\ Mail(k) /\ Memory(k) /\ Lists(k) /\ Placed(k, R) /\ Cleared(k, {}) /\ Accounts(k.mbx[m])
        /\ PlacedBut(k, R, {}) /\ q \in Queues
    BY <1>1, WaitQueueIds DEF MailBut, Mail, Scheduled, Placed, PlacedBut
  <1>3. PICK t : t = k.queue[q].HEAD
    OBVIOUS
  <1>4. t # NULL /\ n # 0 /\ t = p[1] /\ CanFit(k.mbx[m], k.hdr[t].length) = 1
    BY <1>1, <1>2, <1>3, EmptyLine DEF Admits
  <1>5. /\ n \in Nat /\ n >= 1 /\ p \in [1 .. n -> Tasks] /\ Callers(k, m) \in Seq(Message)
        /\ Len(Callers(k, m)) = n /\ Chan(k, m) = k.mbx[m].msgs \o Callers(k, m)
        /\ k.mbx[m].msgs \in Seq(Message)
    BY <1>1, <1>2, <1>4, CallersFacts, MailFields
  <1>6. t \in TasksOf(k, q) /\ t \in Tasks /\ t \notin R /\ k.tcb[t].state = "BLK_SEND"
    <2>1. t \in TasksOf(k, q)
      BY <1>1, <1>2, <1>4, <1>5, CallersFacts
    <2> QED
      BY <1>1, <1>2, <2>1, OnQueue, WaitQueueIds
  <1>7. PICK msg : msg = k.hdr[t]
    OBVIOUS
  <1>8. Valid(k.mbx[m], msg) /\ msg \in Message /\ CanFit(k.mbx[m], msg.length) = 1
    BY <1>1, <1>4, <1>5, <1>7 DEF MailBut, Valid
  <1>9. PICK j : j = PopHead(k, q)
    OBVIOUS
  <1>10. HeadPopped(j, k, q, t)
    BY <1>2, <1>3, <1>4, <1>9, PopHeadLists
  <1>11. /\ Shifted(j, k, q, t, TasksOf(k, q) \ {t}) /\ j.tcb[t].state = "READY"
         /\ j.tcb[t].next = NULL /\ Line(j, m) = Without(n, p, 1)
    BY <1>1, <1>6, <1>10 DEF HeadPopped, PoppedState, Line
  <1>12. Taken(j, k, R, t)
    BY <1>2, <1>6, <1>11, TakenPlaced DEF PlacedBut
  <1>13. /\ Placed(j, R \cup {t}) /\ j.cur = k.cur /\ Changed(j, k, t) /\ Cleared(j, {})
         /\ Memory(j)
    BY <1>2, <1>11, <1>12 DEF Taken, Placed, PlacedBut
  <1>14. DOMAIN j = DOMAIN k /\ j.mbx = k.mbx /\ j.hdr = k.hdr
    BY <1>2, <1>11 DEF Shifted, SameRest, Mail
  <1>15. \A i \in Mailboxes : i # m => Line(j, i) = Line(k, i)
    BY <1>1, <1>11, WaitQueueIds DEF Shifted, Line
  <1>16. Len(Line(j, m)) = n - 1 /\ \A i \in 1 .. n - 1 : i + 1 \in 1 .. n /\ Line(j, m)[i] = p[i + 1]
    <2>1. PICK w : w = Without(n, p, 1)
      OBVIOUS
    <2>2. \A i \in 1 .. n - 1 : i + 1 \in 1 .. n
      BY <1>5
    <2>3. w \in [1 .. n - 1 -> Tasks] /\ \A i \in 1 .. n - 1 : w[i] = p[i + 1]
      BY <1>5, <2>1, <2>2 DEF Without
    <2>4. n - 1 \in Nat
      BY <1>5
    <2>5. Len(w) = n - 1
      BY <2>3, <2>4, LenProperties, IsASeq
    <2> QED
      BY <1>11, <2>1, <2>2, <2>3, <2>5
  <1>17. MailBut(j, {m})
    <2>1. Mail(j) /\ \A i \in Mailboxes : Accounts(j.mbx[i])
      BY <1>2, <1>13, <1>14 DEF Mail, MailBut
    <2>2. ASSUME NEW i \in Mailboxes, NEW a \in 1 .. Len(Line(j, i))
          PROVE  Valid(j.mbx[i], j.hdr[Line(j, i)[a]])
      <3>1. CASE i # m
        BY <1>14, <1>15, <3>1 DEF MailBut
      <3>2. CASE i = m
        <4>1. a \in 1 .. n - 1 /\ a + 1 \in 1 .. n /\ Line(j, m)[a] = p[a + 1]
          BY <1>16, <3>2
        <4>2. Valid(k.mbx[m], k.hdr[p[a + 1]])
          BY <1>1, <4>1 DEF MailBut
        <4> QED
          BY <1>14, <3>2, <4>1, <4>2
      <3> QED
        BY <3>1, <3>2
    <2>3. \A i \in Mailboxes \ {m} :
             Len(Line(j, i)) # 0 => CanFit(j.mbx[i], j.hdr[Line(j, i)[1]].length) # 1
      BY <1>14, <1>15 DEF MailBut
    <2>4. \A u \in Tasks \ {m} : j.tcb[u].state = "BLK_RECV" =>
             j.mbx[u].msgs = <<>> /\ Len(Line(j, u)) = 0
      BY <1>6, <1>11, <1>13, <1>14, <1>15, TaskMailboxes DEF MailBut, Changed
    <2> QED
      BY <2>1, <2>2, <2>3, <2>4 DEF MailBut
  <1>18. \A i \in Mailboxes : i # m => Chan(j, i) = Chan(k, i)
    BY <1>14, <1>15, SameChan
  <1>19. Callers(j, m) = Tail(Callers(k, m)) /\ Head(Callers(k, m)) = msg /\ Callers(k, m) # <<>>
    <2>1. PICK w, v : w = Callers(k, m) /\ v = Callers(j, m)
      OBVIOUS
    <2>2. w = [i \in 1 .. n |-> k.hdr[p[i]]] /\ w \in Seq(Message) /\ Len(w) = n
      BY <1>1, <1>5, <2>1 DEF Callers
    <2>3. v = [i \in 1 .. n - 1 |-> k.hdr[Line(j, m)[i]]]
      BY <1>14, <1>16, <2>1 DEF Callers
    <2>4. w # <<>> /\ Head(w) = w[1] /\ w[1] = msg
      BY <1>4, <1>5, <1>7, <2>2
    <2>5. \A i \in 1 .. n - 1 : v[i] = w[i + 1]
      BY <1>16, <2>2, <2>3
    <2>6. v \in [1 .. n - 1 -> Message]
      <3>1. \A i \in 1 .. n - 1 : w[i + 1] \in Message
        BY <1>16, <2>2, ElementOfSeq
      <3> QED
        BY <2>3, <2>5, <3>1
    <2>7. n - 1 \in Nat
      BY <1>5
    <2>8. v \in Seq(Message) /\ Len(v) = n - 1
      BY <2>6, <2>7, LenProperties, IsASeq
    <2>9. /\ Tail(w) \in Seq(Message) /\ Len(Tail(w)) = n - 1
          /\ \A i \in 1 .. n - 1 : Tail(w)[i] = w[i + 1]
      <3>1. \A i \in 1 .. Len(Tail(w)) : Tail(w)[i] = w[i + 1]
        BY <2>2, <2>4, HeadTailProperties
      <3>2. Tail(w) \in Seq(Message) /\ Len(Tail(w)) = Len(w) - 1
        BY <2>2, <2>4, HeadTailProperties
      <3> QED
        BY <2>2, <3>1, <3>2
    <2>10. v = Tail(w)
      BY <2>5, <2>8, <2>9, SeqEqual
    <2> QED
      BY <2>1, <2>4, <2>10
  <1>20. PICK b, s : b = PushBuffer(j, m, msg) /\ s = Append(k.mbx[m].msgs, msg)
    OBVIOUS
  <1>21. Rebuffered(b, j, m, s)
    <2>1. Mail(j) /\ Accounts(j.mbx[m]) /\ Valid(j.mbx[m], msg) /\ CanFit(j.mbx[m], msg.length) = 1
      BY <1>2, <1>8, <1>14, <1>17 DEF MailBut
    <2> QED
      BY <1>14, <1>20, <2>1, PushBufferStores
  <1>22. Aligned(b, j, m, s)
    BY <1>17, <1>21, RebufferedMail
  <1>23. /\ MailBut(b, {m}) /\ Chan(b, m) = s \o Callers(j, m)
         /\ (\A i \in Mailboxes : Line(b, i) = Line(j, i))
         /\ (\A i \in Mailboxes : i # m => Chan(b, i) = Chan(j, i))
         /\ Placed(b, R \cup {t}) /\ Cleared(b, {})
    BY <1>13, <1>22 DEF Aligned
  <1>24. Chan(b, m) = Chan(k, m)
    <2>1. PICK w, x : w = Callers(k, m) /\ x = k.mbx[m].msgs
      OBVIOUS
    <2>2. Append(x, Head(w)) \o Tail(w) = x \o w
      BY <1>5, <1>19, <2>1, AdmitConcat
    <2> QED
      BY <1>5, <1>19, <1>20, <1>23, <2>1, <2>2
  <1>25. /\ b.tcb = j.tcb /\ b.cur = k.cur /\ DOMAIN b = DOMAIN k /\ b.mbx[m].msgs = s
         /\ \A i \in Mailboxes : i # m => b.mbx[i] = k.mbx[i]
    BY <1>13, <1>14, <1>21 DEF Rebuffered, SameTasks
  <1>26. /\ b.tcb[t].state = "READY" /\ \A u \in Tasks : b.tcb[u].prio = k.tcb[u].prio
         /\ \A u \in Tasks : u # t => b.tcb[u].state = k.tcb[u].state
    BY <1>11, <1>13, <1>25 DEF Changed
  <1>27. t # TID_NULL /\ InBounds(b.tcb[t].prio)
    <2>1. t # TID_NULL
      BY <1>2, <1>6 DEF PlacedBut
    <2>2. Levels(k)
      BY DEF Scheduled
    <2> QED
      BY <1>6, <1>26, <2>1, <2>2 DEF Levels
  <1>28. l = PushTailReady(b, t)
    BY <1>1, <1>3, <1>7, <1>9, <1>20 DEF Admit
  <1>29. Pushed(l, b, R \cup {t}, t)
    BY <1>6, <1>23, <1>26, <1>27, <1>28, PushTailPlaced DEF Cleared
  <1>30. (R \cup {t}) \ {t} = R
    BY <1>6
  <1>31. /\ Placed(l, R) /\ Cleared(l, {}) /\ l.cur = k.cur /\ Changed(l, b, t)
         /\ l.tcb[t].state = "READY" /\ Aside(l, b) /\ Memory(l)
    BY <1>25, <1>29, <1>30 DEF Pushed, Placed, PlacedBut
  <1>32. /\ \A u \in Tasks : l.tcb[u].prio = k.tcb[u].prio
         /\ \A u \in Tasks : u # t => l.tcb[u].state = k.tcb[u].state
    BY <1>26, <1>31 DEF Changed
  <1>33. Scheduled(l, ex)
    BY <1>1, <1>6, <1>31, <1>32, LetInScheduled
  <1>34. DOMAIN l = DOMAIN b /\ l.mbx = b.mbx /\ l.hdr = b.hdr
         /\ \A i \in Mailboxes : Line(l, i) = Line(b, i)
    BY <1>23, <1>31 DEF Aside, Line, MailBut, Mail
  <1>35. \A u \in Tasks : l.tcb[u].state = "BLK_RECV" <=> k.tcb[u].state = "BLK_RECV"
    BY <1>6, <1>31, <1>32
  <1>36. MailBut(l, {m}) /\ \A i \in Mailboxes : Chan(l, i) = Chan(b, i)
    <2>1. \A u \in Tasks : l.tcb[u].state = "BLK_RECV" => b.tcb[u].state = "BLK_RECV"
      BY <1>31, <1>32, <1>26
    <2> QED
      BY <1>23, <1>31, <1>34, <2>1, SameMail
  <1>37. \A u \in Tasks : k.mbx[u].msgs # <<>> => l.mbx[u].msgs # <<>>
    <2>1. s # <<>>
      BY <1>5, <1>8, <1>20, AppendProperties
    <2> QED
      BY <1>25, <1>34, <2>1, TaskMailboxes
  <1>38. \A i \in Mailboxes : Chan(l, i) = Chan(k, i)
    BY <1>18, <1>23, <1>24, <1>36
  <1>39. Len(Line(l, m)) = Len(Line(k, m)) - 1
    BY <1>1, <1>16, <1>23, <1>34
  <1> QED
    BY <1>25, <1>31, <1>33, <1>34, <1>35, <1>36, <1>37, <1>38, <1>39 DEF Progress

LEMMA ProgressSteps ==
    ASSUME NEW k, NEW j, NEW l, NEW ex, NEW m, Progress(j, k, ex, m), Progress(l, j, ex, m)
    PROVE  Progress(l, k, ex, m)
  BY DEF Progress

\* One turn of the loop: the waiting list gets shorter or the loop has ended.
LEMMA TurnProgress ==
    ASSUME NEW k, NEW ex, Scheduled(k, ex), NEW m \in Mailboxes, MailBut(k, {m}),
           NEW l, l = Turn(k, m)
    PROVE  /\ Progress(l, k, ex, m)
           /\ ~Admits(l, m) \/ Len(Line(l, m)) = Len(Line(k, m)) - 1
  <1>1. CASE Admits(k, m)
    BY <1>1, AdmitProgress DEF Turn
  <1>2. CASE ~Admits(k, m)
    <2>1. l = k
      BY <1>2 DEF Turn
    <2> QED
      BY <1>2, <2>1 DEF Progress
  <1> QED
    BY <1>1, <1>2

\* f[i] is the memory after i turns.
Turns(f, k, m, n) == f = [i \in 0 .. n |-> IF i = 0 THEN k ELSE Turn(f[i - 1], m)]

LEMMA TurnsExist ==
    ASSUME NEW k, NEW m, NEW N \in Nat
    PROVE  \E f : Turns(f, k, m, N)
  <1> DEFINE Bad == {n \in 0 .. N : ~ \E f : Turns(f, k, m, n)}
  <1> SUFFICES ASSUME Bad # {} PROVE FALSE
    OBVIOUS
  <1>1. Bad \in SUBSET Nat
    OBVIOUS
  <1>2. PICK n \in Bad : \A j \in Bad : n <= j
    BY <1>1, Least
  <1>3. n \in 0 .. N /\ ~ \E f : Turns(f, k, m, n)
    OBVIOUS
  <1> HIDE DEF Bad
  <1>4. n # 0
    <2>1. PICK f : f = [i \in 0 .. 0 |-> k]
      OBVIOUS
    <2>2. Turns(f, k, m, 0)
      BY <2>1 DEF Turns
    <2> QED
      BY <1>3, <2>2
  <1>5. n - 1 \in 0 .. N /\ n \in Nat /\ n - 1 \notin Bad
    BY <1>2, <1>3, <1>4
  <1>6. PICK f : Turns(f, k, m, n - 1)
    BY <1>5 DEF Bad
  <1>7. PICK g : g = [i \in 0 .. n |-> IF i < n THEN f[i] ELSE Turn(f[n - 1], m)]
    OBVIOUS
  <1>8. \A i \in 0 .. n - 1 : f[i] = IF i = 0 THEN k ELSE Turn(f[i - 1], m)
    BY <1>6 DEF Turns
  <1>9. ASSUME NEW i \in 0 .. n
        PROVE  g[i] = IF i = 0 THEN k ELSE Turn(g[i - 1], m)
    <2>1. CASE i = 0
      BY <1>3, <1>4, <1>5, <1>7, <1>8, <2>1
    <2>2. CASE i # 0
      <3>1. i - 1 \in 0 .. n - 1 /\ i - 1 \in 0 .. n /\ i - 1 < n
        BY <1>5, <2>2
      <3>2. g[i - 1] = f[i - 1]
        BY <1>7, <3>1
      <3>3. g[i] = Turn(f[i - 1], m)
        <4>1. CASE i < n
          BY <1>5, <1>7, <1>8, <2>2, <4>1
        <4>2. CASE i = n
          BY <1>5, <1>7, <4>2
        <4> QED
          BY <1>5, <4>1, <4>2
      <3> QED
        BY <2>2, <3>2, <3>3
    <2> QED
      BY <2>1, <2>2
  <1>10. Turns(g, k, m, n)
    BY <1>7, <1>9 DEF Turns
  <1> QED
    BY <1>3, <1>10

\* The loop over the waiting list: it ends where the first sender does not fit.
LEMMA DrainRuns ==
    ASSUME NEW k, NEW ex, Scheduled(k, ex), NEW m \in Mailboxes, MailBut(k, {m}),
           m \in Tasks => k.tcb[m].state # "BLK_RECV", NEW l, l = Drain(k, m)
    PROVE  Progress(l, k, ex, m) /\ MailOK(l)
  <1>1. PICK after : after = CHOOSE f : f = [i \in 0 .. MAX_TASKS |->
                                IF i = 0 THEN k ELSE Turn(f[i - 1], m)]
    OBVIOUS
  <1>2. l = after[MAX_TASKS]
    BY <1>1 DEF Drain
  <1>3. \E f : f = [i \in 0 .. MAX_TASKS |-> IF i = 0 THEN k ELSE Turn(f[i - 1], m)]
    <2>1. MAX_TASKS \in Nat
      OBVIOUS
    <2>2. \E f : Turns(f, k, m, MAX_TASKS)
      BY <2>1, TurnsExist
    <2> QED
      BY <2>2 DEF Turns
  <1>4. after = [i \in 0 .. MAX_TASKS |-> IF i = 0 THEN k ELSE Turn(after[i - 1], m)]
    BY <1>1, <1>3
  <1>5. MAX_TASKS \in Nat
    OBVIOUS
  <1> DEFINE Far(i) == /\ Progress(after[i], k, ex, m)
                       /\ Len(Line(after[i], m)) \in Nat
                       /\ ~Admits(after[i], m) \/ Len(Line(after[i], m)) <= MAX_TASKS - i
  <1>6. \A i \in 0 .. MAX_TASKS : Far(i)
    <2> DEFINE Bad == {i \in 0 .. MAX_TASKS : ~Far(i)}
    <2> SUFFICES ASSUME Bad # {} PROVE FALSE
      OBVIOUS
    <2>1. Bad \in SUBSET Nat
      OBVIOUS
    <2>2. PICK i \in Bad : \A j \in Bad : i <= j
      BY <2>1, Least
    <2>3. i \in 0 .. MAX_TASKS /\ ~Far(i)
      OBVIOUS
    <2>4. i # 0
      <3> SUFFICES ASSUME i = 0 PROVE Far(0)
        BY <2>3
      <3>1. after[0] = k
        BY <1>4, <1>5
      <3>2. Progress(k, k, ex, m)
        BY DEF Progress
      <3>3. Lists(k)
        BY DEF Scheduled, Placed, PlacedBut
      <3>4. Len(Line(k, m)) \in Nat /\ Len(Line(k, m)) <= MAX_TASKS
        BY <3>3, CallersFacts
      <3> QED
        BY <3>1, <3>2, <3>4
    <2>5. i - 1 \in 0 .. MAX_TASKS /\ i - 1 \notin Bad /\ i \in Nat
      BY <1>5, <2>2, <2>3, <2>4
    <2>6. Far(i - 1)
      BY <2>5
    <2>7. PICK j : j = after[i - 1]
      OBVIOUS
    <2>8. after[i] = Turn(j, m)
      BY <1>4, <2>3, <2>4, <2>7
    <2>9. Progress(j, k, ex, m) /\ Scheduled(j, ex) /\ MailBut(j, {m})
      BY <2>6, <2>7 DEF Progress
    <2>10. /\ Progress(after[i], j, ex, m)
           /\ ~Admits(after[i], m) \/ Len(Line(after[i], m)) = Len(Line(j, m)) - 1
      BY <2>8, <2>9, TurnProgress
    <2>11. Progress(after[i], k, ex, m)
      BY <2>9, <2>10, ProgressSteps
    <2>12. Len(Line(after[i], m)) \in Nat
      <3>1. MailBut(after[i], {m}) /\ Lists(after[i])
        BY <2>11 DEF Progress, Scheduled, Placed, PlacedBut
      <3> QED
        BY <3>1, CallersFacts
    <2>13. ~Admits(after[i], m) \/ Len(Line(after[i], m)) <= MAX_TASKS - i
      <3>1. CASE Admits(j, m)
        <4>1. Len(Line(j, m)) <= MAX_TASKS - (i - 1) /\ Len(Line(j, m)) \in Nat
          BY <2>6, <2>7, <3>1
        <4> QED
          BY <1>5, <2>5, <2>10, <2>12, <4>1
      <3>2. CASE ~Admits(j, m)
        BY <2>8, <3>2 DEF Turn
      <3> QED
        BY <3>1, <3>2
    <2> QED
      BY <2>3, <2>11, <2>12, <2>13
  <1>7. MAX_TASKS \in 0 .. MAX_TASKS
    BY <1>5
  <1>8. /\ Progress(l, k, ex, m) /\ Len(Line(l, m)) \in Nat
        /\ ~Admits(l, m) \/ Len(Line(l, m)) <= 0
    BY <1>2, <1>5, <1>6, <1>7
  <1>9. Memory(l) /\ Lists(l) /\ MailBut(l, {m})
    BY <1>8 DEF Progress, MailBut, Scheduled, Placed, PlacedBut
  <1>10. ASSUME Len(Line(l, m)) # 0
         PROVE  CanFit(l.mbx[m], l.hdr[Line(l, m)[1]].length) # 1
    <2>1. ~Admits(l, m)
      BY <1>8, <1>10
    <2>2. /\ l.queue[WaitQ(m)].HEAD # NULL /\ l.queue[WaitQ(m)].HEAD = Line(l, m)[1]
          /\ l.queue[WaitQ(m)].current_size > 0
      <3>1. l.queue[WaitQ(m)].current_size = Len(Line(l, m))
        BY <1>9, EmptyLine
      <3>2. l.queue[WaitQ(m)].HEAD # NULL /\ l.queue[WaitQ(m)].HEAD = Line(l, m)[1]
        BY <1>9, <1>10, EmptyLine
      <3> QED
        BY <1>8, <1>10, <3>1, <3>2
    <2> QED
      BY <2>1, <2>2 DEF Admits
  <1>11. m \in Tasks => l.tcb[m].state # "BLK_RECV"
    BY <1>8 DEF Progress
  <1>12. MailOK(l)
    BY <1>9, <1>10, <1>11, MailWhole
  <1> QED
    BY <1>8, <1>12

LEMMA TailConcat ==
    \A s, w \in Seq(Message) : s # <<>> => s \o w # <<>> /\ Tail(s) \o w = Tail(s \o w)
  OBVIOUS

\* A message is taken from the line of m or not, and the senders that now fit are let
\* in: nothing else happens to the lines.
Fetched(l, k, ex, m) ==
    /\ Scheduled(l, ex) /\ MailOK(l) /\ DOMAIN l = DOMAIN k
    /\ \/ Chan(l, m) = Chan(k, m)
       \/ Chan(k, m) # <<>> /\ Chan(l, m) = Tail(Chan(k, m))
    /\ \A n \in Mailboxes : n # m => Chan(l, n) = Chan(k, n)
    /\ \A u \in Tasks : u # m => Fed(k, l, u)

\* pop_buffer and the loop, whatever pop_buffer returns
LEMMA DrainFetches ==
    ASSUME NEW k, NEW ex, Scheduled(k, ex), MailOK(k), NEW m \in Mailboxes,
           m \in Tasks => k.tcb[m].state # "BLK_RECV", NEW len,
           NEW l, l = Drain(PopBuffer(k, m, len), m)
    PROVE  Fetched(l, k, ex, m) /\ l.cur = k.cur
  <1>1. /\ Mail(k) /\ Accounts(k.mbx[m]) /\ MailBut(k, {m}) /\ Lists(k)
    BY MailPart DEF MailOK, MailBut, Scheduled, Placed, PlacedBut
  <1>2. PICK b : b = PopBuffer(k, m, len)
    OBVIOUS
  <1>3. CASE PopResult(k.mbx[m], len) # 1
    <2>1. b = k
      BY <1>2, <1>3 DEF PopBuffer
    <2>2. Progress(l, k, ex, m) /\ MailOK(l)
      BY <1>1, <1>2, <2>1, DrainRuns
    <2>3. \A u \in Tasks : Fed(k, l, u)
      BY <2>2 DEF Progress, Fed
    <2>4. /\ Scheduled(l, ex) /\ DOMAIN l = DOMAIN k /\ l.cur = k.cur
          /\ \A n \in Mailboxes : Chan(l, n) = Chan(k, n)
      BY <2>2 DEF Progress
    <2>5. Chan(l, m) = Chan(k, m)
      BY <2>4
    <2>6. Fetched(l, k, ex, m)
      BY <2>2, <2>3, <2>4, <2>5 DEF Fetched
    <2> QED
      BY <2>4, <2>6
  <1>4. CASE PopResult(k.mbx[m], len) = 1
    <2>1. PICK s, w : s = k.mbx[m].msgs /\ w = Callers(k, m)
      OBVIOUS
    <2>2. Rebuffered(b, k, m, Tail(s)) /\ s # <<>>
      BY <1>1, <1>2, <1>4, <2>1, PopBufferTakes
    <2>3. Aligned(b, k, m, Tail(s))
      BY <1>1, <2>2, RebufferedMail
    <2>4. /\ SameTasks(b, k) /\ DOMAIN b = DOMAIN k
          /\ \A n \in Mailboxes : n # m => b.mbx[n] = k.mbx[n]
      BY <2>2 DEF Rebuffered
    <2>5. m \in Tasks => b.tcb[m].state # "BLK_RECV"
      BY <2>4 DEF SameTasks
    <2>6. Scheduled(b, ex) /\ MailBut(b, {m})
      BY <2>3 DEF Aligned
    <2>7. Progress(l, b, ex, m) /\ MailOK(l)
      BY <1>2, <2>5, <2>6, DrainRuns
    <2>8. s \in Seq(Message) /\ w \in Seq(Message) /\ Chan(k, m) = s \o w
      BY <1>1, <2>1, CallersFacts, MailFields
    <2>9. Chan(k, m) # <<>> /\ Chan(l, m) = Tail(Chan(k, m))
      <3>1. Chan(l, m) = Tail(s) \o w
        BY <2>1, <2>3, <2>7 DEF Aligned, Progress
      <3> QED
        BY <2>2, <2>8, <3>1, TailConcat
    <2>10. \A n \in Mailboxes : n # m => Chan(l, n) = Chan(k, n)
      BY <2>3, <2>7 DEF Aligned, Progress
    <2>11. \A u \in Tasks : u # m => Fed(k, l, u)
      BY <2>4, <2>7, TaskMailboxes DEF Progress, Fed, SameTasks
    <2> QED
      BY <2>4, <2>7, <2>9, <2>10, <2>11 DEF Progress, Fetched, SameTasks
  <1> QED
    BY <1>3, <1>4

\* The part that k_recv_msg, when it has a message, shares with k_recv_msg_nb
LEMMA ReceiveFetches ==
    ASSUME NEW k, NEW ex, Scheduled(k, ex), MailOK(k), k.cur # TID_NULL, NEW len,
           NEW l, l = Receive(k, len)
    PROVE  Fetched(l, k, ex, k.cur) /\ Quiet(l)
  <1>1. PICK c : c = k.cur
    OBVIOUS
  <1>2. c \in Tasks /\ c \in Mailboxes /\ k.tcb[c].state = "RUNNING"
    BY <1>1, CurrentTask, TaskMailboxes
  <1>3. PICK j : j = Drain(PopBuffer(k, c, len), c)
    OBVIOUS
  <1>4. Fetched(j, k, ex, c) /\ j.cur = c
    BY <1>1, <1>2, <1>3, DrainFetches
  <1>5. l = Preempt(j)
    BY <1>1, <1>3 DEF Receive
  <1>6. Scheduled(j, ex) /\ MailOK(j) /\ DOMAIN j = DOMAIN k
    BY <1>4 DEF Fetched
  <1>7. Scheduled(l, ex) /\ Quiet(l) /\ Undisturbed(j, l)
    BY <1>1, <1>4, <1>5, <1>6, PreemptRuns
  <1>8. Memory(l) /\ MailBut(j, {}) /\ DOMAIN l = DOMAIN j
    BY <1>6, <1>7 DEF Scheduled, Placed, PlacedBut, MailOK, Undisturbed, Aside
  <1>9. /\ MailBut(l, {}) /\ \A n \in Mailboxes : Chan(l, n) = Chan(j, n)
        /\ \A u \in Tasks : Fed(j, l, u)
    BY <1>7, <1>8, UndisturbedMail
  <1>10. \A u \in Tasks : u # c => Fed(k, l, u)
    BY <1>4, <1>9, FedSteps DEF Fetched
  <1>11. Fetched(l, k, ex, c)
    BY <1>2, <1>4, <1>6, <1>7, <1>8, <1>9, <1>10 DEF Fetched, MailOK
  <1> QED
    BY <1>1, <1>7, <1>11

----------------------------------------------------------------------------
(***************************************************************************)
(* The inductive invariant, and what a step does.                          *)
(***************************************************************************)
MsgInv == /\ Orderly /\ MailOK(Machine)
          /\ resume \in [Tasks -> BufLengths \cup {NULL}] /\ resume[TID_NULL] = NULL
          /\ WokenReceiverHasMessage

\* At most one line gets a message behind it, or loses its first one.
Conveyed(k, l) ==
    \E m \in Mailboxes :
        /\ \/ Chan(l, m) = Chan(k, m)
           \/ \E msg \in Message : Chan(l, m) = Append(Chan(k, m), msg)
           \/ Chan(k, m) # <<>> /\ Chan(l, m) = Tail(Chan(k, m))
        /\ \A n \in Mailboxes : n # m => Chan(l, n) = Chan(k, n)

LEMMA MachineFields ==
    /\ Machine.tcb = tcb /\ Machine.queue = queue /\ Machine.cur = gp_current_task
    /\ Machine.ub = ub /\ Machine.mbx = mbx /\ Machine.hdr = message_header
    /\ DOMAIN Machine = {"tcb", "queue", "cur", "ub", "mbx", "hdr"}
    /\ Machine = [f \in DOMAIN Machine |-> Machine[f]]
  BY DEF Machine

LEMMA MachineTasks ==
    ASSUME TypeOK
    PROVE  /\ Memory(Machine) /\ Memory(Kernel)
           /\ SameTasks(Kernel, Machine) /\ SameTasks(Machine, Kernel)
  <1>1. Memory(Kernel)
    BY KernelMemory
  <1>2. SameTasks(Kernel, Machine) /\ SameTasks(Machine, Kernel)
    BY MachineFields, KernelFields DEF SameTasks
  <1>3. Memory(Machine)
    BY MachineFields DEF TypeOK, Memory
  <1> QED
    BY <1>1, <1>2, <1>3

LEMMA MachineStep ==
    ASSUME NEW l, Mail(l), DOMAIN l = DOMAIN Machine, MachineBecomes(l)
    PROVE  /\ Machine' = l /\ booted' = booted /\ exited' = exited
           /\ g_num_active_tasks' = g_num_active_tasks
  <1>1. /\ tcb' = l.tcb /\ queue' = l.queue /\ gp_current_task' = l.cur /\ ub' = l.ub
        /\ mbx' = l.mbx /\ message_header' = l.hdr
    BY DEF MachineBecomes, Becomes
  <1>2. l = [f \in {"tcb", "queue", "cur", "ub", "mbx", "hdr"} |-> l[f]]
    BY MachineFields DEF Mail, Memory
  <1>3. Machine' = [tcb |-> l.tcb, queue |-> l.queue, cur |-> l.cur, ub |-> l.ub,
                    mbx |-> l.mbx, hdr |-> l.hdr]
    BY <1>1 DEF Machine
  <1>4. Machine' = l
    BY <1>2, <1>3
  <1> QED
    BY <1>4 DEF MachineBecomes

\* The memory a handler starts from.
LEMMA HandlerStarts ==
    ASSUME MsgInv, Up
    PROVE  /\ Scheduled(Machine, exited) /\ MailOK(Machine) /\ TypeOK
           /\ Machine.cur = gp_current_task /\ gp_current_task \in Tasks
           /\ Machine.tcb = tcb /\ Machine.mbx = mbx
  <1>1. TypeOK /\ Scheduled(Kernel, exited) /\ MailOK(Machine)
    BY DEF MsgInv, Orderly, Up
  <1>2. Scheduled(Machine, exited)
    BY <1>1, MachineTasks, SameTasksPlaced
  <1> QED
    BY <1>1, <1>2, MachineFields DEF TypeOK

\* The memory it leaves is in order when what it has computed is.
LEMMA HandlerKept ==
    ASSUME MsgInv, Up, NEW l, Scheduled(l, exited), MailOK(l), DOMAIN l = DOMAIN Machine,
           MachineBecomes(l), resume' \in [Tasks -> BufLengths \cup {NULL}],
           resume'[TID_NULL] = NULL,
           \A u \in Tasks : resume'[u] # NULL =>
              \/ resume[u] # NULL /\ Fed(Machine, l, u)
              \/ l.tcb[u].state = "BLK_RECV"
    PROVE  Machine' = l /\ MsgInv'
  <1>1. Mail(l) /\ Memory(l)
    BY DEF MailOK, MailBut, Mail
  <1>2. /\ Machine' = l /\ booted' = booted /\ exited' = exited
        /\ g_num_active_tasks' = g_num_active_tasks
    BY <1>1, MachineStep
  <1>3. /\ tcb' = l.tcb /\ queue' = l.queue /\ gp_current_task' = l.cur /\ ub' = l.ub
        /\ mbx' = l.mbx
    BY DEF MachineBecomes, Becomes
  <1>4. TypeOK'
    BY <1>1, <1>2, <1>3 DEF MsgInv, Orderly, TypeOK, Memory
  <1>5. PICK j : j = Kernel'
    OBVIOUS
  <1>6. Scheduled(j, exited')
    <2>1. j = [tcb |-> l.tcb, queue |-> l.queue, cur |-> l.cur, ub |-> l.ub]
      BY <1>3, <1>5 DEF Kernel
    <2>2. SameTasks(j, l)
      BY <2>1 DEF SameTasks
    <2>3. j = [f \in DOMAIN j |-> j[f]] /\ {"tcb", "queue", "cur", "ub"} \subseteq DOMAIN j
      BY <2>1
    <2>4. Memory(j)
      BY <1>1, <2>2, <2>3 DEF Memory, SameTasks
    <2> QED
      BY <1>1, <1>2, <2>2, <2>4, SameTasksPlaced
  <1>7. Orderly'
    BY <1>2, <1>4, <1>5, <1>6 DEF Orderly, Up, Booting
  <1>8. ASSUME NEW u \in Tasks, resume'[u] # NULL, tcb'[u].state # "BLK_RECV"
        PROVE  mbx'[u].msgs # <<>>
    <2>1. resume[u] # NULL /\ Fed(Machine, l, u) /\ l.tcb[u].state # "BLK_RECV"
      BY <1>3, <1>8
    <2>2. tcb[u].state # "BLK_RECV" => mbx[u].msgs # <<>>
      BY <2>1 DEF MsgInv, WokenReceiverHasMessage
    <2> QED
      BY <1>3, <2>1, <2>2, MachineFields DEF Fed
  <1>9. WokenReceiverHasMessage'
    BY <1>8 DEF WokenReceiverHasMessage
  <1> QED
    BY <1>2, <1>7, <1>9 DEF MsgInv

LEMMA SentConveyed ==
    ASSUME NEW k, NEW l, NEW ex, NEW m \in Mailboxes, NEW msg \in Message, Sent(l, k, ex, m, msg)
    PROVE  Conveyed(k, l)
  BY DEF Sent, Conveyed

LEMMA FetchedConveyed ==
    ASSUME NEW k, NEW l, NEW ex, NEW m \in Mailboxes, Fetched(l, k, ex, m)
    PROVE  Conveyed(k, l)
  BY DEF Fetched, Conveyed

\* What every step does to the invariant and to the lines.
MsgKept == MsgInv' /\ Conveyed(Machine, Machine')

\* A handler that leaves resume alone, or clears the entry of the task u it runs for.
LEMMA ResumeKept ==
    ASSUME MsgInv, Up, NEW l, Scheduled(l, exited), MailOK(l), DOMAIN l = DOMAIN Machine,
           MachineBecomes(l), Conveyed(Machine, l), NEW v,
           resume' = resume \/ resume' = [resume EXCEPT ![v] = NULL],
           \A u \in Tasks : resume'[u] # NULL => Fed(Machine, l, u)
    PROVE  Machine' = l /\ MsgKept
  <1>1. resume \in [Tasks -> BufLengths \cup {NULL}] /\ resume[TID_NULL] = NULL
    BY DEF MsgInv
  <1>2. resume' \in [Tasks -> BufLengths \cup {NULL}] /\ resume'[TID_NULL] = NULL
    BY <1>1, NullTask
  <1>3. \A u \in Tasks : resume'[u] # NULL => resume[u] # NULL /\ Fed(Machine, l, u)
    BY <1>1
  <1>4. Machine' = l /\ MsgInv'
    BY <1>2, <1>3, HandlerKept
  <1> QED
    BY <1>4 DEF MsgKept

\* k_send_msg
LEMMA SendMsgKept ==
    ASSUME MsgInv, NEW m \in Mailboxes, NEW msg \in Message, SendMsg(m, msg)
    PROVE  MsgKept /\ NoneNew(Machine, Machine')
  <1>1. PICK k : k = Machine
    OBVIOUS
  <1>2. Up /\ UserTask /\ MaySend(m, msg) /\ resume' = resume
    BY DEF SendMsg, Calling, Running
  <1>3. /\ Scheduled(k, exited) /\ MailOK(k) /\ k.cur = gp_current_task /\ k.mbx = mbx
    BY <1>1, <1>2, HandlerStarts
  <1>4. Valid(k.mbx[m], msg) /\ k.cur # TID_NULL
    BY <1>2, <1>3 DEF Valid, MaySend, UserTask
  <1>5. m # TID_UART => m \in Tasks
    BY DEF Mailboxes
  <1>6. PICK l : l = IF Room(k, m, msg) THEN Deliver(k, m, msg, TRUE) ELSE BlockSender(k, m, msg)
    OBVIOUS
  <1>7. MachineBecomes(l)
    BY <1>1, <1>6 DEF SendMsg
  <1>8. Sent(l, k, exited, m, msg) /\ NoneNew(k, l)
    <2>1. CASE Room(k, m, msg)
      <3>1. l = Deliver(k, m, msg, TRUE) /\ TRUE \in BOOLEAN
        BY <1>6, <2>1
      <3> QED
        BY <1>3, <1>4, <1>5, <2>1, <3>1, DeliverSends
    <2>2. CASE ~Room(k, m, msg)
      <3>1. l = BlockSender(k, m, msg)
        BY <1>6, <2>2
      <3> QED
        BY <1>3, <1>4, <2>2, <3>1, BlockSenderSends
    <2> QED
      BY <2>1, <2>2
  <1>9. /\ Scheduled(l, exited) /\ MailOK(l) /\ DOMAIN l = DOMAIN k
        /\ \A u \in Tasks : Fed(k, l, u)
    BY <1>8 DEF Sent
  <1>10. Conveyed(k, l)
    BY <1>8, SentConveyed
  <1>11. Machine' = l /\ MsgKept
    BY <1>1, <1>2, <1>7, <1>9, <1>10, ResumeKept
  <1> QED
    BY <1>1, <1>8, <1>11

\* k_send_msg_nb, of a task or of the UART interrupt handler
LEMMA SendMsgNbKept ==
    ASSUME MsgInv, Up, NEW m \in Mailboxes, NEW msg \in Message, SendMsgNb(m, msg),
           msg.sender_tid # TID_UART => UserTask
    PROVE  MsgKept /\ (msg.sender_tid # TID_UART => NoneNew(Machine, Machine'))
  <1>1. PICK k, pre : k = Machine /\ pre = (msg.sender_tid # TID_UART)
    OBVIOUS
  <1>2. MaySend(m, msg) /\ Room(k, m, msg) /\ resume' = resume /\ pre \in BOOLEAN
    BY <1>1 DEF SendMsgNb
  <1>3. /\ Scheduled(k, exited) /\ MailOK(k) /\ k.cur = gp_current_task /\ k.mbx = mbx
    BY <1>1, HandlerStarts
  <1>4. Valid(k.mbx[m], msg) /\ (pre => k.cur # TID_NULL)
    BY <1>1, <1>2, <1>3 DEF Valid, MaySend, UserTask
  <1>5. m # TID_UART => m \in Tasks
    BY DEF Mailboxes
  <1>6. PICK l : l = Deliver(k, m, msg, pre)
    OBVIOUS
  <1>7. MachineBecomes(l)
    BY <1>1, <1>6 DEF SendMsgNb
  <1>8. Sent(l, k, exited, m, msg) /\ (pre => NoneNew(k, l))
    BY <1>2, <1>3, <1>4, <1>5, <1>6, DeliverSends
  <1>9. /\ Scheduled(l, exited) /\ MailOK(l) /\ DOMAIN l = DOMAIN k
        /\ \A u \in Tasks : Fed(k, l, u)
    BY <1>8 DEF Sent
  <1>10. Conveyed(k, l)
    BY <1>8, SentConveyed
  <1>11. Machine' = l /\ MsgKept
    BY <1>1, <1>2, <1>7, <1>9, <1>10, ResumeKept
  <1> QED
    BY <1>1, <1>8, <1>11

\* k_recv_msg and k_recv_msg_nb with a message there, and k_recv_msg switched in again
LEMMA ReceiveKept ==
    ASSUME MsgInv, Up, UserTask, NEW len, MachineBecomes(Receive(Machine, len)),
           \/ resume' = resume /\ resume[gp_current_task] = NULL
           \/ resume' = [resume EXCEPT ![gp_current_task] = NULL]
    PROVE  MsgKept /\ NoneNew(Machine, Machine')
  <1>1. PICK k, c : k = Machine /\ c = gp_current_task
    OBVIOUS
  <1>2. /\ Scheduled(k, exited) /\ MailOK(k) /\ k.cur = c /\ c \in Tasks /\ c \in Mailboxes
    BY <1>1, HandlerStarts, TaskMailboxes
  <1>3. k.cur # TID_NULL
    BY <1>1, <1>2 DEF UserTask
  <1>4. PICK l : l = Receive(k, len)
    OBVIOUS
  <1>5. Fetched(l, k, exited, c) /\ Quiet(l)
    BY <1>2, <1>3, <1>4, ReceiveFetches
  <1>6. /\ Scheduled(l, exited) /\ MailOK(l) /\ DOMAIN l = DOMAIN k
        /\ \A u \in Tasks : u # c => Fed(k, l, u)
    BY <1>5 DEF Fetched
  <1>7. Conveyed(k, l)
    BY <1>2, <1>5, FetchedConveyed
  <1>8. resume'[c] = NULL
    BY <1>1, <1>2 DEF MsgInv
  <1>9. \A u \in Tasks : resume'[u] # NULL => Fed(k, l, u)
    BY <1>6, <1>8
  <1>10. MachineBecomes(l)
    BY <1>1, <1>4
  <1>11. Machine' = l /\ MsgKept
    BY <1>1, <1>6, <1>7, <1>9, <1>10, ResumeKept
  <1> QED
    BY <1>1, <1>5, <1>11, QuietNoneNew

LEMMA RecvMsgKept ==
    ASSUME MsgInv, NEW len \in BufLengths, RecvMsg(len)
    PROVE  MsgKept /\ NoneNew(Machine, Machine')
  <1>1. PICK k, c : k = Machine /\ c = gp_current_task
    OBVIOUS
  <1>2. Up /\ UserTask /\ resume[c] = NULL
    BY <1>1 DEF RecvMsg, Calling, Running
  <1>3. /\ Scheduled(k, exited) /\ MailOK(k) /\ k.cur = c /\ c \in Tasks /\ k.mbx = mbx
        /\ k.tcb = tcb /\ k.cur # TID_NULL
    BY <1>1, <1>2, HandlerStarts DEF UserTask
  <1>4. PopResult(k.mbx[c], len) # -1 /\ k.mbx[c] = Mine /\ Cur.real_time = FALSE
    BY <1>1, <1>3 DEF RecvMsg, Mine, Cur, Scheduled, Placed, PlacedBut
  <1>5. CASE PopResult(k.mbx[c], len) = 1
    <2>1. MachineBecomes(Receive(Machine, len)) /\ resume' = resume
      BY <1>4, <1>5 DEF RecvMsg
    <2> QED
      BY <1>1, <1>2, <2>1, ReceiveKept
  <1>6. CASE PopResult(k.mbx[c], len) # 1
    <2>1. PICK l : l = RunNew([k EXCEPT !.tcb[k.cur].state = "BLK_RECV"])
      OBVIOUS
    <2>2. MachineBecomes(l) /\ resume' = [resume EXCEPT ![c] = len]
      BY <1>1, <1>3, <1>4, <1>6, <2>1 DEF RecvMsg
    <2>3. k.mbx[k.cur].current_size = 0
      BY <1>3, <1>4, <1>6 DEF PopResult
    <2>4. Awaiting(l, k, exited)
      BY <1>3, <2>1, <2>3, ReceiveBlocks
    <2>5. /\ Scheduled(l, exited) /\ MailOK(l) /\ NoneNew(k, l) /\ DOMAIN l = DOMAIN k
          /\ l.tcb[c].state = "BLK_RECV" /\ \A u \in Tasks : Fed(k, l, u)
      BY <1>3, <2>4 DEF Awaiting
    <2>6. Conveyed(k, l)
      BY <1>3, <2>4, TaskMailboxes DEF Awaiting, Conveyed
    <2>7. /\ resume' \in [Tasks -> BufLengths \cup {NULL}] /\ resume'[TID_NULL] = NULL
          /\ \A u \in Tasks : u # c => resume'[u] = resume[u]
      BY <1>3, <2>2 DEF MsgInv
    <2>8. \A u \in Tasks : resume'[u] # NULL =>
             \/ resume[u] # NULL /\ Fed(k, l, u)
             \/ l.tcb[u].state = "BLK_RECV"
      BY <2>5, <2>7
    <2>9. Machine' = l /\ MsgInv'
      BY <1>1, <1>2, <2>2, <2>5, <2>7, <2>8, HandlerKept
    <2> QED
      BY <1>1, <2>5, <2>6, <2>9 DEF MsgKept
  <1> QED
    BY <1>5, <1>6

LEMMA RecvMsgNbKept ==
    ASSUME MsgInv, NEW len \in BufLengths, RecvMsgNb(len)
    PROVE  MsgKept /\ NoneNew(Machine, Machine')
  <1>1. /\ Up /\ UserTask /\ resume[gp_current_task] = NULL /\ resume' = resume
        /\ MachineBecomes(Receive(Machine, len))
    BY DEF RecvMsgNb, Calling, Running
  <1> QED
    BY <1>1, ReceiveKept

LEMMA RecvResumeKept ==
    ASSUME MsgInv, RecvResume
    PROVE  MsgKept /\ NoneNew(Machine, Machine')
  <1>1. PICK len : len = resume[gp_current_task]
    OBVIOUS
  <1>2. /\ Up /\ resume' = [resume EXCEPT ![gp_current_task] = NULL]
        /\ MachineBecomes(Receive(Machine, len)) /\ resume[gp_current_task] # NULL
    BY <1>1 DEF RecvResume
  <1>3. UserTask
    BY <1>2 DEF MsgInv, UserTask
  <1> QED
    BY <1>2, <1>3, ReceiveKept

\* k_recv_msg_nb in the UART interrupt handler
LEMMA UartTransmitKept ==
    ASSUME MsgInv, UartTransmit
    PROVE  MsgKept
  <1>1. PICK k : k = Machine
    OBVIOUS
  <1>2. Up /\ resume' = resume
    BY DEF UartTransmit, Running
  <1>3. Scheduled(k, exited) /\ MailOK(k)
    BY <1>1, <1>2, HandlerStarts
  <1>4. TID_UART \in Mailboxes /\ TID_UART \notin Tasks
    BY DEF Mailboxes, TID_UART, Tasks
  <1>5. PICK l : l = Drain(PopBuffer(k, TID_UART, UART_MBX_SIZE), TID_UART)
    OBVIOUS
  <1>6. MachineBecomes(l)
    BY <1>1, <1>5 DEF UartTransmit
  <1>7. Fetched(l, k, exited, TID_UART)
    BY <1>3, <1>4, <1>5, DrainFetches
  <1>8. /\ Scheduled(l, exited) /\ MailOK(l) /\ DOMAIN l = DOMAIN k
        /\ \A u \in Tasks : Fed(k, l, u)
    BY <1>4, <1>7 DEF Fetched
  <1>9. Conveyed(k, l)
    BY <1>4, <1>7, FetchedConveyed
  <1> QED
    BY <1>1, <1>2, <1>6, <1>8, <1>9, ResumeKept

\* k_mbx_create: nobody waits at a mailbox that has not been created.
LEMMA MbxCreateKept ==
    ASSUME MsgInv, NEW size \in Capacities, MbxCreate(size)
    PROVE  MsgKept /\ NoneNew(Machine, Machine')
  <1>1. PICK k, c : k = Machine /\ c = gp_current_task
    OBVIOUS
  <1>2. Up /\ UserTask /\ resume' = resume /\ ~mbx[c].active
    BY <1>1 DEF MbxCreate, Calling, Running, Mine
  <1>3. /\ Scheduled(k, exited) /\ MailOK(k) /\ k.cur = c /\ c \in Tasks /\ c \in Mailboxes
        /\ k.mbx = mbx /\ k.tcb = tcb /\ k.queue = queue /\ k.ub = ub /\ k.hdr = message_header
    BY <1>1, <1>2, HandlerStarts, TaskMailboxes, MachineFields
  <1>4. /\ Mail(k) /\ Memory(k) /\ MailBut(k, {}) /\ Lists(k)
    BY <1>3 DEF MailOK, MailBut, Mail, Scheduled, Placed, PlacedBut
  <1>5. k.mbx[c].msgs = <<>> /\ Len(Line(k, c)) = 0
    <2>1. ~k.mbx[c].active
      BY <1>2, <1>3
    <2>2. k.mbx[c].msgs = <<>>
      BY <1>3, <1>4, <2>1 DEF MailBut, Accounts
    <2>3. Len(Line(k, c)) \in Nat
      BY <1>3, <1>4, CallersFacts
    <2>4. \A i \in 1 .. Len(Line(k, c)) : k.mbx[c].active
      BY <1>3, <1>4 DEF MailBut, Valid
    <2> QED
      BY <2>1, <2>2, <2>3, <2>4
  <1>6. queue' = queue
    <2>1. PICK Q : Q = k.queue[WaitQ(c)]
      OBVIOUS
    <2>2. Linked(k, WaitQ(c)) /\ WaitQ(c) \in Queues
      BY <1>3, <1>4, WaitQueueIds DEF Lists
    <2>3. Q.HEAD = NULL /\ Q.TAIL = NULL /\ Q.current_size = 0
      BY <1>5, <2>1, <2>2 DEF Linked, Along, Ends, Line
    <2>4. Q \in QUEUE
      BY <1>4, <2>1, <2>2 DEF Memory
    <2>5. Q = EmptyQUEUE
      BY <2>3, <2>4 DEF QUEUE, EmptyQUEUE
    <2>6. queue' = [queue EXCEPT ![WaitQ(c)] = Q]
      BY <1>1, <2>5 DEF MbxCreate
    <2> QED
      BY <1>3, <1>4, <2>1, <2>2, <2>6 DEF Memory
  <1>7. PICK W : W = NewMailbox(size)
    OBVIOUS
  <1>8. /\ W \in Mailbox /\ W.msgs = <<>> /\ W.current_size = 0 /\ W.capacity \in Nat
        /\ W.active = TRUE
    <2>1. size \in Nat /\ <<>> \in Seq(Message)
      BY MsgAssumption
    <2> QED
      BY <1>7, <2>1 DEF NewMailbox, Mailbox
  <1>9. PICK M : M = [k.mbx EXCEPT ![c] = W]
    OBVIOUS
  <1>10. M \in [Mailboxes -> Mailbox] /\ M[c] = W /\ \A n \in Mailboxes : n # c => M[n] = k.mbx[n]
    BY <1>3, <1>4, <1>8, <1>9 DEF Mail
  <1>11. PICK l : l = [k EXCEPT !.mbx = M]
    OBVIOUS
  <1>12. l.mbx = M /\ DOMAIN l = DOMAIN k /\ SameTasks(l, k) /\ l.hdr = k.hdr
    BY <1>4, <1>11 DEF Mail, Memory, SameTasks
  <1>13. Memory(l)
    BY <1>4, <1>11 DEF Mail, Memory
  <1>14. Mail(l)
    BY <1>4, <1>10, <1>12, <1>13 DEF Mail
  <1>15. MachineBecomes(l)
    <2>1. /\ tcb' = tcb /\ gp_current_task' = gp_current_task /\ ub' = ub
          /\ message_header' = message_header /\ mbx' = M
          /\ UNCHANGED <<g_num_active_tasks, booted, exited>>
      BY <1>1, <1>3, <1>7, <1>9 DEF MbxCreate
    <2> QED
      BY <1>1, <1>3, <1>6, <1>12, <2>1 DEF MachineBecomes, Becomes, SameTasks
  <1>16. (\A m \in Mailboxes : Line(l, m) = Line(k, m)) /\ Scheduled(l, exited)
    BY <1>3, <1>4, <1>12, <1>13, SameTasksPlaced DEF Line
  <1>17. MailOK(l)
    <2>1. \A m \in Mailboxes : Accounts(l.mbx[m])
      <3>1. Accounts(W)
        BY <1>8, SumEmpty DEF Accounts
      <3> QED
        BY <1>4, <1>10, <1>12, <3>1 DEF MailBut
    <2>2. ASSUME NEW m \in Mailboxes, NEW i \in 1 .. Len(Line(l, m))
          PROVE  Valid(l.mbx[m], l.hdr[Line(l, m)[i]])
      <3>1. m # c
        BY <1>3, <1>5, <1>16
      <3> QED
        BY <1>4, <1>10, <1>12, <1>16, <3>1 DEF MailBut
    <2>3. ASSUME NEW m \in Mailboxes, Len(Line(l, m)) # 0
          PROVE  CanFit(l.mbx[m], l.hdr[Line(l, m)[1]].length) # 1
      <3>1. m # c
        BY <1>3, <1>5, <1>16, <2>3
      <3> QED
        BY <1>4, <1>10, <1>12, <1>16, <2>3, <3>1 DEF MailBut
    <2>4. ASSUME NEW u \in Tasks, l.tcb[u].state = "BLK_RECV"
          PROVE  l.mbx[u].msgs = <<>> /\ Len(Line(l, u)) = 0
      <3>1. k.mbx[u].msgs = <<>> /\ Len(Line(k, u)) = 0 /\ u \in Mailboxes
        BY <1>4, <1>12, <2>4, TaskMailboxes DEF MailBut, SameTasks
      <3> QED
        BY <1>8, <1>10, <1>12, <1>16, <3>1
    <2> QED
      BY <1>14, <2>1, <2>2, <2>3, <2>4 DEF MailOK, MailBut
  <1>18. \A u \in Tasks : Fed(k, l, u)
    BY <1>5, <1>10, <1>12, TaskMailboxes DEF Fed, SameTasks
  <1>19. Conveyed(k, l)
    <2>1. \A m \in Mailboxes : l.mbx[m].msgs = k.mbx[m].msgs
      BY <1>5, <1>8, <1>10, <1>12
    <2>2. \A m \in Mailboxes : Chan(l, m) = Chan(k, m)
      BY <1>12, <1>16, <2>1 DEF Chan
    <2> QED
      BY <1>3, <2>2 DEF Conveyed
  <1>20. Machine' = l /\ MsgKept
    BY <1>1, <1>2, <1>12, <1>15, <1>16, <1>17, <1>18, <1>19, ResumeKept
  <1>21. NoneNew(k, l)
    BY <1>12 DEF NoneNew, Outranking, SameTasks
  <1> QED
    BY <1>1, <1>20, <1>21

\* The calls of k_task.c, and k_tsk_init: nobody blocks on a message or wakes up.
LEMMA TaskCallsKept ==
    ASSUME CarefulInstance, MsgInv, TaskCalls
    PROVE  /\ MsgKept
           /\ Booting /\ booted' = Finished => Quiet(Machine')
           /\ ~Booting => NoneNew(Machine, Machine')
  <1>1. Kept /\ UNCHANGED msgVars /\ Orderly
    <2>1. CarefulNext
      BY DEF TaskCalls, CarefulNext
    <2> QED
      BY <2>1, StepKept DEF MsgInv, TaskCalls
  <1>2. PICK k, l, a, b : k = Machine /\ l = Machine' /\ a = Kernel /\ b = Kernel'
    OBVIOUS
  <1>3. /\ Memory(k) /\ Memory(a) /\ SameTasks(a, k) /\ SameTasks(k, a) /\ MailBut(k, {})
    BY <1>1, <1>2, MachineTasks DEF Orderly, MsgInv, MailOK
  <1>4. /\ l = [tcb |-> tcb', queue |-> queue', cur |-> gp_current_task', ub |-> ub',
                mbx |-> mbx, hdr |-> message_header]
        /\ b = [tcb |-> tcb', queue |-> queue', cur |-> gp_current_task', ub |-> ub']
    BY <1>1, <1>2 DEF Machine, Kernel, msgVars
  <1>5. SameTasks(b, l) /\ SameTasks(l, b)
    BY <1>4 DEF SameTasks
  <1>6. Memory(l) /\ Memory(b)
    <2>1. TypeOK'
      BY <1>1 DEF Kept, Orderly
    <2>2. /\ l.tcb \in [Tasks -> TCB] /\ l.queue \in [Queues -> QUEUE] /\ l.cur \in Tasks
          /\ l.ub \in BOOLEAN
      BY <1>4, <2>1 DEF TypeOK
    <2> QED
      BY <1>4, <2>2 DEF Memory
  <1>7. Undisturbed(a, b) /\ InTurn(a, b)
    BY <1>1, <1>2 DEF Kept
  <1>8. Undisturbed(k, l)
    <2>1. DOMAIN l = DOMAIN k
      BY <1>2, <1>4, MachineFields
    <2>2. \A f \in DOMAIN k : f \notin {"tcb", "queue", "cur", "ub"} => l[f] = k[f]
      BY <1>2, <1>4, MachineFields
    <2>3. (\A q : Nodes(l, q) = Nodes(b, q)) /\ \A q : Nodes(a, q) = Nodes(k, q)
      BY <1>3, <1>5, <1>6, SameTasksPlaced
    <2>4. \A m \in Mailboxes : Nodes(l, WaitQ(m)) = Nodes(k, WaitQ(m))
      BY <1>7, <2>3 DEF Undisturbed, Aside
    <2>5. l.tcb = b.tcb /\ k.tcb = a.tcb
      BY <1>3, <1>5 DEF SameTasks
    <2> QED
      BY <1>7, <2>1, <2>2, <2>4, <2>5 DEF Undisturbed, Aside
  <1>9. /\ MailBut(l, {}) /\ \A m \in Mailboxes : Chan(l, m) = Chan(k, m)
        /\ \A u \in Tasks : Fed(k, l, u)
    BY <1>3, <1>6, <1>8, UndisturbedMail
  <1>10. Conveyed(k, l)
    BY <1>9, NullTask, TaskMailboxes DEF Conveyed
  <1>11. MsgInv'
    <2>1. Orderly' /\ MailOK(Machine')
      BY <1>1, <1>2, <1>9 DEF Kept, MailOK
    <2>2. resume' = resume /\ mbx' = mbx
      BY <1>1 DEF msgVars
    <2>3. ASSUME NEW u \in Tasks, resume'[u] # NULL, tcb'[u].state # "BLK_RECV"
          PROVE  mbx'[u].msgs # <<>>
      <3>1. l.tcb[u].state # "BLK_RECV" /\ Fed(k, l, u) /\ l.mbx = mbx
        BY <1>4, <1>9, <2>3
      <3>2. k.tcb = tcb /\ k.mbx = mbx
        BY <1>2, MachineFields
      <3> QED
        BY <2>2, <2>3, <3>1, <3>2 DEF Fed, MsgInv, WokenReceiverHasMessage
    <2>4. WokenReceiverHasMessage'
      BY <2>3 DEF WokenReceiverHasMessage
    <2>5. resume' \in [Tasks -> BufLengths \cup {NULL}] /\ resume'[TID_NULL] = NULL
      BY <2>2 DEF MsgInv
    <2> QED
      BY <2>1, <2>4, <2>5 DEF MsgInv
  <1>12. Booting /\ booted' = Finished => Quiet(l)
    BY <1>1, <1>2, <1>5 DEF Kept, Quiet, Outranking, SameTasks
  <1>13. ~Booting => NoneNew(k, l)
    BY <1>1, <1>2, <1>3, <1>5 DEF Kept, NoneNew, Outranking, SameTasks
  <1> QED
    BY <1>2, <1>10, <1>11, <1>12, <1>13 DEF MsgKept

\* The start: no mailbox has been created but the UART's, and all are empty.
LEMMA InitMsgInv ==
    ASSUME MsgInit
    PROVE  MsgInv /\ Booting /\ \A m \in Mailboxes : Chan(Machine, m) = <<>>
  <1>1. Orderly /\ Booting /\ Init
    BY InitOrderly DEF MsgInit
  <1>2. PICK k : k = Machine
    OBVIOUS
  <1>3. /\ Memory(k) /\ Memory(Kernel) /\ SameTasks(Kernel, k) /\ SameTasks(k, Kernel)
        /\ k.tcb = tcb /\ k.queue = queue /\ k.mbx = mbx /\ k.hdr = message_header
        /\ {"mbx", "hdr"} \subseteq DOMAIN k
    BY <1>1, <1>2, MachineTasks, MachineFields DEF Orderly
  <1>4. Lists(k)
    <2>1. \E R : Placed(Kernel, R)
      BY <1>1, OrderlyPlaced
    <2> QED
      BY <1>3, <2>1, SameTasksPlaced DEF Placed, PlacedBut
  <1>5. \A m \in Mailboxes : Len(Line(k, m)) = 0
    <2>1. \A m \in Mailboxes : k.queue[WaitQ(m)] = EmptyQUEUE
      BY <1>1, <1>3, WaitQueueIds DEF Init
    <2> QED
      BY <1>3, <1>4, <2>1, EmptyLine DEF EmptyQUEUE
  <1>6. \A u \in Tasks : k.tcb[u].state # "BLK_RECV"
    <2>1. ZeroTCB.state = "DORMANT" /\ Created(ZeroTCB, NULL_INDEX, FALSE).state = "READY"
      BY DEF ZeroTCB, Created
    <2> QED
      BY <1>1, <1>3, <2>1 DEF Init
  <1>7. ASSUME NEW m \in Mailboxes
        PROVE  mbx[m] \in Mailbox /\ Accounts(mbx[m]) /\ mbx[m].msgs = <<>>
    <2>1. ASSUME NEW n \in Nat, NEW W, W = NewMailbox(n)
          PROVE  W \in Mailbox /\ W.msgs = <<>> /\ W.current_size = 0
      <3>1. <<>> \in Seq(Message)
        OBVIOUS
      <3> QED
        BY <2>1, <3>1 DEF NewMailbox, Mailbox
    <2>2. PICK W : W = NewMailbox(0)
      OBVIOUS
    <2>3. NoMailbox = [W EXCEPT !.active = FALSE]
      BY <2>2 DEF NoMailbox
    <2>4. NoMailbox \in Mailbox /\ NoMailbox.msgs = <<>> /\ NoMailbox.current_size = 0
      <3>1. W \in Mailbox /\ W.msgs = <<>> /\ W.current_size = 0
        BY <2>1, <2>2
      <3> QED
        BY <2>3, <3>1 DEF Mailbox
    <2>5. mbx[m] = IF m = TID_UART THEN NewMailbox(UART_MBX_SIZE) ELSE NoMailbox
      BY <1>7 DEF MsgInit
    <2>6. mbx[m] \in Mailbox /\ mbx[m].msgs = <<>> /\ mbx[m].current_size = 0
      BY <2>1, <2>4, <2>5, MsgAssumption
    <2>7. Len(<<>>) = 0 /\ mbx[m].capacity \in Nat
      BY <2>6 DEF Mailbox
    <2> QED
      BY <2>6, <2>7, SumEmpty DEF Accounts
  <1>8. Mail(k)
    <2>1. mbx \in [Mailboxes -> Mailbox]
      <3>1. mbx = [m \in Mailboxes |-> mbx[m]]
        BY DEF MsgInit
      <3> QED
        BY <1>7, <3>1
    <2>2. message_header \in [Tasks -> Message \cup {NULL}]
      BY DEF MsgInit
    <2> QED
      BY <1>3, <2>1, <2>2 DEF Mail
  <1>9. MailOK(k)
    BY <1>3, <1>5, <1>6, <1>7, <1>8 DEF MailOK, MailBut
  <1>10. \A m \in Mailboxes : Chan(k, m) = <<>>
    <2>1. ASSUME NEW m \in Mailboxes
          PROVE  Chan(k, m) = <<>>
      <3>1. MailBut(k, {}) /\ Callers(k, m) \in Seq(Message) /\ Len(Callers(k, m)) = 0
            /\ Chan(k, m) = k.mbx[m].msgs \o Callers(k, m)
        BY <1>4, <1>5, <1>9, CallersFacts DEF MailOK
      <3>2. Callers(k, m) = <<>> /\ k.mbx[m].msgs = <<>>
        BY <1>3, <1>7, <3>1
      <3> QED
        BY <3>1, <3>2
    <2> QED
      BY <2>1
  <1>11. resume = [t \in Tasks |-> NULL]
    BY DEF MsgInit
  <1>12. WokenReceiverHasMessage
    BY <1>11 DEF WokenReceiverHasMessage
  <1>13. resume \in [Tasks -> BufLengths \cup {NULL}] /\ resume[TID_NULL] = NULL
    BY <1>11, NullTask
  <1> QED
    BY <1>1, <1>2, <1>9, <1>10, <1>12, <1>13 DEF MsgInv

\* Every step keeps the invariant and moves at most one line by one message, and
\* nobody comes to outrank the current task but in an interrupt.
Upheld == /\ Booting /\ booted' = Finished => Quiet(Machine')
          /\ ~Booting => NoneNew(Machine, Machine')

LEMMA CallKept ==
    ASSUME CarefulInstance, MsgInv, MsgNext
    PROVE  MsgKept /\ Upheld
  <1>1. CASE TaskCalls
    BY <1>1, TaskCallsKept DEF Upheld
  <1>2. ASSUME Up, MsgKept, NoneNew(Machine, Machine') PROVE MsgKept /\ Upheld
    BY <1>2 DEF Upheld, Up
  <1>3. ASSUME NEW m \in Targets, NEW n \in Lengths, NEW msg,
               msg = [length |-> n, sender_tid |-> gp_current_task],
               SendMsg(m, msg) \/ (Calling /\ SendMsgNb(m, msg))
        PROVE  Up /\ MsgKept /\ NoneNew(Machine, Machine')
    <2>1. Up /\ UserTask
      BY <1>3 DEF SendMsg, Calling, Running
    <2>2. m \in Mailboxes /\ gp_current_task \in Tasks
      BY <2>1, HandlerStarts, MsgAssumption
    <2>3. msg \in Message /\ msg.sender_tid # TID_UART
      BY <1>3, <2>2, TaskMailboxes DEF Message, Tasks, TID_UART
    <2> QED
      BY <1>3, <2>1, <2>2, <2>3, SendMsgKept, SendMsgNbKept
  <1>4. ASSUME NEW len \in BufLengths, RecvMsg(len) \/ RecvMsgNb(len)
        PROVE  Up /\ MsgKept /\ NoneNew(Machine, Machine')
    <2>1. Up
      BY <1>4 DEF RecvMsg, RecvMsgNb, Calling, Running
    <2> QED
      BY <1>4, <2>1, RecvMsgKept, RecvMsgNbKept
  <1>5. ASSUME NEW size \in Capacities, MbxCreate(size)
        PROVE  Up /\ MsgKept /\ NoneNew(Machine, Machine')
    <2>1. Up
      BY <1>5 DEF MbxCreate, Calling, Running
    <2> QED
      BY <1>5, <2>1, MbxCreateKept
  <1>6. ASSUME RecvResume
        PROVE  Up /\ MsgKept /\ NoneNew(Machine, Machine')
    <2>1. Up
      BY <1>6 DEF RecvResume
    <2> QED
      BY <1>6, <2>1, RecvResumeKept
  <1>7. ASSUME MsgCalls PROVE MsgKept /\ Upheld
    BY <1>2, <1>3, <1>4, <1>5, <1>6, <1>7 DEF MsgCalls
  <1> QED
    BY <1>1, <1>7 DEF MsgNext

LEMMA UartKept ==
    ASSUME CarefulInstance, MsgInv, UartNext
    PROVE  MsgKept /\ (UartReceive \/ UartTransmit \/ Upheld)
  <1>1. CASE UartReceive
    <2>1. PICK msg : msg = [length |-> KeyLength, sender_tid |-> TID_UART]
      OBVIOUS
    <2>2. Up /\ SendMsgNb(TID_KCD, msg)
      BY <1>1, <2>1 DEF UartReceive, Running
    <2>3. msg \in Message /\ msg.sender_tid = TID_UART /\ TID_KCD \in Mailboxes
      BY <2>1 DEF Message, Mailboxes, TID_KCD, Tasks
    <2> QED
      BY <1>1, <2>2, <2>3, SendMsgNbKept
  <1>2. CASE UartTransmit
    BY <1>2, UartTransmitKept
  <1>3. CASE MsgNext
    BY <1>3, CallKept
  <1> QED
    BY <1>1, <1>2, <1>3 DEF UartNext, MsgNext

LEMMA MsgStutter ==
    ASSUME MsgInv, UNCHANGED vars
    PROVE  MsgInv' /\ Machine' = Machine
  <1>1. /\ tcb' = tcb /\ queue' = queue /\ gp_current_task' = gp_current_task /\ ub' = ub
        /\ g_num_active_tasks' = g_num_active_tasks /\ booted' = booted /\ exited' = exited
        /\ mbx' = mbx /\ message_header' = message_header /\ resume' = resume
    BY DEF vars, taskVars, kernelVars, msgVars
  <1>2. Kernel' = Kernel /\ Machine' = Machine
    BY <1>1 DEF Kernel, Machine
  <1>3. Orderly'
    BY <1>1, <1>2 DEF MsgInv, Orderly, TypeOK, Booting
  <1>4. WokenReceiverHasMessage'
    BY <1>1 DEF MsgInv, WokenReceiverHasMessage
  <1> QED
    BY <1>1, <1>2, <1>3, <1>4 DEF MsgInv

----------------------------------------------------------------------------
(***************************************************************************)
(* What the invariant says.                                                *)
(***************************************************************************)
LEMMA MailSays ==
    ASSUME MsgInv
    PROVE  /\ MailBut(Machine, {}) /\ Memory(Machine) /\ Lists(Machine)
           /\ Machine.mbx = mbx /\ Machine.hdr = message_header
           /\ Machine.queue = queue /\ Machine.tcb = tcb
  <1>1. TypeOK /\ \E R : Placed(Kernel, R)
    BY OrderlyPlaced DEF MsgInv, Orderly
  <1>2. Memory(Machine) /\ Lists(Machine)
    BY <1>1, MachineTasks, SameTasksPlaced DEF Placed, PlacedBut
  <1> QED
    BY <1>2, MachineFields DEF MsgInv, MailOK

LEMMA SayTypes == ASSUME MsgInv PROVE MsgTypeOK
  <1>1. Mail(Machine) /\ TypeOK
    BY DEF MsgInv, MailOK, MailBut, Orderly
  <1> QED
    BY <1>1, MachineFields DEF Mail, MsgInv, MsgTypeOK

LEMMA SayAccounts == ASSUME MsgInv PROVE BufferAccounts
  BY MailSays DEF MailBut, Accounts, BufferAccounts

LEMMA SayWakeup == ASSUME MsgInv PROVE NoLostWakeup
  <1>1. ASSUME NEW t \in Tasks, tcb[t].state = "BLK_RECV"
        PROVE  mbx[t].msgs = <<>> /\ queue[WaitQ(t)].HEAD = NULL
    <2>1. mbx[t].msgs = <<>> /\ Len(Line(Machine, t)) = 0
      BY <1>1, MailSays DEF MailBut
    <2> QED
      BY <2>1, MailSays, TaskMailboxes, EmptyLine
  <1> QED
    BY <1>1 DEF NoLostWakeup

LEMMA SayStuck == ASSUME MsgInv PROVE NoStuckSender
  <1>1. ASSUME NEW m \in Mailboxes, queue[WaitQ(m)].HEAD # NULL
        PROVE  CanFit(mbx[m], message_header[queue[WaitQ(m)].HEAD].length) # 1
    <2>1. Len(Line(Machine, m)) # 0 /\ queue[WaitQ(m)].HEAD = Line(Machine, m)[1]
      BY <1>1, MailSays, EmptyLine
    <2> QED
      BY <2>1, MailSays DEF MailBut
  <1> QED
    BY <1>1 DEF NoStuckSender

LEMMA SayWaiting == ASSUME Orderly PROVE WaitingListsExact
  <1>1. PICK k : k = Kernel
    OBVIOUS
  <1>2. PICK R : Placed(k, R) /\ \A u \in Tasks : k.tcb[u].state \in Blocked => u \notin R
    BY <1>1, OrderlyPlaced
  <1>3. /\ k.tcb = tcb /\ Memory(k) /\ Lists(k) /\ \A u \in Tasks : Settled(k, R, u)
    BY <1>1, <1>2, KernelFields DEF Placed, PlacedBut
  <1>4. ASSUME NEW m \in Mailboxes
        PROVE  WellLinked(k, WaitQ(m)) /\ TasksOf(k, WaitQ(m)) \subseteq Tasks
    <2>1. Linked(k, WaitQ(m))
      BY <1>3, WaitQueueIds DEF Lists
    <2> QED
      BY <1>3, <2>1, LinkedFacts
  <1>5. ASSUME NEW m \in Mailboxes, NEW u \in TasksOf(k, WaitQ(m))
        PROVE  u \in Tasks /\ k.tcb[u].state = "BLK_SEND"
    BY <1>2, WaitQueueIds, OnQueue
  <1>6. ASSUME NEW u \in Tasks, k.tcb[u].state = "BLK_SEND"
        PROVE  \E m \in Mailboxes : u \in TasksOf(k, WaitQ(m))
    BY <1>2, <1>3, <1>6 DEF Settled, Blocked
  <1>7. UNION {TasksOf(k, WaitQ(m)) : m \in Mailboxes} =
           {t \in Tasks : k.tcb[t].state = "BLK_SEND"}
    BY <1>5, <1>6
  <1>8. ASSUME NEW m \in Mailboxes, NEW n \in Mailboxes, m # n
        PROVE  TasksOf(k, WaitQ(m)) \cap TasksOf(k, WaitQ(n)) = {}
    BY <1>3, <1>8, WaitQueueIds DEF Lists
  <1> QED
    BY <1>1, <1>3, <1>4, <1>7, <1>8 DEF WaitingListsExact

\* The lines of the channel are those of the lemmas.
LEMMA NodesAlike ==
    ASSUME NEW k, NEW l, l.tcb = k.tcb, l.queue = k.queue, NEW q
    PROVE  Nodes(l, q) = Nodes(k, q)
  BY DEF Nodes

LinesAre == \A m \in Targets : lines[m] = Chan(Machine, m)

LEMMA LineIs == LinesAre
  <1>1. ASSUME NEW m \in Targets PROVE lines[m] = Chan(Machine, m)
    <2>1. Nodes(Kernel, WaitQ(m)) = Nodes(Machine, WaitQ(m))
      BY KernelFields, MachineFields, NodesAlike
    <2>2. Chan(Machine, m) = mbx[m].msgs \o Waiting(m)
      BY <2>1, MachineFields DEF Chan, Line, Waiting
    <2> QED
      BY <2>2 DEF lines
  <1> QED
    BY <1>1 DEF LinesAre

LEMMA LinesNext ==
    ASSUME Conveyed(Machine, Machine')
    PROVE  [Lines!Next]_lines
  <1>1. \A c \in Targets : lines[c] = Chan(Machine, c)
    BY LineIs DEF LinesAre
  <1>2. LinesAre'
    BY LineIs, PTL
  <1>3. \A c \in Targets : lines'[c] = Chan(Machine', c)
    BY <1>2 DEF LinesAre
  <1>4. PICK m \in Mailboxes :
          /\ \/ Chan(Machine', m) = Chan(Machine, m)
             \/ \E msg \in Message : Chan(Machine', m) = Append(Chan(Machine, m), msg)
             \/ Chan(Machine, m) # <<>> /\ Chan(Machine', m) = Tail(Chan(Machine, m))
          /\ \A n \in Mailboxes : n # m => Chan(Machine', n) = Chan(Machine, n)
    BY DEF Conveyed
  <1>5. Targets \subseteq Mailboxes
    BY MsgAssumption
  <1>6. ASSUME \A c \in Targets : lines'[c] = lines[c] PROVE lines' = lines
    BY <1>6 DEF lines
  <1>7. CASE m \notin Targets \/ Chan(Machine', m) = Chan(Machine, m)
    BY <1>1, <1>3, <1>4, <1>5, <1>6, <1>7
  <1>8. CASE m \in Targets /\ Chan(Machine', m) # Chan(Machine, m)
    <2>1. \A d \in Targets \ {m} : lines'[d] = lines[d]
      BY <1>1, <1>3, <1>4, <1>5
    <2>2. Lines!Send(m) \/ Lines!Receive(m)
      BY <1>1, <1>3, <1>4, <1>8 DEF Lines!Send, Lines!Receive
    <2> QED
      BY <1>8, <2>1, <2>2 DEF Lines!Next
  <1> QED
    BY <1>7, <1>8

----------------------------------------------------------------------------
(***************************************************************************)
(* The theorems.                                                           *)
(***************************************************************************)
\* The inductive invariant: between any two handlers, the calls of careful tasks and
\* both uses the UART interrupt makes of the mailboxes, the queues, the buffers, the
\* blocked tasks and the suspended calls of k_recv_msg agree with each other.
THEOREM MessageInvariant ==
    ASSUME CarefulInstance
    PROVE  UartSpec => []MsgInv
  <1>1. MsgInit => MsgInv
    BY InitMsgInv
  <1>2. ASSUME MsgInv, [UartNext]_vars PROVE MsgInv'
    BY <1>2, UartKept, MsgStutter DEF MsgKept
  <1> QED
    BY <1>1, <1>2, PTL DEF UartSpec

\* Every message, header, mailbox and resume entry has its type.
THEOREM MessageTypes ==
    ASSUME CarefulInstance
    PROVE  UartSpec => []MsgTypeOK
  <1>1. MsgInv => MsgTypeOK
    BY SayTypes
  <1> QED
    BY <1>1, MessageInvariant, PTL

\* No ring buffer holds more than its capacity, and current_size is the bytes of the
\* messages in it, for every capacity and every length of message.
THEOREM BuffersAccounted ==
    ASSUME CarefulInstance
    PROVE  UartSpec => []BufferAccounts
  <1>1. MsgInv => BufferAccounts
    BY SayAccounts
  <1> QED
    BY <1>1, MessageInvariant, PTL

\* k_send_msg and the interrupt lose no wake-up: a task blocked on receive has an
\* empty mailbox and no sender waiting.
THEOREM NoWakeupIsLost ==
    ASSUME CarefulInstance
    PROVE  UartSpec => []NoLostWakeup
  <1>1. MsgInv => NoLostWakeup
    BY SayWakeup
  <1> QED
    BY <1>1, MessageInvariant, PTL

\* The loop over the waiting list, run for at most MAX_TASKS turns, always leaves a
\* list whose first sender does not fit.
THEOREM NoSenderIsStuck ==
    ASSUME CarefulInstance
    PROVE  UartSpec => []NoStuckSender
  <1>1. MsgInv => NoStuckSender
    BY SayStuck
  <1> QED
    BY <1>1, MessageInvariant, PTL

\* The waiting lists are proper lists of exactly the tasks blocked on send, each on
\* one of them.
THEOREM WaitingListsAreExact ==
    ASSUME CarefulInstance
    PROVE  UartSpec => []WaitingListsExact
  <1>1. MsgInv => WaitingListsExact
    BY SayWaiting DEF MsgInv
  <1> QED
    BY <1>1, MessageInvariant, PTL

\* A task that was blocked in k_recv_msg and woken up has a message when it runs
\* again, although k_recv_msg does not look at what its second pop_buffer returns.
THEOREM WokenReceiversFindMessages ==
    ASSUME CarefulInstance
    PROVE  UartSpec => []WokenReceiverHasMessage
  <1>1. MsgInv => WokenReceiverHasMessage
    BY DEF MsgInv
  <1> QED
    BY <1>1, MessageInvariant, PTL

\* Sending, receiving and interrupts leave the ready queues exact, do nothing
\* undefined, and never bring back a task that has exited.
THEOREM MessagesKeepQueues ==
    ASSUME CarefulInstance
    PROVE  UartSpec => [](ReadyListsExact /\ NoUndefined /\ ExitedNeverRuns)
  <1>1. MsgInv => ReadyListsExact
    BY OrderlyReadyLists DEF MsgInv
  <1>2. MsgInv => NoUndefined /\ ExitedNeverRuns
    <2>1. Orderly => NoUndefined /\ ExitedNeverRuns
      BY KernelFields DEF Orderly, Starting, Scheduled, Placed, PlacedBut, NoUndefined,
                          ExitedNeverRuns
    <2> QED
      BY <2>1 DEF MsgInv
  <1> QED
    BY <1>1, <1>2, MessageInvariant, PTL

\* Only an interrupt makes a READY task outrank the current one: no system call does,
\* whatever state an interrupt has left.
THEOREM CallsNeverInvert ==
    ASSUME CarefulInstance
    PROVE  UartSpec => OnlyInterruptsInvert
  <1>1. ASSUME NEW k, NEW t \in Tasks, k.tcb = tcb, k.cur = gp_current_task
        PROVE  Outranks(t) <=> Up /\ Outranking(k, t)
    BY <1>1 DEF Outranks, Outranking, Cur
  <1>2. ASSUME MsgInv, UartNext, ~UartReceive, ~UartTransmit, NEW t \in Tasks, Outranks(t)'
        PROVE  Outranks(t)
    <2>1. PICK k, l : k = Machine /\ l = Machine'
      OBVIOUS
    <2>2. Upheld
      BY <1>2, UartKept
    <2>3. l.tcb = tcb' /\ l.cur = gp_current_task'
      BY <2>1 DEF Machine
    <2>4. Outranking(l, t) /\ booted' = Finished /\ ub' = FALSE
      <3>1. MsgInv'
        BY <1>2, UartKept DEF MsgKept
      <3> QED
        BY <1>2, <2>3, <3>1 DEF Outranks, Outranking, Cur, Up, Booting, MsgInv, Orderly, TypeOK
    <2>5. ~Booting
      BY <2>1, <2>2, <2>4 DEF Upheld, Quiet
    <2>6. Outranking(k, t)
      BY <2>1, <2>2, <2>4, <2>5 DEF Upheld, NoneNew
    <2>7. Up
      <3>1. ub = FALSE
        BY <1>2, <2>5, KernelFields DEF Scheduled, Placed, PlacedBut, Orderly, MsgInv
      <3> QED
        BY <2>5, <3>1 DEF Up
    <2> QED
      BY <1>1, <2>1, <2>6, <2>7, MachineFields
  <1>3. MsgInv /\ [UartNext]_vars =>
           [UartReceive \/ UartTransmit \/ \A t \in Tasks : Outranks(t)' => Outranks(t)]_vars
    BY <1>2
  <1> QED
    BY <1>3, MessageInvariant, PTL DEF UartSpec, OnlyInterruptsInvert

\* Without interrupts the scheduler runs the highest priority, messages or not.
THEOREM MessagesKeepPriority ==
    ASSUME CarefulInstance
    PROVE  MsgSpec => []HighestPriorityRuns
  <1> DEFINE Inv == MsgInv /\ (~Booting => Quiet(Kernel))
  <1>1. MsgInit => Inv
    BY InitMsgInv
  <1>2. ASSUME Inv, [MsgNext]_vars PROVE Inv'
    <2>1. PICK k, l, a, b : k = Machine /\ l = Machine' /\ a = Kernel /\ b = Kernel'
      OBVIOUS
    <2>2. k.tcb = a.tcb /\ k.cur = a.cur /\ l.tcb = b.tcb /\ l.cur = b.cur
      BY <2>1 DEF Machine, Kernel
    <2>3. (Quiet(a) <=> Quiet(k)) /\ (Quiet(b) <=> Quiet(l))
      BY <2>2 DEF Quiet, Outranking
    <2>4. CASE MsgNext
      <3>1. MsgInv' /\ Upheld
        BY <1>2, <2>4, CallKept DEF MsgKept
      <3>2. ASSUME ~Booting' PROVE Quiet(l)
        <4>1. CASE Booting
          BY <2>1, <3>1, <3>2, <4>1 DEF Upheld, Booting
        <4>2. CASE ~Booting
          BY <1>2, <2>1, <2>3, <3>1, <4>2 DEF Upheld, NoneNew, Quiet
        <4> QED
          BY <4>1, <4>2
      <3> QED
        BY <2>1, <2>3, <3>1, <3>2
    <2>5. CASE UNCHANGED vars
      <3>1. MsgInv' /\ b = a /\ booted' = booted
        BY <1>2, <2>1, <2>5, MsgStutter DEF vars, taskVars, kernelVars, Kernel
      <3> QED
        BY <1>2, <2>1, <3>1 DEF Booting
    <2> QED
      BY <1>2, <2>4, <2>5
  <1>3. Inv => HighestPriorityRuns
    BY InvHighest DEF IInv, MsgInv, HighestPriorityRuns
  <1> QED
    BY <1>1, <1>2, <1>3, PTL DEF MsgSpec

\* Mailboxes, waiting lists and the scheduler implement the abstract channel: for
\* every capacity, every length, every number of tasks and with interrupts, a message
\* sent to a mailbox is received once, in the order of the sends, blocked or not.
THEOREM MessagesImplementChannel ==
    ASSUME CarefulInstance
    PROVE  UartSpec => LosslessFifo
  <1>1. MsgInit => Lines!Init
    <2>1. ASSUME MsgInit PROVE lines = [c \in Targets |-> <<>>]
      <3>1. \A c \in Targets : lines[c] = <<>>
        BY <2>1, InitMsgInv, LineIs, MsgAssumption DEF LinesAre
      <3> QED
        BY <3>1 DEF lines
    <2> QED
      BY <2>1 DEF Lines!Init
  <1>2. ASSUME MsgInv, [UartNext]_vars PROVE [Lines!Next]_lines
    <2>1. CASE UartNext
      BY <1>2, <2>1, UartKept, LinesNext DEF MsgKept
    <2>2. CASE UNCHANGED vars
      <3>1. Machine' = Machine
        BY <1>2, <2>2, MsgStutter
      <3>2. Conveyed(Machine, Machine')
        BY <3>1, NullTask, TaskMailboxes DEF Conveyed
      <3> QED
        BY <3>2, LinesNext
    <2> QED
      BY <1>2, <2>1, <2>2
  <1> QED
    BY <1>1, <1>2, MessageInvariant, PTL DEF UartSpec, LosslessFifo, Lines!Spec
=============================================================================

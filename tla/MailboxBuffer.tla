--------------------------- MODULE MailboxBuffer ---------------------------
(***************************************************************************)
(* The ring buffer of a mailbox, byte by byte: push_buffer, pop_buffer and *)
(* can_fit of k_msg.c.                                                     *)
(*                                                                         *)
(* Pointers are offsets from memory_start, so memory_end is CAPACITY, and  *)
(* head and tail may both be equal to it.  A message is the sequence of    *)
(* its bytes; what its length field says is a function of its header.      *)
(***************************************************************************)
EXTENDS Integers, Sequences

CONSTANTS
    CAPACITY,       \* capacity of the buffer in bytes
    MSG_HDR_SIZE,   \* bytes of a message header
    Byte,           \* the values of a byte
    LengthField,    \* the length field of each header
    Messages,       \* the messages pushed
    Lengths,        \* the buffer lengths passed to pop_buffer
    FreshMemory     \* what k_mpool_alloc may return

Header == [1 .. MSG_HDR_SIZE -> Byte]
Memory == [0 .. CAPACITY - 1 -> Byte]

ASSUME SizesAssumption ==
    MSG_HDR_SIZE \in Nat \ {0} /\ CAPACITY \in Nat /\ CAPACITY >= MSG_HDR_SIZE
ASSUME LengthFieldAssumption == LengthField \in [Header -> Nat]
\* Senders check that a message has at least a header and fits in the mailbox;
\* its length is what its length field says.
ASSUME MessagesAssumption ==
    \A m \in Messages :
        /\ m \in Seq(Byte)
        /\ Len(m) >= MSG_HDR_SIZE /\ Len(m) <= CAPACITY
        /\ LengthField[SubSeq(m, 1, MSG_HDR_SIZE)] = Len(m)
ASSUME BuffersAssumption == Lengths \subseteq Nat /\ FreshMemory \subseteq Memory

VARIABLES
    memory,         \* the bytes from memory_start to memory_end
    head, tail, current_size,
    ret,            \* what the last call returned
    out,            \* what the last pop_buffer wrote to the receiver's buffer
    msgs            \* history: the messages pushed and not yet popped

bufferVars == <<memory, head, tail, current_size>>
ringVars   == <<bufferVars, ret, out, msgs>>

RingInit ==
    /\ memory \in FreshMemory
    /\ head = 0 /\ tail = 0 /\ current_size = 0
    /\ ret = 1 /\ out = <<>> /\ msgs = <<>>

----------------------------------------------------------------------------
\* Mutant of CanFit: a message that fills the buffer exactly is refused.
CanFitStrict(n) == IF current_size = CAPACITY THEN -1
                   ELSE IF CAPACITY - current_size <= n THEN 0
                   ELSE 1

\* can_fit
CanFit(n) == IF current_size = CAPACITY THEN -1
             ELSE IF CAPACITY - current_size < n THEN 0
             ELSE 1

\* mem_cpy of n bytes of buf, from offset from on, to address to
MemCpy(mem, to, buf, from, n) ==
    [a \in 0 .. CAPACITY - 1 |->
        IF to <= a /\ a < to + n THEN buf[from + (a - to) + 1] ELSE mem[a]]

\* Mutant of PushBuffer: the second copy starts over at the first byte of buf.
PushBufferRestarts(buf) ==
    LET n     == Len(buf)
        first == CAPACITY - tail
    IN  /\ CanFit(n) = 1
        /\ IF tail + n <= CAPACITY
           THEN /\ memory' = MemCpy(memory, tail, buf, 0, n)
                /\ tail' = tail + n
           ELSE /\ memory' = MemCpy(MemCpy(memory, tail, buf, 0, first), 0, buf, 0, n - first)
                /\ tail' = n - first
        /\ current_size' = current_size + n
        /\ ret' = 1
        /\ msgs' = Append(msgs, buf)
        /\ UNCHANGED <<head, out>>

\* push_buffer
PushBuffer(buf) ==
    LET n     == Len(buf)
        first == CAPACITY - tail           \* the bytes that fit before memory_end
    IN  \/ /\ CanFit(n) # 1
           /\ ret' = 0
           /\ UNCHANGED <<bufferVars, out, msgs>>
        \/ /\ CanFit(n) = 1
           /\ IF tail + n <= CAPACITY
              THEN /\ memory' = MemCpy(memory, tail, buf, 0, n)
                   /\ tail' = tail + n
              ELSE /\ memory' = MemCpy(MemCpy(memory, tail, buf, 0, first),
                                       0, buf, first, n - first)
                   /\ tail' = n - first
           /\ current_size' = current_size + n
           /\ ret' = 1
           /\ msgs' = Append(msgs, buf)
           /\ UNCHANGED <<head, out>>

\* The n bytes from address start on, in one mem_cpy or, circling, in two.
Read(start, n) ==
    [i \in 1 .. n |-> IF start + n <= CAPACITY \/ i <= CAPACITY - start
                      THEN memory[start + i - 1]
                      ELSE memory[i - (CAPACITY - start) - 1]]

\* Mutant of Advance: head runs past memory_end.
AdvanceNoWrap(start, n) == start + n

\* The address after them.
Advance(start, n) == IF start + n <= CAPACITY THEN start + n ELSE n - (CAPACITY - start)

\* Mutant of PopBuffer: the header is not taken off the size.
PopBufferBodyOnly(len) ==
    LET hdr  == Read(head, MSG_HDR_SIZE)
        body == Advance(head, MSG_HDR_SIZE)
        rest == LengthField[hdr] - MSG_HDR_SIZE
    IN  /\ current_size # 0 /\ len >= LengthField[hdr]
        /\ ret' = 1 /\ out' = hdr \o Read(body, rest)
        /\ head' = Advance(body, rest)
        /\ current_size' = current_size - rest
        /\ msgs' = Tail(msgs)
        /\ UNCHANGED <<memory, tail>>

\* pop_buffer: the header is copied out before the length is checked.
PopBuffer(len) ==
    LET hdr  == Read(head, MSG_HDR_SIZE)
        body == Advance(head, MSG_HDR_SIZE)
        rest == LengthField[hdr] - MSG_HDR_SIZE
    IN  \/ /\ current_size = 0
           /\ ret' = 0
           /\ UNCHANGED <<bufferVars, out, msgs>>
        \/ /\ current_size # 0 /\ len < MSG_HDR_SIZE
           /\ ret' = -1
           /\ UNCHANGED <<bufferVars, out, msgs>>
        \/ /\ current_size # 0 /\ len >= MSG_HDR_SIZE /\ len < LengthField[hdr]
           /\ ret' = -1 /\ out' = hdr
           /\ UNCHANGED <<bufferVars, msgs>>
        \/ /\ current_size # 0 /\ len >= MSG_HDR_SIZE /\ len >= LengthField[hdr]
           /\ ret' = 1 /\ out' = hdr \o Read(body, rest)
           /\ head' = Advance(body, rest)
           /\ current_size' = current_size - LengthField[hdr]
           /\ msgs' = Tail(msgs)
           /\ UNCHANGED <<memory, tail>>

RingNext == (\E m \in Messages : PushBuffer(m)) \/ (\E len \in Lengths : PopBuffer(len))
RingSpec == RingInit /\ [][RingNext]_ringVars

----------------------------------------------------------------------------
RingTypeOK ==
    /\ memory \in Memory
    /\ head \in 0 .. CAPACITY /\ tail \in 0 .. CAPACITY
    /\ current_size \in 0 .. CAPACITY
    /\ ret \in {-1, 0, 1}
    /\ out \in Seq(Byte)
    /\ msgs \in Seq(Messages)

\* current_size bytes lie between head and tail, around the end or not: head
\* and tail coincide both when the buffer is empty and when it is full, and only
\* current_size tells the two apart (k_msg.c:79 and 125 go by it alone).
RingShape == \/ head + current_size = tail
             \/ head + current_size = tail + CAPACITY

\* Where the byte i places after head is.
At(i) == IF head + i < CAPACITY THEN head + i ELSE head + i - CAPACITY

\* The bytes between head and tail are those of the messages, in order, each
\* whole: start[i] is the place of message i.
Layout(start) ==
    /\ start[1] = 0 /\ start[Len(msgs) + 1] = current_size
    /\ \A i, j \in 1 .. Len(msgs) + 1 : i <= j => start[i] <= start[j]
    /\ \A i \in 1 .. Len(msgs) :
          /\ start[i + 1] = start[i] + Len(msgs[i])
          /\ \A j \in 1 .. Len(msgs[i]) : memory[At(start[i] + j - 1)] = msgs[i][j]
Starts == [1 .. Len(msgs) + 1 -> 0 .. current_size]
BytesInOrder == \E start \in Starts : Layout(start)

\* The ring buffer implements the bounded queue of whole messages.
Fifo == INSTANCE BoundedFifo WITH used <- current_size
FifoRefinement == Fifo!FifoSpec
=============================================================================

---------------------------- MODULE BoundedFifo ----------------------------
(***************************************************************************)
(* What the ring buffer of a mailbox promises: a first-in first-out queue  *)
(* of whole messages, bounded by the total number of bytes.  Put and Get   *)
(* answer with the codes of push_buffer and pop_buffer.                    *)
(***************************************************************************)
EXTENDS Integers, Sequences

CONSTANTS
    CAPACITY,       \* bytes
    MSG_HDR_SIZE,   \* bytes of a message header
    Messages,       \* the messages, as sequences of bytes
    Lengths         \* the buffer lengths a receiver may offer

VARIABLES
    msgs,           \* the messages in the queue
    used,           \* their bytes
    ret,            \* what the last call returned
    out             \* what the last Get wrote to the receiver's buffer

fifoVars == <<msgs, used, ret, out>>

FifoInit == msgs = <<>> /\ used = 0 /\ ret = 1 /\ out = <<>>

Put(m) ==
    \/ /\ used + Len(m) <= CAPACITY
       /\ msgs' = Append(msgs, m) /\ used' = used + Len(m) /\ ret' = 1
       /\ UNCHANGED out
    \/ /\ used + Len(m) > CAPACITY
       /\ ret' = 0
       /\ UNCHANGED <<msgs, used, out>>

\* A buffer that is too small for the first message leaves it in the queue, but
\* has its header written to it if there is room for one.
Get(len) ==
    \/ /\ msgs = <<>>
       /\ ret' = 0
       /\ UNCHANGED <<msgs, used, out>>
    \/ /\ msgs # <<>> /\ len < MSG_HDR_SIZE
       /\ ret' = -1
       /\ UNCHANGED <<msgs, used, out>>
    \/ /\ msgs # <<>> /\ len >= MSG_HDR_SIZE /\ len < Len(Head(msgs))
       /\ ret' = -1 /\ out' = SubSeq(Head(msgs), 1, MSG_HDR_SIZE)
       /\ UNCHANGED <<msgs, used>>
    \/ /\ msgs # <<>> /\ len >= Len(Head(msgs))
       /\ ret' = 1 /\ out' = Head(msgs)
       /\ msgs' = Tail(msgs) /\ used' = used - Len(Head(msgs))

FifoNext == (\E m \in Messages : Put(m)) \/ (\E len \in Lengths : Get(len))
FifoSpec == FifoInit /\ [][FifoNext]_fifoVars
=============================================================================

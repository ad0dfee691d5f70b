------------------------ MODULE MailboxBufferProofs ------------------------
(***************************************************************************)
(* The ring buffer of k_msg.c is a bounded first-in first-out queue of     *)
(* whole messages, for every capacity, header size, message set and        *)
(* initial contents of the memory.                                         *)
(*                                                                         *)
(* The inductive invariant is the type invariant, the relation between     *)
(* head, tail and current_size, and the layout of the messages' bytes from *)
(* head on.  Everything a step needs of memory is in two facts about       *)
(* addresses: what Read finds, and where a copy lands.                     *)
(***************************************************************************)
EXTENDS MailboxBuffer, SequenceTheorems, TLAPS

IInv == RingTypeOK /\ RingShape /\ BytesInOrder

USE SizesAssumption

----------------------------------------------------------------------------
(***************************************************************************)
(* Addresses.                                                              *)
(***************************************************************************)
\* The place i bytes after start, as At is for head.
Place(start, i) == IF start + i < CAPACITY THEN start + i ELSE start + i - CAPACITY

\* Advancing keeps an address in the buffer, and moves places by as much.
LEMMA AdvancePlace ==
    ASSUME NEW s \in 0 .. CAPACITY, NEW n \in 0 .. CAPACITY
    PROVE  /\ Advance(s, n) \in 0 .. CAPACITY
           /\ Advance(s, n) = IF s + n <= CAPACITY THEN s + n ELSE s + n - CAPACITY
           /\ \A i \in Nat : i + n < CAPACITY
                => /\ Place(Advance(s, n), i) = Place(s, i + n)
                   /\ Place(s, i + n) \in 0 .. CAPACITY - 1
  BY DEF Advance, Place

\* Read returns the n bytes found at the places after start.
LEMMA ReadPlaces ==
    ASSUME RingTypeOK, NEW s \in 0 .. CAPACITY, NEW n \in 0 .. CAPACITY
    PROVE  /\ Read(s, n) \in [1 .. n -> Byte]
           /\ \A i \in 1 .. n : Read(s, n)[i] = memory[Place(s, i - 1)]
  <1>1. \A i \in 1 .. n : /\ (IF s + n <= CAPACITY \/ i <= CAPACITY - s
                              THEN s + i - 1 ELSE i - (CAPACITY - s) - 1) = Place(s, i - 1)
                          /\ Place(s, i - 1) \in 0 .. CAPACITY - 1
    BY DEF Place
  <1>2. \A i \in 1 .. n : Read(s, n)[i] = memory[Place(s, i - 1)]
    BY <1>1 DEF Read
  <1>3. \A a \in 0 .. CAPACITY - 1 : memory[a] \in Byte
    BY DEF RingTypeOK, Memory
  <1>4. \A i \in 1 .. n : Read(s, n)[i] \in Byte
    BY <1>1, <1>2, <1>3
  <1>5. Read(s, n) = [i \in 1 .. n |-> Read(s, n)[i]]
    BY DEF Read
  <1> QED
    BY <1>2, <1>4, <1>5

\* mem_cpy writes the addresses it is given and no other.
LEMMA MemCpyBytes ==
    ASSUME NEW mem \in Memory, NEW buf \in Seq(Byte),
           NEW to \in 0 .. CAPACITY, NEW from \in Nat, NEW n \in Nat,
           from + n <= Len(buf), to + n <= CAPACITY
    PROVE  /\ MemCpy(mem, to, buf, from, n) \in Memory
           /\ \A a \in 0 .. CAPACITY - 1 :
                MemCpy(mem, to, buf, from, n)[a] =
                  IF to <= a /\ a < to + n THEN buf[from + (a - to) + 1] ELSE mem[a]
  <1>1. \A a \in 0 .. CAPACITY - 1 : to <= a /\ a < to + n
          => buf[from + (a - to) + 1] \in Byte
    OBVIOUS
  <1> QED
    BY <1>1 DEF MemCpy, Memory

----------------------------------------------------------------------------
(***************************************************************************)
(* What pop_buffer finds at head.                                          *)
(***************************************************************************)
\* The bytes at head are those of the oldest message: pop_buffer decodes its
\* header wherever it lies, and the whole message is in the buffer.
LEMMA OldestMessage ==
    ASSUME IInv, current_size # 0
    PROVE  /\ msgs # <<>> /\ Head(msgs) = msgs[1] /\ msgs[1] \in Messages
           /\ Len(msgs[1]) \in Nat /\ Len(msgs[1]) >= MSG_HDR_SIZE
           /\ Len(msgs[1]) <= current_size
           /\ \A j \in 1 .. Len(msgs[1]) : memory[Place(head, j - 1)] = msgs[1][j]
           /\ Read(head, MSG_HDR_SIZE) = SubSeq(msgs[1], 1, MSG_HDR_SIZE)
           /\ LengthField[Read(head, MSG_HDR_SIZE)] = Len(msgs[1])
  <1>1. PICK start \in Starts : Layout(start)
    BY DEF IInv, BytesInOrder
  <1>2. msgs \in Seq(Messages) /\ head \in 0 .. CAPACITY /\ current_size \in 0 .. CAPACITY
    BY DEF IInv, RingTypeOK
  <1>3. msgs # <<>>
    BY <1>1, <1>2 DEF Layout
  <1>4. Len(msgs) \in Nat /\ Len(msgs) >= 1 /\ Head(msgs) = msgs[1] /\ msgs[1] \in Messages
    BY <1>2, <1>3
  <1>5. /\ msgs[1] \in Seq(Byte) /\ Len(msgs[1]) >= MSG_HDR_SIZE
        /\ LengthField[SubSeq(msgs[1], 1, MSG_HDR_SIZE)] = Len(msgs[1])
    BY <1>4, MessagesAssumption
  <1>6. Len(msgs[1]) \in Nat
    BY <1>5
  <1>7. start[1] = 0 /\ start[2] = start[1] + Len(msgs[1]) /\ start[2] \in 0 .. current_size
    BY <1>1, <1>4 DEF Layout, Starts
  <1>8. Len(msgs[1]) <= current_size
    BY <1>2, <1>6, <1>7
  <1>9. \A j \in 1 .. Len(msgs[1]) : memory[Place(head, j - 1)] = msgs[1][j]
    <2>1. TAKE j \in 1 .. Len(msgs[1])
    <2>2. memory[At(start[1] + j - 1)] = msgs[1][j]
      BY <1>1, <1>4 DEF Layout
    <2>3. At(start[1] + j - 1) = Place(head, j - 1)
      BY <1>7 DEF At, Place
    <2> QED
      BY <2>2, <2>3
  <1>10. Read(head, MSG_HDR_SIZE) = SubSeq(msgs[1], 1, MSG_HDR_SIZE)
    <2>1. Read(head, MSG_HDR_SIZE) = [i \in 1 .. MSG_HDR_SIZE |-> Read(head, MSG_HDR_SIZE)[i]]
      BY DEF Read
    <2>2. \A i \in 1 .. MSG_HDR_SIZE :
            Read(head, MSG_HDR_SIZE)[i] = memory[Place(head, i - 1)]
      <3>1. RingTypeOK /\ head \in 0 .. CAPACITY /\ MSG_HDR_SIZE \in 0 .. CAPACITY
        BY <1>2 DEF IInv
      <3> QED
        BY <3>1, ReadPlaces
    <2>3. SubSeq(msgs[1], 1, MSG_HDR_SIZE) = [i \in 1 .. MSG_HDR_SIZE |-> msgs[1][i]]
      BY <1>5, <1>6
    <2>4. \A i \in 1 .. MSG_HDR_SIZE : Read(head, MSG_HDR_SIZE)[i] = msgs[1][i]
      BY <1>5, <1>6, <1>9, <2>2
    <2> QED
      BY <2>1, <2>3, <2>4
  <1> QED
    BY <1>3, <1>4, <1>5, <1>6, <1>8, <1>9, <1>10

\* A sequence cut in two and put together again.
LEMMA Glue ==
    ASSUME NEW m \in Seq(Byte), NEW k \in 0 .. Len(m),
           NEW a \in [1 .. k -> Byte], NEW b \in [1 .. Len(m) - k -> Byte],
           \A i \in 1 .. k : a[i] = m[i],
           \A i \in 1 .. Len(m) - k : b[i] = m[i + k]
    PROVE  a \o b = m
  <1>1. Len(m) \in Nat /\ k \in Nat /\ Len(m) - k \in Nat
    OBVIOUS
  <1>2. a \in Seq(Byte) /\ Len(a) = k /\ DOMAIN a = 1 .. k
    BY <1>1
  <1>3. b \in Seq(Byte) /\ Len(b) = Len(m) - k /\ DOMAIN b = 1 .. Len(m) - k
    <2>1. PICK n \in Nat : n = Len(m) - k
      BY <1>1
    <2>2. b \in [1 .. n -> Byte]
      BY <2>1
    <2>3. b \in Seq(Byte) /\ Len(b) = n /\ DOMAIN b = 1 .. n
      BY <2>2
    <2> QED
      BY <2>1, <2>3
  <1>4. a \o b \in Seq(Byte) /\ Len(a \o b) = Len(m)
    BY <1>1, <1>2, <1>3
  <1>5. ASSUME NEW i \in 1 .. Len(m) PROVE (a \o b)[i] = m[i]
    <2>1. CASE i <= k
      BY <2>1, <1>1, <1>2, <1>3
    <2>2. CASE i > k
      <3>1. (a \o b)[i] = b[i - k] /\ i - k \in 1 .. Len(m) - k /\ (i - k) + k = i
        BY <2>2, <1>1, <1>2, <1>3
      <3> QED
        BY <3>1
    <2> QED
      BY <2>1, <2>2, <1>1
  <1> QED
    BY <1>4, <1>5, SeqEqual

\* A pop that returns 1 writes the oldest message, all of it and nothing else,
\* to the receiver's buffer.
LEMMA WholeMessage ==
    ASSUME IInv, current_size # 0
    PROVE  Read(head, MSG_HDR_SIZE)
             \o Read(Advance(head, MSG_HDR_SIZE), Len(msgs[1]) - MSG_HDR_SIZE) = msgs[1]
  <1>1. PICK m \in Seq(Byte) :
          /\ m = msgs[1] /\ Len(m) \in MSG_HDR_SIZE .. CAPACITY
          /\ \A j \in 1 .. Len(m) : memory[Place(head, j - 1)] = m[j]
    BY OldestMessage, MessagesAssumption DEF IInv, RingTypeOK
  <1>2. RingTypeOK /\ head \in 0 .. CAPACITY
    BY DEF IInv, RingTypeOK
  <1>3. PICK a : a = Read(head, MSG_HDR_SIZE)
    OBVIOUS
  <1>4. PICK body : body = Advance(head, MSG_HDR_SIZE)
    OBVIOUS
  <1>5. PICK rest : rest = Len(m) - MSG_HDR_SIZE
    OBVIOUS
  <1>6. PICK b : b = Read(body, rest)
    OBVIOUS
  <1>7. MSG_HDR_SIZE \in 0 .. CAPACITY /\ rest \in 0 .. CAPACITY /\ MSG_HDR_SIZE \in 0 .. Len(m)
    BY <1>1, <1>5
  <1>8. /\ a \in [1 .. MSG_HDR_SIZE -> Byte]
        /\ \A i \in 1 .. MSG_HDR_SIZE : a[i] = memory[Place(head, i - 1)]
    BY <1>2, <1>3, <1>7, ReadPlaces
  <1>9. /\ body \in 0 .. CAPACITY
        /\ \A i \in Nat : i + MSG_HDR_SIZE < CAPACITY
             => Place(body, i) = Place(head, i + MSG_HDR_SIZE)
    BY <1>2, <1>4, <1>7, AdvancePlace
  <1>10. b \in [1 .. rest -> Byte] /\ \A i \in 1 .. rest : b[i] = memory[Place(body, i - 1)]
    BY <1>2, <1>6, <1>7, <1>9, ReadPlaces
  <1>11. ASSUME NEW i \in 1 .. MSG_HDR_SIZE PROVE a[i] = m[i]
    <2>1. i \in 1 .. Len(m)
      BY <1>1
    <2> QED
      BY <1>1, <1>8, <2>1
  <1>12. ASSUME NEW i \in 1 .. rest PROVE b[i] = m[i + MSG_HDR_SIZE]
    <2>1. Place(body, i - 1) = Place(head, (i - 1) + MSG_HDR_SIZE)
      BY <1>1, <1>5, <1>9
    <2>2. i + MSG_HDR_SIZE \in 1 .. Len(m) /\ (i + MSG_HDR_SIZE) - 1 = (i - 1) + MSG_HDR_SIZE
      BY <1>1, <1>5
    <2>3. memory[Place(head, (i + MSG_HDR_SIZE) - 1)] = m[i + MSG_HDR_SIZE]
      BY <1>1, <2>2
    <2> QED
      BY <1>10, <2>1, <2>2, <2>3
  <1>13. a \o b = m
    BY <1>5, <1>7, <1>8, <1>10, <1>11, <1>12, Glue
  <1> QED
    BY <1>1, <1>3, <1>4, <1>5, <1>6, <1>13

----------------------------------------------------------------------------
(***************************************************************************)
(* The steps that move bytes.                                              *)
(***************************************************************************)
\* A push writes the message behind the bytes that are there, and changes none
\* of these, whether or not it goes around the end of the memory.
LEMMA PushedBytes ==
    ASSUME IInv, NEW buf \in Messages, CanFit(Len(buf)) = 1, PushBuffer(buf)
    PROVE  /\ Len(buf) \in Nat /\ current_size' = current_size + Len(buf)
           /\ current_size' \in 0 .. CAPACITY
           /\ memory' \in Memory /\ tail' \in 0 .. CAPACITY /\ RingShape'
           /\ \A i \in 0 .. current_size - 1 :
                memory'[Place(head, i)] = memory[Place(head, i)]
           /\ \A j \in 1 .. Len(buf) : memory'[Place(head, current_size + j - 1)] = buf[j]
  <1>1. PICK n \in Nat : n = Len(buf) /\ n >= 1 /\ n <= CAPACITY
    BY MessagesAssumption
  <1>2. /\ memory \in Memory /\ head \in 0 .. CAPACITY /\ tail \in 0 .. CAPACITY
        /\ current_size \in 0 .. CAPACITY
        /\ head + current_size = tail \/ head + current_size = tail + CAPACITY
        /\ buf \in Seq(Byte)
    BY MessagesAssumption DEF IInv, RingTypeOK, RingShape
  <1>3. current_size + n <= CAPACITY
    BY <1>1, <1>2 DEF CanFit
  <1>4. /\ head' = head /\ current_size' = current_size + n
        /\ IF tail + n <= CAPACITY
           THEN /\ memory' = MemCpy(memory, tail, buf, 0, n)
                /\ tail' = tail + n
           ELSE /\ memory' = MemCpy(MemCpy(memory, tail, buf, 0, CAPACITY - tail),
                                    0, buf, CAPACITY - tail, n - (CAPACITY - tail))
                /\ tail' = n - (CAPACITY - tail)
    BY <1>1 DEF PushBuffer
  <1>5. \A i \in 0 .. CAPACITY - 1 : Place(head, i) \in 0 .. CAPACITY - 1
    BY <1>2 DEF Place
  <1>6. CASE tail + n <= CAPACITY
    <2>1. /\ memory' \in Memory
          /\ \A a \in 0 .. CAPACITY - 1 :
               memory'[a] = IF tail <= a /\ a < tail + n THEN buf[0 + (a - tail) + 1]
                            ELSE memory[a]
      <3>1. 0 \in Nat /\ 0 + n <= Len(buf) /\ tail + n <= CAPACITY
        BY <1>1, <1>6
      <3>2. PICK mem : mem = MemCpy(memory, tail, buf, 0, n)
        OBVIOUS
      <3>3. /\ mem \in Memory
            /\ \A a \in 0 .. CAPACITY - 1 :
                 mem[a] = IF tail <= a /\ a < tail + n THEN buf[0 + (a - tail) + 1]
                          ELSE memory[a]
        BY <1>2, <3>1, <3>2, MemCpyBytes
      <3>4. memory' = mem
        BY <1>4, <1>6, <3>2
      <3> QED
        BY <3>3, <3>4
    <2>2. ASSUME NEW i \in 0 .. current_size - 1
          PROVE  memory'[Place(head, i)] = memory[Place(head, i)]
      <3>1. ~(tail <= Place(head, i) /\ Place(head, i) < tail + n)
        BY <1>1, <1>2, <1>3, <1>6 DEF Place
      <3>2. Place(head, i) \in 0 .. CAPACITY - 1
        <4>1. i \in 0 .. CAPACITY - 1
          BY <1>2
        <4> QED
          BY <1>5, <4>1
      <3>3. PICK a \in 0 .. CAPACITY - 1 : a = Place(head, i)
        BY <3>2
      <3>4. memory'[a] = IF tail <= a /\ a < tail + n THEN buf[0 + (a - tail) + 1]
                         ELSE memory[a]
        BY <2>1, <3>3
      <3> QED
        BY <3>1, <3>3, <3>4
    <2>3. ASSUME NEW j \in 1 .. n
          PROVE  memory'[Place(head, current_size + j - 1)] = buf[j]
      <3>1. Place(head, current_size + j - 1) = tail + j - 1
        BY <1>1, <1>2, <1>3, <1>6 DEF Place
      <3>2. tail + j - 1 \in 0 .. CAPACITY - 1 /\ 0 + ((tail + j - 1) - tail) + 1 = j
        BY <1>1, <1>2, <1>6
      <3> QED
        BY <1>1, <1>2, <2>1, <3>1, <3>2
    <2>4. /\ current_size' \in 0 .. CAPACITY /\ tail' \in 0 .. CAPACITY
          /\ head' + current_size' = tail' \/ head' + current_size' = tail' + CAPACITY
      BY <1>1, <1>2, <1>3, <1>4, <1>6
    <2> QED
      BY <1>1, <1>4, <2>1, <2>2, <2>3, <2>4 DEF RingShape
  <1>7. CASE ~(tail + n <= CAPACITY)
    <2>1. PICK first \in Nat : first = CAPACITY - tail
      BY <1>2
    <2>2. PICK mem : mem = MemCpy(memory, tail, buf, 0, first)
      OBVIOUS
    <2>3. /\ mem \in Memory
          /\ \A a \in 0 .. CAPACITY - 1 :
               mem[a] = IF tail <= a /\ a < tail + first THEN buf[0 + (a - tail) + 1]
                        ELSE memory[a]
      <3>1. 0 \in Nat /\ 0 + first <= Len(buf) /\ tail + first <= CAPACITY
        BY <1>1, <1>2, <1>7, <2>1
      <3> QED
        BY <1>2, <2>2, <3>1, MemCpyBytes
    <2>4. /\ memory' \in Memory
          /\ \A a \in 0 .. CAPACITY - 1 :
               memory'[a] = IF 0 <= a /\ a < 0 + (n - first) THEN buf[first + (a - 0) + 1]
                            ELSE mem[a]
      <3>1. n - first \in Nat /\ first + (n - first) <= Len(buf) /\ 0 + (n - first) <= CAPACITY
            /\ 0 \in 0 .. CAPACITY
        BY <1>1, <1>2, <1>7, <2>1
      <3>2. memory' = MemCpy(mem, 0, buf, first, n - first)
        BY <1>4, <1>7, <2>1, <2>2
      <3> QED
        BY <1>2, <2>3, <3>1, <3>2, MemCpyBytes
    <2>5. ASSUME NEW i \in 0 .. current_size - 1
          PROVE  memory'[Place(head, i)] = memory[Place(head, i)]
      <3>1. /\ ~(tail <= Place(head, i) /\ Place(head, i) < tail + first)
            /\ ~(0 <= Place(head, i) /\ Place(head, i) < 0 + (n - first))
        BY <1>1, <1>2, <1>3, <1>7, <2>1 DEF Place
      <3>2. Place(head, i) \in 0 .. CAPACITY - 1
        BY <1>2, <1>5
      <3> QED
        BY <2>3, <2>4, <3>1, <3>2
    <2>6. ASSUME NEW j \in 1 .. n
          PROVE  memory'[Place(head, current_size + j - 1)] = buf[j]
      <3>1. CASE j <= first
        <4>1. Place(head, current_size + j - 1) = tail + j - 1
          BY <1>1, <1>2, <1>3, <1>7, <2>1, <3>1 DEF Place
        <4>2. /\ tail + j - 1 \in 0 .. CAPACITY - 1 /\ 0 + ((tail + j - 1) - tail) + 1 = j
              /\ tail <= tail + j - 1 /\ tail + j - 1 < tail + first
              /\ ~(0 <= tail + j - 1 /\ tail + j - 1 < 0 + (n - first))
          BY <1>1, <1>2, <1>3, <1>7, <2>1, <3>1
        <4> QED
          BY <2>3, <2>4, <4>1, <4>2
      <3>2. CASE j > first
        <4>1. Place(head, current_size + j - 1) = j - first - 1
          BY <1>1, <1>2, <1>3, <1>7, <2>1, <3>2 DEF Place
        <4>2. /\ j - first - 1 \in 0 .. CAPACITY - 1 /\ first + ((j - first - 1) - 0) + 1 = j
              /\ 0 <= j - first - 1 /\ j - first - 1 < 0 + (n - first)
          BY <1>1, <1>2, <1>3, <1>7, <2>1, <3>2
        <4> QED
          BY <2>4, <4>1, <4>2
      <3> QED
        BY <1>1, <2>1, <3>1, <3>2
    <2>7. /\ current_size' \in 0 .. CAPACITY /\ tail' \in 0 .. CAPACITY
          /\ head' + current_size' = tail' \/ head' + current_size' = tail' + CAPACITY
      BY <1>1, <1>2, <1>3, <1>4, <1>7
    <2> QED
      BY <1>1, <1>4, <2>4, <2>5, <2>6, <2>7 DEF RingShape
  <1> QED
    BY <1>6, <1>7

\* A pop that returns 1 moves head to the next message.
LEMMA PoppedBytes ==
    ASSUME IInv, current_size # 0, NEW len \in Lengths, PopBuffer(len),
           len >= MSG_HDR_SIZE, len >= LengthField[Read(head, MSG_HDR_SIZE)]
    PROVE  /\ current_size' = current_size - Len(msgs[1])
           /\ head' \in 0 .. CAPACITY /\ RingShape'
           /\ msgs' = Tail(msgs) /\ out' = msgs[1] /\ ret' = 1
           /\ UNCHANGED <<memory, tail>>
           /\ \A i \in Nat : i + Len(msgs[1]) < CAPACITY
                => Place(head', i) = Place(head, i + Len(msgs[1]))
  <1>1. PICK n \in Nat : /\ n = Len(msgs[1]) /\ n >= MSG_HDR_SIZE /\ n <= current_size
                         /\ LengthField[Read(head, MSG_HDR_SIZE)] = n
    BY OldestMessage
  <1>2. /\ head \in 0 .. CAPACITY /\ tail \in 0 .. CAPACITY /\ current_size \in 0 .. CAPACITY
        /\ head + current_size = tail \/ head + current_size = tail + CAPACITY
        /\ len \in Nat
    BY BuffersAssumption DEF IInv, RingTypeOK, RingShape
  <1>3. /\ ret' = 1
        /\ out' = Read(head, MSG_HDR_SIZE)
                    \o Read(Advance(head, MSG_HDR_SIZE), n - MSG_HDR_SIZE)
        /\ head' = Advance(Advance(head, MSG_HDR_SIZE), n - MSG_HDR_SIZE)
        /\ current_size' = current_size - n
        /\ msgs' = Tail(msgs)
        /\ UNCHANGED <<memory, tail>>
    BY <1>1, <1>2 DEF PopBuffer
  <1>4. out' = msgs[1]
    BY <1>1, <1>3, WholeMessage
  <1>5. PICK body : body = Advance(head, MSG_HDR_SIZE)
    OBVIOUS
  <1>6. PICK rest : rest = n - MSG_HDR_SIZE
    OBVIOUS
  <1>7. MSG_HDR_SIZE \in 0 .. CAPACITY /\ rest \in 0 .. CAPACITY
    BY <1>1, <1>2, <1>6
  <1>8. /\ body \in 0 .. CAPACITY
        /\ body = IF head + MSG_HDR_SIZE <= CAPACITY THEN head + MSG_HDR_SIZE
                  ELSE head + MSG_HDR_SIZE - CAPACITY
        /\ \A i \in Nat : i + MSG_HDR_SIZE < CAPACITY
             => Place(body, i) = Place(head, i + MSG_HDR_SIZE)
    <2>1. /\ Advance(head, MSG_HDR_SIZE) \in 0 .. CAPACITY
          /\ Advance(head, MSG_HDR_SIZE) =
                IF head + MSG_HDR_SIZE <= CAPACITY THEN head + MSG_HDR_SIZE
                ELSE head + MSG_HDR_SIZE - CAPACITY
          /\ \A i \in Nat : i + MSG_HDR_SIZE < CAPACITY
               => Place(Advance(head, MSG_HDR_SIZE), i) = Place(head, i + MSG_HDR_SIZE)
      BY <1>2, <1>7, AdvancePlace
    <2> QED
      BY <1>5, <2>1
  <1>9. /\ head' \in 0 .. CAPACITY
        /\ head' = IF body + rest <= CAPACITY THEN body + rest ELSE body + rest - CAPACITY
        /\ \A i \in Nat : i + rest < CAPACITY => Place(head', i) = Place(body, i + rest)
    <2>1. /\ Advance(body, rest) \in 0 .. CAPACITY
          /\ Advance(body, rest) =
                IF body + rest <= CAPACITY THEN body + rest ELSE body + rest - CAPACITY
          /\ \A i \in Nat : i + rest < CAPACITY
               => Place(Advance(body, rest), i) = Place(body, i + rest)
      <3>1. body \in 0 .. CAPACITY /\ rest \in 0 .. CAPACITY
        BY <1>7, <1>8
      <3> HIDE SizesAssumption
      <3> QED
        BY <3>1, AdvancePlace
    <2>2. head' = Advance(body, rest)
      BY <1>3, <1>5, <1>6
    <2> QED
      BY <2>1, <2>2
  <1>10. ASSUME NEW i \in Nat, i + n < CAPACITY PROVE Place(head', i) = Place(head, i + n)
    <2>1. i + rest \in Nat /\ i + rest < CAPACITY /\ (i + rest) + MSG_HDR_SIZE = i + n
      BY <1>1, <1>6, <1>10
    <2>2. Place(head', i) = Place(body, i + rest)
      BY <1>9, <2>1
    <2>3. Place(body, i + rest) = Place(head, (i + rest) + MSG_HDR_SIZE)
      BY <1>8, <1>10, <2>1
    <2> QED
      BY <2>1, <2>2, <2>3
  <1>11. head' + current_size' = tail' \/ head' + current_size' = tail' + CAPACITY
    <2>1. body = IF head + MSG_HDR_SIZE <= CAPACITY THEN head + MSG_HDR_SIZE
                 ELSE head + MSG_HDR_SIZE - CAPACITY
      BY <1>8
    <2>2. head' = IF body + rest <= CAPACITY THEN body + rest ELSE body + rest - CAPACITY
      BY <1>9
    <2>3. rest = n - MSG_HDR_SIZE /\ n >= MSG_HDR_SIZE /\ n <= current_size
      BY <1>1, <1>6
    <2>4. head' = IF head + n <= CAPACITY THEN head + n ELSE head + n - CAPACITY
      BY <1>2, <2>1, <2>2, <2>3
    <2>5. tail' = tail /\ current_size' = current_size - n
      BY <1>3
    <2> QED
      BY <1>2, <2>3, <2>4, <2>5
  <1> QED
    BY <1>1, <1>3, <1>4, <1>9, <1>10, <1>11 DEF RingShape

----------------------------------------------------------------------------
(***************************************************************************)
(* The invariant.                                                          *)
(***************************************************************************)
LEMMA InitIInv == RingInit => IInv
  <1> SUFFICES ASSUME RingInit PROVE IInv
    OBVIOUS
  <1>1. RingTypeOK
    BY BuffersAssumption DEF RingInit, RingTypeOK
  <1>2. RingShape
    BY DEF RingInit, RingShape
  <1>3. BytesInOrder
    <2>1. Len(msgs) = 0 /\ current_size = 0
      BY DEF RingInit
    <2>2. [i \in {1} |-> 0] \in Starts /\ Layout([i \in {1} |-> 0])
      BY <2>1 DEF Starts, Layout
    <2> QED
      BY <2>2 DEF BytesInOrder
  <1> QED
    BY <1>1, <1>2, <1>3 DEF IInv

\* A new message is laid out after the others.
LEMMA PushLayout ==
    ASSUME IInv, NEW buf \in Messages, CanFit(Len(buf)) = 1, PushBuffer(buf)
    PROVE  BytesInOrder'
  <1>1. PICK start \in Starts : Layout(start)
    BY DEF IInv, BytesInOrder
  <1>2. PICK n \in Nat : n = Len(buf)
    BY MessagesAssumption
  <1>3. PICK k \in Nat : k = Len(msgs)
    BY DEF IInv, RingTypeOK
  <1>4. /\ msgs' = Append(msgs, buf) /\ head' = head /\ msgs \in Seq(Messages)
        /\ current_size \in 0 .. CAPACITY
    BY DEF PushBuffer, IInv, RingTypeOK
  <1>5. /\ current_size' = current_size + n
        /\ \A i \in 0 .. current_size - 1 : memory'[Place(head, i)] = memory[Place(head, i)]
        /\ \A j \in 1 .. n : memory'[Place(head, current_size + j - 1)] = buf[j]
    BY <1>2, PushedBytes
  <1>6. /\ Len(msgs') = k + 1 /\ msgs'[k + 1] = buf
        /\ \A i \in 1 .. k : msgs'[i] = msgs[i]
    BY <1>3, <1>4
  <1>7. /\ \A i \in 1 .. k + 1 : start[i] \in 0 .. current_size
        /\ start[1] = 0 /\ start[k + 1] = current_size
        /\ \A i, j \in 1 .. k + 1 : i <= j => start[i] <= start[j]
        /\ \A i \in 1 .. k :
             /\ start[i + 1] = start[i] + Len(msgs[i])
             /\ \A j \in 1 .. Len(msgs[i]) : memory[Place(head, start[i] + j - 1)] = msgs[i][j]
    BY <1>1, <1>3 DEF Starts, Layout, At, Place
  <1>8. PICK next : next = [i \in 1 .. k + 2 |-> IF i = k + 2 THEN current_size + n ELSE start[i]]
    OBVIOUS
  <1>9. /\ next[k + 2] = current_size + n
        /\ \A i \in 1 .. k + 1 : next[i] = start[i]
        /\ next \in [1 .. k + 2 -> 0 .. current_size']
    <2>1. /\ next[k + 2] = current_size + n
          /\ \A i \in 1 .. k + 1 : next[i] = start[i]
      BY <1>8
    <2>2. \A i \in 1 .. k + 1 : start[i] \in 0 .. current_size'
      <3>1. \A i \in 1 .. k + 1 : start[i] \in 0 .. current_size
        BY <1>7
      <3>2. 0 .. current_size \subseteq 0 .. current_size'
        BY <1>4, <1>5
      <3> QED
        BY <3>1, <3>2
    <2>3. current_size + n \in 0 .. current_size'
      BY <1>4, <1>5
    <2>4. \A i \in 1 .. k + 2 : i \in 1 .. k + 1 \/ i = k + 2
      OBVIOUS
    <2>5. \A i \in 1 .. k + 2 : next[i] \in 0 .. current_size'
      BY <2>1, <2>2, <2>3, <2>4
    <2> QED
      BY <2>1, <2>5, <1>8
  <1>10. ASSUME NEW i \in 1 .. k + 1
         PROVE  /\ next[i + 1] = next[i] + Len(msgs'[i])
                /\ \A j \in 1 .. Len(msgs'[i]) :
                     memory'[Place(head, next[i] + j - 1)] = msgs'[i][j]
    <2>1. CASE i = k + 1
      BY <2>1, <1>2, <1>5, <1>6, <1>7, <1>9
    <2>2. CASE i \in 1 .. k
      <3>1. /\ next[i] = start[i] /\ next[i + 1] = start[i + 1] /\ msgs'[i] = msgs[i]
            /\ start[i + 1] = start[i] + Len(msgs[i])
            /\ start[i] \in 0 .. current_size /\ start[i + 1] \in 0 .. current_size
        BY <2>2, <1>6, <1>7, <1>9
      <3>2. Len(msgs[i]) \in Nat
        BY <2>2, <1>3, <1>4, MessagesAssumption
      <3>3. ASSUME NEW j \in 1 .. Len(msgs[i])
            PROVE  memory'[Place(head, start[i] + j - 1)] = msgs[i][j]
        <4>1. start[i] + j - 1 \in 0 .. current_size - 1
          <5>1. PICK cs \in Nat : cs = current_size
            BY <1>4
          <5>2. PICK l \in Nat : l = Len(msgs[i])
            BY <3>2
          <5>3. PICK x \in Nat : x = start[i] /\ x + l <= cs
            BY <3>1, <5>1, <5>2
          <5>4. j \in Nat /\ j >= 1 /\ j <= l
            BY <5>2
          <5>5. x + j - 1 \in Nat /\ x + j - 1 <= cs - 1
            BY <5>3, <5>4
          <5>6. x + j - 1 \in 0 .. cs - 1
            BY <5>5
          <5> QED
            BY <5>1, <5>3, <5>6
        <4>2. memory'[Place(head, start[i] + j - 1)] = memory[Place(head, start[i] + j - 1)]
          BY <4>1, <1>5
        <4>3. memory[Place(head, start[i] + j - 1)] = msgs[i][j]
          BY <2>2, <1>7
        <4> QED
          BY <4>2, <4>3
      <3> QED
        BY <3>1, <3>3
    <2> QED
      BY <2>1, <2>2
  <1>11. next \in Starts'
    BY <1>6, <1>9 DEF Starts
  <1>12. Layout(next)'
    <2>1. next[1] = 0 /\ next[Len(msgs') + 1] = current_size'
      <3>1. 1 \in 1 .. k + 1 /\ Len(msgs') + 1 = k + 2
        BY <1>6
      <3>2. next[1] = 0
        BY <1>7, <1>9, <3>1
      <3>3. next[k + 2] = current_size'
        BY <1>5, <1>9
      <3> QED
        BY <3>1, <3>2, <3>3
    <2>2. ASSUME NEW i \in 1 .. k + 2, NEW j \in 1 .. k + 2, i <= j
          PROVE  next[i] <= next[j]
      <3>1. CASE j = k + 2
        <4>1. next[i] \in 0 .. current_size' /\ current_size' = current_size + n
          BY <1>5, <1>9
        <4> QED
          BY <3>1, <4>1, <1>9
      <3>2. CASE j # k + 2
        <4>1. i \in 1 .. k + 1 /\ j \in 1 .. k + 1
          BY <2>2, <3>2
        <4> QED
          BY <2>2, <4>1, <1>7, <1>9
      <3> QED
        BY <3>1, <3>2
    <2>3. Len(msgs') = k + 1 /\ head' = head
      BY <1>4, <1>6
    <2>4. \A i, j \in 1 .. Len(msgs') + 1 : i <= j => next[i] <= next[j]
      BY <2>2, <2>3
    <2>5. \A i \in 1 .. Len(msgs') :
            /\ next[i + 1] = next[i] + Len(msgs'[i])
            /\ \A j \in 1 .. Len(msgs'[i]) : memory'[At(next[i] + j - 1)'] = msgs'[i][j]
      BY <2>3, <1>10 DEF At, Place
    <2> QED
      BY <2>1, <2>4, <2>5 DEF Layout
  <1> QED
    BY <1>11, <1>12 DEF BytesInOrder

\* After a pop the second message is at head.
LEMMA PopLayout ==
    ASSUME IInv, current_size # 0, NEW len \in Lengths, PopBuffer(len),
           len >= MSG_HDR_SIZE, len >= LengthField[Read(head, MSG_HDR_SIZE)]
    PROVE  BytesInOrder'
  <1>1. PICK start \in Starts : Layout(start)
    BY DEF IInv, BytesInOrder
  <1>2. PICK k \in Nat : k = Len(msgs) /\ k >= 1
    BY OldestMessage DEF IInv, RingTypeOK
  <1>3. PICK n \in Nat : n = Len(msgs[1]) /\ n >= 1 /\ n <= current_size
    <2>1. Len(msgs[1]) \in Nat /\ Len(msgs[1]) >= MSG_HDR_SIZE /\ Len(msgs[1]) <= current_size
      BY OldestMessage
    <2>2. PICK n \in Nat : n = Len(msgs[1]) /\ n >= MSG_HDR_SIZE /\ n <= current_size
      BY <2>1
    <2> QED
      BY <2>2
  <1>4. /\ msgs \in Seq(Messages) /\ current_size \in 0 .. CAPACITY
        /\ msgs' = Tail(msgs) /\ memory' = memory /\ current_size' = current_size - n
        /\ \A i \in Nat : i + n < CAPACITY => Place(head', i) = Place(head, i + n)
    BY <1>3, PoppedBytes DEF IInv, RingTypeOK
  <1>5. Len(msgs') = k - 1 /\ \A i \in 1 .. k - 1 : msgs'[i] = msgs[i + 1]
    BY <1>2, <1>4
  <1>6. /\ \A i \in 1 .. k + 1 : start[i] \in 0 .. current_size
        /\ start[1] = 0 /\ start[k + 1] = current_size
        /\ \A i, j \in 1 .. k + 1 : i <= j => start[i] <= start[j]
        /\ \A i \in 1 .. k :
             /\ start[i + 1] = start[i] + Len(msgs[i])
             /\ \A j \in 1 .. Len(msgs[i]) : memory[Place(head, start[i] + j - 1)] = msgs[i][j]
    BY <1>1, <1>2 DEF Starts, Layout, At, Place
  <1>7. \A i \in 2 .. k + 1 : start[i] >= n
    <2>1. start[2] = n
      BY <1>2, <1>3, <1>6
    <2>2. \A i \in 2 .. k + 1 : start[2] <= start[i]
      BY <1>2, <1>6
    <2> QED
      BY <2>1, <2>2
  <1>8. PICK next : next = [i \in 1 .. k |-> start[i + 1] - n]
    OBVIOUS
  <1>9. \A i \in 1 .. k : next[i] = start[i + 1] - n /\ next[i] \in 0 .. current_size'
    <2> TAKE i \in 1 .. k
    <2>1. PICK x : x = start[i + 1] /\ x \in 0 .. current_size /\ x >= n
      BY <1>6, <1>7
    <2>2. current_size' = current_size - n
      BY <1>4
    <2>3. x - n \in 0 .. current_size'
      <3>1. current_size \in Nat
        BY <1>4
      <3>2. x \in Nat /\ x <= current_size /\ x >= n
        BY <2>1, <3>1
      <3>3. x - n \in 0 .. current_size - n
        BY <3>1, <3>2
      <3> QED
        BY <2>2, <3>3
    <2> QED
      BY <2>1, <2>3, <1>8
  <1>10. next \in Starts'
    <2>1. Len(msgs') + 1 = k
      BY <1>2, <1>5
    <2>2. next \in [1 .. k -> 0 .. current_size']
      BY <1>8, <1>9
    <2> QED
      BY <2>1, <2>2 DEF Starts
  <1>11. ASSUME NEW i \in 1 .. k - 1
         PROVE  /\ next[i + 1] = next[i] + Len(msgs'[i])
                /\ \A j \in 1 .. Len(msgs'[i]) :
                     memory'[Place(head', next[i] + j - 1)] = msgs'[i][j]
    <2>1. /\ i \in 1 .. k /\ i + 1 \in 1 .. k /\ i + 1 \in 2 .. k + 1
          /\ (i + 1) + 1 \in 1 .. k + 1 /\ i + 1 \in 1 .. k + 1
      BY <1>2
    <2>2. PICK m \in Seq(Byte) : m = msgs[i + 1] /\ m = msgs'[i] /\ Len(m) \in Nat
      <3>1. msgs[i + 1] \in Messages
        BY <2>1, <1>2, <1>4
      <3>2. PICK m \in Messages : m = msgs[i + 1]
        BY <3>1
      <3>3. m \in Seq(Byte) /\ Len(m) \in Nat
        BY <3>2, MessagesAssumption
      <3>4. m = msgs'[i]
        BY <1>5, <3>2
      <3> QED
        BY <3>2, <3>3, <3>4
    <2>3. PICK x \in 0 .. current_size : x = start[i + 1] /\ x >= n
      BY <2>1, <1>6, <1>7
    <2>4. /\ start[(i + 1) + 1] = x + Len(m) /\ x + Len(m) \in 0 .. current_size
          /\ \A j \in 1 .. Len(m) : memory[Place(head, x + j - 1)] = m[j]
      <3>1. /\ start[(i + 1) + 1] = start[i + 1] + Len(msgs[i + 1])
            /\ \A j \in 1 .. Len(msgs[i + 1]) :
                 memory[Place(head, start[i + 1] + j - 1)] = msgs[i + 1][j]
        BY <2>1, <1>6
      <3>2. start[(i + 1) + 1] \in 0 .. current_size
        BY <2>1, <1>6
      <3> QED
        BY <3>1, <3>2, <2>2, <2>3
    <2>5. next[i] = x - n /\ next[i + 1] = (x + Len(m)) - n
      BY <2>1, <2>3, <2>4, <1>8
    <2>6. next[i + 1] = next[i] + Len(m)
      BY <2>2, <2>3, <2>5
    <2>7. ASSUME NEW j \in 1 .. Len(m) PROVE memory'[Place(head', next[i] + j - 1)] = m[j]
      <3>1. PICK y \in Nat : y = (x - n) + j - 1 /\ y + n = x + j - 1 /\ y + n < CAPACITY
        <4>1. /\ x \in Nat /\ x >= n /\ j \in Nat /\ j >= 1 /\ j <= Len(m)
              /\ x + Len(m) <= CAPACITY
          <5>1. current_size \in Nat /\ current_size <= CAPACITY
            BY <1>4
          <5>2. x + Len(m) \in Nat /\ x + Len(m) <= current_size
            BY <2>4, <5>1
          <5> QED
            BY <5>1, <5>2, <2>2, <2>3
        <4>2. (x - n) + j - 1 \in Nat /\ ((x - n) + j - 1) + n = x + j - 1
              /\ ((x - n) + j - 1) + n < CAPACITY
          BY <4>1, <2>2
        <4> QED
          BY <4>2
      <3>2. Place(head', y) = Place(head, y + n)
        BY <3>1, <1>4
      <3>3. memory[Place(head, x + j - 1)] = m[j]
        BY <2>4
      <3> QED
        BY <3>1, <3>2, <3>3, <2>5, <1>4
    <2> QED
      BY <2>2, <2>6, <2>7
  <1>12. \A i, j \in 1 .. k : i <= j => next[i] <= next[j]
    <2> SUFFICES ASSUME NEW i \in 1 .. k, NEW j \in 1 .. k, i <= j
                 PROVE  next[i] <= next[j]
      OBVIOUS
    <2>1. i + 1 \in 1 .. k + 1 /\ j + 1 \in 1 .. k + 1 /\ i + 1 <= j + 1
      OBVIOUS
    <2>2. /\ start[i + 1] <= start[j + 1]
          /\ start[i + 1] \in 0 .. current_size /\ start[j + 1] \in 0 .. current_size
      BY <2>1, <1>6
    <2> QED
      BY <2>2, <1>4, <1>9
  <1>13. Layout(next)'
    <2>1. k \in 1 .. k /\ 1 \in 1 .. k /\ k - 1 + 1 = k
      BY <1>2
    <2>2. next[1] = 0
      <3>1. start[2] = n
        BY <1>2, <1>3, <1>6
      <3> QED
        BY <3>1, <2>1, <1>8
    <2>3. next[k] = current_size'
      BY <2>1, <1>4, <1>6, <1>8
    <2> QED
      BY <2>1, <2>2, <2>3, <1>5, <1>11, <1>12 DEF Layout, At, Place
  <1> QED
    BY <1>10, <1>13 DEF BytesInOrder

----------------------------------------------------------------------------
(***************************************************************************)
(* The theorems.                                                           *)
(***************************************************************************)
\* A step that leaves the buffer alone keeps the invariant.
LEMMA BufferUnchanged ==
    ASSUME IInv, UNCHANGED <<bufferVars, msgs>>, ret' \in {-1, 0, 1}, out' \in Seq(Byte)
    PROVE  IInv'
  <1>1. RingTypeOK'
    BY DEF IInv, RingTypeOK, bufferVars
  <1>2. RingShape'
    BY DEF IInv, RingShape, bufferVars
  <1>3. BytesInOrder'
    <2>1. PICK start \in Starts : Layout(start)
      BY DEF IInv, BytesInOrder
    <2>2. \A i : At(i)' = At(i)
      BY DEF At, bufferVars
    <2>3. start \in Starts'
      BY <2>1 DEF Starts, bufferVars
    <2>4. Layout(start)'
      BY <2>1, <2>2 DEF Layout, bufferVars
    <2> QED
      BY <2>3, <2>4 DEF BytesInOrder
  <1> QED
    BY <1>1, <1>2, <1>3 DEF IInv

\* Every outcome of push_buffer keeps the invariant.
LEMMA PushIInv ==
    ASSUME IInv, NEW buf \in Messages, PushBuffer(buf)
    PROVE  IInv'
  <1>1. CASE CanFit(Len(buf)) # 1
    BY <1>1, BufferUnchanged DEF PushBuffer, IInv, RingTypeOK
  <1>2. CASE CanFit(Len(buf)) = 1
    <2>1. RingTypeOK'
      <3>1. /\ memory' \in Memory /\ tail' \in 0 .. CAPACITY
            /\ current_size' \in 0 .. CAPACITY
        BY <1>2, PushedBytes
      <3>2. ret' = 1 /\ msgs' = Append(msgs, buf) /\ head' = head /\ out' = out
        BY <1>2 DEF PushBuffer
      <3> QED
        BY <3>1, <3>2 DEF IInv, RingTypeOK
    <2>2. RingShape'
      BY <1>2, PushedBytes
    <2>3. BytesInOrder'
      BY <1>2, PushLayout
    <2> QED
      BY <2>1, <2>2, <2>3 DEF IInv
  <1> QED
    BY <1>1, <1>2

\* Every outcome of pop_buffer keeps the invariant.
LEMMA PopIInv ==
    ASSUME IInv, NEW len \in Lengths, PopBuffer(len)
    PROVE  IInv'
  <1> DEFINE hdr == Read(head, MSG_HDR_SIZE)
  <1>1. len \in Nat
    BY BuffersAssumption
  <1>2. CASE current_size = 0 \/ len < MSG_HDR_SIZE
    <2>1. ret' \in {-1, 0} /\ UNCHANGED <<bufferVars, out, msgs>>
      BY <1>1, <1>2 DEF PopBuffer
    <2> QED
      BY <2>1, BufferUnchanged DEF IInv, RingTypeOK
  <1>3. CASE current_size # 0 /\ len >= MSG_HDR_SIZE /\ len < LengthField[hdr]
    <2>1. ret' = -1 /\ out' = hdr /\ UNCHANGED <<bufferVars, msgs>>
      <3>1. LengthField[hdr] \in Nat
        BY <1>3, OldestMessage
      <3> QED
        BY <1>1, <1>3, <3>1 DEF PopBuffer
    <2>2. hdr \in Seq(Byte)
      <3>1. RingTypeOK /\ head \in 0 .. CAPACITY /\ MSG_HDR_SIZE \in 0 .. CAPACITY
        BY DEF IInv, RingTypeOK
      <3> QED
        BY <3>1, ReadPlaces
    <2> QED
      BY <2>1, <2>2, BufferUnchanged
  <1>4. CASE current_size # 0 /\ len >= MSG_HDR_SIZE /\ len >= LengthField[hdr]
    <2>1. RingTypeOK'
      <3>1. /\ msgs # <<>> /\ msgs[1] \in Messages /\ Len(msgs[1]) \in Nat
            /\ Len(msgs[1]) <= current_size
        BY <1>4, OldestMessage
      <3>2. /\ current_size' = current_size - Len(msgs[1]) /\ head' \in 0 .. CAPACITY
            /\ msgs' = Tail(msgs) /\ out' = msgs[1] /\ ret' = 1
            /\ UNCHANGED <<memory, tail>>
        BY <1>4, PoppedBytes
      <3>3. msgs[1] \in Seq(Byte) /\ Tail(msgs) \in Seq(Messages)
        BY <3>1, MessagesAssumption DEF IInv, RingTypeOK
      <3>4. current_size' \in 0 .. CAPACITY
        BY <3>1, <3>2 DEF IInv, RingTypeOK
      <3> QED
        BY <3>2, <3>3, <3>4 DEF IInv, RingTypeOK
    <2>2. RingShape'
      BY <1>4, PoppedBytes
    <2>3. BytesInOrder'
      BY <1>4, PopLayout
    <2> QED
      BY <2>1, <2>2, <2>3 DEF IInv
  <1>5. current_size # 0 => LengthField[hdr] \in Nat
    BY OldestMessage
  <1>6. MSG_HDR_SIZE \in Nat
    OBVIOUS
  <1>7. \/ current_size = 0 \/ len < MSG_HDR_SIZE
        \/ current_size # 0 /\ len >= MSG_HDR_SIZE /\ len < LengthField[hdr]
        \/ current_size # 0 /\ len >= MSG_HDR_SIZE /\ len >= LengthField[hdr]
    BY <1>1, <1>5, <1>6
  <1> QED
    BY <1>2, <1>3, <1>4, <1>7

\* The inductive invariant: types, pointers and bytes are right in every state.
THEOREM RingInvariant == RingSpec => []IInv
  <1>1. ASSUME IInv, [RingNext]_ringVars PROVE IInv'
    <2>1. CASE \E m \in Messages : PushBuffer(m)
      BY <1>1, <2>1, PushIInv
    <2>2. CASE \E len \in Lengths : PopBuffer(len)
      BY <1>1, <2>2, PopIInv
    <2>3. CASE UNCHANGED ringVars
      BY <1>1, <2>3, BufferUnchanged DEF IInv, RingTypeOK, ringVars
    <2> QED
      BY <1>1, <2>1, <2>2, <2>3 DEF RingNext
  <1> QED
    BY InitIInv, <1>1, PTL DEF RingSpec

\* The pointers stay in the buffer and every byte of it is a byte, for every
\* capacity: push_buffer and pop_buffer never leave memory_start to memory_end.
THEOREM RingTypes == RingSpec => []RingTypeOK
  <1>1. IInv => RingTypeOK
    BY DEF IInv
  <1> QED
    BY <1>1, RingInvariant, PTL

\* head, tail and current_size agree, in the empty and in the full buffer too,
\* where can_fit and pop_buffer look at current_size alone.
THEOREM RingPointersAgree == RingSpec => []RingShape
  <1>1. IInv => RingShape
    BY DEF IInv
  <1> QED
    BY <1>1, RingInvariant, PTL

\* The bytes in the buffer are those of the messages pushed and not yet popped.
THEOREM RingBytesInOrder == RingSpec => []BytesInOrder
  <1>1. IInv => BytesInOrder
    BY DEF IInv
  <1> QED
    BY <1>1, RingInvariant, PTL

\* A buffer is empty just when it holds no message.
LEMMA EmptyBuffer ==
    ASSUME IInv, current_size = 0
    PROVE  msgs = <<>>
  <1>1. PICK start \in Starts : Layout(start)
    BY DEF IInv, BytesInOrder
  <1>2. SUFFICES ASSUME msgs # <<>> PROVE FALSE
    OBVIOUS
  <1>3. PICK k \in Nat : k = Len(msgs) /\ k >= 1 /\ msgs[1] \in Messages
    BY <1>2 DEF IInv, RingTypeOK
  <1>4. Len(msgs[1]) \in Nat /\ Len(msgs[1]) >= 1
    BY <1>3, MessagesAssumption
  <1>5. start[1] = 0 /\ start[2] = start[1] + Len(msgs[1]) /\ start[2] \in 0 .. 0
    BY <1>1, <1>3 DEF Layout, Starts
  <1> QED
    BY <1>4, <1>5

\* push_buffer is Put.
LEMMA PushRefines ==
    ASSUME IInv, NEW buf \in Messages, PushBuffer(buf)
    PROVE  Fifo!Put(buf)
  <1>1. current_size \in 0 .. CAPACITY /\ Len(buf) \in Nat /\ Len(buf) >= 1
    BY MessagesAssumption DEF IInv, RingTypeOK
  <1>2. CASE CanFit(Len(buf)) # 1
    <2>1. current_size + Len(buf) > CAPACITY
      BY <1>1, <1>2 DEF CanFit
    <2> QED
      BY <1>2, <2>1 DEF PushBuffer, bufferVars, Fifo!Put
  <1>3. CASE CanFit(Len(buf)) = 1
    <2>1. current_size + Len(buf) <= CAPACITY
      BY <1>1, <1>3 DEF CanFit
    <2> QED
      BY <1>3, <2>1 DEF PushBuffer, Fifo!Put
  <1> QED
    BY <1>2, <1>3

\* pop_buffer is Get.
LEMMA PopRefines ==
    ASSUME IInv, NEW len \in Lengths, PopBuffer(len)
    PROVE  Fifo!Get(len)
  <1> DEFINE hdr == Read(head, MSG_HDR_SIZE)
  <1>1. len \in Nat /\ MSG_HDR_SIZE \in Nat
    BY BuffersAssumption
  <1>2. CASE current_size = 0
    BY <1>2, EmptyBuffer DEF PopBuffer, bufferVars, Fifo!Get
  <1>3. CASE current_size # 0
    <2>1. /\ msgs # <<>> /\ Head(msgs) = msgs[1] /\ Len(msgs[1]) \in Nat
          /\ Len(msgs[1]) >= MSG_HDR_SIZE
          /\ hdr = SubSeq(msgs[1], 1, MSG_HDR_SIZE) /\ LengthField[hdr] = Len(msgs[1])
      BY <1>3, OldestMessage
    <2>2. CASE len < MSG_HDR_SIZE
      BY <1>1, <1>3, <2>1, <2>2 DEF PopBuffer, bufferVars, Fifo!Get
    <2>3. CASE len >= MSG_HDR_SIZE /\ len < LengthField[hdr]
      <3>1. ret' = -1 /\ out' = hdr /\ UNCHANGED <<bufferVars, msgs>>
        BY <1>1, <1>3, <2>1, <2>3 DEF PopBuffer
      <3> QED
        BY <2>1, <2>3, <3>1 DEF bufferVars, Fifo!Get
    <2>4. CASE len >= MSG_HDR_SIZE /\ len >= LengthField[hdr]
      <3>1. /\ ret' = 1 /\ out' = msgs[1] /\ msgs' = Tail(msgs)
            /\ current_size' = current_size - Len(msgs[1])
        BY <1>3, <2>4, PoppedBytes
      <3> QED
        BY <2>1, <2>4, <3>1 DEF Fifo!Get
    <2> QED
      BY <1>1, <2>1, <2>2, <2>3, <2>4
  <1> QED
    BY <1>2, <1>3

\* The ring buffer implements the bounded queue of whole messages: whatever the
\* capacity, no message is torn, reordered, lost or invented, and a push fails
\* just when its bytes do not fit.
THEOREM RingImplementsFifo == RingSpec => FifoRefinement
  <1>1. RingInit => Fifo!FifoInit
    BY DEF RingInit, Fifo!FifoInit
  <1>2. ASSUME IInv, [RingNext]_ringVars PROVE [Fifo!FifoNext]_(Fifo!fifoVars)
    <2>1. CASE \E m \in Messages : PushBuffer(m)
      BY <1>2, <2>1, PushRefines DEF Fifo!FifoNext
    <2>2. CASE \E len \in Lengths : PopBuffer(len)
      BY <1>2, <2>2, PopRefines DEF Fifo!FifoNext
    <2>3. CASE UNCHANGED ringVars
      BY <2>3 DEF ringVars, bufferVars, Fifo!fifoVars
    <2> QED
      BY <1>2, <2>1, <2>2, <2>3 DEF RingNext
  <1> QED
    BY <1>1, <1>2, RingInvariant, PTL DEF RingSpec, FifoRefinement, Fifo!FifoSpec
=============================================================================

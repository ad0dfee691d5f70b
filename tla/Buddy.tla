------------------------------- MODULE Buddy -------------------------------
(***************************************************************************)
(* The buddy allocator of k_mem.c, one memory pool of it: the code for     *)
(* IRAM1 and IRAM2 differs in constants only.                              *)
(*                                                                         *)
(* bit_tree has a bit for each node of the tree, in the order of the       *)
(* levels.  The free list of a level runs through the free blocks          *)
(* themselves: a DNODE is the first bytes of a block.  The contents of a   *)
(* block that a caller has are JUNK to the allocator.  (The tail of a      *)
(* DLIST is left out: it is written in some places and read in none.)      *)
(*                                                                         *)
(* Calls run in the SVC handler or in the UART interrupt handler, which do *)
(* not preempt each other: each is one step.                               *)
(***************************************************************************)
EXTENDS Blocks, Sequences, FiniteSetsExt, Functions

CONSTANTS
    JUNK,       \* what a caller may have written
    MaxHeld     \* bound: callers have at most this many blocks at a time

ASSUME JunkAssumption == JUNK \notin Int \cup {NULL}
ASSUME MaxHeldAssumption == MaxHeld \in Nat

VARIABLES
    bit_tree,       \* bit_tree_ram1 or bit_tree_ram2
    head,           \* the heads of free_list_ram1 or free_list_ram2
    node,           \* the DNODE at each address
    ub,             \* the code has followed a link in a caller's memory
    held,           \* history: the blocks callers have
    asked,          \* history: the size the last call asked for, NULL if none
    ret             \* what the last call returned

memVars == <<bit_tree, head, node, ub>>
vars    == <<memVars, held, asked, ret>>

Nodes   == 0 .. POWER2[MAX_LEVELS] - 2
Link    == Addrs \cup {NULL, JUNK}
DNODE   == [prev : Link, next : Link]
Junk    == [prev |-> JUNK, next |-> JUNK]

\* The memory as one value, and the step to another one.
Memory     == [bit_tree |-> bit_tree, head |-> head, node |-> node, ub |-> ub]
Becomes(k) == bit_tree' = k.bit_tree /\ head' = k.head /\ node' = k.node /\ ub' = k.ub

\* The node of the tree for the x-th block of level l, and the x of an address.
Index(l, x) == POWER2[l] - 1 + x
Nth(a, l)   == a \div Width(l)

Undefined(k) == [k EXCEPT !.ub = TRUE]

set_bit(k, l, x)   == [k EXCEPT !.bit_tree[Index(l, x)] = 1]
clear_bit(k, l, x) == [k EXCEPT !.bit_tree[Index(l, x)] = 0]
check_bit(k, l, x) == k.bit_tree[Index(l, x)]

\* The other child of the same parent.
Sibling(x) == IF x % 2 = 0 THEN x + 1 ELSE x - 1

\* Where the parent of the x-th block of level l starts, and where its buddy does.
get_address(a, x, l)       == a - (x % 2) * Width(l)
get_buddy_address(a, x, l) == IF x % 2 = 0 THEN a + Width(l) ELSE a - Width(l)

\* The DNODEs once prev has been written in the one at n, if n is one.
Relinked(k, n, prev) == [a \in Addrs |-> IF a = n THEN [k.node[a] EXCEPT !.prev = prev]
                                         ELSE k.node[a]]

\* The addresses met from the head of the list of level l on, at most one more
\* than there are: k_mpool_dump prints and counts them.
FreeList(k, l) ==
    LET next(path) == IF path = <<>> THEN k.head[l]
                      ELSE IF path[Len(path)] = JUNK THEN NULL
                      ELSE k.node[path[Len(path)]].next
        walk[n \in 0 .. Width(0) + 1] ==
            IF n = 0 THEN <<>>
            ELSE LET path == walk[n - 1]
                 IN  IF next(path) = NULL THEN path ELSE Append(path, next(path))
    IN  walk[Width(0) + 1]

----------------------------------------------------------------------------
(***************************************************************************)
(* Allocation.                                                             *)
(***************************************************************************)
\* Mutant of LOG2: off by one, a power of two is doubled once more.
LOG2_above(size) ==
    LET power[n \in 0 .. MAX_LEVELS] ==
            IF MIN_BLK_SIZE * POWER2[n] <= size THEN power[n + 1] ELSE n
    IN  power[0]

\* LOG2 less MIN_BLK_SIZE_LOG2: how often a smallest block is doubled to hold size.
LOG2(size) ==
    LET power[n \in 0 .. MAX_LEVELS] ==
            IF MIN_BLK_SIZE * POWER2[n] < size THEN power[n + 1] ELSE n
    IN  power[0]

\* Mutant of TakeHead: the block stays on its list.
TakeHeadStays(k, l) ==
    LET b == k.head[l]
    IN  IF k.node[b].next = JUNK THEN Undefined(k) ELSE set_bit(k, l, Nth(b, l))

\* The block at the head of the list of level l comes off it, in use.
TakeHead(k, l) ==
    LET b == k.head[l]
        n == k.node[b].next
    IN  IF n = JUNK THEN Undefined(k)
        ELSE set_bit([k EXCEPT !.head[l] = n, !.node = Relinked(k, n, NULL)], l, Nth(b, l))

\* Its two halves become the list of the level below, whatever was there.
Split(k, l) ==
    LET b == k.head[l]
        c == b + Width(l + 1)
    IN  [TakeHead(k, l) EXCEPT !.head[l + 1] = b,
                               !.node[b] = [prev |-> NULL, next |-> c],
                               !.node[c] = [prev |-> b, next |-> NULL]]

\* The level a block of which is asked for, and the nearest one at or above it
\* that has a free block.
LevelFor(size) == MAX_LEVELS - 1 - LOG2(size)
NonEmpty(size) == {l \in 0 .. LevelFor(size) : head[l] # NULL}

SplitDown(from, to) ==
    LET after[l \in from .. to] == IF l = from THEN Memory ELSE Split(after[l - 1], l - 1)
    IN  after[to]

\* k_mpool_alloc
Alloc(size) ==
    /\ asked' = size
    /\ \/ /\ size = 0 \/ size > RAM_SIZE \/ NonEmpty(size) = {}
          /\ ret' = NULL
          /\ UNCHANGED <<memVars, held>>
       \/ /\ size > 0 /\ size <= RAM_SIZE /\ NonEmpty(size) # {}
          /\ LET l == LevelFor(size)
                 k == SplitDown(Max(NonEmpty(size)), l)
                 b == [level |-> l, addr |-> k.head[l]]
             IN  /\ Becomes([TakeHead(k, l) EXCEPT
                        !.node = [a \in Addrs |-> IF a \in Cells(b) THEN Junk ELSE @[a]]])
                 /\ held' = held \cup {b}
                 /\ ret' = b.addr

----------------------------------------------------------------------------
(***************************************************************************)
(* Deallocation.                                                           *)
(***************************************************************************)
\* pop_block: the search ends before the last block of the list, and does not
\* find that one.
pop_block(k, l, b) ==
    LET path == FreeList(k, l)
        n    == k.node[b].next
        p    == k.node[b].prev
    IN  CASE path = <<>> -> k
          [] path # <<>> /\ k.head[l] = b ->
               IF n = JUNK THEN Undefined(k)
               ELSE [k EXCEPT !.head[l] = n, !.node = Relinked(k, n, NULL)]
          [] path # <<>> /\ k.head[l] # b ->
               IF Len(path) > Width(0) \/ JUNK \in Range(path) THEN Undefined(k)
               ELSE IF \A i \in 2 .. Len(path) - 1 : path[i] # b THEN k
               ELSE IF p \notin Addrs THEN Undefined(k)
               ELSE [k EXCEPT !.node = [Relinked(k, n, p) EXCEPT ![p].next = n]]

\* Mutant of push_head: the old head does not learn of the new one.
push_head_one_way(k, l, b) ==
    LET h == k.head[l]
    IN  [k EXCEPT !.head[l] = b,
                  !.node[b] = [prev |-> NULL, next |-> IF b = h THEN k.node[b].next ELSE h]]

\* The freed block becomes the head of its list, unless it is there already.
push_head(k, l, b) ==
    LET h == k.head[l]
    IN  [k EXCEPT !.head[l] = b,
                  !.node = [Relinked(k, h, b) EXCEPT
                     ![b] = [prev |-> NULL, next |-> IF b = h THEN k.node[b].next ELSE h]]]

\* Mutants of Climb: the buddy is left on its list, the loop is an if, and the
\* bit of the block stays set.
ClimbLeavesBuddy(s) ==
    LET x == Nth(s.addr, s.level)
        k == clear_bit(s.k, s.level, x)
    IN  IF s.done \/ s.level = 0 THEN s
        ELSE IF check_bit(k, s.level, Sibling(x)) = 1 THEN [s EXCEPT !.k = k, !.done = TRUE]
        ELSE [k |-> k, addr |-> get_address(s.addr, x, s.level),
              level |-> s.level - 1, done |-> FALSE]
ClimbOnce(s) ==
    LET x == Nth(s.addr, s.level)
        k == clear_bit(s.k, s.level, x)
    IN  IF s.done \/ s.level = 0 THEN s
        ELSE IF check_bit(k, s.level, Sibling(x)) = 1 THEN [s EXCEPT !.k = k, !.done = TRUE]
        ELSE [k     |-> pop_block(k, s.level, get_buddy_address(s.addr, x, s.level)),
              addr  |-> get_address(s.addr, x, s.level),
              level |-> s.level - 1,
              done  |-> TRUE]
ClimbKeepsBit(s) ==
    LET x == Nth(s.addr, s.level)
    IN  IF s.done \/ s.level = 0 THEN s
        ELSE IF check_bit(s.k, s.level, Sibling(x)) = 1 THEN [s EXCEPT !.done = TRUE]
        ELSE [k     |-> pop_block(s.k, s.level, get_buddy_address(s.addr, x, s.level)),
              addr  |-> get_address(s.addr, x, s.level),
              level |-> s.level - 1,
              done  |-> FALSE]

\* One turn of the loop: the block is free; when its buddy is as well, the two
\* become their parent and the loop goes on with that.  It ends at the root
\* before the root's bit is cleared.
Climb(s) ==
    LET x == Nth(s.addr, s.level)
        k == clear_bit(s.k, s.level, x)
    IN  IF s.done \/ s.level = 0 THEN s
        ELSE IF check_bit(k, s.level, Sibling(x)) = 1 THEN [s EXCEPT !.k = k, !.done = TRUE]
        ELSE [k     |-> pop_block(k, s.level, get_buddy_address(s.addr, x, s.level)),
              addr  |-> get_address(s.addr, x, s.level),
              level |-> s.level - 1,
              done  |-> FALSE]

Coalesce(l, ptr) ==
    LET after[i \in 0 .. l] ==
            IF i = 0 THEN [k |-> Memory, addr |-> ptr, level |-> l, done |-> FALSE]
            ELSE Climb(after[i - 1])
        s == after[l]
    IN  push_head(s.k, s.level, s.addr)

\* The pool as k_mpool_create leaves it, but for the bits.
OneFreeBlock(k) == [k EXCEPT !.head[0] = RAM_START,
                             !.node[RAM_START] = [prev |-> NULL, next |-> NULL]]

\* k_mpool_dealloc: the block at ptr is the lowest node above it whose bit is set.
InUse(ptr) == IF ptr \in Addrs THEN {l \in Levels : check_bit(Memory, l, Nth(ptr, l)) = 1} ELSE {}

Dealloc(ptr) ==
    /\ asked' = NULL
    /\ \/ /\ InUse(ptr) = {}
          /\ ret' = RTX_ERR
          /\ UNCHANGED <<memVars, held>>
       \/ /\ InUse(ptr) # {}
          /\ Becomes(IF Max(InUse(ptr)) > 0 THEN Coalesce(Max(InUse(ptr)), ptr)
                     ELSE OneFreeBlock(clear_bit(Memory, 0, 0)))
          /\ held' = {b \in held : b.addr # ptr}
          /\ ret' = RTX_OK

----------------------------------------------------------------------------
\* k_mpool_create
Init ==
    /\ bit_tree = [i \in Nodes |-> 0]
    /\ head = [l \in Levels |-> IF l = 0 THEN RAM_START ELSE NULL]
    /\ node = [a \in Addrs |-> IF a = RAM_START THEN [prev |-> NULL, next |-> NULL] ELSE Junk]
    /\ ub = FALSE
    /\ held = {}
    /\ asked = NULL
    /\ ret = RTX_OK

\* Callers free what they have, once, or the null pointer.
Request == Cardinality(held) < MaxHeld /\ \E size \in Sizes : Alloc(size)

Next == /\ ~ub
        /\ \/ Request
           \/ Dealloc(NULL)
           \/ \E b \in held : Dealloc(b.addr)

\* Orders of freeing in which no buddy that is merged is the last of a longer
\* free list.
LastOfMany(a, l) == LET path == FreeList(Memory, l)
                    IN  Len(path) > 1 /\ path[Len(path)] = a
Careful(b) ==
    LET buddy(l) == Sibling(Nth(b.addr, l))
    IN  \A l \in 1 .. b.level :
            (\A i \in l .. b.level : check_bit(Memory, i, buddy(i)) = 0)
                => ~LastOfMany(buddy(l) * Width(l), l)

CarefulNext == /\ ~ub
               /\ \/ Request
                  \/ Dealloc(NULL)
                  \/ \E b \in held : Careful(b) /\ Dealloc(b.addr)

Spec        == Init /\ [][Next]_vars
CarefulSpec == Init /\ [][CarefulNext]_vars

----------------------------------------------------------------------------
(***************************************************************************)
(* Properties.                                                             *)
(***************************************************************************)
BuddyTypeOK ==
    /\ bit_tree \in [Nodes -> {0, 1}]
    /\ head \in [Levels -> Addrs \cup {NULL}]
    /\ node \in [Addrs -> DNODE]
    /\ ub \in BOOLEAN
    /\ held \subseteq Block
    /\ asked \in Sizes \cup {NULL}
    /\ ret \in Addrs \cup {NULL, RTX_OK, RTX_ERR}

FreeBlocks == UNION {{[level |-> l, addr |-> a] : a \in Addrs \cap Range(FreeList(Memory, l))}
                       : l \in Levels}

\* The allocator never follows a link that lies in memory a caller has, or has
\* had and written to.
NoJunkFollowed == ~ub

\* The free lists are proper doubly linked lists of blocks of their level.
FreeListsLinked ==
    \A l \in Levels :
        LET path == FreeList(Memory, l)
        IN  /\ Len(path) <= Width(0)
            /\ \A i \in 1 .. Len(path) :
                  /\ [level |-> l, addr |-> path[i]] \in Block
                  /\ node[path[i]].prev = IF i = 1 THEN NULL ELSE path[i - 1]

\* No memory is lost and none is there twice: every cell of the pool is in
\* exactly one block, and that is either free or held.  So the lists a split
\* overwrites were empty (the question at k_mem.c:394).
NothingLostOrShared ==
    LET free == FreeBlocks
    IN  /\ free \cap held = {}
        /\ \A a \in Addrs : Cardinality({b \in free \cup held : a \in Cells(b)}) = 1

\* No block is handed out, or can be, that overlaps one a caller has ("No extra
\* memory exists", reports/lab1_report.pdf, page 8).
NothingShared == \A b \in FreeBlocks \cup held, c \in held : b # c => ~Overlap(b, c)

\* Free buddies have been merged.
Coalesced ==
    LET free == FreeBlocks
    IN  \A b \in free : b.level > 0 =>
            [level |-> b.level, addr |-> Sibling(Nth(b.addr, b.level)) * Width(b.level)] \notin free

\* The bit of a node below the root is set exactly when the node is in use: it is
\* held, or split with something in it in use.
BitsExact ==
    \A b \in Block : b.level > 0 =>
        (bit_tree[Index(b.level, Nth(b.addr, b.level))] = 1
           <=> \E h \in held : h.level >= b.level /\ Overlap(h, b))

\* The pool keeps its promise to its callers: the smallest block that fits, in
\* memory nobody else has, refused only when there is no place for one.
Pool == INSTANCE BlockPool
PromiseKept == Pool!PoolSpec
=============================================================================

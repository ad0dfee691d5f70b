----------------------------- MODULE BlockPool -----------------------------
(***************************************************************************)
(* What a memory pool promises its callers: a request gets the smallest    *)
(* block that holds it, in memory nobody else has, and is refused only     *)
(* when no place for such a block is free.                                 *)
(***************************************************************************)
EXTENDS Blocks

VARIABLES
    held,   \* the blocks that callers have
    asked,  \* the size the last call asked for, NULL if it was no request
    ret     \* what the last call returned

poolVars == <<held, asked, ret>>

PoolInit == held = {} /\ asked = NULL /\ ret = RTX_OK

\* b is of the smallest kind for size bytes, and nobody has memory of it.
Fits(b, size)  == /\ size <= Bytes(b.level)
                  /\ \A l \in Levels : size <= Bytes(l) => l <= b.level
Place(b, size) == Fits(b, size) /\ \A h \in held : ~Overlap(b, h)

Request(size) ==
    /\ asked' = size
    /\ \/ /\ size > 0
          /\ \E b \in Block : ret' = b.addr /\ held' = held \cup {b} /\ Place(b, size)
       \/ /\ ret' = NULL
          /\ UNCHANGED held
          /\ size = 0 \/ ~\E b \in Block : Place(b, size)

Release(b) == /\ b \in held
              /\ held' = held \ {b}
              /\ asked' = NULL
              /\ ret' = RTX_OK

\* The null pointer is no block.
Refuse == ret' = RTX_ERR /\ asked' = NULL /\ UNCHANGED held

PoolNext == \/ \E size \in Sizes : Request(size)
            \/ \E b \in held : Release(b)
            \/ Refuse
PoolSpec == PoolInit /\ [][PoolNext]_poolVars
=============================================================================

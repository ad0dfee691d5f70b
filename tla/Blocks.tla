------------------------------- MODULE Blocks -------------------------------
(***************************************************************************)
(* The blocks of a memory pool: the nodes of a complete binary tree whose  *)
(* root is the pool and whose leaves are the smallest blocks.  Addresses   *)
(* are counted in smallest blocks from the start of the pool.              *)
(***************************************************************************)
EXTENDS Integers

CONSTANTS
    MAX_LEVELS,     \* levels of the tree: 8 for IRAM1, 11 for IRAM2
    MIN_BLK_SIZE,   \* bytes of a smallest block
    Sizes,          \* the sizes, in bytes, that callers ask for
    NULL, RTX_OK, RTX_ERR

ASSUME LevelsAssumption == MAX_LEVELS \in Nat \ {0}
ASSUME MinBlkAssumption == MIN_BLK_SIZE \in Nat \ {0}
ASSUME SizesAssumption  == Sizes \subseteq Nat
ASSUME CodesAssumption  == {NULL, RTX_OK, RTX_ERR} \cap Int = {}

Levels == 0 .. MAX_LEVELS - 1

\* 2 to the n, by doubling.
POWER2[n \in 0 .. MAX_LEVELS] == IF n = 0 THEN 1 ELSE 2 * POWER2[n - 1]

\* Cells, and bytes, of a block of level l.
Width(l) == POWER2[MAX_LEVELS - 1 - l]
Bytes(l) == MIN_BLK_SIZE * Width(l)
RAM_SIZE == Bytes(0)

Addrs     == 0 .. Width(0) - 1
RAM_START == 0
Block     == {b \in [level : Levels, addr : Addrs] : b.addr % Width(b.level) = 0}

Cells(b)       == b.addr .. b.addr + Width(b.level) - 1
Overlap(b, c)  == Cells(b) \cap Cells(c) # {}
=============================================================================

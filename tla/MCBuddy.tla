------------------------------ MODULE MCBuddy ------------------------------
(***************************************************************************)
(* Four levels: a pool of eight smallest blocks of two bytes.  The sizes   *)
(* are one for each level, rounded up or exact, and the two refused.       *)
(***************************************************************************)
EXTENDS Buddy

MCSizes == {0, 1, 4, 5, 16, 17}
=============================================================================

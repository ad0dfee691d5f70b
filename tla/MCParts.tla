------------------------------ MODULE MCParts ------------------------------
(***************************************************************************)
(* The two parts that share nothing with any other: the ring buffer of a   *)
(* mailbox and the wall clock.  Neither knows of the other, so each moves  *)
(* while the other stands at its beginning, and a behaviour is one of      *)
(* either.                                                                 *)
(***************************************************************************)
EXTENDS MailboxBuffer, WallClock

\* A buffer of seven bytes, headers of two (the length and a tag) and messages of two,
\* three and five bytes, so that headers and bodies both get to straddle the end of
\* the memory.
MCByte        == 0 .. 9
MCLengthField == [h \in Header |-> h[1]]
MCMessages    == {<<2, 6>>, <<2, 7>>, <<3, 6, 8>>, <<5, 7, 6, 8, 9>>}
MCFresh       == {[a \in 0 .. CAPACITY - 1 |-> 0]}

\* The commands %WR, %WT, and %WS with times on both sides of every carry, with times
\* that are none, and with no time, whose place the buffer may fill with an old one;
\* and a %W alone.
W == 87
Set(t) == <<W, Chars.S, Chars.space>> \o SubSeq(ClockString(t), 1, 8)
MCCommands ==
    {<<W>>, <<W, Chars.R>>, <<W, Chars.T>>, <<W, Chars.S>>}
    \cup {Set(t) : t \in {<<9, 59, 58>>, <<23, 59, 58>>, <<19, 8, 59>>, <<24, 0, 0>>,
                          <<12, 60, 0>>, <<12, 0, 60>>, <<30, 0, 0>>}}

PartsInit == RingInit /\ WallClockInit
PartsNext == \/ WallClockInit /\ RingNext /\ UNCHANGED wallClockVars
             \/ RingInit /\ WallClockNext /\ UNCHANGED ringVars
PartsSpec == PartsInit /\ [][PartsNext]_<<ringVars, wallClockVars>>
=============================================================================

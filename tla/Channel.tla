------------------------------ MODULE Channel ------------------------------
(***************************************************************************)
(* What message passing promises, whatever buffers, waiting lists and the  *)
(* scheduler do: to each mailbox there is one line of messages, those      *)
(* stored and those of blocked senders.  A send puts its message at the    *)
(* end of a line, a receive takes the first one, and no message is lost,   *)
(* duplicated or overtaken.                                                *)
(***************************************************************************)
EXTENDS Sequences

CONSTANTS Chans, Msgs

VARIABLE line

Init == line = [c \in Chans |-> <<>>]

Send(c)    == \E msg \in Msgs : line'[c] = Append(line[c], msg)
Receive(c) == line[c] # <<>> /\ line'[c] = Tail(line[c])
Next       == \E c \in Chans : /\ Send(c) \/ Receive(c)
                               /\ \A d \in Chans \ {c} : line'[d] = line[d]
Spec == Init /\ [][Next]_line
=============================================================================

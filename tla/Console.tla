------------------------------ MODULE Console ------------------------------
(***************************************************************************)
(* The console: the keyboard and the transmitter of the UART interrupt,    *)
(* the KCD task, the console display task, and the tasks that handle the   *)
(* commands.                                                               *)
(*                                                                         *)
(* A mailbox with its waiting list is one line of messages, what           *)
(* KMsg!LosslessFifo shows it to be: the first Room(m) of them are in the  *)
(* ring buffer and the senders of the others are blocked.  Messages count  *)
(* one each, and the steps between two kernel calls of the tasks           *)
(* interleave in any order.                                                *)
(***************************************************************************)
EXTENDS Naturals, FiniteSets, SequencesExt

CONSTANTS
    Keys,               \* the keys the user types, "%", "enter", "L", "T" or "M" among them
    MaxKeys, Scripts,   \* bounds on the typing: any keys up to a number, and longer texts
    Handlers,           \* the tasks that register a command, the wall clock one of them
    Registers,          \* the command each of them registers
    Apps,               \* those of the application, which may exit and answer on UART1
    KCD_ROOM, CON_ROOM, UART_ROOM, HANDLER_ROOM,     \* what the mailboxes hold
    KCD_CMD_BUF_SIZE,
    Garbage             \* what the command buffer may hold before it is first written

ASSUME ConsoleAssumption ==
    /\ MaxKeys \in Nat /\ Scripts \subseteq Seq(Keys)
    /\ Registers \in [Handlers -> Keys] /\ Apps \subseteq Handlers
    /\ KCD_CMD_BUF_SIZE \in Nat \ {0, 1}
    /\ Garbage \subseteq Keys

\* Names tell apart what they stand for: the tasks, the keys, and the texts.
Texts == {"LT", "LM", "Command not found", "Invalid command"}
ASSUME NamesAssumption ==
    /\ Handlers \cap ({"KCD", "CON", "UART", "none"} \cup Keys) = {} /\ Texts \cap Keys = {}
    /\ IsFiniteSet(Handlers)

VARIABLES
    line,               \* the mailboxes
    cmd_reg_list,       \* the linked list of registered commands
    input_queue,        \* the keys since the last enter
    input,              \* the command buffer, from the heap
    cmd_length,
    entered,            \* the KCD has echoed an enter key and not yet looked at the line
    todo,               \* the messages the KCD has still to send for this key
    enabling,           \* the CON task is between its send and its write to IER
    ier,                \* the bit IER_THRE
    state,              \* of each handler
    ub,
    heard,              \* history: the messages sent to the KCD, in order
    answers,            \* history: what the KCD made of each line
    shown               \* history: the echoed keys transmitted

kcdVars     == <<cmd_reg_list, input_queue, input, cmd_length, entered, todo, answers>>
uartVars    == <<enabling, ier, shown>>
consoleVars == <<line, kcdVars, uartVars, state, ub, heard>>

NoKey == "none"
Room(m) == CASE m = "KCD" -> KCD_ROOM [] m = "CON" -> CON_ROOM [] m = "UART" -> UART_ROOM
             [] OTHER -> HANDLER_ROOM

Msg(type, from, data) == [type |-> type, from |-> from, data |-> data]
IsKey(m)   == m.type = "KEY_IN"
IsEnter(m) == IsKey(m) /\ m.data[1] = "enter"
IsEcho(m)  == m.type = "DISPLAY" /\ m.from # "UART" /\ Len(m.data) = 1 /\ m.data[1] \in Keys

\* The keys, and the echoed keys, in a sequence of messages.
KeysIn(s)   == FlattenSeq([i \in DOMAIN s |-> IF IsKey(s[i]) THEN s[i].data ELSE <<>>])
EchoesIn(s) == FlattenSeq([i \in DOMAIN s |-> IF IsEcho(s[i]) THEN s[i].data ELSE <<>>])
Typed       == KeysIn(heard)

\* Mutant of Sent: send_msg_nb, which loses the message when there is no room; "non-
\* blocking send" is what the comments at the calls of the KCD say.
SentNb(l, m, msg) == IF Len(l[m]) < Room(m) THEN [l EXCEPT ![m] = Append(@, msg)] ELSE l

\* send_msg: the message joins the line, and its sender is blocked while it is
\* beyond the room of the mailbox.
Sent(l, m, msg) == [l EXCEPT ![m] = Append(@, msg)]
Blocked(t) == \E m \in DOMAIN line :
                 \E i \in DOMAIN line[m] : i > Room(m) /\ line[m][i].from = t

----------------------------------------------------------------------------
(***************************************************************************)
(* The KCD.                                                                *)
(***************************************************************************)
\* Mutant of Registered: a command that is there already is registered again, at
\* the end of the list.
RegisteredTwice(list, c, t) == Append(list, [command |-> c, tid |-> t])

\* A command registered again gets the new handler.
Registered(list, c, t) ==
    LET same == {i \in DOMAIN list : list[i].command = c}
    IN  IF same = {} THEN Append(list, [command |-> c, tid |-> t])
        ELSE [list EXCEPT ![Min(same)].tid = t]

\* The messages that carry text, by their meaning.
Text(what) == Msg("DISPLAY", "KCD", <<what>>)
Reply(to, msg) == [to |-> to, msg |-> msg]

\* The outcome of a line: what is sent, how it is recorded, the buffer and the
\* length it leaves, and whether memory that is not the KCD's has been written.
Outcome(sends, answer, buf, len, overruns) ==
    [sends |-> sends, answer |-> answer, input |-> buf, cmd_length |-> len,
     overruns |-> overruns]

\* display_buffer has room for one character and gets seventeen or nineteen.
Complain(what, buf, len) == Outcome(<<Reply("CON", Text(what))>>, <<what>>, buf, len, TRUE)

\* %LT and %LM: the ids of the tasks go to a buffer that has room for one, and a
\* message goes to the display for each.  cmd_length is left as it is.  tsk_exit leaves
\* a task RUNNING and its mailbox active, so that both stay on the lists.
Listing(what, ids, buf, len) ==
    Outcome([i \in 1 .. Cardinality(ids) |-> Reply("CON", Text(what))], <<what>>, buf, len, TRUE)
ListTasks(buf, len) == Listing("LT", {"NULL", "KCD", "CON"} \cup Handlers, buf, len)
ListBoxes(buf, len) == Listing("LM", {"KCD", "CON"} \cup Handlers, buf, len)

\* The data of a KCD_CMD message, which runs on past the buffer with cmd_length.
Data(buf, len) == [i \in 1 .. len |-> IF i \in DOMAIN buf THEN buf[i] ELSE NoKey]

\* The lookup.  With nothing registered it follows a NULL pointer.  The handler is
\* refused when it is DORMANT, which a task that has called tsk_exit is not.
Lookup(buf, len) ==
    LET found == {i \in DOMAIN cmd_reg_list : cmd_reg_list[i].command = buf[1]}
        t     == cmd_reg_list[Min(found)].tid
    IN  IF found = {} THEN Complain("Command not found", buf, 0)
        ELSE Outcome(<<Reply(t, Msg("KCD_CMD", "KCD", Data(buf, len)))>>,
                     <<"KCD_CMD", t>>, buf, 0, FALSE)

\* The characters after the "%" go to the front of the buffer, which keeps what is
\* behind them, and their number is added to cmd_length.
Command(rest) ==
    LET n   == IF Len(rest) < KCD_CMD_BUF_SIZE THEN Len(rest) ELSE KCD_CMD_BUF_SIZE
        buf == [i \in DOMAIN input |-> IF i <= n THEN rest[i] ELSE input[i]]
        len == cmd_length + n
    IN  IF Len(rest) > KCD_CMD_BUF_SIZE THEN Complain("Invalid command", buf, len)
        ELSE IF buf[1] = "L" /\ buf[2] = "T" THEN ListTasks(buf, len)
        ELSE IF buf[1] = "L" /\ buf[2] = "M" THEN ListBoxes(buf, len)
        ELSE Lookup(buf, len)

Nothing == Outcome(<<>>, <<"nothing">>, input, cmd_length, FALSE)

\* The enter key.
Entered ==
    IF input_queue = <<>> THEN Nothing
    ELSE IF input_queue[1] # "%" THEN Complain("Invalid command", input, cmd_length)
    ELSE IF Len(input_queue) = 1 THEN Nothing
    ELSE Command(Tail(input_queue))

KcdFree == ~ub /\ ~Blocked("KCD") /\ ~entered /\ todo = <<>>

\* A command is registered.
KcdRegister ==
    /\ KcdFree /\ line["KCD"] # <<>> /\ ~IsKey(line["KCD"][1])
    /\ LET m == line["KCD"][1]
       IN  cmd_reg_list' = Registered(cmd_reg_list, m.data[1], m.from)
    /\ line' = [line EXCEPT !["KCD"] = Tail(@)]
    /\ UNCHANGED <<input_queue, input, cmd_length, entered, todo, answers, uartVars, state, ub,
                   heard>>

Enqueued(c) == Append(input_queue, c)

\* A key is echoed, and one other than enter joins the queue.
KcdKey ==
    /\ KcdFree /\ line["KCD"] # <<>> /\ IsKey(line["KCD"][1])
    /\ LET m == line["KCD"][1] IN
       /\ line' = Sent([line EXCEPT !["KCD"] = Tail(@)], "CON", Msg("DISPLAY", "KCD", m.data))
       /\ entered' = (m.data[1] = "enter")
       /\ input_queue' = IF entered' THEN input_queue ELSE Enqueued(m.data[1])
    /\ UNCHANGED <<cmd_reg_list, input, cmd_length, todo, answers, uartVars, state, ub, heard>>

\* The enter key empties the queue, whatever the line is.
KcdEnter ==
    /\ ~ub /\ ~Blocked("KCD") /\ entered
    /\ LET e == Entered IN
       /\ todo' = e.sends /\ answers' = Append(answers, e.answer)
       /\ input' = e.input /\ cmd_length' = e.cmd_length
       /\ IF e.answer[1] = "Command not found" /\ cmd_reg_list = <<>> THEN ub' = TRUE
          ELSE ub' \in (IF e.overruns THEN BOOLEAN ELSE {FALSE})
    /\ input_queue' = <<>>
    /\ entered' = FALSE
    /\ UNCHANGED <<line, cmd_reg_list, uartVars, state, heard>>

\* send_msg, to a handler that may have exited: its mailbox takes what there is room
\* for, and then blocks the KCD for ever.
KcdSend ==
    /\ ~ub /\ ~Blocked("KCD") /\ todo # <<>>
    /\ line' = Sent(line, todo[1].to, todo[1].msg)
    /\ todo' = Tail(todo)
    /\ UNCHANGED <<cmd_reg_list, input_queue, input, cmd_length, entered, answers, uartVars, state,
                   ub, heard>>

----------------------------------------------------------------------------
(***************************************************************************)
(* The UART interrupt and the console display task.                        *)
(***************************************************************************)
\* A key arrives: k_send_msg_nb to the KCD, and a key that finds no room is lost.
KeyIn(c) ==
    /\ ~ub
    /\ Len(Typed) < MaxKeys \/ \E t \in Scripts : IsPrefix(Append(Typed, c), t)
    /\ Len(line["KCD"]) < KCD_ROOM
    /\ LET m == Msg("KEY_IN", "UART", <<c>>) IN
       /\ line' = Sent(line, "KCD", m)
       /\ heard' = Append(heard, m)
    /\ UNCHANGED <<kcdVars, uartVars, state, ub>>

\* Mutant of Settled: the CON task does not wait for the transmitter.
Unsettled == TRUE

\* The loop of ten thousand turns before IER is written outlasts the characters in
\* the FIFO, so that the interrupt is taken as soon as IER has been written.
Settled == ~ier

\* The buffer for a copy of the message is too small by the size of a header: what
\* is behind its block is overwritten when the text is a long one.
Long(m) == m.data[1] \in {"LT", "LM"}

ConReceive ==
    /\ ~ub /\ ~Blocked("CON") /\ ~enabling /\ Settled /\ line["CON"] # <<>>
    /\ LET m == line["CON"][1] IN
       /\ line' = Sent([line EXCEPT !["CON"] = Tail(@)], "UART", [m EXCEPT !.from = "CON"])
       /\ ub' \in (IF Long(m) THEN BOOLEAN ELSE {FALSE})
    /\ enabling' = TRUE
    /\ UNCHANGED <<kcdVars, ier, shown, state, heard>>

\* send_msg has returned: IER is written.
ConEnable ==
    /\ ~ub /\ ~Blocked("CON") /\ enabling
    /\ ier' = TRUE /\ enabling' = FALSE
    /\ UNCHANGED <<line, kcdVars, shown, state, ub, heard>>

\* The transmitter is empty: one message is transmitted, and IER_THRE toggled.
\* Without a message the length of another one, or of none, is used.
Transmit ==
    /\ ~ub /\ ier
    /\ IF line["UART"] = <<>> THEN ub' \in BOOLEAN /\ UNCHANGED <<line, shown>>
       ELSE LET m == line["UART"][1] IN
            /\ line' = [line EXCEPT !["UART"] = Tail(@)]
            /\ shown' = IF IsEcho(m) THEN Append(shown, m.data[1]) ELSE shown
            /\ UNCHANGED ub
    /\ ier' = ~ier
    /\ UNCHANGED <<kcdVars, enabling, state, heard>>

----------------------------------------------------------------------------
(***************************************************************************)
(* The handlers: the wall clock, whose answer to a command is a message to *)
(* the display, and the tasks of the application.                          *)
(***************************************************************************)
Registration(h) == Msg("KCD_REG", h, <<Registers[h]>>)

Register(h) ==
    /\ ~ub /\ state[h] = "start"
    /\ line' = Sent(line, "KCD", Registration(h))
    /\ heard' = Append(heard, Registration(h))
    /\ state' = [state EXCEPT ![h] = "ready"]
    /\ UNCHANGED <<kcdVars, uartVars, ub>>

HandlerReceive(h) ==
    /\ ~ub /\ state[h] = "ready" /\ ~Blocked(h) /\ line[h] # <<>>
    /\ line' = [line EXCEPT ![h] = Tail(@)]
    /\ state' = [state EXCEPT ![h] = IF h \in Apps THEN "ready" ELSE "answering"]
    /\ UNCHANGED <<kcdVars, uartVars, ub, heard>>

\* send_msg by the wall clock, a real-time task, which is not switched out when it is
\* blocked: it goes on with its message in the waiting list and frees the memory the
\* message is in, and nothing is said of what comes then.
HandlerAnswer(h) ==
    /\ ~ub /\ state[h] = "answering"
    /\ line' = Sent(line, "CON", Msg("DISPLAY", h, <<h>>))
    /\ state' = [state EXCEPT ![h] = "ready"]
    /\ ub' = (Len(line["CON"]) >= CON_ROOM)
    /\ UNCHANGED <<kcdVars, uartVars, heard>>

\* A task that is not blocked may exit at any time, with commands in its mailbox too.
HandlerExit(h) ==
    /\ ~ub /\ h \in Apps /\ state[h] = "ready" /\ ~Blocked(h)
    /\ state' = [state EXCEPT ![h] = "exited"]
    /\ UNCHANGED <<line, kcdVars, uartVars, ub, heard>>

----------------------------------------------------------------------------
\* The wall clock boots before the tasks of the application, and its registration
\* is in the KCD's mailbox before the first key.
ConsoleInit ==
    /\ heard = SetToSeq({Registration(h) : h \in Handlers \ Apps})
    /\ line = [m \in {"KCD", "CON", "UART"} \cup Handlers |->
                 IF m = "KCD" THEN heard ELSE <<>>]
    /\ cmd_reg_list = <<>> /\ input_queue = <<>>
    /\ \E c \in Garbage : input = [i \in 1 .. KCD_CMD_BUF_SIZE |-> c]
    /\ cmd_length = 0
    /\ entered = FALSE /\ todo = <<>> /\ answers = <<>>
    /\ enabling = FALSE /\ ier = FALSE /\ shown = <<>>
    /\ state = [h \in Handlers |-> IF h \in Apps THEN "start" ELSE "ready"]
    /\ ub = FALSE

Kcd       == KcdRegister \/ KcdKey \/ KcdEnter \/ KcdSend
Con       == ConReceive \/ ConEnable
Handle(h) == Register(h) \/ HandlerReceive(h) \/ HandlerAnswer(h)

ConsoleNext == \/ Kcd \/ Con \/ Transmit
               \/ \E c \in Keys : KeyIn(c)
               \/ \E h \in Handlers : Handle(h) \/ HandlerExit(h)

\* The KCD, the display task and the handlers run whenever they can: they boot at
\* the same priority and every one of them ends its turns in a blocking call (the
\* wall clock in rt_tsk_susp).  An enabled interrupt is taken.
ConsoleSpec == /\ ConsoleInit /\ [][ConsoleNext]_consoleVars
               /\ WF_consoleVars(Kcd) /\ WF_consoleVars(Con) /\ WF_consoleVars(Transmit)
               /\ \A h \in Handlers : WF_consoleVars(Handle(h))

----------------------------------------------------------------------------
(***************************************************************************)
(* Properties.                                                             *)
(***************************************************************************)
\* Every key the KCD has been sent is echoed once and in the order of the typing,
\* whatever else is displayed: it is on the screen, on its way there, or still
\* before the KCD.
EchoesInOrder ==
    shown \o EchoesIn(line["UART"]) \o EchoesIn(line["CON"]) \o KeysIn(line["KCD"]) = Typed

\* A reference for the KCD: what it must make of the line that ends at p[i], from
\* the messages alone.
Enters(p)       == FlattenSeq([i \in DOMAIN p |-> IF IsEnter(p[i]) THEN <<i>> ELSE <<>>])
LastEnter(p, i) == Max({0} \cup {j \in 1 .. i - 1 : IsEnter(p[j])})
Line(p, i)      == KeysIn(SubSeq(p, LastEnter(p, i) + 1, i - 1))

Latest(p, i, c) ==
    LET regs == {j \in 1 .. i : p[j].type = "KCD_REG" /\ p[j].data[1] = c}
    IN  IF regs = {} THEN NoKey ELSE p[Max(regs)].from

Expected(p, i) ==
    LET l == Line(p, i)
        n == Len(l) - 1
        h == Latest(p, i, l[2])
    IN  IF n = -1 THEN {<<"nothing">>}
        ELSE IF l[1] # "%" \/ n > KCD_CMD_BUF_SIZE THEN {<<"Invalid command">>}
        ELSE IF n = 0 THEN {<<"nothing">>}
        ELSE IF n >= 2 /\ l[2] = "L" /\ l[3] \in {"T", "M"}
        THEN {<<IF l[3] = "T" THEN "LT" ELSE "LM">>}
        ELSE {IF h # NoKey THEN <<"KCD_CMD", h>> ELSE <<"Command not found">>}
             \cup (IF l = <<"%", "L">> THEN {<<"LT">>, <<"LM">>} ELSE {})

\* Every line is answered, once and in order, as its characters and the
\* registrations that came before its enter key ask for: no flag, queue or length
\* left over from one line changes the answer to the next, with the exception of a
\* single "%L", which the buffer may complete with the second letter of an earlier
\* line (kcd_task.c:184, 304).
AnswersAgree ==
    ~ub /\ ~entered =>
        LET p == SubSeq(heard, 1, Len(heard) - Len(line["KCD"]))
        IN  /\ Len(answers) = Len(Enters(p))
            /\ \A i \in DOMAIN answers : answers[i] \in Expected(p, Enters(p)[i])

\* The KCD is blocked on the mailbox of a task that has exited, which nobody empties.
Deserted == \E h \in Handlers : state[h] = "exited" /\ Len(line[h]) > HANDLER_ROOM

\* Every key the KCD is sent is displayed in the end: there is no time after which keys
\* stay undisplayed, with everyone waiting for everyone or a message forgotten in a
\* mailbox, unless the KCD has filled the mailbox of a handler that has exited
\* (kcd_task.c:483 lets it send to one).
EveryKeyShown == []<>(shown = Typed \/ ub \/ Deserted)

\* A KCD_CMD is "a message that contains a command" (common.h:136): the command
\* that was typed, and no more.
CommandIsWhatWasTyped ==
    [][entered /\ ~entered' =>
         \A i \in DOMAIN todo' :
            todo'[i].msg.type = "KCD_CMD" => todo'[i].msg.data = Tail(input_queue)]_consoleVars
=============================================================================

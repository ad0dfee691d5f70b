------------------------------- MODULE Suites -------------------------------
(***************************************************************************)
(* The test suites of AE-Lib on the whole system: the tasks of a suite and *)
(* the system tasks, each running its own program, with the timer and the  *)
(* keyboard interrupting any of them.                                      *)
(*                                                                         *)
(* A program is the calls a task function makes, in order, and what it     *)
(* does between them that the suite looks at later.  "skip" jumps, and     *)
(* "retry" does so when the call before it failed.  What a call does is    *)
(* the action of KTask, KMsg or RealTime.                                  *)
(***************************************************************************)
EXTENDS System, SequencesExt

CONSTANTS
    SuiteNames,     \* the suites that are run
    Second,         \* a second, in ticks
    MBX_SIZE,       \* the capacity the tasks ask for their mailboxes
    MaxKeys         \* bound on the keys that are typed

ASSUME SuitesAssumption ==
    /\ SuiteNames \subseteq {"G99_TS200", "G99_TS300", "G12_TS1", "G12_TS2"}
    /\ Second \in Nat \ {0} /\ MBX_SIZE \in Nat /\ MaxKeys \in Nat

VARIABLES
    suite,
    thread,             \* where each task is in its program
    seq, pos,           \* g_tsk_cases[0].seq and .pos
    index,              \* the bit of the next sub-result: g_ae_xtest.index + 1
    results,            \* the bits of the results of the two tests
    finished,           \* test_exit has been called
    keys                \* history: the keys typed

testVars  == <<seq, pos, index, results, finished>>
suiteVars == <<sysVars, suite, thread, testVars, keys>>

----------------------------------------------------------------------------
(***************************************************************************)
(* The programs.                                                           *)
(***************************************************************************)
MEDIUM_INDEX == 2
TID_WCLCK    == SystemTids[3]
TID_CON      == SystemTids[1]
HDR          == MIN_MSG_SIZE

\* while (recv_msg_nb(buf, BUF_LEN) != RTX_OK) { tsk_yield(); update_exec_seq(); }
Await == << <<"skip", 2>>, <<"yield">>, <<"update">>, <<"recv_nb">>, <<"retry", -4>> >>

Twice(program) == program \o program

\* ae_tasks200_G99.c.  task1 would spoil the result by running at all, and so would
\* task2 and task3 by coming out of their loops: "I should not run".
Yielding ==
    Twice(<< <<"update">>, <<"yield">>, <<"yield_ret">>, <<"check">> >>)
      \o << <<"update">>, <<"start">> >>
TS200 == [
    priv_task1 |->
        << <<"create", "task2", HIGH_INDEX>>, <<"check">>,
           <<"create", "task3", HIGH_INDEX>>, <<"check">> >>
        \o Twice(<< <<"update">>, <<"yield_ret">>, <<"check">> >>)
        \o << <<"yield">>, <<"yield">>, <<"start">> >>,
    task1 |-> << <<"start">> >>,
    task2 |-> Yielding,
    task3 |-> Yielding]

\* ae_tasks300_G99.c.  The message with a body is the one of type DEFAULT.
Echo == Await \o << <<"reply">>, <<"check">> >>
TS300 == [
    task0 |->
        << <<"update">>, <<"create", "task1", HIGH_INDEX>>, <<"check">>,
           <<"create", "task2", HIGH_INDEX>>, <<"check">>, <<"mbx">>, <<"check">>,
           <<"yield">>, <<"update">>, <<"send_nb", 3, HDR>>, <<"check">>,
           <<"yield">>, <<"update">> >>
        \o Await
        \o << <<"check_msg", HDR, 3>>, <<"yield">>, <<"update">>, <<"start">> >>,
    task1 |->
        << <<"update">>, <<"mbx">>, <<"check">>,
           <<"send_nb", 3, HDR + 1>>, <<"yield">>, <<"update">>, <<"retry", -4>> >>
        \o Await
        \o << <<"check_msg", HDR + 1, 3>>, <<"check_msg", HDR + 1, 3>>,
              <<"check_msg", HDR + 1, 3>>, <<"yield">>, <<"update">>, <<"start">> >>,
    task2 |-> << <<"update">>, <<"mbx">>, <<"check">> >> \o Twice(Echo) \o << <<"exit">> >>]

\* ae_tasks1_G12.c
TS1 == [
    task0 |->
        << <<"update">>, <<"create", "task1", HIGH_INDEX>>, <<"check">>,
           <<"create", "task2", HIGH_INDEX>>, <<"check">>,
           <<"create", "task3", HIGH_INDEX>>, <<"check">>, <<"mbx">>, <<"check">>,
           <<"rt_set", {Second}>>, <<"update">>, <<"susp">>, <<"update">>,
           <<"send", 2, HDR + 2>>, <<"update">>, <<"start">> >>,
    task1 |->
        << <<"update">>, <<"mbx">>, <<"check">>, <<"rt_set", {Second}>>, <<"recv_nb">>,
           <<"update">>, <<"exit">> >>,
    task2 |-> << <<"update">>, <<"exit">> >>,
    task3 |-> << <<"spin">> >>]

\* ae_tasks2_G12.c.  A turn of the loops in which i % 6, i % 5 or i % 4 is neither
\* 0 nor 1 only prints.
Periodic(seconds) ==
    << <<"update">>, <<"update">>, <<"rt_set", {seconds * Second}>>,
       <<"susp">>, <<"update">>, <<"skip", -3>> >>
TS2 == [
    priv_task1 |->
        << <<"update">>, <<"rt_set", {5 * Second}>>, <<"create", "task2", MEDIUM_INDEX>>, <<"check">>,
           <<"create", "task3", MEDIUM_INDEX>>, <<"check">>, <<"create", "task0", MEDIUM_INDEX>>,
           <<"susp">>, <<"update">>, <<"susp">>, <<"check">>, <<"update">> >>
        \o Twice(<< <<"susp">>, <<"update">> >>)
        \o << <<"susp">>, <<"update">>, <<"check">>, <<"compare">> >>,
    task1 |-> << <<"update">>, <<"exit">> >>,
    task2 |-> Periodic(3),
    task3 |-> Periodic(4),
    task0 |-> << <<"spin">> >>]

\* The system tasks, without the commands: nobody types one during a suite.  The
\* microseconds of the wall clock's period are not initialised.
SystemCode == [
    task_null |-> << <<"yield">>, <<"skip", -2>> >>,
    task_cdisp |-> << <<"mbx">>, <<"recv">>, <<"send", TID_UART, HDR + 1>>, <<"skip", -3>> >>,
    task_kcd |-> << <<"mbx">>, <<"recv">>, <<"unless_key", 1>>, <<"send", TID_CON, HDR + 1>>,
                    <<"skip", -4>> >>,
    task_wall_clock |-> << <<"mbx">>, <<"send", TID_KCD, HDR + 1>>, <<"rt_set", Periods>>,
                           <<"recv_nb">>, <<"susp">>, <<"skip", -3>> >>]

Boots(f, prio, priv) == [f |-> f, prio |-> prio, priv |-> priv]

Suite200 == [code |-> TS200, bits |-> 6, len |-> 16, expt |-> <<1, 3, 4, 1, 3, 4>>,
             boot |-> <<Boots("priv_task1", HIGH_INDEX, TRUE), Boots("task1", MEDIUM_INDEX, FALSE)>>]
Suite300 == [code |-> TS300, bits |-> 12, len |-> 16, expt |-> <<1, 2, 3, 1, 2, 3, 1, 2, 1>>,
             boot |-> <<Boots("task0", HIGH_INDEX, FALSE)>>]
Suite1   == [code |-> TS1, bits |-> 5, len |-> 16, expt |-> <<1, 1, 2, 2, 3, 1, 1>>,
             boot |-> <<Boots("task0", HIGH_INDEX, FALSE)>>]
\* Its one test has the order for its last bits, and counts its bits from 1.
Suite2   == [code |-> TS2, bits |-> 29, len |-> 50,
             expt |-> <<1, 2, 3, 3, 4, 4, 3, 4, 3, 1, 3, 4, 1, 3, 4, 3, 1, 4, 3, 3, 4, 1, 3, 4, 1>>,
             boot |-> <<Boots("priv_task1", HIGH_INDEX, TRUE), Boots("task1", HIGH_INDEX, FALSE)>>]

Suite == CASE suite = "G99_TS200" -> Suite200 [] suite = "G99_TS300" -> Suite300
           [] suite = "G12_TS1" -> Suite1 [] suite = "G12_TS2" -> Suite2

Code(f) == (SystemCode @@ Suite.code)[f]

----------------------------------------------------------------------------
(***************************************************************************)
(* A task's next instruction.                                              *)
(***************************************************************************)
NoMsg    == [length |-> 0, sender_tid |-> TID_NULL]
Start(f) == [f |-> f, i |-> 1, ok |-> TRUE, msg |-> NoMsg]
Me       == thread[gp_current_task]
Ended    == Me.i > Len(Code(Me.f))
Ins      == Code(Me.f)[Me.i]
Is(op)   == Running /\ ~Ended /\ Ins[1] = op

\* A task that has called test_exit spins, at the end of its program.
Spinning == Up /\ (~Ended => Ins[1] = "spin")

Goto(n)  == thread' = [thread EXCEPT ![gp_current_task].i = @ + 1 + n]
Returns(ok) == [Me EXCEPT !.i = @ + 1, !.ok = ok]
Return(ok)  == thread' = [thread EXCEPT ![gp_current_task] = Returns(ok)]

\* The task calls of an instruction.  Yield's result is not always looked at.
TaskCall ==
    /\ \/ Is("yield") /\ Yield /\ Goto(0)
       \/ Is("yield_ret") /\ Yield /\ Return(TRUE)
       \/ /\ Is("create") /\ Create(Ins[3])
          /\ thread' = [thread EXCEPT ![gp_current_task] = Returns(TRUE),
                                      ![NewTid] = Start(Ins[2])]
       \/ Is("exit") /\ Exit /\ Goto(0)
    /\ UNCHANGED <<msgVars, rtVars>>

Mail(len) == [length |-> len, sender_tid |-> gp_current_task]
MsgCall ==
    /\ \/ Is("mbx") /\ MbxCreate(MBX_SIZE) /\ Return(TRUE)
       \/ Is("send") /\ SendMsg(Ins[2], Mail(Ins[3])) /\ Return(TRUE)
       \/ Is("send_nb") /\ SendMsgNb(Ins[2], Mail(Ins[3])) /\ Return(TRUE)
       \/ Is("reply") /\ SendMsgNb(Me.msg.sender_tid, Mail(Me.msg.length)) /\ Return(TRUE)
       \/ Is("recv") /\ RecvMsg(MBX_SIZE)
          /\ thread' = [thread EXCEPT ![gp_current_task] =
                          [Returns(TRUE) EXCEPT !.msg = IF Mine.msgs = <<>> THEN @ ELSE Head(Mine.msgs)]]
       \/ Is("recv_nb") /\ RecvMsgNb(MBX_SIZE)
          /\ thread' = [thread EXCEPT ![gp_current_task] =
                          [Returns(TRUE) EXCEPT !.msg = Head(Mine.msgs)]]
    /\ UNCHANGED rtVars

\* recv_msg goes on.
Resumed == /\ RecvResume /\ UNCHANGED rtVars
           /\ thread' = [thread EXCEPT ![gp_current_task].msg = Head(Mine.msgs)]

RtCall == /\ \/ Is("rt_set") /\ \E p \in Ins[2] : RtTskSet(p)
             \/ Is("susp") /\ RtTskSusp
          /\ Goto(0)
          /\ UNCHANGED msgVars

\* The non-blocking calls may fail.  A suite in which another call did would not
\* go on here, and would not finish.
Failure == /\ \/ Is("send_nb") /\ ~(MaySend(Ins[2], Mail(Ins[3])) /\ Room(Machine, Ins[2], Mail(Ins[3])))
              \/ Is("recv_nb") /\ ~(Mine.active /\ PopResult(Mine, MBX_SIZE) = 1)
           /\ Return(FALSE)
           /\ UNCHANGED sysVars

Call == /\ TaskCall \/ MsgCall \/ Resumed \/ RtCall \/ Failure
        /\ UNCHANGED testVars

----------------------------------------------------------------------------
(***************************************************************************)
(* The tester: what a suite records and finds.                             *)
(***************************************************************************)
\* update_exec_seq
Update == /\ Is("update") /\ Goto(0)
          /\ seq' = [seq EXCEPT ![pos] = gp_current_task]
          /\ pos' = (pos + 1) % Suite.len
          /\ UNCHANGED <<index, results, finished>>

\* index++ and process_sub_result
Record(ok) == /\ index' = index + 1
              /\ results' = IF ok THEN [results EXCEPT ![0] = @ \cup {index}] ELSE results
              /\ UNCHANGED <<seq, pos, finished>>
Check == /\ Goto(0)
         /\ \/ Is("check") /\ Record(Me.ok)
            \/ Is("check_msg") /\ Record(Me.msg = [length |-> Ins[2], sender_tid |-> Ins[3]])

Jump == /\ \/ Is("skip") /\ Goto(Ins[2])
           \/ Is("retry") /\ Goto(IF Me.ok THEN 0 ELSE Ins[2])
           \/ Is("unless_key") /\ Goto(IF Me.msg.sender_tid = TID_UART THEN 0 ELSE Ins[2])
        /\ UNCHANGED testVars

\* The sub-results of test 1: how many tasks ran, and which.
HowMany == LET diff == pos - Len(Suite.expt)
           IN  {b \in 0 .. 3 : CASE b = 0 -> diff >= 0 [] b = 1 -> diff # 1
                                 [] b = 2 -> diff # 2 [] b = 3 -> diff = 0}
Places == {i \in DOMAIN Suite.expt : seq[i - 1] = Suite.expt[i]}

\* test1_start, and the end of G12_TS2: test_exit, where the caller stays.
Finish(op) == /\ Is(op)
              /\ thread' = [thread EXCEPT ![gp_current_task].i = Len(Code(Me.f)) + 1]
              /\ finished' = TRUE
              /\ UNCHANGED <<seq, pos, index>>
Test1Start == /\ Finish("start")
              /\ results' = [results EXCEPT ![1] = HowMany \cup {i + 3 : i \in Places}]
Compare    == /\ Finish("compare")
              /\ results' = [results EXCEPT ![0] = @ \cup {index + i - 1 : i \in Places}]

Local == /\ Update \/ Check \/ Jump \/ Test1Start \/ Compare
         /\ UNCHANGED sysVars

----------------------------------------------------------------------------
(***************************************************************************)
(* Boot, with the tasks of the suite, and the interrupts.                  *)
(***************************************************************************)
SuiteBoot ==
    /\ Boot
    /\ booted' <= Reserved \/ booted' = Finished \/
          \E t \in DOMAIN Suite.boot :
             /\ booted' = Reserved + t
             /\ tcb'[t].state = "READY"
             /\ tcb'[t].prio = Suite.boot[t].prio /\ tcb'[t].priv = Suite.boot[t].priv
    /\ booted' = Finished => booted = Reserved + Len(Suite.boot)
    /\ UNCHANGED <<msgVars, rtVars, thread, testVars, keys>>

\* The suites whose order depends on the time: G12_TS1 has a second for what it does
\* before its tasks wait for the next period, and G12_TS2, whose tasks print a few
\* lines, less than a tick for each of its jobs.  The clock of the others is bounded.
InTime == CASE suite = "G12_TS1" -> Spinning \/ g_timer_count' <= Second
            [] suite = "G12_TS2" -> Spinning
            [] OTHER -> g_timer_count' <= 3 * Second

Timer == Running /\ Tick /\ InTime /\ UNCHANGED <<msgVars, thread, testVars, keys>>

Key == /\ keys < MaxKeys /\ keys' = keys + 1
       /\ UartReceive /\ UNCHANGED <<rtVars, thread, testVars>>

Shown == UartTransmit /\ UNCHANGED <<rtVars, thread, testVars, keys>>

----------------------------------------------------------------------------
Functions0 == [t \in Tasks |->
                 IF t = TID_CON THEN "task_cdisp" ELSE IF t = TID_KCD THEN "task_kcd"
                 ELSE IF t = TID_WCLCK THEN "task_wall_clock"
                 ELSE IF t \in DOMAIN Suite.boot THEN Suite.boot[t].f ELSE "task_null"]

SuiteInit == /\ SysInit
             /\ suite \in SuiteNames
             /\ thread = [t \in Tasks |-> Start(Functions0[t])]
             /\ seq = [i \in 0 .. Suite.len - 1 |-> TID_NULL] /\ pos = 0 /\ index = 0
             /\ results = [test \in 0 .. 1 |-> {}]
             /\ finished = FALSE /\ keys = 0

Proceed == (Call \/ Local) /\ UNCHANGED keys

SuiteNext == /\ SuiteBoot \/ Proceed \/ Timer \/ Key \/ Shown
             /\ UNCHANGED suite

\* The processor goes on through boot and the program of the current task, and the
\* timer ticks.
Stopped  == ub \/ Spinning
SuiteSpec == /\ SuiteInit /\ [][SuiteNext]_suiteVars
             /\ []<>Stopped \/ []<><<TRUE>>_<<booted, thread>>
             /\ WF_g_timer_count(Ticks /\ InTime)

----------------------------------------------------------------------------
(***************************************************************************)
(* Properties.                                                             *)
(***************************************************************************)
\* A suite that finishes has passed, whatever the interrupts did to it: every
\* sub-result is 1, so that the tasks ran in the order the suite expects.  G12_TS2 is
\* the exception, of which ExpectedOrder speaks.
SuitePasses ==
    finished /\ suite # "G12_TS2" => /\ results[0] = 0 .. Suite.bits - 1
                                    /\ results[1] = 0 .. Len(Suite.expt) + 3

\* G12_TS2 passes too, for its tasks run in the order it expects, which is written
\* out in ae_tasks2_G12.c:152-176 and compared at 200.  (It places four jobs after
\* those of the next second: that of priv_task1 in second 5, of task3 in second 8, and
\* of both in second 20.)
ExpectedOrder == finished /\ suite = "G12_TS2" => results[0] = 0 .. Suite.bits - 1

\* What G12_TS2 runs is the schedule of earliest deadline first: in every second the
\* jobs released in it, the shorter period, whose deadline is earlier, before the
\* longer one.
EdfSchedule ==
    LET period == (1 :> 5) @@ (3 :> 3) @@ (4 :> 4)
        At(s)  == SetToSortSeq({t \in DOMAIN period : s % period[t] = 0},
                               LAMBDA a, b : period[a] < period[b])
    IN  <<1, 2, 3, 3, 4, 4>> \o FlattenSeq([s \in 1 .. 25 |-> At(s)])


\* And every suite does finish, unless the timer has written through the empty list
\* of suspended tasks.
SuiteFinishes == <>(finished \/ ub)
=============================================================================

----------------------------- MODULE WallClock -----------------------------
(***************************************************************************)
(* The wall clock task, one step per job: a job receives at most one       *)
(* command, moves a visible clock on by a second, and obeys the command.   *)
(* Characters are their codes.                                             *)
(***************************************************************************)
EXTENDS Naturals, Sequences

CONSTANTS
    Commands,       \* the data of the KCD_CMD messages, sequences of characters
    BUF_LEN,        \* the characters of the receive buffer that are looked at
    MaxJobs         \* bound on the jobs

ASSUME WallClockAssumption ==
    /\ Commands \subseteq Seq(Nat)
    /\ BUF_LEN \in Nat /\ BUF_LEN >= 11
    /\ MaxJobs \in Nat

VARIABLES
    hours, minutes, seconds,
    clock_visible,
    buf,                \* the receive buffer behind the header, which keeps old characters
    display,            \* the last clock_string sent to the display, <<>> when it was blanked
    jobs                \* history

time          == <<hours, minutes, seconds>>
wallClockVars == <<hours, minutes, seconds, clock_visible, buf, display, jobs>>

Digit(c) == c - 48
Tens(n)  == (n \div 10) + 48
Ones(n)  == (n % 10) + 48
Chars == [R |-> 82, S |-> 83, T |-> 84, colon |-> 58, space |-> 32, cr |-> 13, lf |-> 10]

\* Mutant of ClockString: hours without their leading digit.
ClockStringShort(t) ==
    <<t[1] + 48, 58, Tens(t[2]), Ones(t[2]), 58, Tens(t[3]), Ones(t[3]), 13, 10>>

\* update_clock_string
ClockString(t) ==
    <<Tens(t[1]), Ones(t[1]), Chars.colon, Tens(t[2]), Ones(t[2]), Chars.colon,
      Tens(t[3]), Ones(t[3]), Chars.cr, Chars.lf>>

Between(c, lo, hi) == c >= lo + 48 /\ c <= hi + 48

\* verify_valid_input: " HH:MM:SS".
Valid(input) ==
    /\ input[1] = Chars.space
    /\ Between(input[2], 0, 2)
    /\ ~(input[2] = 2 + 48 /\ input[3] > 3 + 48)
    /\ input[4] = Chars.colon /\ input[7] = Chars.colon
    /\ Between(input[5], 0, 5) /\ Between(input[8], 0, 5)
    /\ Between(input[3], 0, 9) /\ Between(input[6], 0, 9) /\ Between(input[9], 0, 9)

TimeIn(input) ==
    <<Digit(input[2]) * 10 + Digit(input[3]), Digit(input[5]) * 10 + Digit(input[6]),
      Digit(input[8]) * 10 + Digit(input[9])>>

\* Mutant of Tick: the hour is not carried over midnight.
TickToTwentyFour(t) ==
    LET s == IF t[3] + 1 >= 60 THEN <<t[1], t[2] + 1, 0>> ELSE <<t[1], t[2], t[3] + 1>>
        m == IF s[2] >= 60 THEN <<s[1] + 1, 0, s[3]>> ELSE s
    IN  IF m[1] > 24 THEN <<0, 0, 0>> ELSE m

Tick(t) ==
    LET s == IF t[3] + 1 >= 60 THEN <<t[1], t[2] + 1, 0>> ELSE <<t[1], t[2], t[3] + 1>>
        m == IF s[2] >= 60 THEN <<s[1] + 1, 0, s[3]>> ELSE s
    IN  IF m[1] >= 24 THEN <<0, 0, 0>> ELSE m

\* The clock as a record, and the effect of a command whose first characters are in
\* b and whose length is n.  The length of a time is compared with that of the
\* longest one and a header, which is 6.
Clock(t, visible, shown) == [time |-> t, visible |-> visible, display |-> shown]

Obey(c, b, n) ==
    LET input == SubSeq(b, 3, 11)
    IN  IF b[2] = Chars.R THEN Clock(<<0, 0, 0>>, TRUE, ClockString(<<0, 0, 0>>))
        ELSE IF b[2] = Chars.S /\ Valid(input) /\ n <= 9 + 6
        THEN Clock(TimeIn(input), TRUE, ClockString(TimeIn(input)))
        ELSE IF b[2] = Chars.T THEN Clock(c.time, FALSE, <<>>)
        ELSE c

\* The second, if the clock is visible.
SecondLater == IF clock_visible THEN Clock(Tick(time), TRUE, ClockString(Tick(time)))
               ELSE Clock(time, FALSE, display)

Becomes(c) ==
    /\ hours' = c.time[1] /\ minutes' = c.time[2] /\ seconds' = c.time[3]
    /\ clock_visible' = c.visible /\ display' = c.display
    /\ jobs < MaxJobs /\ jobs' = jobs + 1

\* recv_msg_nb finds nothing.
Job == Becomes(SecondLater) /\ UNCHANGED buf

\* recv_msg_nb copies the command over the beginning of the buffer.
JobWith(data) ==
    LET b == [i \in 1 .. BUF_LEN |-> IF i <= Len(data) THEN data[i] ELSE buf[i]]
    IN  Becomes(Obey(SecondLater, b, Len(data))) /\ buf' = b

WallClockInit ==
    /\ hours = 10 /\ minutes = 10 /\ seconds = 10
    /\ clock_visible = FALSE /\ display = <<>>
    /\ buf = [i \in 1 .. BUF_LEN |-> 0]
    /\ jobs = 0

WallClockNext == Job \/ \E data \in Commands : JobWith(data)
WallClockSpec == WallClockInit /\ [][WallClockNext]_wallClockVars

----------------------------------------------------------------------------
(***************************************************************************)
(* Properties.                                                             *)
(***************************************************************************)
\* What the clock displays is a time of day, the one it keeps: typed back after
\* "%WS " it is accepted and sets the clock to where it is.
DisplayIsSettable ==
    /\ clock_visible <=> display # <<>>
    /\ clock_visible => /\ Valid(<<Chars.space>> \o SubSeq(display, 1, 8))
                        /\ TimeIn(<<Chars.space>> \o SubSeq(display, 1, 8)) = time

\* A visible clock gains a second a job, through midnight too, and no job without a
\* command makes it appear, vanish or jump; a hidden one stands still.
SecondOfDay(t) == (t[1] * 60 + t[2]) * 60 + t[3]
Day == 24 * 60 * 60
OneSecondPerJob ==
    [][Job => /\ clock_visible' = clock_visible
              /\ SecondOfDay(time') =
                    (SecondOfDay(time) + (IF clock_visible THEN 1 ELSE 0)) % Day
      ]_wallClockVars
=============================================================================

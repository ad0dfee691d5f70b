-------------------------- MODULE WallClockProofs --------------------------
(***************************************************************************)
(* The properties of the wall clock, for every command, every length of    *)
(* the receive buffer and any number of jobs.                              *)
(*                                                                         *)
(* The inductive invariant says that hours, minutes and seconds are a time *)
(* of day and that a visible clock shows it.                               *)
(***************************************************************************)
EXTENDS WallClock, SequenceTheorems, TLAPS

TimeOfDay(t) == /\ t[1] \in 0 .. 23 /\ t[2] \in 0 .. 59 /\ t[3] \in 0 .. 59
                /\ t = <<t[1], t[2], t[3]>>

ClockInv(c) == /\ TimeOfDay(c.time)
               /\ c.visible \in BOOLEAN
               /\ c.display = IF c.visible THEN ClockString(c.time) ELSE <<>>

Now == Clock(time, clock_visible, display)

IInv == ClockInv(Now) /\ buf \in [1 .. BUF_LEN -> Nat]

----------------------------------------------------------------------------
\* Two digits, written and read, are the number below sixty that was written.
LEMMA TwoDigits ==
    ASSUME NEW n \in 0 .. 59
    PROVE  /\ Tens(n) \in 48 .. 53 /\ Ones(n) \in 48 .. 57
           /\ Digit(Tens(n)) * 10 + Digit(Ones(n)) = n
           /\ n <= 23 => Tens(n) <= 50 /\ (Tens(n) = 50 => Ones(n) <= 51)
  BY DEF Tens, Ones, Digit

\* What the clock shows is accepted and is the time it shows.
LEMMA ShownIsSettable ==
    ASSUME NEW t, TimeOfDay(t)
    PROVE  /\ Valid(<<Chars.space>> \o SubSeq(ClockString(t), 1, 8))
           /\ TimeIn(<<Chars.space>> \o SubSeq(ClockString(t), 1, 8)) = t
  <1>1. PICK cs : cs = ClockString(t)
    OBVIOUS
  <1>2. /\ cs[1] = Tens(t[1]) /\ cs[2] = Ones(t[1]) /\ cs[3] = 58 /\ cs[4] = Tens(t[2])
        /\ cs[5] = Ones(t[2]) /\ cs[6] = 58 /\ cs[7] = Tens(t[3]) /\ cs[8] = Ones(t[3])
    BY <1>1 DEF ClockString, Chars
  <1>3. \A i \in 1 .. 8 : cs[i] \in Nat
    BY <1>2, TwoDigits DEF TimeOfDay
  <1>4. PICK u : u = SubSeq(cs, 1, 8)
    OBVIOUS
  <1>5. u \in Seq(Nat) /\ Len(u) = 8 /\ \A i \in 1 .. 8 : u[i] = cs[i]
    BY <1>3, <1>4, SubSeqProperties
  <1>6. PICK x : x = <<Chars.space>> \o u
    OBVIOUS
  <1>7. x[1] = 32 /\ \A i \in 2 .. 9 : x[i] = cs[i - 1]
    <2>1. PICK h : h = <<Chars.space>>
      OBVIOUS
    <2>2. h \in Seq(Nat) /\ Len(h) = 1 /\ h[1] = 32
      BY <2>1 DEF Chars
    <2>3. \A i \in 1 .. Len(h) + Len(u) : (h \o u)[i] = IF i <= Len(h) THEN h[i] ELSE u[i - Len(h)]
      BY <1>5, <2>2, ConcatProperties
    <2>4. \A i \in 1 .. 9 : x[i] = IF i <= 1 THEN h[i] ELSE u[i - 1]
      <3>1. x = h \o u
        BY <1>6, <2>1
      <3>2. \A i \in 1 .. 1 + 8 : x[i] = IF i <= 1 THEN h[i] ELSE u[i - 1]
        BY <1>5, <2>2, <2>3, <3>1
      <3> QED
        BY <3>2
    <2>5. \A i \in 1 .. 8 : u[i] = cs[i]
      BY <1>5
    <2>6. h[1] = 32
      BY <2>2
    <2> QED
      BY <2>4, <2>5, <2>6
  <1>8. /\ x[2] = Tens(t[1]) /\ x[3] = Ones(t[1]) /\ x[4] = 58 /\ x[5] = Tens(t[2])
        /\ x[6] = Ones(t[2]) /\ x[7] = 58 /\ x[8] = Tens(t[3]) /\ x[9] = Ones(t[3])
    BY <1>2, <1>7
  <1>9. Valid(x)
    BY <1>7, <1>8, TwoDigits DEF Valid, Between, Chars, TimeOfDay
  <1>10. TimeIn(x) = t
    BY <1>8, TwoDigits DEF TimeIn, TimeOfDay
  <1> QED
    BY <1>1, <1>4, <1>6, <1>9, <1>10

\* A time of day is a second of the day.
LEMMA DaySeconds ==
    ASSUME NEW t, TimeOfDay(t)
    PROVE  /\ SecondOfDay(t) \in Nat /\ SecondOfDay(t) < Day
           /\ SecondOfDay(t) % Day = SecondOfDay(t)
  <1>1. PICK h \in 0 .. 23, m \in 0 .. 59, s \in 0 .. 59 :
            SecondOfDay(t) = (h * 60 + m) * 60 + s
    BY DEF TimeOfDay, SecondOfDay
  <1>2. (h * 60 + m) * 60 + s \in Nat /\ (h * 60 + m) * 60 + s < Day
    BY DEF Day
  <1>3. \A n \in Nat : n < Day => n % Day = n
    BY DEF Day
  <1> QED
    BY <1>1, <1>2, <1>3

\* A second later it is a time of day again, and a second of the day later.
LEMMA TickTime ==
    ASSUME NEW t, TimeOfDay(t)
    PROVE  TimeOfDay(Tick(t)) /\ SecondOfDay(Tick(t)) = (SecondOfDay(t) + 1) % Day
  <1>1. PICK h \in 0 .. 23, m \in 0 .. 59, s \in 0 .. 59 : t = <<h, m, s>>
    BY DEF TimeOfDay
  <1>2. SecondOfDay(t) \in Nat /\ SecondOfDay(t) = (h * 60 + m) * 60 + s
    BY <1>1 DEF SecondOfDay
  <1>3. ASSUME NEW u, TimeOfDay(u), SecondOfDay(u) = SecondOfDay(t) + 1, Tick(t) = u
        PROVE  TimeOfDay(Tick(t)) /\ SecondOfDay(Tick(t)) = (SecondOfDay(t) + 1) % Day
    <2>1. (SecondOfDay(t) + 1) % Day = SecondOfDay(u)
      BY <1>3, DaySeconds
    <2> QED
      BY <1>3, <2>1
  <1>4. CASE s < 59 \/ m < 59 \/ h < 23
    <2>1. CASE s < 59
      <3>1. Tick(t) = <<h, m, s + 1>>
        BY <1>1, <2>1 DEF Tick
      <3>2. TimeOfDay(<<h, m, s + 1>>)
        BY <2>1 DEF TimeOfDay
      <3>3. SecondOfDay(<<h, m, s + 1>>) = SecondOfDay(t) + 1
        BY <1>2 DEF SecondOfDay
      <3> QED
        BY <1>3, <3>1, <3>2, <3>3
    <2>2. CASE s = 59 /\ m < 59
      <3>1. Tick(t) = <<h, m + 1, 0>>
        BY <1>1, <2>2 DEF Tick
      <3>2. TimeOfDay(<<h, m + 1, 0>>)
        BY <2>2 DEF TimeOfDay
      <3>3. SecondOfDay(<<h, m + 1, 0>>) = SecondOfDay(t) + 1
        BY <1>2, <2>2 DEF SecondOfDay
      <3> QED
        BY <1>3, <3>1, <3>2, <3>3
    <2>3. CASE s = 59 /\ m = 59 /\ h < 23
      <3>1. Tick(t) = <<h + 1, 0, 0>>
        BY <1>1, <2>3 DEF Tick
      <3>2. TimeOfDay(<<h + 1, 0, 0>>)
        BY <2>3 DEF TimeOfDay
      <3>3. SecondOfDay(<<h + 1, 0, 0>>) = SecondOfDay(t) + 1
        BY <1>2, <2>3 DEF SecondOfDay
      <3> QED
        BY <1>3, <3>1, <3>2, <3>3
    <2> QED
      BY <1>4, <2>1, <2>2, <2>3
  <1>5. CASE s = 59 /\ m = 59 /\ h = 23
    <2>1. Tick(t) = <<0, 0, 0>>
      BY <1>1, <1>5 DEF Tick
    <2>2. TimeOfDay(<<0, 0, 0>>) /\ SecondOfDay(<<0, 0, 0>>) = 0
      BY DEF TimeOfDay, SecondOfDay
    <2>3. SecondOfDay(t) + 1 = Day
      BY <1>2, <1>5 DEF Day
    <2>4. Day % Day = 0
      BY DEF Day
    <2> QED
      BY <2>1, <2>2, <2>3, <2>4
  <1> QED
    BY <1>4, <1>5

\* A valid input is read as a time of day.
LEMMA ValidIsTime ==
    ASSUME NEW input, \A i \in 1 .. 9 : input[i] \in Nat, Valid(input)
    PROVE  TimeOfDay(TimeIn(input))
  <1> DEFINE a == input[2]  b == input[3]  c == input[5]
             d == input[6]  e == input[8]  f == input[9]
  <1>1. /\ a \in 48 .. 50 /\ b \in 48 .. 57 /\ c \in 48 .. 53
        /\ d \in 48 .. 57 /\ e \in 48 .. 53 /\ f \in 48 .. 57
        /\ ~(a = 50 /\ b > 51)
    <2>1. /\ a \in Nat /\ b \in Nat /\ c \in Nat /\ d \in Nat /\ e \in Nat /\ f \in Nat
      OBVIOUS
    <2>2. /\ Between(a, 0, 2) /\ Between(b, 0, 9) /\ Between(c, 0, 5)
          /\ Between(d, 0, 9) /\ Between(e, 0, 5) /\ Between(f, 0, 9)
          /\ ~(a = 2 + 48 /\ b > 3 + 48)
      BY DEF Valid
    <2> HIDE DEF a, b, c, d, e, f
    <2> QED
      BY <2>1, <2>2 DEF Between
  <1>2. TimeIn(input) = <<(a - 48) * 10 + (b - 48), (c - 48) * 10 + (d - 48),
                        (e - 48) * 10 + (f - 48)>>
    BY DEF TimeIn, Digit
  <1> HIDE DEF a, b, c, d, e, f
  <1>3. /\ (a - 48) * 10 + (b - 48) \in 0 .. 23
        /\ (c - 48) * 10 + (d - 48) \in 0 .. 59
        /\ (e - 48) * 10 + (f - 48) \in 0 .. 59
    BY <1>1
  <1> QED
    BY <1>2, <1>3 DEF TimeOfDay

----------------------------------------------------------------------------
LEMMA AdvanceInv ==
    ASSUME ClockInv(Now)
    PROVE  ClockInv(SecondLater)
  BY TickTime DEF ClockInv, Now, SecondLater, Clock

LEMMA ObeyInv ==
    ASSUME NEW c, ClockInv(c), c = Clock(c.time, c.visible, c.display),
           NEW b \in [1 .. BUF_LEN -> Nat], NEW n \in Nat
    PROVE  ClockInv(Obey(c, b, n))
  <1>1. PICK input : input = SubSeq(b, 3, 11)
    OBVIOUS
  <1>2. BUF_LEN \in Nat /\ BUF_LEN >= 11
    BY WallClockAssumption
  <1>3. input \in Seq(Nat) /\ Len(input) = 9
    BY <1>1, <1>2, SubSeqProperties
  <1>4. \A i \in 1 .. 9 : input[i] \in Nat
    BY <1>3, ElementOfSeq
  <1>5. ClockInv(Clock(<<0, 0, 0>>, TRUE, ClockString(<<0, 0, 0>>)))
    BY DEF ClockInv, Clock, TimeOfDay
  <1>6. Valid(input) => ClockInv(Clock(TimeIn(input), TRUE, ClockString(TimeIn(input))))
    BY <1>4, ValidIsTime DEF ClockInv, Clock
  <1>7. ClockInv(Clock(c.time, FALSE, <<>>))
    BY DEF ClockInv, Clock
  <1> QED
    BY <1>1, <1>5, <1>6, <1>7 DEF Obey

\* A step of the clock to the one c describes.
LEMMA BecomesInv ==
    ASSUME NEW c, ClockInv(c), Becomes(c)
    PROVE  ClockInv(Now)' /\ time' = c.time /\ clock_visible' = c.visible
  BY DEF ClockInv, Becomes, Now, Clock, time, TimeOfDay

LEMMA InitInv == WallClockInit => IInv
  <1> SUFFICES ASSUME WallClockInit PROVE IInv
    OBVIOUS
  <1>1. time = <<10, 10, 10>> /\ clock_visible = FALSE /\ display = <<>>
    BY DEF WallClockInit, time
  <1>2. TimeOfDay(<<10, 10, 10>>)
    BY DEF TimeOfDay
  <1>3. ClockInv(Now)
    BY <1>1, <1>2 DEF ClockInv, Now, Clock
  <1>4. buf \in [1 .. BUF_LEN -> Nat]
    BY DEF WallClockInit
  <1> QED
    BY <1>3, <1>4 DEF IInv

LEMMA StepInv ==
    ASSUME IInv, [WallClockNext]_wallClockVars
    PROVE  IInv'
  <1>1. ClockInv(SecondLater) /\ SecondLater = Clock(SecondLater.time, SecondLater.visible, SecondLater.display)
    BY AdvanceInv DEF IInv, SecondLater, Clock
  <1>2. CASE Job
    BY <1>1, <1>2, BecomesInv DEF Job, IInv
  <1>3. ASSUME NEW data \in Commands, JobWith(data) PROVE IInv'
    <2>1. PICK b : b = [i \in 1 .. BUF_LEN |-> IF i <= Len(data) THEN data[i] ELSE buf[i]]
      OBVIOUS
    <2>2. data \in Seq(Nat) /\ Len(data) \in Nat
      BY WallClockAssumption
    <2>3. b \in [1 .. BUF_LEN -> Nat]
      BY <2>1, <2>2 DEF IInv
    <2>4. Becomes(Obey(SecondLater, b, Len(data))) /\ buf' = b
      BY <1>3, <2>1 DEF JobWith
    <2> QED
      BY <1>1, <2>2, <2>3, <2>4, ObeyInv, BecomesInv DEF IInv
  <1>4. CASE UNCHANGED wallClockVars
    BY <1>4 DEF wallClockVars, IInv, ClockInv, Now, Clock, time
  <1> QED
    BY <1>2, <1>3, <1>4 DEF WallClockNext

\* Whatever commands are typed, what the clock shows is a time of day, the one it
\* keeps, in the form in which update_clock_string writes it and
\* verify_valid_input accepts it.
THEOREM DisplayAlwaysSettable == WallClockSpec => []DisplayIsSettable
  <1>1. IInv => DisplayIsSettable
    <2> SUFFICES ASSUME IInv PROVE DisplayIsSettable
      OBVIOUS
    <2>1. TimeOfDay(time) /\ clock_visible \in BOOLEAN
          /\ display = IF clock_visible THEN ClockString(time) ELSE <<>>
      BY DEF IInv, ClockInv, Now, Clock
    <2>2. ClockString(time) # <<>>
      BY DEF ClockString
    <2> QED
      BY <2>1, <2>2, ShownIsSettable DEF DisplayIsSettable
  <1> QED
    BY InitInv, StepInv, <1>1, PTL DEF WallClockSpec

\* A visible clock gains a second with each job, at midnight too, and a job without
\* a command neither shows, hides nor sets it.
THEOREM SecondsNeverLost == WallClockSpec => OneSecondPerJob
  <1>1. ASSUME IInv, Job
        PROVE  /\ clock_visible' = clock_visible
               /\ SecondOfDay(time') =
                     (SecondOfDay(time) + (IF clock_visible THEN 1 ELSE 0)) % Day
    <2>1. TimeOfDay(time) /\ clock_visible \in BOOLEAN
      BY <1>1 DEF IInv, ClockInv, Now, Clock
    <2>2. time' = SecondLater.time /\ clock_visible' = SecondLater.visible
      BY <1>1, AdvanceInv, BecomesInv DEF IInv, Job
    <2>3. CASE clock_visible
      BY <2>1, <2>2, <2>3, TickTime DEF SecondLater, Clock
    <2>4. CASE ~clock_visible
      <3>1. SecondOfDay(time) \in Nat /\ SecondOfDay(time) % Day = SecondOfDay(time)
        BY <2>1, DaySeconds
      <3>2. SecondOfDay(time) + 0 = SecondOfDay(time)
        BY <3>1
      <3>3. time' = time /\ clock_visible' = FALSE
        BY <2>2, <2>4 DEF SecondLater, Clock
      <3>4. clock_visible' = clock_visible
        BY <2>1, <2>4, <3>3
      <3>5. (IF clock_visible THEN 1 ELSE 0) = 0
        BY <2>4
      <3> QED
        BY <2>1, <3>1, <3>2, <3>3, <3>4, <3>5
    <2> QED
      BY <2>1, <2>3, <2>4
  <1>2. IInv /\ [WallClockNext]_wallClockVars
          => [Job => /\ clock_visible' = clock_visible
                     /\ SecondOfDay(time') =
                           (SecondOfDay(time) + (IF clock_visible THEN 1 ELSE 0)) % Day
             ]_wallClockVars
    BY <1>1
  <1> QED
    BY InitInv, StepInv, <1>2, PTL DEF WallClockSpec, OneSecondPerJob
=============================================================================

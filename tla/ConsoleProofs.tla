--------------------------- MODULE ConsoleProofs ---------------------------
(***************************************************************************)
(* Theorems about the console: the keys are echoed in order, and the KCD   *)
(* answers every line by what was typed and who had registered, for every  *)
(* set of keys and handlers, every size of the mailboxes and of the        *)
(* command buffer, and any number of keys.                                 *)
(*                                                                         *)
(* First facts about sequences put together from others; then the types,   *)
(* the echoes, and what the KCD remembers of the messages it has read.     *)
(***************************************************************************)
EXTENDS Console, FiniteSetTheorems, SequenceTheorems, WellFoundedInduction, TLAPS

(***************************************************************************)
(* Least and greatest numbers.                                             *)
(***************************************************************************)
LEMMA LeastOf ==
    ASSUME NEW S \in SUBSET Nat, S # {}
    PROVE  \E i \in S : \A j \in S : i <= j
  <1>1. PICK R : R = OpToRel(<, Nat)
    OBVIOUS
  <1>2. \A x, y \in Nat : <<y, x>> \in R <=> y < x
    BY <1>1 DEF OpToRel
  <1>3. PICK i \in S : \A y \in S : ~(<<y, i>> \in R)
    BY <1>1, NatLessThanWellFounded, WFMin
  <1> SUFFICES ASSUME NEW j \in S PROVE i <= j
    BY <1>3
  <1>4. i \in Nat /\ j \in Nat /\ ~(j < i)
    BY <1>2, <1>3
  <1> QED
    BY <1>4

LEMMA MinIs ==
    ASSUME NEW S \in SUBSET Nat, S # {}
    PROVE  Min(S) \in S /\ \A j \in S : Min(S) <= j
  <1>1. \E i \in S : \A j \in S : i <= j
    BY LeastOf
  <1> QED
    BY <1>1 DEF Min

\* A set of numbers up to n has a greatest one.
LEMMA MaxIs ==
    ASSUME NEW n \in Nat, NEW S \in SUBSET (0 .. n), S # {}
    PROVE  Max(S) \in S /\ \A j \in S : j <= Max(S)
  <1> DEFINE Above == {i \in 0 .. n : \A j \in S : j <= i}
  <1>1. n \in Above /\ Above \in SUBSET Nat
    OBVIOUS
  <1>2. PICK i \in Above : \A k \in Above : i <= k
    BY <1>1, LeastOf
  <1>3. i \in S
    <2> SUFFICES ASSUME i \notin S PROVE FALSE
      OBVIOUS
    <2>1. i \in 0 .. n /\ \A j \in S : j \in 0 .. n /\ j <= i
      BY <1>2
    <2>2. \A j \in S : j \in 0 .. n /\ j <= i - 1
      <3> SUFFICES ASSUME NEW j \in S PROVE j \in 0 .. n /\ j <= i - 1
        OBVIOUS
      <3>1. j \in 0 .. n /\ j <= i /\ j # i
        BY <2>1
      <3> QED
        BY <2>1, <3>1
    <2>3. PICK j : j \in S
      OBVIOUS
    <2>4. i - 1 \in 0 .. n
      BY <2>1, <2>2, <2>3
    <2>5. i - 1 \in Above
      BY <2>2, <2>4
    <2>6. i <= i - 1
      BY <1>2, <2>5
    <2> QED
      BY <2>1, <2>6
  <1>4. \E m \in S : \A j \in S : m >= j
    BY <1>2, <1>3
  <1>5. Max(S) \in S /\ \A j \in S : Max(S) >= j
    BY <1>4 DEF Max
  <1> QED
    BY <1>5

LEMMA MaxUnique ==
    ASSUME NEW n \in Nat, NEW S \in SUBSET (0 .. n), NEW m \in S, \A j \in S : j <= m
    PROVE  Max(S) = m
  <1>1. Max(S) \in S /\ m <= Max(S)
    BY MaxIs
  <1>2. Max(S) <= m /\ Max(S) \in 0 .. n /\ m \in 0 .. n
    BY <1>1
  <1> QED
    BY <1>1, <1>2

----------------------------------------------------------------------------
(***************************************************************************)
(* FlattenSeq.  g[i] is what the first i sequences make.                   *)
(***************************************************************************)
Joins(ss, g, S) == /\ g = [i \in 0 .. Len(ss) |-> g[i]] /\ g[0] = <<>>
                   /\ \A i \in 0 .. Len(ss) : g[i] \in Seq(S)
                   /\ \A i \in 1 .. Len(ss) : g[i] = g[i - 1] \o ss[i]

LEMMA JoinsExist ==
    ASSUME NEW S, NEW ss \in Seq(Seq(S))
    PROVE  \E g : Joins(ss, g, S)
  <1> DEFINE Upto(n, g) == /\ g = [i \in 0 .. n |-> g[i]] /\ g[0] = <<>>
                           /\ \A i \in 0 .. n : g[i] \in Seq(S)
                           /\ \A i \in 1 .. n : g[i] = g[i - 1] \o ss[i]
  <1> DEFINE Bad == {n \in 0 .. Len(ss) : ~ \E g : Upto(n, g)}
  <1>0. \A i \in 1 .. Len(ss) : ss[i] \in Seq(S)
    BY ElementOfSeq
  <1>1. Len(ss) \in Nat
    BY LenProperties
  <1> SUFFICES ASSUME Bad # {} PROVE FALSE
    <2> SUFFICES ASSUME Bad = {} PROVE \E g : Joins(ss, g, S)
      OBVIOUS
    <2>1. \E g : Upto(Len(ss), g)
      <3>1. Len(ss) \in 0 .. Len(ss)
        BY <1>1
      <3> HIDE DEF Upto
      <3> QED
        BY <3>1
    <2> QED
      BY <2>1 DEF Joins
  <1>2. Bad \in SUBSET Nat
    <2> HIDE DEF Upto
    <2> QED
      BY <1>1
  <1>3. PICK n \in Bad : \A j \in Bad : n <= j
    BY <1>2, LeastOf
  <1>4. n \in 0 .. Len(ss) /\ ~ \E g : Upto(n, g)
    OBVIOUS
  <1> HIDE DEF Bad
  <1>5. n # 0
    <2>1. PICK g : g = [i \in 0 .. 0 |-> <<>>]
      OBVIOUS
    <2>2. Upto(0, g)
      BY <2>1
    <2> QED
      BY <1>4, <2>2
  <1>6. n - 1 \in 0 .. Len(ss) /\ n \in Nat /\ n \in 1 .. Len(ss) /\ n - 1 \in Nat
    BY <1>1, <1>4, <1>5
  <1>7. n - 1 \notin Bad
    BY <1>3, <1>6
  <1>8. PICK g : Upto(n - 1, g)
    BY <1>6, <1>7 DEF Bad
  <1>9. PICK h : h = [i \in 0 .. n |-> IF i < n THEN g[i] ELSE g[n - 1] \o ss[n]]
    OBVIOUS
  <1>10. g[n - 1] \in Seq(S) /\ ss[n] \in Seq(S)
    BY <1>0, <1>6, <1>8
  <1>11. Upto(n, h)
    <2>1. h = [i \in 0 .. n |-> h[i]] /\ h[0] = <<>>
      BY <1>5, <1>6, <1>8, <1>9
    <2>2. ASSUME NEW i \in 0 .. n
          PROVE  h[i] \in Seq(S)
      <3>1. CASE i < n
        <4>1. i \in 0 .. n - 1 /\ h[i] = g[i]
          BY <1>6, <1>9, <3>1
        <4> QED
          BY <1>8, <4>1
      <3>2. CASE i = n
        <4>1. h[i] = g[n - 1] \o ss[n]
          BY <1>6, <1>9, <3>2
        <4> QED
          BY <1>10, <4>1
      <3> QED
        BY <1>6, <3>1, <3>2
    <2>3. ASSUME NEW i \in 1 .. n
          PROVE  h[i] = h[i - 1] \o ss[i]
      <3>1. i - 1 \in 0 .. n /\ i \in 0 .. n /\ h[i - 1] = g[i - 1]
        BY <1>6, <1>9
      <3>2. CASE i < n
        <4>1. i \in 1 .. n - 1 /\ h[i] = g[i]
          BY <1>6, <1>9, <3>2
        <4> QED
          BY <1>8, <3>1, <4>1
      <3>3. CASE i = n
        BY <1>6, <1>9, <3>1, <3>3
      <3>4. i < n \/ i = n
        BY <1>6
      <3> QED
        BY <3>2, <3>3, <3>4
    <2> QED
      BY <2>1, <2>2, <2>3
  <1> QED
    BY <1>4, <1>11


LEMMA FlatIs ==
    ASSUME NEW S, NEW ss \in Seq(Seq(S)), NEW g, Joins(ss, g, S)
    PROVE  FlattenSeq(ss) = g[Len(ss)]
  <1>1. Len(ss) \in Nat
    BY LenProperties
  <1>2. \A i \in 1 .. Len(ss) : ss[i] \in Seq(S)
    BY ElementOfSeq
  <1>3. CASE Len(ss) = 0
    <2>1. ss = <<>> /\ g[0] = <<>>
      BY <1>3, EmptySeq DEF Joins
    <2> QED
      BY <1>3, <2>1 DEF FlattenSeq
  <1>4. CASE Len(ss) # 0
    <2>1. PICK f : f = CHOOSE h : h = [i \in 1 .. Len(ss) |->
                              IF i = 1 THEN ss[i] ELSE h[i - 1] \o ss[i]]
      OBVIOUS
    <2>2. FlattenSeq(ss) = f[Len(ss)]
      BY <1>4, <2>1 DEF FlattenSeq
    <2>3. PICK h : h = [i \in 1 .. Len(ss) |-> g[i]]
      OBVIOUS
    <2>4. h = [i \in 1 .. Len(ss) |-> IF i = 1 THEN ss[i] ELSE h[i - 1] \o ss[i]]
      <3>1. ASSUME NEW i \in 1 .. Len(ss)
            PROVE  h[i] = IF i = 1 THEN ss[i] ELSE h[i - 1] \o ss[i]
        <4>1. h[i] = g[i] /\ g[i] = g[i - 1] \o ss[i]
          BY <2>3 DEF Joins
        <4>2. CASE i = 1
          <5>1. g[0] = <<>> /\ ss[1] \in Seq(S)
            BY <1>2, <4>2 DEF Joins
          <5>2. g[1] = <<>> \o ss[1]
            <6>1. i - 1 = 0
              BY <4>2
            <6> QED
              BY <4>1, <4>2, <5>1, <6>1
          <5>3. <<>> \o ss[1] = ss[1]
            BY <5>1, ConcatEmptySeq
          <5> QED
            BY <4>1, <4>2, <5>2, <5>3
        <4>3. CASE i # 1
          <5>1. i - 1 \in 1 .. Len(ss)
            BY <1>1, <4>3
          <5>2. h[i - 1] = g[i - 1]
            BY <2>3, <5>1
          <5> QED
            BY <4>1, <4>3, <5>2
        <4> QED
          BY <4>2, <4>3
      <3>2. h = [i \in 1 .. Len(ss) |-> h[i]]
        BY <2>3
      <3> QED
        BY <3>1, <3>2
    <2>5. f = [i \in 1 .. Len(ss) |-> IF i = 1 THEN ss[i] ELSE f[i - 1] \o ss[i]]
      BY <2>1, <2>4
    <2>6. \A i \in 1 .. Len(ss) : f[i] = h[i]
      <3> DEFINE Bad == {i \in 1 .. Len(ss) : f[i] # h[i]}
      <3> SUFFICES ASSUME Bad # {} PROVE FALSE
        OBVIOUS
      <3>1. Bad \in SUBSET Nat
        OBVIOUS
      <3>2. PICK i \in Bad : \A j \in Bad : i <= j
        BY <3>1, LeastOf
      <3>3. i # 1 => i - 1 \in 1 .. Len(ss) /\ i - 1 \notin Bad
        BY <1>1, <3>1, <3>2
      <3>4. i # 1 => f[i - 1] = h[i - 1]
        BY <3>3
      <3>5. i \in 1 .. Len(ss) /\ f[i] # h[i]
        BY <3>2
      <3>6. f[i] = (IF i = 1 THEN ss[i] ELSE f[i - 1] \o ss[i])
            /\ h[i] = (IF i = 1 THEN ss[i] ELSE h[i - 1] \o ss[i])
        BY <2>4, <2>5, <3>5
      <3> QED
        BY <3>4, <3>5, <3>6
    <2>7. Len(ss) \in 1 .. Len(ss)
      BY <1>1, <1>4
    <2> QED
      BY <2>2, <2>3, <2>6, <2>7
  <1> QED
    BY <1>3, <1>4

LEMMA FlatType ==
    ASSUME NEW S, NEW ss \in Seq(Seq(S))
    PROVE  FlattenSeq(ss) \in Seq(S)
  <1>1. PICK g : Joins(ss, g, S)
    BY JoinsExist
  <1>2. FlattenSeq(ss) = g[Len(ss)]
    BY <1>1, FlatIs
  <1>3. Len(ss) \in 0 .. Len(ss)
    BY LenProperties
  <1> QED
    BY <1>1, <1>2, <1>3 DEF Joins

LEMMA FlatEmpty == FlattenSeq(<<>>) = <<>>
  BY DEF FlattenSeq

LEMMA FlatAppend ==
    ASSUME NEW S, NEW ss \in Seq(Seq(S)), NEW s \in Seq(S)
    PROVE  FlattenSeq(Append(ss, s)) = FlattenSeq(ss) \o s
  <1>1. PICK n \in Nat : n = Len(ss)
    BY LenProperties
  <1>2. PICK tt : tt = Append(ss, s)
    OBVIOUS
  <1>3. tt \in Seq(Seq(S)) /\ Len(tt) = n + 1 /\ tt[n + 1] = s
        /\ \A i \in 1 .. n : tt[i] = ss[i]
    BY <1>1, <1>2, AppendProperties
  <1>4. PICK g : Joins(tt, g, S)
    BY <1>3, JoinsExist
  <1>5. PICK h : h = [i \in 0 .. n |-> g[i]]
    OBVIOUS
  <1>6. Joins(ss, h, S)
    <2>1. h = [i \in 0 .. n |-> h[i]] /\ h[0] = <<>>
      BY <1>1, <1>4, <1>5 DEF Joins
    <2>2. \A i \in 0 .. n : h[i] \in Seq(S)
      <3> SUFFICES ASSUME NEW i \in 0 .. n PROVE h[i] \in Seq(S)
        OBVIOUS
      <3>1. i \in 0 .. n + 1 /\ h[i] = g[i]
        BY <1>1, <1>5
      <3> QED
        BY <1>3, <1>4, <3>1 DEF Joins
    <2>3. \A i \in 1 .. n : h[i] = h[i - 1] \o ss[i]
      <3> SUFFICES ASSUME NEW i \in 1 .. n PROVE h[i] = h[i - 1] \o ss[i]
        OBVIOUS
      <3>1. i \in 1 .. n + 1 /\ h[i] = g[i] /\ h[i - 1] = g[i - 1] /\ tt[i] = ss[i]
        BY <1>1, <1>3, <1>5
      <3> QED
        BY <1>3, <1>4, <3>1 DEF Joins
    <2> QED
      BY <1>1, <2>1, <2>2, <2>3 DEF Joins
  <1>7. FlattenSeq(ss) = h[n]
    BY <1>1, <1>6, FlatIs
  <1>8. FlattenSeq(tt) = g[n + 1]
    BY <1>3, <1>4, FlatIs
  <1>9. n + 1 \in 1 .. n + 1 /\ (n + 1) - 1 = n /\ h[n] = g[n]
    BY <1>1, <1>5
  <1>10. g[n + 1] = g[n] \o s
    BY <1>3, <1>4, <1>9 DEF Joins
  <1> QED
    BY <1>2, <1>7, <1>8, <1>9, <1>10

LEMMA Regroup ==
    ASSUME NEW S, NEW a \in Seq(S), NEW b \in Seq(S), NEW c \in Seq(S),
           NEW x, NEW y, x = a \o b, y = b \o c
    PROVE  x \o c = a \o y
  <1>1. (a \o b) \o c = a \o (b \o c)
    BY ConcatAssociative
  <1> QED
    BY <1>1

\* Two joins of the same, of which one begins with s.
Leads(s, g, h, t, n, S) ==
    /\ s \in Seq(S) /\ g[1] = s /\ h[0] = <<>>
    /\ \A i \in 1 .. n : h[i - 1] \in Seq(S) /\ t[i] \in Seq(S)
    /\ \A i \in 1 .. n : h[i] = h[i - 1] \o t[i] /\ g[i + 1] = g[i] \o t[i]

LEMMA Prefixed ==
    ASSUME NEW n \in Nat, NEW S, NEW s, NEW g, NEW h, NEW t, Leads(s, g, h, t, n, S)
    PROVE  \A i \in 0 .. n : g[i + 1] = s \o h[i]
  <1>0. /\ s \in Seq(S) /\ g[1] = s /\ h[0] = <<>>
        /\ \A i \in 1 .. n : h[i - 1] \in Seq(S) /\ t[i] \in Seq(S)
        /\ \A i \in 1 .. n : h[i] = h[i - 1] \o t[i] /\ g[i + 1] = g[i] \o t[i]
    BY DEF Leads
  <1> DEFINE Wrong(i) == g[i + 1] # s \o h[i]
             Bad      == {i \in 0 .. n : Wrong(i)}
  <1> SUFFICES ASSUME Bad # {} PROVE FALSE
    OBVIOUS
  <1>1. Bad \in SUBSET Nat
    <2> HIDE DEF Wrong
    <2> QED
      OBVIOUS
  <1>2. PICK i \in Bad : \A j \in Bad : i <= j
    BY <1>1, LeastOf
  <1>3. i \in 0 .. n /\ g[i + 1] # s \o h[i]
    BY <1>2
  <1>4. i # 0
    <2> SUFFICES ASSUME i = 0 PROVE FALSE
      OBVIOUS
    <2>1. s \o <<>> = s
      BY <1>0, ConcatEmptySeq
    <2> QED
      BY <1>0, <1>3, <2>1
  <1>5. i - 1 \in 0 .. n /\ i \in 1 .. n /\ i - 1 + 1 = i
    BY <1>3, <1>4
  <1>6. i - 1 \notin Bad
    <2>1. ~(i <= i - 1)
      BY <1>3
    <2> HIDE DEF Bad
    <2> QED
      BY <1>2, <2>1
  <1>7. g[i] = s \o h[i - 1]
    BY <1>5, <1>6
  <1>8. PICK b, c, x, y : b = h[i - 1] /\ c = t[i] /\ x = g[i] /\ y = h[i]
    OBVIOUS
  <1>9. b \in Seq(S) /\ c \in Seq(S) /\ x = s \o b /\ y = b \o c
    BY <1>0, <1>5, <1>7, <1>8
  <1> HIDE DEF Bad
  <1>10. x \o c = s \o y
    BY <1>0, <1>9, Regroup
  <1> QED
    BY <1>0, <1>3, <1>5, <1>8, <1>10

LEMMA FlatTail ==
    ASSUME NEW S, NEW ss \in Seq(Seq(S)), ss # <<>>
    PROVE  FlattenSeq(ss) = ss[1] \o FlattenSeq(Tail(ss))
  <1>1. PICK n \in Nat : Len(ss) = n + 1
    <2>1. Len(ss) \in Nat \ {0}
      BY LenProperties, EmptySeq
    <2>2. Len(ss) - 1 \in Nat /\ Len(ss) = Len(ss) - 1 + 1
      BY <2>1
    <2> QED
      BY <2>2
  <1>2. PICK tt : tt = Tail(ss)
    OBVIOUS
  <1>3. tt \in Seq(Seq(S)) /\ Len(tt) = n /\ \A i \in 1 .. n : tt[i] = ss[i + 1]
    BY <1>1, <1>2, HeadTailProperties
  <1>4. PICK g : Joins(ss, g, S)
    BY JoinsExist
  <1>5. PICK h : Joins(tt, h, S)
    BY <1>3, JoinsExist
  <1>6. ss[1] \in Seq(S)
    BY <1>1, ElementOfSeq
  <1>7. \A i \in 0 .. n : g[i + 1] = ss[1] \o h[i]
    <2>1. g[1] = ss[1]
      <3>1. g[0] = <<>> /\ g[1] = g[0] \o ss[1]
        <4>1. 1 \in 1 .. Len(ss) /\ 1 - 1 = 0
          BY <1>1
        <4>2. g[0] = <<>> /\ g[1] = g[1 - 1] \o ss[1]
          BY <1>4, <4>1 DEF Joins
        <4> QED
          BY <4>1, <4>2
      <3>2. <<>> \o ss[1] = ss[1]
        BY <1>6, ConcatEmptySeq
      <3> QED
        BY <3>1, <3>2
    <2>2. h[0] = <<>>
      BY <1>5 DEF Joins
    <2>3. ASSUME NEW i \in 1 .. n
          PROVE  /\ h[i - 1] \in Seq(S) /\ tt[i] \in Seq(S)
                 /\ h[i] = h[i - 1] \o tt[i] /\ g[i + 1] = g[i] \o tt[i]
      <3>1. i - 1 \in 0 .. n /\ i + 1 \in 1 .. n + 1 /\ (i + 1) - 1 = i
        OBVIOUS
      <3>2. h[i - 1] \in Seq(S) /\ h[i] = h[i - 1] \o tt[i]
        BY <1>3, <1>5, <3>1 DEF Joins
      <3>3. g[i + 1] = g[i] \o ss[i + 1] /\ tt[i] = ss[i + 1]
        BY <1>1, <1>3, <1>4, <3>1 DEF Joins
      <3>4. tt[i] \in Seq(S)
        BY <1>3, ElementOfSeq
      <3> QED
        BY <3>2, <3>3, <3>4
    <2>4. \A i \in 1 .. n : h[i - 1] \in Seq(S) /\ tt[i] \in Seq(S)
      BY <2>3
    <2>5. \A i \in 1 .. n : h[i] = h[i - 1] \o tt[i] /\ g[i + 1] = g[i] \o tt[i]
      BY <2>3
    <2>6. Leads(ss[1], g, h, tt, n, S)
      BY <1>6, <2>1, <2>2, <2>4, <2>5 DEF Leads
    <2>7. PICK a : a = ss[1]
      OBVIOUS
    <2>8. Leads(a, g, h, tt, n, S)
      BY <2>6, <2>7
    <2>9. \A i \in 0 .. n : g[i + 1] = a \o h[i]
      BY <2>8, Prefixed
    <2> QED
      BY <2>7, <2>9
  <1>8. FlattenSeq(ss) = g[n + 1] /\ FlattenSeq(tt) = h[n]
    BY <1>1, <1>3, <1>4, <1>5, FlatIs
  <1>9. n \in 0 .. n
    OBVIOUS
  <1> QED
    BY <1>2, <1>7, <1>8, <1>9

LEMMA AppendIs ==
    ASSUME NEW S, NEW f \in Seq(S), NEW k \in S, NEW g \in Seq(S), NEW n \in Nat, n = Len(f),
           Len(g) = n + 1, \A i \in 1 .. n : g[i] = f[i], g[n + 1] = k
    PROVE  g = Append(f, k)
  <1>1. PICK a : a = Append(f, k)
    OBVIOUS
  <1>2. a \in Seq(S) /\ Len(a) = n + 1 /\ a[n + 1] = k /\ \A i \in 1 .. n : a[i] = f[i]
    BY <1>1, AppendProperties
  <1>3. \A i \in 1 .. n + 1 : a[i] = g[i]
    BY <1>2
  <1>4. a = g
    BY <1>2, <1>3, SeqEqual
  <1> QED
    BY <1>1, <1>4

\* What a sequence of messages says, when e is what each of them says.
Spelled(s, e) == FlattenSeq([i \in DOMAIN s |-> e[s[i]]])

LEMMA SpelledParts ==
    ASSUME NEW M, NEW S, NEW e \in [M -> Seq(S)], NEW s \in Seq(M)
    PROVE  [i \in DOMAIN s |-> e[s[i]]] \in Seq(Seq(S))
  <1>1. PICK Q : Q = Seq(S)
    OBVIOUS
  <1>2. PICK n \in Nat : n = Len(s) /\ DOMAIN s = 1 .. n /\ \A i \in 1 .. n : s[i] \in M
    BY LenProperties, ElementOfSeq
  <1>3. e \in [M -> Q]
    BY <1>1
  <1>4. [i \in 1 .. n |-> e[s[i]]] \in [1 .. n -> Q]
    BY <1>2, <1>3
  <1>5. [i \in 1 .. n |-> e[s[i]]] \in Seq(Q)
    BY <1>4
  <1> QED
    BY <1>1, <1>2, <1>5

LEMMA SpelledType ==
    ASSUME NEW M, NEW S, NEW e \in [M -> Seq(S)], NEW s \in Seq(M)
    PROVE  Spelled(s, e) \in Seq(S)
  <1>1. [i \in DOMAIN s |-> e[s[i]]] \in Seq(Seq(S))
    BY SpelledParts
  <1>2. PICK f : f = [i \in DOMAIN s |-> e[s[i]]]
    OBVIOUS
  <1>3. f \in Seq(Seq(S)) /\ Spelled(s, e) = FlattenSeq(f)
    BY <1>1, <1>2 DEF Spelled
  <1> QED
    BY <1>3, FlatType

LEMMA SpelledEmpty == \A e : Spelled(<<>>, e) = <<>>
  <1> SUFFICES ASSUME NEW e PROVE Spelled(<<>>, e) = <<>>
    OBVIOUS
  <1>1. [i \in DOMAIN <<>> |-> e[<<>>[i]]] = <<>>
    OBVIOUS
  <1> QED
    BY <1>1, FlatEmpty DEF Spelled

LEMMA SpelledAppend ==
    ASSUME NEW M, NEW S, NEW e \in [M -> Seq(S)], NEW s \in Seq(M), NEW m \in M
    PROVE  Spelled(Append(s, m), e) = Spelled(s, e) \o e[m]
  <1>1. PICK f : f = [i \in DOMAIN s |-> e[s[i]]]
    OBVIOUS
  <1>2. f \in Seq(Seq(S)) /\ Spelled(s, e) = FlattenSeq(f)
    BY <1>1, SpelledParts DEF Spelled
  <1>3. PICK t : t = Append(s, m)
    OBVIOUS
  <1>4. t \in Seq(M)
    BY <1>3, AppendProperties
  <1>5. PICK g : g = [i \in DOMAIN t |-> e[t[i]]]
    OBVIOUS
  <1>6. g \in Seq(Seq(S)) /\ Spelled(t, e) = FlattenSeq(g)
    BY <1>4, <1>5, SpelledParts DEF Spelled
  <1>7. PICK k : k = e[m]
    OBVIOUS
  <1>8. k \in Seq(S)
    BY <1>7
  <1>9. g = Append(f, k)
    <2>1. PICK n \in Nat : n = Len(s)
      BY LenProperties
    <2>2. DOMAIN t = 1 .. n + 1 /\ DOMAIN s = 1 .. n
          /\ \A i \in 1 .. n : t[i] = s[i]
      BY <1>3, <1>4, <2>1, AppendProperties, LenProperties
    <2>3. t[n + 1] = m
      BY <1>3, <2>1, AppendProperties
    <2>4. DOMAIN f = 1 .. n /\ DOMAIN g = 1 .. n + 1
      BY <1>1, <1>5, <2>2
    <2>5. Len(f) = n
      BY <1>2, <2>1, <2>4, LenProperties
    <2>6. \A i \in 1 .. n : g[i] = f[i]
      BY <1>1, <1>5, <2>1, <2>2
    <2>7. g[n + 1] = k
      BY <1>5, <1>7, <2>1, <2>2, <2>3
    <2>8. Len(g) = n + 1
      BY <1>6, <2>1, <2>4, LenProperties
    <2>9. PICK Q : Q = Seq(S)
      OBVIOUS
    <2>10. f \in Seq(Q) /\ g \in Seq(Q) /\ k \in Q
      BY <1>2, <1>6, <1>8, <2>9
    <2> QED
      BY <2>1, <2>5, <2>6, <2>7, <2>8, <2>10, AppendIs
  <1>10. FlattenSeq(g) = FlattenSeq(f) \o k
    BY <1>2, <1>8, <1>9, FlatAppend
  <1> QED
    BY <1>2, <1>3, <1>6, <1>7, <1>10

LEMMA SpelledTail ==
    ASSUME NEW M, NEW S, NEW e \in [M -> Seq(S)], NEW s \in Seq(M), s # <<>>
    PROVE  Spelled(s, e) = e[s[1]] \o Spelled(Tail(s), e)
  <1>1. PICK f : f = [i \in DOMAIN s |-> e[s[i]]]
    OBVIOUS
  <1>2. f \in Seq(Seq(S)) /\ Spelled(s, e) = FlattenSeq(f)
    BY <1>1, SpelledParts DEF Spelled
  <1>3. PICK t : t = Tail(s)
    OBVIOUS
  <1>4. t \in Seq(M)
    BY <1>3, HeadTailProperties
  <1>5. PICK g : g = [i \in DOMAIN t |-> e[t[i]]]
    OBVIOUS
  <1>6. g \in Seq(Seq(S)) /\ Spelled(t, e) = FlattenSeq(g)
    BY <1>4, <1>5, SpelledParts DEF Spelled
  <1>7. PICK n \in Nat : Len(s) = n + 1
    <2>1. Len(s) \in Nat \ {0}
      BY LenProperties, EmptySeq
    <2>2. Len(s) - 1 \in Nat /\ Len(s) = (Len(s) - 1) + 1
      BY <2>1
    <2> QED
      BY <2>2
  <1>8. DOMAIN s = 1 .. n + 1 /\ DOMAIN t = 1 .. n /\ \A i \in 1 .. n : t[i] = s[i + 1]
    BY <1>3, <1>4, <1>7, HeadTailProperties, LenProperties
  <1>9. PICK Q : Q = Seq(S)
    OBVIOUS
  <1>10. f \in Seq(Q) /\ g \in Seq(Q)
    BY <1>2, <1>6, <1>9
  <1>11. DOMAIN f = 1 .. n + 1 /\ DOMAIN g = 1 .. n /\ f[1] = e[s[1]]
         /\ \A i \in 1 .. n : g[i] = f[i + 1]
    BY <1>1, <1>5, <1>7, <1>8
  <1>12. Len(f) = n + 1 /\ Len(g) = n
    BY <1>7, <1>10, <1>11, LenProperties
  <1>13. f # <<>>
    BY <1>7, <1>12
  <1>14. PICK r : r = Tail(f)
    OBVIOUS
  <1>15. r \in Seq(Q) /\ Len(r) = n /\ \A i \in 1 .. n : r[i] = f[i + 1]
    BY <1>7, <1>10, <1>12, <1>13, <1>14, HeadTailProperties
  <1>16. \A i \in 1 .. n : r[i] = g[i]
    BY <1>11, <1>15
  <1>17. r = g
    BY <1>10, <1>12, <1>15, <1>16, SeqEqual
  <1>18. FlattenSeq(f) = f[1] \o FlattenSeq(g)
    BY <1>2, <1>13, <1>14, <1>17, FlatTail
  <1> QED
    BY <1>2, <1>3, <1>6, <1>11, <1>18

----------------------------------------------------------------------------
(***************************************************************************)
(* The messages of the console, and the types of its variables.            *)
(***************************************************************************)
KeyMsgs == {Msg("KEY_IN", "UART", <<c>>) : c \in Keys}
RegMsgs == {Registration(h) : h \in Handlers}
Heard   == KeyMsgs \cup RegMsgs

Displays == [type : {"DISPLAY"}, from : {"KCD", "CON"} \cup Handlers,
             data : {<<x>> : x \in Keys \cup Texts \cup Handlers}]
TextMsgs == {Text(what) : what \in Texts}
Commands == [type : {"KCD_CMD"}, from : {"KCD"}, data : Seq(Keys \cup {NoKey})]
Replies  == [to : {"CON"}, msg : TextMsgs] \cup [to : Handlers, msg : Commands]

Answers  == {<<what>> : what \in Texts \cup {"nothing"}} \cup {<<"KCD_CMD", h>> : h \in Handlers}
Entry    == [command : Keys, tid : Handlers]
Boxes    == {"KCD", "CON", "UART"} \cup Handlers

ConsoleTypeOK ==
    /\ DOMAIN line = Boxes /\ line = [m \in Boxes |-> line[m]]
    /\ line["KCD"] \in Seq(Heard) /\ line["CON"] \in Seq(Displays) /\ line["UART"] \in Seq(Displays)
    /\ cmd_reg_list \in Seq(Entry) /\ input_queue \in Seq(Keys)
    /\ input \in [1 .. KCD_CMD_BUF_SIZE -> Keys] /\ cmd_length \in Nat
    /\ entered \in BOOLEAN /\ todo \in Seq(Replies) /\ answers \in Seq(Answers)
    /\ enabling \in BOOLEAN /\ ier \in BOOLEAN /\ shown \in Seq(Keys)
    /\ state \in [Handlers -> {"start", "ready", "answering", "exited"}]
    /\ ub \in BOOLEAN /\ heard \in Seq(Heard)

LEMMA HeardIs ==
    ASSUME NEW m \in Heard
    PROVE  /\ IsKey(m) => \E c \in Keys : m = Msg("KEY_IN", "UART", <<c>>) /\ m.data = <<c>>
                                          /\ m.data[1] = c /\ m.type # "KCD_REG"
           /\ ~IsKey(m) => \E h \in Handlers : m = Registration(h) /\ m.from = h
                               /\ m.data[1] = Registers[h] /\ m.type = "KCD_REG"
           /\ m.data[1] \in Keys
  <1>1. CASE m \in KeyMsgs
    <2>1. PICK c \in Keys : m = Msg("KEY_IN", "UART", <<c>>)
      BY <1>1 DEF KeyMsgs
    <2>2. m.type = "KEY_IN" /\ m.data = <<c>> /\ m.data[1] = c
      BY <2>1 DEF Msg
    <2> QED
      BY <2>1, <2>2 DEF IsKey
  <1>2. CASE m \in RegMsgs
    <2>1. PICK h \in Handlers : m = Registration(h)
      BY <1>2 DEF RegMsgs
    <2>2. m.type = "KCD_REG" /\ m.from = h /\ m.data[1] = Registers[h]
      BY <2>1 DEF Registration, Msg
    <2>3. Registers[h] \in Keys
      BY ConsoleAssumption
    <2> QED
      BY <2>1, <2>2, <2>3 DEF IsKey
  <1> QED
    BY <1>1, <1>2 DEF Heard

LEMMA DisplayIs ==
    ASSUME NEW m \in Displays
    PROVE  /\ m.data = <<m.data[1]>> /\ m.data[1] \in Keys \cup Texts \cup Handlers
           /\ IsEcho(m) <=> m.data[1] \in Keys
  <1>1. PICK x \in Keys \cup Texts \cup Handlers : m.data = <<x>>
    BY DEF Displays
  <1>2. m.data[1] = x /\ Len(m.data) = 1
    BY <1>1
  <1>3. m.type = "DISPLAY" /\ m.from \in {"KCD", "CON"} \cup Handlers
    BY DEF Displays
  <1>4. m.from # "UART"
    BY <1>3, NamesAssumption
  <1> QED
    BY <1>1, <1>2, <1>3, <1>4 DEF IsEcho

\* What a message counts for among the keys, or among the echoes.
KeyOf(m)  == IF IsKey(m) THEN m.data ELSE <<>>
EchoOf(m) == IF IsEcho(m) THEN m.data ELSE <<>>

LEMMA KeyOfType ==
    ASSUME NEW m \in Heard
    PROVE  KeyOf(m) \in Seq(Keys)
  <1>1. CASE IsKey(m)
    <2>1. PICK c \in Keys : m.data = <<c>>
      BY <1>1, HeardIs
    <2> QED
      BY <1>1, <2>1 DEF KeyOf
  <1> QED
    BY <1>1 DEF KeyOf

LEMMA EchoOfType ==
    ASSUME NEW m \in Displays
    PROVE  EchoOf(m) \in Seq(Keys)
  <1>1. CASE IsEcho(m)
    <2>1. m.data = <<m.data[1]>> /\ m.data[1] \in Keys
      BY <1>1, DisplayIs
    <2>2. PICK c \in Keys : c = m.data[1]
      BY <2>1
    <2>3. m.data = <<c>>
      BY <2>1, <2>2
    <2>4. <<c>> \in Seq(Keys)
      OBVIOUS
    <2>5. EchoOf(m) = m.data
      BY <1>1 DEF EchoOf
    <2> QED
      BY <2>3, <2>4, <2>5
  <1> QED
    BY <1>1 DEF EchoOf


\* Each sort of message as a function, and what a mailbox says.
Key  == [m \in Heard |-> KeyOf(m)]
Echo == [m \in Displays |-> EchoOf(m)]

LEMMA KeyType == Key \in [Heard -> Seq(Keys)]
  BY KeyOfType DEF Key

LEMMA EchoType == Echo \in [Displays -> Seq(Keys)]
  BY EchoOfType DEF Echo

LEMMA KeysAre ==
    ASSUME NEW s \in Seq(Heard)
    PROVE  KeysIn(s) = Spelled(s, Key)
  <1>1. DOMAIN s = 1 .. Len(s) /\ \A i \in 1 .. Len(s) : s[i] \in Heard
    BY LenProperties, ElementOfSeq
  <1>2. \A i \in DOMAIN s : Key[s[i]] = IF IsKey(s[i]) THEN s[i].data ELSE <<>>
    BY <1>1 DEF Key, KeyOf
  <1>3. [i \in DOMAIN s |-> Key[s[i]]]
            = [i \in DOMAIN s |-> IF IsKey(s[i]) THEN s[i].data ELSE <<>>]
    BY <1>2
  <1> QED
    BY <1>3 DEF KeysIn, Spelled

LEMMA EchoesAre ==
    ASSUME NEW s \in Seq(Displays)
    PROVE  EchoesIn(s) = Spelled(s, Echo)
  <1>1. DOMAIN s = 1 .. Len(s) /\ \A i \in 1 .. Len(s) : s[i] \in Displays
    BY LenProperties, ElementOfSeq
  <1>2. \A i \in DOMAIN s : Echo[s[i]] = IF IsEcho(s[i]) THEN s[i].data ELSE <<>>
    BY <1>1 DEF Echo, EchoOf
  <1>3. [i \in DOMAIN s |-> Echo[s[i]]]
            = [i \in DOMAIN s |-> IF IsEcho(s[i]) THEN s[i].data ELSE <<>>]
    BY <1>2
  <1> QED
    BY <1>3 DEF EchoesIn, Spelled

LEMMA KeysType ==
    ASSUME NEW s \in Seq(Heard)
    PROVE  KeysIn(s) \in Seq(Keys)
  BY KeysAre, KeyType, SpelledType

LEMMA EchoesType ==
    ASSUME NEW s \in Seq(Displays)
    PROVE  EchoesIn(s) \in Seq(Keys)
  BY EchoesAre, EchoType, SpelledType

LEMMA KeysAppend ==
    ASSUME NEW s \in Seq(Heard), NEW m \in Heard
    PROVE  KeysIn(Append(s, m)) = KeysIn(s) \o KeyOf(m)
  <1>1. Append(s, m) \in Seq(Heard)
    BY AppendProperties
  <1>2. Spelled(Append(s, m), Key) = Spelled(s, Key) \o Key[m]
    BY KeyType, SpelledAppend
  <1>3. Key[m] = KeyOf(m)
    BY DEF Key
  <1> QED
    BY <1>1, <1>2, <1>3, KeysAre

LEMMA EchoesAppend ==
    ASSUME NEW s \in Seq(Displays), NEW m \in Displays
    PROVE  EchoesIn(Append(s, m)) = EchoesIn(s) \o EchoOf(m)
  <1>1. Append(s, m) \in Seq(Displays)
    BY AppendProperties
  <1>2. Spelled(Append(s, m), Echo) = Spelled(s, Echo) \o Echo[m]
    BY EchoType, SpelledAppend
  <1>3. Echo[m] = EchoOf(m)
    BY DEF Echo
  <1> QED
    BY <1>1, <1>2, <1>3, EchoesAre

LEMMA KeysTail ==
    ASSUME NEW s \in Seq(Heard), s # <<>>
    PROVE  KeysIn(s) = KeyOf(s[1]) \o KeysIn(Tail(s))
  <1>1. Tail(s) \in Seq(Heard) /\ s[1] \in Heard
    BY HeadTailProperties, LenProperties, EmptySeq, ElementOfSeq
  <1>2. Spelled(s, Key) = Key[s[1]] \o Spelled(Tail(s), Key)
    BY KeyType, SpelledTail
  <1>3. Key[s[1]] = KeyOf(s[1])
    BY <1>1 DEF Key
  <1> QED
    BY <1>1, <1>2, <1>3, KeysAre

LEMMA EchoesTail ==
    ASSUME NEW s \in Seq(Displays), s # <<>>
    PROVE  EchoesIn(s) = EchoOf(s[1]) \o EchoesIn(Tail(s))
  <1>1. Tail(s) \in Seq(Displays) /\ s[1] \in Displays
    BY HeadTailProperties, LenProperties, EmptySeq, ElementOfSeq
  <1>2. Spelled(s, Echo) = Echo[s[1]] \o Spelled(Tail(s), Echo)
    BY EchoType, SpelledTail
  <1>3. Echo[s[1]] = EchoOf(s[1])
    BY <1>1 DEF Echo
  <1> QED
    BY <1>1, <1>2, <1>3, EchoesAre

----------------------------------------------------------------------------
(***************************************************************************)
(* What each step does to the three mailboxes of the way of a key.         *)
(***************************************************************************)
Mailed(k, c, u) == /\ line' = [m \in Boxes |-> line'[m]]
                   /\ line'["KCD"] = k /\ line'["CON"] = c /\ line'["UART"] = u

LEMMA NamesApart == \A h \in Handlers : h # "KCD" /\ h # "CON" /\ h # "UART" /\ h # "none"
  BY NamesAssumption

LEMMA RegisterTakes ==
    ASSUME ConsoleTypeOK, KcdRegister
    PROVE  Mailed(Tail(line["KCD"]), line["CON"], line["UART"])
  BY DEF ConsoleTypeOK, KcdRegister, Mailed, Boxes

LEMMA KeyTakes ==
    ASSUME ConsoleTypeOK, KcdKey
    PROVE  Mailed(Tail(line["KCD"]),
                  Append(line["CON"], Msg("DISPLAY", "KCD", line["KCD"][1].data)), line["UART"])
  <1>1. line' = Sent([line EXCEPT !["KCD"] = Tail(@)], "CON",
                     Msg("DISPLAY", "KCD", line["KCD"][1].data))
    BY DEF KcdKey
  <1>2. PICK d : d = Msg("DISPLAY", "KCD", line["KCD"][1].data)
    OBVIOUS
  <1>3. PICK l : l = [line EXCEPT !["KCD"] = Tail(@)]
    OBVIOUS
  <1>4. l = [m \in Boxes |-> l[m]] /\ l["KCD"] = Tail(line["KCD"]) /\ l["CON"] = line["CON"]
        /\ l["UART"] = line["UART"]
    BY <1>3 DEF ConsoleTypeOK, Boxes
  <1>5. line' = [l EXCEPT !["CON"] = Append(@, d)]
    BY <1>1, <1>2, <1>3 DEF Sent
  <1>6. Mailed(l["KCD"], Append(l["CON"], d), l["UART"])
    BY <1>4, <1>5 DEF Mailed, Boxes
  <1> QED
    BY <1>2, <1>4, <1>6

LEMMA SendMails ==
    ASSUME ConsoleTypeOK, KcdSend
    PROVE  /\ todo[1] \in Replies
           /\ \/ Mailed(line["KCD"], line["CON"], line["UART"])
              \/ /\ todo[1].msg \in TextMsgs
                 /\ Mailed(line["KCD"], Append(line["CON"], todo[1].msg), line["UART"])
  <1>1. todo[1] \in Replies
    BY LenProperties, EmptySeq, ElementOfSeq DEF ConsoleTypeOK, KcdSend
  <1>2. PICK r \in Replies : r = todo[1]
    BY <1>1
  <1>3. line = [m \in Boxes |-> line[m]]
    BY DEF ConsoleTypeOK
  <1>4. line' = [line EXCEPT ![r.to] = Append(@, r.msg)]
    BY <1>2 DEF KcdSend, Sent
  <1>5. CASE r.to = "CON"
    <2>1. r.msg \in TextMsgs
      BY <1>2, <1>5, NamesApart DEF Replies
    <2>2. Mailed(line["KCD"], Append(line["CON"], r.msg), line["UART"])
      BY <1>3, <1>4, <1>5 DEF Mailed, Boxes
    <2> QED
      BY <1>1, <1>2, <2>1, <2>2
  <1>6. CASE r.to \in Handlers
    <2>1. r.to # "KCD" /\ r.to # "CON" /\ r.to # "UART"
      BY <1>6, NamesApart
    <2>2. line' = [m \in Boxes |-> line'[m]]
      BY <1>3, <1>4
    <2>3. line'["KCD"] = line["KCD"] /\ line'["CON"] = line["CON"] /\ line'["UART"] = line["UART"]
      BY <1>3, <1>4, <2>1 DEF Boxes
    <2> QED
      BY <1>1, <2>2, <2>3 DEF Mailed
  <1> QED
    BY <1>2, <1>5, <1>6 DEF Replies

LEMMA ConTakes ==
    ASSUME ConsoleTypeOK, ConReceive
    PROVE  Mailed(line["KCD"], Tail(line["CON"]),
                  Append(line["UART"], [line["CON"][1] EXCEPT !.from = "CON"]))
  <1>1. PICK d : d = [line["CON"][1] EXCEPT !.from = "CON"]
    OBVIOUS
  <1>2. PICK l : l = [line EXCEPT !["CON"] = Tail(@)]
    OBVIOUS
  <1>3. l = [m \in Boxes |-> l[m]] /\ l["KCD"] = line["KCD"] /\ l["CON"] = Tail(line["CON"])
        /\ l["UART"] = line["UART"]
    BY <1>2 DEF ConsoleTypeOK, Boxes
  <1>4. line' = [l EXCEPT !["UART"] = Append(@, d)]
    BY <1>1, <1>2 DEF ConReceive, Sent
  <1>5. Mailed(l["KCD"], l["CON"], Append(l["UART"], d))
    BY <1>3, <1>4 DEF Mailed, Boxes
  <1> QED
    BY <1>1, <1>3, <1>5

LEMMA TransmitTakes ==
    ASSUME ConsoleTypeOK, Transmit
    PROVE  IF line["UART"] = <<>> THEN Mailed(line["KCD"], line["CON"], line["UART"])
           ELSE Mailed(line["KCD"], line["CON"], Tail(line["UART"]))
  <1>1. line = [m \in Boxes |-> line[m]]
    BY DEF ConsoleTypeOK
  <1>2. line' = IF line["UART"] = <<>> THEN line ELSE [line EXCEPT !["UART"] = Tail(@)]
    BY DEF Transmit
  <1> QED
    BY <1>1, <1>2 DEF Mailed, Boxes

LEMMA KeyArrives ==
    ASSUME ConsoleTypeOK, NEW c \in Keys, KeyIn(c)
    PROVE  Mailed(Append(line["KCD"], Msg("KEY_IN", "UART", <<c>>)), line["CON"], line["UART"])
  <1>1. PICK d : d = Msg("KEY_IN", "UART", <<c>>)
    OBVIOUS
  <1>2. line' = [line EXCEPT !["KCD"] = Append(@, d)]
    BY <1>1 DEF KeyIn, Sent
  <1>3. line = [m \in Boxes |-> line[m]]
    BY DEF ConsoleTypeOK
  <1> QED
    BY <1>1, <1>2, <1>3 DEF Mailed, Boxes

LEMMA HandlerMails ==
    ASSUME ConsoleTypeOK, NEW h \in Handlers
    PROVE  /\ Register(h) => Mailed(Append(line["KCD"], Registration(h)), line["CON"], line["UART"])
           /\ HandlerReceive(h) => Mailed(line["KCD"], line["CON"], line["UART"])
           /\ HandlerAnswer(h) => Mailed(line["KCD"],
                                         Append(line["CON"], Msg("DISPLAY", h, <<h>>)),
                                         line["UART"])
  <1>1. line = [m \in Boxes |-> line[m]]
    BY DEF ConsoleTypeOK
  <1>2. ASSUME Register(h)
        PROVE  Mailed(Append(line["KCD"], Registration(h)), line["CON"], line["UART"])
    <2>1. PICK d : d = Registration(h)
      OBVIOUS
    <2>2. line' = [line EXCEPT !["KCD"] = Append(@, d)]
      BY <1>2, <2>1 DEF Register, Sent
    <2> QED
      BY <1>1, <2>1, <2>2 DEF Mailed, Boxes
  <1>3. ASSUME HandlerReceive(h)
        PROVE  Mailed(line["KCD"], line["CON"], line["UART"])
    <2>1. line' = [line EXCEPT ![h] = Tail(@)] /\ h # "KCD" /\ h # "CON" /\ h # "UART"
      BY <1>3, NamesApart DEF HandlerReceive
    <2> QED
      BY <1>1, <2>1 DEF Mailed, Boxes
  <1>4. ASSUME HandlerAnswer(h)
        PROVE  Mailed(line["KCD"], Append(line["CON"], Msg("DISPLAY", h, <<h>>)), line["UART"])
    <2>1. PICK d : d = Msg("DISPLAY", h, <<h>>)
      OBVIOUS
    <2>2. line' = [line EXCEPT !["CON"] = Append(@, d)]
      BY <1>4, <2>1 DEF HandlerAnswer, Sent
    <2> QED
      BY <1>1, <2>1, <2>2 DEF Mailed, Boxes
  <1> QED
    BY <1>2, <1>3, <1>4

----------------------------------------------------------------------------
(***************************************************************************)
(* The types.                                                              *)
(***************************************************************************)
LEMMA FirstHeard ==
    ASSUME ConsoleTypeOK, line["KCD"] # <<>>
    PROVE  line["KCD"][1] \in Heard
  BY LenProperties, EmptySeq, ElementOfSeq DEF ConsoleTypeOK

LEMMA TextIs ==
    ASSUME NEW m \in TextMsgs
    PROVE  m \in Displays /\ EchoOf(m) = <<>>
  <1>1. PICK what \in Texts : m = Text(what)
    BY DEF TextMsgs
  <1>2. m.type = "DISPLAY" /\ m.from = "KCD" /\ m.data = <<what>> /\ m \in Displays
    BY <1>1 DEF Text, Msg, Displays
  <1>3. m.data[1] = what /\ what \notin Keys
    BY <1>2, NamesAssumption
  <1>4. ~IsEcho(m)
    BY <1>2, <1>3 DEF IsEcho
  <1> QED
    BY <1>2, <1>4 DEF EchoOf

\* The echo of a key, its copy for the transmitter, and a handler's answer.
LEMMA EchoIs ==
    ASSUME NEW m \in Heard, IsKey(m)
    PROVE  /\ Msg("DISPLAY", "KCD", m.data) \in Displays
           /\ EchoOf(Msg("DISPLAY", "KCD", m.data)) = KeyOf(m)
  <1>1. PICK c \in Keys : m.data = <<c>>
    BY HeardIs
  <1>2. PICK d : d = Msg("DISPLAY", "KCD", m.data)
    OBVIOUS
  <1>3. d.type = "DISPLAY" /\ d.from = "KCD" /\ d.data = <<c>> /\ d \in Displays
    BY <1>1, <1>2 DEF Msg, Displays
  <1>4. IsEcho(d)
    <2>1. d.data[1] = c /\ Len(d.data) = 1
      BY <1>3
    <2> QED
      BY <1>3, <2>1 DEF IsEcho
  <1> QED
    BY <1>1, <1>2, <1>3, <1>4 DEF EchoOf, KeyOf

LEMMA CopyIs ==
    ASSUME NEW m \in Displays
    PROVE  /\ [m EXCEPT !.from = "CON"] \in Displays
           /\ EchoOf([m EXCEPT !.from = "CON"]) = EchoOf(m)
  <1>1. PICK d : d = [m EXCEPT !.from = "CON"]
    OBVIOUS
  <1>2. d \in Displays /\ d.data = m.data
    BY <1>1 DEF Displays
  <1>3. IsEcho(d) <=> IsEcho(m)
    BY <1>2, DisplayIs
  <1> QED
    BY <1>1, <1>2, <1>3 DEF EchoOf

LEMMA HandlerSays ==
    ASSUME NEW h \in Handlers
    PROVE  /\ Msg("DISPLAY", h, <<h>>) \in Displays
           /\ EchoOf(Msg("DISPLAY", h, <<h>>)) = <<>>
           /\ Registration(h) \in Heard /\ KeyOf(Registration(h)) = <<>>
  <1>1. PICK d : d = Msg("DISPLAY", h, <<h>>)
    OBVIOUS
  <1>2. d.data = <<h>> /\ d \in Displays
    BY <1>1 DEF Msg, Displays
  <1>3. d.data[1] = h /\ h \notin Keys
    BY <1>2, NamesAssumption
  <1>4. ~IsEcho(d)
    BY <1>2, <1>3, DisplayIs
  <1>5. Registration(h) \in Heard
    BY DEF RegMsgs, Heard
  <1>6. ~IsKey(Registration(h))
    BY DEF Registration, Msg, IsKey
  <1> QED
    BY <1>1, <1>2, <1>4, <1>5, <1>6 DEF EchoOf, KeyOf

LEMMA KeyMsgIs ==
    ASSUME NEW c \in Keys
    PROVE  Msg("KEY_IN", "UART", <<c>>) \in Heard /\ IsKey(Msg("KEY_IN", "UART", <<c>>))
           /\ KeyOf(Msg("KEY_IN", "UART", <<c>>)) = <<c>>
  <1>1. PICK d : d = Msg("KEY_IN", "UART", <<c>>)
    OBVIOUS
  <1>2. d \in Heard
    BY <1>1 DEF KeyMsgs, Heard
  <1>3. d.type = "KEY_IN" /\ d.data = <<c>>
    BY <1>1 DEF Msg
  <1> QED
    BY <1>1, <1>2, <1>3 DEF IsKey, KeyOf

\* What the enter key leads to.
Outcomes == [sends : Seq(Replies), answer : Answers, input : [1 .. KCD_CMD_BUF_SIZE -> Keys],
             cmd_length : Nat, overruns : BOOLEAN]

LEMMA ComplainType ==
    ASSUME NEW what \in Texts, NEW buf \in [1 .. KCD_CMD_BUF_SIZE -> Keys], NEW len \in Nat
    PROVE  Complain(what, buf, len) \in Outcomes
  <1>1. PICK r : r = Reply("CON", Text(what))
    OBVIOUS
  <1>2. r \in Replies
    BY <1>1 DEF Replies, Reply, TextMsgs
  <1>3. <<r>> \in Seq(Replies)
    BY <1>2
  <1>4. <<what>> \in Answers
    BY DEF Answers
  <1> QED
    BY <1>1, <1>3, <1>4 DEF Complain, Outcome, Outcomes

LEMMA ListingType ==
    ASSUME NEW what \in Texts, NEW ids, IsFiniteSet(ids),
           NEW buf \in [1 .. KCD_CMD_BUF_SIZE -> Keys], NEW len \in Nat
    PROVE  Listing(what, ids, buf, len) \in Outcomes
  <1>1. PICK n \in Nat : n = Cardinality(ids)
    BY FS_CardinalityType
  <1>2. PICK r : r = Reply("CON", Text(what))
    OBVIOUS
  <1>3. r \in Replies
    BY <1>2 DEF Replies, Reply, TextMsgs
  <1>4. [i \in 1 .. n |-> r] \in Seq(Replies)
    BY <1>3
  <1>5. <<what>> \in Answers
    BY DEF Answers
  <1> QED
    BY <1>1, <1>2, <1>4, <1>5 DEF Listing, Outcome, Outcomes

LEMMA ListedFinite ==
    IsFiniteSet({"NULL", "KCD", "CON"} \cup Handlers) /\ IsFiniteSet({"KCD", "CON"} \cup Handlers)
  <1>1. IsFiniteSet(Handlers \cup {"KCD"})
    BY NamesAssumption, FS_AddElement
  <1>2. IsFiniteSet((Handlers \cup {"KCD"}) \cup {"CON"})
    BY <1>1, FS_AddElement
  <1>3. IsFiniteSet(((Handlers \cup {"KCD"}) \cup {"CON"}) \cup {"NULL"})
    BY <1>2, FS_AddElement
  <1>4. (Handlers \cup {"KCD"}) \cup {"CON"} = {"KCD", "CON"} \cup Handlers
        /\ ((Handlers \cup {"KCD"}) \cup {"CON"}) \cup {"NULL"} = {"NULL", "KCD", "CON"} \cup Handlers
    OBVIOUS
  <1> QED
    BY <1>2, <1>3, <1>4

LEMMA DataType ==
    ASSUME NEW buf \in [1 .. KCD_CMD_BUF_SIZE -> Keys], NEW len \in Nat
    PROVE  Data(buf, len) \in Seq(Keys \cup {NoKey})
  <1>1. \A i \in 1 .. len : (IF i \in DOMAIN buf THEN buf[i] ELSE NoKey) \in Keys \cup {NoKey}
    OBVIOUS
  <1>2. Data(buf, len) \in [1 .. len -> Keys \cup {NoKey}]
    BY <1>1 DEF Data
  <1> QED
    BY <1>2

\* The entries of a list with a given command.
EntriesOf(list, c) == {i \in DOMAIN list : list[i].command = c}

LEMMA FoundIs ==
    ASSUME NEW list \in Seq(Entry), NEW c, EntriesOf(list, c) # {}
    PROVE  /\ Min(EntriesOf(list, c)) \in 1 .. Len(list)
           /\ list[Min(EntriesOf(list, c))] \in Entry
           /\ list[Min(EntriesOf(list, c))].command = c
           /\ list[Min(EntriesOf(list, c))].tid \in Handlers
  <1>0. PICK found : found = EntriesOf(list, c)
    OBVIOUS
  <1>1. DOMAIN list = 1 .. Len(list) /\ Len(list) \in Nat
    BY LenProperties
  <1>2. found \in SUBSET Nat /\ found # {}
    BY <1>0, <1>1 DEF EntriesOf
  <1>3. Min(found) \in found
    BY <1>2, MinIs
  <1>4. PICK k \in 1 .. Len(list) : k = Min(found)
    BY <1>0, <1>1, <1>3 DEF EntriesOf
  <1>5. list[k].command = c
    BY <1>0, <1>3, <1>4 DEF EntriesOf
  <1>6. PICK e \in Entry : e = list[k]
    BY <1>4, ElementOfSeq
  <1>7. e.tid \in Handlers
    BY <1>6 DEF Entry
  <1> QED
    BY <1>0, <1>4, <1>5, <1>6, <1>7

LEMMA LookupType ==
    ASSUME ConsoleTypeOK, NEW buf \in [1 .. KCD_CMD_BUF_SIZE -> Keys], NEW len \in Nat
    PROVE  Lookup(buf, len) \in Outcomes
  <1>1. PICK found : found = EntriesOf(cmd_reg_list, buf[1])
    OBVIOUS
  <1>2. PICK t : t = cmd_reg_list[Min(found)].tid
    OBVIOUS
  <1>3. CASE found = {}
    <2>1. Lookup(buf, len) = Complain("Command not found", buf, 0)
      BY <1>1, <1>2, <1>3 DEF Lookup, EntriesOf
    <2>2. "Command not found" \in Texts
      BY DEF Texts
    <2> QED
      BY <2>1, <2>2, ComplainType
  <1>4. CASE found # {}
    <2>1. t \in Handlers
      <3>1. cmd_reg_list \in Seq(Entry) /\ EntriesOf(cmd_reg_list, buf[1]) # {}
        BY <1>1, <1>4 DEF ConsoleTypeOK
      <3> QED
        BY <1>1, <1>2, <3>1, FoundIs
    <2>2. PICK d \in Seq(Keys \cup {NoKey}) : d = Data(buf, len)
      BY DataType
    <2>3. PICK r : r = Reply(t, Msg("KCD_CMD", "KCD", d))
      OBVIOUS
    <2>4. Msg("KCD_CMD", "KCD", d) \in Commands
      BY <2>2 DEF Msg, Commands
    <2>5. r \in Replies
      BY <2>1, <2>3, <2>4 DEF Reply, Replies
    <2>6. <<r>> \in Seq(Replies)
      BY <2>5
    <2>7. <<"KCD_CMD", t>> \in Answers
      BY <2>1 DEF Answers
    <2>8. Lookup(buf, len) = Outcome(<<r>>, <<"KCD_CMD", t>>, buf, 0, FALSE)
      BY <1>1, <1>2, <1>4, <2>2, <2>3 DEF Lookup, EntriesOf
    <2> QED
      BY <2>6, <2>7, <2>8 DEF Outcome, Outcomes
  <1> QED
    BY <1>3, <1>4

LEMMA CommandType ==
    ASSUME ConsoleTypeOK, NEW rest \in Seq(Keys), rest # <<>>
    PROVE  Command(rest) \in Outcomes
  <1> DEFINE n   == IF Len(rest) < KCD_CMD_BUF_SIZE THEN Len(rest) ELSE KCD_CMD_BUF_SIZE
             buf == [i \in DOMAIN input |-> IF i <= n THEN rest[i] ELSE input[i]]
             len == cmd_length + n
  <1>1. Len(rest) \in Nat /\ n \in Nat /\ n <= Len(rest) /\ KCD_CMD_BUF_SIZE \in Nat
    BY LenProperties, ConsoleAssumption
  <1>2. len \in Nat
    BY <1>1 DEF ConsoleTypeOK
  <1>3. \A i \in 1 .. n : rest[i] \in Keys
    BY <1>1, ElementOfSeq
  <1>4. DOMAIN input = 1 .. KCD_CMD_BUF_SIZE
        /\ \A i \in 1 .. KCD_CMD_BUF_SIZE : input[i] \in Keys
    BY DEF ConsoleTypeOK
  <1>5. buf \in [1 .. KCD_CMD_BUF_SIZE -> Keys]
    <2>1. \A i \in 1 .. KCD_CMD_BUF_SIZE : (IF i <= n THEN rest[i] ELSE input[i]) \in Keys
      BY <1>1, <1>3, <1>4
    <2> HIDE DEF n
    <2> QED
      BY <1>4, <2>1
  <1>6. Command(rest) = IF Len(rest) > KCD_CMD_BUF_SIZE THEN Complain("Invalid command", buf, len)
                        ELSE IF buf[1] = "L" /\ buf[2] = "T" THEN ListTasks(buf, len)
                        ELSE IF buf[1] = "L" /\ buf[2] = "M" THEN ListBoxes(buf, len)
                        ELSE Lookup(buf, len)
    BY DEF Command
  <1> HIDE DEF n, buf, len
  <1>7. Complain("Invalid command", buf, len) \in Outcomes
    BY <1>2, <1>5, ComplainType DEF Texts
  <1>8. ListTasks(buf, len) \in Outcomes /\ ListBoxes(buf, len) \in Outcomes
    BY <1>2, <1>5, ListingType, ListedFinite DEF ListTasks, ListBoxes, Texts
  <1>9. Lookup(buf, len) \in Outcomes
    BY <1>2, <1>5, LookupType
  <1> QED
    BY <1>6, <1>7, <1>8, <1>9

LEMMA EnteredType ==
    ASSUME ConsoleTypeOK
    PROVE  Entered \in Outcomes
  <1>1. input \in [1 .. KCD_CMD_BUF_SIZE -> Keys] /\ cmd_length \in Nat /\ input_queue \in Seq(Keys)
    BY DEF ConsoleTypeOK
  <1>2. Nothing \in Outcomes
    <2>1. <<>> \in Seq(Replies) /\ <<"nothing">> \in Answers
      BY DEF Answers
    <2> QED
      BY <1>1, <2>1 DEF Nothing, Outcome, Outcomes
  <1>3. Complain("Invalid command", input, cmd_length) \in Outcomes
    BY <1>1, ComplainType DEF Texts
  <1>4. CASE input_queue # <<>> /\ Len(input_queue) # 1
    <2>1. Tail(input_queue) \in Seq(Keys) /\ Len(Tail(input_queue)) = Len(input_queue) - 1
      BY <1>1, <1>4, HeadTailProperties
    <2>2. Tail(input_queue) # <<>>
      <3>1. Len(input_queue) \in Nat \ {0}
        BY <1>1, <1>4, LenProperties, EmptySeq
      <3>2. Len(Tail(input_queue)) # 0
        BY <1>4, <2>1, <3>1
      <3>3. Len(<<>>) = 0
        OBVIOUS
      <3> QED
        BY <3>2, <3>3
    <2>3. Command(Tail(input_queue)) \in Outcomes
      BY <2>1, <2>2, CommandType
    <2> QED
      BY <1>2, <1>3, <1>4, <2>3 DEF Entered
  <1>5. CASE ~(input_queue # <<>> /\ Len(input_queue) # 1)
    BY <1>2, <1>3, <1>5 DEF Entered
  <1> QED
    BY <1>4, <1>5

LEMMA RegisteredType ==
    ASSUME NEW list \in Seq(Entry), NEW c \in Keys, NEW t \in Handlers
    PROVE  Registered(list, c, t) \in Seq(Entry)
  <1>1. PICK same : same = EntriesOf(list, c)
    OBVIOUS
  <1>2. CASE same = {}
    <2>1. PICK e \in Entry : e = [command |-> c, tid |-> t]
      BY DEF Entry
    <2>2. Registered(list, c, t) = Append(list, e)
      BY <1>1, <1>2, <2>1 DEF Registered, EntriesOf
    <2> QED
      BY <2>2, AppendProperties
  <1>3. CASE same # {}
    <2>1. PICK k \in 1 .. Len(list) : k = Min(same) /\ list[k] \in Entry
      BY <1>1, <1>3, FoundIs
    <2>2. PICK e : e = [list[k] EXCEPT !.tid = t]
      OBVIOUS
    <2>3. e \in Entry
      BY <2>1, <2>2 DEF Entry
    <2>4. Registered(list, c, t) = [list EXCEPT ![k] = e]
      BY <1>1, <1>3, <2>1, <2>2 DEF Registered, EntriesOf
    <2> QED
      BY <2>3, <2>4, ExceptSeq
  <1> QED
    BY <1>2, <1>3

LEMMA MailedType ==
    ASSUME NEW k \in Seq(Heard), NEW c \in Seq(Displays), NEW u \in Seq(Displays), Mailed(k, c, u)
    PROVE  /\ DOMAIN line' = Boxes /\ line' = [m \in Boxes |-> line'[m]]
           /\ line'["KCD"] \in Seq(Heard) /\ line'["CON"] \in Seq(Displays)
           /\ line'["UART"] \in Seq(Displays)
  <1>1. line' = [m \in Boxes |-> line'[m]] /\ line'["KCD"] = k /\ line'["CON"] = c
        /\ line'["UART"] = u
    BY DEF Mailed
  <1>2. PICK l : l = line'
    OBVIOUS
  <1>3. DOMAIN l = Boxes
    BY <1>1, <1>2
  <1> QED
    BY <1>1, <1>2, <1>3

LEMMA TailType ==
    ASSUME NEW S, NEW s \in Seq(S), s # <<>>
    PROVE  Tail(s) \in Seq(S) /\ s[1] \in S
  BY HeadTailProperties, LenProperties, EmptySeq, ElementOfSeq

LEMMA KcdTypes ==
    ASSUME ConsoleTypeOK, Kcd
    PROVE  ConsoleTypeOK'
  <1>1. CASE KcdRegister
    <2>1. PICK m \in Heard : m = line["KCD"][1] /\ ~IsKey(m) /\ line["KCD"] # <<>>
      BY <1>1, FirstHeard DEF KcdRegister
    <2>2. m.from \in Handlers /\ m.data[1] \in Keys
      BY <2>1, HeardIs
    <2>3. cmd_reg_list' = Registered(cmd_reg_list, m.data[1], m.from)
      BY <1>1, <2>1 DEF KcdRegister
    <2>4. cmd_reg_list' \in Seq(Entry)
      BY <2>2, <2>3, RegisteredType DEF ConsoleTypeOK
    <2>5. Mailed(Tail(line["KCD"]), line["CON"], line["UART"])
      BY <1>1, RegisterTakes
    <2>6. Tail(line["KCD"]) \in Seq(Heard) /\ line["CON"] \in Seq(Displays)
          /\ line["UART"] \in Seq(Displays)
      BY <2>1, TailType DEF ConsoleTypeOK
    <2> QED
      BY <1>1, <2>4, <2>5, <2>6, MailedType DEF ConsoleTypeOK, KcdRegister, uartVars
  <1>2. CASE KcdKey
    <2>1. PICK m \in Heard : m = line["KCD"][1] /\ IsKey(m) /\ line["KCD"] # <<>>
      BY <1>2, FirstHeard DEF KcdKey
    <2>2. PICK d \in Displays : d = Msg("DISPLAY", "KCD", m.data)
      BY <2>1, EchoIs
    <2>3. Mailed(Tail(line["KCD"]), Append(line["CON"], d), line["UART"])
      BY <1>2, <2>1, <2>2, KeyTakes
    <2>4. Tail(line["KCD"]) \in Seq(Heard) /\ line["CON"] \in Seq(Displays)
          /\ line["UART"] \in Seq(Displays)
      BY <2>1, TailType DEF ConsoleTypeOK
    <2>5. Append(line["CON"], d) \in Seq(Displays)
      BY <2>4, AppendProperties
    <2>6. m.data[1] \in Keys /\ input_queue \in Seq(Keys)
      BY HeardIs DEF ConsoleTypeOK
    <2>7. Append(input_queue, m.data[1]) \in Seq(Keys)
      BY <2>6, AppendProperties
    <2>8. input_queue' \in Seq(Keys) /\ entered' \in BOOLEAN
      BY <1>2, <2>1, <2>6, <2>7 DEF KcdKey, Enqueued
    <2> QED
      BY <1>2, <2>3, <2>4, <2>5, <2>8, MailedType DEF ConsoleTypeOK, KcdKey, uartVars
  <1>3. CASE KcdEnter
    <2>1. PICK e \in Outcomes : e = Entered
      BY EnteredType
    <2>2. e.sends \in Seq(Replies) /\ e.answer \in Answers
          /\ e.input \in [1 .. KCD_CMD_BUF_SIZE -> Keys] /\ e.cmd_length \in Nat
      BY <2>1 DEF Outcomes
    <2>3. todo' = e.sends /\ answers' = Append(answers, e.answer) /\ input' = e.input
          /\ cmd_length' = e.cmd_length /\ ub' \in BOOLEAN
      BY <1>3, <2>1 DEF KcdEnter
    <2>4. answers' \in Seq(Answers)
      BY <2>2, <2>3, AppendProperties DEF ConsoleTypeOK
    <2>5. input_queue' \in Seq(Keys) /\ entered' \in BOOLEAN
      <3>1. input_queue' = <<>> /\ entered' = FALSE
        BY <1>3 DEF KcdEnter
      <3>2. <<>> \in Seq(Keys)
        OBVIOUS
      <3>3. entered' \in BOOLEAN
        BY <3>1
      <3> QED
        BY <3>1, <3>2, <3>3
    <2>6. UNCHANGED <<line, cmd_reg_list, enabling, ier, shown, state, heard>>
      BY <1>3 DEF KcdEnter, uartVars
    <2> QED
      BY <2>2, <2>3, <2>4, <2>5, <2>6 DEF ConsoleTypeOK
  <1>4. CASE KcdSend
    <2>1. todo # <<>> /\ todo' = Tail(todo)
      BY <1>4 DEF KcdSend
    <2>2. todo' \in Seq(Replies)
      BY <2>1, TailType DEF ConsoleTypeOK
    <2>3. line["KCD"] \in Seq(Heard) /\ line["CON"] \in Seq(Displays)
          /\ line["UART"] \in Seq(Displays)
      BY DEF ConsoleTypeOK
    <2>4. todo[1].msg \in TextMsgs => Append(line["CON"], todo[1].msg) \in Seq(Displays)
      BY <2>3, TextIs, AppendProperties
    <2>5. /\ DOMAIN line' = Boxes /\ line' = [m \in Boxes |-> line'[m]]
          /\ line'["KCD"] \in Seq(Heard) /\ line'["CON"] \in Seq(Displays)
          /\ line'["UART"] \in Seq(Displays)
      BY <1>4, <2>3, <2>4, SendMails, MailedType
    <2> QED
      BY <1>4, <2>2, <2>5 DEF ConsoleTypeOK, KcdSend, uartVars
  <1> QED
    BY <1>1, <1>2, <1>3, <1>4 DEF Kcd

LEMMA UartTypes ==
    ASSUME ConsoleTypeOK, Con \/ Transmit \/ \E c \in Keys : KeyIn(c)
    PROVE  ConsoleTypeOK'
  <1>0. line["KCD"] \in Seq(Heard) /\ line["CON"] \in Seq(Displays)
        /\ line["UART"] \in Seq(Displays) /\ heard \in Seq(Heard)
    BY DEF ConsoleTypeOK
  <1>1. CASE ConReceive
    <2>1. Tail(line["CON"]) \in Seq(Displays) /\ line["CON"][1] \in Displays
      BY <1>0, <1>1, TailType DEF ConReceive
    <2>2. PICK d \in Displays : d = [line["CON"][1] EXCEPT !.from = "CON"]
      BY <2>1, CopyIs
    <2>3. Mailed(line["KCD"], Tail(line["CON"]), Append(line["UART"], d))
      BY <1>1, <2>2, ConTakes
    <2>4. Append(line["UART"], d) \in Seq(Displays)
      BY <1>0, AppendProperties
    <2>5. ub' \in BOOLEAN
      BY <1>1 DEF ConReceive
    <2> QED
      BY <1>0, <1>1, <2>1, <2>3, <2>4, <2>5, MailedType DEF ConsoleTypeOK, ConReceive, kcdVars
  <1>2. CASE ConEnable
    BY <1>2 DEF ConsoleTypeOK, ConEnable, kcdVars
  <1>3. CASE Transmit
    <2>1. /\ DOMAIN line' = Boxes /\ line' = [m \in Boxes |-> line'[m]]
          /\ line'["KCD"] \in Seq(Heard) /\ line'["CON"] \in Seq(Displays)
          /\ line'["UART"] \in Seq(Displays)
      <3>1. line["UART"] # <<>> => Tail(line["UART"]) \in Seq(Displays)
        BY <1>0, TailType
      <3> QED
        BY <1>0, <1>3, <3>1, TransmitTakes, MailedType
    <2>2. shown' \in Seq(Keys) /\ ub' \in BOOLEAN
      <3>1. CASE line["UART"] = <<>>
        BY <1>3, <3>1 DEF Transmit, ConsoleTypeOK
      <3>2. CASE line["UART"] # <<>>
        <4>1. PICK m \in Displays : m = line["UART"][1]
          BY <1>0, <3>2, TailType
        <4>2. IsEcho(m) => m.data[1] \in Keys
          BY DEF IsEcho
        <4>3. shown' = (IF IsEcho(m) THEN Append(shown, m.data[1]) ELSE shown) /\ ub' = ub
          BY <1>3, <3>2, <4>1 DEF Transmit
        <4> QED
          BY <4>2, <4>3, AppendProperties DEF ConsoleTypeOK
      <3> QED
        BY <3>1, <3>2
    <2>3. ier' \in BOOLEAN
      BY <1>3 DEF Transmit
    <2> QED
      BY <1>3, <2>1, <2>2, <2>3 DEF ConsoleTypeOK, Transmit, kcdVars
  <1>4. ASSUME NEW c \in Keys, KeyIn(c)
        PROVE  ConsoleTypeOK'
    <2>1. PICK d \in Heard : d = Msg("KEY_IN", "UART", <<c>>)
      BY KeyMsgIs
    <2>2. Mailed(Append(line["KCD"], d), line["CON"], line["UART"])
      BY <1>4, <2>1, KeyArrives
    <2>3. heard' = Append(heard, d)
      BY <1>4, <2>1 DEF KeyIn
    <2>4. Append(line["KCD"], d) \in Seq(Heard) /\ heard' \in Seq(Heard)
      BY <1>0, <2>3, AppendProperties
    <2> QED
      BY <1>0, <1>4, <2>2, <2>4, MailedType DEF ConsoleTypeOK, KeyIn, kcdVars, uartVars
  <1> QED
    BY <1>1, <1>2, <1>3, <1>4 DEF Con

LEMMA HandlerTypes ==
    ASSUME ConsoleTypeOK, NEW h \in Handlers, Handle(h) \/ HandlerExit(h)
    PROVE  ConsoleTypeOK'
  <1>0. line["KCD"] \in Seq(Heard) /\ line["CON"] \in Seq(Displays)
        /\ line["UART"] \in Seq(Displays) /\ heard \in Seq(Heard)
    BY DEF ConsoleTypeOK
  <1>1. CASE Register(h)
    <2>1. PICK d \in Heard : d = Registration(h)
      BY HandlerSays
    <2>2. Mailed(Append(line["KCD"], d), line["CON"], line["UART"]) /\ heard' = Append(heard, d)
      BY <1>1, <2>1, HandlerMails DEF Register
    <2>3. Append(line["KCD"], d) \in Seq(Heard) /\ heard' \in Seq(Heard)
      BY <1>0, <2>2, AppendProperties
    <2>4. state' \in [Handlers -> {"start", "ready", "answering", "exited"}]
      BY <1>1 DEF ConsoleTypeOK, Register
    <2> QED
      BY <1>0, <1>1, <2>2, <2>3, <2>4, MailedType DEF ConsoleTypeOK, Register, kcdVars, uartVars
  <1>2. CASE HandlerReceive(h)
    <2>1. Mailed(line["KCD"], line["CON"], line["UART"])
      BY <1>2, HandlerMails
    <2>2. state' \in [Handlers -> {"start", "ready", "answering", "exited"}]
      BY <1>2 DEF ConsoleTypeOK, HandlerReceive
    <2> QED
      BY <1>0, <1>2, <2>1, <2>2, MailedType DEF ConsoleTypeOK, HandlerReceive, kcdVars, uartVars
  <1>3. CASE HandlerAnswer(h)
    <2>1. PICK d \in Displays : d = Msg("DISPLAY", h, <<h>>)
      BY HandlerSays
    <2>2. Mailed(line["KCD"], Append(line["CON"], d), line["UART"])
      BY <1>3, <2>1, HandlerMails
    <2>3. Append(line["CON"], d) \in Seq(Displays)
      BY <1>0, AppendProperties
    <2>4. state' \in [Handlers -> {"start", "ready", "answering", "exited"}]
      BY <1>3 DEF ConsoleTypeOK, HandlerAnswer
    <2>5. ub' \in BOOLEAN
      BY <1>3 DEF HandlerAnswer
    <2> QED
      BY <1>0, <1>3, <2>2, <2>3, <2>4, <2>5, MailedType
         DEF ConsoleTypeOK, HandlerAnswer, kcdVars, uartVars
  <1>4. CASE HandlerExit(h)
    <2>1. state' \in [Handlers -> {"start", "ready", "answering", "exited"}]
      BY <1>4 DEF ConsoleTypeOK, HandlerExit
    <2> QED
      BY <1>4, <2>1 DEF ConsoleTypeOK, HandlerExit, kcdVars, uartVars
  <1> QED
    BY <1>1, <1>2, <1>3, <1>4 DEF Handle

\* The registrations that are there before the first key.
LEMMA FirstRegistrations ==
    ASSUME ConsoleInit
    PROVE  heard \in Seq({Registration(h) : h \in Handlers \ Apps})
  <1>1. PICK R : R = {Registration(h) : h \in Handlers \ Apps}
    OBVIOUS
  <1>2. IsFiniteSet(Handlers \ Apps)
    BY NamesAssumption, FS_Subset
  <1>3. IsFiniteSet(R)
    <2>1. PICK f : f = [h \in Handlers \ Apps |-> Registration(h)]
      OBVIOUS
    <2>2. f \in [Handlers \ Apps -> R] /\ \A r \in R : \E h \in Handlers \ Apps : f[h] = r
      BY <1>1, <2>1
    <2>3. f \in Surjection(Handlers \ Apps, R)
      BY <2>2 DEF Surjection
    <2> QED
      BY <1>2, <2>3, FS_Surjection
  <1>4. PICK n \in Nat : n = Cardinality(R)
    BY <1>3, FS_CardinalityType
  <1>5. \E f \in [1 .. n -> R] : IsInjective(f)
    BY <1>3, <1>4, FS_CardinalityType DEF ExistsBijection, Bijection, Injection
  <1>6. heard = CHOOSE f \in [1 .. n -> R] : IsInjective(f)
    BY <1>1, <1>4 DEF ConsoleInit, SetToSeq
  <1>7. heard \in [1 .. n -> R]
    <2> HIDE DEF IsInjective
    <2> QED
      BY <1>5, <1>6
  <1> QED
    BY <1>1, <1>7

LEMMA InitTypes ==
    ASSUME ConsoleInit
    PROVE  ConsoleTypeOK
  <1>1. heard \in Seq(Heard)
    <2>1. PICK R : R = {Registration(h) : h \in Handlers \ Apps}
      OBVIOUS
    <2>2. heard \in Seq(R) /\ R \subseteq Heard
      BY <2>1, FirstRegistrations DEF Heard, RegMsgs
    <2> QED
      BY <2>2
  <1>2. line = [m \in Boxes |-> IF m = "KCD" THEN heard ELSE <<>>]
    BY DEF ConsoleInit, Boxes
  <1>3. /\ DOMAIN line = Boxes /\ line = [m \in Boxes |-> line[m]]
        /\ line["KCD"] = heard /\ line["CON"] = <<>> /\ line["UART"] = <<>>
    BY <1>2 DEF Boxes
  <1>4. input \in [1 .. KCD_CMD_BUF_SIZE -> Keys]
    BY ConsoleAssumption DEF ConsoleInit
  <1>5. state \in [Handlers -> {"start", "ready", "answering", "exited"}]
    BY DEF ConsoleInit
  <1>6. /\ line["KCD"] \in Seq(Heard) /\ line["CON"] \in Seq(Displays)
        /\ line["UART"] \in Seq(Displays)
    <2>1. <<>> \in Seq(Displays)
      OBVIOUS
    <2> QED
      BY <1>1, <1>3, <2>1
  <1>7. cmd_reg_list = <<>> /\ input_queue = <<>> /\ cmd_length = 0 /\ entered = FALSE
        /\ todo = <<>> /\ answers = <<>> /\ enabling = FALSE /\ ier = FALSE /\ shown = <<>>
        /\ ub = FALSE
    BY DEF ConsoleInit
  <1>8. cmd_reg_list \in Seq(Entry) /\ input_queue \in Seq(Keys) /\ todo \in Seq(Replies)
        /\ answers \in Seq(Answers) /\ shown \in Seq(Keys)
    BY <1>7
  <1> QED
    BY <1>1, <1>3, <1>4, <1>5, <1>6, <1>7, <1>8 DEF ConsoleTypeOK

LEMMA StepTypes == ConsoleTypeOK /\ [ConsoleNext]_consoleVars => ConsoleTypeOK'
  <1> SUFFICES ASSUME ConsoleTypeOK, [ConsoleNext]_consoleVars PROVE ConsoleTypeOK'
    OBVIOUS
  <1>1. CASE ConsoleNext
    BY <1>1, KcdTypes, UartTypes, HandlerTypes DEF ConsoleNext
  <1>2. CASE UNCHANGED consoleVars
    BY <1>2 DEF consoleVars, kcdVars, uartVars, ConsoleTypeOK
  <1> QED
    BY <1>1, <1>2

\* Every mailbox, list and buffer holds what its readers take it to hold: only keys
\* and registrations reach the KCD, only texts the display, and the messages still
\* to be sent go to the display or to a task that registered.
THEOREM ConsoleTypes == ConsoleSpec => []ConsoleTypeOK
  <1>1. ConsoleInit => ConsoleTypeOK
    BY InitTypes
  <1> QED
    BY <1>1, StepTypes, PTL DEF ConsoleSpec

----------------------------------------------------------------------------
(***************************************************************************)
(* The echoes.                                                             *)
(***************************************************************************)
\* The keys of h are those shown, the echoes in u and c, and those in k.
Order(h, k, c, u, s) == s \o EchoesIn(u) \o EchoesIn(c) \o KeysIn(k) = KeysIn(h)

LEMMA OrderIs ==
    /\ EchoesInOrder <=> Order(heard, line["KCD"], line["CON"], line["UART"], shown)
    /\ EchoesInOrder' <=> Order(heard', line'["KCD"], line'["CON"], line'["UART"], shown')
  BY DEF EchoesInOrder, Order, Typed

\* How sequences of keys may be regrouped.
Regroups(a, b, c) == (a \o b) \o c = a \o (b \o c)
Shifts(a, b, x, c) == (a \o (b \o x)) \o c = (a \o b) \o (x \o c)

LEMMA KeysRegroup ==
    /\ \A a, b, c \in Seq(Keys) : Regroups(a, b, c)
    /\ \A a, b, x, c \in Seq(Keys) : Shifts(a, b, x, c)
  <1>1. ASSUME NEW a \in Seq(Keys), NEW b \in Seq(Keys), NEW c \in Seq(Keys)
        PROVE  Regroups(a, b, c)
    BY ConcatAssociative DEF Regroups
  <1>2. ASSUME NEW a \in Seq(Keys), NEW b \in Seq(Keys), NEW x \in Seq(Keys), NEW c \in Seq(Keys)
        PROVE  Shifts(a, b, x, c)
    <2>1. a \o (b \o x) = (a \o b) \o x
      BY ConcatAssociative
    <2>2. PICK p \in Seq(Keys) : p = a \o b
      BY ConcatProperties
    <2>3. (p \o x) \o c = p \o (x \o c)
      BY <1>1 DEF Regroups
    <2> QED
      BY <2>1, <2>2, <2>3 DEF Shifts
  <1> QED
    BY <1>1, <1>2

LEMMA OrderHears ==
    ASSUME NEW h \in Seq(Heard), NEW k \in Seq(Heard), NEW c \in Seq(Displays),
           NEW u \in Seq(Displays), NEW s \in Seq(Keys), NEW m \in Heard, Order(h, k, c, u, s)
    PROVE  Order(Append(h, m), Append(k, m), c, u, s)
  <1>1. PICK x \in Seq(Keys), y \in Seq(Keys), p \in Seq(Keys), q \in Seq(Keys) :
            x = KeyOf(m) /\ y = KeysIn(k) /\ p = EchoesIn(u) /\ q = EchoesIn(c)
    BY KeyOfType, KeysType, EchoesType
  <1>2. PICK a \in Seq(Keys) : a = s \o p \o q
    BY ConcatProperties
  <1>3. KeysIn(h) = a \o y
    BY <1>1, <1>2 DEF Order
  <1>4. KeysIn(Append(h, m)) = KeysIn(h) \o x /\ KeysIn(Append(k, m)) = y \o x
    BY <1>1, KeysAppend
  <1>5. Regroups(a, y, x)
    BY <1>1, <1>2, KeysRegroup
  <1> QED
    BY <1>1, <1>2, <1>3, <1>4, <1>5 DEF Order, Regroups

LEMMA OrderReads ==
    ASSUME NEW h \in Seq(Heard), NEW k \in Seq(Heard), NEW c \in Seq(Displays),
           NEW u \in Seq(Displays), NEW s \in Seq(Keys), Order(h, k, c, u, s),
           k # <<>>, ~IsKey(k[1])
    PROVE  Order(h, Tail(k), c, u, s)
  <1>1. Tail(k) \in Seq(Heard)
    BY TailType
  <1>2. KeysIn(k) = KeyOf(k[1]) \o KeysIn(Tail(k)) /\ KeyOf(k[1]) = <<>>
    BY KeysTail DEF KeyOf
  <1>3. PICK y \in Seq(Keys) : y = KeysIn(Tail(k))
    BY <1>1, KeysType
  <1>4. <<>> \o y = y
    BY ConcatEmptySeq
  <1> QED
    BY <1>2, <1>3, <1>4 DEF Order

LEMMA OrderEchoes ==
    ASSUME NEW h \in Seq(Heard), NEW k \in Seq(Heard), NEW c \in Seq(Displays),
           NEW u \in Seq(Displays), NEW s \in Seq(Keys), Order(h, k, c, u, s),
           k # <<>>, NEW d \in Displays, EchoOf(d) = KeyOf(k[1])
    PROVE  Order(h, Tail(k), Append(c, d), u, s)
  <1>1. Tail(k) \in Seq(Heard) /\ k[1] \in Heard
    BY TailType
  <1>2. PICK x \in Seq(Keys), y \in Seq(Keys), p \in Seq(Keys), q \in Seq(Keys) :
            x = KeyOf(k[1]) /\ y = KeysIn(Tail(k)) /\ p = EchoesIn(u) /\ q = EchoesIn(c)
    BY <1>1, KeyOfType, KeysType, EchoesType
  <1>3. KeysIn(k) = x \o y /\ EchoesIn(Append(c, d)) = q \o x
    BY <1>2, KeysTail, EchoesAppend
  <1>4. PICK a \in Seq(Keys) : a = s \o p
    BY ConcatProperties
  <1>5. Shifts(a, q, x, y)
    BY <1>2, <1>4, KeysRegroup
  <1> QED
    BY <1>2, <1>3, <1>4, <1>5 DEF Order, Shifts

LEMMA OrderDisplays ==
    ASSUME NEW h \in Seq(Heard), NEW k \in Seq(Heard), NEW c \in Seq(Displays),
           NEW u \in Seq(Displays), NEW s \in Seq(Keys), Order(h, k, c, u, s),
           NEW d \in Displays, EchoOf(d) = <<>>
    PROVE  Order(h, k, Append(c, d), u, s)
  <1>1. PICK q \in Seq(Keys) : q = EchoesIn(c)
    BY EchoesType
  <1>2. EchoesIn(Append(c, d)) = q \o <<>>
    BY <1>1, EchoesAppend
  <1>3. q \o <<>> = q
    BY ConcatEmptySeq
  <1> QED
    BY <1>1, <1>2, <1>3 DEF Order

LEMMA OrderCopies ==
    ASSUME NEW h \in Seq(Heard), NEW k \in Seq(Heard), NEW c \in Seq(Displays),
           NEW u \in Seq(Displays), NEW s \in Seq(Keys), Order(h, k, c, u, s),
           c # <<>>, NEW d \in Displays, EchoOf(d) = EchoOf(c[1])
    PROVE  Order(h, k, Tail(c), Append(u, d), s)
  <1>1. Tail(c) \in Seq(Displays) /\ c[1] \in Displays
    BY TailType
  <1>2. PICK x \in Seq(Keys), y \in Seq(Keys), p \in Seq(Keys) :
            x = EchoOf(c[1]) /\ y = EchoesIn(Tail(c)) /\ p = EchoesIn(u)
    BY <1>1, EchoOfType, EchoesType
  <1>3. EchoesIn(c) = x \o y /\ EchoesIn(Append(u, d)) = p \o x
    BY <1>2, EchoesTail, EchoesAppend
  <1>4. Shifts(s, p, x, y)
    BY <1>2, KeysRegroup
  <1> QED
    BY <1>2, <1>3, <1>4 DEF Order, Shifts

LEMMA OrderTransmits ==
    ASSUME NEW h \in Seq(Heard), NEW k \in Seq(Heard), NEW c \in Seq(Displays),
           NEW u \in Seq(Displays), NEW s \in Seq(Keys), Order(h, k, c, u, s), u # <<>>
    PROVE  Order(h, k, c, Tail(u), s \o EchoOf(u[1]))
  <1>1. Tail(u) \in Seq(Displays) /\ u[1] \in Displays
    BY TailType
  <1>2. PICK x \in Seq(Keys), y \in Seq(Keys) : x = EchoOf(u[1]) /\ y = EchoesIn(Tail(u))
    BY <1>1, EchoOfType, EchoesType
  <1>3. EchoesIn(u) = x \o y
    BY <1>2, EchoesTail
  <1>4. Regroups(s, x, y)
    BY <1>2, KeysRegroup
  <1> QED
    BY <1>2, <1>3, <1>4 DEF Order, Regroups

LEMMA InitOrder ==
    ASSUME ConsoleInit
    PROVE  EchoesInOrder
  <1>1. heard \in Seq(Heard) /\ shown = <<>>
    BY InitTypes DEF ConsoleTypeOK, ConsoleInit
  <1>2. line["KCD"] = heard /\ line["CON"] = <<>> /\ line["UART"] = <<>>
    BY NamesApart DEF ConsoleInit
  <1>3. EchoesIn(<<>>) = <<>>
    <2>1. <<>> \in Seq(Displays)
      OBVIOUS
    <2> QED
      BY <2>1, EchoesAre, SpelledEmpty
  <1>4. PICK y \in Seq(Keys) : y = KeysIn(heard)
    BY <1>1, KeysType
  <1>5. <<>> \o y = y /\ <<>> \o <<>> = <<>>
    BY ConcatEmptySeq
  <1> QED
    BY <1>1, <1>2, <1>3, <1>4, <1>5 DEF EchoesInOrder, Typed

LEMMA StepOrder == ConsoleTypeOK /\ EchoesInOrder /\ [ConsoleNext]_consoleVars => EchoesInOrder'
  <1> SUFFICES ASSUME ConsoleTypeOK, EchoesInOrder, [ConsoleNext]_consoleVars
               PROVE  EchoesInOrder'
    OBVIOUS
  <1>1. PICK h \in Seq(Heard), k \in Seq(Heard), c \in Seq(Displays), u \in Seq(Displays),
             s \in Seq(Keys) :
            h = heard /\ k = line["KCD"] /\ c = line["CON"] /\ u = line["UART"] /\ s = shown
    BY DEF ConsoleTypeOK
  <1>2. Order(h, k, c, u, s)
    BY <1>1, OrderIs
  <1>3. \A d, e, f : Mailed(d, e, f) =>
            line'["KCD"] = d /\ line'["CON"] = e /\ line'["UART"] = f
    BY DEF Mailed
  <1>4. CASE KcdRegister
    <2>1. Mailed(Tail(k), c, u) /\ UNCHANGED <<heard, shown>> /\ k # <<>> /\ ~IsKey(k[1])
      BY <1>1, <1>4, RegisterTakes DEF KcdRegister, uartVars
    <2>2. Order(h, Tail(k), c, u, s)
      BY <1>2, <2>1, OrderReads
    <2> QED
      BY <1>1, <1>3, <2>1, <2>2, OrderIs
  <1>5. CASE KcdKey
    <2>1. UNCHANGED <<heard, shown>> /\ k # <<>> /\ IsKey(k[1])
      BY <1>1, <1>5 DEF KcdKey, uartVars
    <2>2. PICK d \in Displays : d = Msg("DISPLAY", "KCD", k[1].data) /\ EchoOf(d) = KeyOf(k[1])
      BY <2>1, TailType, EchoIs
    <2>3. Mailed(Tail(k), Append(c, d), u)
      BY <1>1, <1>5, <2>2, KeyTakes
    <2>4. Order(h, Tail(k), Append(c, d), u, s)
      BY <1>2, <2>1, <2>2, OrderEchoes
    <2> QED
      BY <1>1, <1>3, <2>1, <2>3, <2>4, OrderIs
  <1>6. CASE KcdEnter
    <2>1. UNCHANGED <<line, heard, shown>>
      BY <1>6 DEF KcdEnter, uartVars
    <2> QED
      BY <1>1, <1>2, <2>1, OrderIs
  <1>7. CASE KcdSend
    <2>1. UNCHANGED <<heard, shown>>
      BY <1>7 DEF KcdSend, uartVars
    <2>2. \/ Mailed(k, c, u)
          \/ todo[1].msg \in TextMsgs /\ Mailed(k, Append(c, todo[1].msg), u)
      BY <1>1, <1>7, SendMails
    <2>3. CASE Mailed(k, c, u)
      BY <1>1, <1>2, <1>3, <2>1, <2>3, OrderIs
    <2>4. CASE todo[1].msg \in TextMsgs /\ Mailed(k, Append(c, todo[1].msg), u)
      <3>1. PICK d \in Displays : d = todo[1].msg /\ EchoOf(d) = <<>>
        BY <2>4, TextIs
      <3>2. Order(h, k, Append(c, d), u, s)
        BY <1>2, <3>1, OrderDisplays
      <3> QED
        BY <1>1, <1>3, <2>1, <2>4, <3>1, <3>2, OrderIs
    <2> QED
      BY <2>2, <2>3, <2>4
  <1>8. CASE ConReceive
    <2>1. UNCHANGED <<heard, shown>> /\ c # <<>>
      BY <1>1, <1>8 DEF ConReceive
    <2>2. PICK d \in Displays : d = [c[1] EXCEPT !.from = "CON"] /\ EchoOf(d) = EchoOf(c[1])
      BY <2>1, TailType, CopyIs
    <2>3. Mailed(k, Tail(c), Append(u, d))
      BY <1>1, <1>8, <2>2, ConTakes
    <2>4. Order(h, k, Tail(c), Append(u, d), s)
      BY <1>2, <2>1, <2>2, OrderCopies
    <2> QED
      BY <1>1, <1>3, <2>1, <2>3, <2>4, OrderIs
  <1>9. CASE ConEnable
    <2>1. UNCHANGED <<line, heard, shown>>
      BY <1>9 DEF ConEnable
    <2> QED
      BY <1>1, <1>2, <2>1, OrderIs
  <1>10. CASE Transmit
    <2>1. heard' = heard
      BY <1>10 DEF Transmit
    <2>2. CASE u = <<>>
      <3>1. shown' = shown /\ Mailed(k, c, u)
        BY <1>1, <1>10, <2>2, TransmitTakes DEF Transmit
      <3> QED
        BY <1>1, <1>2, <1>3, <2>1, <3>1, OrderIs
    <2>3. CASE u # <<>>
      <3>1. Mailed(k, c, Tail(u))
        BY <1>1, <1>10, <2>3, TransmitTakes
      <3>2. PICK m \in Displays : m = u[1]
        BY <2>3, TailType
      <3>3. shown' = IF IsEcho(m) THEN Append(s, m.data[1]) ELSE s
        BY <1>1, <1>10, <2>3, <3>2 DEF Transmit
      <3>4. shown' = s \o EchoOf(m)
        <4>1. CASE IsEcho(m)
          <5>1. PICK x \in Keys : x = m.data[1]
            BY <4>1 DEF IsEcho
          <5>2. EchoOf(m) = <<x>>
            BY <4>1, <5>1, DisplayIs DEF EchoOf
          <5> QED
            BY <3>3, <4>1, <5>1, <5>2, AppendIsConcat
        <4>2. CASE ~IsEcho(m)
          BY <3>3, <4>2, ConcatEmptySeq DEF EchoOf
        <4> QED
          BY <4>1, <4>2
      <3>5. Order(h, k, c, Tail(u), s \o EchoOf(m))
        BY <1>2, <2>3, <3>2, OrderTransmits
      <3> QED
        BY <1>1, <1>3, <2>1, <3>1, <3>4, <3>5, OrderIs
    <2> QED
      BY <2>2, <2>3
  <1>11. ASSUME NEW x \in Keys, KeyIn(x)
         PROVE  EchoesInOrder'
    <2>1. PICK m \in Heard : m = Msg("KEY_IN", "UART", <<x>>)
      BY KeyMsgIs
    <2>2. Mailed(Append(k, m), c, u) /\ heard' = Append(h, m) /\ shown' = s
      BY <1>1, <1>11, <2>1, KeyArrives DEF KeyIn, uartVars
    <2>3. Order(Append(h, m), Append(k, m), c, u, s)
      BY <1>2, OrderHears
    <2> QED
      BY <1>1, <1>3, <2>2, <2>3, OrderIs
  <1>12. ASSUME NEW t \in Handlers, Handle(t) \/ HandlerExit(t)
         PROVE  EchoesInOrder'
    <2>1. CASE Register(t)
      <3>1. PICK m \in Heard : m = Registration(t)
        BY HandlerSays
      <3>2. Mailed(Append(k, m), c, u) /\ heard' = Append(h, m) /\ shown' = s
        BY <1>1, <2>1, <3>1, HandlerMails DEF Register, uartVars
      <3>3. Order(Append(h, m), Append(k, m), c, u, s)
        BY <1>2, OrderHears
      <3> QED
        BY <1>1, <1>3, <3>2, <3>3, OrderIs
    <2>2. CASE HandlerReceive(t)
      <3>1. Mailed(k, c, u) /\ UNCHANGED <<heard, shown>>
        BY <1>1, <2>2, HandlerMails DEF HandlerReceive, uartVars
      <3> QED
        BY <1>1, <1>2, <1>3, <3>1, OrderIs
    <2>3. CASE HandlerAnswer(t)
      <3>1. PICK d \in Displays : d = Msg("DISPLAY", t, <<t>>) /\ EchoOf(d) = <<>>
        BY HandlerSays
      <3>2. Mailed(k, Append(c, d), u) /\ UNCHANGED <<heard, shown>>
        BY <1>1, <2>3, <3>1, HandlerMails DEF HandlerAnswer, uartVars
      <3>3. Order(h, k, Append(c, d), u, s)
        BY <1>2, <3>1, OrderDisplays
      <3> QED
        BY <1>1, <1>3, <3>2, <3>3, OrderIs
    <2>4. CASE HandlerExit(t)
      <3>1. UNCHANGED <<line, heard, shown>>
        BY <2>4 DEF HandlerExit, uartVars
      <3> QED
        BY <1>1, <1>2, <3>1, OrderIs
    <2> QED
      BY <1>12, <2>1, <2>2, <2>3, <2>4 DEF Handle
  <1>13. CASE UNCHANGED consoleVars
    <2>1. UNCHANGED <<line, heard, shown>>
      BY <1>13 DEF consoleVars, uartVars
    <2> QED
      BY <1>1, <1>2, <2>1, OrderIs
  <1> QED
    BY <1>4, <1>5, <1>6, <1>7, <1>8, <1>9, <1>10, <1>11, <1>12, <1>13 DEF ConsoleNext, Kcd, Con

\* Every key that the KCD is sent is echoed once and in its place, for any number of
\* keys, any sizes of the mailboxes, and whatever else the tasks display meanwhile:
\* no message overtakes another on the way from the KCD over the display task to
\* the transmitter.
THEOREM KeysEchoedInOrder == ConsoleSpec => []EchoesInOrder
  <1>1. ConsoleInit => EchoesInOrder
    BY InitOrder
  <1> QED
    BY <1>1, StepOrder, ConsoleTypes, PTL DEF ConsoleSpec

----------------------------------------------------------------------------
(***************************************************************************)
(* The registered commands.                                                *)
(***************************************************************************)
\* The handler of c in a list, and the list as a summary of the messages in p.
TidOf(list, c)     == IF EntriesOf(list, c) = {} THEN NoKey
                      ELSE list[Min(EntriesOf(list, c))].tid
Directory(p, list) == \A c \in Keys : TidOf(list, c) = Latest(p, Len(p), c)

LEMMA MinUnique ==
    ASSUME NEW S \in SUBSET Nat, NEW m \in S, \A j \in S : m <= j
    PROVE  Min(S) = m
  <1>1. Min(S) \in S /\ \A j \in S : Min(S) <= j
    BY MinIs
  <1>2. Min(S) <= m /\ m <= Min(S) /\ Min(S) \in Nat /\ m \in Nat
    BY <1>1
  <1> QED
    BY <1>2

LEMMA RegisteredNew ==
    ASSUME NEW list \in Seq(Entry), NEW c \in Keys, NEW t \in Handlers, EntriesOf(list, c) = {},
           NEW d \in Keys
    PROVE  TidOf(Registered(list, c, t), d) = IF d = c THEN t ELSE TidOf(list, d)
  <1>0. PICK e : e = [command |-> c, tid |-> t]
    OBVIOUS
  <1>1. e \in Entry /\ e.command = c /\ e.tid = t
    BY <1>0 DEF Entry
  <1>2. PICK g : g = Append(list, e)
    OBVIOUS
  <1>3. Registered(list, c, t) = g
    BY <1>0, <1>2 DEF Registered, EntriesOf
  <1>4. PICK n \in Nat : n = Len(list)
    BY LenProperties
  <1>5. g \in Seq(Entry) /\ Len(g) = n + 1 /\ g[n + 1] = e /\ \A i \in 1 .. n : g[i] = list[i]
    BY <1>1, <1>2, <1>4, AppendProperties
  <1>6. DOMAIN list = 1 .. n /\ DOMAIN g = 1 .. n + 1
    BY <1>4, <1>5, LenProperties
  <1>7. EntriesOf(g, d) = EntriesOf(list, d) \cup (IF d = c THEN {n + 1} ELSE {})
    <2>1. \A i \in 1 .. n : g[i].command = list[i].command
      BY <1>5
    <2>2. g[n + 1].command = c
      BY <1>1, <1>5
    <2>3. 1 .. n + 1 = (1 .. n) \cup {n + 1}
      BY <1>4
    <2> QED
      BY <1>6, <2>1, <2>2, <2>3 DEF EntriesOf
  <1>8. CASE d = c
    <2>1. EntriesOf(g, d) = {n + 1}
      BY <1>7, <1>8
    <2>2. Min({n + 1}) = n + 1
      BY MinUnique
    <2> QED
      BY <1>1, <1>3, <1>5, <1>8, <2>1, <2>2 DEF TidOf
  <1>9. CASE d # c
    <2>1. EntriesOf(g, d) = EntriesOf(list, d)
      BY <1>7, <1>9
    <2>2. CASE EntriesOf(list, d) # {}
      <3>1. Min(EntriesOf(list, d)) \in 1 .. n
        BY <1>4, <2>2, FoundIs
      <3>2. g[Min(EntriesOf(list, d))] = list[Min(EntriesOf(list, d))]
        BY <1>5, <3>1
      <3> QED
        BY <1>3, <1>9, <2>1, <3>2 DEF TidOf
    <2>3. CASE EntriesOf(list, d) = {}
      BY <1>3, <1>9, <2>1, <2>3 DEF TidOf
    <2> QED
      BY <2>2, <2>3
  <1> QED
    BY <1>8, <1>9

LEMMA RegisteredAgain ==
    ASSUME NEW list \in Seq(Entry), NEW c \in Keys, NEW t \in Handlers, EntriesOf(list, c) # {},
           NEW d \in Keys
    PROVE  TidOf(Registered(list, c, t), d) = IF d = c THEN t ELSE TidOf(list, d)
  <1>1. PICK k \in 1 .. Len(list) : k = Min(EntriesOf(list, c)) /\ list[k] \in Entry
                                    /\ list[k].command = c
    BY FoundIs
  <1>2. PICK e : e = [list[k] EXCEPT !.tid = t]
    OBVIOUS
  <1>3. e \in Entry /\ e.command = c /\ e.tid = t
    BY <1>1, <1>2 DEF Entry
  <1>4. PICK g : g = [list EXCEPT ![k] = e]
    OBVIOUS
  <1>5. Registered(list, c, t) = g
    <2>1. {i \in DOMAIN list : list[i].command = c} = EntriesOf(list, c)
      BY DEF EntriesOf
    <2>2. Registered(list, c, t) = [list EXCEPT ![k] = [list[k] EXCEPT !.tid = t]]
      BY <1>1, <2>1 DEF Registered
    <2> QED
      BY <1>2, <1>4, <2>2
  <1>6. g \in Seq(Entry) /\ Len(g) = Len(list)
        /\ \A i \in 1 .. Len(list) : g[i] = IF i = k THEN e ELSE list[i]
    BY <1>1, <1>3, <1>4, ExceptSeq
  <1>7. DOMAIN list = 1 .. Len(list) /\ DOMAIN g = 1 .. Len(list)
    BY <1>6, LenProperties
  <1>8. EntriesOf(g, d) = EntriesOf(list, d)
    <2>1. \A i \in 1 .. Len(list) : g[i].command = list[i].command
      BY <1>1, <1>3, <1>6
    <2> QED
      BY <1>7, <2>1 DEF EntriesOf
  <1>9. CASE d = c
    <2>1. g[k].tid = t
      BY <1>1, <1>3, <1>6
    <2> QED
      BY <1>1, <1>5, <1>8, <1>9, <2>1 DEF TidOf
  <1>10. CASE d # c /\ EntriesOf(list, d) # {}
    <2>1. PICK j \in 1 .. Len(list) : j = Min(EntriesOf(list, d)) /\ list[j].command = d
      BY <1>10, FoundIs
    <2>2. j # k
      BY <1>1, <1>10, <2>1
    <2>3. g[j] = list[j]
      BY <1>6, <2>1, <2>2
    <2> QED
      BY <1>5, <1>8, <1>10, <2>1, <2>3 DEF TidOf
  <1>11. CASE d # c /\ EntriesOf(list, d) = {}
    BY <1>5, <1>8, <1>11 DEF TidOf
  <1> QED
    BY <1>9, <1>10, <1>11

\* The registrations of c among the first i messages.
RegsOf(p, i, c) == {j \in 1 .. i : p[j].type = "KCD_REG" /\ p[j].data[1] = c}

LEMMA LatestIs ==
    ASSUME NEW p, NEW i, NEW c
    PROVE  Latest(p, i, c) = IF RegsOf(p, i, c) = {} THEN NoKey
                             ELSE p[Max(RegsOf(p, i, c))].from
  BY DEF Latest, RegsOf

\* What a message adds does not change what came before it.
LEMMA LatestBefore ==
    ASSUME NEW p \in Seq(Heard), NEW m \in Heard, NEW i \in 0 .. Len(p), NEW c
    PROVE  Latest(Append(p, m), i, c) = Latest(p, i, c)
  <1>1. PICK g : g = Append(p, m)
    OBVIOUS
  <1>2. Len(p) \in Nat /\ \A j \in 1 .. Len(p) : g[j] = p[j]
    BY <1>1, LenProperties, AppendProperties
  <1>3. \A j \in 1 .. i : g[j] = p[j]
    BY <1>2
  <1>4. RegsOf(g, i, c) = RegsOf(p, i, c)
    BY <1>3 DEF RegsOf
  <1>5. CASE RegsOf(p, i, c) # {}
    <2>1. RegsOf(p, i, c) \in SUBSET (0 .. i) /\ i \in Nat
      BY <1>2 DEF RegsOf
    <2>2. Max(RegsOf(p, i, c)) \in RegsOf(p, i, c)
      BY <1>5, <2>1, MaxIs
    <2>3. g[Max(RegsOf(p, i, c))] = p[Max(RegsOf(p, i, c))]
      BY <1>3, <2>2 DEF RegsOf
    <2> QED
      BY <1>1, <1>4, <2>3, LatestIs
  <1>6. CASE RegsOf(p, i, c) = {}
    BY <1>1, <1>4, <1>6, LatestIs
  <1> QED
    BY <1>5, <1>6

LEMMA LatestAppend ==
    ASSUME NEW p \in Seq(Heard), NEW m \in Heard, NEW c
    PROVE  Latest(Append(p, m), Len(p) + 1, c)
               = IF m.type = "KCD_REG" /\ m.data[1] = c THEN m.from ELSE Latest(p, Len(p), c)
  <1>1. PICK g : g = Append(p, m)
    OBVIOUS
  <1>2. PICK n \in Nat : n = Len(p)
    BY LenProperties
  <1>3. g[n + 1] = m /\ \A j \in 1 .. n : g[j] = p[j]
    BY <1>1, <1>2, AppendProperties
  <1>4. CASE m.type = "KCD_REG" /\ m.data[1] = c
    <2>1. n + 1 \in RegsOf(g, n + 1, c)
      BY <1>3, <1>4 DEF RegsOf
    <2>2. RegsOf(g, n + 1, c) \in SUBSET (0 .. n + 1) /\ \A j \in RegsOf(g, n + 1, c) : j <= n + 1
      BY DEF RegsOf
    <2>3. Max(RegsOf(g, n + 1, c)) = n + 1
      <3>1. n + 1 \in Nat
        BY <1>2
      <3> QED
        BY <2>1, <2>2, <3>1, MaxUnique
    <2>4. Latest(g, n + 1, c) = m.from
      BY <1>3, <2>1, <2>3, LatestIs
    <2> QED
      BY <1>1, <1>2, <1>4, <2>4
  <1>5. CASE ~(m.type = "KCD_REG" /\ m.data[1] = c)
    <2>1. RegsOf(g, n + 1, c) = RegsOf(g, n, c)
      <3>1. 1 .. n + 1 = (1 .. n) \cup {n + 1}
        BY <1>2
      <3> QED
        BY <1>3, <1>5, <3>1 DEF RegsOf
    <2>2. Latest(g, n + 1, c) = Latest(g, n, c)
      BY <2>1, LatestIs
    <2>3. Latest(g, n, c) = Latest(p, n, c)
      BY <1>1, <1>2, LatestBefore
    <2> QED
      BY <1>1, <1>2, <1>5, <2>2, <2>3
  <1> QED
    BY <1>4, <1>5

LEMMA DirectoryRegisters ==
    ASSUME NEW p \in Seq(Heard), NEW m \in Heard, ~IsKey(m), NEW list \in Seq(Entry),
           Directory(p, list)
    PROVE  Directory(Append(p, m), Registered(list, m.data[1], m.from))
  <1>1. PICK c \in Keys, t \in Handlers : c = m.data[1] /\ t = m.from /\ m.type = "KCD_REG"
    BY HeardIs
  <1>2. Len(Append(p, m)) = Len(p) + 1
    BY AppendProperties
  <1> SUFFICES ASSUME NEW d \in Keys
               PROVE  TidOf(Registered(list, c, t), d) = Latest(Append(p, m), Len(p) + 1, d)
    BY <1>1, <1>2 DEF Directory
  <1>3. TidOf(Registered(list, c, t), d) = IF d = c THEN t ELSE TidOf(list, d)
    BY <1>1, RegisteredNew, RegisteredAgain
  <1>4. Latest(Append(p, m), Len(p) + 1, d) = IF d = c THEN t ELSE Latest(p, Len(p), d)
    BY <1>1, LatestAppend
  <1>5. TidOf(list, d) = Latest(p, Len(p), d)
    BY DEF Directory
  <1> QED
    BY <1>3, <1>4, <1>5

LEMMA DirectoryKeeps ==
    ASSUME NEW p \in Seq(Heard), NEW m \in Heard, IsKey(m), NEW list, Directory(p, list)
    PROVE  Directory(Append(p, m), list)
  <1>1. m.type # "KCD_REG"
    BY HeardIs
  <1>2. Len(Append(p, m)) = Len(p) + 1
    BY AppendProperties
  <1>3. ASSUME NEW d \in Keys
        PROVE  TidOf(list, d) = Latest(Append(p, m), Len(p) + 1, d)
    BY <1>1, LatestAppend DEF Directory
  <1> QED
    BY <1>2, <1>3 DEF Directory

----------------------------------------------------------------------------
(***************************************************************************)
(* The lines, and where they end.                                          *)
(***************************************************************************)
EntersBefore(p, i) == {j \in 1 .. i - 1 : IsEnter(p[j])}

LEMMA LastEnterIs ==
    ASSUME NEW p, NEW i \in Nat \ {0}
    PROVE  /\ LastEnter(p, i) \in 0 .. i - 1
           /\ LastEnter(p, i) = Max({0} \cup EntersBefore(p, i))
  <1>1. LastEnter(p, i) = Max({0} \cup EntersBefore(p, i))
    BY DEF LastEnter, EntersBefore
  <1>2. i - 1 \in Nat /\ {0} \cup EntersBefore(p, i) \in SUBSET (0 .. i - 1)
    BY DEF EntersBefore
  <1>3. Max({0} \cup EntersBefore(p, i)) \in {0} \cup EntersBefore(p, i)
    BY <1>2, MaxIs
  <1> QED
    BY <1>1, <1>2, <1>3

LEMMA PieceIs ==
    ASSUME NEW p \in Seq(Heard), NEW a \in Nat, NEW b \in Nat, a <= b, b <= Len(p)
    PROVE  /\ SubSeq(p, a + 1, b) \in Seq(Heard) /\ Len(SubSeq(p, a + 1, b)) = b - a
           /\ \A i \in 1 .. b - a : SubSeq(p, a + 1, b)[i] = p[a + i]
  <1>1. Len(p) \in Nat
    BY LenProperties
  <1>2. \A i \in a + 1 .. b : p[i] \in Heard
    <2> SUFFICES ASSUME NEW i \in a + 1 .. b PROVE p[i] \in Heard
      OBVIOUS
    <2>1. i \in 1 .. Len(p)
      BY <1>1
    <2> QED
      BY <2>1, ElementOfSeq
  <1>3. PICK s : s = SubSeq(p, a + 1, b)
    OBVIOUS
  <1>4. a + 1 \in Int /\ b \in Int
    OBVIOUS
  <1>5. s \in Seq(Heard) /\ Len(s) = (IF a + 1 <= b THEN b - (a + 1) + 1 ELSE 0)
        /\ \A i \in 1 .. b - (a + 1) + 1 : s[i] = p[(a + 1) + i - 1]
    BY <1>2, <1>3, <1>4, SubSeqProperties
  <1>6. Len(s) = b - a
    BY <1>5
  <1>7. ASSUME NEW i \in 1 .. b - a
        PROVE  s[i] = p[a + i]
    <2>1. i \in 1 .. b - (a + 1) + 1 /\ (a + 1) + i - 1 = a + i
      OBVIOUS
    <2> QED
      BY <1>5, <2>1
  <1> QED
    BY <1>3, <1>5, <1>6, <1>7

LEMMA LineType ==
    ASSUME NEW p \in Seq(Heard), NEW i \in 1 .. Len(p) + 1
    PROVE  Line(p, i) \in Seq(Keys)
  <1>1. Len(p) \in Nat
    BY LenProperties
  <1>2. PICK e \in 0 .. i - 1 : e = LastEnter(p, i)
    <2>1. i \in Nat \ {0}
      BY <1>1
    <2>2. LastEnter(p, i) \in 0 .. i - 1
      BY <2>1, LastEnterIs
    <2> QED
      BY <2>2
  <1>3. e \in Nat /\ i - 1 \in Nat /\ e <= i - 1 /\ i - 1 <= Len(p)
    BY <1>1, <1>2
  <1>4. SubSeq(p, e + 1, i - 1) \in Seq(Heard)
    BY <1>3, PieceIs
  <1> QED
    BY <1>2, <1>4, KeysType DEF Line

LEMMA LastEnterBefore ==
    ASSUME NEW p \in Seq(Heard), NEW m \in Heard, NEW i \in 1 .. Len(p) + 1
    PROVE  LastEnter(Append(p, m), i) = LastEnter(p, i)
  <1>1. PICK g : g = Append(p, m)
    OBVIOUS
  <1>2. Len(p) \in Nat /\ \A j \in 1 .. Len(p) : g[j] = p[j]
    BY <1>1, LenProperties, AppendProperties
  <1>3. \A j \in 1 .. i - 1 : g[j] = p[j]
    BY <1>2
  <1>4. EntersBefore(g, i) = EntersBefore(p, i)
    BY <1>3 DEF EntersBefore
  <1>5. i \in Nat \ {0}
    BY <1>2
  <1> QED
    BY <1>1, <1>4, <1>5, LastEnterIs

LEMMA LineBefore ==
    ASSUME NEW p \in Seq(Heard), NEW m \in Heard, NEW i \in 1 .. Len(p) + 1
    PROVE  Line(Append(p, m), i) = Line(p, i)
  <1>1. PICK g : g = Append(p, m)
    OBVIOUS
  <1>2. PICK n \in Nat : n = Len(p)
    BY LenProperties
  <1>3. g \in Seq(Heard) /\ Len(g) = n + 1 /\ \A j \in 1 .. n : g[j] = p[j]
    BY <1>1, <1>2, AppendProperties
  <1>4. PICK e \in 0 .. i - 1 : e = LastEnter(p, i)
    <2>1. i \in Nat \ {0}
      BY <1>2
    <2>2. LastEnter(p, i) \in 0 .. i - 1
      BY <2>1, LastEnterIs
    <2> QED
      BY <2>2
  <1>5. LastEnter(g, i) = e
    BY <1>1, <1>4, LastEnterBefore
  <1>6. PICK b \in Nat : b = i - 1 /\ e <= b /\ b <= n
    BY <1>2, <1>4
  <1>7. e \in Nat
    BY <1>4, <1>6
  <1>8. PICK s, t : s = SubSeq(p, e + 1, b) /\ t = SubSeq(g, e + 1, b)
    OBVIOUS
  <1>9. s \in Seq(Heard) /\ Len(s) = b - e /\ \A j \in 1 .. b - e : s[j] = p[e + j]
    BY <1>2, <1>6, <1>7, <1>8, PieceIs
  <1>10. t \in Seq(Heard) /\ Len(t) = b - e /\ \A j \in 1 .. b - e : t[j] = g[e + j]
    <2>1. b <= Len(g)
      BY <1>3, <1>6
    <2> QED
      BY <1>3, <1>6, <1>7, <1>8, <2>1, PieceIs
  <1>11. \A j \in 1 .. b - e : s[j] = t[j]
    <2> SUFFICES ASSUME NEW j \in 1 .. b - e PROVE s[j] = t[j]
      OBVIOUS
    <2>1. e + j \in 1 .. n
      BY <1>6, <1>7
    <2> QED
      BY <1>3, <1>9, <1>10, <2>1
  <1>12. s = t
    BY <1>9, <1>10, <1>11, SeqEqual
  <1> QED
    BY <1>1, <1>4, <1>5, <1>6, <1>8, <1>12 DEF Line

\* After an enter key the line is empty.
LEMMA LineAfterEnter ==
    ASSUME NEW p \in Seq(Heard), NEW n \in Nat, n + 1 = Len(p), IsEnter(p[n + 1])
    PROVE  Line(p, Len(p) + 1) = <<>>
  <1>1. n + 1 \in Nat /\ n + 2 \in Nat \ {0}
    OBVIOUS
  <1>2. {0} \cup EntersBefore(p, n + 2) \in SUBSET (0 .. n + 1)
        /\ n + 1 \in {0} \cup EntersBefore(p, n + 2)
    BY DEF EntersBefore
  <1>3. \A j \in {0} \cup EntersBefore(p, n + 2) : j <= n + 1
    BY <1>2
  <1>4. Max({0} \cup EntersBefore(p, n + 2)) = n + 1
    BY <1>1, <1>2, <1>3, MaxUnique
  <1>5. LastEnter(p, n + 2) = n + 1
    BY <1>1, <1>4, LastEnterIs
  <1>6. SubSeq(p, n + 2, n + 1) = <<>>
    <2>1. n + 2 \in Int /\ n + 1 \in Int /\ n + 1 < n + 2
      OBVIOUS
    <2> QED
      BY <2>1, SubSeqEmpty
  <1>7. (n + 1) + 1 = n + 2 /\ (n + 2) - 1 = n + 1
    OBVIOUS
  <1>8. Line(p, n + 2) = KeysIn(<<>>)
    BY <1>5, <1>6, <1>7 DEF Line
  <1>9. KeysIn(<<>>) = <<>>
    <2>1. <<>> \in Seq(Heard)
      OBVIOUS
    <2> QED
      BY <2>1, KeysAre, SpelledEmpty
  <1> QED
    BY <1>7, <1>8, <1>9

\* Any other message adds what it says.
LEMMA LineAppend ==
    ASSUME NEW p \in Seq(Heard), NEW m \in Heard, ~IsEnter(m)
    PROVE  Line(Append(p, m), Len(p) + 2) = Line(p, Len(p) + 1) \o KeyOf(m)
  <1>1. PICK g : g = Append(p, m)
    OBVIOUS
  <1>2. PICK n \in Nat : n = Len(p)
    BY LenProperties
  <1>3. g \in Seq(Heard) /\ Len(g) = n + 1 /\ g[n + 1] = m /\ \A j \in 1 .. n : g[j] = p[j]
    BY <1>1, <1>2, AppendProperties
  <1>4. n + 1 \in Nat \ {0} /\ n + 2 \in Nat \ {0} /\ n + 1 \in 1 .. Len(p) + 1
    BY <1>2
  <1>5. PICK e \in 0 .. n : e = LastEnter(p, n + 1)
    <2>1. PICK j \in Nat \ {0} : j = n + 1
      BY <1>4
    <2>2. LastEnter(p, j) \in 0 .. j - 1
      BY <2>1, LastEnterIs
    <2>3. j - 1 = n
      BY <2>1
    <2> QED
      BY <2>1, <2>2, <2>3
  <1>6. LastEnter(g, n + 2) = e
    <2>1. EntersBefore(g, n + 2) = EntersBefore(g, n + 1)
      <3>1. 1 .. (n + 2) - 1 = (1 .. (n + 1) - 1) \cup {n + 1}
        BY <1>2
      <3> QED
        BY <1>3, <3>1 DEF EntersBefore
    <2>2. LastEnter(g, n + 2) = LastEnter(g, n + 1)
      BY <1>4, <2>1, LastEnterIs
    <2>3. LastEnter(g, n + 1) = LastEnter(p, n + 1)
      BY <1>1, <1>4, LastEnterBefore
    <2> QED
      BY <1>5, <2>2, <2>3
  <1>7. PICK s, t : s = SubSeq(p, e + 1, n) /\ t = SubSeq(g, e + 1, n + 1)
    OBVIOUS
  <1>8. e \in Nat /\ e <= n /\ n <= Len(p)
    BY <1>2, <1>5
  <1>9. s \in Seq(Heard) /\ Len(s) = n - e /\ \A j \in 1 .. n - e : s[j] = p[e + j]
    BY <1>7, <1>8, PieceIs
  <1>10. t \in Seq(Heard) /\ Len(t) = (n + 1) - e /\ \A j \in 1 .. (n + 1) - e : t[j] = g[e + j]
    <2>1. n + 1 \in Nat /\ e <= n + 1 /\ n + 1 <= Len(g)
      BY <1>3, <1>8
    <2> QED
      BY <1>3, <1>7, <1>8, <2>1, PieceIs
  <1>11. PICK d \in Nat : d = n - e
    BY <1>8
  <1>12. \A j \in 1 .. d : t[j] = s[j]
    <2> SUFFICES ASSUME NEW j \in 1 .. d PROVE t[j] = s[j]
      OBVIOUS
    <2>1. e + j \in 1 .. n /\ j \in 1 .. (n + 1) - e /\ j \in 1 .. n - e
      BY <1>8, <1>11
    <2> QED
      BY <1>3, <1>9, <1>10, <2>1
  <1>13. Len(s) = d /\ Len(t) = d + 1 /\ t[d + 1] = m
    <2>1. d + 1 \in 1 .. (n + 1) - e /\ e + (d + 1) = n + 1 /\ (n + 1) - e = d + 1
      BY <1>8, <1>11
    <2> QED
      BY <1>3, <1>9, <1>10, <1>11, <2>1
  <1>14. t = Append(s, m)
    BY <1>9, <1>10, <1>12, <1>13, AppendIs
  <1>15. KeysIn(t) = KeysIn(s) \o KeyOf(m)
    BY <1>9, <1>14, KeysAppend
  <1>16. Line(p, n + 1) = KeysIn(s) /\ Line(g, n + 2) = KeysIn(t)
    <2>1. (n + 1) - 1 = n /\ (n + 2) - 1 = n + 1
      OBVIOUS
    <2> QED
      BY <1>5, <1>6, <1>7, <2>1 DEF Line
  <1> QED
    BY <1>1, <1>2, <1>15, <1>16

LEMMA EnterParts ==
    ASSUME NEW p \in Seq(Heard), NEW S, 1 .. Len(p) \subseteq S
    PROVE  [i \in DOMAIN p |-> IF IsEnter(p[i]) THEN <<i>> ELSE <<>>] \in Seq(Seq(S))
  <1>1. PICK Q : Q = Seq(S)
    OBVIOUS
  <1>2. PICK n \in Nat : n = Len(p) /\ DOMAIN p = 1 .. n
    BY LenProperties
  <1>3. \A i \in 1 .. n : (IF IsEnter(p[i]) THEN <<i>> ELSE <<>>) \in Q
    <2> SUFFICES ASSUME NEW i \in 1 .. n
                 PROVE  (IF IsEnter(p[i]) THEN <<i>> ELSE <<>>) \in Q
      OBVIOUS
    <2>1. i \in S
      BY <1>2
    <2>2. <<i>> \in Seq(S) /\ <<>> \in Seq(S)
      BY <2>1
    <2> QED
      BY <1>1, <2>2
  <1>4. [i \in 1 .. n |-> IF IsEnter(p[i]) THEN <<i>> ELSE <<>>] \in [1 .. n -> Q]
    BY <1>3
  <1>5. [i \in 1 .. n |-> IF IsEnter(p[i]) THEN <<i>> ELSE <<>>] \in Seq(Q)
    BY <1>4
  <1> QED
    BY <1>1, <1>2, <1>5

LEMMA EntersType ==
    ASSUME NEW p \in Seq(Heard)
    PROVE  Enters(p) \in Seq(1 .. Len(p))
  <1>1. PICK f : f = [i \in DOMAIN p |-> IF IsEnter(p[i]) THEN <<i>> ELSE <<>>]
    OBVIOUS
  <1>2. PICK S : S = 1 .. Len(p)
    OBVIOUS
  <1>3. f \in Seq(Seq(S))
    BY <1>1, <1>2, EnterParts
  <1>4. FlattenSeq(f) \in Seq(S)
    BY <1>3, FlatType
  <1> QED
    BY <1>1, <1>2, <1>4 DEF Enters

LEMMA EntersAppend ==
    ASSUME NEW p \in Seq(Heard), NEW m \in Heard
    PROVE  Enters(Append(p, m)) = IF IsEnter(m) THEN Append(Enters(p), Len(p) + 1) ELSE Enters(p)
  <1>1. PICK g : g = Append(p, m)
    OBVIOUS
  <1>2. PICK n \in Nat : n = Len(p)
    BY LenProperties
  <1>3. g \in Seq(Heard) /\ Len(g) = n + 1 /\ g[n + 1] = m /\ \A j \in 1 .. n : g[j] = p[j]
    BY <1>1, <1>2, AppendProperties
  <1>4. PICK S : S = 1 .. n + 1
    OBVIOUS
  <1>5. 1 .. Len(p) \subseteq S /\ 1 .. Len(g) \subseteq S
    BY <1>2, <1>3, <1>4
  <1>6. PICK f : f = [i \in DOMAIN p |-> IF IsEnter(p[i]) THEN <<i>> ELSE <<>>]
    OBVIOUS
  <1>7. PICK k : k = [i \in DOMAIN g |-> IF IsEnter(g[i]) THEN <<i>> ELSE <<>>]
    OBVIOUS
  <1>8. PICK x : x = IF IsEnter(m) THEN <<n + 1>> ELSE <<>>
    OBVIOUS
  <1>9. PICK Q : Q = Seq(S)
    OBVIOUS
  <1>10. f \in Seq(Q) /\ k \in Seq(Q)
    BY <1>3, <1>5, <1>6, <1>7, <1>9, EnterParts
  <1>11. x \in Q
    <2>1. n + 1 \in S
      BY <1>2, <1>4
    <2>2. <<n + 1>> \in Seq(S) /\ <<>> \in Seq(S)
      BY <2>1
    <2> QED
      BY <1>8, <1>9, <2>2
  <1>12. DOMAIN p = 1 .. n /\ DOMAIN g = 1 .. n + 1
    BY <1>2, <1>3, LenProperties
  <1>13. DOMAIN f = 1 .. n /\ DOMAIN k = 1 .. n + 1
    BY <1>6, <1>7, <1>12
  <1>14. Len(f) = n /\ Len(k) = n + 1
    BY <1>2, <1>10, <1>13, LenProperties
  <1>15. \A i \in 1 .. n : k[i] = f[i]
    BY <1>2, <1>3, <1>6, <1>7, <1>12
  <1>16. k[n + 1] = x
    BY <1>2, <1>3, <1>7, <1>8, <1>12
  <1>17. k = Append(f, x)
    BY <1>2, <1>10, <1>11, <1>14, <1>15, <1>16, AppendIs
  <1>18. FlattenSeq(k) = FlattenSeq(f) \o x
    BY <1>9, <1>10, <1>11, <1>17, FlatAppend
  <1>19. Enters(p) = FlattenSeq(f) /\ Enters(g) = FlattenSeq(k)
    BY <1>6, <1>7 DEF Enters
  <1>20. PICK s \in Seq(S) : s = FlattenSeq(f)
    BY <1>9, <1>10, FlatType
  <1>21. CASE IsEnter(m)
    <2>1. n + 1 \in S
      BY <1>2, <1>4
    <2>2. Append(s, n + 1) = s \o <<n + 1>>
      BY <1>20, <2>1, AppendIsConcat
    <2> QED
      BY <1>1, <1>2, <1>8, <1>18, <1>19, <1>20, <1>21, <2>2
  <1>22. CASE ~IsEnter(m)
    <2>1. s \o <<>> = s
      BY <1>20, ConcatEmptySeq
    <2> QED
      BY <1>1, <1>8, <1>18, <1>19, <1>20, <1>22, <2>1
  <1> QED
    BY <1>21, <1>22

----------------------------------------------------------------------------
(***************************************************************************)
(* The answers.                                                            *)
(***************************************************************************)
\* What is expected of line l when h had registered its first letter.
Wanted(l, h) ==
    IF Len(l) - 1 = -1 THEN {<<"nothing">>}
    ELSE IF l[1] # "%" \/ Len(l) - 1 > KCD_CMD_BUF_SIZE THEN {<<"Invalid command">>}
    ELSE IF Len(l) - 1 = 0 THEN {<<"nothing">>}
    ELSE IF Len(l) - 1 >= 2 /\ l[2] = "L" /\ l[3] \in {"T", "M"}
    THEN {<<IF l[3] = "T" THEN "LT" ELSE "LM">>}
    ELSE {IF h # NoKey THEN <<"KCD_CMD", h>> ELSE <<"Command not found">>}
         \cup (IF l = <<"%", "L">> THEN {<<"LT">>, <<"LM">>} ELSE {})

LEMMA ExpectedIs ==
    ASSUME NEW p, NEW i
    PROVE  Expected(p, i) = Wanted(Line(p, i), Latest(p, i, Line(p, i)[2]))
  BY DEF Expected, Wanted

LEMMA ExpectedBefore ==
    ASSUME NEW p \in Seq(Heard), NEW m \in Heard, NEW i \in 1 .. Len(p)
    PROVE  Expected(Append(p, m), i) = Expected(p, i)
  <1>1. PICK g : g = Append(p, m)
    OBVIOUS
  <1>2. i \in 1 .. Len(p) + 1 /\ i \in 0 .. Len(p)
    BY LenProperties
  <1>3. PICK l : l = Line(p, i) /\ l = Line(g, i)
    BY <1>1, <1>2, LineBefore
  <1>4. Latest(g, i, l[2]) = Latest(p, i, l[2])
    BY <1>1, <1>2, LatestBefore
  <1>5. Expected(g, i) = Wanted(l, Latest(g, i, l[2]))
        /\ Expected(p, i) = Wanted(l, Latest(p, i, l[2]))
    BY <1>3, ExpectedIs
  <1> QED
    BY <1>1, <1>4, <1>5

\* What the lookup answers.
LEMMA LookupIs ==
    ASSUME ConsoleTypeOK, NEW buf, buf[1] \in Keys, NEW len, NEW h, h = TidOf(cmd_reg_list, buf[1])
    PROVE  Lookup(buf, len).answer = IF h = NoKey THEN <<"Command not found">>
                                     ELSE <<"KCD_CMD", h>>
  <1>1. PICK found : found = EntriesOf(cmd_reg_list, buf[1])
    OBVIOUS
  <1>2. Lookup(buf, len) =
            IF found = {} THEN Complain("Command not found", buf, 0)
            ELSE Outcome(<<Reply(cmd_reg_list[Min(found)].tid,
                                 Msg("KCD_CMD", "KCD", Data(buf, len)))>>,
                         <<"KCD_CMD", cmd_reg_list[Min(found)].tid>>, buf, 0, FALSE)
    BY <1>1 DEF Lookup, EntriesOf
  <1>3. Complain("Command not found", buf, 0).answer = <<"Command not found">>
    BY DEF Complain, Outcome
  <1>4. CASE found = {}
    <2>1. h = NoKey
      BY <1>1, <1>4 DEF TidOf
    <2> QED
      BY <1>2, <1>3, <1>4, <2>1
  <1>5. CASE found # {}
    <2>1. h = cmd_reg_list[Min(found)].tid
      BY <1>1, <1>5 DEF TidOf
    <2>2. h \in Handlers
      <3>1. cmd_reg_list \in Seq(Entry)
        BY DEF ConsoleTypeOK
      <3> QED
        BY <1>1, <1>5, <2>1, <3>1, FoundIs
    <2>3. h # NoKey
      BY <2>2, NamesApart DEF NoKey
    <2>4. PICK x : x = <<Reply(h, Msg("KCD_CMD", "KCD", Data(buf, len)))>>
      OBVIOUS
    <2>5. Lookup(buf, len) = Outcome(x, <<"KCD_CMD", h>>, buf, 0, FALSE)
      BY <1>2, <1>5, <2>1, <2>4
    <2>6. Outcome(x, <<"KCD_CMD", h>>, buf, 0, FALSE).answer = <<"KCD_CMD", h>>
      BY DEF Outcome
    <2> QED
      BY <2>3, <2>5, <2>6
  <1> QED
    BY <1>4, <1>5

LEMMA CommandIs ==
    ASSUME ConsoleTypeOK, NEW l \in Seq(Keys), NEW h, NEW n \in Nat \ {0}, Len(l) = n + 1,
           l[1] = "%", h = TidOf(cmd_reg_list, l[2])
    PROVE  Command(Tail(l)).answer \in Wanted(l, h)
  <1>1. PICK rest : rest = Tail(l)
    OBVIOUS
  <1>2. Len(<<>>) = 0
    OBVIOUS
  <1>3. l # <<>>
    BY <1>2
  <1>4. rest \in Seq(Keys) /\ Len(rest) = n /\ \A i \in 1 .. n : rest[i] = l[i + 1]
    BY <1>1, <1>3, HeadTailProperties
  <1> DEFINE k   == IF Len(rest) < KCD_CMD_BUF_SIZE THEN Len(rest) ELSE KCD_CMD_BUF_SIZE
             buf == [i \in DOMAIN input |-> IF i <= k THEN rest[i] ELSE input[i]]
             len == cmd_length + k
  <1>5. Command(rest) = IF Len(rest) > KCD_CMD_BUF_SIZE THEN Complain("Invalid command", buf, len)
                        ELSE IF buf[1] = "L" /\ buf[2] = "T" THEN ListTasks(buf, len)
                        ELSE IF buf[1] = "L" /\ buf[2] = "M" THEN ListBoxes(buf, len)
                        ELSE Lookup(buf, len)
    BY DEF Command
  <1>6. KCD_CMD_BUF_SIZE \in Nat \ {0, 1} /\ DOMAIN input = 1 .. KCD_CMD_BUF_SIZE
    BY ConsoleAssumption DEF ConsoleTypeOK
  <1>7. buf[1] = l[2] /\ (n >= 2 => buf[2] = l[3])
    <2>1. 1 \in DOMAIN input /\ 2 \in DOMAIN input /\ 1 <= k /\ (n >= 2 => 2 <= k)
      BY <1>4, <1>6
    <2>2. rest[1] = l[2] /\ (n >= 2 => rest[2] = l[3])
      <3>1. 1 \in 1 .. n /\ 1 + 1 = 2 /\ 2 + 1 = 3 /\ (n >= 2 => 2 \in 1 .. n)
        OBVIOUS
      <3> QED
        BY <1>4, <3>1
    <2> HIDE DEF k
    <2> QED
      BY <2>1, <2>2
  <1>8. l[2] \in Keys
    <2>1. 2 \in 1 .. Len(l)
      OBVIOUS
    <2> QED
      BY <2>1, ElementOfSeq
  <1> HIDE DEF k, buf, len
  <1>9. Len(l) - 1 = n /\ n # -1 /\ n # 0
    OBVIOUS
  <1>10. Complain("Invalid command", buf, len).answer = <<"Invalid command">>
         /\ ListTasks(buf, len).answer = <<"LT">> /\ ListBoxes(buf, len).answer = <<"LM">>
    BY DEF Complain, ListTasks, ListBoxes, Listing, Outcome
  <1>11. CASE n > KCD_CMD_BUF_SIZE
    <2>1. Wanted(l, h) = {<<"Invalid command">>}
      BY <1>9, <1>11 DEF Wanted
    <2> QED
      BY <1>1, <1>4, <1>5, <1>10, <1>11, <2>1
  <1>12. CASE ~(n > KCD_CMD_BUF_SIZE) /\ n >= 2 /\ l[2] = "L" /\ l[3] \in {"T", "M"}
    <2>1. Wanted(l, h) = {<<IF l[3] = "T" THEN "LT" ELSE "LM">>}
      BY <1>9, <1>12 DEF Wanted
    <2>2. buf[1] = "L" /\ buf[2] = l[3]
      BY <1>7, <1>12
    <2>3. Command(rest).answer = <<IF l[3] = "T" THEN "LT" ELSE "LM">>
      <3>1. CASE l[3] = "T"
        BY <1>4, <1>5, <1>10, <1>12, <2>2, <3>1
      <3>2. CASE l[3] = "M"
        BY <1>4, <1>5, <1>10, <1>12, <2>2, <3>2
      <3> QED
        BY <1>12, <3>1, <3>2
    <2> QED
      BY <1>1, <2>1, <2>3
  <1>13. CASE ~(n > KCD_CMD_BUF_SIZE) /\ ~(n >= 2 /\ l[2] = "L" /\ l[3] \in {"T", "M"})
    <2>1. Wanted(l, h) =
              {IF h # NoKey THEN <<"KCD_CMD", h>> ELSE <<"Command not found">>}
              \cup (IF l = <<"%", "L">> THEN {<<"LT">>, <<"LM">>} ELSE {})
      BY <1>9, <1>13 DEF Wanted
    <2>2. CASE buf[1] = "L" /\ buf[2] \in {"T", "M"}
      <3>1. n = 1
        BY <1>7, <1>13, <2>2
      <3>2. PICK a \in Keys, b \in Keys : a = l[1] /\ b = l[2] /\ a = "%" /\ b = "L"
        <4>1. l[1] \in Keys
          <5>1. 1 \in 1 .. Len(l)
            OBVIOUS
          <5> QED
            BY <5>1, ElementOfSeq
        <4> QED
          BY <1>7, <1>8, <2>2, <4>1
      <3>3. PICK r : r = <<a, b>>
        OBVIOUS
      <3>4. r \in Seq(Keys) /\ Len(r) = 2 /\ r[1] = a /\ r[2] = b
        BY <3>3
      <3>5. l = r
        <4>1. Len(l) = 2 /\ Len(r) = 2
          BY <3>1, <3>4
        <4>2. l[1] = r[1] /\ l[2] = r[2]
          BY <3>2, <3>4
        <4>3. \A i \in 1 .. 2 : i = 1 \/ i = 2
          OBVIOUS
        <4>4. \A i \in 1 .. Len(l) : l[i] = r[i]
          BY <4>1, <4>2, <4>3
        <4> QED
          BY <3>4, <4>1, <4>4, SeqEqual
      <3>6. <<"LT">> \in Wanted(l, h) /\ <<"LM">> \in Wanted(l, h)
        BY <2>1, <3>2, <3>3, <3>5
      <3>7. Command(rest).answer \in {<<"LT">>, <<"LM">>}
        BY <1>4, <1>5, <1>10, <1>13, <2>2
      <3> QED
        BY <1>1, <3>6, <3>7
    <2>3. CASE ~(buf[1] = "L" /\ buf[2] \in {"T", "M"})
      <3>1. Command(rest) = Lookup(buf, len)
        BY <1>4, <1>5, <1>13, <2>3
      <3>2. Lookup(buf, len).answer = IF h = NoKey THEN <<"Command not found">>
                                      ELSE <<"KCD_CMD", h>>
        BY <1>7, <1>8, LookupIs
      <3> QED
        BY <1>1, <2>1, <3>1, <3>2
    <2> QED
      BY <2>2, <2>3
  <1> QED
    BY <1>11, <1>12, <1>13

LEMMA AnswerIs ==
    ASSUME ConsoleTypeOK, NEW p, NEW i, input_queue = Line(p, i),
           \A c \in Keys : TidOf(cmd_reg_list, c) = Latest(p, i, c)
    PROVE  Entered.answer \in Expected(p, i)
  <1>1. PICK l \in Seq(Keys) : l = input_queue /\ l = Line(p, i)
    BY DEF ConsoleTypeOK
  <1>2. PICK h : h = Latest(p, i, l[2])
    OBVIOUS
  <1>3. Expected(p, i) = Wanted(l, h)
    BY <1>1, <1>2, ExpectedIs
  <1>4. Len(l) \in Nat /\ (l = <<>> <=> Len(l) = 0)
    BY <1>1, LenProperties, EmptySeq
  <1>5. Nothing.answer = <<"nothing">>
        /\ Complain("Invalid command", input, cmd_length).answer = <<"Invalid command">>
    BY DEF Nothing, Complain, Outcome
  <1>6. Entered = IF l = <<>> THEN Nothing
                  ELSE IF l[1] # "%" THEN Complain("Invalid command", input, cmd_length)
                  ELSE IF Len(l) = 1 THEN Nothing
                  ELSE Command(Tail(l))
    BY <1>1 DEF Entered
  <1>7. CASE l = <<>>
    <2>1. Wanted(l, h) = {<<"nothing">>}
      BY <1>4, <1>7 DEF Wanted
    <2> QED
      BY <1>3, <1>5, <1>6, <1>7, <2>1
  <1>8. CASE l # <<>> /\ l[1] # "%"
    <2>1. Wanted(l, h) = {<<"Invalid command">>}
      BY <1>4, <1>8 DEF Wanted
    <2> QED
      BY <1>3, <1>5, <1>6, <1>8, <2>1
  <1>9. CASE l # <<>> /\ l[1] = "%" /\ Len(l) = 1
    <2>1. ~(Len(l) - 1 > KCD_CMD_BUF_SIZE)
      BY <1>9, ConsoleAssumption
    <2>2. Wanted(l, h) = {<<"nothing">>}
      BY <1>9, <2>1 DEF Wanted
    <2> QED
      BY <1>3, <1>5, <1>6, <1>9, <2>2
  <1>10. CASE l # <<>> /\ l[1] = "%" /\ Len(l) # 1
    <2>1. PICK n \in Nat \ {0} : Len(l) = n + 1
      <3>1. Len(l) - 1 \in Nat \ {0} /\ Len(l) = (Len(l) - 1) + 1
        BY <1>4, <1>10
      <3> QED
        BY <3>1
    <2>2. l[2] \in Keys
      <3>1. 2 \in 1 .. Len(l)
        BY <2>1
      <3> QED
        BY <1>1, <3>1, ElementOfSeq
    <2>3. h = TidOf(cmd_reg_list, l[2])
      BY <1>2, <2>2
    <2>4. Command(Tail(l)).answer \in Wanted(l, h)
      BY <1>1, <1>10, <2>1, <2>3, CommandIs
    <2> QED
      BY <1>3, <1>6, <1>10, <2>4
  <1> QED
    BY <1>7, <1>8, <1>9, <1>10

----------------------------------------------------------------------------
(***************************************************************************)
(* What the KCD remembers of the messages p that it has read: the handlers *)
(* registered, the keys of the line, and an answer for each enter key.     *)
(***************************************************************************)
Answered(p, ans) == \A i \in 1 .. Len(ans) : ans[i] \in Expected(p, Enters(p)[i])

Remembers(p) ==
    /\ heard = p \o line["KCD"]
    /\ Directory(p, cmd_reg_list)
    /\ input_queue = Line(p, IF entered THEN Len(p) ELSE Len(p) + 1)
    /\ entered => p # <<>> /\ IsEnter(p[Len(p)])
    /\ Len(answers) + (IF entered THEN 1 ELSE 0) = Len(Enters(p))
    /\ Answered(p, answers)

KcdRemembers == \E p \in Seq(Heard) : Remembers(p)

LEMMA HeardMore ==
    ASSUME NEW p \in Seq(Heard), NEW k \in Seq(Heard), NEW m \in Heard
    PROVE  Append(p \o k, m) = p \o Append(k, m)
  <1>1. PICK h \in Seq(Heard), s \in Seq(Heard) : h = p \o k /\ s = <<m>>
    <2>1. p \o k \in Seq(Heard)
      BY ConcatProperties
    <2>2. <<m>> \in Seq(Heard)
      OBVIOUS
    <2> QED
      BY <2>1, <2>2
  <1>2. Append(h, m) = h \o s /\ Append(k, m) = k \o s
    BY <1>1, AppendIsConcat
  <1>3. (p \o k) \o s = p \o (k \o s)
    BY <1>1, ConcatAssociative
  <1> QED
    BY <1>1, <1>2, <1>3

LEMMA ReadOne ==
    ASSUME NEW p \in Seq(Heard), NEW k \in Seq(Heard), k # <<>>
    PROVE  p \o k = Append(p, k[1]) \o Tail(k)
  <1>1. PICK m \in Heard, t \in Seq(Heard) : m = k[1] /\ t = Tail(k)
    BY TailType
  <1>2. PICK s \in Seq(Heard) : s = <<m>> /\ Len(s) = 1 /\ s[1] = m
    <2>1. <<m>> \in Seq(Heard) /\ Len(<<m>>) = 1 /\ <<m>>[1] = m
      BY <1>1
    <2> QED
      BY <2>1
  <1>3. PICK n \in Nat : n = Len(t)
    BY <1>1, LenProperties
  <1>4. Len(k) = n + 1 /\ \A i \in 1 .. n : t[i] = k[i + 1]
    <2>1. Len(t) = Len(k) - 1 /\ \A i \in 1 .. Len(t) : t[i] = k[i + 1]
      BY <1>1, HeadTailProperties
    <2>2. Len(k) \in Nat
      BY LenProperties
    <2> QED
      BY <1>3, <2>1, <2>2
  <1>5. PICK x \in Seq(Heard) : x = s \o t
    BY <1>1, <1>2, ConcatProperties
  <1>6. Len(x) = 1 + n
        /\ \A i \in 1 .. 1 + n : x[i] = IF i <= 1 THEN s[i] ELSE t[i - 1]
    BY <1>1, <1>2, <1>3, <1>5, ConcatProperties
  <1>7. \A i \in 1 .. Len(k) : k[i] = x[i]
    <2> SUFFICES ASSUME NEW i \in 1 .. n + 1 PROVE k[i] = x[i]
      BY <1>4
    <2>1. CASE i = 1
      BY <1>1, <1>2, <1>6, <2>1
    <2>2. CASE i # 1
      <3>1. i - 1 \in 1 .. n /\ (i - 1) + 1 = i /\ ~(i <= 1)
        BY <2>2
      <3>2. t[i - 1] = k[i]
        BY <1>4, <3>1
      <3> QED
        BY <1>6, <3>1, <3>2
    <2> QED
      BY <2>1, <2>2
  <1>8. k = x
    <2>1. Len(k) = Len(x)
      BY <1>4, <1>6
    <2> QED
      BY <1>5, <1>7, <2>1, SeqEqual
  <1>9. p \o (s \o t) = (p \o s) \o t
    BY <1>1, <1>2, ConcatAssociative
  <1>10. Append(p, m) = p \o s
    BY <1>1, <1>2, AppendIsConcat
  <1> QED
    BY <1>1, <1>5, <1>8, <1>9, <1>10

LEMMA AnsweredAppend ==
    ASSUME NEW p \in Seq(Heard), NEW m \in Heard, NEW ans, NEW n \in Nat, n = Len(ans),
           n <= Len(Enters(p)), Answered(p, ans)
    PROVE  Answered(Append(p, m), ans)
  <1>1. PICK g : g = Append(p, m)
    OBVIOUS
  <1>2. PICK S : S = 1 .. Len(p)
    OBVIOUS
  <1>3. PICK e \in Seq(S) : e = Enters(p)
    BY <1>2, EntersType
  <1>4. Len(p) \in Nat /\ Len(e) \in Nat
    BY <1>3, LenProperties
  <1>5. \A i \in 1 .. Len(e) : Enters(g)[i] = e[i]
    <2>1. PICK f \in Seq(Nat) : f = e
      <3>1. S \subseteq Nat
        BY <1>2, <1>4
      <3> QED
        BY <1>3, <3>1, SeqMonotonic
    <2>2. Enters(g) = IF IsEnter(m) THEN Append(f, Len(p) + 1) ELSE f
      BY <1>1, <1>3, <2>1, EntersAppend
    <2>3. Len(p) + 1 \in Nat
      BY <1>4
    <2>4. \A i \in 1 .. Len(f) : Append(f, Len(p) + 1)[i] = f[i]
      BY <2>1, <2>3, AppendProperties
    <2> QED
      BY <2>1, <2>2, <2>4
  <1>6. ASSUME NEW i \in 1 .. Len(ans)
        PROVE  ans[i] \in Expected(g, Enters(g)[i])
    <2>1. i \in 1 .. Len(e)
      BY <1>3, <1>4
    <2>2. PICK j \in 1 .. Len(p) : j = e[i]
      BY <1>2, <1>3, <2>1, ElementOfSeq
    <2>3. Expected(g, j) = Expected(p, j)
      BY <1>1, <2>2, ExpectedBefore
    <2>4. ans[i] \in Expected(p, j)
      BY <1>3, <2>2 DEF Answered
    <2> QED
      BY <1>5, <2>1, <2>2, <2>3, <2>4
  <1> QED
    BY <1>1, <1>6 DEF Answered

\* The last of the enter keys is where p ends, when it ends with one.
LEMMA LastIsEnter ==
    ASSUME NEW p \in Seq(Heard), p # <<>>, IsEnter(p[Len(p)])
    PROVE  Enters(p)[Len(Enters(p))] = Len(p)
  <1>1. PICK r \in Seq(Heard), m \in Heard : p = Append(r, m)
    BY SequenceEmptyOrAppend
  <1>2. PICK n \in Nat : n = Len(r)
    BY <1>1, LenProperties
  <1>3. Len(p) = n + 1 /\ p[n + 1] = m
    BY <1>1, <1>2, AppendProperties
  <1>4. Enters(p) = Append(Enters(r), n + 1)
    BY <1>1, <1>2, <1>3, EntersAppend
  <1>5. PICK e \in Seq(Nat) : e = Enters(r)
    <2>1. PICK S : S = 1 .. n
      OBVIOUS
    <2>2. Enters(r) \in Seq(S) /\ S \subseteq Nat
      BY <1>1, <1>2, <2>1, EntersType
    <2> QED
      BY <2>2, SeqMonotonic
  <1>6. PICK f : f = Append(e, n + 1)
    OBVIOUS
  <1>7. n + 1 \in Nat
    BY <1>2
  <1>8. Len(f) = Len(e) + 1 /\ f[Len(e) + 1] = n + 1
    BY <1>5, <1>6, <1>7, AppendProperties
  <1> QED
    BY <1>3, <1>4, <1>5, <1>6, <1>8

\* What has to hold after a step for the KCD to remember q.
Recalls(q, h, k, list, line1, e, ans) ==
    /\ h = q \o k /\ Directory(q, list)
    /\ line1 = Line(q, IF e THEN Len(q) ELSE Len(q) + 1)
    /\ e => q # <<>> /\ IsEnter(q[Len(q)])
    /\ Len(ans) + (IF e THEN 1 ELSE 0) = Len(Enters(q))
    /\ Answered(q, ans)

LEMMA RecallsIs ==
    ASSUME NEW p
    PROVE  Remembers(p) <=>
               Recalls(p, heard, line["KCD"], cmd_reg_list, input_queue, entered, answers)
  BY DEF Remembers, Recalls

LEMMA RecallsNext ==
    ASSUME NEW q \in Seq(Heard),
           Recalls(q, heard', line'["KCD"], cmd_reg_list', input_queue', entered', answers')
    PROVE  KcdRemembers'
  <1>1. Remembers(q)'
    BY DEF Recalls, Remembers
  <1> QED
    BY <1>1 DEF KcdRemembers

\* A registration is read.
LEMMA RegisterRecalls ==
    ASSUME ConsoleTypeOK, NEW p \in Seq(Heard), Remembers(p), KcdRegister
    PROVE  \E q \in Seq(Heard) :
              Recalls(q, heard', line'["KCD"], cmd_reg_list', input_queue', entered', answers')
  <1>1. PICK k \in Seq(Heard) : k = line["KCD"] /\ k # <<>>
    BY DEF ConsoleTypeOK, KcdRegister
  <1>2. PICK m \in Heard : m = k[1]
    BY <1>1, TailType
  <1>3. PICK q : q = Append(p, m)
    OBVIOUS
  <1>4. q \in Seq(Heard) /\ Len(q) = Len(p) + 1 /\ Len(p) \in Nat
    BY <1>3, AppendProperties, LenProperties
  <1>5. ~IsKey(m) /\ entered = FALSE /\ entered' = entered /\ heard' = heard /\ answers' = answers
        /\ input_queue' = input_queue /\ cmd_reg_list' = Registered(cmd_reg_list, m.data[1], m.from)
    BY <1>1, <1>2 DEF KcdRegister, KcdFree, ConsoleTypeOK
  <1>6. line'["KCD"] = Tail(k)
    BY <1>1, RegisterTakes DEF Mailed
  <1>7. heard' = q \o line'["KCD"]
    BY <1>1, <1>2, <1>3, <1>5, <1>6, ReadOne DEF Remembers
  <1>8. Directory(q, cmd_reg_list')
    BY <1>3, <1>5, DirectoryRegisters DEF Remembers, ConsoleTypeOK
  <1>9. ~IsEnter(m) /\ KeyOf(m) = <<>>
    BY <1>5 DEF IsEnter, KeyOf
  <1>10. input_queue' = Line(q, Len(q) + 1)
    <2>1. Line(q, Len(p) + 2) = Line(p, Len(p) + 1) \o KeyOf(m)
      BY <1>3, <1>9, LineAppend
    <2>2. Len(p) + 2 = Len(q) + 1
      BY <1>4
    <2>3. PICK l \in Seq(Keys) : l = input_queue
      BY DEF ConsoleTypeOK
    <2>4. l = Line(p, Len(p) + 1)
      BY <1>5, <2>3 DEF Remembers
    <2>5. l \o <<>> = l
      BY <2>3, ConcatEmptySeq
    <2> QED
      BY <1>5, <1>9, <2>1, <2>2, <2>3, <2>4, <2>5
  <1>11. Enters(q) = Enters(p)
    BY <1>3, <1>9, EntersAppend
  <1>12. PICK n \in Nat : n = Len(answers)
    BY LenProperties DEF ConsoleTypeOK
  <1>13. n = Len(Enters(p)) /\ Answered(p, answers)
    BY <1>5, <1>12 DEF Remembers
  <1>14. Answered(q, answers)
    <2>1. n <= Len(Enters(p))
      BY <1>12, <1>13
    <2> QED
      BY <1>3, <1>12, <1>13, <2>1, AnsweredAppend
  <1>15. Recalls(q, heard', line'["KCD"], cmd_reg_list', input_queue', entered', answers')
    BY <1>5, <1>7, <1>8, <1>10, <1>11, <1>12, <1>13, <1>14 DEF Recalls
  <1> QED
    BY <1>4, <1>15

\* A key is read.
LEMMA KeyRecalls ==
    ASSUME ConsoleTypeOK, NEW p \in Seq(Heard), Remembers(p), KcdKey
    PROVE  \E q \in Seq(Heard) :
              Recalls(q, heard', line'["KCD"], cmd_reg_list', input_queue', entered', answers')
  <1>1. PICK k \in Seq(Heard) : k = line["KCD"] /\ k # <<>>
    BY DEF ConsoleTypeOK, KcdKey
  <1>2. PICK m \in Heard : m = k[1]
    BY <1>1, TailType
  <1>3. PICK q : q = Append(p, m)
    OBVIOUS
  <1>4. q \in Seq(Heard) /\ Len(q) = Len(p) + 1 /\ Len(p) \in Nat /\ q[Len(q)] = m /\ q # <<>>
    BY <1>3, AppendProperties, LenProperties
  <1>5. IsKey(m) /\ entered = FALSE /\ heard' = heard /\ answers' = answers
        /\ cmd_reg_list' = cmd_reg_list /\ entered' = (m.data[1] = "enter")
        /\ input_queue' = IF entered' THEN input_queue ELSE Append(input_queue, m.data[1])
    BY <1>1, <1>2 DEF KcdKey, KcdFree, ConsoleTypeOK, Enqueued
  <1>6. line'["KCD"] = Tail(k)
    BY <1>1, KeyTakes DEF Mailed
  <1>7. heard' = q \o line'["KCD"]
    BY <1>1, <1>2, <1>3, <1>5, <1>6, ReadOne DEF Remembers
  <1>8. Directory(q, cmd_reg_list')
    BY <1>3, <1>5, DirectoryKeeps DEF Remembers
  <1>9. PICK n \in Nat : n = Len(answers)
    BY LenProperties DEF ConsoleTypeOK
  <1>10. n = Len(Enters(p)) /\ Answered(p, answers)
    BY <1>5, <1>9 DEF Remembers
  <1>11. Answered(q, answers)
    <2>1. n <= Len(Enters(p))
      BY <1>9, <1>10
    <2> QED
      BY <1>3, <1>9, <1>10, <2>1, AnsweredAppend
  <1>12. PICK l \in Seq(Keys) : l = input_queue
    BY DEF ConsoleTypeOK
  <1>13. l = Line(p, Len(p) + 1)
    BY <1>5, <1>12 DEF Remembers
  <1>14. CASE m.data[1] = "enter"
    <2>1. IsEnter(m) /\ entered' = TRUE
      BY <1>5, <1>14 DEF IsEnter
    <2>2. input_queue' = Line(q, Len(q))
      <3>1. Len(p) + 1 \in 1 .. Len(p) + 1
        BY <1>4
      <3>2. Line(q, Len(p) + 1) = Line(p, Len(p) + 1)
        BY <1>3, <3>1, LineBefore
      <3> QED
        BY <1>4, <1>5, <1>12, <1>13, <2>1, <3>2
    <2>3. Len(answers) + 1 = Len(Enters(q))
      <3>1. PICK S : S = 1 .. Len(p) + 1
        OBVIOUS
      <3>2. 1 .. Len(p) \subseteq S /\ Len(p) + 1 \in S
        BY <1>4, <3>1
      <3>3. PICK T : T = 1 .. Len(p)
        OBVIOUS
      <3>4. Enters(p) \in Seq(T) /\ T \subseteq S
        BY <3>2, <3>3, EntersType
      <3>5. Enters(p) \in Seq(S)
        BY <3>4, SeqMonotonic
      <3>6. Enters(q) = Append(Enters(p), Len(p) + 1)
        BY <1>3, <2>1, EntersAppend
      <3>7. Len(Append(Enters(p), Len(p) + 1)) = Len(Enters(p)) + 1
        BY <3>2, <3>5, AppendProperties
      <3> QED
        BY <1>9, <1>10, <3>6, <3>7
    <2>4. Recalls(q, heard', line'["KCD"], cmd_reg_list', input_queue', entered', answers')
      BY <1>4, <1>5, <1>7, <1>8, <1>11, <2>1, <2>2, <2>3 DEF Recalls
    <2> QED
      BY <1>4, <2>4
  <1>15. CASE m.data[1] # "enter"
    <2>1. ~IsEnter(m) /\ entered' = FALSE
      BY <1>5, <1>15 DEF IsEnter
    <2>2. input_queue' = Line(q, Len(q) + 1)
      <3>1. PICK c \in Keys : c = m.data[1] /\ m.data = <<c>>
        BY <1>5, HeardIs
      <3>2. KeyOf(m) = <<c>>
        BY <1>5, <3>1 DEF KeyOf
      <3>3. Append(l, c) = l \o <<c>>
        BY <1>12, <3>1, AppendIsConcat
      <3>4. Line(q, Len(p) + 2) = Line(p, Len(p) + 1) \o KeyOf(m)
        BY <1>3, <2>1, LineAppend
      <3>5. Len(p) + 2 = Len(q) + 1
        BY <1>4
      <3> QED
        BY <1>5, <1>12, <1>13, <2>1, <3>1, <3>2, <3>3, <3>4, <3>5
    <2>3. Enters(q) = Enters(p)
      BY <1>3, <2>1, EntersAppend
    <2>4. Recalls(q, heard', line'["KCD"], cmd_reg_list', input_queue', entered', answers')
      BY <1>5, <1>7, <1>8, <1>9, <1>10, <1>11, <2>1, <2>2, <2>3 DEF Recalls
    <2> QED
      BY <1>4, <2>4
  <1> QED
    BY <1>14, <1>15

\* A line is answered.
LEMMA EnterRecalls ==
    ASSUME ConsoleTypeOK, NEW p \in Seq(Heard), Remembers(p), KcdEnter
    PROVE  Recalls(p, heard', line'["KCD"], cmd_reg_list', input_queue', entered', answers')
  <1>1. entered /\ entered' = FALSE /\ heard' = heard /\ line' = line
        /\ cmd_reg_list' = cmd_reg_list
    BY DEF KcdEnter
  <1>2. input_queue' = <<>> /\ answers' = Append(answers, Entered.answer)
    BY DEF KcdEnter
  <1>3. p # <<>> /\ IsEnter(p[Len(p)]) /\ Directory(p, cmd_reg_list)
        /\ input_queue = Line(p, Len(p)) /\ Len(answers) + 1 = Len(Enters(p))
        /\ Answered(p, answers) /\ heard = p \o line["KCD"]
    BY <1>1 DEF Remembers
  <1>4. Entered.answer \in Expected(p, Len(p))
    BY <1>3, AnswerIs DEF Directory
  <1>5. Line(p, Len(p) + 1) = <<>>
    <2>1. PICK n \in Nat : n + 1 = Len(p)
      <3>1. Len(p) \in Nat \ {0}
        BY <1>3, LenProperties, EmptySeq
      <3>2. Len(p) - 1 \in Nat /\ (Len(p) - 1) + 1 = Len(p)
        BY <3>1
      <3> QED
        BY <3>2
    <2> QED
      BY <1>3, <2>1, LineAfterEnter
  <1>6. PICK a \in Seq(Answers), x \in Answers : a = answers /\ x = Entered.answer
    <2>1. PICK o \in Outcomes : o = Entered
      BY EnteredType
    <2>2. o.answer \in Answers
      BY <2>1 DEF Outcomes
    <2> QED
      BY <2>1, <2>2 DEF ConsoleTypeOK
  <1>7. PICK b : b = Append(a, x)
    OBVIOUS
  <1>8. PICK n \in Nat : n = Len(a)
    BY <1>6, LenProperties
  <1>9. Len(b) = n + 1 /\ b[n + 1] = x /\ \A i \in 1 .. n : b[i] = a[i]
    BY <1>6, <1>7, <1>8, AppendProperties
  <1>10. Enters(p)[n + 1] = Len(p) /\ Len(Enters(p)) = n + 1
    <2>1. Len(Enters(p)) = n + 1
      BY <1>3, <1>6, <1>8
    <2>2. Enters(p)[Len(Enters(p))] = Len(p)
      BY <1>3, LastIsEnter
    <2> QED
      BY <2>1, <2>2
  <1>11. Answered(p, b)
    <2>1. ASSUME NEW i \in 1 .. n + 1
          PROVE  b[i] \in Expected(p, Enters(p)[i])
      <3>1. CASE i = n + 1
        BY <1>4, <1>6, <1>9, <1>10, <3>1
      <3>2. CASE i # n + 1
        <4>1. i \in 1 .. n
          BY <3>2
        <4>2. a[i] \in Expected(p, Enters(p)[i])
          BY <1>3, <1>6, <1>8, <4>1 DEF Answered
        <4> QED
          BY <1>9, <4>1, <4>2
      <3> QED
        BY <3>1, <3>2
    <2> QED
      BY <1>9, <2>1 DEF Answered
  <1>12. answers' = b
    BY <1>2, <1>6, <1>7
  <1>13. Len(answers') + 0 = Len(Enters(p))
    BY <1>9, <1>10, <1>12
  <1> QED
    BY <1>1, <1>2, <1>3, <1>5, <1>11, <1>12, <1>13 DEF Recalls

\* The KCD is sent a message, or does something else, or somebody else does.
LEMMA HeardRecalls ==
    ASSUME ConsoleTypeOK, NEW p \in Seq(Heard), Remembers(p), NEW m \in Heard,
           heard' = Append(heard, m), line'["KCD"] = Append(line["KCD"], m), UNCHANGED kcdVars
    PROVE  Recalls(p, heard', line'["KCD"], cmd_reg_list', input_queue', entered', answers')
  <1>1. PICK k \in Seq(Heard) : k = line["KCD"]
    BY DEF ConsoleTypeOK
  <1>2. heard = p \o k
    BY <1>1 DEF Remembers
  <1>3. Append(p \o k, m) = p \o Append(k, m)
    BY <1>1, HeardMore
  <1>4. heard' = p \o line'["KCD"]
    BY <1>1, <1>2, <1>3
  <1> QED
    BY <1>4 DEF Remembers, Recalls, kcdVars

LEMMA OtherRecalls ==
    ASSUME NEW p, Remembers(p), heard' = heard, line'["KCD"] = line["KCD"],
           UNCHANGED <<cmd_reg_list, input_queue, entered, answers>>
    PROVE  Recalls(p, heard', line'["KCD"], cmd_reg_list', input_queue', entered', answers')
  BY DEF Remembers, Recalls

LEMMA StepRemembers == ConsoleTypeOK /\ KcdRemembers /\ [ConsoleNext]_consoleVars => KcdRemembers'
  <1> SUFFICES ASSUME ConsoleTypeOK, KcdRemembers, [ConsoleNext]_consoleVars
               PROVE  KcdRemembers'
    OBVIOUS
  <1>1. PICK p \in Seq(Heard) : Remembers(p)
    BY DEF KcdRemembers
  <1> DEFINE Kept == \E q \in Seq(Heard) :
                 Recalls(q, heard', line'["KCD"], cmd_reg_list', input_queue', entered', answers')
  <1>2. \A k, c, u : Mailed(k, c, u) => line'["KCD"] = k
    BY DEF Mailed
  <1>3. heard' = heard /\ line'["KCD"] = line["KCD"]
        /\ (UNCHANGED <<cmd_reg_list, input_queue, entered, answers>>) => Kept
    BY <1>1, OtherRecalls
  <1>4. ASSUME Kcd PROVE Kept
    <2>1. CASE KcdRegister
      BY <1>1, <2>1, RegisterRecalls
    <2>2. CASE KcdKey
      BY <1>1, <2>2, KeyRecalls
    <2>3. CASE KcdEnter
      BY <1>1, <2>3, EnterRecalls
    <2>4. CASE KcdSend
      BY <1>2, <1>3, <2>4, SendMails DEF KcdSend
    <2> QED
      BY <1>4, <2>1, <2>2, <2>3, <2>4 DEF Kcd
  <1>5. ASSUME Con PROVE Kept
    <2>1. CASE ConReceive
      BY <1>2, <1>3, <2>1, ConTakes DEF ConReceive, kcdVars
    <2>2. CASE ConEnable
      BY <1>3, <2>2 DEF ConEnable, kcdVars
    <2> QED
      BY <1>5, <2>1, <2>2 DEF Con
  <1>6. ASSUME Transmit PROVE Kept
    <2>1. line'["KCD"] = line["KCD"]
      BY <1>2, <1>6, TransmitTakes
    <2> QED
      BY <1>3, <1>6, <2>1 DEF Transmit, kcdVars
  <1>7. ASSUME NEW x \in Keys, KeyIn(x)
        PROVE  Kept
    <2>1. PICK m \in Heard : m = Msg("KEY_IN", "UART", <<x>>)
      BY KeyMsgIs
    <2>2. heard' = Append(heard, m) /\ line'["KCD"] = Append(line["KCD"], m) /\ UNCHANGED kcdVars
      BY <1>2, <1>7, <2>1, KeyArrives DEF KeyIn
    <2> QED
      BY <1>1, <2>2, HeardRecalls
  <1>8. ASSUME NEW t \in Handlers, Handle(t) \/ HandlerExit(t)
        PROVE  Kept
    <2>1. CASE Register(t)
      <3>1. PICK m \in Heard : m = Registration(t)
        BY HandlerSays
      <3>2. heard' = Append(heard, m) /\ line'["KCD"] = Append(line["KCD"], m) /\ UNCHANGED kcdVars
        BY <1>2, <2>1, <3>1, HandlerMails DEF Register
      <3> QED
        BY <1>1, <3>2, HeardRecalls
    <2>2. CASE HandlerReceive(t)
      BY <1>2, <1>3, <2>2, HandlerMails DEF HandlerReceive, kcdVars
    <2>3. CASE HandlerAnswer(t)
      BY <1>2, <1>3, <2>3, HandlerMails DEF HandlerAnswer, kcdVars
    <2>4. CASE HandlerExit(t)
      BY <1>3, <2>4 DEF HandlerExit, kcdVars
    <2> QED
      BY <1>8, <2>1, <2>2, <2>3, <2>4 DEF Handle
  <1>9. ASSUME UNCHANGED consoleVars PROVE Kept
    BY <1>3, <1>9 DEF consoleVars, kcdVars
  <1>10. Kept
    BY <1>4, <1>5, <1>6, <1>7, <1>8, <1>9 DEF ConsoleNext
  <1> QED
    BY <1>10, RecallsNext

LEMMA InitRemembers ==
    ASSUME ConsoleInit
    PROVE  KcdRemembers
  <1>1. PICK p \in Seq(Heard) : p = <<>>
    <2>1. <<>> \in Seq(Heard)
      OBVIOUS
    <2> QED
      BY <2>1
  <1>2. Len(p) = 0
    BY <1>1
  <1>3. heard = p \o line["KCD"]
    <2>1. PICK h \in Seq(Heard) : h = heard /\ h = line["KCD"]
      BY InitTypes, NamesApart DEF ConsoleTypeOK, ConsoleInit
    <2>2. <<>> \o h = h
      BY <2>1, ConcatEmptySeq
    <2> QED
      BY <1>1, <2>1, <2>2
  <1>4. Directory(p, cmd_reg_list)
    <2>1. cmd_reg_list = <<>>
      BY DEF ConsoleInit
    <2>2. \A c : EntriesOf(<<>>, c) = {}
      BY DEF EntriesOf
    <2>3. \A c : RegsOf(p, 0, c) = {}
      BY DEF RegsOf
    <2>4. \A c : Latest(p, 0, c) = NoKey
      BY <2>3, LatestIs
    <2> QED
      BY <1>2, <2>1, <2>2, <2>4 DEF Directory, TidOf
  <1>5. input_queue = Line(p, Len(p) + 1)
    <2>1. EntersBefore(p, 1) = {} /\ 1 \in Nat \ {0}
      BY DEF EntersBefore
    <2>2. LastEnter(p, 1) \in 0 .. 1 - 1
      BY <2>1, LastEnterIs
    <2>3. LastEnter(p, 1) = 0
      BY <2>2
    <2>4. SubSeq(p, 1, 0) = <<>>
      BY SubSeqEmpty
    <2>5. KeysIn(<<>>) = <<>>
      BY <1>1, KeysAre, SpelledEmpty
    <2>6. 0 + 1 = 1 /\ 1 - 1 = 0
      OBVIOUS
    <2>7. Line(p, 1) = <<>>
      BY <2>3, <2>4, <2>5, <2>6 DEF Line
    <2> QED
      BY <1>2, <2>6, <2>7 DEF ConsoleInit
  <1>6. Enters(p) = <<>>
    <2>1. [i \in DOMAIN <<>> |-> IF IsEnter(<<>>[i]) THEN <<i>> ELSE <<>>] = <<>>
      OBVIOUS
    <2> QED
      BY <1>1, <2>1, FlatEmpty DEF Enters
  <1>7. entered = FALSE /\ answers = <<>>
    BY DEF ConsoleInit
  <1>8. Len(answers) = 0 /\ Len(Enters(p)) = 0
    BY <1>6, <1>7
  <1>9. Answered(p, answers)
    BY <1>8 DEF Answered
  <1>10. Remembers(p)
    BY <1>3, <1>4, <1>5, <1>7, <1>8, <1>9 DEF Remembers
  <1> QED
    BY <1>1, <1>10 DEF KcdRemembers

LEMMA RememberedAnswers ==
    ASSUME ConsoleTypeOK, KcdRemembers
    PROVE  AnswersAgree
  <1>1. PICK p \in Seq(Heard) : Remembers(p)
    BY DEF KcdRemembers
  <1>2. PICK k \in Seq(Heard) : k = line["KCD"]
    BY DEF ConsoleTypeOK
  <1>3. Len(p) \in Nat /\ Len(k) \in Nat
    BY <1>1, <1>2, LenProperties
  <1>4. heard = p \o k
    BY <1>1, <1>2 DEF Remembers
  <1>5. PICK h : h = p \o k
    OBVIOUS
  <1>6. h \in Seq(Heard) /\ Len(h) = Len(p) + Len(k)
        /\ \A i \in 1 .. Len(p) + Len(k) : h[i] = IF i <= Len(p) THEN p[i] ELSE k[i - Len(p)]
    BY <1>1, <1>2, <1>5, ConcatProperties
  <1>7. Len(h) - Len(k) = Len(p)
    BY <1>3, <1>6
  <1>8. PICK s : s = SubSeq(h, 0 + 1, Len(p))
    OBVIOUS
  <1>9. s \in Seq(Heard) /\ Len(s) = Len(p) - 0 /\ \A i \in 1 .. Len(p) - 0 : s[i] = h[0 + i]
    <2>1. 0 \in Nat /\ 0 <= Len(p) /\ Len(p) <= Len(h)
      BY <1>3, <1>6
    <2> QED
      BY <1>3, <1>6, <1>8, <2>1, PieceIs
  <1>10. Len(s) = Len(p) /\ \A i \in 1 .. Len(s) : s[i] = p[i]
    BY <1>3, <1>6, <1>9
  <1>11. s = p
    BY <1>1, <1>9, <1>10, SeqEqual
  <1>12. SubSeq(heard, 1, Len(heard) - Len(line["KCD"])) = p
    <2>1. 0 + 1 = 1
      OBVIOUS
    <2> QED
      BY <1>2, <1>4, <1>5, <1>7, <1>8, <1>11, <2>1
  <1>13. PICK a \in Seq(Answers) : a = answers /\ DOMAIN a = 1 .. Len(a) /\ Len(a) \in Nat
    BY LenProperties DEF ConsoleTypeOK
  <1>14. ~entered => Len(answers) = Len(Enters(p))
    BY <1>1, <1>13 DEF Remembers
  <1>15. \A i \in DOMAIN answers : answers[i] \in Expected(p, Enters(p)[i])
    BY <1>1, <1>13 DEF Remembers, Answered
  <1> QED
    BY <1>12, <1>14, <1>15 DEF AnswersAgree

\* Every line is answered once and in order, as what was typed since the last enter
\* key and the latest registrations ask for, for any number of lines, handlers and exits:
\* after every message that the KCD reads, its list is a directory of the latest
\* registrations, its queue is the line so far, and it has made one answer for each
\* enter key, none of which depends on the lines before.
THEOREM LinesAnswered == ConsoleSpec => []AnswersAgree
  <1>1. ConsoleInit => KcdRemembers
    BY InitRemembers
  <1>2. ConsoleTypeOK /\ KcdRemembers => AnswersAgree
    BY RememberedAnswers
  <1> QED
    BY <1>1, <1>2, StepRemembers, ConsoleTypes, PTL DEF ConsoleSpec
=============================================================================

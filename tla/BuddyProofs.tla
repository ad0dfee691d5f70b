----------------------------- MODULE BuddyProofs -----------------------------
(***************************************************************************)
(* The buddy allocator hands out memory nobody else has, whatever the      *)
(* depth of its tree, as long as callers free in a careful order.          *)
(***************************************************************************)
EXTENDS Buddy, FiniteSetTheorems, SequenceTheorems, WellFoundedInduction, TLAPS

USE LevelsAssumption

----------------------------------------------------------------------------
(***************************************************************************)
(* Numbers.                                                                *)
(***************************************************************************)
\* A non-empty set of natural numbers has a least element.
LEMMA LeastOf ==
    ASSUME NEW S \in SUBSET Nat, S # {}
    PROVE  \E i \in S : \A j \in S : i <= j
  <1>1. PICK R : R = OpToRel(<, Nat)
    OBVIOUS
  <1>2. \A x, y \in Nat : <<y, x>> \in R <=> y < x
    BY <1>1 DEF OpToRel
  <1>3. PICK i \in S : \A y \in S : ~(<<y, i>> \in R)
    BY <1>1, NatLessThanWellFounded, WFMin
  <1> SUFFICES ASSUME NEW j \in S PROVE i <= j
    BY <1>3
  <1>4. i \in Nat /\ j \in Nat /\ ~(j < i)
    BY <1>2, <1>3
  <1> QED
    BY <1>4

\* A set of numbers up to n has a greatest one.
LEMMA GreatestOf ==
    ASSUME NEW n \in Nat, NEW S \in SUBSET (0 .. n), S # {}
    PROVE  \E i \in S : \A j \in S : j <= i
  <1> DEFINE Above == {i \in 0 .. n : \A j \in S : j <= i}
  <1>1. n \in Above /\ Above \in SUBSET Nat
    OBVIOUS
  <1>2. PICK i \in Above : \A k \in Above : i <= k
    BY <1>1, LeastOf
  <1>3. i \in S
    <2> SUFFICES ASSUME i \notin S PROVE FALSE
      OBVIOUS
    <2>1. i \in 0 .. n /\ \A j \in S : j \in 0 .. n /\ j <= i
      BY <1>2
    <2>2. \A j \in S : j \in 0 .. n /\ j <= i - 1
      <3> SUFFICES ASSUME NEW j \in S PROVE j \in 0 .. n /\ j <= i - 1
        OBVIOUS
      <3>1. j \in 0 .. n /\ j <= i /\ j # i
        BY <2>1
      <3> QED
        BY <2>1, <3>1
    <2>3. i - 1 \in 0 .. n
      <3>1. PICK j : j \in S
        OBVIOUS
      <3> QED
        BY <2>1, <2>2, <3>1
    <2>4. i - 1 \in Above
      BY <2>2, <2>3
    <2>5. i <= i - 1
      BY <1>2, <2>4
    <2> QED
      BY <2>1, <2>5
  <1> QED
    BY <1>2, <1>3

LEMMA MaxIs ==
    ASSUME NEW n \in Nat, NEW S \in SUBSET (0 .. n), NEW m \in S, \A j \in S : j <= m
    PROVE  Max(S) = m
  <1>1. \E x \in S : \A y \in S : x >= y
    OBVIOUS
  <1>2. Max(S) \in S /\ \A j \in S : Max(S) >= j
    BY <1>1 DEF Max
  <1>3. Max(S) <= m /\ m <= Max(S) /\ Max(S) \in 0 .. n /\ m \in 0 .. n
    BY <1>2
  <1> QED
    BY <1>3

\* A loop: from a at m on, the i-th turn applies step[i].
Runs(f, D, a, m, n, step) == /\ f \in [m .. n -> D] /\ f[m] = a
                             /\ \A i \in m + 1 .. n : f[i] = step[i][f[i - 1]]

LEMMA LoopRuns ==
    ASSUME NEW D, NEW a \in D, NEW m \in Nat, NEW n \in Nat, m <= n,
           NEW step \in [m + 1 .. n -> [D -> D]]
    PROVE  \E f : Runs(f, D, a, m, n, step)
  <1> DEFINE Bad == {i \in m .. n : ~ \E f : Runs(f, D, a, m, i, step)}
  <1> SUFFICES ASSUME Bad # {} PROVE FALSE
    <2>1. n \in m .. n
      OBVIOUS
    <2> QED
      BY <2>1
  <1>1. Bad \in SUBSET Nat
    OBVIOUS
  <1>2. PICK i \in Bad : \A j \in Bad : i <= j
    BY <1>1, LeastOf
  <1>3. i \in m .. n /\ ~ \E f : Runs(f, D, a, m, i, step)
    OBVIOUS
  <1>4. i # m
    <2>1. PICK f : f = [j \in m .. m |-> a]
      OBVIOUS
    <2>2. Runs(f, D, a, m, m, step)
      BY <2>1 DEF Runs
    <2> QED
      BY <1>3, <2>2
  <1>5. i - 1 \in m .. n /\ i \in m + 1 .. n
    BY <1>3, <1>4
  <1>6. i - 1 \notin Bad
    BY <1>2, <1>5
  <1>7. PICK f : Runs(f, D, a, m, i - 1, step)
    BY <1>5, <1>6
  <1> HIDE DEF Bad
  <1>8. PICK x : x = step[i][f[i - 1]]
    OBVIOUS
  <1>9. f[i - 1] \in D /\ x \in D
    BY <1>5, <1>7, <1>8 DEF Runs
  <1>10. PICK g : g = [j \in m .. i |-> IF j < i THEN f[j] ELSE x]
    OBVIOUS
  <1>11. g \in [m .. i -> D] /\ g[m] = a
    BY <1>5, <1>7, <1>9, <1>10 DEF Runs
  <1>12. ASSUME NEW j \in m + 1 .. i
         PROVE  g[j] = step[j][g[j - 1]]
    <2>1. j - 1 \in m .. i - 1 /\ g[j - 1] = f[j - 1]
      BY <1>5, <1>10
    <2>2. CASE j = i
      BY <1>5, <1>8, <1>10, <2>1, <2>2
    <2>3. CASE j < i
      <3>1. j \in m + 1 .. i - 1 /\ g[j] = f[j]
        BY <1>5, <1>10, <2>3
      <3> QED
        BY <1>7, <2>1, <3>1 DEF Runs
    <2> QED
      BY <1>5, <2>2, <2>3
  <1>13. Runs(g, D, a, m, i, step)
    BY <1>11, <1>12 DEF Runs
  <1> QED
    BY <1>3, <1>13

----------------------------------------------------------------------------
(***************************************************************************)
(* Powers of two.                                                          *)
(***************************************************************************)
LEMMA PowerIs ==
    /\ POWER2[0] = 1
    /\ \A n \in 1 .. MAX_LEVELS : POWER2[n] = 2 * POWER2[n - 1]
  <1>1. PICK D : D = Nat \ {0}
    OBVIOUS
  <1>2. PICK step : step = [i \in 0 + 1 .. MAX_LEVELS |-> [x \in D |-> 2 * x]]
    OBVIOUS
  <1>3. step \in [0 + 1 .. MAX_LEVELS -> [D -> D]] /\ 1 \in D
    BY <1>1, <1>2
  <1>4. PICK f : Runs(f, D, 1, 0, MAX_LEVELS, step)
    <2>1. 0 \in Nat /\ MAX_LEVELS \in Nat /\ 0 <= MAX_LEVELS
      OBVIOUS
    <2> QED
      BY <1>3, <2>1, LoopRuns
  <1>5. f = [n \in 0 .. MAX_LEVELS |-> IF n = 0 THEN 1 ELSE 2 * f[n - 1]]
    <2>1. \A n \in 1 .. MAX_LEVELS : f[n] = 2 * f[n - 1]
      BY <1>2, <1>4 DEF Runs
    <2>2. f = [n \in 0 .. MAX_LEVELS |-> f[n]]
      BY <1>4 DEF Runs
    <2>3. f[0] = 1
      BY <1>4 DEF Runs
    <2>4. \A n \in 0 .. MAX_LEVELS : f[n] = IF n = 0 THEN 1 ELSE 2 * f[n - 1]
      BY <2>1, <2>3
    <2> QED
      BY <2>2, <2>4
  <1>6. POWER2 = [n \in 0 .. MAX_LEVELS |-> IF n = 0 THEN 1 ELSE 2 * POWER2[n - 1]]
    BY <1>5 DEF POWER2
  <1>7. \A n \in 0 .. MAX_LEVELS : POWER2[n] = IF n = 0 THEN 1 ELSE 2 * POWER2[n - 1]
    BY <1>6
  <1> QED
    BY <1>7

LEMMA PowerNat == \A n \in 0 .. MAX_LEVELS : POWER2[n] \in Nat \ {0}
  <1> DEFINE Bad == {n \in 0 .. MAX_LEVELS : POWER2[n] \notin Nat \ {0}}
  <1> SUFFICES ASSUME Bad # {} PROVE FALSE
    OBVIOUS
  <1>1. Bad \in SUBSET Nat
    OBVIOUS
  <1>2. PICK n \in Bad : \A j \in Bad : n <= j
    BY <1>1, LeastOf
  <1>3. n # 0
    BY PowerIs
  <1>4. n - 1 \in 0 .. MAX_LEVELS /\ n \in 1 .. MAX_LEVELS /\ n - 1 \notin Bad
    BY <1>2, <1>3
  <1>5. POWER2[n - 1] \in Nat \ {0} /\ POWER2[n] = 2 * POWER2[n - 1]
    BY <1>4, PowerIs
  <1> QED
    BY <1>5

LEMMA PowerSum ==
    ASSUME NEW m \in 0 .. MAX_LEVELS
    PROVE  \A n \in 0 .. MAX_LEVELS - m : POWER2[m + n] = POWER2[m] * POWER2[n]
  <1> DEFINE Bad == {n \in 0 .. MAX_LEVELS - m : POWER2[m + n] # POWER2[m] * POWER2[n]}
  <1> SUFFICES ASSUME Bad # {} PROVE FALSE
    OBVIOUS
  <1>1. Bad \in SUBSET Nat
    OBVIOUS
  <1>2. PICK n \in Bad : \A j \in Bad : n <= j
    BY <1>1, LeastOf
  <1>3. n \in 0 .. MAX_LEVELS - m /\ POWER2[m + n] # POWER2[m] * POWER2[n]
    OBVIOUS
  <1>4. n # 0
    <2>1. POWER2[m] \in Nat /\ POWER2[0] = 1 /\ m + 0 = m
      BY PowerNat, PowerIs
    <2> QED
      BY <1>3, <2>1
  <1>5. n - 1 \in 0 .. MAX_LEVELS - m /\ n \in 1 .. MAX_LEVELS /\ n - 1 \notin Bad
    BY <1>2, <1>4
  <1>6. POWER2[m + (n - 1)] = POWER2[m] * POWER2[n - 1]
    BY <1>5
  <1>7. m + n \in 1 .. MAX_LEVELS /\ (m + n) - 1 = m + (n - 1)
    BY <1>3, <1>4
  <1>8. POWER2[n] = 2 * POWER2[n - 1] /\ POWER2[m + n] = 2 * POWER2[m + (n - 1)]
    BY <1>5, <1>7, PowerIs
  <1>9. POWER2[m] \in Nat /\ POWER2[n - 1] \in Nat
    BY <1>5, PowerNat
  <1>10. ASSUME NEW p \in Nat, NEW q \in Nat PROVE 2 * (p * q) = p * (2 * q)
    OBVIOUS
  <1> QED
    BY <1>3, <1>6, <1>8, <1>9, <1>10

LEMMA WidthIs ==
    ASSUME NEW l \in Levels
    PROVE  /\ l \in Nat /\ l <= MAX_LEVELS - 1 /\ l + 1 \in 1 .. MAX_LEVELS
           /\ Width(l) \in Nat \ {0} /\ POWER2[l] \in Nat \ {0}
           /\ POWER2[l] * Width(l) = Width(0)
           /\ l > 0 => l - 1 \in Levels /\ Width(l - 1) = 2 * Width(l)
                       /\ POWER2[l] = 2 * POWER2[l - 1]
           /\ l = MAX_LEVELS - 1 => Width(l) = 1
           /\ l # MAX_LEVELS - 1 => l + 1 \in Levels
  <1>1. l \in 0 .. MAX_LEVELS - 1 /\ MAX_LEVELS - 1 - l \in 0 .. MAX_LEVELS
    BY DEF Levels
  <1>2. Width(l) \in Nat \ {0} /\ POWER2[l] \in Nat \ {0}
    BY <1>1, PowerNat DEF Width
  <1>3. POWER2[l] * Width(l) = Width(0)
    <2>1. MAX_LEVELS - 1 - l \in 0 .. MAX_LEVELS - l /\ l + (MAX_LEVELS - 1 - l) = MAX_LEVELS - 1 - 0
      BY <1>1
    <2> QED
      BY <1>1, <2>1, PowerSum DEF Width
  <1>4. ASSUME l > 0
        PROVE  l - 1 \in Levels /\ Width(l - 1) = 2 * Width(l) /\ POWER2[l] = 2 * POWER2[l - 1]
    <2>1. MAX_LEVELS - 1 - (l - 1) \in 1 .. MAX_LEVELS /\ l \in 1 .. MAX_LEVELS
      BY <1>1, <1>4
    <2>2. (MAX_LEVELS - 1 - (l - 1)) - 1 = MAX_LEVELS - 1 - l
      BY <1>1
    <2> QED
      BY <1>1, <1>4, <2>1, <2>2, PowerIs DEF Width, Levels
  <1>5. ASSUME l = MAX_LEVELS - 1 PROVE Width(l) = 1
    <2>1. MAX_LEVELS - 1 - l = 0
      BY <1>5
    <2> QED
      BY <2>1, PowerIs DEF Width
  <1> QED
    BY <1>1, <1>2, <1>3, <1>4, <1>5 DEF Levels

LEMMA TopWidth == 0 \in Levels /\ Width(0) \in Nat \ {0} /\ POWER2[0] = 1
  BY WidthIs, PowerIs DEF Levels

----------------------------------------------------------------------------
(***************************************************************************)
(* Division.                                                               *)
(***************************************************************************)
LEMMA DivIs ==
    ASSUME NEW a \in Nat, NEW w \in Nat \ {0}
    PROVE  /\ a \div w \in Nat /\ a % w \in 0 .. w - 1
           /\ a = (a \div w) * w + (a % w)
  OBVIOUS

LEMMA DivUnique ==
    ASSUME NEW a \in Nat, NEW w \in Nat \ {0}, NEW q \in Nat, NEW r \in 0 .. w - 1,
           a = q * w + r
    PROVE  a \div w = q /\ a % w = r
  <1>1. PICK p : p = a \div w
    OBVIOUS
  <1>2. PICK s : s = a % w
    OBVIOUS
  <1>3. p \in Nat /\ s \in 0 .. w - 1 /\ a = p * w + s
    BY <1>1, <1>2, DivIs
  <1>4. p = q
    <2>1. ASSUME NEW x \in Nat, NEW y \in Nat, x < y PROVE x * w + w <= y * w
      <3>1. PICK d \in Nat : y = (x + 1) + d
        <4>1. y - (x + 1) \in Nat /\ y = (x + 1) + (y - (x + 1))
          BY <2>1
        <4> QED
          BY <4>1
      <3>2. y * w = x * w + w + d * w /\ d * w >= 0
        BY <3>1
      <3> QED
        BY <3>2
    <2>2. p * w \in Nat /\ q * w \in Nat
      BY <1>3
    <2>3. ~(p < q)
      <3> SUFFICES ASSUME p < q PROVE FALSE
        OBVIOUS
      <3>1. p * w + w <= q * w
        BY <1>3, <2>1
      <3> QED
        BY <1>3, <2>2, <3>1
    <2>4. ~(q < p)
      <3> SUFFICES ASSUME q < p PROVE FALSE
        OBVIOUS
      <3>1. q * w + w <= p * w
        BY <1>3, <2>1
      <3> QED
        BY <1>3, <2>2, <3>1
    <2> QED
      BY <1>3, <2>3, <2>4
  <1>5. q * w \in Nat
    OBVIOUS
  <1>6. s = r
    BY <1>3, <1>4, <1>5
  <1> QED
    BY <1>1, <1>2, <1>4, <1>6

LEMMA DivHalf ==
    ASSUME NEW a \in Nat, NEW w \in Nat \ {0}
    PROVE  a \div (2 * w) = (a \div w) \div 2
  <1>1. PICK x : x = a \div w
    OBVIOUS
  <1>2. PICK r : r = a % w
    OBVIOUS
  <1>3. x \in Nat /\ r \in 0 .. w - 1 /\ a = x * w + r
    BY <1>1, <1>2, DivIs
  <1>4. PICK q : q = x \div 2
    OBVIOUS
  <1>5. PICK s : s = x % 2
    OBVIOUS
  <1>6. q \in Nat /\ s \in 0 .. 1 /\ x = q * 2 + s
    BY <1>3, <1>4, <1>5
  <1>7. x * w = q * (2 * w) + s * w
    BY <1>6
  <1>8. s * w \in {0, w}
    BY <1>6
  <1>9. s * w + r \in 0 .. 2 * w - 1 /\ 2 * w \in Nat \ {0}
    BY <1>3, <1>8
  <1>10. q * (2 * w) \in Nat /\ s * w \in Nat
    BY <1>6
  <1>11. a = q * (2 * w) + (s * w + r)
    BY <1>3, <1>7, <1>10
  <1>12. PICK v : v = 2 * w
    OBVIOUS
  <1>13. PICK u : u = s * w + r
    OBVIOUS
  <1>14. v \in Nat \ {0} /\ u \in 0 .. v - 1 /\ a = q * v + u
    BY <1>9, <1>11, <1>12, <1>13
  <1>15. a \div v = q
    BY <1>6, <1>14, DivUnique
  <1> QED
    BY <1>1, <1>4, <1>12, <1>15

----------------------------------------------------------------------------
(***************************************************************************)
(* The tree.                                                               *)
(***************************************************************************)
LEMMA AddrsAre == Addrs \in SUBSET Nat /\ RAM_START \in Addrs /\ 0 \in Addrs
  BY TopWidth DEF Addrs, RAM_START

\* The x-th block of level l.
At(l, x) == [level |-> l, addr |-> x * Width(l)]

LEMMA NthRange ==
    ASSUME NEW a \in Addrs, NEW l \in Levels
    PROVE  /\ Nth(a, l) \in 0 .. POWER2[l] - 1
           /\ a % Width(l) \in 0 .. Width(l) - 1
           /\ a = Nth(a, l) * Width(l) + (a % Width(l))
  <1>1. PICK w : w = Width(l)
    OBVIOUS
  <1>2. PICK p : p = POWER2[l]
    OBVIOUS
  <1>3. w \in Nat \ {0} /\ p \in Nat \ {0} /\ a \in Nat /\ a < p * w
    BY <1>1, <1>2, WidthIs, TopWidth DEF Addrs
  <1>4. PICK x : x = a \div w
    OBVIOUS
  <1>5. PICK r : r = a % w
    OBVIOUS
  <1>6. x \in Nat /\ r \in 0 .. w - 1 /\ a = x * w + r
    BY <1>3, <1>4, <1>5, DivIs
  <1>7. x < p
    <2> SUFFICES ASSUME ~(x < p) PROVE FALSE
      OBVIOUS
    <2>1. PICK d \in Nat : x = p + d
      <3>1. x - p \in Nat /\ x = p + (x - p)
        BY <1>3, <1>6
      <3> QED
        BY <3>1
    <2>2. x * w = p * w + d * w /\ d * w \in Nat /\ p * w \in Nat
      BY <1>3, <2>1
    <2> QED
      BY <1>3, <1>6, <2>2
  <1>8. x \in 0 .. p - 1
    BY <1>3, <1>6, <1>7
  <1>9. x = Nth(a, l) /\ r = a % Width(l)
    BY <1>1, <1>4, <1>5 DEF Nth
  <1>10. Nth(a, l) * Width(l) + (a % Width(l)) = x * w + r
    BY <1>1, <1>9
  <1>11. Nth(a, l) \in 0 .. POWER2[l] - 1
    BY <1>2, <1>8, <1>9
  <1>12. a % Width(l) \in 0 .. Width(l) - 1
    BY <1>1, <1>6, <1>9
  <1> QED
    BY <1>6, <1>10, <1>11, <1>12

\* A block is contained in one of twice its width, the parent.
LEMMA NthUp ==
    ASSUME NEW a \in Addrs, NEW l \in Levels, l > 0
    PROVE  Nth(a, l - 1) = Nth(a, l) \div 2
  <1>1. a \in Nat /\ Width(l) \in Nat \ {0} /\ Width(l - 1) = 2 * Width(l)
    BY WidthIs, AddrsAre
  <1> QED
    BY <1>1, DivHalf DEF Nth

LEMMA NthSame ==
    ASSUME NEW a \in Addrs, NEW c \in Addrs, NEW l \in Levels, Nth(a, l) = Nth(c, l)
    PROVE  \A m \in 0 .. l : Nth(a, m) = Nth(c, m)
  <1> DEFINE Bad == {i \in 0 .. l : Nth(a, l - i) # Nth(c, l - i)}
  <1>0. l \in Nat /\ l <= MAX_LEVELS - 1
    BY WidthIs
  <1>1. Bad = {}
    <2> SUFFICES ASSUME Bad # {} PROVE FALSE
      OBVIOUS
    <2>1. Bad \in SUBSET Nat
      OBVIOUS
    <2>2. PICK i \in Bad : \A j \in Bad : i <= j
      BY <2>1, LeastOf
    <2>3. i \in 0 .. l /\ Nth(a, l - i) # Nth(c, l - i)
      OBVIOUS
    <2>4. i # 0
      BY <1>0, <2>3
    <2>5. i - 1 \in 0 .. l /\ i - 1 \notin Bad
      BY <1>0, <2>2, <2>3, <2>4
    <2>6. Nth(a, l - (i - 1)) = Nth(c, l - (i - 1))
      BY <2>5
    <2>7. l - (i - 1) \in Levels /\ l - (i - 1) > 0 /\ (l - (i - 1)) - 1 = l - i
      BY <1>0, <2>3, <2>4 DEF Levels
    <2> QED
      BY <2>3, <2>6, <2>7, NthUp
  <1> SUFFICES ASSUME NEW m \in 0 .. l
               PROVE  Nth(a, m) = Nth(c, m)
    OBVIOUS
  <1>2. PICK i : i = l - m
    OBVIOUS
  <1>3. i \in 0 .. l /\ l - i = m
    BY <1>0, <1>2
  <1>4. Nth(a, l - i) = Nth(c, l - i)
    BY <1>1, <1>3
  <1> QED
    BY <1>3, <1>4

LEMMA AtBlock ==
    ASSUME NEW l \in Levels, NEW x \in 0 .. POWER2[l] - 1
    PROVE  /\ At(l, x) \in Block /\ x * Width(l) \in Addrs
           /\ Nth(x * Width(l), l) = x
  <1>1. PICK w : w = Width(l)
    OBVIOUS
  <1>2. PICK p : p = POWER2[l]
    OBVIOUS
  <1>3. w \in Nat \ {0} /\ p \in Nat \ {0} /\ x \in Nat /\ x < p /\ p * w = Width(0)
    BY <1>1, <1>2, WidthIs
  <1>4. x * w \in Nat /\ x * w < p * w
    <2>1. PICK d \in Nat : p = (x + 1) + d
      <3>1. p - (x + 1) \in Nat /\ p = (x + 1) + (p - (x + 1))
        BY <1>3
      <3> QED
        BY <3>1
    <2>2. p * w = x * w + w + d * w /\ d * w \in Nat /\ x * w \in Nat
      BY <1>3, <2>1
    <2> QED
      BY <1>3, <2>2
  <1>5. PICK a : a = x * w
    OBVIOUS
  <1>6. a \div w = x /\ a % w = 0
    <2>1. a \in Nat /\ 0 \in 0 .. w - 1 /\ a = x * w + 0
      BY <1>3, <1>4, <1>5
    <2> QED
      BY <1>3, <2>1, DivUnique
  <1>7. a \in Addrs
    BY <1>3, <1>4, <1>5, TopWidth DEF Addrs
  <1> QED
    BY <1>1, <1>5, <1>6, <1>7 DEF At, Block, Nth

LEMMA BlockAt ==
    ASSUME NEW b \in Block
    PROVE  /\ b.level \in Levels /\ b.addr \in Addrs
           /\ b.addr = Nth(b.addr, b.level) * Width(b.level)
           /\ b = At(b.level, Nth(b.addr, b.level))
           /\ b = [level |-> b.level, addr |-> b.addr]
  <1>1. b.level \in Levels /\ b.addr \in Addrs /\ b.addr % Width(b.level) = 0
    BY DEF Block
  <1>2. b = [level |-> b.level, addr |-> b.addr]
    BY DEF Block
  <1>3. PICK x : x = Nth(b.addr, b.level)
    OBVIOUS
  <1>4. b.addr = x * Width(b.level)
    <2>1. /\ x \in 0 .. POWER2[b.level] - 1 /\ POWER2[b.level] \in Nat /\ Width(b.level) \in Nat
          /\ b.addr = x * Width(b.level) + (b.addr % Width(b.level))
      BY <1>1, <1>3, NthRange, WidthIs
    <2>2. x * Width(b.level) \in Nat
      BY <2>1
    <2>3. PICK y : y = x * Width(b.level)
      OBVIOUS
    <2>4. b.addr % Width(b.level) = 0 /\ b.addr = y + 0 /\ y \in Nat
      BY <1>1, <2>1, <2>2, <2>3
    <2> QED
      BY <2>3, <2>4
  <1> QED
    BY <1>1, <1>2, <1>3, <1>4 DEF At

LEMMA BlockIs ==
    ASSUME NEW l \in Levels, NEW a \in Addrs
    PROVE  [level |-> l, addr |-> a] \in Block <=> a = Nth(a, l) * Width(l)
  <1>1. [level |-> l, addr |-> a] \in Block => a = Nth(a, l) * Width(l)
    BY BlockAt
  <1>2. a = Nth(a, l) * Width(l) => [level |-> l, addr |-> a] \in Block
    BY NthRange, AtBlock DEF At
  <1> QED
    BY <1>1, <1>2

\* Two blocks of one level are the same one, or have nothing in common.
LEMMA CellsAt ==
    ASSUME NEW b \in Block
    PROVE  /\ b.addr \in Cells(b) /\ Cells(b) \in SUBSET Addrs
           /\ \A a \in Addrs : a \in Cells(b) <=> Nth(a, b.level) = Nth(b.addr, b.level)
  <1>1. PICK l : l = b.level
    OBVIOUS
  <1>2. PICK w : w = Width(l)
    OBVIOUS
  <1>3. PICK x : x = Nth(b.addr, l)
    OBVIOUS
  <1>4. PICK p : p = POWER2[l]
    OBVIOUS
  <1>5. /\ w \in Nat \ {0} /\ l \in Levels /\ x \in Nat /\ x < p /\ p \in Nat
        /\ p * w = Width(0) /\ b.addr = x * w
    BY <1>1, <1>2, <1>3, <1>4, BlockAt, NthRange, WidthIs
  <1>6. Cells(b) = x * w .. x * w + w - 1
    BY <1>1, <1>2, <1>5 DEF Cells
  <1>7. x * w \in Nat /\ x * w + w <= p * w
    <2>1. PICK d \in Nat : p = (x + 1) + d
      <3>1. p - (x + 1) \in Nat /\ p = (x + 1) + (p - (x + 1))
        BY <1>5
      <3> QED
        BY <3>1
    <2>2. p * w = x * w + w + d * w /\ d * w \in Nat /\ x * w \in Nat
      BY <1>5, <2>1
    <2> QED
      BY <1>5, <2>2
  <1>8. b.addr \in Cells(b) /\ Cells(b) \in SUBSET Addrs
    BY <1>5, <1>6, <1>7, TopWidth DEF Addrs
  <1>9. ASSUME NEW a \in Addrs, a \in Cells(b)
        PROVE  Nth(a, l) = x
    <2>1. PICK r : r = a - x * w
      OBVIOUS
    <2>2. a \in Nat /\ r \in 0 .. w - 1 /\ a = x * w + r
      BY <1>5, <1>6, <1>7, <1>9, <2>1, AddrsAre
    <2> QED
      BY <1>2, <1>5, <2>2, DivUnique DEF Nth
  <1>10. ASSUME NEW a \in Addrs, Nth(a, l) = x
         PROVE  a \in Cells(b)
    <2>1. PICK r : r = a % w
      OBVIOUS
    <2>2. r \in 0 .. w - 1 /\ a = x * w + r
      <3>1. a % Width(l) \in 0 .. Width(l) - 1 /\ a = Nth(a, l) * Width(l) + (a % Width(l))
        BY <1>5, NthRange
      <3>2. Nth(a, l) * Width(l) + (a % Width(l)) = x * w + r
        BY <1>2, <1>10, <2>1
      <3>3. r \in 0 .. w - 1
        BY <1>2, <2>1, <3>1
      <3> QED
        BY <3>1, <3>2, <3>3
    <2> QED
      BY <1>5, <1>6, <1>7, <2>2
  <1> QED
    BY <1>1, <1>3, <1>8, <1>9, <1>10

LEMMA OverlapIs ==
    ASSUME NEW b \in Block, NEW c \in Block, b.level <= c.level
    PROVE  /\ Overlap(b, c) <=> Nth(c.addr, b.level) = Nth(b.addr, b.level)
           /\ Overlap(b, c) <=> Overlap(c, b)
           /\ Overlap(b, c) => Cells(c) \subseteq Cells(b)
  <1>1. b.level \in Levels /\ c.level \in Levels /\ b.addr \in Addrs /\ c.addr \in Addrs
    BY BlockAt
  <1>2. b.level \in 0 .. c.level
    BY <1>1 DEF Levels
  <1>3. ASSUME Nth(c.addr, b.level) = Nth(b.addr, b.level)
        PROVE  Cells(c) \subseteq Cells(b)
    <2> SUFFICES ASSUME NEW a \in Cells(c) PROVE a \in Cells(b)
      OBVIOUS
    <2>1. a \in Addrs /\ Nth(a, c.level) = Nth(c.addr, c.level)
      BY CellsAt
    <2>2. Nth(a, b.level) = Nth(c.addr, b.level)
      BY <1>1, <1>2, <2>1, NthSame
    <2> QED
      BY <1>3, <2>1, <2>2, CellsAt
  <1>4. ASSUME Overlap(b, c)
        PROVE  Nth(c.addr, b.level) = Nth(b.addr, b.level)
    <2>1. PICK a : a \in Cells(b) /\ a \in Cells(c)
      BY <1>4 DEF Overlap
    <2>2. a \in Addrs /\ Nth(a, c.level) = Nth(c.addr, c.level) /\ Nth(a, b.level) = Nth(b.addr, b.level)
      BY <2>1, CellsAt
    <2>3. Nth(a, b.level) = Nth(c.addr, b.level)
      BY <1>1, <1>2, <2>2, NthSame
    <2> QED
      BY <2>2, <2>3
  <1>5. Overlap(b, c) <=> Overlap(c, b)
    BY DEF Overlap
  <1>6. Cells(c) \subseteq Cells(b) => Overlap(b, c)
    BY CellsAt DEF Overlap
  <1> QED
    BY <1>3, <1>4, <1>5, <1>6

LEMMA PowerGrows ==
    ASSUME NEW m \in 0 .. MAX_LEVELS, NEW l \in 0 .. MAX_LEVELS, l < m
    PROVE  2 * POWER2[l] <= POWER2[m]
  <1>1. l + 1 \in 0 .. MAX_LEVELS /\ m - (l + 1) \in 0 .. MAX_LEVELS - (l + 1)
        /\ (l + 1) + (m - (l + 1)) = m /\ m - (l + 1) \in 0 .. MAX_LEVELS
    OBVIOUS
  <1>2. PICK p : p = POWER2[l + 1]
    OBVIOUS
  <1>3. PICK q : q = POWER2[m - (l + 1)]
    OBVIOUS
  <1>4. POWER2[m] = p * q
    BY <1>1, <1>2, <1>3, PowerSum
  <1>5. p \in Nat \ {0} /\ q \in Nat \ {0}
    BY <1>1, <1>2, <1>3, PowerNat
  <1>6. p <= p * q
    <2>1. PICK d \in Nat : q = 1 + d
      <3>1. q - 1 \in Nat /\ q = 1 + (q - 1)
        BY <1>5
      <3> QED
        BY <3>1
    <2>2. p * q = p + p * d /\ p * d \in Nat
      BY <1>5, <2>1
    <2> QED
      BY <1>5, <2>2
  <1>7. p = 2 * POWER2[l]
    <2>1. l + 1 \in 1 .. MAX_LEVELS /\ (l + 1) - 1 = l
      OBVIOUS
    <2> QED
      BY <1>2, <2>1, PowerIs
  <1> QED
    BY <1>4, <1>6, <1>7

\* Each node of the tree has a bit of its own.
LEMMA IndexIs ==
    ASSUME NEW l \in Levels, NEW x \in 0 .. POWER2[l] - 1
    PROVE  /\ Index(l, x) \in Nodes
           /\ \A m \in Levels : \A y \in 0 .. POWER2[m] - 1 :
                 Index(l, x) = Index(m, y) => l = m /\ x = y
  <1>1. l \in 0 .. MAX_LEVELS /\ MAX_LEVELS \in 0 .. MAX_LEVELS /\ l < MAX_LEVELS
    BY DEF Levels
  <1>2. Index(l, x) \in Nodes
    <2>1. 2 * POWER2[l] <= POWER2[MAX_LEVELS] /\ POWER2[l] \in Nat \ {0} /\ POWER2[MAX_LEVELS] \in Nat
      BY <1>1, PowerGrows, PowerNat
    <2> QED
      BY <2>1 DEF Index, Nodes
  <1>3. ASSUME NEW m \in Levels, NEW y \in 0 .. POWER2[m] - 1, Index(l, x) = Index(m, y)
        PROVE  l = m /\ x = y
    <2>1. m \in 0 .. MAX_LEVELS /\ POWER2[l] \in Nat \ {0} /\ POWER2[m] \in Nat \ {0}
      BY <1>1, PowerNat DEF Levels
    <2>2. POWER2[l] - 1 + x = POWER2[m] - 1 + y
      BY <1>3 DEF Index
    <2>3. ~(l < m)
      <3> SUFFICES ASSUME l < m PROVE FALSE
        OBVIOUS
      <3>1. 2 * POWER2[l] <= POWER2[m]
        BY <1>1, <2>1, PowerGrows
      <3> QED
        BY <2>1, <2>2, <3>1
    <2>4. ~(m < l)
      <3> SUFFICES ASSUME m < l PROVE FALSE
        OBVIOUS
      <3>1. 2 * POWER2[m] <= POWER2[l]
        BY <1>1, <2>1, PowerGrows
      <3> QED
        BY <2>1, <2>2, <3>1
    <2>5. l = m
      BY <1>1, <2>1, <2>3, <2>4
    <2> QED
      BY <2>1, <2>2, <2>5
  <1> QED
    BY <1>2, <1>3

LEMMA SiblingIs ==
    ASSUME NEW l \in Levels, l > 0, NEW x \in 0 .. POWER2[l] - 1
    PROVE  /\ Sibling(x) \in 0 .. POWER2[l] - 1 /\ Sibling(x) # x /\ Sibling(Sibling(x)) = x
           /\ x \div 2 \in 0 .. POWER2[l - 1] - 1 /\ Sibling(x) \div 2 = x \div 2
           /\ \A y \in 0 .. POWER2[l] - 1 : y \div 2 = x \div 2 => y \in {x, Sibling(x)}
  <1>1. PICK p : p = POWER2[l - 1]
    OBVIOUS
  <1>2. POWER2[l] = 2 * p /\ p \in Nat \ {0} /\ l - 1 \in Levels
    BY <1>1, WidthIs
  <1>3. x \in 0 .. 2 * p - 1
    BY <1>2
  <1>4. /\ Sibling(x) \in 0 .. 2 * p - 1 /\ Sibling(x) # x /\ Sibling(Sibling(x)) = x
        /\ x \div 2 \in 0 .. p - 1 /\ Sibling(x) \div 2 = x \div 2
    BY <1>2, <1>3 DEF Sibling
  <1>5. ASSUME NEW y \in 0 .. 2 * p - 1, y \div 2 = x \div 2
        PROVE  y \in {x, Sibling(x)}
    BY <1>2, <1>3, <1>5 DEF Sibling
  <1> QED
    BY <1>1, <1>2, <1>4, <1>5

\* The addresses the code computes from that of a block: its parent's, its buddy's.
LEMMA AddressesAre ==
    ASSUME NEW l \in Levels, l > 0, NEW x \in 0 .. POWER2[l] - 1
    PROVE  /\ get_address(x * Width(l), x, l) = (x \div 2) * Width(l - 1)
           /\ get_buddy_address(x * Width(l), x, l) = Sibling(x) * Width(l)
  <1>1. PICK w : w = Width(l)
    OBVIOUS
  <1>2. w \in Nat \ {0} /\ Width(l - 1) = 2 * w /\ x \in Nat
    BY <1>1, WidthIs
  <1>3. PICK q : q = x \div 2
    OBVIOUS
  <1>4. PICK r : r = x % 2
    OBVIOUS
  <1>5. q \in Nat /\ r \in {0, 1} /\ x = 2 * q + r
    BY <1>2, <1>3, <1>4
  <1>6. x * w - r * w = q * (2 * w)
    BY <1>2, <1>5
  <1>7. get_address(x * w, x, l) = q * (2 * w)
    BY <1>1, <1>4, <1>6 DEF get_address
  <1>8. CASE r = 0
    <2>1. Sibling(x) = x + 1 /\ get_buddy_address(x * w, x, l) = x * w + w
      BY <1>1, <1>4, <1>8 DEF Sibling, get_buddy_address
    <2>2. (x + 1) * w = x * w + w
      BY <1>2
    <2> QED
      BY <1>1, <1>2, <1>3, <1>7, <2>1, <2>2
  <1>9. CASE r = 1
    <2>1. Sibling(x) = x - 1 /\ get_buddy_address(x * w, x, l) = x * w - w
      BY <1>1, <1>4, <1>9 DEF Sibling, get_buddy_address
    <2>2. (x - 1) * w = x * w - w
      BY <1>2
    <2> QED
      BY <1>1, <1>2, <1>3, <1>7, <2>1, <2>2
  <1> QED
    BY <1>5, <1>8, <1>9

\* A block is made of its two halves.
LEMMA HalvesAre ==
    ASSUME NEW l \in Levels, l > 0, NEW x \in 0 .. POWER2[l] - 1
    PROVE  /\ At(l, x) \in Block /\ At(l, Sibling(x)) \in Block /\ At(l - 1, x \div 2) \in Block
           /\ l - 1 \in Levels
           /\ At(l, x) # At(l, Sibling(x)) /\ ~Overlap(At(l, x), At(l, Sibling(x)))
           /\ Cells(At(l - 1, x \div 2)) = Cells(At(l, x)) \cup Cells(At(l, Sibling(x)))
  <1>1. PICK y : y = Sibling(x)
    OBVIOUS
  <1>2. PICK q : q = x \div 2
    OBVIOUS
  <1>3. /\ y \in 0 .. POWER2[l] - 1 /\ y # x /\ q \in 0 .. POWER2[l - 1] - 1
        /\ y \div 2 = q /\ l - 1 \in Levels
        /\ \A z \in 0 .. POWER2[l] - 1 : z \div 2 = q => z \in {x, y}
    BY <1>1, <1>2, SiblingIs, WidthIs
  <1>4. /\ At(l, x) \in Block /\ At(l, y) \in Block /\ At(l - 1, q) \in Block
        /\ Nth(x * Width(l), l) = x /\ Nth(y * Width(l), l) = y
        /\ Nth(q * Width(l - 1), l - 1) = q
    BY <1>3, AtBlock
  <1>5. /\ \A a \in Addrs : a \in Cells(At(l, x)) <=> Nth(a, l) = x
        /\ \A a \in Addrs : a \in Cells(At(l, y)) <=> Nth(a, l) = y
        /\ \A a \in Addrs : a \in Cells(At(l - 1, q)) <=> Nth(a, l - 1) = q
    <2>1. /\ At(l, x).level = l /\ At(l, x).addr = x * Width(l)
          /\ At(l, y).level = l /\ At(l, y).addr = y * Width(l)
          /\ At(l - 1, q).level = l - 1 /\ At(l - 1, q).addr = q * Width(l - 1)
      BY DEF At
    <2> QED
      BY <1>4, <2>1, CellsAt
  <1>6. /\ Cells(At(l, x)) \in SUBSET Addrs /\ Cells(At(l, y)) \in SUBSET Addrs
        /\ Cells(At(l - 1, q)) \in SUBSET Addrs
    BY <1>4, CellsAt
  <1>7. \A a \in Addrs : Nth(a, l - 1) = q <=> Nth(a, l) \in {x, y}
    BY <1>2, <1>3, NthUp, NthRange
  <1>8. Cells(At(l - 1, q)) = Cells(At(l, x)) \cup Cells(At(l, y))
    BY <1>5, <1>6, <1>7
  <1>9. ~Overlap(At(l, x), At(l, y))
    BY <1>3, <1>5, <1>6 DEF Overlap
  <1>10. At(l, x) # At(l, y)
    BY <1>4, <1>9, CellsAt DEF Overlap
  <1> QED
    BY <1>1, <1>2, <1>3, <1>4, <1>8, <1>9, <1>10

----------------------------------------------------------------------------
(***************************************************************************)
(* The level a size calls for.                                             *)
(***************************************************************************)
LEMMA LOG2Is ==
    ASSUME NEW size \in Nat, NEW m \in 0 .. MAX_LEVELS,
           size <= MIN_BLK_SIZE * POWER2[m],
           \A n \in 0 .. m - 1 : ~(size <= MIN_BLK_SIZE * POWER2[n])
    PROVE  LOG2(size) = m
  <1>1. PICK power : power = CHOOSE g : g = [n \in 0 .. MAX_LEVELS |->
                                IF MIN_BLK_SIZE * POWER2[n] < size THEN g[n + 1] ELSE n]
    OBVIOUS
  <1>2. LOG2(size) = power[0]
    BY <1>1 DEF LOG2
  <1>3. \A n \in 0 .. MAX_LEVELS : MIN_BLK_SIZE * POWER2[n] \in Nat
    BY PowerNat, MinBlkAssumption
  <1>4. \A n \in 0 .. m - 1 : MIN_BLK_SIZE * POWER2[n] < size
    BY <1>3
  <1>5. \A n \in m .. MAX_LEVELS : ~(MIN_BLK_SIZE * POWER2[n] < size)
    <2> SUFFICES ASSUME NEW n \in m .. MAX_LEVELS, n > m
                 PROVE  size <= MIN_BLK_SIZE * POWER2[n]
      BY <1>3
    <2>1. PICK p : p = POWER2[m]
      OBVIOUS
    <2>2. PICK q : q = POWER2[n]
      OBVIOUS
    <2>3. p \in Nat /\ q \in Nat /\ 2 * p <= q
      BY <2>1, <2>2, PowerNat, PowerGrows
    <2>4. PICK d \in Nat : q = p + d
      <3>1. q - p \in Nat /\ q = p + (q - p)
        BY <2>3
      <3> QED
        BY <3>1
    <2>5. MIN_BLK_SIZE * q = MIN_BLK_SIZE * p + MIN_BLK_SIZE * d
          /\ MIN_BLK_SIZE * d \in Nat /\ MIN_BLK_SIZE * p \in Nat
      BY <2>3, <2>4, MinBlkAssumption
    <2> QED
      BY <2>1, <2>2, <2>5
  <1>6. PICK f : f = [n \in 0 .. MAX_LEVELS |-> IF n <= m THEN m ELSE n]
    OBVIOUS
  <1>7. \A n \in 0 .. MAX_LEVELS :
            f[n] = IF MIN_BLK_SIZE * POWER2[n] < size THEN f[n + 1] ELSE n
    <2> SUFFICES ASSUME NEW n \in 0 .. MAX_LEVELS
                 PROVE  f[n] = IF MIN_BLK_SIZE * POWER2[n] < size THEN f[n + 1] ELSE n
      OBVIOUS
    <2>1. CASE n < m
      <3>1. n \in 0 .. m - 1 /\ n + 1 \in 0 .. MAX_LEVELS /\ n + 1 <= m
        BY <2>1
      <3> QED
        BY <1>4, <1>6, <2>1, <3>1
    <2>2. CASE n >= m
      <3>1. n \in m .. MAX_LEVELS
        BY <2>2
      <3> QED
        BY <1>5, <1>6, <2>2, <3>1
    <2> QED
      BY <2>1, <2>2
  <1>8. f = [n \in 0 .. MAX_LEVELS |->
                IF MIN_BLK_SIZE * POWER2[n] < size THEN f[n + 1] ELSE n]
    BY <1>6, <1>7
  <1>9. power = [n \in 0 .. MAX_LEVELS |->
                    IF MIN_BLK_SIZE * POWER2[n] < size THEN power[n + 1] ELSE n]
    BY <1>1, <1>8
  <1>10. \A n \in 0 .. MAX_LEVELS :
             power[n] = IF MIN_BLK_SIZE * POWER2[n] < size THEN power[n + 1] ELSE n
    BY <1>9
  <1> DEFINE Bad == {i \in 0 .. m : power[m - i] # m}
  <1>11. Bad = {}
    <2> SUFFICES ASSUME Bad # {} PROVE FALSE
      OBVIOUS
    <2>1. Bad \in SUBSET Nat
      OBVIOUS
    <2>2. PICK i \in Bad : \A j \in Bad : i <= j
      BY <2>1, LeastOf
    <2>3. i \in 0 .. m /\ power[m - i] # m
      OBVIOUS
    <2>4. i # 0
      <3> SUFFICES ASSUME i = 0 PROVE FALSE
        OBVIOUS
      <3>1. m - i = m /\ m \in m .. MAX_LEVELS
        BY <2>3
      <3> QED
        BY <1>5, <1>10, <2>3, <3>1
    <2>5. i - 1 \in 0 .. m /\ i - 1 \notin Bad
      BY <2>2, <2>3, <2>4
    <2>6. power[m - (i - 1)] = m
      BY <2>5
    <2>7. m - i \in 0 .. m - 1 /\ (m - i) + 1 = m - (i - 1) /\ m - i \in 0 .. MAX_LEVELS
      BY <2>3, <2>4
    <2>8. power[m - i] = power[(m - i) + 1]
      BY <1>4, <1>10, <2>7
    <2> QED
      BY <2>3, <2>6, <2>7, <2>8
  <1>12. power[0] = m
    <2>1. m \in 0 .. m /\ m - m = 0
      OBVIOUS
    <2>2. power[m - m] = m
      BY <1>11, <2>1
    <2> QED
      BY <2>1, <2>2
  <1> QED
    BY <1>2, <1>12

\* A block of that level holds the size, and none of a deeper level does.
LEMMA LevelForIs ==
    ASSUME NEW size \in Nat, size <= RAM_SIZE
    PROVE  /\ LevelFor(size) \in Levels /\ size <= Bytes(LevelFor(size))
           /\ \A l \in Levels : size <= Bytes(l) => l <= LevelFor(size)
  <1>1. \A l \in Levels : Bytes(l) = MIN_BLK_SIZE * POWER2[MAX_LEVELS - 1 - l]
    BY DEF Bytes, Width
  <1> DEFINE S == {n \in 0 .. MAX_LEVELS - 1 : size <= MIN_BLK_SIZE * POWER2[n]}
  <1>2. MAX_LEVELS - 1 \in S
    <2>1. 0 \in Levels /\ (MAX_LEVELS - 1) - 0 = MAX_LEVELS - 1
      BY TopWidth
    <2>2. RAM_SIZE = MIN_BLK_SIZE * POWER2[MAX_LEVELS - 1]
      BY <1>1, <2>1 DEF RAM_SIZE
    <2> QED
      BY <2>2
  <1>3. S \in SUBSET Nat
    OBVIOUS
  <1>4. PICK m \in S : \A n \in S : m <= n
    BY <1>2, <1>3, LeastOf
  <1>5. m \in 0 .. MAX_LEVELS - 1 /\ size <= MIN_BLK_SIZE * POWER2[m]
    OBVIOUS
  <1>6. \A n \in 0 .. m - 1 : ~(size <= MIN_BLK_SIZE * POWER2[n])
    <2> SUFFICES ASSUME NEW n \in 0 .. m - 1, size <= MIN_BLK_SIZE * POWER2[n] PROVE FALSE
      OBVIOUS
    <2>1. n \in S
      BY <1>5
    <2> QED
      BY <1>4, <1>5, <2>1
  <1>7. LOG2(size) = m
    <2>1. m \in 0 .. MAX_LEVELS
      BY <1>5
    <2> QED
      BY <1>5, <1>6, <2>1, LOG2Is
  <1>8. PICK l : l = MAX_LEVELS - 1 - m
    OBVIOUS
  <1>9. LevelFor(size) = l /\ l \in Levels /\ MAX_LEVELS - 1 - l = m
    BY <1>5, <1>7, <1>8 DEF LevelFor, Levels
  <1>10. size <= Bytes(l)
    BY <1>1, <1>5, <1>9
  <1>11. ASSUME NEW i \in Levels, size <= Bytes(i)
         PROVE  i <= l
    <2>1. MAX_LEVELS - 1 - i \in 0 .. MAX_LEVELS - 1
      BY DEF Levels
    <2>2. MAX_LEVELS - 1 - i \in S
      BY <1>1, <1>11, <2>1
    <2>3. m <= MAX_LEVELS - 1 - i
      BY <1>4, <2>2
    <2> QED
      BY <1>5, <1>9, <2>1, <2>3 DEF Levels
  <1> QED
    BY <1>9, <1>10, <1>11

----------------------------------------------------------------------------
(***************************************************************************)
(* Free lists.                                                             *)
(***************************************************************************)
USE CodesAssumption, JunkAssumption

\* p is a path through distinct addresses.
Path(p) == p \in Seq(Addrs) /\ \A i, j \in 1 .. Len(p) : p[i] = p[j] => i = j

\* From the head h on, the DNODEs of nd make the doubly linked list p.
Chain(h, nd, p) ==
    /\ Path(p)
    /\ h = IF Len(p) = 0 THEN NULL ELSE p[1]
    /\ \A i \in 1 .. Len(p) : /\ nd[p[i]].prev = IF i = 1 THEN NULL ELSE p[i - 1]
                              /\ nd[p[i]].next = IF i = Len(p) THEN NULL ELSE p[i + 1]

LEMMA AddrIs == \A a \in Addrs : a \in Nat /\ a # NULL /\ a # JUNK
  BY AddrsAre

LEMMA PathLength ==
    ASSUME NEW p, Path(p)
    PROVE  /\ Len(p) \in Nat /\ Len(p) <= Width(0) /\ DOMAIN p = 1 .. Len(p)
           /\ \A i \in 1 .. Len(p) : p[i] \in Addrs
  <1>1. Len(p) \in Nat /\ p \in [1 .. Len(p) -> Addrs] /\ DOMAIN p = 1 .. Len(p)
    BY LenProperties DEF Path
  <1>2. IsFiniteSet(Addrs) /\ Cardinality(Addrs) = Width(0)
    <2>1. Addrs = 0 .. Width(0) - 1
      BY TopWidth DEF Addrs
    <2>2. Width(0) \in Nat /\ 0 \in Int /\ Width(0) - 1 \in Int
      BY TopWidth
    <2>3. IsFiniteSet(0 .. Width(0) - 1) /\ Cardinality(0 .. Width(0) - 1) = Width(0)
      BY <2>2, FS_Interval
    <2> QED
      BY <2>1, <2>3
  <1>3. Range(p) \subseteq Addrs
    BY <1>1 DEF Range
  <1>4. IsFiniteSet(Range(p)) /\ Cardinality(Range(p)) <= Width(0)
    BY <1>2, <1>3, FS_Subset
  <1>5. IsFiniteSet(1 .. Len(p)) /\ Cardinality(1 .. Len(p)) = Len(p)
    <2>1. 1 \in Int /\ Len(p) \in Int
      BY <1>1
    <2> QED
      BY <1>1, <2>1, FS_Interval
  <1>6. p \in Bijection(1 .. Len(p), Range(p))
    BY <1>1 DEF Path, Range, Bijection, Injection, Surjection, IsInjective
  <1>7. Cardinality(Range(p)) = Len(p)
    BY <1>4, <1>5, <1>6, FS_Bijection DEF ExistsBijection
  <1> QED
    BY <1>1, <1>4, <1>7

\* The first n addresses of a path, and what follows an initial part in the memory k.
Upto(p, n) == [i \in 1 .. n |-> p[i]]
Following(k, l, path) == IF path = <<>> THEN k.head[l]
                         ELSE IF path[Len(path)] = JUNK THEN NULL
                         ELSE k.node[path[Len(path)]].next

LEMMA UptoIs ==
    ASSUME NEW p, Path(p), NEW n \in 0 .. Len(p)
    PROVE  /\ Upto(p, n) \in Seq(Addrs) /\ Len(Upto(p, n)) = n
           /\ \A i \in 1 .. n : Upto(p, n)[i] = p[i]
           /\ Upto(p, 0) = <<>> /\ Upto(p, Len(p)) = p
           /\ n < Len(p) => Append(Upto(p, n), p[n + 1]) = Upto(p, n + 1)
  <1>1. Len(p) \in Nat /\ DOMAIN p = 1 .. Len(p) /\ \A i \in 1 .. Len(p) : p[i] \in Addrs
    BY PathLength
  <1>2. \A m \in 0 .. Len(p) :
            /\ Upto(p, m) \in Seq(Addrs) /\ Len(Upto(p, m)) = m
            /\ \A i \in 1 .. m : Upto(p, m)[i] = p[i]
    <2> SUFFICES ASSUME NEW m \in 0 .. Len(p)
                 PROVE  /\ Upto(p, m) \in Seq(Addrs) /\ Len(Upto(p, m)) = m
                        /\ \A i \in 1 .. m : Upto(p, m)[i] = p[i]
      OBVIOUS
    <2>1. PICK g : g = Upto(p, m)
      OBVIOUS
    <2>2. g = [i \in 1 .. m |-> p[i]] /\ m \in Nat
      BY <1>1, <2>1 DEF Upto
    <2>3. g \in [1 .. m -> Addrs]
      BY <1>1, <2>2
    <2>4. g \in Seq(Addrs)
      BY <2>2, <2>3
    <2>5. Len(g) = m
      BY <2>2, <2>4, LenProperties
    <2> QED
      BY <2>1, <2>2, <2>4, <2>5
  <1>3. Upto(p, 0) = <<>>
    BY <1>1, <1>2, EmptySeq
  <1>4. Upto(p, Len(p)) = p
    <2>1. PICK g : g = Upto(p, Len(p))
      OBVIOUS
    <2>2. g \in Seq(Addrs) /\ Len(g) = Len(p) /\ \A i \in 1 .. Len(g) : g[i] = p[i]
      BY <1>1, <1>2, <2>1
    <2>3. p \in Seq(Addrs)
      BY DEF Path
    <2>4. g = p
      BY <2>2, <2>3, SeqEqual
    <2> QED
      BY <2>1, <2>4
  <1>5. ASSUME n < Len(p)
        PROVE  Append(Upto(p, n), p[n + 1]) = Upto(p, n + 1)
    <2>1. PICK f : f = Upto(p, n)
      OBVIOUS
    <2>2. PICK g : g = Upto(p, n + 1)
      OBVIOUS
    <2>3. PICK a : a = Append(f, p[n + 1])
      OBVIOUS
    <2>4. n + 1 \in 0 .. Len(p) /\ n + 1 \in 1 .. Len(p) /\ p[n + 1] \in Addrs
      BY <1>1, <1>5
    <2>5. f \in Seq(Addrs) /\ Len(f) = n /\ \A i \in 1 .. n : f[i] = p[i]
      BY <1>2, <2>1
    <2>6. g \in Seq(Addrs) /\ Len(g) = n + 1 /\ \A i \in 1 .. n + 1 : g[i] = p[i]
      BY <1>2, <2>2, <2>4
    <2>7. /\ a \in Seq(Addrs) /\ Len(a) = n + 1 /\ a[n + 1] = p[n + 1]
          /\ \A i \in 1 .. n : a[i] = f[i]
      BY <2>3, <2>4, <2>5, AppendProperties
    <2>8. \A i \in 1 .. Len(a) : a[i] = g[i]
      BY <2>5, <2>6, <2>7
    <2>9. a = g
      BY <2>6, <2>7, <2>8, SeqEqual
    <2> QED
      BY <2>1, <2>2, <2>3, <2>9
  <1> QED
    BY <1>2, <1>3, <1>4, <1>5

\* The walk of the code finds the list.
LEMMA FreeListIs ==
    ASSUME NEW k, NEW l \in Levels, NEW p, Chain(k.head[l], k.node, p)
    PROVE  FreeList(k, l) = p
  <1>1. PICK N : N = Width(0) + 1
    OBVIOUS
  <1>2. PICK walk : walk = CHOOSE g : g = [n \in 0 .. N |->
                      IF n = 0 THEN <<>>
                      ELSE IF Following(k, l, g[n - 1]) = NULL THEN g[n - 1]
                      ELSE Append(g[n - 1], Following(k, l, g[n - 1]))]
    OBVIOUS
  <1>3. FreeList(k, l) = walk[N]
    BY <1>1, <1>2 DEF FreeList, Following
  <1>4. Path(p) /\ Len(p) \in Nat /\ Len(p) <= N /\ N \in Nat
        /\ \A i \in 1 .. Len(p) : p[i] \in Addrs /\ p[i] # JUNK
    BY <1>1, PathLength, AddrIs, TopWidth DEF Chain
  <1>5. \A n \in 0 .. Len(p) :
            Following(k, l, Upto(p, n)) = IF n = Len(p) THEN NULL ELSE p[n + 1]
    <2> SUFFICES ASSUME NEW n \in 0 .. Len(p)
                 PROVE  Following(k, l, Upto(p, n)) = IF n = Len(p) THEN NULL ELSE p[n + 1]
      OBVIOUS
    <2>1. CASE n = 0
      <3>1. Upto(p, n) = <<>>
        BY <1>4, <2>1, UptoIs
      <3> QED
        BY <2>1, <3>1 DEF Following, Chain
    <2>2. CASE n # 0
      <3>1. PICK g : g = Upto(p, n)
        OBVIOUS
      <3>2. g \in Seq(Addrs) /\ Len(g) = n /\ g[n] = p[n] /\ n \in 1 .. Len(p)
        BY <1>4, <2>2, <3>1, UptoIs
      <3>3. g # <<>>
        BY <2>2, <3>2, EmptySeq
      <3>4. Following(k, l, g) = k.node[p[n]].next
        BY <1>4, <3>2, <3>3 DEF Following
      <3> QED
        BY <3>1, <3>2, <3>4 DEF Chain
    <2> QED
      BY <2>1, <2>2
  <1>6. PICK f : f = [n \in 0 .. N |-> IF n <= Len(p) THEN Upto(p, n) ELSE p]
    OBVIOUS
  <1>7. ASSUME NEW n \in 0 .. N
        PROVE  f[n] = IF n = 0 THEN <<>>
                      ELSE IF Following(k, l, f[n - 1]) = NULL THEN f[n - 1]
                      ELSE Append(f[n - 1], Following(k, l, f[n - 1]))
    <2>1. CASE n = 0
      BY <1>4, <1>6, <2>1, UptoIs
    <2>2. CASE n # 0 /\ n - 1 < Len(p)
      <3>1. n - 1 \in 0 .. Len(p) /\ n - 1 \in 0 .. N /\ n <= Len(p) /\ n - 1 # Len(p)
            /\ (n - 1) + 1 = n /\ n \in 1 .. Len(p)
        BY <1>4, <2>2
      <3>2. f[n - 1] = Upto(p, n - 1) /\ f[n] = Upto(p, n)
        BY <1>6, <3>1
      <3>3. Following(k, l, f[n - 1]) = p[n] /\ p[n] # NULL
        BY <1>4, <1>5, <3>1, <3>2, AddrIs
      <3>4. Append(Upto(p, n - 1), p[n]) = Upto(p, n)
        BY <1>4, <2>2, <3>1, UptoIs
      <3> QED
        BY <2>2, <3>2, <3>3, <3>4
    <2>3. CASE n # 0 /\ ~(n - 1 < Len(p))
      <3>1. n - 1 \in 0 .. N /\ Len(p) \in 0 .. Len(p) /\ ~(n <= Len(p)) /\ n - 1 >= Len(p)
        BY <1>4, <2>3
      <3>2. Upto(p, Len(p)) = p
        BY <1>4, <3>1, UptoIs
      <3>3. f[n - 1] = p /\ f[n] = p
        BY <1>6, <3>1, <3>2
      <3>4. Following(k, l, p) = NULL
        BY <1>5, <3>1, <3>2
      <3> QED
        BY <2>3, <3>3, <3>4
    <2> QED
      BY <2>1, <2>2, <2>3
  <1>8. f = [n \in 0 .. N |->
                      IF n = 0 THEN <<>>
                      ELSE IF Following(k, l, f[n - 1]) = NULL THEN f[n - 1]
                      ELSE Append(f[n - 1], Following(k, l, f[n - 1]))]
    BY <1>6, <1>7
  <1>9. walk = [n \in 0 .. N |->
                      IF n = 0 THEN <<>>
                      ELSE IF Following(k, l, walk[n - 1]) = NULL THEN walk[n - 1]
                      ELSE Append(walk[n - 1], Following(k, l, walk[n - 1]))]
    BY <1>2, <1>8
  <1>10. \A n \in 0 .. N : walk[n] = IF n = 0 THEN <<>>
                      ELSE IF Following(k, l, walk[n - 1]) = NULL THEN walk[n - 1]
                      ELSE Append(walk[n - 1], Following(k, l, walk[n - 1]))
    BY <1>9
  <1> DEFINE Bad == {n \in 0 .. N : walk[n] # f[n]}
  <1>11. Bad = {}
    <2> SUFFICES ASSUME Bad # {} PROVE FALSE
      OBVIOUS
    <2>1. Bad \in SUBSET Nat
      OBVIOUS
    <2>2. PICK n \in Bad : \A j \in Bad : n <= j
      BY <2>1, LeastOf
    <2>3. n \in 0 .. N /\ walk[n] # f[n]
      OBVIOUS
    <2>4. n # 0
      BY <1>7, <1>10, <2>3
    <2>5. n - 1 \in 0 .. N /\ n - 1 \notin Bad
      BY <1>4, <2>2, <2>3, <2>4
    <2>6. walk[n - 1] = f[n - 1]
      BY <2>5
    <2> QED
      BY <1>7, <1>10, <2>3, <2>4, <2>6
  <1>12. walk[N] = f[N]
    <2>1. N \in 0 .. N
      BY <1>4
    <2> QED
      BY <1>11, <2>1
  <1>13. f[N] = p
    <2>1. N \in 0 .. N /\ Len(p) \in 0 .. Len(p)
      BY <1>4
    <2>2. Upto(p, Len(p)) = p
      BY <1>4, <2>1, UptoIs
    <2> QED
      BY <1>4, <1>6, <2>1, <2>2
  <1> QED
    BY <1>3, <1>12, <1>13

\* A path without its j-th address, and with an address before it.
Drop(p, j)  == [i \in 1 .. Len(p) - 1 |-> IF i < j THEN p[i] ELSE p[i + 1]]
Front(b, p) == [i \in 1 .. Len(p) + 1 |-> IF i = 1 THEN b ELSE p[i - 1]]

LEMMA RangeIs ==
    ASSUME NEW p, Path(p)
    PROVE  /\ \A a : a \in Range(p) <=> \E i \in 1 .. Len(p) : p[i] = a
           /\ Range(p) \in SUBSET Addrs
  BY PathLength DEF Range

LEMMA DropIs ==
    ASSUME NEW p, Path(p), NEW j \in 1 .. Len(p)
    PROVE  /\ Path(Drop(p, j)) /\ Len(Drop(p, j)) = Len(p) - 1
           /\ \A i \in 1 .. Len(p) - 1 : Drop(p, j)[i] = IF i < j THEN p[i] ELSE p[i + 1]
           /\ Range(Drop(p, j)) = Range(p) \ {p[j]}
  <1>1. PICK n : n = Len(p)
    OBVIOUS
  <1>2. n \in Nat /\ j \in 1 .. n /\ \A i \in 1 .. n : p[i] \in Addrs
    BY <1>1, PathLength
  <1>3. \A i, m \in 1 .. n : p[i] = p[m] => i = m
    BY <1>1 DEF Path
  <1>4. PICK g : g = Drop(p, j)
    OBVIOUS
  <1>5. g = [i \in 1 .. n - 1 |-> IF i < j THEN p[i] ELSE p[i + 1]]
    BY <1>1, <1>4 DEF Drop
  <1>6. n - 1 \in Nat /\ g \in [1 .. n - 1 -> Addrs]
    BY <1>2, <1>5
  <1>7. g \in Seq(Addrs) /\ Len(g) = n - 1
    <2>1. g \in Seq(Addrs)
      BY <1>6
    <2> QED
      BY <1>6, <2>1, LenProperties
  <1>8. \A i, m \in 1 .. n - 1 : g[i] = g[m] => i = m
    BY <1>2, <1>3, <1>5
  <1>9. Path(g)
    BY <1>7, <1>8 DEF Path
  <1>10. ASSUME NEW a
         PROVE  a \in Range(g) <=> a \in Range(p) \ {p[j]}
    <2>1. a \in Range(g) <=> \E i \in 1 .. n - 1 : g[i] = a
      BY <1>7, <1>9, RangeIs
    <2>2. a \in Range(p) <=> \E i \in 1 .. n : p[i] = a
      BY <1>1, RangeIs
    <2>3. ASSUME NEW i \in 1 .. n - 1, g[i] = a
          PROVE  a \in Range(p) \ {p[j]}
      <3>1. CASE i < j
        <4>1. i \in 1 .. n /\ p[i] = a /\ i # j
          BY <1>2, <1>5, <2>3, <3>1
        <4> QED
          BY <1>2, <1>3, <2>2, <4>1
      <3>2. CASE ~(i < j)
        <4>1. i + 1 \in 1 .. n /\ p[i + 1] = a /\ i + 1 # j
          BY <1>2, <1>5, <2>3, <3>2
        <4> QED
          BY <1>2, <1>3, <2>2, <4>1
      <3> QED
        BY <3>1, <3>2
    <2>4. ASSUME NEW i \in 1 .. n, p[i] = a, i # j
          PROVE  a \in Range(g)
      <3>1. CASE i < j
        <4>1. i \in 1 .. n - 1 /\ g[i] = a
          BY <1>2, <1>5, <2>4, <3>1
        <4> QED
          BY <2>1, <4>1
      <3>2. CASE ~(i < j)
        <4>1. i - 1 \in 1 .. n - 1 /\ ~(i - 1 < j) /\ (i - 1) + 1 = i
          BY <1>2, <2>4, <3>2
        <4>2. g[i - 1] = a
          BY <1>5, <2>4, <4>1
        <4> QED
          BY <2>1, <4>1, <4>2
      <3> QED
        BY <3>1, <3>2
    <2> QED
      BY <2>1, <2>2, <2>3, <2>4
  <1> QED
    BY <1>1, <1>4, <1>5, <1>7, <1>9, <1>10

LEMMA FrontIs ==
    ASSUME NEW p, Path(p), NEW b \in Addrs, b \notin Range(p)
    PROVE  /\ Path(Front(b, p)) /\ Len(Front(b, p)) = Len(p) + 1
           /\ \A i \in 1 .. Len(p) + 1 : Front(b, p)[i] = IF i = 1 THEN b ELSE p[i - 1]
           /\ Range(Front(b, p)) = Range(p) \cup {b}
  <1>1. PICK n : n = Len(p)
    OBVIOUS
  <1>2. n \in Nat /\ \A i \in 1 .. n : p[i] \in Addrs /\ p[i] # b
    BY <1>1, PathLength, RangeIs
  <1>3. \A i, m \in 1 .. n : p[i] = p[m] => i = m
    BY <1>1 DEF Path
  <1>4. PICK g : g = Front(b, p)
    OBVIOUS
  <1>5. g = [i \in 1 .. n + 1 |-> IF i = 1 THEN b ELSE p[i - 1]]
    BY <1>1, <1>4 DEF Front
  <1>6. n + 1 \in Nat /\ g \in [1 .. n + 1 -> Addrs]
    BY <1>2, <1>5
  <1>7. g \in Seq(Addrs) /\ Len(g) = n + 1
    <2>1. g \in Seq(Addrs)
      BY <1>6
    <2> QED
      BY <1>6, <2>1, LenProperties
  <1>8. \A i, m \in 1 .. n + 1 : g[i] = g[m] => i = m
    BY <1>2, <1>3, <1>5
  <1>9. Path(g)
    BY <1>7, <1>8 DEF Path
  <1>10. ASSUME NEW a
         PROVE  a \in Range(g) <=> a \in Range(p) \cup {b}
    <2>1. a \in Range(g) <=> \E i \in 1 .. n + 1 : g[i] = a
      BY <1>7, <1>9, RangeIs
    <2>2. a \in Range(p) <=> \E i \in 1 .. n : p[i] = a
      BY <1>1, RangeIs
    <2>3. ASSUME NEW i \in 1 .. n + 1, g[i] = a, i # 1
          PROVE  a \in Range(p)
      <3>1. i - 1 \in 1 .. n /\ p[i - 1] = a
        BY <1>2, <1>5, <2>3
      <3> QED
        BY <2>2, <3>1
    <2>4. ASSUME NEW i \in 1 .. n, p[i] = a
          PROVE  a \in Range(g)
      <3>1. i + 1 \in 1 .. n + 1 /\ i + 1 # 1 /\ (i + 1) - 1 = i
        BY <1>2
      <3>2. g[i + 1] = a
        BY <1>5, <2>4, <3>1
      <3> QED
        BY <2>1, <3>1, <3>2
    <2>5. 1 \in 1 .. n + 1 /\ g[1] = b
      BY <1>2, <1>5
    <2> QED
      BY <2>1, <2>2, <2>3, <2>4, <2>5
  <1> QED
    BY <1>1, <1>4, <1>5, <1>7, <1>9, <1>10

\* The j-th node is taken off: its neighbours are linked to each other.
LinkedPast(nd, nd2, p, j) ==
    \A i \in 1 .. Len(p) : i # j =>
       /\ nd2[p[i]].next = IF i = j - 1 THEN nd[p[j]].next ELSE nd[p[i]].next
       /\ nd2[p[i]].prev = IF i = j + 1 THEN nd[p[j]].prev ELSE nd[p[i]].prev

LEMMA ChainDrop ==
    ASSUME NEW h, NEW nd, NEW p, Chain(h, nd, p), NEW j \in 1 .. Len(p), NEW nd2,
           LinkedPast(nd, nd2, p, j)
    PROVE  Chain(IF j = 1 THEN nd[p[1]].next ELSE h, nd2, Drop(p, j))
  <1>1. PICK n : n = Len(p)
    OBVIOUS
  <1>2. n \in Nat /\ j \in 1 .. n /\ Path(p)
    BY <1>1, PathLength DEF Chain
  <1>3. PICK g : g = Drop(p, j)
    OBVIOUS
  <1>4. /\ Path(g) /\ Len(g) = n - 1
        /\ \A i \in 1 .. n - 1 : g[i] = IF i < j THEN p[i] ELSE p[i + 1]
    BY <1>1, <1>2, <1>3, DropIs
  <1>5. \A i \in 1 .. n : /\ nd[p[i]].prev = IF i = 1 THEN NULL ELSE p[i - 1]
                          /\ nd[p[i]].next = IF i = n THEN NULL ELSE p[i + 1]
    BY <1>1 DEF Chain
  <1>6. h = p[1]
    BY <1>1, <1>2 DEF Chain
  <1>7. (IF j = 1 THEN nd[p[1]].next ELSE h) = IF n - 1 = 0 THEN NULL ELSE g[1]
    <2>1. CASE j = 1
      <3>1. nd[p[1]].next = IF 1 = n THEN NULL ELSE p[1 + 1]
        BY <1>2, <1>5
      <3>2. n - 1 # 0 => 1 \in 1 .. n - 1 /\ g[1] = p[1 + 1]
        BY <1>2, <1>4, <2>1
      <3> QED
        BY <1>2, <2>1, <3>1, <3>2
    <2>2. CASE j # 1
      <3>1. n - 1 # 0 /\ 1 \in 1 .. n - 1 /\ 1 < j
        BY <1>2, <2>2
      <3> QED
        BY <1>4, <1>6, <2>2, <3>1
    <2> QED
      BY <2>1, <2>2
  <1>8. ASSUME NEW i \in 1 .. n - 1
        PROVE  /\ nd2[g[i]].prev = IF i = 1 THEN NULL ELSE g[i - 1]
               /\ nd2[g[i]].next = IF i = n - 1 THEN NULL ELSE g[i + 1]
    <2>1. PICK m : m = IF i < j THEN i ELSE i + 1
      OBVIOUS
    <2>2. m \in 1 .. n /\ m # j /\ g[i] = p[m]
      BY <1>2, <1>4, <2>1
    <2>3. /\ nd2[p[m]].next = IF m = j - 1 THEN nd[p[j]].next ELSE nd[p[m]].next
          /\ nd2[p[m]].prev = IF m = j + 1 THEN nd[p[j]].prev ELSE nd[p[m]].prev
      BY <1>1, <2>2 DEF LinkedPast
    <2>4. /\ nd[p[m]].prev = IF m = 1 THEN NULL ELSE p[m - 1]
          /\ nd[p[m]].next = IF m = n THEN NULL ELSE p[m + 1]
          /\ nd[p[j]].prev = IF j = 1 THEN NULL ELSE p[j - 1]
          /\ nd[p[j]].next = IF j = n THEN NULL ELSE p[j + 1]
      BY <1>2, <1>5, <2>2
    <2>5. nd2[g[i]].prev = IF i = 1 THEN NULL ELSE g[i - 1]
      <3>1. CASE i = 1
        BY <1>2, <2>1, <2>2, <2>3, <2>4, <3>1
      <3>2. CASE i # 1
        <4>1. i - 1 \in 1 .. n - 1 /\ g[i - 1] = IF i - 1 < j THEN p[i - 1] ELSE p[(i - 1) + 1]
          BY <1>2, <1>4, <3>2
        <4>2. CASE i < j
          BY <1>2, <2>1, <2>2, <2>3, <2>4, <3>2, <4>1, <4>2
        <4>3. CASE i = j
          <5>1. m = j + 1 /\ g[i - 1] = p[j - 1] /\ j # 1
            BY <1>2, <2>1, <3>2, <4>1, <4>3
          <5> QED
            BY <2>2, <2>3, <2>4, <3>2, <5>1
        <4>4. CASE i > j
          <5>1. m = i + 1 /\ m # j + 1 /\ m # 1 /\ m - 1 = i /\ (i - 1) + 1 = i /\ ~(i - 1 < j)
            BY <1>2, <2>1, <4>4
          <5>2. g[i - 1] = p[i]
            BY <4>1, <5>1
          <5> QED
            BY <2>2, <2>3, <2>4, <3>2, <5>1, <5>2
        <4> QED
          BY <1>2, <4>2, <4>3, <4>4
      <3> QED
        BY <3>1, <3>2
    <2>6. nd2[g[i]].next = IF i = n - 1 THEN NULL ELSE g[i + 1]
      <3>1. i # n - 1 => i + 1 \in 1 .. n - 1
                         /\ g[i + 1] = IF i + 1 < j THEN p[i + 1] ELSE p[(i + 1) + 1]
        BY <1>2, <1>4
      <3>2. CASE i + 1 < j
        <4>1. i # n - 1 /\ m = i /\ m # j - 1 /\ m # n
          BY <1>2, <2>1, <3>2
        <4> QED
          BY <2>2, <2>3, <2>4, <3>1, <3>2, <4>1
      <3>3. CASE i + 1 = j
        <4>1. m = i /\ m = j - 1 /\ (i = n - 1 <=> j = n) /\ (i + 1) + 1 = j + 1 /\ ~(i + 1 < j)
          BY <1>2, <2>1, <3>3
        <4> QED
          BY <2>2, <2>3, <2>4, <3>1, <4>1
      <3>4. CASE i + 1 > j
        <4>1. m = i + 1 /\ m # j - 1 /\ (i = n - 1 <=> m = n) /\ (i + 1) + 1 = m + 1 /\ ~(i + 1 < j)
          BY <1>2, <2>1, <3>4
        <4> QED
          BY <2>2, <2>3, <2>4, <3>1, <4>1
      <3> QED
        BY <1>2, <3>2, <3>3, <3>4
    <2> QED
      BY <2>5, <2>6
  <1>9. Chain(IF j = 1 THEN nd[p[1]].next ELSE h, nd2, g)
    BY <1>4, <1>7, <1>8 DEF Chain
  <1> QED
    BY <1>3, <1>9

\* An address enters at the head.
LinkedBehind(nd, nd2, p, b) ==
    \A i \in 1 .. Len(p) : /\ nd2[p[i]].next = nd[p[i]].next
                           /\ nd2[p[i]].prev = IF i = 1 THEN b ELSE nd[p[i]].prev

LEMMA ChainFront ==
    ASSUME NEW h, NEW nd, NEW p, Chain(h, nd, p), NEW b \in Addrs, b \notin Range(p), NEW nd2,
           nd2[b].prev = NULL, nd2[b].next = h,
           LinkedBehind(nd, nd2, p, b)
    PROVE  Chain(b, nd2, Front(b, p))
  <1>1. PICK n : n = Len(p)
    OBVIOUS
  <1>2. n \in Nat /\ Path(p)
    BY <1>1, PathLength DEF Chain
  <1>3. PICK g : g = Front(b, p)
    OBVIOUS
  <1>4. /\ Path(g) /\ Len(g) = n + 1
        /\ \A i \in 1 .. n + 1 : g[i] = IF i = 1 THEN b ELSE p[i - 1]
    BY <1>1, <1>2, <1>3, FrontIs
  <1>5. \A i \in 1 .. n : /\ nd[p[i]].prev = IF i = 1 THEN NULL ELSE p[i - 1]
                          /\ nd[p[i]].next = IF i = n THEN NULL ELSE p[i + 1]
    BY <1>1 DEF Chain
  <1>6. ASSUME NEW i \in 1 .. n + 1
        PROVE  /\ nd2[g[i]].prev = IF i = 1 THEN NULL ELSE g[i - 1]
               /\ nd2[g[i]].next = IF i = n + 1 THEN NULL ELSE g[i + 1]
    <2>1. CASE i = 1
      <3>1. g[i] = b /\ nd2[b].prev = NULL /\ nd2[b].next = IF n = 0 THEN NULL ELSE p[1]
        BY <1>1, <1>4, <2>1 DEF Chain
      <3>2. n # 0 => i + 1 \in 1 .. n + 1 /\ i + 1 # 1 /\ (i + 1) - 1 = 1
        BY <1>2, <2>1
      <3> QED
        BY <1>2, <1>4, <2>1, <3>1, <3>2
    <2>2. CASE i # 1
      <3>1. PICK m : m = i - 1
        OBVIOUS
      <3>2. m \in 1 .. n /\ g[i] = p[m] /\ i = m + 1
        BY <1>2, <1>4, <2>2, <3>1
      <3>3. /\ nd2[p[m]].next = IF m = n THEN NULL ELSE p[m + 1]
            /\ nd2[p[m]].prev = IF m = 1 THEN b ELSE p[m - 1]
        BY <1>1, <1>5, <3>2 DEF LinkedBehind
      <3>4. i - 1 \in 1 .. n + 1 /\ g[i - 1] = IF m = 1 THEN b ELSE p[m - 1]
        BY <1>2, <1>4, <3>2
      <3>5. m # n => i + 1 \in 1 .. n + 1 /\ g[i + 1] = p[m + 1]
        BY <1>2, <1>4, <3>2
      <3> QED
        BY <1>2, <2>2, <3>2, <3>3, <3>4, <3>5
    <2> QED
      BY <2>1, <2>2
  <1>7. b = g[1] /\ n + 1 # 0
    BY <1>2, <1>4
  <1>8. Chain(b, nd2, g)
    BY <1>2, <1>4, <1>6, <1>7 DEF Chain
  <1> QED
    BY <1>3, <1>8

LEMMA ChainFrame ==
    ASSUME NEW h, NEW nd, NEW p, Chain(h, nd, p), NEW nd2,
           \A a \in Range(p) : nd2[a].prev = nd[a].prev /\ nd2[a].next = nd[a].next
    PROVE  Chain(h, nd2, p)
  <1>1. \A i \in 1 .. Len(p) : p[i] \in Range(p)
    BY RangeIs DEF Chain
  <1> QED
    BY <1>1 DEF Chain

LEMMA ChainPair ==
    ASSUME NEW b \in Addrs, NEW c \in Addrs, b # c, NEW nd,
           nd[b].prev = NULL, nd[b].next = c, nd[c].prev = b, nd[c].next = NULL
    PROVE  Chain(b, nd, <<b, c>>) /\ Range(<<b, c>>) = {b, c}
  <1>1. <<b, c>> \in Seq(Addrs) /\ Len(<<b, c>>) = 2 /\ <<b, c>>[1] = b /\ <<b, c>>[2] = c
    OBVIOUS
  <1>2. Path(<<b, c>>)
    BY <1>1 DEF Path
  <1>3. Chain(b, nd, <<b, c>>)
    BY <1>1, <1>2 DEF Chain
  <1> QED
    BY <1>1, <1>2, <1>3, RangeIs

----------------------------------------------------------------------------
(***************************************************************************)
(* Tilings: sets of blocks that every address of the pool is in, once.     *)
(***************************************************************************)
Tiles(T) == /\ T \subseteq Block
            /\ \A a \in Addrs : \E b \in T : a \in Cells(b)
            /\ \A b, c \in T : b # c => ~Overlap(b, c)

\* No two blocks of F are the halves of a block.
Merged(F) == \A l \in Levels : \A x \in 0 .. POWER2[l] - 1 :
                l > 0 => ~(At(l, x) \in F /\ At(l, Sibling(x)) \in F)

LEMMA TilesHalve ==
    ASSUME NEW T, Tiles(T), NEW l \in Levels, l > 0, NEW x \in 0 .. POWER2[l] - 1,
           At(l - 1, x \div 2) \in T
    PROVE  Tiles((T \ {At(l - 1, x \div 2)}) \cup {At(l, x), At(l, Sibling(x))})
  <1>1. PICK p : p = At(l - 1, x \div 2)
    OBVIOUS
  <1>2. PICK b : b = At(l, x)
    OBVIOUS
  <1>3. PICK c : c = At(l, Sibling(x))
    OBVIOUS
  <1>4. /\ b \in Block /\ c \in Block /\ p \in Block /\ ~Overlap(b, c)
        /\ Cells(p) = Cells(b) \cup Cells(c)
    BY <1>1, <1>2, <1>3, HalvesAre
  <1>5. PICK U : U = (T \ {p}) \cup {b, c}
    OBVIOUS
  <1>6. U \subseteq Block
    BY <1>4, <1>5 DEF Tiles
  <1>7. ASSUME NEW a \in Addrs
        PROVE  \E d \in U : a \in Cells(d)
    <2>1. PICK d \in T : a \in Cells(d)
      BY DEF Tiles
    <2> QED
      BY <1>4, <1>5, <2>1
  <1>8. ASSUME NEW d \in T, d # p
        PROVE  ~Overlap(d, b) /\ ~Overlap(b, d) /\ ~Overlap(d, c) /\ ~Overlap(c, d)
    <2>1. ~Overlap(d, p)
      BY <1>1, <1>8 DEF Tiles
    <2> QED
      BY <1>4, <2>1 DEF Overlap
  <1>9. ~Overlap(c, b)
    BY <1>4 DEF Overlap
  <1>10. ASSUME NEW d \in U, NEW e \in U, d # e
         PROVE  ~Overlap(d, e)
    <2>1. CASE d \in T /\ e \in T
      BY <1>10, <2>1 DEF Tiles
    <2>2. CASE d \in {b, c} /\ e \in {b, c}
      BY <1>4, <1>9, <1>10, <2>2
    <2>3. CASE d \in {b, c} /\ e \in T \ {p}
      BY <1>8, <2>3
    <2>4. CASE d \in T \ {p} /\ e \in {b, c}
      BY <1>8, <2>4
    <2> QED
      BY <1>5, <2>1, <2>2, <2>3, <2>4
  <1>11. Tiles(U)
    BY <1>6, <1>7, <1>10 DEF Tiles
  <1> QED
    BY <1>1, <1>2, <1>3, <1>5, <1>11

LEMMA TilesMerge ==
    ASSUME NEW T, Tiles(T), NEW l \in Levels, l > 0, NEW x \in 0 .. POWER2[l] - 1,
           At(l, x) \in T, At(l, Sibling(x)) \in T
    PROVE  /\ Tiles((T \ {At(l, x), At(l, Sibling(x))}) \cup {At(l - 1, x \div 2)})
           /\ At(l - 1, x \div 2) \notin T
  <1>1. PICK p : p = At(l - 1, x \div 2)
    OBVIOUS
  <1>2. PICK b : b = At(l, x)
    OBVIOUS
  <1>3. PICK c : c = At(l, Sibling(x))
    OBVIOUS
  <1>4. /\ b \in Block /\ c \in Block /\ p \in Block /\ Cells(p) = Cells(b) \cup Cells(c)
    BY <1>1, <1>2, <1>3, HalvesAre
  <1>5. PICK U : U = (T \ {b, c}) \cup {p}
    OBVIOUS
  <1>6. U \subseteq Block
    BY <1>4, <1>5 DEF Tiles
  <1>7. ASSUME NEW a \in Addrs
        PROVE  \E d \in U : a \in Cells(d)
    <2>1. PICK d \in T : a \in Cells(d)
      BY DEF Tiles
    <2> QED
      BY <1>4, <1>5, <2>1
  <1>8. ASSUME NEW d \in T, d \notin {b, c}
        PROVE  ~Overlap(d, p) /\ ~Overlap(p, d)
    <2>1. ~Overlap(d, b) /\ ~Overlap(d, c)
      BY <1>2, <1>3, <1>8 DEF Tiles
    <2> QED
      BY <1>4, <2>1 DEF Overlap
  <1>9. ASSUME NEW d \in U, NEW e \in U, d # e
        PROVE  ~Overlap(d, e)
    <2>1. CASE d \in T /\ e \in T
      BY <1>9, <2>1 DEF Tiles
    <2>2. CASE d = p /\ e \in T \ {b, c}
      BY <1>8, <2>2
    <2>3. CASE d \in T \ {b, c} /\ e = p
      BY <1>8, <2>3
    <2> QED
      BY <1>5, <1>9, <2>1, <2>2, <2>3
  <1>10. Tiles(U)
    BY <1>6, <1>7, <1>9 DEF Tiles
  <1>11. p \notin T
    <2> SUFFICES ASSUME p \in T PROVE FALSE
      OBVIOUS
    <2>1. b # p
      <3>1. b.level = l /\ p.level = l - 1 /\ l \in Nat
        BY <1>1, <1>2, WidthIs DEF At
      <3> QED
        BY <3>1
    <2>2. ~Overlap(b, p)
      BY <1>2, <2>1 DEF Tiles
    <2>3. b.addr \in Cells(b)
      BY <1>4, CellsAt
    <2> QED
      BY <1>4, <2>2, <2>3 DEF Overlap
  <1> QED
    BY <1>1, <1>2, <1>3, <1>5, <1>10, <1>11

\* Blocks of a tiling are told apart by their addresses.
LEMMA TileAt ==
    ASSUME NEW T, Tiles(T), NEW b \in T, NEW c \in T, b.addr \in Cells(c)
    PROVE  b = c
  <1>1. b.addr \in Cells(b)
    BY CellsAt DEF Tiles
  <1> QED
    BY <1>1 DEF Tiles, Overlap

\* Where nothing of G is, F has a block that contains it all.
LEMMA Gathered ==
    ASSUME NEW F, NEW G, Tiles(F \cup G), Merged(F), NEW b \in Block,
           \A g \in G : ~Overlap(g, b)
    PROVE  \E c \in F : c.level <= b.level /\ Overlap(c, b)
  <1> DEFINE Gap(i) == \E d \in Block : /\ d.level = MAX_LEVELS - 1 - i
                                        /\ \A g \in G : ~Overlap(g, d)
                                        /\ \A c \in F : ~(c.level <= d.level /\ Overlap(c, d))
             Bad == {i \in 0 .. MAX_LEVELS - 1 : Gap(i)}
  <1>1. Bad = {}
    <2> SUFFICES ASSUME Bad # {} PROVE FALSE
      OBVIOUS
    <2>1. Bad \in SUBSET Nat
      OBVIOUS
    <2>2. PICK i \in Bad : \A j \in Bad : i <= j
      BY <2>1, LeastOf
    <2>3. i \in 0 .. MAX_LEVELS - 1 /\ Gap(i)
      OBVIOUS
    <2>4. PICK d \in Block : /\ d.level = MAX_LEVELS - 1 - i
                             /\ \A g \in G : ~Overlap(g, d)
                             /\ \A c \in F : ~(c.level <= d.level /\ Overlap(c, d))
      BY <2>3
    <2>5. d.level \in Levels /\ d.addr \in Addrs /\ d.addr \in Cells(d)
      BY BlockAt, CellsAt
    <2>6. PICK c \in F : d.addr \in Cells(c)
      <3>1. PICK c \in F \cup G : d.addr \in Cells(c)
        BY <2>5 DEF Tiles
      <3>2. c \notin G
        BY <2>4, <2>5, <3>1 DEF Overlap
      <3> QED
        BY <3>1, <3>2
    <2>7. Overlap(c, d) /\ c \in Block
      BY <2>5, <2>6 DEF Overlap, Tiles
    <2>8. c.level \in Levels /\ ~(c.level <= d.level)
      BY <2>4, <2>6, <2>7, BlockAt
    <2>9. PICK l : l = d.level + 1
      OBVIOUS
    <2>10. l \in Levels /\ l > 0 /\ l - 1 = d.level /\ l = MAX_LEVELS - 1 - (i - 1)
           /\ i - 1 \in 0 .. MAX_LEVELS - 1
      BY <2>3, <2>4, <2>5, <2>8, <2>9 DEF Levels
    <2>11. PICK y : y = Nth(d.addr, d.level)
      OBVIOUS
    <2>12. PICK x : x = 2 * y
      OBVIOUS
    <2>13. y \in 0 .. POWER2[l - 1] - 1 /\ d = At(l - 1, y)
      BY <2>5, <2>10, <2>11, NthRange, BlockAt
    <2>14. x \in 0 .. POWER2[l] - 1 /\ x \div 2 = y
      <3>1. POWER2[l] = 2 * POWER2[l - 1] /\ l - 1 \in Levels
        BY <2>10, WidthIs
      <3>2. POWER2[l - 1] \in Nat \ {0}
        BY <3>1, WidthIs
      <3> QED
        BY <2>12, <2>13, <3>1, <3>2
    <2>15. /\ At(l, x) \in Block /\ At(l, Sibling(x)) \in Block
           /\ Cells(d) = Cells(At(l, x)) \cup Cells(At(l, Sibling(x)))
      BY <2>10, <2>13, <2>14, HalvesAre
    <2>16. ~Gap(i - 1)
      <3>1. i - 1 \notin Bad
        BY <2>2, <2>3, <2>10
      <3> QED
        BY <2>10, <3>1
    <2>17. ASSUME NEW e \in Block, e.level = l, Cells(e) \subseteq Cells(d)
           PROVE  e \in F
      <3>1. \A g \in G : ~Overlap(g, e)
        BY <2>4, <2>17 DEF Overlap
      <3>2. e.level = MAX_LEVELS - 1 - (i - 1)
        BY <2>10, <2>17
      <3>3. PICK f \in F : f.level <= e.level /\ Overlap(f, e)
        BY <2>16, <3>1, <3>2
      <3>4. Overlap(f, d) /\ f \in Block
        BY <2>17, <3>3 DEF Overlap, Tiles
      <3>5. ~(f.level <= d.level) /\ f.level \in Levels
        BY <2>4, <3>3, <3>4, BlockAt
      <3>6. f.level = e.level
        BY <2>5, <2>9, <2>10, <2>17, <3>3, <3>5 DEF Levels
      <3>7. Nth(f.addr, f.level) = Nth(e.addr, e.level)
        BY <3>3, <3>4, <3>6, OverlapIs
      <3>8. f = At(e.level, Nth(e.addr, e.level)) /\ e = At(e.level, Nth(e.addr, e.level))
        BY <3>4, <3>6, <3>7, BlockAt
      <3> QED
        BY <3>8
    <2>18. At(l, x).level = l /\ At(l, Sibling(x)).level = l
      BY DEF At
    <2>19. At(l, x) \in F /\ At(l, Sibling(x)) \in F
      BY <2>15, <2>17, <2>18
    <2> QED
      BY <2>10, <2>14, <2>19 DEF Merged
  <1>2. PICK i : i = MAX_LEVELS - 1 - b.level
    OBVIOUS
  <1>3. i \in 0 .. MAX_LEVELS - 1 /\ b.level = MAX_LEVELS - 1 - i
    BY <1>2, BlockAt DEF Levels
  <1>4. ~Gap(i)
    BY <1>1, <1>3
  <1> QED
    BY <1>3, <1>4

\* The blocks of U whose nodes lie in or below the x-th node of level l.
Busy(U, l, x) == \E u \in U : u.level >= l /\ Nth(u.addr, l) = x

LEMMA BuddyFree ==
    ASSUME NEW F, NEW G, Tiles(F \cup G), Merged(F), NEW l \in Levels, l > 0,
           NEW x \in 0 .. POWER2[l] - 1, At(l, x) \in F \cup G, ~Busy(G, l, Sibling(x))
    PROVE  At(l, Sibling(x)) \in F
  <1>1. PICK y : y = Sibling(x)
    OBVIOUS
  <1>2. PICK b : b = At(l, x)
    OBVIOUS
  <1>3. PICK c : c = At(l, y)
    OBVIOUS
  <1>4. /\ y \in 0 .. POWER2[l] - 1 /\ y \div 2 = x \div 2
        /\ x \div 2 \in 0 .. POWER2[l - 1] - 1 /\ l - 1 \in Levels /\ l \in Nat
    BY <1>1, SiblingIs, WidthIs
  <1>5. /\ b \in Block /\ c \in Block /\ b.level = l /\ c.level = l
        /\ b.addr = x * Width(l) /\ c.addr = y * Width(l)
        /\ Nth(b.addr, l) = x /\ Nth(c.addr, l) = y /\ b.addr \in Addrs /\ c.addr \in Addrs
    BY <1>2, <1>3, <1>4, AtBlock DEF At
  <1>6. ASSUME NEW d \in F \cup G, Overlap(d, c)
        PROVE  d.level >= l
    <2> SUFFICES ASSUME ~(d.level >= l) PROVE FALSE
      OBVIOUS
    <2>1. d \in Block /\ d.level \in Levels /\ d.level <= c.level /\ d.level \in 0 .. l - 1
          /\ d.level <= b.level
      BY <1>4, <1>5, BlockAt DEF Tiles, Levels
    <2>2. Nth(c.addr, d.level) = Nth(d.addr, d.level)
      BY <1>5, <1>6, <2>1, OverlapIs
    <2>3. Nth(c.addr, l - 1) = Nth(b.addr, l - 1)
      BY <1>4, <1>5, NthUp
    <2>4. Nth(c.addr, d.level) = Nth(b.addr, d.level)
      BY <1>4, <1>5, <2>1, <2>3, NthSame
    <2>5. Overlap(d, b)
      BY <1>5, <2>1, <2>2, <2>4, OverlapIs
    <2>6. d # b
      BY <1>4, <1>5, <2>1
    <2> QED
      BY <1>2, <2>5, <2>6 DEF Tiles
  <1>7. ASSUME NEW g \in G PROVE ~Overlap(g, c)
    <2> SUFFICES ASSUME Overlap(g, c) PROVE FALSE
      OBVIOUS
    <2>1. g \in Block /\ g.level >= l /\ c.level <= g.level
      BY <1>5, <1>6 DEF Tiles
    <2>2. Overlap(c, g)
      BY DEF Overlap
    <2>3. Nth(g.addr, l) = y
      BY <1>5, <2>1, <2>2, OverlapIs
    <2> QED
      BY <1>1, <2>1, <2>3 DEF Busy
  <1>8. PICK f \in F : f.level <= c.level /\ Overlap(f, c)
    BY <1>5, <1>7, Gathered
  <1>9. f \in Block /\ f.level \in Levels /\ f.level >= l
    BY <1>6, <1>8, BlockAt DEF Tiles
  <1>10. f.level = l
    BY <1>4, <1>5, <1>8, <1>9 DEF Levels
  <1>11. Nth(f.addr, l) = y
    BY <1>5, <1>8, <1>9, <1>10, OverlapIs
  <1>12. f = At(l, y)
    BY <1>9, <1>10, <1>11, BlockAt
  <1> QED
    BY <1>1, <1>8, <1>12

----------------------------------------------------------------------------
(***************************************************************************)
(* The bit tree.                                                           *)
(***************************************************************************)
\* The bits say which nodes are busy with a block of U; nobody clears the root's.
BitsFor(bt, U) ==
    /\ bt \in [Nodes -> {0, 1}]
    /\ \A l \in Levels : \A x \in 0 .. POWER2[l] - 1 :
          /\ Busy(U, l, x) => bt[Index(l, x)] = 1
          /\ l > 0 /\ bt[Index(l, x)] = 1 => Busy(U, l, x)

\* The bit of the x-th node of level l becomes v.
Marked(bt, l, x, v) == [bt EXCEPT ![Index(l, x)] = v]

LEMMA MarkedIs ==
    ASSUME NEW bt \in [Nodes -> {0, 1}], NEW l \in Levels, NEW x \in 0 .. POWER2[l] - 1,
           NEW v \in {0, 1}
    PROVE  /\ Marked(bt, l, x, v) \in [Nodes -> {0, 1}]
           /\ \A m \in Levels : \A y \in 0 .. POWER2[m] - 1 :
                 Marked(bt, l, x, v)[Index(m, y)]
                    = IF m = l /\ y = x THEN v ELSE bt[Index(m, y)]
  <1>1. PICK c : c = [bt EXCEPT ![Index(l, x)] = v]
    OBVIOUS
  <1>2. Index(l, x) \in Nodes
    BY IndexIs
  <1>3. c \in [Nodes -> {0, 1}]
    BY <1>1, <1>2
  <1>4. ASSUME NEW m \in Levels, NEW y \in 0 .. POWER2[m] - 1
        PROVE  c[Index(m, y)] = IF m = l /\ y = x THEN v ELSE bt[Index(m, y)]
    <2>1. Index(m, y) \in Nodes
      BY IndexIs
    <2>2. Index(m, y) = Index(l, x) <=> m = l /\ y = x
      BY IndexIs
    <2> QED
      BY <1>1, <1>2, <2>1, <2>2
  <1> QED
    BY <1>1, <1>3, <1>4 DEF Marked

\* One node more is busy, or one less.
Adds(V, U, l, x) ==
    /\ \A m \in Levels : \A y \in 0 .. POWER2[m] - 1 :
          m > 0 => (Busy(V, m, y) <=> Busy(U, m, y) \/ (m = l /\ y = x))
    /\ Busy(V, 0, 0) => Busy(U, 0, 0) \/ l = 0
Removes(V, U, l, x) ==
    \A m \in Levels : \A y \in 0 .. POWER2[m] - 1 :
        Busy(V, m, y) <=> Busy(U, m, y) /\ ~(m = l /\ y = x)

LEMMA SetBit ==
    ASSUME NEW bt, NEW U, BitsFor(bt, U), NEW V, NEW l \in Levels, NEW x \in 0 .. POWER2[l] - 1,
           Adds(V, U, l, x)
    PROVE  BitsFor(Marked(bt, l, x, 1), V)
  <1>1. PICK c : c = Marked(bt, l, x, 1)
    OBVIOUS
  <1>2. bt \in [Nodes -> {0, 1}]
    BY DEF BitsFor
  <1>3. /\ c \in [Nodes -> {0, 1}]
        /\ \A m \in Levels : \A y \in 0 .. POWER2[m] - 1 :
              c[Index(m, y)] = IF m = l /\ y = x THEN 1 ELSE bt[Index(m, y)]
    BY <1>1, <1>2, MarkedIs
  <1>4. ASSUME NEW m \in Levels, NEW y \in 0 .. POWER2[m] - 1
        PROVE  /\ Busy(V, m, y) => c[Index(m, y)] = 1
               /\ m > 0 /\ c[Index(m, y)] = 1 => Busy(V, m, y)
    <2>1. /\ Busy(U, m, y) => bt[Index(m, y)] = 1
          /\ m > 0 /\ bt[Index(m, y)] = 1 => Busy(U, m, y)
      BY DEF BitsFor
    <2>2. CASE m > 0
      BY <1>3, <2>1, <2>2 DEF Adds
    <2>3. CASE ~(m > 0)
      <3>1. m = 0 /\ y = 0
        BY <2>3, TopWidth, WidthIs
      <3>2. l = 0 => x = 0
        BY TopWidth
      <3> QED
        BY <1>3, <2>1, <2>3, <3>1, <3>2 DEF Adds
    <2> QED
      BY <2>2, <2>3
  <1> QED
    BY <1>1, <1>3, <1>4 DEF BitsFor

LEMMA ClearBit ==
    ASSUME NEW bt, NEW U, BitsFor(bt, U), NEW V, NEW l \in Levels, NEW x \in 0 .. POWER2[l] - 1,
           Removes(V, U, l, x)
    PROVE  BitsFor(Marked(bt, l, x, 0), V)
  <1>1. PICK c : c = Marked(bt, l, x, 0)
    OBVIOUS
  <1>2. bt \in [Nodes -> {0, 1}]
    BY DEF BitsFor
  <1>3. /\ c \in [Nodes -> {0, 1}]
        /\ \A m \in Levels : \A y \in 0 .. POWER2[m] - 1 :
              c[Index(m, y)] = IF m = l /\ y = x THEN 0 ELSE bt[Index(m, y)]
    BY <1>1, <1>2, MarkedIs
  <1>4. ASSUME NEW m \in Levels, NEW y \in 0 .. POWER2[m] - 1
        PROVE  /\ Busy(V, m, y) => c[Index(m, y)] = 1
               /\ m > 0 /\ c[Index(m, y)] = 1 => Busy(V, m, y)
    <2>1. /\ Busy(U, m, y) => bt[Index(m, y)] = 1
          /\ m > 0 /\ bt[Index(m, y)] = 1 => Busy(U, m, y)
      BY DEF BitsFor
    <2>2. Busy(V, m, y) <=> Busy(U, m, y) /\ ~(m = l /\ y = x)
      BY DEF Removes
    <2>3. c[Index(m, y)] = IF m = l /\ y = x THEN 0 ELSE bt[Index(m, y)]
      BY <1>3
    <2> QED
      BY <2>1, <2>2, <2>3
  <1> QED
    BY <1>1, <1>3, <1>4 DEF BitsFor

\* The nodes above a busy node are busy.
LEMMA BusyAbove ==
    ASSUME NEW U, U \subseteq Block, NEW l \in Levels, NEW a \in Addrs, Busy(U, l, Nth(a, l)),
           NEW m \in 0 .. l
    PROVE  Busy(U, m, Nth(a, m))
  <1>1. PICK u \in U : u.level >= l /\ Nth(u.addr, l) = Nth(a, l)
    BY DEF Busy
  <1>2. u.addr \in Addrs /\ u.level \in Levels /\ l \in Nat
    BY BlockAt, WidthIs
  <1>3. Nth(u.addr, m) = Nth(a, m)
    BY <1>1, <1>2, NthSame
  <1>4. u.level >= m
    BY <1>1, <1>2 DEF Levels
  <1> QED
    BY <1>1, <1>3, <1>4 DEF Busy

\* The nodes that are busy with one block more.
LEMMA BusyWith ==
    ASSUME NEW U, NEW b, NEW l, NEW x
    PROVE  Busy(U \cup {b}, l, x) <=> Busy(U, l, x) \/ (b.level >= l /\ Nth(b.addr, l) = x)
  BY DEF Busy

\* Nothing else is in or below the node of a tile.
LEMMA BusyOnce ==
    ASSUME NEW T, Tiles(T), NEW b \in T, NEW U \in SUBSET T, b \notin U
    PROVE  ~Busy(U, b.level, Nth(b.addr, b.level))
  <1> SUFFICES ASSUME NEW u \in U, u.level >= b.level,
                      Nth(u.addr, b.level) = Nth(b.addr, b.level)
               PROVE  FALSE
    BY DEF Busy
  <1>1. u \in Block /\ b \in Block /\ b.level <= u.level
    BY BlockAt DEF Tiles, Levels
  <1>2. Overlap(b, u)
    BY <1>1, OverlapIs
  <1> QED
    BY <1>2 DEF Tiles

\* Above a tile l, the nodes are those above its parent's node: x is the node of a at l.
LEMMA BusyParent ==
    ASSUME NEW l \in Levels, l > 0, NEW x \in 0 .. POWER2[l] - 1, NEW m \in Levels
    PROVE  /\ At(l, x).level >= m <=> At(l - 1, x \div 2).level >= m \/ m = l
           /\ m < l => Nth(At(l, x).addr, m) = Nth(At(l - 1, x \div 2).addr, m)
           /\ Nth(At(l, x).addr, l) = x
  <1>1. PICK q : q = x \div 2
    OBVIOUS
  <1>2. q \in 0 .. POWER2[l - 1] - 1 /\ l - 1 \in Levels /\ l \in Nat /\ m \in Nat
    BY <1>1, SiblingIs, WidthIs
  <1>3. /\ Nth(x * Width(l), l) = x /\ x * Width(l) \in Addrs
        /\ Nth(q * Width(l - 1), l - 1) = q /\ q * Width(l - 1) \in Addrs
    BY <1>2, AtBlock
  <1>4. Nth(x * Width(l), l - 1) = Nth(q * Width(l - 1), l - 1)
    BY <1>1, <1>3, NthUp
  <1>5. m < l => Nth(x * Width(l), m) = Nth(q * Width(l - 1), m)
    <2> SUFFICES ASSUME m < l PROVE Nth(x * Width(l), m) = Nth(q * Width(l - 1), m)
      OBVIOUS
    <2>1. m \in 0 .. l - 1
      BY <1>2
    <2> QED
      BY <1>2, <1>3, <1>4, <2>1, NthSame
  <1>6. l >= m <=> l - 1 >= m \/ m = l
    BY <1>2
  <1> QED
    BY <1>1, <1>3, <1>5, <1>6 DEF At

----------------------------------------------------------------------------
(***************************************************************************)
(* The memory of the allocator: ls[l] is the free list of level l, and G   *)
(* are the blocks that are on none.                                        *)
(***************************************************************************)
MemoryOK == [bit_tree : [Nodes -> {0, 1}], head : [Levels -> Addrs \cup {NULL}],
             node : [Addrs -> DNODE], ub : {FALSE}]
AddrSeqs == Seq(Addrs)

Blk(l, a)   == [level |-> l, addr |-> a]
Listed(ls)  == {b \in Block : b.addr \in Range(ls[b.level])}
Linked(k, ls) == /\ ls \in [Levels -> AddrSeqs]
                 /\ \A l \in Levels : /\ Chain(k.head[l], k.node, ls[l])
                                      /\ \A a \in Range(ls[l]) : Blk(l, a) \in Block
Holds(k, ls, G) == /\ k \in MemoryOK
                   /\ Linked(k, ls)
                   /\ Tiles(Listed(ls) \cup G)
                   /\ Listed(ls) \cap G = {}

LEMMA MemoryFields ==
    ASSUME NEW k \in MemoryOK
    PROVE  /\ k.bit_tree \in [Nodes -> {0, 1}] /\ k.head \in [Levels -> Addrs \cup {NULL}]
           /\ k.node \in [Addrs -> DNODE] /\ k.ub = FALSE
           /\ k = [bit_tree |-> k.bit_tree, head |-> k.head, node |-> k.node, ub |-> k.ub]
  BY DEF MemoryOK

LEMMA NodeFields ==
    ASSUME NEW d \in DNODE
    PROVE  d.prev \in Link /\ d.next \in Link /\ d = [prev |-> d.prev, next |-> d.next]
  BY DEF DNODE

LEMMA BlkIs ==
    /\ \A l, a : Blk(l, a).level = l /\ Blk(l, a).addr = a
    /\ \A b \in Block : b = Blk(b.level, b.addr)
    /\ \A l, x : At(l, x) = Blk(l, x * Width(l))
  <1>1. \A b \in Block : b = Blk(b.level, b.addr)
    BY BlockAt DEF Blk
  <1> QED
    BY <1>1 DEF Blk, At

LEMMA ListedIs ==
    ASSUME NEW k, NEW ls, Linked(k, ls), NEW l \in Levels
    PROVE  /\ Path(ls[l]) /\ ls[l] \in AddrSeqs /\ Range(ls[l]) \in SUBSET Addrs
           /\ \A a : Blk(l, a) \in Listed(ls) <=> a \in Range(ls[l])
           /\ \A b \in Listed(ls) : b \in Block /\ b.addr \in Range(ls[b.level])
  <1>1. Chain(k.head[l], k.node, ls[l]) /\ \A a \in Range(ls[l]) : Blk(l, a) \in Block
    BY DEF Linked
  <1>2. Path(ls[l]) /\ ls[l] \in AddrSeqs /\ Range(ls[l]) \in SUBSET Addrs
    BY <1>1, RangeIs DEF Chain, Linked
  <1>3. ASSUME NEW a
        PROVE  Blk(l, a) \in Listed(ls) <=> a \in Range(ls[l])
    BY <1>1, BlkIs DEF Listed
  <1> QED
    BY <1>2, <1>3 DEF Listed

\* An address is the beginning of one block.
LEMMA AddrOnce ==
    ASSUME NEW k, NEW ls, NEW G, Holds(k, ls, G)
    PROVE  /\ \A b \in Listed(ls), g \in G : b.addr \notin Cells(g) /\ b.addr # g.addr
           /\ \A l, m \in Levels : l # m => Range(ls[l]) \cap Range(ls[m]) = {}
           /\ \A l \in Levels : \A g \in G : g.addr \notin Range(ls[l])
  <1>1. ASSUME NEW b \in Listed(ls), NEW g \in G
        PROVE  b.addr \notin Cells(g) /\ b.addr # g.addr
    <2>1. b # g
      BY DEF Holds
    <2>2. g.addr \in Cells(g)
      BY CellsAt DEF Holds, Tiles
    <2> QED
      BY <2>1, <2>2, TileAt DEF Holds
  <1>2. ASSUME NEW l \in Levels, NEW m \in Levels, l # m,
               NEW a \in Range(ls[l]) \cap Range(ls[m])
        PROVE  FALSE
    <2>1. Blk(l, a) \in Listed(ls) /\ Blk(m, a) \in Listed(ls)
      BY ListedIs DEF Holds
    <2>2. Blk(m, a) \in Block /\ a \in Cells(Blk(m, a))
      BY <2>1, CellsAt, BlkIs DEF Listed
    <2>3. Blk(l, a) = Blk(m, a)
      BY <2>1, <2>2, BlkIs, TileAt DEF Holds
    <2> QED
      BY <1>2, <2>3, BlkIs
  <1>3. ASSUME NEW l \in Levels, NEW g \in G, g.addr \in Range(ls[l])
        PROVE  FALSE
    <2>1. Blk(l, g.addr) \in Listed(ls)
      BY <1>3, ListedIs DEF Holds
    <2> QED
      BY <1>1, <2>1, BlkIs
  <1> QED
    BY <1>1, <1>2, <1>3

\* Element l of f becomes v.
Put(f, l, v) == [f EXCEPT ![l] = v]

LEMMA PutIs ==
    ASSUME NEW S, NEW T, NEW f \in [S -> T], NEW l \in S, NEW v \in T
    PROVE  /\ Put(f, l, v) \in [S -> T] /\ Put(f, l, v)[l] = v
           /\ \A m \in S : m # l => Put(f, l, v)[m] = f[m]
  BY DEF Put

\* The neighbours of the node at a are linked to each other.
Bypassed(k, k2, a) ==
    \A c \in Addrs \ {a} :
       /\ k2.node[c].next = IF c = k.node[a].prev THEN k.node[a].next ELSE k.node[c].next
       /\ k2.node[c].prev = IF c = k.node[a].next THEN k.node[a].prev ELSE k.node[c].prev

\* The block u has come off its list, which leaves the lists ls2.
Taken(k2, ls, ls2, G, u) == /\ Holds(k2, ls2, G \cup {u})
                            /\ Listed(ls2) = Listed(ls) \ {u}
                            /\ u \in Listed(ls) /\ u \notin G

LEMMA TakenOff ==
    ASSUME NEW k, NEW ls, NEW G, Holds(k, ls, G), NEW l \in Levels,
           NEW j \in 1 .. Len(ls[l]), NEW a, a = ls[l][j], NEW k2 \in MemoryOK,
           k2.head = Put(k.head, l, IF j = 1 THEN k.node[a].next ELSE k.head[l]),
           Bypassed(k, k2, a)
    PROVE  Taken(k2, ls, Put(ls, l, Drop(ls[l], j)), G, Blk(l, a))
  <1>1. PICK p : p = ls[l]
    OBVIOUS
  <1>2. Chain(k.head[l], k.node, p) /\ Path(p) /\ Range(p) \in SUBSET Addrs /\ p \in AddrSeqs
    BY <1>1, ListedIs DEF Holds, Linked
  <1>3. Len(p) \in Nat /\ (\A i \in 1 .. Len(p) : p[i] \in Range(p) /\ p[i] \in Addrs /\ p[i] # NULL)
        /\ j \in 1 .. Len(p) /\ a = p[j]
    BY <1>1, <1>2, PathLength, RangeIs, AddrIs
  <1>4. /\ k.node[a].prev = IF j = 1 THEN NULL ELSE p[j - 1]
        /\ k.node[a].next = IF j = Len(p) THEN NULL ELSE p[j + 1]
    BY <1>2, <1>3 DEF Chain
  <1>5. \A i, m \in 1 .. Len(p) : p[i] = p[m] => i = m
    BY <1>2 DEF Path
  <1>6. PICK ls2 : ls2 = Put(ls, l, Drop(p, j))
    OBVIOUS
  <1>7. PICK d : d = Drop(p, j)
    OBVIOUS
  <1>8. Path(d) /\ Range(d) = Range(p) \ {a} /\ d \in AddrSeqs
    BY <1>2, <1>3, <1>7, DropIs DEF Path, AddrSeqs
  <1>9. ls \in [Levels -> AddrSeqs]
    BY DEF Holds, Linked
  <1>10. ls2 \in [Levels -> AddrSeqs] /\ ls2[l] = d
         /\ \A m \in Levels : m # l => ls2[m] = ls[m]
    BY <1>6, <1>7, <1>8, <1>9 DEF Put
  <1>11. Chain(k2.head[l], k2.node, d)
    <2>1. ASSUME NEW i \in 1 .. Len(p), i # j
          PROVE  /\ k2.node[p[i]].next = IF i = j - 1 THEN k.node[p[j]].next ELSE k.node[p[i]].next
                 /\ k2.node[p[i]].prev = IF i = j + 1 THEN k.node[p[j]].prev ELSE k.node[p[i]].prev
      <3>1. p[i] \in Addrs \ {a}
        BY <1>3, <1>5, <2>1
      <3>2. p[i] = k.node[a].prev <=> i = j - 1
        <4>1. CASE j = 1
          BY <1>3, <1>4, <4>1
        <4>2. CASE j # 1
          <5>1. j - 1 \in 1 .. Len(p)
            BY <1>3, <4>2
          <5> QED
            BY <1>3, <1>4, <1>5, <4>2, <5>1
        <4> QED
          BY <4>1, <4>2
      <3>3. p[i] = k.node[a].next <=> i = j + 1
        <4>1. CASE j = Len(p)
          BY <1>3, <1>4, <4>1
        <4>2. CASE j # Len(p)
          <5>1. j + 1 \in 1 .. Len(p)
            BY <1>3, <4>2
          <5> QED
            BY <1>3, <1>4, <1>5, <4>2, <5>1
        <4> QED
          BY <4>1, <4>2
      <3> QED
        BY <1>3, <3>1, <3>2, <3>3 DEF Bypassed
    <2>2. Chain(IF j = 1 THEN k.node[p[1]].next ELSE k.head[l], k2.node, d)
      <3>1. PICK h : h = k.head[l]
        OBVIOUS
      <3>2. PICK nd : nd = k.node
        OBVIOUS
      <3>3. PICK nd2 : nd2 = k2.node
        OBVIOUS
      <3>4. Chain(h, nd, p)
        BY <1>2, <3>1, <3>2
      <3>5. LinkedPast(nd, nd2, p, j)
        BY <2>1, <3>2, <3>3 DEF LinkedPast
      <3>6. Chain(IF j = 1 THEN nd[p[1]].next ELSE h, nd2, Drop(p, j))
        BY <1>3, <3>4, <3>5, ChainDrop
      <3> QED
        BY <1>7, <3>1, <3>2, <3>3, <3>6
    <2>3. k2.head[l] = IF j = 1 THEN k.node[p[1]].next ELSE k.head[l]
      <3>1. k.head \in [Levels -> Addrs \cup {NULL}]
        BY MemoryFields DEF Holds
      <3> QED
        BY <1>3, <3>1 DEF Put
    <2> QED
      BY <2>2, <2>3
  <1>12. ASSUME NEW m \in Levels, m # l
         PROVE  Chain(k2.head[m], k2.node, ls[m])
    <2>1. Chain(k.head[m], k.node, ls[m]) /\ Range(ls[m]) \in SUBSET Addrs
      BY ListedIs DEF Holds, Linked
    <2>2. Range(ls[m]) \cap Range(p) = {}
      BY <1>1, <1>12, AddrOnce
    <2>3. k2.head[m] = k.head[m]
      <3>1. k.head \in [Levels -> Addrs \cup {NULL}]
        BY MemoryFields DEF Holds
      <3> QED
        BY <1>12, <3>1 DEF Put
    <2>4. ASSUME NEW c \in Range(ls[m])
          PROVE  k2.node[c].prev = k.node[c].prev /\ k2.node[c].next = k.node[c].next
      <3>1. c \in Addrs /\ c \notin Range(p) /\ c # NULL
        BY <2>1, <2>2, AddrIs
      <3>2. c # a
        BY <1>3, <3>1
      <3>3. c # k.node[a].prev
        <4>1. j # 1 => j - 1 \in 1 .. Len(p)
          BY <1>3
        <4> QED
          BY <1>3, <1>4, <3>1, <4>1
      <3>4. c # k.node[a].next
        <4>1. j # Len(p) => j + 1 \in 1 .. Len(p)
          BY <1>3
        <4> QED
          BY <1>3, <1>4, <3>1, <4>1
      <3> QED
        BY <3>1, <3>2, <3>3, <3>4 DEF Bypassed
    <2>5. Chain(k.head[m], k2.node, ls[m])
      BY <2>1, <2>4, ChainFrame
    <2> QED
      BY <2>3, <2>5
  <1>13. Linked(k2, ls2)
    <2>1. ASSUME NEW m \in Levels
          PROVE  Chain(k2.head[m], k2.node, ls2[m]) /\ \A c \in Range(ls2[m]) : Blk(m, c) \in Block
      <3>1. \A c \in Range(ls[m]) : Blk(m, c) \in Block
        BY DEF Holds, Linked
      <3>2. CASE m = l
        BY <1>1, <1>8, <1>10, <1>11, <3>1, <3>2
      <3>3. CASE m # l
        BY <1>10, <1>12, <3>1, <3>3
      <3> QED
        BY <3>2, <3>3
    <2> QED
      BY <1>10, <2>1 DEF Linked
  <1>14. Blk(l, a) \in Listed(ls) /\ Blk(l, a) \in Block
    BY <1>1, <1>3, ListedIs DEF Holds
  <1>15. Blk(l, a) \notin G
    BY <1>14 DEF Holds
  <1>16. Listed(ls2) = Listed(ls) \ {Blk(l, a)}
    <2>1. ASSUME NEW b \in Block
          PROVE  b \in Listed(ls2) <=> b \in Listed(ls) \ {Blk(l, a)}
      <3>1. b.level \in Levels /\ b = Blk(b.level, b.addr)
        BY BlockAt, BlkIs
      <3>2. CASE b.level = l
        <4>1. b = Blk(l, a) <=> b.addr = a
          BY <3>1, <3>2, BlkIs
        <4> QED
          BY <1>1, <1>8, <1>10, <3>2, <4>1 DEF Listed
      <3>3. CASE b.level # l
        <4>1. b # Blk(l, a)
          BY <3>3, BlkIs
        <4> QED
          BY <1>10, <3>1, <3>3, <4>1 DEF Listed
      <3> QED
        BY <3>2, <3>3
    <2> QED
      BY <2>1 DEF Listed
  <1>17. Listed(ls2) \cup (G \cup {Blk(l, a)}) = Listed(ls) \cup G
    BY <1>14, <1>16
  <1>18. Listed(ls2) \cap (G \cup {Blk(l, a)}) = {}
    BY <1>16 DEF Holds
  <1>19. Holds(k2, ls2, G \cup {Blk(l, a)})
    BY <1>13, <1>17, <1>18 DEF Holds
  <1> QED
    BY <1>1, <1>6, <1>14, <1>15, <1>16, <1>19 DEF Taken

\* Only the list of level l changes, to d.
LEMMA ListChanged ==
    ASSUME NEW k, NEW ls, Linked(k, ls), NEW l \in Levels, NEW k2, NEW d \in AddrSeqs,
           Chain(k2.head[l], k2.node, d), \A c \in Range(d) : Blk(l, c) \in Block,
           \A m \in Levels : m # l => Chain(k2.head[m], k2.node, ls[m])
    PROVE  /\ Linked(k2, Put(ls, l, d))
           /\ Put(ls, l, d)[l] = d
           /\ \A m \in Levels : m # l => Put(ls, l, d)[m] = ls[m]
           /\ \A b \in Block : b \in Listed(Put(ls, l, d))
                 <=> IF b.level = l THEN b.addr \in Range(d) ELSE b \in Listed(ls)
  <1>1. PICK ls2 : ls2 = Put(ls, l, d)
    OBVIOUS
  <1>2. ls \in [Levels -> AddrSeqs]
    BY DEF Linked
  <1>3. ls2 \in [Levels -> AddrSeqs] /\ ls2[l] = d /\ \A m \in Levels : m # l => ls2[m] = ls[m]
    BY <1>1, <1>2 DEF Put
  <1>4. ASSUME NEW m \in Levels
        PROVE  Chain(k2.head[m], k2.node, ls2[m]) /\ \A c \in Range(ls2[m]) : Blk(m, c) \in Block
    <2>1. CASE m = l
      BY <1>3, <2>1
    <2>2. CASE m # l
      BY <1>3, <2>2 DEF Linked
    <2> QED
      BY <2>1, <2>2
  <1>5. Linked(k2, ls2)
    BY <1>3, <1>4 DEF Linked
  <1>6. ASSUME NEW b \in Block
        PROVE  b \in Listed(ls2) <=> IF b.level = l THEN b.addr \in Range(d) ELSE b \in Listed(ls)
    <2>1. b.level \in Levels
      BY BlockAt
    <2> QED
      BY <1>3, <2>1 DEF Listed
  <1> QED
    BY <1>1, <1>3, <1>5, <1>6

\* A list whose nodes are left alone is still there.
LEMMA ListKept ==
    ASSUME NEW k, NEW ls, Linked(k, ls), NEW m \in Levels, NEW k2, k2.head[m] = k.head[m],
           \A c \in Range(ls[m]) : /\ k2.node[c].prev = k.node[c].prev
                                   /\ k2.node[c].next = k.node[c].next
    PROVE  Chain(k2.head[m], k2.node, ls[m])
  <1>1. Chain(k.head[m], k.node, ls[m])
    BY DEF Linked
  <1>2. PICK nd : nd = k.node
    OBVIOUS
  <1>3. PICK nd2 : nd2 = k2.node
    OBVIOUS
  <1>4. PICK h : h = k.head[m]
    OBVIOUS
  <1>5. Chain(h, nd2, ls[m])
    BY <1>1, <1>2, <1>3, <1>4, ChainFrame
  <1> QED
    BY <1>3, <1>4, <1>5

\* The node at a precedes the one at h.
Entered(k, k2, a, h) ==
    \A c \in Addrs \ {a} : /\ k2.node[c].next = k.node[c].next
                           /\ k2.node[c].prev = IF c = h THEN a ELSE k.node[c].prev

\* The blocks of B have come on their list, which makes the lists ls2.
Entire(k2, ls, ls2, G, B) == Holds(k2, ls2, G) /\ Listed(ls2) = Listed(ls) \cup B

LEMMA PutOn ==
    ASSUME NEW k, NEW ls, NEW G, NEW l \in Levels, NEW a \in Addrs,
           Holds(k, ls, G \cup {Blk(l, a)}), Blk(l, a) \notin G, NEW k2 \in MemoryOK,
           k2.head = Put(k.head, l, a),
           k2.node[a].prev = NULL, k2.node[a].next = k.head[l],
           Entered(k, k2, a, k.head[l])
    PROVE  Entire(k2, ls, Put(ls, l, Front(a, ls[l])), G, {Blk(l, a)})
  <1>1. PICK p : p = ls[l]
    OBVIOUS
  <1>2. PICK h : h = k.head[l]
    OBVIOUS
  <1>3. Chain(h, k.node, p) /\ Path(p) /\ Range(p) \in SUBSET Addrs /\ a \notin Range(p)
    <2>1. Linked(k, ls) /\ Chain(k.head[l], k.node, p)
      BY <1>1 DEF Holds, Linked
    <2>2. Blk(l, a) \notin Listed(ls)
      BY DEF Holds
    <2> QED
      BY <1>1, <1>2, <2>1, <2>2, ListedIs
  <1>4. Linked(k, ls) /\ k.head \in [Levels -> Addrs \cup {NULL}] /\ k.node \in [Addrs -> DNODE]
    BY MemoryFields DEF Holds
  <1>5. h = IF Len(p) = 0 THEN NULL ELSE p[1]
    BY <1>3 DEF Chain
  <1>6. Len(p) \in Nat /\ \A i \in 1 .. Len(p) : p[i] \in Addrs /\ p[i] \in Range(p)
    BY <1>3, PathLength, RangeIs
  <1>7. \A i, m \in 1 .. Len(p) : p[i] = p[m] => i = m
    BY <1>3 DEF Path
  <1>8. PICK nd : nd = k.node
    OBVIOUS
  <1>9. PICK nd2 : nd2 = k2.node
    OBVIOUS
  <1>10. LinkedBehind(nd, nd2, p, a)
    <2> SUFFICES ASSUME NEW i \in 1 .. Len(p)
                 PROVE  /\ nd2[p[i]].next = nd[p[i]].next
                        /\ nd2[p[i]].prev = IF i = 1 THEN a ELSE nd[p[i]].prev
      BY DEF LinkedBehind
    <2>1. p[i] \in Addrs \ {a}
      BY <1>3, <1>6
    <2>2. p[i] = h <=> i = 1
      <3>1. 1 \in 1 .. Len(p) /\ Len(p) # 0
        BY <1>6
      <3> QED
        BY <1>5, <1>7, <3>1
    <2> QED
      BY <1>2, <1>8, <1>9, <2>1, <2>2 DEF Entered
  <1>11. PICK d : d = Front(a, p)
    OBVIOUS
  <1>12. Path(d) /\ Range(d) = Range(p) \cup {a} /\ d \in AddrSeqs
    BY <1>3, <1>11, FrontIs DEF Path, AddrSeqs
  <1>13. Chain(k2.head[l], k2.node, d)
    <2>1. nd2[a].prev = NULL /\ nd2[a].next = h /\ Chain(h, nd, p)
      BY <1>2, <1>3, <1>8, <1>9
    <2>2. Chain(a, nd2, Front(a, p))
      BY <1>3, <1>10, <2>1, ChainFront
    <2>3. k2.head[l] = a
      BY <1>4 DEF Put
    <2> QED
      BY <1>9, <1>11, <2>2, <2>3
  <1>14. ASSUME NEW m \in Levels, m # l
         PROVE  Chain(k2.head[m], k2.node, ls[m])
    <2>1. Range(ls[m]) \cap Range(p) = {} /\ a \notin Range(ls[m]) /\ Range(ls[m]) \in SUBSET Addrs
      <3>1. Blk(l, a) \in G \cup {Blk(l, a)} /\ Blk(l, a).addr = a
        BY BlkIs
      <3>2. PICK G2 : G2 = G \cup {Blk(l, a)}
        OBVIOUS
      <3>3. Holds(k, ls, G2) /\ Blk(l, a) \in G2
        BY <3>1, <3>2
      <3>4. Range(ls[m]) \cap Range(ls[l]) = {}
        BY <1>14, <3>3, AddrOnce
      <3>5. Blk(l, a).addr \notin Range(ls[m])
        BY <3>3, AddrOnce
      <3> QED
        BY <1>1, <1>4, <3>1, <3>4, <3>5, ListedIs
    <2>2. k2.head[m] = k.head[m]
      BY <1>4, <1>14 DEF Put
    <2>3. ASSUME NEW c \in Range(ls[m])
          PROVE  k2.node[c].prev = k.node[c].prev /\ k2.node[c].next = k.node[c].next
      <3>1. c \in Addrs \ {a} /\ c \notin Range(p) /\ c # NULL
        BY <2>1, AddrIs
      <3>2. c # h
        <4>1. Len(p) # 0 => 1 \in 1 .. Len(p)
          BY <1>6
        <4> QED
          BY <1>5, <1>6, <3>1, <4>1
      <3> QED
        BY <1>2, <3>1, <3>2 DEF Entered
    <2> QED
      BY <1>4, <2>2, <2>3, ListKept
  <1>15. PICK ls2 : ls2 = Put(ls, l, d)
    OBVIOUS
  <1>16. \A c \in Range(d) : Blk(l, c) \in Block
    <2>1. Blk(l, a) \in Block
      BY DEF Holds, Tiles
    <2> QED
      BY <1>1, <1>4, <1>12, <2>1 DEF Linked
  <1>17. Linked(k2, ls2) /\ \A b \in Block : b \in Listed(ls2)
            <=> IF b.level = l THEN b.addr \in Range(d) ELSE b \in Listed(ls)
    BY <1>4, <1>12, <1>13, <1>14, <1>15, <1>16, ListChanged
  <1>18. Listed(ls2) = Listed(ls) \cup {Blk(l, a)}
    <2>1. Blk(l, a) \in Block
      BY DEF Holds, Tiles
    <2>2. ASSUME NEW b \in Block
          PROVE  b \in Listed(ls2) <=> b \in Listed(ls) \/ b = Blk(l, a)
      <3>1. b = Blk(b.level, b.addr) /\ Blk(l, a).level = l /\ Blk(l, a).addr = a
        BY BlkIs
      <3>2. CASE b.level = l
        <4>1. b \in Listed(ls) <=> b.addr \in Range(p)
          BY <1>1, <1>4, <3>1, <3>2, ListedIs
        <4> QED
          BY <1>12, <1>17, <3>1, <3>2, <4>1
      <3>3. CASE b.level # l
        BY <1>17, <3>1, <3>3
      <3> QED
        BY <3>2, <3>3
    <2>3. Listed(ls2) \subseteq Block /\ Listed(ls) \subseteq Block
      BY DEF Listed
    <2> QED
      BY <2>1, <2>2, <2>3
  <1>19. Listed(ls2) \cup G = Listed(ls) \cup (G \cup {Blk(l, a)})
    BY <1>18
  <1>20. Listed(ls2) \cap G = {}
    BY <1>18 DEF Holds
  <1>21. Holds(k2, ls2, G)
    BY <1>17, <1>19, <1>20 DEF Holds
  <1> QED
    BY <1>1, <1>11, <1>15, <1>18, <1>21 DEF Entire

\* Only nodes at addresses of A are written.
Untouched(k, k2, A) == \A e \in Addrs \ A : k2.node[e] = k.node[e]

\* a and c are where the halves of the block u start, level l is theirs.
Halves(l, x, u, a, c) == /\ l > 0 /\ x \in 0 .. POWER2[l] - 1 /\ u = At(l - 1, x \div 2)
                         /\ a = x * Width(l) /\ c = Sibling(x) * Width(l)

\* The two halves of a block become the list of their level, which was empty.
LEMMA PutPair ==
    ASSUME NEW k, NEW ls, NEW G, NEW l \in Levels, NEW x, NEW u, NEW a, NEW c,
           Halves(l, x, u, a, c), Holds(k, ls, G \cup {u}), u \notin G, ls[l] = <<>>,
           NEW k2 \in MemoryOK, k2.head = Put(k.head, l, a),
           k2.node[a].prev = NULL, k2.node[a].next = c,
           k2.node[c].prev = a, k2.node[c].next = NULL,
           Untouched(k, k2, {a, c})
    PROVE  Entire(k2, ls, Put(ls, l, <<a, c>>), G, {Blk(l, a), Blk(l, c)})
  <1>0. /\ l > 0 /\ x \in 0 .. POWER2[l] - 1 /\ u = At(l - 1, x \div 2)
        /\ a = x * Width(l) /\ c = Sibling(x) * Width(l)
    BY DEF Halves
  <1>1. PICK y : y = Sibling(x)
    OBVIOUS
  <1>2. PICK s : s = At(l, x)
    OBVIOUS
  <1>3. PICK t : t = At(l, y)
    OBVIOUS
  <1>4. /\ s \in Block /\ t \in Block /\ u \in Block /\ l - 1 \in Levels /\ s # t
        /\ Cells(u) = Cells(s) \cup Cells(t) /\ y \in 0 .. POWER2[l] - 1
    BY <1>0, <1>1, <1>2, <1>3, HalvesAre, SiblingIs
  <1>5. s = Blk(l, a) /\ t = Blk(l, c) /\ s.addr = a /\ t.addr = c
        /\ s.level = l /\ t.level = l /\ u.level = l - 1
    BY <1>0, <1>1, <1>2, <1>3, BlkIs DEF At
  <1>6. a \in Addrs /\ c \in Addrs /\ a # c /\ a \in Cells(s) /\ c \in Cells(t)
        /\ a \in Cells(u) /\ c \in Cells(u)
    <2>1. a \in Addrs /\ c \in Addrs /\ a \in Cells(s) /\ c \in Cells(t)
      BY <1>4, <1>5, BlockAt, CellsAt
    <2> QED
      BY <1>4, <1>5, <2>1
  <1>7. Linked(k, ls) /\ k.head \in [Levels -> Addrs \cup {NULL}] /\ k.node \in [Addrs -> DNODE]
    BY MemoryFields DEF Holds
  <1>8. PICK d : d = <<a, c>>
    OBVIOUS
  <1>9. PICK nd2 : nd2 = k2.node
    OBVIOUS
  <1>10. Chain(a, nd2, d) /\ Range(d) = {a, c} /\ d \in AddrSeqs
    <2>1. Chain(a, nd2, d) /\ Range(d) = {a, c}
      BY <1>6, <1>8, <1>9, ChainPair
    <2> QED
      BY <2>1 DEF Chain, Path, AddrSeqs
  <1>11. k2.head[l] = a /\ Chain(k2.head[l], k2.node, d)
    BY <1>7, <1>9, <1>10 DEF Put
  <1>12. \A e \in Range(d) : Blk(l, e) \in Block
    BY <1>4, <1>5, <1>10
  <1>13. ASSUME NEW m \in Levels, m # l
         PROVE  Chain(k2.head[m], k2.node, ls[m])
    <2>1. k2.head[m] = k.head[m]
      BY <1>7, <1>13 DEF Put
    <2>2. ASSUME NEW e \in Range(ls[m])
          PROVE  e \in Addrs \ {a, c}
      <3>1. Blk(m, e) \in Listed(ls) /\ Blk(m, e).addr = e /\ e \in Addrs
        BY <1>7, ListedIs, BlkIs
      <3>2. PICK G2 : G2 = G \cup {u}
        OBVIOUS
      <3>3. Holds(k, ls, G2) /\ u \in G2
        BY <3>2
      <3>4. Blk(m, e).addr \notin Cells(u)
        BY <3>1, <3>3, AddrOnce
      <3> QED
        BY <1>6, <3>1, <3>4
    <2> QED
      BY <1>7, <2>1, <2>2, ListKept DEF Untouched
  <1>14. PICK ls2 : ls2 = Put(ls, l, d)
    OBVIOUS
  <1>15. Linked(k2, ls2) /\ \A b \in Block : b \in Listed(ls2)
            <=> IF b.level = l THEN b.addr \in Range(d) ELSE b \in Listed(ls)
    BY <1>7, <1>10, <1>11, <1>12, <1>13, <1>14, ListChanged
  <1>16. Listed(ls2) = Listed(ls) \cup {s, t}
    <2>1. ASSUME NEW b \in Block
          PROVE  b \in Listed(ls2) <=> b \in Listed(ls) \/ b \in {s, t}
      <3>1. b = Blk(b.level, b.addr)
        BY BlkIs
      <3>2. CASE b.level = l
        <4>1. b \notin Listed(ls)
          <5>1. Range(ls[l]) = {}
            <6>1. Path(ls[l]) /\ Len(ls[l]) = 0
              BY <1>7, ListedIs
            <6> QED
              BY <6>1, RangeIs
          <5> QED
            BY <3>2, <5>1 DEF Listed
        <4> QED
          BY <1>5, <1>10, <1>15, <3>1, <3>2, <4>1
      <3>3. CASE b.level # l
        BY <1>5, <1>15, <3>3
      <3> QED
        BY <3>2, <3>3
    <2>2. Listed(ls2) \subseteq Block /\ Listed(ls) \subseteq Block
      BY DEF Listed
    <2> QED
      BY <1>4, <2>1, <2>2
  <1>17. PICK T : T = Listed(ls) \cup (G \cup {u})
    OBVIOUS
  <1>18. Tiles(T) /\ u \in T /\ u \notin Listed(ls) /\ T \ {u} = Listed(ls) \cup G
    BY <1>17 DEF Holds
  <1>19. Tiles((T \ {u}) \cup {s, t})
    BY <1>0, <1>1, <1>2, <1>3, <1>18, TilesHalve
  <1>20. Listed(ls2) \cup G = (T \ {u}) \cup {s, t}
    BY <1>16, <1>18
  <1>21. s \notin G /\ t \notin G
    <2>1. ASSUME NEW b \in {s, t}, b \in G
          PROVE  FALSE
      <3>1. b \in T /\ b # u /\ b \in Block
        BY <1>17, <2>1, <1>4
      <3>2. b.addr \in Cells(u)
        BY <1>5, <1>6
      <3> QED
        BY <1>18, <3>1, <3>2, TileAt
    <2> QED
      BY <2>1
  <1>22. Listed(ls2) \cap G = {}
    BY <1>16, <1>21 DEF Holds
  <1>23. Holds(k2, ls2, G)
    BY <1>15, <1>19, <1>20, <1>22 DEF Holds
  <1> QED
    BY <1>5, <1>8, <1>14, <1>16, <1>23 DEF Entire

\* What a caller writes in its block, the allocator does not see.
LEMMA Scribbled ==
    ASSUME NEW k, NEW ls, NEW G, Holds(k, ls, G), NEW g \in G, NEW k2 \in MemoryOK,
           k2.head = k.head, Untouched(k, k2, Cells(g))
    PROVE  Holds(k2, ls, G)
  <1>1. Linked(k, ls)
    BY DEF Holds
  <1>2. ASSUME NEW m \in Levels
        PROVE  Chain(k2.head[m], k2.node, ls[m])
    <2>1. ASSUME NEW e \in Range(ls[m])
          PROVE  e \in Addrs \ Cells(g)
      <3>1. Blk(m, e) \in Listed(ls) /\ Blk(m, e).addr = e /\ e \in Addrs
        BY <1>1, ListedIs, BlkIs
      <3>2. Blk(m, e).addr \notin Cells(g)
        BY <3>1, AddrOnce
      <3> QED
        BY <3>1, <3>2
    <2> QED
      BY <1>1, <2>1, ListKept DEF Untouched
  <1>3. Linked(k2, ls)
    BY <1>1, <1>2 DEF Linked
  <1> QED
    BY <1>3 DEF Holds

\* The bits are no part of the lists.
LEMMA BitsApart ==
    ASSUME NEW k, NEW ls, NEW G, Holds(k, ls, G), NEW k2 \in MemoryOK,
           k2.head = k.head, k2.node = k.node
    PROVE  Holds(k2, ls, G)
  <1>1. Linked(k2, ls)
    BY DEF Holds, Linked
  <1> QED
    BY <1>1 DEF Holds

----------------------------------------------------------------------------
(***************************************************************************)
(* The operations on the memory.                                           *)
(***************************************************************************)
LEMMA BitIs ==
    ASSUME NEW k \in MemoryOK, NEW l \in Levels, NEW x \in 0 .. POWER2[l] - 1
    PROVE  /\ set_bit(k, l, x) \in MemoryOK /\ set_bit(k, l, x).head = k.head
           /\ set_bit(k, l, x).node = k.node
           /\ set_bit(k, l, x).bit_tree = Marked(k.bit_tree, l, x, 1)
           /\ clear_bit(k, l, x) \in MemoryOK /\ clear_bit(k, l, x).head = k.head
           /\ clear_bit(k, l, x).node = k.node
           /\ clear_bit(k, l, x).bit_tree = Marked(k.bit_tree, l, x, 0)
           /\ check_bit(k, l, x) \in {0, 1}
  <1>1. PICK i : i = Index(l, x)
    OBVIOUS
  <1>2. i \in Nodes
    BY <1>1, IndexIs
  <1>3. k.bit_tree \in [Nodes -> {0, 1}]
    BY MemoryFields
  <1>4. ASSUME NEW v \in {0, 1}
        PROVE  [k.bit_tree EXCEPT ![i] = v] \in [Nodes -> {0, 1}]
    BY <1>2, <1>3
  <1>5. ASSUME NEW v, NEW bt \in [Nodes -> {0, 1}], bt = [k.bit_tree EXCEPT ![i] = v]
        PROVE  /\ [k EXCEPT !.bit_tree[i] = v] \in MemoryOK
               /\ [k EXCEPT !.bit_tree[i] = v].head = k.head
               /\ [k EXCEPT !.bit_tree[i] = v].node = k.node
               /\ [k EXCEPT !.bit_tree[i] = v].bit_tree = bt
    BY <1>5 DEF MemoryOK
  <1>6. check_bit(k, l, x) \in {0, 1}
    BY <1>1, <1>2, <1>3 DEF check_bit
  <1> QED
    BY <1>1, <1>4, <1>5, <1>6 DEF set_bit, clear_bit, Marked

\* The block at the head of a list that is not empty.
LEMMA HeadIs ==
    ASSUME NEW k, NEW ls, NEW G, Holds(k, ls, G), NEW l \in Levels
    PROVE  /\ k.head[l] = NULL <=> ls[l] = <<>>
           /\ k.head[l] # NULL =>
                 /\ 1 \in 1 .. Len(ls[l]) /\ ls[l][1] = k.head[l] /\ k.head[l] \in Addrs
                 /\ k.node[k.head[l]].prev = NULL
                 /\ Blk(l, k.head[l]) \in Listed(ls) /\ Blk(l, k.head[l]) \in Block
           /\ Path(ls[l]) /\ FreeList(k, l) = ls[l]
           /\ \A i \in 1 .. Len(ls[l]) : k.node[ls[l][i]].next \in Addrs \cup {NULL}
  <1>1. PICK p : p = ls[l]
    OBVIOUS
  <1>2. Linked(k, ls) /\ Chain(k.head[l], k.node, p) /\ \A a \in Range(p) : Blk(l, a) \in Block
    BY <1>1 DEF Holds, Linked
  <1>3. Path(p) /\ Len(p) \in Nat /\ \A i \in 1 .. Len(p) : p[i] \in Addrs /\ p[i] \in Range(p)
    BY <1>2, PathLength, RangeIs DEF Chain
  <1>4. k.head[l] = IF Len(p) = 0 THEN NULL ELSE p[1]
    BY <1>2 DEF Chain
  <1>5. Len(p) = 0 <=> p = <<>>
    <2>1. p \in Seq(Addrs)
      BY <1>3 DEF Path
    <2> QED
      BY <2>1, EmptySeq
  <1>6. Len(p) # 0 => 1 \in 1 .. Len(p)
    BY <1>3
  <1>7. FreeList(k, l) = p
    BY <1>2, FreeListIs
  <1>8. \A i \in 1 .. Len(p) : /\ k.node[p[i]].prev = IF i = 1 THEN NULL ELSE p[i - 1]
                               /\ k.node[p[i]].next = IF i = Len(p) THEN NULL ELSE p[i + 1]
    BY <1>2 DEF Chain
  <1>9. ASSUME NEW i \in 1 .. Len(p)
        PROVE  k.node[p[i]].next \in Addrs \cup {NULL}
    <2>1. i # Len(p) => i + 1 \in 1 .. Len(p)
      BY <1>3
    <2> QED
      BY <1>3, <1>8, <2>1
  <1>10. ASSUME k.head[l] # NULL
         PROVE  /\ 1 \in 1 .. Len(p) /\ p[1] = k.head[l] /\ k.head[l] \in Addrs
                /\ k.node[k.head[l]].prev = NULL
                /\ Blk(l, k.head[l]) \in Listed(ls) /\ Blk(l, k.head[l]) \in Block
    <2>1. 1 \in 1 .. Len(p) /\ p[1] = k.head[l]
      BY <1>4, <1>6, <1>10
    <2>2. k.head[l] \in Addrs /\ k.node[k.head[l]].prev = NULL
      BY <1>3, <1>8, <2>1
    <2>3. Blk(l, k.head[l]) \in Listed(ls) /\ Blk(l, k.head[l]) \in Block
      BY <1>1, <1>2, <1>3, <2>1, ListedIs
    <2> QED
      BY <2>1, <2>2, <2>3
  <1>11. k.head[l] = NULL <=> p = <<>>
    <2>1. Len(p) # 0 => p[1] # NULL
      BY <1>3, <1>6, AddrIs
    <2> QED
      BY <1>4, <1>5, <2>1
  <1>12. \A i \in 1 .. Len(ls[l]) : k.node[ls[l][i]].next \in Addrs \cup {NULL}
    BY <1>1, <1>9
  <1> QED
    BY <1>1, <1>3, <1>7, <1>10, <1>11, <1>12

LEMMA RelinkedIs ==
    ASSUME NEW k \in MemoryOK, NEW n, NEW q \in Link
    PROVE  /\ Relinked(k, n, q) \in [Addrs -> DNODE]
           /\ \A a \in Addrs : /\ Relinked(k, n, q)[a].next = k.node[a].next
                               /\ Relinked(k, n, q)[a].prev = IF a = n THEN q ELSE k.node[a].prev
  <1>1. k.node \in [Addrs -> DNODE]
    BY MemoryFields
  <1>2. ASSUME NEW a \in Addrs
        PROVE  /\ [k.node[a] EXCEPT !.prev = q] \in DNODE
               /\ [k.node[a] EXCEPT !.prev = q].next = k.node[a].next
               /\ [k.node[a] EXCEPT !.prev = q].prev = q
    <2>1. k.node[a] \in DNODE
      BY <1>1
    <2> QED
      BY <2>1 DEF DNODE
  <1>3. PICK r : r = Relinked(k, n, q)
    OBVIOUS
  <1>4. r = [a \in Addrs |-> IF a = n THEN [k.node[a] EXCEPT !.prev = q] ELSE k.node[a]]
    BY <1>3 DEF Relinked
  <1>5. r \in [Addrs -> DNODE]
    BY <1>1, <1>2, <1>4
  <1>6. \A a \in Addrs : r[a] = IF a = n THEN [k.node[a] EXCEPT !.prev = q] ELSE k.node[a]
    BY <1>4
  <1> QED
    BY <1>2, <1>3, <1>5, <1>6

LEMMA TakeHeadIs ==
    ASSUME NEW k, NEW ls, NEW G, Holds(k, ls, G), NEW l \in Levels, k.head[l] # NULL,
           NEW a, a = k.head[l]
    PROVE  /\ TakeHead(k, l) \in MemoryOK
           /\ TakeHead(k, l).bit_tree = Marked(k.bit_tree, l, Nth(a, l), 1)
           /\ Taken(TakeHead(k, l), ls, Put(ls, l, Drop(ls[l], 1)), G, Blk(l, a))
  <1>1. PICK n : n = k.node[a].next
    OBVIOUS
  <1>2. /\ 1 \in 1 .. Len(ls[l]) /\ a = ls[l][1] /\ a \in Addrs /\ k.node[a].prev = NULL
        /\ n \in Addrs \cup {NULL}
    BY <1>1, HeadIs
  <1>3. n # JUNK
    BY <1>2, AddrIs
  <1>4. k \in MemoryOK
    BY DEF Holds
  <1>5. PICK k1 : k1 = [k EXCEPT !.head[l] = n, !.node = Relinked(k, n, NULL)]
    OBVIOUS
  <1>6. PICK nd : nd = Relinked(k, n, NULL)
    OBVIOUS
  <1>7. /\ nd \in [Addrs -> DNODE]
        /\ \A c \in Addrs : /\ nd[c].next = k.node[c].next
                            /\ nd[c].prev = IF c = n THEN NULL ELSE k.node[c].prev
    BY <1>4, <1>6, RelinkedIs DEF Link
  <1>8. /\ k1 \in MemoryOK /\ k1.head = Put(k.head, l, n) /\ k1.node = nd
        /\ k1.bit_tree = k.bit_tree
    <2>1. PICK hd : hd = Put(k.head, l, n)
      OBVIOUS
    <2>2. hd \in [Levels -> Addrs \cup {NULL}]
      BY <1>2, <1>4, <2>1, MemoryFields DEF Put
    <2>3. k1 = [k EXCEPT !.head = hd, !.node = nd]
      BY <1>5, <1>6, <2>1 DEF Put
    <2> QED
      BY <1>4, <1>7, <2>1, <2>2, <2>3 DEF MemoryOK
  <1>9. PICK x : x = Nth(a, l)
    OBVIOUS
  <1>10. x \in 0 .. POWER2[l] - 1
    BY <1>2, <1>9, NthRange
  <1>11. PICK k2 : k2 = TakeHead(k, l)
    OBVIOUS
  <1>12. k2 = set_bit(k1, l, x)
    BY <1>1, <1>3, <1>5, <1>9, <1>11 DEF TakeHead
  <1>13. /\ k2 \in MemoryOK /\ k2.head = Put(k.head, l, n) /\ k2.node = nd
         /\ k2.bit_tree = Marked(k.bit_tree, l, x, 1)
    <2>1. /\ set_bit(k1, l, x) \in MemoryOK /\ set_bit(k1, l, x).head = k1.head
          /\ set_bit(k1, l, x).node = k1.node
          /\ set_bit(k1, l, x).bit_tree = Marked(k1.bit_tree, l, x, 1)
      <3>1. k1 \in MemoryOK
        BY <1>8
      <3>2. PICK k3 : k3 = set_bit(k1, l, x)
        OBVIOUS
      <3>3. /\ k3 \in MemoryOK /\ k3.head = k1.head /\ k3.node = k1.node
            /\ k3.bit_tree = Marked(k1.bit_tree, l, x, 1)
        BY <1>10, <3>1, <3>2, BitIs
      <3> QED
        BY <3>2, <3>3
    <2> QED
      BY <1>8, <1>12, <2>1
  <1>14. k2.head = Put(k.head, l, IF 1 = 1 THEN k.node[a].next ELSE k.head[l])
    BY <1>1, <1>13
  <1>15. Bypassed(k, k2, a)
    BY <1>1, <1>2, <1>7, <1>13, AddrIs DEF Bypassed
  <1>16. Taken(k2, ls, Put(ls, l, Drop(ls[l], 1)), G, Blk(l, a))
    BY <1>2, <1>13, <1>14, <1>15, TakenOff
  <1> QED
    BY <1>9, <1>11, <1>13, <1>16

\* The halves of the block at the head of a list, by address.
LEMMA HalvesOf ==
    ASSUME NEW l \in Levels, NEW m, m = l + 1, m \in Levels, NEW a, Blk(l, a) \in Block,
           NEW x, x = Nth(a, m)
    PROVE  /\ x \in 0 .. POWER2[m] - 1 /\ m > 0 /\ m - 1 = l /\ a \in Addrs
           /\ a = x * Width(m) /\ a + Width(m) = Sibling(x) * Width(m)
           /\ x \div 2 = Nth(a, l) /\ Blk(l, a) = At(m - 1, x \div 2)
           /\ Nth(a + Width(m), m) = Sibling(x)
  <1>1. m \in Nat /\ l \in Nat /\ m > 0 /\ m - 1 = l
    BY WidthIs
  <1>2. PICK y : y = Nth(a, l)
    OBVIOUS
  <1>3. a \in Addrs /\ a = y * Width(l) /\ Blk(l, a) = At(l, y)
    BY <1>2, BlockAt, BlkIs
  <1>4. PICK w : w = Width(m)
    OBVIOUS
  <1>5. PICK p : p = POWER2[l]
    OBVIOUS
  <1>6. w \in Nat \ {0} /\ Width(l) = 2 * w /\ POWER2[m] = 2 * p /\ p \in Nat \ {0}
        /\ y \in 0 .. p - 1
    BY <1>1, <1>2, <1>3, <1>4, <1>5, WidthIs, NthRange
  <1>7. PICK z : z = 2 * y
    OBVIOUS
  <1>8. z \in 0 .. POWER2[m] - 1 /\ z \div 2 = y /\ z % 2 = 0 /\ y \in Nat /\ z \in Nat
    BY <1>6, <1>7
  <1>9. a = z * w
    BY <1>3, <1>6, <1>7
  <1>10. x = z
    BY <1>4, <1>8, <1>9, AtBlock
  <1>11. Sibling(x) = x + 1
    BY <1>8, <1>10 DEF Sibling
  <1>12. a + w = Sibling(x) * w
    BY <1>6, <1>8, <1>9, <1>10, <1>11
  <1>13. Nth(Sibling(x) * w, m) = Sibling(x)
    BY <1>1, <1>4, <1>8, <1>10, SiblingIs, AtBlock
  <1> QED
    BY <1>1, <1>2, <1>3, <1>4, <1>8, <1>9, <1>10, <1>12, <1>13

\* The second half, of level m, of a block of level l at a starts at c.
Below(l, a, m, c) == m = l + 1 /\ c = a + Width(m)

Halved(k2, ls, ls2, G, l, a, m, c) ==
    /\ Holds(k2, ls2, G)
    /\ Listed(ls2) = (Listed(ls) \ {Blk(l, a)}) \cup {Blk(m, a), Blk(m, c)}
    /\ \A n \in Levels : n \notin {l, m} => ls2[n] = ls[n]

LEMMA SplitIs ==
    ASSUME NEW k, NEW ls, NEW G, Holds(k, ls, G), NEW l \in Levels, k.head[l] # NULL,
           NEW a, a = k.head[l], NEW m \in Levels, NEW c, Below(l, a, m, c), ls[m] = <<>>,
           NEW k2, k2 = Split(k, l), NEW ls2,
           ls2 = Put(Put(ls, l, Drop(ls[l], 1)), m, <<a, c>>)
    PROVE  /\ k2.head[m] = a /\ k2.bit_tree = Marked(k.bit_tree, l, Nth(a, l), 1)
           /\ Halved(k2, ls, ls2, G, l, a, m, c)
  <1>1. PICK k1 : k1 = TakeHead(k, l)
    OBVIOUS
  <1>2. PICK ls1 : ls1 = Put(ls, l, Drop(ls[l], 1))
    OBVIOUS
  <1>3. PICK u : u = Blk(l, a)
    OBVIOUS
  <1>4. /\ k1 \in MemoryOK /\ k1.bit_tree = Marked(k.bit_tree, l, Nth(a, l), 1)
        /\ Holds(k1, ls1, G \cup {u}) /\ Listed(ls1) = Listed(ls) \ {u}
        /\ u \in Listed(ls) /\ u \notin G
    <2>1. /\ TakeHead(k, l) \in MemoryOK
          /\ TakeHead(k, l).bit_tree = Marked(k.bit_tree, l, Nth(a, l), 1)
      BY TakeHeadIs
    <2>2. Taken(TakeHead(k, l), ls, Put(ls, l, Drop(ls[l], 1)), G, Blk(l, a))
      BY TakeHeadIs
    <2> QED
      BY <1>1, <1>2, <1>3, <2>1, <2>2 DEF Taken
  <1>5. PICK x : x = Nth(a, m)
    OBVIOUS
  <1>6. u \in Block
    BY <1>4 DEF Listed
  <1>7. /\ x \in 0 .. POWER2[m] - 1 /\ m > 0 /\ a \in Addrs /\ m - 1 = l
        /\ a = x * Width(m) /\ c = Sibling(x) * Width(m) /\ u = At(m - 1, x \div 2)
    BY <1>3, <1>5, <1>6, HalvesOf DEF Below
  <1>8. At(m, x) = Blk(m, a) /\ At(m, Sibling(x)) = Blk(m, c)
    BY <1>7, BlkIs
  <1>9. c \in Addrs /\ a # c
    <2>1. Sibling(x) \in 0 .. POWER2[m] - 1
      BY <1>7, SiblingIs
    <2>2. c \in Addrs
      BY <1>7, <2>1, AtBlock
    <2>3. At(m, x) # At(m, Sibling(x))
      BY <1>7, HalvesAre
    <2> QED
      BY <1>8, <2>2, <2>3
  <1>10. ls1[m] = <<>>
    <2>1. ls \in [Levels -> AddrSeqs]
      BY DEF Holds, Linked
    <2>2. m \in Nat /\ m # l
      <3>1. m \in Nat
        BY WidthIs
      <3> QED
        BY <1>7, <3>1
    <2> QED
      BY <1>2, <2>1, <2>2 DEF Put
  <1>11. PICK hd : hd = Put(k1.head, m, a)
    OBVIOUS
  <1>12. PICK nd : nd = [k1.node EXCEPT ![a] = [prev |-> NULL, next |-> c],
                                        ![c] = [prev |-> a, next |-> NULL]]
    OBVIOUS
  <1>13. k1.head \in [Levels -> Addrs \cup {NULL}] /\ k1.node \in [Addrs -> DNODE]
    BY <1>4, MemoryFields
  <1>14. hd \in [Levels -> Addrs \cup {NULL}] /\ hd[m] = a
    BY <1>7, <1>11, <1>13 DEF Put
  <1>15. [prev |-> NULL, next |-> c] \in DNODE /\ [prev |-> a, next |-> NULL] \in DNODE
    BY <1>7, <1>9 DEF DNODE, Link
  <1>16. /\ nd \in [Addrs -> DNODE]
         /\ nd[a] = [prev |-> NULL, next |-> c] /\ nd[c] = [prev |-> a, next |-> NULL]
         /\ \A e \in Addrs \ {a, c} : nd[e] = k1.node[e]
    BY <1>7, <1>9, <1>12, <1>13, <1>15
  <1>17. k2 = [k1 EXCEPT !.head = hd, !.node = nd]
    <2>1. k2 = [k1 EXCEPT !.head[m] = a, !.node[a] = [prev |-> NULL, next |-> c],
                          !.node[c] = [prev |-> a, next |-> NULL]]
      BY <1>1 DEF Split, Below
    <2> QED
      BY <1>4, <1>11, <1>12, <2>1 DEF MemoryOK, Put
  <1>18. k2 \in MemoryOK /\ k2.head = hd /\ k2.node = nd /\ k2.bit_tree = k1.bit_tree
    BY <1>4, <1>14, <1>16, <1>17 DEF MemoryOK
  <1>19. Untouched(k1, k2, {a, c})
    BY <1>16, <1>18 DEF Untouched
  <1>20. /\ k2.node[a].prev = NULL /\ k2.node[a].next = c
         /\ k2.node[c].prev = a /\ k2.node[c].next = NULL
    BY <1>16, <1>18
  <1>21. ls2 = Put(ls1, m, <<a, c>>)
    BY <1>2
  <1>22. Entire(k2, ls1, Put(ls1, m, <<a, c>>), G, {Blk(m, a), Blk(m, c)})
    <2>1. k2.head = Put(k1.head, m, a) /\ k2 \in MemoryOK
      BY <1>11, <1>18
    <2>2. Halves(m, x, u, a, c)
      BY <1>7 DEF Halves
    <2> QED
      BY <1>4, <1>10, <1>19, <1>20, <2>1, <2>2, PutPair
  <1>23. \A n \in Levels : n \notin {l, m} => ls2[n] = ls[n]
    <2>1. ls \in [Levels -> AddrSeqs]
      BY DEF Holds, Linked
    <2> QED
      BY <1>2, <1>21, <2>1 DEF Put
  <1> QED
    BY <1>3, <1>4, <1>14, <1>18, <1>21, <1>22, <1>23 DEF Entire, Halved

----------------------------------------------------------------------------
(***************************************************************************)
(* Allocation: the block at a is split from the level it was found at down *)
(* to the level asked for.                                                 *)
(***************************************************************************)
\* U, and the node of level l - 1 that a is in.
Above(U, a, l) == IF l = 0 THEN U ELSE U \cup {At(l - 1, Nth(a, l - 1))}

\* The nodes that are busy with U, or above level l on the way to a.
LEMMA AboveBusy ==
    ASSUME NEW U, NEW a \in Addrs, NEW l \in 0 .. MAX_LEVELS, NEW m \in Levels, NEW y
    PROVE  Busy(Above(U, a, l), m, y) <=> Busy(U, m, y) \/ (m < l /\ y = Nth(a, m))
  <1>1. m \in Nat
    BY WidthIs
  <1>2. CASE l = 0
    BY <1>1, <1>2 DEF Above
  <1>3. CASE l # 0
    <2>1. PICK n : n = l - 1
      OBVIOUS
    <2>2. n \in Levels /\ n \in Nat /\ l = n + 1
      BY <1>3, <2>1 DEF Levels
    <2>3. PICK x : x = Nth(a, n)
      OBVIOUS
    <2>4. PICK b : b = At(n, x)
      OBVIOUS
    <2>5. Above(U, a, l) = U \cup {b}
      BY <1>3, <2>1, <2>3, <2>4 DEF Above
    <2>6. b.level = n /\ b.addr \in Addrs /\ Nth(b.addr, n) = Nth(a, n)
      BY <2>2, <2>3, <2>4, NthRange, AtBlock DEF At
    <2>7. m <= n => Nth(b.addr, m) = Nth(a, m)
      <3>1. m <= n => m \in 0 .. n
        BY <1>1, <2>2
      <3> QED
        BY <2>2, <2>6, <3>1, NthSame
    <2>8. Busy(U \cup {b}, m, y) <=> Busy(U, m, y) \/ (n >= m /\ Nth(b.addr, m) = y)
      BY <2>6, BusyWith
    <2> QED
      BY <1>1, <2>2, <2>5, <2>7, <2>8
  <1> QED
    BY <1>2, <1>3

LEMMA BitsSame ==
    ASSUME NEW bt, NEW U, BitsFor(bt, U), NEW V,
           \A m \in Levels : \A y \in 0 .. POWER2[m] - 1 : Busy(V, m, y) <=> Busy(U, m, y)
    PROVE  BitsFor(bt, V)
  BY DEF BitsFor

\* What makes the buddy of a's node busy makes the nodes above busy.
LEMMA BusyBeside ==
    ASSUME NEW U, U \subseteq Block, NEW a \in Addrs, NEW l \in Levels, l > 0,
           Busy(U, l, Sibling(Nth(a, l)))
    PROVE  \A m \in Levels : m < l => Busy(U, m, Nth(a, m))
  <1>1. PICK x : x = Nth(a, l)
    OBVIOUS
  <1>2. x \in 0 .. POWER2[l] - 1 /\ l \in Nat /\ l - 1 \in Levels
    BY <1>1, NthRange, WidthIs
  <1>3. PICK u \in U : u.level >= l /\ Nth(u.addr, l) = Sibling(x)
    BY <1>1 DEF Busy
  <1>4. u.addr \in Addrs /\ u.level \in Levels /\ u.level \in Nat
    BY BlockAt, WidthIs
  <1>5. Nth(u.addr, l - 1) = Nth(a, l - 1)
    <2>1. Nth(u.addr, l - 1) = Sibling(x) \div 2 /\ Nth(a, l - 1) = x \div 2
      BY <1>1, <1>3, <1>4, NthUp
    <2>2. Sibling(x) \div 2 = x \div 2
      BY <1>2, SiblingIs
    <2> QED
      BY <2>1, <2>2
  <1> SUFFICES ASSUME NEW m \in Levels, m < l
               PROVE  Busy(U, m, Nth(a, m))
    OBVIOUS
  <1>6. m \in 0 .. l - 1 /\ u.level >= m
    BY <1>2, <1>3, <1>4, WidthIs
  <1>7. Nth(u.addr, m) = Nth(a, m)
    BY <1>2, <1>4, <1>5, <1>6, NthSame
  <1> QED
    BY <1>6, <1>7 DEF Busy

LEMMA AddsNode ==
    ASSUME NEW U, NEW l \in Levels, NEW a \in Addrs
    PROVE  Adds(Above(U, a, l + 1), Above(U, a, l), l, Nth(a, l))
  <1>1. l \in Nat /\ l \in 0 .. MAX_LEVELS /\ l + 1 \in 0 .. MAX_LEVELS
    BY WidthIs DEF Levels
  <1>2. ASSUME NEW m \in Levels, NEW y
        PROVE  Busy(Above(U, a, l + 1), m, y)
                  <=> Busy(Above(U, a, l), m, y) \/ (m = l /\ y = Nth(a, m))
    <2>1. m \in Nat
      BY WidthIs
    <2>2. m < l + 1 <=> m < l \/ m = l
      BY <1>1, <2>1
    <2>3. Busy(Above(U, a, l + 1), m, y) <=> Busy(U, m, y) \/ (m < l + 1 /\ y = Nth(a, m))
      BY <1>1, AboveBusy
    <2>4. Busy(Above(U, a, l), m, y) <=> Busy(U, m, y) \/ (m < l /\ y = Nth(a, m))
      BY <1>1, AboveBusy
    <2> QED
      BY <2>2, <2>3, <2>4
  <1>3. Busy(Above(U, a, l + 1), 0, 0) => Busy(Above(U, a, l), 0, 0) \/ l = 0
    BY <1>2, TopWidth
  <1> QED
    BY <1>2, <1>3 DEF Adds

Descends(k, ls, H, a, l, to) ==
    /\ Holds(k, ls, H) /\ a \in Addrs /\ k.head[l] = a
    /\ Merged(Listed(ls) \ {Blk(l, a)})
    /\ BitsFor(k.bit_tree, Above(H, a, l))
    /\ \A m \in Levels : l < m /\ m <= to => ls[m] = <<>>

\* What the allocator's memory is between calls, H the blocks callers have.
Sound(k, ls, H) == Holds(k, ls, H) /\ Merged(Listed(ls)) /\ BitsFor(k.bit_tree, H)

LEMMA DescendStart ==
    ASSUME NEW k, NEW ls, NEW H, Sound(k, ls, H), NEW l \in Levels, k.head[l] # NULL, NEW to,
           \A m \in Levels : l < m /\ m <= to => k.head[m] = NULL
    PROVE  Descends(k, ls, H, k.head[l], l, to)
  <1>1. PICK a : a = k.head[l]
    OBVIOUS
  <1>2. Holds(k, ls, H) /\ Merged(Listed(ls)) /\ BitsFor(k.bit_tree, H)
    BY DEF Sound
  <1>3. a \in Addrs /\ Blk(l, a) \in Listed(ls) /\ Blk(l, a) \in Block
    BY <1>1, <1>2, HeadIs
  <1>4. \A m \in Levels : l < m /\ m <= to => ls[m] = <<>>
    BY <1>2, HeadIs
  <1>5. Merged(Listed(ls) \ {Blk(l, a)})
    BY <1>2 DEF Merged
  <1>6. l \in Nat /\ l \in 0 .. MAX_LEVELS
    BY WidthIs DEF Levels
  <1>7. \A m \in Levels : m < l => Busy(H, m, Nth(a, m))
    <2>1. CASE l = 0
      BY <1>6, <2>1, WidthIs
    <2>2. CASE l > 0
      <3>1. PICK x : x = Nth(a, l)
        OBVIOUS
      <3>2. x \in 0 .. POWER2[l] - 1
        BY <1>3, <3>1, NthRange
      <3>3. At(l, x) = Blk(l, a)
        BY <1>3, <3>1, BlockAt, BlkIs
      <3>4. Tiles(Listed(ls) \cup H) /\ At(l, x) \in Listed(ls) \cup H
        BY <1>2, <1>3, <3>3 DEF Holds
      <3>5. At(l, Sibling(x)) \notin Listed(ls)
        BY <1>2, <1>3, <2>2, <3>2, <3>3 DEF Merged
      <3>6. Busy(H, l, Sibling(x))
        BY <1>2, <2>2, <3>2, <3>4, <3>5, BuddyFree
      <3>7. H \subseteq Block
        BY <3>4 DEF Tiles
      <3> QED
        BY <1>3, <2>2, <3>1, <3>6, <3>7, BusyBeside
    <2>3. l = 0 \/ l > 0
      BY <1>6
    <2> QED
      BY <2>1, <2>2, <2>3
  <1>8. ASSUME NEW m \in Levels, NEW y \in 0 .. POWER2[m] - 1
        PROVE  Busy(Above(H, a, l), m, y) <=> Busy(H, m, y)
    <2>1. Busy(Above(H, a, l), m, y) <=> Busy(H, m, y) \/ (m < l /\ y = Nth(a, m))
      BY <1>3, <1>6, AboveBusy
    <2> QED
      BY <1>7, <2>1
  <1>9. BitsFor(k.bit_tree, Above(H, a, l))
    BY <1>2, <1>8, BitsSame
  <1> QED
    BY <1>1, <1>2, <1>3, <1>4, <1>5, <1>9 DEF Descends

LEMMA DescendStep ==
    ASSUME NEW k, NEW ls, NEW H, NEW a, NEW l \in Levels, NEW to \in Levels, l < to,
           Descends(k, ls, H, a, l, to)
    PROVE  \E ls2 : Descends(Split(k, l), ls2, H, a, l + 1, to)
  <1>1. PICK k2 : k2 = Split(k, l)
    OBVIOUS
  <1>2. PICK m : m = l + 1
    OBVIOUS
  <1>3. m \in Levels /\ l \in Nat /\ m \in Nat /\ to \in Nat /\ l < m /\ m <= to /\ m > 0
    BY <1>2, WidthIs DEF Levels
  <1>4. PICK c : c = a + Width(m)
    OBVIOUS
  <1>5. /\ Holds(k, ls, H) /\ a \in Addrs /\ k.head[l] = a /\ ls[m] = <<>>
        /\ Merged(Listed(ls) \ {Blk(l, a)}) /\ BitsFor(k.bit_tree, Above(H, a, l))
        /\ \A n \in Levels : l < n /\ n <= to => ls[n] = <<>>
    BY <1>3 DEF Descends
  <1>6. Below(l, a, m, c) /\ k.head[l] # NULL
    BY <1>2, <1>4, <1>5, AddrIs DEF Below
  <1>7. PICK ls2 : ls2 = Put(Put(ls, l, Drop(ls[l], 1)), m, <<a, c>>)
    OBVIOUS
  <1>8. /\ Holds(k2, ls2, H) /\ k2.head[m] = a
        /\ k2.bit_tree = Marked(k.bit_tree, l, Nth(a, l), 1)
        /\ Listed(ls2) = (Listed(ls) \ {Blk(l, a)}) \cup {Blk(m, a), Blk(m, c)}
        /\ \A n \in Levels : n \notin {l, m} => ls2[n] = ls[n]
    <2>1. /\ k2.head[m] = a /\ k2.bit_tree = Marked(k.bit_tree, l, Nth(a, l), 1)
          /\ Halved(k2, ls, ls2, H, l, a, m, c)
      BY <1>1, <1>3, <1>5, <1>6, <1>7, SplitIs
    <2> QED
      BY <2>1 DEF Halved
  <1>9. PICK x : x = Nth(a, m)
    OBVIOUS
  <1>10. /\ x \in 0 .. POWER2[m] - 1 /\ Nth(c, m) = Sibling(x)
         /\ a = x * Width(m) /\ c = Sibling(x) * Width(m)
    <2>1. Blk(l, a) \in Block
      BY <1>5, <1>6, HeadIs
    <2> QED
      BY <1>2, <1>3, <1>4, <1>9, <2>1, HalvesOf
  <1>11. At(m, x) = Blk(m, a) /\ At(m, Sibling(x)) = Blk(m, c)
    BY <1>10, BlkIs
  <1>12. PICK F : F = Listed(ls) \ {Blk(l, a)}
    OBVIOUS
  <1>13. Merged(Listed(ls2) \ {Blk(m, a)})
    <2> SUFFICES ASSUME NEW n \in Levels, NEW y \in 0 .. POWER2[n] - 1, n > 0,
                        At(n, y) \in Listed(ls2) \ {Blk(m, a)},
                        At(n, Sibling(y)) \in Listed(ls2) \ {Blk(m, a)}
                 PROVE  FALSE
      BY DEF Merged
    <2>1. At(n, y) \in F \cup {Blk(m, c)} /\ At(n, Sibling(y)) \in F \cup {Blk(m, c)}
      BY <1>8, <1>12
    <2>2. Sibling(y) \in 0 .. POWER2[n] - 1 /\ Sibling(Sibling(y)) = y
          /\ Sibling(x) \in 0 .. POWER2[m] - 1 /\ Sibling(Sibling(x)) = x
      BY <1>3, <1>10, SiblingIs
    <2>3. ASSUME NEW z \in 0 .. POWER2[n] - 1, At(n, z) = Blk(m, c)
          PROVE  n = m /\ z = Sibling(x)
      <3>1. n = m /\ z * Width(n) = c
        BY <2>3, BlkIs
      <3>2. Nth(z * Width(n), n) = z
        BY AtBlock
      <3> QED
        BY <1>10, <3>1, <3>2
    <2>4. At(n, y) # Blk(m, c)
      <3> SUFFICES ASSUME At(n, y) = Blk(m, c) PROVE FALSE
        OBVIOUS
      <3>1. n = m /\ y = Sibling(x)
        BY <2>3
      <3> QED
        BY <1>11, <2>2, <3>1
    <2>5. At(n, Sibling(y)) # Blk(m, c)
      <3> SUFFICES ASSUME At(n, Sibling(y)) = Blk(m, c) PROVE FALSE
        OBVIOUS
      <3>1. n = m /\ Sibling(y) = Sibling(x)
        BY <2>2, <2>3
      <3>2. y = x
        BY <2>2, <3>1
      <3> QED
        BY <1>11, <3>1, <3>2
    <2> QED
      BY <1>5, <1>12, <2>1, <2>4, <2>5 DEF Merged
  <1>14. BitsFor(k2.bit_tree, Above(H, a, m))
    <2>1. Nth(a, l) \in 0 .. POWER2[l] - 1
      BY <1>5, NthRange
    <2>2. Adds(Above(H, a, m), Above(H, a, l), l, Nth(a, l))
      BY <1>2, <1>5, AddsNode
    <2> QED
      BY <1>5, <1>8, <2>1, <2>2, SetBit
  <1>15. \A n \in Levels : m < n /\ n <= to => ls2[n] = <<>>
    <2>1. ASSUME NEW n \in Levels, m < n, n <= to
          PROVE  ls2[n] = <<>>
      <3>1. n \in Nat /\ n \notin {l, m} /\ l < n
        BY <1>3, <2>1, WidthIs
      <3> QED
        BY <1>5, <1>8, <2>1, <3>1
    <2> QED
      BY <2>1
  <1> QED
    BY <1>1, <1>2, <1>5, <1>8, <1>13, <1>14, <1>15 DEF Descends

\* At the level asked for, the block is taken.
LEMMA DescendEnd ==
    ASSUME NEW k, NEW ls, NEW H, NEW a, NEW l \in Levels, Descends(k, ls, H, a, l, l)
    PROVE  /\ \E ls2 : Sound(TakeHead(k, l), ls2, H \cup {Blk(l, a)})
           /\ k.head[l] = a /\ Blk(l, a) \in Block /\ Blk(l, a) \notin H
           /\ \A h \in H : ~Overlap(Blk(l, a), h)
  <1>1. PICK k2 : k2 = TakeHead(k, l)
    OBVIOUS
  <1>2. PICK u : u = Blk(l, a)
    OBVIOUS
  <1>3. /\ Holds(k, ls, H) /\ a \in Addrs /\ k.head[l] = a
        /\ Merged(Listed(ls) \ {u}) /\ BitsFor(k.bit_tree, Above(H, a, l))
    BY <1>2 DEF Descends
  <1>4. k.head[l] # NULL
    BY <1>3, AddrIs
  <1>5. PICK ls2 : ls2 = Put(ls, l, Drop(ls[l], 1))
    OBVIOUS
  <1>6. k2.bit_tree = Marked(k.bit_tree, l, Nth(a, l), 1) /\ Taken(k2, ls, ls2, H, u)
    BY <1>1, <1>2, <1>3, <1>4, <1>5, TakeHeadIs
  <1>7. /\ Holds(k2, ls2, H \cup {u}) /\ Listed(ls2) = Listed(ls) \ {u}
        /\ u \in Listed(ls) /\ u \notin H
    BY <1>6 DEF Taken
  <1>8. u \in Block
    BY <1>7 DEF Listed
  <1>9. u = At(l, Nth(a, l))
    BY <1>2, <1>8, BlockAt, BlkIs
  <1>10. Above(H, a, l + 1) = H \cup {u}
    <2>1. l \in Nat /\ l + 1 # 0 /\ (l + 1) - 1 = l
      BY WidthIs
    <2> QED
      BY <1>9, <2>1 DEF Above
  <1>11. BitsFor(k2.bit_tree, H \cup {u})
    <2>1. Nth(a, l) \in 0 .. POWER2[l] - 1
      BY <1>3, NthRange
    <2>2. Adds(Above(H, a, l + 1), Above(H, a, l), l, Nth(a, l))
      BY <1>3, AddsNode
    <2>3. Adds(H \cup {u}, Above(H, a, l), l, Nth(a, l))
      BY <1>10, <2>2
    <2> QED
      BY <1>3, <1>6, <2>1, <2>3, SetBit
  <1>12. Sound(k2, ls2, H \cup {u})
    BY <1>3, <1>7, <1>11 DEF Sound
  <1>13. ASSUME NEW h \in H
         PROVE  ~Overlap(u, h)
    BY <1>3, <1>7 DEF Holds, Tiles
  <1> QED
    BY <1>1, <1>2, <1>3, <1>7, <1>8, <1>12, <1>13

LEMMA SplitDownIs ==
    ASSUME NEW ls, NEW H, NEW a, NEW from \in Levels, NEW to \in Levels, from <= to,
           Descends(Memory, ls, H, a, from, to)
    PROVE  \E ls2 : Descends(SplitDown(from, to), ls2, H, a, to, to)
  <1>1. PICK M : M = Memory
    OBVIOUS
  <1>2. PICK after : after = CHOOSE g : g = [l \in from .. to |->
                                IF l = from THEN M ELSE Split(g[l - 1], l - 1)]
    OBVIOUS
  <1>3. SplitDown(from, to) = after[to]
    BY <1>1, <1>2 DEF SplitDown
  <1>4. from \in Nat /\ to \in Nat /\ \A i \in from .. to : i \in Levels /\ i <= to
    BY WidthIs DEF Levels
  <1>5. \A i \in from + 1 .. to : i \in from .. to /\ i - 1 \in from .. to /\ i - 1 < to
                                  /\ i # from /\ (i - 1) + 1 = i /\ i - 1 \in Levels
    BY <1>4
  <1>6. PICK step : step = [i \in from + 1 .. to |-> [x \in MemoryOK |->
                       IF Split(x, i - 1) \in MemoryOK THEN Split(x, i - 1) ELSE x]]
    OBVIOUS
  <1>7. step \in [from + 1 .. to -> [MemoryOK -> MemoryOK]]
    BY <1>6
  <1>8. Descends(M, ls, H, a, from, to) /\ M \in MemoryOK
    BY <1>1 DEF Descends, Holds
  <1>9. PICK f : Runs(f, MemoryOK, M, from, to, step)
    BY <1>4, <1>7, <1>8, LoopRuns
  <1>10. f \in [from .. to -> MemoryOK] /\ f[from] = M
         /\ \A i \in from + 1 .. to : f[i] = step[i][f[i - 1]]
    BY <1>9 DEF Runs
  <1>11. ASSUME NEW i \in from + 1 .. to, NEW ls1, Descends(f[i - 1], ls1, H, a, i - 1, to)
         PROVE  f[i] = Split(f[i - 1], i - 1) /\ \E ls2 : Descends(f[i], ls2, H, a, i, to)
    <2>1. PICK j : j = i - 1
      OBVIOUS
    <2>2. j \in Levels /\ j < to /\ j + 1 = i /\ f[j] \in MemoryOK
      BY <1>5, <1>10, <2>1
    <2>3. PICK k : k = f[j]
      OBVIOUS
    <2>4. Descends(k, ls1, H, a, j, to)
      BY <1>11, <2>1, <2>3
    <2>5. PICK ls2 : Descends(Split(k, j), ls2, H, a, j + 1, to)
      BY <2>2, <2>4, DescendStep
    <2>6. Split(k, j) \in MemoryOK
      BY <2>5 DEF Descends, Holds
    <2>7. f[i] = Split(k, j)
      BY <1>6, <1>10, <2>1, <2>2, <2>3, <2>6
    <2> QED
      BY <2>1, <2>2, <2>3, <2>5, <2>7
  <1> DEFINE Bad == {i \in from .. to : ~ \E ls2 : Descends(f[i], ls2, H, a, i, to)}
  <1>12. Bad = {}
    <2> SUFFICES ASSUME Bad # {} PROVE FALSE
      OBVIOUS
    <2>1. Bad \in SUBSET Nat
      BY <1>4
    <2>2. PICK i \in Bad : \A j \in Bad : i <= j
      BY <2>1, LeastOf
    <2>3. i \in from .. to /\ ~ \E ls2 : Descends(f[i], ls2, H, a, i, to)
      OBVIOUS
    <2>4. i # from
      BY <1>8, <1>10, <2>3
    <2>5. i \in from + 1 .. to /\ i - 1 \in from .. to /\ i - 1 \notin Bad
      BY <1>4, <2>2, <2>3, <2>4
    <2>6. PICK ls1 : Descends(f[i - 1], ls1, H, a, i - 1, to)
      BY <2>5
    <2> QED
      BY <1>11, <2>3, <2>5, <2>6
  <1>13. ASSUME NEW i \in from .. to
         PROVE  \E ls2 : Descends(f[i], ls2, H, a, i, to)
    BY <1>12
  <1>14. ASSUME NEW i \in from .. to
         PROVE  f[i] = IF i = from THEN M ELSE Split(f[i - 1], i - 1)
    <2>1. CASE i = from
      BY <1>10, <2>1
    <2>2. CASE i # from
      <3>1. i \in from + 1 .. to
        BY <1>4, <2>2
      <3>2. i - 1 \in from .. to
        BY <1>5, <3>1
      <3>3. PICK ls1 : Descends(f[i - 1], ls1, H, a, i - 1, to)
        BY <1>13, <3>2
      <3> QED
        BY <1>11, <2>2, <3>1, <3>3
    <2> QED
      BY <2>1, <2>2
  <1>15. f = [l \in from .. to |-> IF l = from THEN M ELSE Split(f[l - 1], l - 1)]
    BY <1>10, <1>14
  <1>16. after = [l \in from .. to |-> IF l = from THEN M ELSE Split(after[l - 1], l - 1)]
    BY <1>2, <1>15
  <1>17. \A l \in from .. to : after[l] = IF l = from THEN M ELSE Split(after[l - 1], l - 1)
    BY <1>16
  <1> DEFINE Other == {i \in from .. to : after[i] # f[i]}
  <1>18. Other = {}
    <2> SUFFICES ASSUME Other # {} PROVE FALSE
      OBVIOUS
    <2>1. Other \in SUBSET Nat
      BY <1>4
    <2>2. PICK i \in Other : \A j \in Other : i <= j
      BY <2>1, LeastOf
    <2>3. i \in from .. to /\ after[i] # f[i]
      OBVIOUS
    <2>4. i # from
      BY <1>10, <1>17, <2>3
    <2>5. i - 1 \in from .. to /\ i - 1 \notin Other
      BY <1>4, <2>2, <2>3, <2>4
    <2>6. after[i - 1] = f[i - 1]
      BY <2>5
    <2> QED
      BY <1>14, <1>17, <2>3, <2>4, <2>6
  <1>19. to \in from .. to /\ after[to] = f[to]
    <2>1. to \in from .. to
      BY <1>4
    <2> QED
      BY <1>18, <2>1
  <1> QED
    BY <1>3, <1>13, <1>19

\* The next memory is k.
LEMMA BecomesIs ==
    ASSUME NEW k \in MemoryOK, Becomes(k)
    PROVE  Memory' = k
  <1>1. k = [bit_tree |-> k.bit_tree, head |-> k.head, node |-> k.node, ub |-> k.ub]
    BY MemoryFields
  <1> QED
    BY <1>1 DEF Becomes, Memory

LEMMA AllocGives ==
    ASSUME NEW ls, Sound(Memory, ls, held), NEW size \in Nat, size > 0, size <= RAM_SIZE,
           NonEmpty(size) # {}, NEW l, l = LevelFor(size),
           NEW k, k = SplitDown(Max(NonEmpty(size)), l), NEW b, b = Blk(l, k.head[l]),
           Becomes([TakeHead(k, l) EXCEPT
                       !.node = [a \in Addrs |-> IF a \in Cells(b) THEN Junk ELSE @[a]]])
    PROVE  /\ \E ls2 : Sound(Memory', ls2, held \cup {b})
           /\ l \in Levels /\ b \in Block /\ b \notin held /\ \A h \in held : ~Overlap(b, h)
  <1>1. PICK M : M = Memory
    OBVIOUS
  <1>2. Sound(M, ls, held) /\ Holds(M, ls, held) /\ M.head = head
    BY <1>1 DEF Memory, Sound
  <1>3. l \in Levels /\ l \in Nat
    BY LevelForIs, WidthIs
  <1>4. NonEmpty(size) = {m \in 0 .. l : head[m] # NULL}
    BY DEF NonEmpty
  <1>5. PICK from \in NonEmpty(size) : \A j \in NonEmpty(size) : j <= from
    <2>1. NonEmpty(size) \in SUBSET (0 .. l)
      BY <1>4
    <2> QED
      BY <1>3, <2>1, GreatestOf
  <1>6. from \in 0 .. l /\ from \in Levels /\ M.head[from] # NULL /\ from <= l
    BY <1>2, <1>3, <1>4, <1>5 DEF Levels
  <1>7. Max(NonEmpty(size)) = from
    <2>1. NonEmpty(size) \in SUBSET (0 .. l)
      BY <1>4
    <2> QED
      BY <1>3, <1>5, <2>1, MaxIs
  <1>8. ASSUME NEW m \in Levels, from < m, m <= l
        PROVE  M.head[m] = NULL
    <2>1. m \in 0 .. l /\ ~(m <= from)
      BY <1>3, <1>6, <1>8, WidthIs
    <2> QED
      BY <1>2, <1>4, <1>5, <2>1
  <1>9. PICK a : a = M.head[from]
    OBVIOUS
  <1>10. Descends(M, ls, held, a, from, l)
    BY <1>2, <1>6, <1>8, <1>9, DescendStart
  <1>11. PICK ls1 : Descends(k, ls1, held, a, l, l)
    <2>1. Descends(Memory, ls, held, a, from, l)
      BY <1>1, <1>10
    <2>2. \E ls1 : Descends(SplitDown(from, l), ls1, held, a, l, l)
      BY <1>3, <1>6, <2>1, SplitDownIs
    <2> QED
      BY <1>7, <2>2
  <1>12. k.head[l] = a /\ b = Blk(l, a)
    BY <1>11 DEF Descends
  <1>13. PICK k2 : k2 = TakeHead(k, l)
    OBVIOUS
  <1>14. /\ \E ls2 : Sound(k2, ls2, held \cup {b})
         /\ b \in Block /\ b \notin held /\ \A h \in held : ~Overlap(b, h)
    <2>1. \E ls2 : Sound(TakeHead(k, l), ls2, held \cup {Blk(l, a)})
      BY <1>3, <1>11, DescendEnd
    <2>2. Blk(l, a) \in Block /\ Blk(l, a) \notin held
      BY <1>3, <1>11, DescendEnd
    <2>3. \A h \in held : ~Overlap(Blk(l, a), h)
      BY <1>3, <1>11, DescendEnd
    <2> QED
      BY <1>12, <1>13, <2>1, <2>2, <2>3
  <1>15. PICK ls2 : Sound(k2, ls2, held \cup {b})
    BY <1>14
  <1>16. PICK H : H = held \cup {b}
    OBVIOUS
  <1>17. Holds(k2, ls2, H) /\ k2 \in MemoryOK /\ Merged(Listed(ls2)) /\ BitsFor(k2.bit_tree, H)
         /\ b \in H
    BY <1>15, <1>16 DEF Sound, Holds
  <1>18. PICK nd : nd = [c \in Addrs |-> IF c \in Cells(b) THEN Junk ELSE k2.node[c]]
    OBVIOUS
  <1>19. PICK k3 : k3 = [k2 EXCEPT !.node = nd]
    OBVIOUS
  <1>20. nd \in [Addrs -> DNODE]
    <2>1. k2.node \in [Addrs -> DNODE]
      BY <1>17, MemoryFields
    <2>2. Junk \in DNODE
      BY DEF Junk, DNODE, Link
    <2> QED
      BY <1>18, <2>1, <2>2
  <1>21. /\ k3 \in MemoryOK /\ k3.head = k2.head /\ k3.node = nd /\ k3.bit_tree = k2.bit_tree
    BY <1>17, <1>19, <1>20 DEF MemoryOK
  <1>22. Untouched(k2, k3, Cells(b))
    BY <1>18, <1>21 DEF Untouched
  <1>23. Holds(k3, ls2, H)
    BY <1>17, <1>21, <1>22, Scribbled
  <1>24. Sound(k3, ls2, H)
    BY <1>17, <1>21, <1>23 DEF Sound
  <1>25. Becomes(k3)
    BY <1>13, <1>18, <1>19
  <1>26. Memory' = k3
    BY <1>21, <1>25, BecomesIs
  <1> QED
    BY <1>3, <1>14, <1>16, <1>24, <1>26

\* A smaller block has fewer bytes.
LEMMA BytesShrink == \A l \in Levels : Bytes(l) <= Bytes(0) /\ Bytes(l) \in Nat
  <1> SUFFICES ASSUME NEW l \in Levels
               PROVE  Bytes(l) <= Bytes(0) /\ Bytes(l) \in Nat
    OBVIOUS
  <1>1. PICK w : w = Width(l)
    OBVIOUS
  <1>2. PICK v : v = Width(0)
    OBVIOUS
  <1>3. w \in Nat \ {0} /\ v \in Nat \ {0} /\ w <= v
    <2>1. w \in Nat \ {0} /\ v \in Nat \ {0}
      BY <1>1, <1>2, WidthIs, TopWidth
    <2>2. CASE l = 0
      BY <1>1, <1>2, <2>1, <2>2
    <2>3. CASE l # 0
      <3>1. MAX_LEVELS - 1 \in 0 .. MAX_LEVELS /\ MAX_LEVELS - 1 - l \in 0 .. MAX_LEVELS
            /\ MAX_LEVELS - 1 - l < MAX_LEVELS - 1 /\ MAX_LEVELS - 1 - 0 = MAX_LEVELS - 1
        BY <2>3 DEF Levels
      <3>2. w = POWER2[MAX_LEVELS - 1 - l] /\ v = POWER2[MAX_LEVELS - 1]
        BY <1>1, <1>2, <3>1 DEF Width
      <3>3. 2 * w <= v
        BY <3>1, <3>2, PowerGrows
      <3> QED
        BY <2>1, <3>3
    <2> QED
      BY <2>2, <2>3, <2>1
  <1>4. PICK d \in Nat : v = w + d
    <2>1. v - w \in Nat /\ v = w + (v - w)
      BY <1>3
    <2> QED
      BY <2>1
  <1>5. MIN_BLK_SIZE * v = MIN_BLK_SIZE * w + MIN_BLK_SIZE * d
        /\ MIN_BLK_SIZE * d \in Nat /\ MIN_BLK_SIZE * w \in Nat
    BY <1>3, <1>4, MinBlkAssumption
  <1> QED
    BY <1>1, <1>2, <1>5 DEF Bytes

\* The promise is about the same blocks.
LEMMA PoolIs ==
    /\ Pool!Block = Block /\ Pool!Addrs = Addrs
    /\ \A b, c : Pool!Overlap(b, c) <=> Overlap(b, c)
    /\ \A b, size : Pool!Fits(b, size) <=>
          size <= Bytes(b.level) /\ \A l \in Levels : size <= Bytes(l) => l <= b.level
    /\ \A b, size : Pool!Place(b, size) <=>
          Pool!Fits(b, size) /\ \A h \in held : ~Overlap(b, h)
  <1>1. Pool!POWER2 = POWER2
    BY DEF Pool!POWER2, POWER2
  <1>2. \A l : Pool!Width(l) = Width(l) /\ Pool!Bytes(l) = Bytes(l)
    BY <1>1 DEF Pool!Width, Width, Pool!Bytes, Bytes
  <1>3. Pool!Levels = Levels /\ Pool!Addrs = Addrs
    BY <1>2 DEF Pool!Levels, Levels, Pool!Addrs, Addrs
  <1>4. Pool!Block = Block
    BY <1>2, <1>3 DEF Pool!Block, Block
  <1>5. \A b, c : Pool!Overlap(b, c) <=> Overlap(b, c)
    BY <1>2 DEF Pool!Overlap, Overlap, Pool!Cells, Cells
  <1>6. \A b, size : Pool!Fits(b, size) <=>
          size <= Bytes(b.level) /\ \A l \in Levels : size <= Bytes(l) => l <= b.level
    BY <1>2, <1>3 DEF Pool!Fits
  <1>7. \A b, size : Pool!Place(b, size) <=>
          Pool!Fits(b, size) /\ \A h \in held : ~Overlap(b, h)
    BY <1>5 DEF Pool!Place
  <1> QED
    BY <1>3, <1>4, <1>5, <1>6, <1>7

\* A request is refused only when there is no place.
LEMMA NoPlace ==
    ASSUME NEW ls, Sound(Memory, ls, held), NEW size \in Nat, size > 0,
           size > RAM_SIZE \/ NonEmpty(size) = {}, NEW b \in Block, Pool!Place(b, size)
    PROVE  FALSE
  <1>1. /\ size <= Bytes(b.level) /\ \A h \in held : ~Overlap(b, h)
        /\ \A l \in Levels : size <= Bytes(l) => l <= b.level
    BY PoolIs
  <1>2. b.level \in Levels
    BY BlockAt
  <1>3. CASE size > RAM_SIZE
    <2>1. Bytes(b.level) <= Bytes(0) /\ Bytes(b.level) \in Nat /\ Bytes(0) \in Nat
      BY <1>2, BytesShrink, TopWidth
    <2> QED
      BY <1>1, <1>3, <2>1 DEF RAM_SIZE
  <1>4. CASE size <= RAM_SIZE /\ NonEmpty(size) = {}
    <2>1. PICK l : l = LevelFor(size)
      OBVIOUS
    <2>2. /\ l \in Levels /\ size <= Bytes(l) /\ \A m \in Levels : size <= Bytes(m) => m <= l
      BY <1>4, <2>1, LevelForIs
    <2>3. b.level <= l
      BY <1>1, <1>2, <2>2
    <2>4. /\ Tiles(Listed(ls) \cup held) /\ Merged(Listed(ls)) /\ Holds(Memory, ls, held)
      BY DEF Sound, Holds
    <2>5. \A g \in held : ~Overlap(g, b)
      BY <1>1 DEF Overlap
    <2>6. PICK c \in Listed(ls) : c.level <= b.level /\ Overlap(c, b)
      BY <2>4, <2>5, Gathered
    <2>7. c \in Block /\ c.level \in Levels /\ c.addr \in Range(ls[c.level])
      BY BlockAt DEF Listed
    <2>8. c.level \in 0 .. l
      BY <1>2, <2>2, <2>3, <2>6, <2>7 DEF Levels
    <2>9. Memory.head[c.level] = NULL
      BY <1>4, <2>1, <2>8 DEF NonEmpty, Memory
    <2>10. ls[c.level] = <<>> /\ Path(ls[c.level])
      BY <2>4, <2>7, <2>9, HeadIs
    <2> QED
      BY <2>7, <2>10, RangeIs
  <1>5. size > RAM_SIZE \/ (size <= RAM_SIZE /\ NonEmpty(size) = {})
    <2>1. RAM_SIZE \in Nat
      BY BytesShrink, TopWidth DEF RAM_SIZE
    <2> QED
      BY <2>1
  <1> QED
    BY <1>3, <1>4, <1>5

----------------------------------------------------------------------------
(***************************************************************************)
(* Deallocation: the block, and its buddies while they are free, become    *)
(* the block of the level above.                                           *)
(***************************************************************************)
\* A buddy that is not the last of a longer list comes off it.
LEMMA PopIs ==
    ASSUME NEW k, NEW ls, NEW G, Holds(k, ls, G), NEW l \in Levels,
           NEW j \in 1 .. Len(ls[l]), j = 1 \/ j # Len(ls[l]), NEW a, a = ls[l][j]
    PROVE  /\ pop_block(k, l, a).bit_tree = k.bit_tree
           /\ Taken(pop_block(k, l, a), ls, Put(ls, l, Drop(ls[l], j)), G, Blk(l, a))
  <1>1. PICK p : p = ls[l]
    OBVIOUS
  <1>2. PICK n : n = k.node[a].next
    OBVIOUS
  <1>3. PICK q : q = k.node[a].prev
    OBVIOUS
  <1>4. k \in MemoryOK /\ Linked(k, ls)
    BY DEF Holds
  <1>5. /\ Path(p) /\ FreeList(k, l) = p /\ Chain(k.head[l], k.node, p)
        /\ n \in Addrs \cup {NULL}
    BY <1>1, <1>2, <1>4, HeadIs DEF Linked
  <1>6. /\ Len(p) \in Nat /\ Len(p) <= Width(0) /\ j \in 1 .. Len(p) /\ a = p[j]
        /\ \A i \in 1 .. Len(p) : p[i] \in Addrs
        /\ \A i, m \in 1 .. Len(p) : p[i] = p[m] => i = m
    BY <1>1, <1>5, PathLength DEF Path
  <1>7. p # <<>> /\ 1 \in 1 .. Len(p) /\ k.head[l] = p[1] /\ a \in Addrs
    <2>1. p \in Seq(Addrs) /\ Len(p) # 0
      BY <1>5, <1>6 DEF Path
    <2> QED
      BY <1>5, <1>6, <2>1, EmptySeq DEF Chain
  <1>8. q = IF j = 1 THEN NULL ELSE p[j - 1]
    BY <1>3, <1>5, <1>6 DEF Chain
  <1>9. n # JUNK
    BY <1>5, AddrIs
  <1>10. k.head \in [Levels -> Addrs \cup {NULL}] /\ k.node \in [Addrs -> DNODE]
    BY <1>4, MemoryFields
  <1>11. PICK k2 : k2 = pop_block(k, l, a)
    OBVIOUS
  <1>12. PICK hd : hd = Put(k.head, l, IF j = 1 THEN k.node[a].next ELSE k.head[l])
    OBVIOUS
  <1>13. k2 \in MemoryOK /\ k2.head = hd /\ k2.bit_tree = k.bit_tree /\ Bypassed(k, k2, a)
    <2>1. CASE j = 1
      <3>1. k.head[l] = a /\ q = NULL
        BY <1>6, <1>7, <1>8, <2>1
      <3>2. PICK nd : nd = Relinked(k, n, NULL)
        OBVIOUS
      <3>3. k2 = [k EXCEPT !.head[l] = n, !.node = nd]
        BY <1>2, <1>5, <1>7, <1>9, <1>11, <3>1, <3>2 DEF pop_block
      <3>4. hd = [k.head EXCEPT ![l] = n] /\ hd \in [Levels -> Addrs \cup {NULL}]
        BY <1>2, <1>5, <1>10, <1>12, <2>1 DEF Put
      <3>5. k2 = [k EXCEPT !.head = hd, !.node = nd]
        BY <3>3, <3>4
      <3>6. /\ nd \in [Addrs -> DNODE]
            /\ \A c \in Addrs : /\ nd[c].next = k.node[c].next
                                /\ nd[c].prev = IF c = n THEN NULL ELSE k.node[c].prev
        BY <1>4, <3>2, RelinkedIs DEF Link
      <3>7. k2 \in MemoryOK /\ k2.head = hd /\ k2.node = nd /\ k2.bit_tree = k.bit_tree
        BY <1>4, <3>4, <3>5, <3>6 DEF MemoryOK
      <3>8. Bypassed(k, k2, a)
        BY <1>2, <1>3, <3>1, <3>6, <3>7, AddrIs DEF Bypassed
      <3> QED
        BY <3>7, <3>8
    <2>2. CASE j # 1
      <3>1. j - 1 \in 1 .. Len(p) /\ j \in 2 .. Len(p) - 1
        BY <1>1, <1>6, <2>2
      <3>2. k.head[l] # a /\ q \in Addrs
        BY <1>6, <1>7, <1>8, <2>2, <3>1
      <3>3. ~(Len(p) > Width(0)) /\ JUNK \notin Range(p)
        BY <1>5, <1>6, TopWidth, RangeIs, AddrIs
      <3>4. PICK r : r = Relinked(k, n, q)
        OBVIOUS
      <3>5. PICK nd : nd = [r EXCEPT ![q].next = n]
        OBVIOUS
      <3>6. k2 = [k EXCEPT !.node = nd]
        <4>1. ~ \A i \in 2 .. Len(p) - 1 : p[i] # a
          BY <1>6, <3>1
        <4> QED
          BY <1>2, <1>3, <1>5, <1>7, <1>11, <3>2, <3>3, <3>4, <3>5, <4>1 DEF pop_block
      <3>7. /\ r \in [Addrs -> DNODE]
            /\ \A c \in Addrs : /\ r[c].next = k.node[c].next
                                /\ r[c].prev = IF c = n THEN q ELSE k.node[c].prev
        BY <1>4, <3>2, <3>4, RelinkedIs DEF Link
      <3>8. [r[q] EXCEPT !.next = n] \in DNODE /\ [r[q] EXCEPT !.next = n].next = n
            /\ [r[q] EXCEPT !.next = n].prev = r[q].prev
        <4>1. r[q] \in DNODE /\ n \in Link
          BY <1>5, <3>2, <3>7 DEF Link
        <4> QED
          BY <4>1 DEF DNODE
      <3>9. nd = [r EXCEPT ![q] = [r[q] EXCEPT !.next = n]]
        BY <3>5
      <3>10. /\ nd \in [Addrs -> DNODE]
             /\ \A c \in Addrs : /\ nd[c].next = IF c = q THEN n ELSE r[c].next
                                 /\ nd[c].prev = r[c].prev
        <4>1. nd \in [Addrs -> DNODE]
          BY <3>2, <3>7, <3>8, <3>9
        <4>2. \A c \in Addrs : nd[c] = IF c = q THEN [r[q] EXCEPT !.next = n] ELSE r[c]
          BY <3>2, <3>7, <3>9
        <4> QED
          BY <3>8, <4>1, <4>2
      <3>11. k2 \in MemoryOK /\ k2.head = k.head /\ k2.node = nd /\ k2.bit_tree = k.bit_tree
        BY <1>4, <3>6, <3>10 DEF MemoryOK
      <3>12. hd = k.head
        BY <1>10, <1>12, <2>2 DEF Put
      <3>13. Bypassed(k, k2, a)
        BY <1>2, <1>3, <3>7, <3>10, <3>11 DEF Bypassed
      <3> QED
        BY <3>11, <3>12, <3>13
    <2> QED
      BY <2>1, <2>2
  <1>14. Taken(k2, ls, Put(ls, l, Drop(ls[l], j)), G, Blk(l, a))
    <2>1. k2 \in MemoryOK
          /\ k2.head = Put(k.head, l, IF j = 1 THEN k.node[a].next ELSE k.head[l])
      BY <1>12, <1>13
    <2> QED
      BY <1>13, <2>1, TakenOff
  <1> QED
    BY <1>11, <1>13, <1>14

\* k2 is k with the block at a in front of the list of level l.
Pushed(k, k2, ls, G, l, a) ==
    /\ k2.bit_tree = k.bit_tree
    /\ Entire(k2, ls, Put(ls, l, Front(a, ls[l])), G, {Blk(l, a)})

LEMMA PushIs ==
    ASSUME NEW k, NEW ls, NEW G, NEW l \in Levels, NEW a \in Addrs,
           Holds(k, ls, G \cup {Blk(l, a)}), Blk(l, a) \notin G,
           NEW k2, k2 = push_head(k, l, a)
    PROVE  Pushed(k, k2, ls, G, l, a)
  <1>1. PICK H : H = G \cup {Blk(l, a)}
    OBVIOUS
  <1>2. Holds(k, ls, H) /\ Blk(l, a) \in H /\ k \in MemoryOK
    BY <1>1 DEF Holds
  <1>3. PICK h : h = k.head[l]
    OBVIOUS
  <1>4. h \in Addrs \cup {NULL} /\ a # h /\ h \in Link
    <2>1. k.head \in [Levels -> Addrs \cup {NULL}]
      BY <1>2, MemoryFields
    <2>2. h # NULL => Blk(l, h) \in Listed(ls)
      BY <1>2, <1>3, HeadIs
    <2>3. Blk(l, a) \notin Listed(ls)
      BY <1>2 DEF Holds
    <2> QED
      BY <1>3, <2>1, <2>2, <2>3, AddrIs DEF Link
  <1>5. PICK r : r = Relinked(k, h, a)
    OBVIOUS
  <1>6. /\ r \in [Addrs -> DNODE]
        /\ \A c \in Addrs : /\ r[c].next = k.node[c].next
                            /\ r[c].prev = IF c = h THEN a ELSE k.node[c].prev
    BY <1>2, <1>5, RelinkedIs DEF Link
  <1>7. PICK d : d = [prev |-> NULL, next |-> h]
    OBVIOUS
  <1>8. d \in DNODE /\ d.prev = NULL /\ d.next = h
    BY <1>4, <1>7 DEF DNODE, Link
  <1>9. PICK nd : nd = [r EXCEPT ![a] = d]
    OBVIOUS
  <1>10. nd \in [Addrs -> DNODE] /\ nd[a] = d /\ \A c \in Addrs \ {a} : nd[c] = r[c]
    BY <1>6, <1>8, <1>9
  <1>11. k2 = push_head(k, l, a)
    OBVIOUS
  <1>12. PICK hd : hd = Put(k.head, l, a)
    OBVIOUS
  <1>13. hd \in [Levels -> Addrs \cup {NULL}]
    BY <1>2, <1>12, MemoryFields, PutIs
  <1>14. k2 = [k EXCEPT !.head = hd, !.node = nd]
    BY <1>3, <1>4, <1>5, <1>7, <1>9, <1>11, <1>12 DEF push_head, Put
  <1>15. k2 \in MemoryOK /\ k2.head = hd /\ k2.node = nd /\ k2.bit_tree = k.bit_tree
    BY <1>2, <1>10, <1>13, <1>14 DEF MemoryOK
  <1>16. Entered(k, k2, a, k.head[l])
    BY <1>3, <1>6, <1>10, <1>15 DEF Entered
  <1>17. Entire(k2, ls, Put(ls, l, Front(a, ls[l])), G, {Blk(l, a)})
    <2>1. k2.head = Put(k.head, l, a) /\ k2.node[a].prev = NULL /\ k2.node[a].next = k.head[l]
      BY <1>3, <1>8, <1>10, <1>12, <1>15
    <2> QED
      BY <1>15, <1>16, <2>1, PutOn
  <1> QED
    BY <1>11, <1>15, <1>17 DEF Pushed

\* With its bit cleared, the block counts as its parent does.
LEMMA HandOff ==
    ASSUME NEW T, Tiles(T), NEW l \in Levels, l > 0, NEW x \in 0 .. POWER2[l] - 1,
           At(l, x) \in T, NEW G \in SUBSET T, At(l, x) \notin G,
           NEW bt, BitsFor(bt, G \cup {At(l, x)})
    PROVE  BitsFor(Marked(bt, l, x, 0), G \cup {At(l - 1, x \div 2)})
  <1>1. PICK u : u = At(l, x)
    OBVIOUS
  <1>2. PICK p : p = At(l - 1, x \div 2)
    OBVIOUS
  <1>3. u.level = l /\ p.level = l - 1 /\ l \in Nat /\ Nth(u.addr, l) = x
    BY <1>1, <1>2, WidthIs, BusyParent DEF At
  <1>4. ~Busy(G, l, x)
    BY <1>1, <1>3, BusyOnce
  <1>5. ASSUME NEW m \in Levels, NEW y \in 0 .. POWER2[m] - 1
        PROVE  Busy(G \cup {p}, m, y) <=> Busy(G \cup {u}, m, y) /\ ~(m = l /\ y = x)
    <2>1. Busy(G \cup {p}, m, y) <=> Busy(G, m, y) \/ (p.level >= m /\ Nth(p.addr, m) = y)
      BY BusyWith
    <2>2. Busy(G \cup {u}, m, y) <=> Busy(G, m, y) \/ (u.level >= m /\ Nth(u.addr, m) = y)
      BY BusyWith
    <2>3. /\ u.level >= m <=> p.level >= m \/ m = l
          /\ m < l => Nth(u.addr, m) = Nth(p.addr, m)
      BY <1>1, <1>2, BusyParent
    <2>4. CASE m < l
      BY <1>3, <2>1, <2>2, <2>3, <2>4, WidthIs
    <2>5. CASE ~(m < l)
      <3>1. ~(p.level >= m)
        BY <1>3, <2>5, WidthIs
      <3> QED
        BY <1>3, <1>4, <2>1, <2>2, <2>3, <3>1
    <2> QED
      BY <2>4, <2>5
  <1>6. Removes(G \cup {p}, G \cup {u}, l, x)
    BY <1>5 DEF Removes
  <1> QED
    BY <1>1, <1>2, <1>6, ClearBit

\* When the buddy is busy, the nodes above are, whatever the block is.
LEMMA BuddyBusy ==
    ASSUME NEW F, NEW G, Tiles(F \cup G), F \cap G = {}, NEW l \in Levels, l > 0,
           NEW x \in 0 .. POWER2[l] - 1, NEW bt, BitsFor(bt, G \cup {At(l - 1, x \div 2)}),
           bt[Index(l, Sibling(x))] = 1
    PROVE  BitsFor(bt, G) /\ At(l, Sibling(x)) \notin F
  <1>1. PICK p : p = At(l - 1, x \div 2)
    OBVIOUS
  <1>2. PICK y : y = Sibling(x)
    OBVIOUS
  <1>3. y \in 0 .. POWER2[l] - 1 /\ l \in Nat /\ p.level = l - 1 /\ G \subseteq Block
    BY <1>1, <1>2, SiblingIs, WidthIs DEF At, Tiles
  <1>4. Busy(G, l, y)
    <2>1. Busy(G \cup {p}, l, y)
      BY <1>1, <1>2, <1>3 DEF BitsFor
    <2>2. Busy(G \cup {p}, l, y) <=> Busy(G, l, y) \/ (p.level >= l /\ Nth(p.addr, l) = y)
      BY BusyWith
    <2> QED
      BY <1>3, <2>1, <2>2
  <1>5. PICK a : a = x * Width(l)
    OBVIOUS
  <1>6. a \in Addrs /\ Nth(a, l) = x
    BY <1>5, AtBlock
  <1>7. \A m \in Levels : m < l => Busy(G, m, Nth(a, m))
    BY <1>2, <1>3, <1>4, <1>6, BusyBeside
  <1>8. ASSUME NEW m \in Levels, NEW z \in 0 .. POWER2[m] - 1
        PROVE  Busy(G, m, z) <=> Busy(G \cup {p}, m, z)
    <2>1. Busy(G \cup {p}, m, z) <=> Busy(G, m, z) \/ (p.level >= m /\ Nth(p.addr, m) = z)
      BY BusyWith
    <2>2. m < l => Nth(a, m) = Nth(p.addr, m)
      <3>1. m < l => Nth(At(l, x).addr, m) = Nth(p.addr, m)
        BY <1>1, BusyParent
      <3>2. At(l, x).addr = a
        BY <1>5 DEF At
      <3> QED
        BY <3>1, <3>2
    <2>3. p.level >= m => m < l
      BY <1>3, WidthIs
    <2> QED
      BY <1>7, <2>1, <2>2, <2>3
  <1>9. BitsFor(bt, G)
    BY <1>1, <1>8, BitsSame
  <1>10. At(l, y) \notin F
    <2> SUFFICES ASSUME At(l, y) \in F PROVE FALSE
      OBVIOUS
    <2>1. PICK v : v = At(l, y)
      OBVIOUS
    <2>2. v \in F \cup G /\ v \notin G /\ v.level = l /\ Nth(v.addr, l) = y
      BY <1>3, <2>1, AtBlock DEF At
    <2>3. ~Busy(G, v.level, Nth(v.addr, v.level))
      BY <2>2, BusyOnce
    <2> QED
      BY <1>4, <2>2, <2>3
  <1> QED
    BY <1>2, <1>9, <1>10

\* What the bit of the buddy tells of it.
BuddyTold(k, ls, G, l, x) ==
    IF check_bit(k, l, Sibling(x)) = 1
    THEN BitsFor(k.bit_tree, G) /\ At(l, Sibling(x)) \notin Listed(ls)
    ELSE At(l, Sibling(x)) \in Listed(ls)

LEMMA ClimbTurn ==
    ASSUME NEW k, NEW ls, NEW G, NEW l \in Levels, l > 0, NEW x \in 0 .. POWER2[l] - 1,
           Holds(k, ls, G \cup {At(l, x)}), At(l, x) \notin G, Merged(Listed(ls)),
           BitsFor(k.bit_tree, G \cup {At(l, x)}), NEW k1, k1 = clear_bit(k, l, x)
    PROVE  /\ k1.bit_tree = Marked(k.bit_tree, l, x, 0) /\ Holds(k1, ls, G \cup {At(l, x)})
           /\ BitsFor(k1.bit_tree, G \cup {At(l - 1, x \div 2)})
           /\ BuddyTold(k1, ls, G, l, x)
  <1>1. PICK u : u = At(l, x)
    OBVIOUS
  <1>2. PICK p : p = At(l - 1, x \div 2)
    OBVIOUS
  <1>3. PICK H : H = G \cup {u}
    OBVIOUS
  <1>4. /\ Holds(k, ls, H) /\ k \in MemoryOK /\ Tiles(Listed(ls) \cup H) /\ Listed(ls) \cap H = {}
    BY <1>1, <1>3 DEF Holds
  <1>5. k1 \in MemoryOK /\ k1.head = k.head /\ k1.node = k.node
    BY <1>4, BitIs
  <1>6. k1.bit_tree = Marked(k.bit_tree, l, x, 0)
    BY <1>4, BitIs
  <1>7. Holds(k1, ls, H)
    BY <1>4, <1>5, BitsApart
  <1>8. BitsFor(k1.bit_tree, G \cup {p})
    <2>1. PICK T : T = Listed(ls) \cup H
      OBVIOUS
    <2>2. Tiles(T) /\ u \in T /\ G \in SUBSET T
      BY <1>3, <1>4, <2>1
    <2>3. PICK bt : bt = k.bit_tree
      OBVIOUS
    <2>4. BitsFor(bt, G \cup {At(l, x)})
      BY <2>3
    <2>5. BitsFor(Marked(bt, l, x, 0), G \cup {At(l - 1, x \div 2)})
      BY <1>1, <2>2, <2>4, HandOff
    <2> QED
      BY <1>2, <1>6, <2>3, <2>5
  <1>9. Sibling(x) \in 0 .. POWER2[l] - 1 /\ Sibling(x) # x
    BY SiblingIs
  <1>10. PICK bt : bt = k1.bit_tree
    OBVIOUS
  <1>11. check_bit(k1, l, Sibling(x)) = bt[Index(l, Sibling(x))]
    BY <1>10 DEF check_bit
  <1>12. ASSUME bt[Index(l, Sibling(x))] = 1
         PROVE  BitsFor(bt, G) /\ At(l, Sibling(x)) \notin Listed(ls)
    <2>1. PICK F : F = Listed(ls) \cup {u}
      OBVIOUS
    <2>2. F \cup G = Listed(ls) \cup H /\ F \cap G = {}
      BY <1>1, <1>3, <1>4, <2>1
    <2>3. BitsFor(bt, G \cup {At(l - 1, x \div 2)})
      BY <1>2, <1>8, <1>10
    <2>4. BitsFor(bt, G) /\ At(l, Sibling(x)) \notin F
      BY <1>4, <1>12, <2>2, <2>3, BuddyBusy
    <2> QED
      BY <2>1, <2>4
  <1>13. ASSUME bt[Index(l, Sibling(x))] # 1
         PROVE  At(l, Sibling(x)) \in Listed(ls)
    <2>1. ~Busy(G \cup {p}, l, Sibling(x))
      BY <1>8, <1>9, <1>10, <1>13 DEF BitsFor
    <2>2. ~Busy(H, l, Sibling(x))
      <3>1. Busy(H, l, Sibling(x))
               <=> Busy(G, l, Sibling(x)) \/ (u.level >= l /\ Nth(u.addr, l) = Sibling(x))
        BY <1>3, BusyWith
      <3>2. Busy(G \cup {p}, l, Sibling(x))
               <=> Busy(G, l, Sibling(x)) \/ (p.level >= l /\ Nth(p.addr, l) = Sibling(x))
        BY BusyWith
      <3>3. Nth(u.addr, l) = x
        BY <1>1, BusyParent
      <3> QED
        BY <1>9, <2>1, <3>1, <3>2, <3>3
    <2>3. At(l, x) \in Listed(ls) \cup H
      BY <1>1, <1>3
    <2> QED
      BY <1>4, <2>2, <2>3, BuddyFree
  <1>14. BuddyTold(k1, ls, G, l, x)
    BY <1>10, <1>11, <1>12, <1>13 DEF BuddyTold
  <1> QED
    BY <1>1, <1>2, <1>3, <1>6, <1>7, <1>8, <1>14

\* a is not the last of several in the list p.
NotLastOfMany(p, a) == ~(Len(p) > 1 /\ p[Len(p)] = a)

\* k2 is whole with the block p in hand, the lists above level l left alone.
Joined(k2, ls, ls2, G, p, l) == /\ Holds(k2, ls2, G \cup {p}) /\ p \notin G
                                /\ Merged(Listed(ls2))
                                /\ \A m \in Levels : m < l => ls2[m] = ls[m]

LEMMA ClimbMerge ==
    ASSUME NEW k, NEW ls, NEW G, NEW l \in Levels, l > 0, NEW x \in 0 .. POWER2[l] - 1,
           Holds(k, ls, G \cup {At(l, x)}), At(l, x) \notin G, Merged(Listed(ls)),
           At(l, Sibling(x)) \in Listed(ls), NEW c, c = Sibling(x) * Width(l),
           NotLastOfMany(ls[l], c)
    PROVE  /\ pop_block(k, l, c).bit_tree = k.bit_tree
           /\ \E ls2 : Joined(pop_block(k, l, c), ls, ls2, G, At(l - 1, x \div 2), l)
  <1>1. PICK u : u = At(l, x)
    OBVIOUS
  <1>2. PICK v : v = At(l, Sibling(x))
    OBVIOUS
  <1>3. PICK p : p = At(l - 1, x \div 2)
    OBVIOUS
  <1>4. PICK H : H = G \cup {u}
    OBVIOUS
  <1>5. v = Blk(l, c)
    BY <1>2, BlkIs
  <1>6. Holds(k, ls, H) /\ Linked(k, ls) /\ Tiles(Listed(ls) \cup H) /\ Listed(ls) \cap H = {}
    BY <1>1, <1>4 DEF Holds
  <1>7. PICK j \in 1 .. Len(ls[l]) : ls[l][j] = c
    <2>1. c \in Range(ls[l]) /\ Path(ls[l])
      BY <1>2, <1>5, <1>6, ListedIs
    <2> QED
      BY <2>1, RangeIs
  <1>8. j = 1 \/ j # Len(ls[l])
    <2>1. Path(ls[l])
      BY <1>6, ListedIs
    <2>2. Len(ls[l]) \in Nat
      BY <2>1, PathLength
    <2> QED
      BY <1>7, <2>2 DEF NotLastOfMany
  <1>9. PICK k2 : k2 = pop_block(k, l, c)
    OBVIOUS
  <1>10. PICK ls2 : ls2 = Put(ls, l, Drop(ls[l], j))
    OBVIOUS
  <1>11. k2.bit_tree = k.bit_tree /\ Taken(k2, ls, ls2, H, v)
    BY <1>5, <1>6, <1>7, <1>8, <1>9, <1>10, PopIs
  <1>12. /\ Holds(k2, ls2, H \cup {v}) /\ Listed(ls2) = Listed(ls) \ {v} /\ v \notin H
    BY <1>11 DEF Taken
  <1>13. PICK T : T = Listed(ls2) \cup (H \cup {v})
    OBVIOUS
  <1>14. Tiles(T) /\ u \in T /\ v \in T /\ Listed(ls2) \cap (H \cup {v}) = {}
    BY <1>4, <1>12, <1>13 DEF Holds
  <1>15. Tiles((T \ {u, v}) \cup {p}) /\ p \notin T
    BY <1>1, <1>2, <1>3, <1>14, TilesMerge
  <1>16. (T \ {u, v}) \cup {p} = Listed(ls2) \cup (G \cup {p})
    BY <1>1, <1>4, <1>12, <1>13, <1>14
  <1>17. Listed(ls2) \cap (G \cup {p}) = {} /\ p \notin G
    BY <1>4, <1>13, <1>14, <1>15
  <1>18. Holds(k2, ls2, G \cup {p})
    BY <1>12, <1>15, <1>16, <1>17 DEF Holds
  <1>19. Merged(Listed(ls2))
    BY <1>12 DEF Merged
  <1>20. \A m \in Levels : m < l => ls2[m] = ls[m]
    <2>1. ls \in [Levels -> AddrSeqs]
      BY <1>6 DEF Linked
    <2>2. \A m \in Levels : m < l => m # l
      BY WidthIs
    <2> QED
      BY <1>10, <2>1, <2>2 DEF Put
  <1>21. Joined(k2, ls, ls2, G, p, l)
    BY <1>17, <1>18, <1>19, <1>20 DEF Joined
  <1> QED
    BY <1>3, <1>9, <1>11, <1>21

ClimbStates == [k : MemoryOK, addr : Addrs, level : Levels, done : BOOLEAN]

\* The bit of the buddy of the node of level m that a is in.
BuddyBit(k, m, a) == check_bit(k, m, Sibling(Nth(a, m)))

\* Going on: the bits, and the lists up to level l, are those of k0 but for
\* those of the blocks that have been merged; the buddies below were free.
OnTheWay(s, ls, k0, ls0, ptr, l0) ==
    /\ Nth(s.addr, s.level) = Nth(ptr, s.level)
    /\ \A m \in Levels : m <= s.level => ls[m] = ls0[m]
    /\ \A m \in Levels : m > 0 => BuddyBit(s.k, m, ptr) = BuddyBit(k0, m, ptr)
    /\ \A m \in Levels : s.level < m /\ m <= l0 => BuddyBit(k0, m, ptr) = 0

Hand(s)   == Blk(s.level, s.addr)
Buddy(s)  == At(s.level, Sibling(Nth(s.addr, s.level)))

\* With the block in hand, the pool is whole; what is left to do follows the bits.
Climbing(s, ls, G, k0, ls0, ptr, l0) ==
    /\ s \in ClimbStates /\ Hand(s) \notin G /\ Holds(s.k, ls, G \cup {Hand(s)})
    /\ Merged(Listed(ls))
    /\ s.done  => BitsFor(s.k.bit_tree, G) /\ s.level > 0 /\ Buddy(s) \notin Listed(ls)
    /\ ~s.done => BitsFor(s.k.bit_tree, G \cup {Hand(s)}) /\ OnTheWay(s, ls, k0, ls0, ptr, l0)

\* No buddy that would be merged is the last of several.
CarefulIn(k0, ls0, ptr, l0) ==
    \A l \in 1 .. l0 : (\A i \in l .. l0 : BuddyBit(k0, i, ptr) = 0)
        => NotLastOfMany(ls0[l], Sibling(Nth(ptr, l)) * Width(l))

LEMMA ClimbIs ==
    ASSUME NEW s, NEW ls, NEW G, NEW k0, NEW ls0, NEW ptr \in Addrs, NEW l0 \in Levels,
           Climbing(s, ls, G, k0, ls0, ptr, l0), CarefulIn(k0, ls0, ptr, l0), s.level <= l0
    PROVE  /\ \E ls2 : Climbing(Climb(s), ls2, G, k0, ls0, ptr, l0)
           /\ s.done \/ s.level = 0 => Climb(s) = s
           /\ ~s.done /\ s.level # 0 => (Climb(s).done /\ Climb(s).level = s.level)
                                 \/ (~Climb(s).done /\ Climb(s).level = s.level - 1)
  <1>1. CASE s.done \/ s.level = 0
    <2>1. Climb(s) = s
      BY <1>1 DEF Climb
    <2> QED
      BY <1>1, <2>1
  <1>2. CASE ~(s.done \/ s.level = 0)
    <2>1. PICK l : l = s.level
      OBVIOUS
    <2>2. PICK x : x = Nth(s.addr, l)
      OBVIOUS
    <2>3. PICK k : k = s.k
      OBVIOUS
    <2>4. PICK u : u = Hand(s)
      OBVIOUS
    <2>5. /\ s \in ClimbStates /\ u \notin G /\ Holds(k, ls, G \cup {u}) /\ Merged(Listed(ls))
          /\ BitsFor(k.bit_tree, G \cup {u}) /\ OnTheWay(s, ls, k0, ls0, ptr, l0)
      BY <1>2, <2>3, <2>4 DEF Climbing
    <2>6. /\ l \in Levels /\ l \in Nat /\ l > 0 /\ s.addr \in Addrs /\ k \in MemoryOK
          /\ s.done = FALSE /\ x \in 0 .. POWER2[l] - 1
          /\ s = [k |-> k, addr |-> s.addr, level |-> l, done |-> FALSE]
      <3>1. l \in Levels /\ s.addr \in Addrs /\ k \in MemoryOK /\ s.done = FALSE
            /\ s = [k |-> k, addr |-> s.addr, level |-> l, done |-> FALSE]
        BY <1>2, <2>1, <2>3, <2>5 DEF ClimbStates
      <3>2. l \in Nat /\ l > 0
        BY <1>2, <2>1, <3>1, WidthIs
      <3>3. x \in 0 .. POWER2[l] - 1
        BY <2>2, <3>1, NthRange
      <3> QED
        BY <3>1, <3>2, <3>3
    <2>7. u = At(l, x) /\ s.addr = x * Width(l)
      <3>1. u \in Block /\ u.level = l /\ u.addr = s.addr
        BY <2>1, <2>4, <2>5, BlkIs DEF Hand, Holds, Tiles
      <3> QED
        BY <2>2, <3>1, BlockAt
    <2>8. PICK k1 : k1 = clear_bit(k, l, x)
      OBVIOUS
    <2>9. /\ k1.bit_tree = Marked(k.bit_tree, l, x, 0) /\ Holds(k1, ls, G \cup {u})
          /\ BitsFor(k1.bit_tree, G \cup {At(l - 1, x \div 2)})
      <3>1. Holds(k, ls, G \cup {At(l, x)}) /\ At(l, x) \notin G
            /\ BitsFor(k.bit_tree, G \cup {At(l, x)})
        BY <2>5, <2>7
      <3>2. k1.bit_tree = Marked(k.bit_tree, l, x, 0)
        BY <2>6, <2>8, BitIs
      <3>3. Holds(k1, ls, G \cup {At(l, x)})
        BY <2>5, <2>6, <2>8, <3>1, ClimbTurn
      <3>4. BitsFor(k1.bit_tree, G \cup {At(l - 1, x \div 2)})
        BY <2>5, <2>6, <2>8, <3>1, ClimbTurn
      <3> QED
        BY <2>7, <3>2, <3>3, <3>4
    <2>10. BuddyTold(k1, ls, G, l, x)
      <3>1. Holds(k, ls, G \cup {At(l, x)}) /\ At(l, x) \notin G
            /\ BitsFor(k.bit_tree, G \cup {At(l, x)})
        BY <2>5, <2>7
      <3> QED
        BY <2>5, <2>6, <2>8, <3>1, ClimbTurn
    <2>11. check_bit(k1, l, Sibling(x)) # 1 => At(l, Sibling(x)) \in Listed(ls)
      BY <2>10 DEF BuddyTold
    <2>12. Nth(ptr, l) = x
      BY <2>1, <2>2, <2>5 DEF OnTheWay
    <2>13. ASSUME NEW m \in Levels, m > 0
           PROVE  BuddyBit(k1, m, ptr) = BuddyBit(k0, m, ptr)
      <3>1. PICK y : y = Sibling(Nth(ptr, m))
        OBVIOUS
      <3>2. y \in 0 .. POWER2[m] - 1 /\ y # Nth(ptr, m)
        BY <2>13, <3>1, NthRange, SiblingIs
      <3>3. PICK bt : bt = k.bit_tree
        OBVIOUS
      <3>4. bt \in [Nodes -> {0, 1}]
        BY <2>6, <3>3, MemoryFields
      <3>5. Marked(bt, l, x, 0)[Index(m, y)] = bt[Index(m, y)]
        BY <2>6, <2>12, <3>2, <3>4, MarkedIs
      <3>6. k1.bit_tree[Index(m, y)] = k.bit_tree[Index(m, y)]
        BY <2>9, <3>3, <3>5
      <3>7. BuddyBit(k, m, ptr) = BuddyBit(k0, m, ptr)
        BY <2>3, <2>5, <2>13 DEF OnTheWay
      <3> QED
        BY <3>1, <3>6, <3>7 DEF BuddyBit, check_bit
    <2>14. k1 \in MemoryOK
      BY <2>9 DEF Holds
    <2>15. CASE check_bit(k1, l, Sibling(x)) = 1
      <3>1. PICK s2 : s2 = [s EXCEPT !.k = k1, !.done = TRUE]
        OBVIOUS
      <3>2. Climb(s) = s2
        BY <1>2, <2>1, <2>2, <2>3, <2>8, <2>15, <3>1 DEF Climb
      <3>3. s2 \in ClimbStates /\ s2.addr = s.addr /\ s2.k = k1 /\ s2.done = TRUE /\ s2.level = l
        BY <2>1, <2>5, <2>6, <2>14, <3>1 DEF ClimbStates
      <3>4. Hand(s2) = u /\ Buddy(s2) = At(l, Sibling(x))
        BY <2>1, <2>2, <2>4, <3>3 DEF Hand, Buddy
      <3>5. BitsFor(k1.bit_tree, G) /\ At(l, Sibling(x)) \notin Listed(ls)
        BY <2>10, <2>15 DEF BuddyTold
      <3>6. Climbing(s2, ls, G, k0, ls0, ptr, l0)
        BY <2>5, <2>6, <2>9, <3>3, <3>4, <3>5 DEF Climbing
      <3>7. \E ls2 : Climbing(Climb(s), ls2, G, k0, ls0, ptr, l0)
        BY <3>2, <3>6
      <3>8. Climb(s).done /\ Climb(s).level = s.level
        BY <2>1, <3>2, <3>3
      <3> QED
        BY <1>2, <3>7, <3>8
    <2>16. CASE check_bit(k1, l, Sibling(x)) # 1
      <3>1. PICK c : c = Sibling(x) * Width(l)
        OBVIOUS
      <3>2. \A i \in l .. l0 : BuddyBit(k0, i, ptr) = 0
        <4> SUFFICES ASSUME NEW i \in l .. l0 PROVE BuddyBit(k0, i, ptr) = 0
          OBVIOUS
        <4>1. l0 \in Nat /\ i \in Levels /\ i > 0
          BY <2>6, WidthIs DEF Levels
        <4>2. CASE i = l
          <5>1. BuddyBit(k1, l, ptr) = check_bit(k1, l, Sibling(x))
            BY <2>12 DEF BuddyBit
          <5>2. check_bit(k1, l, Sibling(x)) \in {0, 1}
            BY <2>6, <2>14, SiblingIs, BitIs
          <5> QED
            BY <2>6, <2>13, <2>16, <4>2, <5>1, <5>2
        <4>3. CASE i # l
          <5>1. s.level < i /\ i <= l0
            BY <2>1, <2>6, <4>1, <4>3
          <5> QED
            BY <2>5, <4>1, <5>1 DEF OnTheWay
        <4> QED
          BY <4>2, <4>3
      <3>3. NotLastOfMany(ls[l], c)
        <4>1. l \in 1 .. l0
          BY <2>1, <2>6, WidthIs
        <4>2. NotLastOfMany(ls0[l], Sibling(Nth(ptr, l)) * Width(l))
          BY <3>2, <4>1 DEF CarefulIn
        <4>3. ls[l] = ls0[l]
          BY <2>1, <2>5, <2>6 DEF OnTheWay
        <4> QED
          BY <2>12, <3>1, <4>2, <4>3
      <3>4. PICK k2 : k2 = pop_block(k1, l, c)
        OBVIOUS
      <3>5. PICK p : p = At(l - 1, x \div 2)
        OBVIOUS
      <3>6. k2.bit_tree = k1.bit_tree /\ \E ls2 : Joined(k2, ls, ls2, G, p, l)
        <4>1. Holds(k1, ls, G \cup {At(l, x)}) /\ At(l, x) \notin G
          BY <2>5, <2>7, <2>9
        <4>2. At(l, Sibling(x)) \in Listed(ls)
          BY <2>11, <2>16
        <4>3. pop_block(k1, l, c).bit_tree = k1.bit_tree
          BY <2>5, <2>6, <3>1, <3>3, <4>1, <4>2, ClimbMerge
        <4>4. \E ls2 : Joined(pop_block(k1, l, c), ls, ls2, G, At(l - 1, x \div 2), l)
          BY <2>5, <2>6, <3>1, <3>3, <4>1, <4>2, ClimbMerge
        <4> QED
          BY <3>4, <3>5, <4>3, <4>4
      <3>7. PICK ls2 : Joined(k2, ls, ls2, G, p, l)
        BY <3>6
      <3>8. /\ Holds(k2, ls2, G \cup {p}) /\ p \notin G /\ Merged(Listed(ls2))
            /\ \A m \in Levels : m < l => ls2[m] = ls[m]
        BY <3>7 DEF Joined
      <3>9. PICK b : b = (x \div 2) * Width(l - 1)
        OBVIOUS
      <3>10. PICK s2 : s2 = [k |-> k2, addr |-> b, level |-> l - 1, done |-> FALSE]
        OBVIOUS
      <3>11. Climb(s) = s2
        <4>1. get_address(s.addr, x, l) = b /\ get_buddy_address(s.addr, x, l) = c
          <5>1. PICK w : w = x * Width(l)
            OBVIOUS
          <5>2. get_address(x * Width(l), x, l) = b /\ get_buddy_address(x * Width(l), x, l) = c
            BY <2>6, <3>1, <3>9, AddressesAre
          <5> QED
            BY <2>7, <5>2
        <4>2. Climb(s) = [k     |-> pop_block(k1, l, get_buddy_address(s.addr, x, l)),
                          addr  |-> get_address(s.addr, x, l),
                          level |-> l - 1, done |-> FALSE]
          BY <1>2, <2>1, <2>2, <2>3, <2>8, <2>16 DEF Climb
        <4> QED
          BY <3>4, <3>10, <4>1, <4>2
      <3>12. l - 1 \in Levels /\ x \div 2 \in 0 .. POWER2[l - 1] - 1
        BY <2>6, WidthIs, SiblingIs
      <3>13. b \in Addrs /\ Nth(b, l - 1) = x \div 2 /\ p = Blk(l - 1, b)
        BY <3>5, <3>9, <3>12, AtBlock, BlkIs
      <3>14. k2 \in MemoryOK
        BY <3>8 DEF Holds
      <3>15. s2 \in ClimbStates /\ Hand(s2) = p /\ s2.done = FALSE /\ s2.level = l - 1
             /\ s2.k = k2 /\ s2.addr = b
        BY <3>10, <3>12, <3>13, <3>14 DEF ClimbStates, Hand
      <3>16. OnTheWay(s2, ls2, k0, ls0, ptr, l0)
        <4>1. Nth(s2.addr, s2.level) = Nth(ptr, s2.level)
          BY <2>6, <2>12, <3>13, <3>15, NthUp
        <4>2. ASSUME NEW m \in Levels, m <= s2.level
              PROVE  ls2[m] = ls0[m]
          <5>1. m < l /\ m <= s.level
            BY <2>1, <2>6, <3>15, <4>2 DEF Levels
          <5> QED
            BY <2>5, <3>8, <5>1 DEF OnTheWay
        <4>3. ASSUME NEW m \in Levels, m > 0
              PROVE  BuddyBit(s2.k, m, ptr) = BuddyBit(k0, m, ptr)
          <5>1. BuddyBit(k2, m, ptr) = BuddyBit(k1, m, ptr)
            BY <3>6 DEF BuddyBit, check_bit
          <5> QED
            BY <2>13, <3>15, <4>3, <5>1
        <4>4. ASSUME NEW m \in Levels, s2.level < m, m <= l0
              PROVE  BuddyBit(k0, m, ptr) = 0
          <5>1. m \in l .. l0
            BY <2>6, <3>15, <4>4 DEF Levels
          <5> QED
            BY <3>2, <5>1
        <4> QED
          BY <4>1, <4>2, <4>3, <4>4 DEF OnTheWay
      <3>17. BitsFor(k2.bit_tree, G \cup {p})
        BY <2>9, <3>5, <3>6
      <3>18. Climbing(s2, ls2, G, k0, ls0, ptr, l0)
        BY <3>8, <3>15, <3>16, <3>17 DEF Climbing
      <3> QED
        BY <1>2, <2>1, <3>11, <3>15, <3>18
    <2> QED
      BY <2>15, <2>16
  <1> QED
    BY <1>1, <1>2

\* After i turns.
Went(s, i, G, k0, ls0, ptr, l0) ==
    /\ \E ls : Climbing(s, ls, G, k0, ls0, ptr, l0)
    /\ s.level <= l0
    /\ s.done \/ s.level = l0 - i

LEMMA ClimbStep ==
    ASSUME NEW s, NEW G, NEW k0, NEW ls0, NEW ptr \in Addrs, NEW l0 \in Levels,
           NEW i \in 1 .. l0, Went(s, i - 1, G, k0, ls0, ptr, l0),
           CarefulIn(k0, ls0, ptr, l0)
    PROVE  Climb(s) \in ClimbStates /\ Went(Climb(s), i, G, k0, ls0, ptr, l0)
  <1>1. PICK ls : Climbing(s, ls, G, k0, ls0, ptr, l0)
    BY DEF Went
  <1>2. s.level <= l0 /\ (s.done \/ s.level = l0 - (i - 1)) /\ s \in ClimbStates
    BY <1>1 DEF Went, Climbing
  <1>3. l0 \in Nat /\ i \in Nat /\ i > 0 /\ i <= l0 /\ s.level \in Levels /\ s.level \in Nat
        /\ s.done \in BOOLEAN
    BY <1>2, WidthIs DEF ClimbStates
  <1>4. PICK s2 : s2 = Climb(s)
    OBVIOUS
  <1>5. \E ls2 : Climbing(s2, ls2, G, k0, ls0, ptr, l0)
    <2>1. \E ls2 : Climbing(Climb(s), ls2, G, k0, ls0, ptr, l0)
      BY <1>1, <1>2, ClimbIs
    <2> QED
      BY <1>4, <2>1
  <1>6. s2 \in ClimbStates
    BY <1>5 DEF Climbing
  <1>7. s2.level <= l0 /\ (s2.done \/ s2.level = l0 - i)
    <2>1. CASE s.done
      <3>1. Climb(s) = s
        BY <1>1, <1>2, <2>1, ClimbIs
      <3> QED
        BY <1>2, <1>4, <2>1, <3>1
    <2>2. CASE ~s.done
      <3>1. s.level = l0 - (i - 1) /\ s.level # 0
        BY <1>2, <1>3, <2>2
      <3>2. (s2.done /\ s2.level = s.level) \/ (~s2.done /\ s2.level = s.level - 1)
        <4>1. (Climb(s).done /\ Climb(s).level = s.level)
              \/ (~Climb(s).done /\ Climb(s).level = s.level - 1)
          BY <1>1, <1>2, <2>2, <3>1, ClimbIs
        <4> QED
          BY <1>4, <4>1
      <3>3. CASE s2.done /\ s2.level = s.level
        BY <1>2, <3>3
      <3>4. CASE ~s2.done /\ s2.level = s.level - 1
        BY <1>3, <3>1, <3>4
      <3> QED
        BY <3>2, <3>3, <3>4
    <2> QED
      BY <2>1, <2>2
  <1> QED
    BY <1>4, <1>5, <1>6, <1>7 DEF Went

\* The loop ends with a block that cannot be merged any further.
LEMMA CoalesceEnds ==
    ASSUME NEW G, NEW ls0, NEW ptr \in Addrs, NEW l0 \in Levels, NEW s0,
           s0 = [k |-> Memory, addr |-> ptr, level |-> l0, done |-> FALSE],
           Went(s0, 0, G, Memory, ls0, ptr, l0), CarefulIn(Memory, ls0, ptr, l0)
    PROVE  \E s : /\ Coalesce(l0, ptr) = push_head(s.k, s.level, s.addr)
                  /\ Went(s, l0, G, Memory, ls0, ptr, l0)
  <1>1. PICK M : M = Memory
    OBVIOUS
  <1>2. PICK after : after = CHOOSE g : g = [i \in 0 .. l0 |->
                                IF i = 0 THEN s0 ELSE Climb(g[i - 1])]
    OBVIOUS
  <1>3. Coalesce(l0, ptr) = push_head(after[l0].k, after[l0].level, after[l0].addr)
    BY <1>2 DEF Coalesce
  <1>4. l0 \in Nat /\ 0 <= l0 /\ l0 \in 0 .. l0 /\ 0 \in 0 .. l0
    BY WidthIs
  <1>5. \A i \in 1 .. l0 : i \in 0 .. l0 /\ i - 1 \in 0 .. l0 /\ i # 0
    BY <1>4
  <1>6. PICK step : step = [i \in 0 + 1 .. l0 |-> [x \in ClimbStates |->
                       IF Climb(x) \in ClimbStates THEN Climb(x) ELSE x]]
    OBVIOUS
  <1>7. step \in [0 + 1 .. l0 -> [ClimbStates -> ClimbStates]]
    BY <1>6
  <1>8. Went(s0, 0, G, M, ls0, ptr, l0) /\ CarefulIn(M, ls0, ptr, l0)
    BY <1>1
  <1>9. s0 \in ClimbStates
    BY <1>8 DEF Went, Climbing
  <1>10. PICK f : Runs(f, ClimbStates, s0, 0, l0, step)
    BY <1>4, <1>7, <1>9, LoopRuns
  <1>11. f \in [0 .. l0 -> ClimbStates] /\ f[0] = s0
         /\ \A i \in 0 + 1 .. l0 : f[i] = step[i][f[i - 1]]
    BY <1>10 DEF Runs
  <1>12. ASSUME NEW i \in 1 .. l0, Went(f[i - 1], i - 1, G, M, ls0, ptr, l0)
         PROVE  f[i] = Climb(f[i - 1]) /\ Went(f[i], i, G, M, ls0, ptr, l0)
    <2>1. PICK s : s = f[i - 1]
      OBVIOUS
    <2>2. s \in ClimbStates /\ i \in 0 + 1 .. l0
      BY <1>5, <1>11, <2>1
    <2>3. Went(s, i - 1, G, M, ls0, ptr, l0)
      BY <1>12, <2>1
    <2>4. Climb(s) \in ClimbStates
      BY <1>8, <2>3, ClimbStep
    <2>5. Went(Climb(s), i, G, M, ls0, ptr, l0)
      BY <1>8, <2>3, ClimbStep
    <2>6. f[i] = Climb(s)
      BY <1>6, <1>11, <2>1, <2>2, <2>4
    <2> QED
      BY <2>1, <2>5, <2>6
  <1> DEFINE Bad == {i \in 0 .. l0 : ~Went(f[i], i, G, M, ls0, ptr, l0)}
  <1>13. Bad = {}
    <2> SUFFICES ASSUME Bad # {} PROVE FALSE
      OBVIOUS
    <2>1. Bad \in SUBSET Nat
      BY <1>4
    <2>2. PICK i \in Bad : \A j \in Bad : i <= j
      BY <2>1, LeastOf
    <2>3. i \in 0 .. l0 /\ ~Went(f[i], i, G, M, ls0, ptr, l0)
      OBVIOUS
    <2>4. i # 0
      BY <1>8, <1>11, <2>3
    <2>5. i \in 1 .. l0 /\ i - 1 \in 0 .. l0 /\ i - 1 \notin Bad
      BY <1>4, <2>2, <2>3, <2>4
    <2>6. Went(f[i - 1], i - 1, G, M, ls0, ptr, l0)
      BY <2>5
    <2> QED
      BY <1>12, <2>3, <2>5, <2>6
  <1>14. ASSUME NEW i \in 0 .. l0
         PROVE  Went(f[i], i, G, M, ls0, ptr, l0)
    BY <1>13
  <1>15. ASSUME NEW i \in 0 .. l0
         PROVE  f[i] = IF i = 0 THEN s0 ELSE Climb(f[i - 1])
    <2>1. CASE i = 0
      BY <1>11, <2>1
    <2>2. CASE i # 0
      <3>1. i \in 1 .. l0
        BY <1>4, <2>2
      <3>2. i - 1 \in 0 .. l0
        BY <1>5, <3>1
      <3> QED
        BY <1>12, <1>14, <2>2, <3>1, <3>2
    <2> QED
      BY <2>1, <2>2
  <1>16. f = [i \in 0 .. l0 |-> IF i = 0 THEN s0 ELSE Climb(f[i - 1])]
    BY <1>11, <1>15
  <1>17. after = [i \in 0 .. l0 |-> IF i = 0 THEN s0 ELSE Climb(after[i - 1])]
    BY <1>2, <1>16
  <1>18. \A i \in 0 .. l0 : after[i] = IF i = 0 THEN s0 ELSE Climb(after[i - 1])
    BY <1>17
  <1> DEFINE Other == {i \in 0 .. l0 : after[i] # f[i]}
  <1>19. Other = {}
    <2> SUFFICES ASSUME Other # {} PROVE FALSE
      OBVIOUS
    <2>1. Other \in SUBSET Nat
      BY <1>4
    <2>2. PICK i \in Other : \A j \in Other : i <= j
      BY <2>1, LeastOf
    <2>3. i \in 0 .. l0 /\ after[i] # f[i]
      OBVIOUS
    <2>4. i # 0
      BY <1>11, <1>18, <2>3
    <2>5. i - 1 \in 0 .. l0 /\ i - 1 \notin Other
      BY <1>4, <2>2, <2>3, <2>4
    <2>6. after[i - 1] = f[i - 1]
      BY <2>5
    <2> QED
      BY <1>15, <1>18, <2>3, <2>4, <2>6
  <1>20. after[l0] = f[l0]
    BY <1>4, <1>19
  <1>21. Went(f[l0], l0, G, M, ls0, ptr, l0)
    BY <1>4, <1>14
  <1>22. PICK s : s = f[l0]
    OBVIOUS
  <1>23. Coalesce(l0, ptr) = push_head(s.k, s.level, s.addr)
    BY <1>3, <1>20, <1>22
  <1> QED
    BY <1>1, <1>21, <1>22, <1>23

\* A free block without a free buddy.
LEMMA MergedWith ==
    ASSUME NEW F, Merged(F), NEW u \in Block,
           u.level > 0 => At(u.level, Sibling(Nth(u.addr, u.level))) \notin F
    PROVE  Merged(F \cup {u})
  <1> SUFFICES ASSUME NEW l \in Levels, NEW x \in 0 .. POWER2[l] - 1, l > 0,
                      At(l, x) \in F \cup {u}, At(l, Sibling(x)) \in F \cup {u}
               PROVE  FALSE
    BY DEF Merged
  <1>1. PICK y : y = Sibling(x)
    OBVIOUS
  <1>2. y \in 0 .. POWER2[l] - 1 /\ y # x /\ Sibling(y) = x
    BY <1>1, SiblingIs
  <1>3. Nth(At(l, x).addr, l) = x /\ At(l, x).level = l /\ Nth(At(l, y).addr, l) = y
        /\ At(l, y).level = l
    BY <1>2, AtBlock DEF At
  <1>4. ~(At(l, x) \in F /\ At(l, y) \in F)
    BY <1>1 DEF Merged
  <1>5. CASE At(l, x) = u
    <2>1. u.level = l /\ Nth(u.addr, l) = x /\ At(l, y) # u
      BY <1>2, <1>3, <1>5
    <2>2. At(l, y) \in F
      BY <1>1, <2>1
    <2> QED
      BY <1>1, <2>1, <2>2
  <1>6. CASE At(l, x) # u
    <2>1. At(l, x) \in F /\ At(l, y) = u
      BY <1>1, <1>4, <1>6
    <2>2. u.level = l /\ Nth(u.addr, l) = y
      BY <1>3, <2>1
    <2> QED
      BY <1>2, <2>1, <2>2
  <1> QED
    BY <1>5, <1>6

\* The bit of the root is not cleared: it says nothing about free or held.
LEMMA RootBit ==
    ASSUME NEW bt, NEW G, NEW u, u.level = 0, BitsFor(bt, G \cup {u})
    PROVE  BitsFor(bt, G)
  <1>1. PICK H : H = G \cup {u}
    OBVIOUS
  <1>2. bt \in [Nodes -> {0, 1}]
    BY DEF BitsFor
  <1>3. ASSUME NEW l \in Levels, NEW x \in 0 .. POWER2[l] - 1
        PROVE  /\ Busy(G, l, x) => bt[Index(l, x)] = 1
               /\ l > 0 /\ bt[Index(l, x)] = 1 => Busy(G, l, x)
    <2>1. Busy(H, l, x) <=> Busy(G, l, x) \/ (u.level >= l /\ Nth(u.addr, l) = x)
      BY <1>1, BusyWith
    <2>2. /\ Busy(H, l, x) => bt[Index(l, x)] = 1
          /\ l > 0 /\ bt[Index(l, x)] = 1 => Busy(H, l, x)
      BY <1>1 DEF BitsFor
    <2>3. l > 0 => ~(u.level >= l)
      BY WidthIs
    <2> QED
      BY <2>1, <2>2, <2>3
  <1> QED
    BY <1>2, <1>3 DEF BitsFor

\* Freeing a block below the root.
LEMMA CoalesceIs ==
    ASSUME NEW ls, Sound(Memory, ls, held), NEW b \in held, b.level > 0,
           CarefulIn(Memory, ls, b.addr, b.level)
    PROVE  \E ls2 : Sound(Coalesce(b.level, b.addr), ls2, held \ {b})
  <1>1. PICK M : M = Memory
    OBVIOUS
  <1>2. PICK G : G = held \ {b}
    OBVIOUS
  <1>3. Holds(M, ls, held) /\ Merged(Listed(ls)) /\ BitsFor(M.bit_tree, held) /\ M \in MemoryOK
    BY <1>1 DEF Sound, Holds
  <1>4. b \in Block
    BY <1>3 DEF Holds, Tiles
  <1>5. PICK l : l = b.level
    OBVIOUS
  <1>6. PICK ptr : ptr = b.addr
    OBVIOUS
  <1>7. l \in Levels /\ ptr \in Addrs /\ b = Blk(l, ptr) /\ l \in Nat
    BY <1>4, <1>5, <1>6, BlockAt, BlkIs, WidthIs
  <1>8. PICK s0 : s0 = [k |-> M, addr |-> ptr, level |-> l, done |-> FALSE]
    OBVIOUS
  <1>9. s0 \in ClimbStates /\ Hand(s0) = b /\ s0.k = M /\ s0.done = FALSE /\ s0.level = l
        /\ s0.addr = ptr
    BY <1>3, <1>7, <1>8 DEF ClimbStates, Hand
  <1>10. held = G \cup {b} /\ b \notin G
    BY <1>2
  <1>11. OnTheWay(s0, ls, M, ls, ptr, l)
    <2>1. \A m \in Levels : ~(l < m /\ m <= l)
      BY <1>7, WidthIs
    <2> QED
      BY <1>9, <2>1 DEF OnTheWay
  <1>12. Climbing(s0, ls, G, M, ls, ptr, l)
    BY <1>3, <1>9, <1>10, <1>11 DEF Climbing
  <1>13. Went(s0, 0, G, Memory, ls, ptr, l)
    <2>1. s0.level <= l /\ s0.level = l - 0
      BY <1>7, <1>9
    <2> QED
      BY <1>1, <1>12, <2>1 DEF Went
  <1>14. PICK s : Coalesce(l, ptr) = push_head(s.k, s.level, s.addr)
                  /\ Went(s, l, G, Memory, ls, ptr, l)
    <2>1. s0 = [k |-> Memory, addr |-> ptr, level |-> l, done |-> FALSE]
      BY <1>1, <1>8
    <2>2. CarefulIn(Memory, ls, ptr, l)
      BY <1>5, <1>6
    <2> QED
      BY <1>7, <1>13, <2>1, <2>2, CoalesceEnds
  <1>15. PICK ls1 : Climbing(s, ls1, G, Memory, ls, ptr, l)
    BY <1>14 DEF Went
  <1>16. s.done \/ s.level = 0
    <2>1. s.done \/ s.level = l - l
      BY <1>14 DEF Went
    <2> QED
      BY <1>7, <2>1
  <1>17. PICK k : k = s.k
    OBVIOUS
  <1>18. PICK m : m = s.level
    OBVIOUS
  <1>19. PICK a : a = s.addr
    OBVIOUS
  <1>20. PICK u : u = Blk(m, a)
    OBVIOUS
  <1>21. /\ m \in Levels /\ a \in Addrs /\ Hand(s) = u /\ u \notin G /\ Holds(k, ls1, G \cup {u})
         /\ Merged(Listed(ls1)) /\ u.level = m /\ u.addr = a
    BY <1>15, <1>17, <1>18, <1>19, <1>20, BlkIs DEF Climbing, ClimbStates, Hand
  <1>22. u \in Block
    BY <1>21 DEF Holds, Tiles
  <1>23. PICK k2 : k2 = push_head(k, m, a)
    OBVIOUS
  <1>24. PICK ls2 : ls2 = Put(ls1, m, Front(a, ls1[m]))
    OBVIOUS
  <1>25. k2.bit_tree = k.bit_tree /\ Entire(k2, ls1, ls2, G, {u})
    <2>1. /\ m \in Levels /\ a \in Addrs
          /\ Holds(k, ls1, G \cup {Blk(m, a)}) /\ Blk(m, a) \notin G
      BY <1>20, <1>21
    <2>2. Pushed(k, k2, ls1, G, m, a)
      BY <1>23, <2>1, PushIs
    <2> QED
      BY <1>20, <1>24, <2>2 DEF Pushed
  <1>26. m > 0 => At(m, Sibling(Nth(a, m))) \notin Listed(ls1)
    <2>1. s.done => Buddy(s) \notin Listed(ls1)
      BY <1>15 DEF Climbing
    <2> QED
      BY <1>16, <1>18, <1>19, <2>1 DEF Buddy
  <1>27. Merged(Listed(ls1) \cup {u})
    BY <1>21, <1>22, <1>26, MergedWith
  <1>28. BitsFor(k.bit_tree, G)
    <2>1. CASE s.done
      BY <1>15, <1>17, <2>1 DEF Climbing
    <2>2. CASE ~s.done
      <3>1. BitsFor(k.bit_tree, G \cup {u}) /\ m = 0
        BY <1>15, <1>16, <1>17, <1>18, <1>21, <2>2 DEF Climbing
      <3> QED
        BY <1>21, <3>1, RootBit
    <2> QED
      BY <2>1, <2>2
  <1>29. Sound(k2, ls2, G)
    BY <1>25, <1>27, <1>28 DEF Sound, Entire
  <1> QED
    BY <1>2, <1>5, <1>6, <1>14, <1>17, <1>18, <1>19, <1>23, <1>29

\* What Careful says, of the lists.
LEMMA CarefulIs ==
    ASSUME NEW ls, Sound(Memory, ls, held), NEW b \in held, Careful(b)
    PROVE  CarefulIn(Memory, ls, b.addr, b.level)
  <1>1. PICK M : M = Memory
    OBVIOUS
  <1>2. Holds(M, ls, held)
    BY <1>1 DEF Sound
  <1>3. b \in Block
    BY <1>2 DEF Holds, Tiles
  <1>4. PICK l0 : l0 = b.level
    OBVIOUS
  <1>5. PICK ptr : ptr = b.addr
    OBVIOUS
  <1>6. l0 \in Levels /\ ptr \in Addrs
    BY <1>3, <1>4, <1>5, BlockAt
  <1>7. ASSUME NEW l \in 1 .. l0, \A i \in l .. l0 : BuddyBit(M, i, ptr) = 0
        PROVE  NotLastOfMany(ls[l], Sibling(Nth(ptr, l)) * Width(l))
    <2>1. l \in Levels
      BY <1>6 DEF Levels
    <2>2. \A i \in l .. l0 : check_bit(Memory, i, Sibling(Nth(b.addr, i))) = 0
      BY <1>1, <1>5, <1>7 DEF BuddyBit
    <2>3. ~LastOfMany(Sibling(Nth(ptr, l)) * Width(l), l)
      BY <1>4, <1>5, <2>2 DEF Careful
    <2>4. FreeList(M, l) = ls[l]
      BY <1>2, <2>1, HeadIs
    <2> QED
      BY <1>1, <2>3, <2>4 DEF LastOfMany, NotLastOfMany
  <1> QED
    BY <1>1, <1>4, <1>5, <1>7 DEF CarefulIn

\* The lowest set bit above an address is that of the block somebody has there.
LEMMA InUseIs ==
    ASSUME NEW ls, Sound(Memory, ls, held), NEW b \in held
    PROVE  /\ InUse(b.addr) # {} /\ Max(InUse(b.addr)) = b.level
           /\ b \in Block /\ b.level \in Levels /\ b.addr \in Addrs
           /\ {c \in held : c.addr # b.addr} = held \ {b}
  <1>1. PICK M : M = Memory
    OBVIOUS
  <1>2. Holds(M, ls, held) /\ BitsFor(M.bit_tree, held)
    BY <1>1 DEF Sound
  <1>3. PICK T : T = Listed(ls) \cup held
    OBVIOUS
  <1>4. Tiles(T) /\ held \in SUBSET T
    BY <1>2, <1>3 DEF Holds
  <1>5. PICK l : l = b.level
    OBVIOUS
  <1>6. PICK a : a = b.addr
    OBVIOUS
  <1>7. b \in Block /\ l \in Levels /\ a \in Addrs
    BY <1>4, <1>5, <1>6, BlockAt DEF Tiles
  <1>8. InUse(a) = {m \in Levels : M.bit_tree[Index(m, Nth(a, m))] = 1}
    BY <1>1, <1>7 DEF InUse, check_bit
  <1>9. l \in InUse(a)
    <2>1. Busy(held, l, Nth(a, l))
      <3>1. b.level >= l
        BY <1>5, <1>7, WidthIs
      <3> QED
        BY <1>5, <1>6, <3>1 DEF Busy
    <2>2. Nth(a, l) \in 0 .. POWER2[l] - 1
      BY <1>7, NthRange
    <2> QED
      BY <1>2, <1>7, <1>8, <2>1, <2>2 DEF BitsFor
  <1>10. ASSUME NEW m \in InUse(a)
         PROVE  m <= l
    <2> SUFFICES ASSUME ~(m <= l) PROVE FALSE
      OBVIOUS
    <2>1. m \in Levels /\ M.bit_tree[Index(m, Nth(a, m))] = 1 /\ m > 0 /\ l < m /\ m \in Nat
          /\ l \in Nat
      <3>1. m \in Levels /\ M.bit_tree[Index(m, Nth(a, m))] = 1
        BY <1>8
      <3>2. m \in Nat /\ l \in Nat
        BY <1>7, <3>1 DEF Levels
      <3> QED
        BY <3>1, <3>2
    <2>2. Nth(a, m) \in 0 .. POWER2[m] - 1
      BY <1>7, <2>1, NthRange
    <2>3. Busy(held, m, Nth(a, m))
      BY <1>2, <2>1, <2>2 DEF BitsFor
    <2>4. PICK u \in held : u.level >= m /\ Nth(u.addr, m) = Nth(a, m)
      BY <2>3 DEF Busy
    <2>5. u \in Block /\ u.level \in Levels /\ u.addr \in Addrs /\ u.level \in Nat
      BY <1>4, BlockAt, WidthIs DEF Tiles
    <2>6. u # b /\ l <= u.level
      BY <1>5, <2>1, <2>4, <2>5
    <2>7. Nth(u.addr, l) = Nth(a, l)
      <3>1. l \in 0 .. m
        BY <2>1
      <3> QED
        BY <1>7, <2>1, <2>4, <2>5, <3>1, NthSame
    <2>8. Overlap(b, u)
      BY <1>5, <1>6, <1>7, <2>5, <2>6, <2>7, OverlapIs
    <2> QED
      BY <1>4, <2>6, <2>8 DEF Tiles
  <1>11. Max(InUse(a)) = l
    <2>1. InUse(a) \in SUBSET (0 .. MAX_LEVELS - 1) /\ MAX_LEVELS - 1 \in Nat
      BY <1>8, LevelsAssumption DEF Levels
    <2> QED
      BY <1>9, <1>10, <2>1, MaxIs
  <1>12. ASSUME NEW c \in held, c.addr = a
         PROVE  c = b
    <2>1. a \in Cells(b)
      BY <1>6, <1>7, CellsAt
    <2> QED
      BY <1>4, <1>12, <2>1, TileAt
  <1> QED
    BY <1>5, <1>6, <1>7, <1>9, <1>11, <1>12

\* Freeing the whole pool.
LEMMA RootFreed ==
    ASSUME NEW k, NEW ls, NEW H, Sound(k, ls, H), NEW b \in H, b.level = 0
    PROVE  \E ls2 : Sound(OneFreeBlock(clear_bit(k, 0, 0)), ls2, H \ {b})
  <1>1. Holds(k, ls, H) /\ k \in MemoryOK /\ BitsFor(k.bit_tree, H)
    BY DEF Sound, Holds
  <1>2. PICK T : T = Listed(ls) \cup H
    OBVIOUS
  <1>3. Tiles(T) /\ b \in T /\ Listed(ls) \cap H = {} /\ T \subseteq Block /\ b \in Block
    BY <1>1, <1>2 DEF Holds, Tiles
  <1>4. 0 \in Levels /\ 0 \in 0 .. POWER2[0] - 1 /\ 0 \in Addrs
    BY TopWidth, AddrsAre
  <1>5. ASSUME NEW e \in Addrs
        PROVE  Nth(e, 0) = 0
    <2>1. Nth(e, 0) \in 0 .. POWER2[0] - 1
      BY <1>4, NthRange
    <2> QED
      BY <2>1, TopWidth
  <1>6. ASSUME NEW c \in T
        PROVE  c = b
    <2>1. c \in Block /\ c.addr \in Addrs /\ b.addr \in Addrs /\ c.level \in Levels
      BY <1>3, BlockAt
    <2>2. b.level <= c.level
      BY <2>1 DEF Levels
    <2>3. Overlap(b, c)
      BY <1>3, <1>5, <2>1, <2>2, OverlapIs
    <2> QED
      BY <1>3, <2>3 DEF Tiles
  <1>7. Listed(ls) = {} /\ H = {b}
    BY <1>2, <1>3, <1>6
  <1>8. b = Blk(0, 0)
    <2>1. b.addr \in Addrs /\ b = At(0, Nth(b.addr, 0))
      BY <1>3, BlockAt
    <2>2. b = At(0, 0)
      BY <1>5, <2>1
    <2>3. 0 * Width(0) = 0
      BY TopWidth
    <2> QED
      BY <2>2, <2>3, BlkIs
  <1>9. PICK k1 : k1 = clear_bit(k, 0, 0)
    OBVIOUS
  <1>10. k1 \in MemoryOK /\ k1.head = k.head /\ k1.node = k.node
    BY <1>1, <1>4, <1>9, BitIs
  <1>11. k1.bit_tree = Marked(k.bit_tree, 0, 0, 0)
    BY <1>1, <1>4, <1>9, BitIs
  <1>12. Holds(k1, ls, H)
    BY <1>1, <1>10, BitsApart
  <1>13. BitsFor(k1.bit_tree, {})
    <2>1. ASSUME NEW m \in Levels, NEW y \in 0 .. POWER2[m] - 1
          PROVE  ~(Busy(H, m, y) /\ ~(m = 0 /\ y = 0))
      <3> SUFFICES ASSUME Busy(H, m, y) PROVE m = 0 /\ y = 0
        OBVIOUS
      <3>1. b.level >= m /\ Nth(b.addr, m) = y
        BY <1>7 DEF Busy
      <3>2. m = 0
        BY <3>1, WidthIs
      <3> QED
        BY <1>3, <1>5, <3>1, <3>2, BlockAt
    <2>2. \A m, y : ~Busy({}, m, y)
      BY DEF Busy
    <2>3. Removes({}, H, 0, 0)
      BY <2>1, <2>2 DEF Removes
    <2> QED
      BY <1>1, <1>4, <1>11, <2>3, ClearBit
  <1>14. k1.head[0] = NULL
    <2>1. k1.head[0] # NULL => Blk(0, k1.head[0]) \in Listed(ls)
      BY <1>4, <1>12, HeadIs
    <2> QED
      BY <1>7, <2>1
  <1>15. PICK d : d = [prev |-> NULL, next |-> NULL]
    OBVIOUS
  <1>16. d \in DNODE /\ d.prev = NULL /\ d.next = NULL
    BY <1>15 DEF DNODE, Link
  <1>17. k1.node \in [Addrs -> DNODE] /\ k1.head \in [Levels -> Addrs \cup {NULL}]
    BY <1>10, MemoryFields
  <1>18. PICK nd : nd = Put(k1.node, 0, d)
    OBVIOUS
  <1>19. PICK hd : hd = Put(k1.head, 0, 0)
    OBVIOUS
  <1>20. /\ nd \in [Addrs -> DNODE] /\ nd[0] = d
         /\ \A c \in Addrs : c # 0 => nd[c] = k1.node[c]
    BY <1>4, <1>16, <1>17, <1>18 DEF Put
  <1>21. hd \in [Levels -> Addrs \cup {NULL}]
    BY <1>4, <1>17, <1>19, PutIs
  <1>22. PICK k2 : k2 = OneFreeBlock(k1)
    OBVIOUS
  <1>23. k2 = [k1 EXCEPT !.head = hd, !.node = nd]
    BY <1>15, <1>18, <1>19, <1>22 DEF OneFreeBlock, Put, RAM_START
  <1>24. k2 \in MemoryOK /\ k2.head = hd /\ k2.node = nd /\ k2.bit_tree = k1.bit_tree
    BY <1>10, <1>20, <1>21, <1>23 DEF MemoryOK
  <1>25. PICK ls2 : ls2 = Put(ls, 0, Front(0, ls[0]))
    OBVIOUS
  <1>26. Entire(k2, ls, ls2, {}, {b})
    <2>1. Entered(k1, k2, 0, k1.head[0])
      <3>1. \A c \in Addrs \ {0} : k2.node[c] = k1.node[c] /\ c # k1.head[0]
        BY <1>14, <1>20, <1>24, AddrIs
      <3> QED
        BY <3>1 DEF Entered
    <2>2. Holds(k1, ls, {} \cup {Blk(0, 0)}) /\ Blk(0, 0) \notin {}
      BY <1>7, <1>8, <1>12
    <2>3. k2.head = Put(k1.head, 0, 0) /\ k2.node[0].prev = NULL /\ k2.node[0].next = k1.head[0]
      BY <1>14, <1>16, <1>19, <1>20, <1>24
    <2>4. Entire(k2, ls, Put(ls, 0, Front(0, ls[0])), {}, {Blk(0, 0)})
      BY <1>4, <1>24, <2>1, <2>2, <2>3, PutOn
    <2> QED
      BY <1>8, <1>25, <2>4
  <1>27. Merged(Listed(ls2))
    <2>1. Merged({})
      BY DEF Merged
    <2>2. Merged({} \cup {b})
      BY <1>3, <2>1, MergedWith
    <2> QED
      BY <1>7, <1>26, <2>2 DEF Entire
  <1>28. Sound(k2, ls2, H \ {b})
    BY <1>7, <1>13, <1>24, <1>26, <1>27 DEF Sound, Entire
  <1> QED
    BY <1>9, <1>22, <1>28

----------------------------------------------------------------------------
(***************************************************************************)
(* The invariant: the free lists are proper ones, they and the callers     *)
(* tile the pool, free buddies are merged and the bits are those of what   *)
(* the callers have.                                                       *)
(***************************************************************************)
BuddyInv == /\ \E ls : Sound(Memory, ls, held)
            /\ asked \in Sizes \cup {NULL}
            /\ ret \in Addrs \cup {NULL, RTX_OK, RTX_ERR}

LEMMA DeallocStep ==
    ASSUME NEW ls, Sound(Memory, ls, held), NEW b \in held, Careful(b), Dealloc(b.addr)
    PROVE  /\ \E ls2 : Sound(Memory', ls2, held')
           /\ held' = held \ {b} /\ asked' = NULL /\ ret' = RTX_OK
  <1>1. InUse(b.addr) # {} /\ Max(InUse(b.addr)) = b.level
    BY InUseIs
  <1>2. b \in Block /\ b.level \in Levels
    BY InUseIs
  <1>3. {c \in held : c.addr # b.addr} = held \ {b}
    BY InUseIs
  <1>4. /\ asked' = NULL /\ ret' = RTX_OK /\ held' = held \ {b}
        /\ Becomes(IF b.level > 0 THEN Coalesce(b.level, b.addr)
                   ELSE OneFreeBlock(clear_bit(Memory, 0, 0)))
    BY <1>1, <1>3 DEF Dealloc
  <1>5. PICK k : k = IF b.level > 0 THEN Coalesce(b.level, b.addr)
                     ELSE OneFreeBlock(clear_bit(Memory, 0, 0))
    OBVIOUS
  <1>6. PICK ls2 : Sound(k, ls2, held \ {b})
    <2>1. CASE b.level > 0
      <3>1. CarefulIn(Memory, ls, b.addr, b.level)
        BY CarefulIs
      <3>2. \E ls2 : Sound(Coalesce(b.level, b.addr), ls2, held \ {b})
        BY <2>1, <3>1, CoalesceIs
      <3> QED
        BY <1>5, <2>1, <3>2
    <2>2. CASE ~(b.level > 0)
      <3>1. PICK M : M = Memory
        OBVIOUS
      <3>2. b.level = 0 /\ Sound(M, ls, held)
        BY <1>2, <2>2, <3>1 DEF Levels
      <3>3. \E ls2 : Sound(OneFreeBlock(clear_bit(M, 0, 0)), ls2, held \ {b})
        BY <3>2, RootFreed
      <3> QED
        BY <1>5, <2>2, <3>1, <3>3
    <2> QED
      BY <2>1, <2>2
  <1>7. k \in MemoryOK
    BY <1>6 DEF Sound, Holds
  <1>8. Memory' = k
    <2>1. Becomes(k)
      BY <1>4, <1>5
    <2> QED
      BY <1>7, <2>1, BecomesIs
  <1> QED
    BY <1>4, <1>6, <1>8

LEMMA NullStep ==
    ASSUME Dealloc(NULL)
    PROVE  /\ Memory' = Memory /\ held' = held
           /\ asked' = NULL /\ ret' = RTX_ERR
  <1>1. InUse(NULL) = {}
    BY AddrIs DEF InUse
  <1> QED
    BY <1>1 DEF Dealloc, memVars, Memory

\* Alloc answers with b, a block that fits, or, for none, not at all.
Answers(size, b) ==
    /\ size > 0 /\ size <= RAM_SIZE
    /\ b \in Block /\ b.level = LevelFor(size) /\ b \notin held
    /\ \A h \in held : ~Overlap(b, h)
    /\ ret' = b.addr /\ held' = held \cup {b}
Refuses(size) == /\ size = 0 \/ size > RAM_SIZE \/ NonEmpty(size) = {}
                 /\ ret' = NULL /\ held' = held

LEMMA AllocStep ==
    ASSUME NEW ls, Sound(Memory, ls, held), NEW size \in Nat, Alloc(size)
    PROVE  /\ \E ls2 : Sound(Memory', ls2, held')
           /\ asked' = size
           /\ Refuses(size) \/ \E b : Answers(size, b)
  <1>1. asked' = size
    BY DEF Alloc
  <1>2. CASE /\ size = 0 \/ size > RAM_SIZE \/ NonEmpty(size) = {}
             /\ ret' = NULL
             /\ UNCHANGED <<memVars, held>>
    <2>1. Memory' = Memory /\ held' = held
      BY <1>2 DEF Memory, memVars
    <2>2. Refuses(size)
      BY <1>2 DEF Refuses
    <2> QED
      BY <1>1, <2>1, <2>2
  <1>3. CASE ~(/\ size = 0 \/ size > RAM_SIZE \/ NonEmpty(size) = {}
               /\ ret' = NULL
               /\ UNCHANGED <<memVars, held>>)
    <2>1. PICK l : l = LevelFor(size)
      OBVIOUS
    <2>2. PICK k : k = SplitDown(Max(NonEmpty(size)), l)
      OBVIOUS
    <2>3. PICK b : b = Blk(l, k.head[l])
      OBVIOUS
    <2>4. /\ size > 0 /\ size <= RAM_SIZE /\ NonEmpty(size) # {}
          /\ Becomes([TakeHead(k, l) EXCEPT
                         !.node = [a \in Addrs |-> IF a \in Cells(b) THEN Junk ELSE @[a]]])
          /\ held' = held \cup {b}
          /\ ret' = b.addr
      BY <1>3, <2>1, <2>2, <2>3 DEF Alloc, Blk
    <2>5. \E ls2 : Sound(Memory', ls2, held \cup {b})
      BY <2>1, <2>2, <2>3, <2>4, AllocGives
    <2>6. b \in Block /\ b \notin held
      BY <2>1, <2>2, <2>3, <2>4, AllocGives
    <2>7. \A h \in held : ~Overlap(b, h)
      BY <2>1, <2>2, <2>3, <2>4, AllocGives
    <2>8. b.level = LevelFor(size)
      BY <2>1, <2>3, BlkIs
    <2>9. Answers(size, b)
      BY <2>4, <2>6, <2>7, <2>8 DEF Answers
    <2> QED
      BY <1>1, <2>4, <2>5, <2>9
  <1> QED
    BY <1>2, <1>3

LEMMA BuddyInit == Init => BuddyInv
  <1> SUFFICES ASSUME Init PROVE BuddyInv
    OBVIOUS
  <1>1. PICK k : k = Memory
    OBVIOUS
  <1>2. /\ k.bit_tree = [i \in Nodes |-> 0]
        /\ k.head = [l \in Levels |-> IF l = 0 THEN 0 ELSE NULL]
        /\ k.node = [a \in Addrs |-> IF a = 0 THEN [prev |-> NULL, next |-> NULL] ELSE Junk]
        /\ k.ub = FALSE
        /\ k = [bit_tree |-> k.bit_tree, head |-> k.head, node |-> k.node, ub |-> k.ub]
    BY <1>1 DEF Init, Memory, RAM_START
  <1>3. 0 \in Levels /\ 0 \in 0 .. POWER2[0] - 1 /\ 0 \in Addrs
    BY TopWidth, AddrsAre
  <1>4. k \in MemoryOK
    <2>1. [prev |-> NULL, next |-> NULL] \in DNODE /\ Junk \in DNODE
      BY DEF DNODE, Link, Junk
    <2>2. k.node \in [Addrs -> DNODE]
      BY <1>2, <2>1
    <2>3. k.head \in [Levels -> Addrs \cup {NULL}]
      BY <1>2, <1>3
    <2>4. k.bit_tree \in [Nodes -> {0, 1}]
      BY <1>2
    <2>5. k.ub \in {FALSE}
      BY <1>2
    <2> QED
      BY <1>2, <2>2, <2>3, <2>4, <2>5 DEF MemoryOK
  <1>5. PICK ls : ls = [l \in Levels |-> IF l = 0 THEN <<0>> ELSE <<>>]
    OBVIOUS
  <1>6. PICK b : b = Blk(0, 0)
    OBVIOUS
  <1>7. b \in Block /\ b.level = 0 /\ b.addr = 0
    <2>1. At(0, 0) \in Block
      BY <1>3, AtBlock
    <2>2. At(0, 0) = Blk(0, 0 * Width(0)) /\ 0 * Width(0) = 0
      BY TopWidth, BlkIs
    <2> QED
      BY <1>6, <2>1, <2>2, BlkIs
  <1>8. /\ <<0>> \in AddrSeqs /\ <<>> \in AddrSeqs /\ Len(<<0>>) = 1 /\ <<0>>[1] = 0
        /\ Len(<<>>) = 0
    BY <1>3 DEF AddrSeqs
  <1>9. Range(<<0>>) = {0} /\ Range(<<>>) = {}
    BY DEF Range
  <1>10. Linked(k, ls)
    <2>1. ls \in [Levels -> AddrSeqs]
      BY <1>5, <1>8
    <2>2. ASSUME NEW l \in Levels
          PROVE  Chain(k.head[l], k.node, ls[l]) /\ \A a \in Range(ls[l]) : Blk(l, a) \in Block
      <3>1. CASE l = 0
        <4>1. ls[l] = <<0>> /\ k.head[l] = 0 /\ k.node[0].prev = NULL /\ k.node[0].next = NULL
          BY <1>2, <1>3, <1>5, <3>1
        <4>2. Path(<<0>>)
          BY <1>8 DEF Path, AddrSeqs
        <4>3. Chain(k.head[l], k.node, ls[l])
          BY <1>8, <4>1, <4>2 DEF Chain
        <4> QED
          BY <1>6, <1>7, <1>9, <3>1, <4>1, <4>3
      <3>2. CASE l # 0
        <4>1. ls[l] = <<>> /\ k.head[l] = NULL
          BY <1>2, <1>5, <3>2
        <4>2. Path(<<>>)
          BY <1>8 DEF Path, AddrSeqs
        <4>3. Chain(k.head[l], k.node, ls[l])
          BY <1>8, <4>1, <4>2 DEF Chain
        <4> QED
          BY <1>9, <4>1, <4>3
      <3> QED
        BY <3>1, <3>2
    <2> QED
      BY <2>1, <2>2 DEF Linked
  <1>11. Listed(ls) = {b}
    <2>1. ASSUME NEW c \in Block
          PROVE  c.addr \in Range(ls[c.level]) <=> c = b
      <3>1. c.level \in Levels /\ c = Blk(c.level, c.addr)
        BY BlockAt, BlkIs
      <3>2. Range(ls[c.level]) = IF c.level = 0 THEN {0} ELSE {}
        BY <1>5, <1>9, <3>1
      <3> QED
        BY <1>6, <1>7, <3>1, <3>2
    <2> QED
      BY <1>7, <2>1 DEF Listed
  <1>12. Tiles({b})
    <2>1. ASSUME NEW a \in Addrs
          PROVE  a \in Cells(b)
      <3>1. Nth(a, 0) \in 0 .. POWER2[0] - 1 /\ Nth(0, 0) \in 0 .. POWER2[0] - 1
        BY <1>3, NthRange
      <3>2. Nth(a, 0) = Nth(0, 0)
        BY <3>1, TopWidth
      <3> QED
        BY <1>7, <3>2, CellsAt
    <2> QED
      BY <1>7, <2>1 DEF Tiles
  <1>13. Merged({b})
    <2>1. Merged({})
      BY DEF Merged
    <2>2. Merged({} \cup {b})
      BY <1>7, <2>1, MergedWith
    <2> QED
      BY <2>2
  <1>14. BitsFor(k.bit_tree, {})
    <2>1. k.bit_tree \in [Nodes -> {0, 1}]
      BY <1>4, MemoryFields
    <2>2. ASSUME NEW l \in Levels, NEW x \in 0 .. POWER2[l] - 1
          PROVE  k.bit_tree[Index(l, x)] = 0 /\ ~Busy({}, l, x)
      BY <1>2, IndexIs DEF Busy
    <2> QED
      BY <2>1, <2>2 DEF BitsFor
  <1>15. Sound(k, ls, {})
    <2>1. Listed(ls) \cup {} = {b} /\ Listed(ls) \cap {} = {}
      BY <1>11
    <2> QED
      BY <1>4, <1>10, <1>11, <1>12, <1>13, <1>14, <2>1 DEF Sound, Holds
  <1>16. held = {} /\ asked = NULL /\ ret = RTX_OK
    BY DEF Init
  <1> QED
    BY <1>1, <1>15, <1>16 DEF BuddyInv

LEMMA BuddyStep == BuddyInv /\ [CarefulNext]_vars => BuddyInv'
  <1> SUFFICES ASSUME BuddyInv, [CarefulNext]_vars PROVE BuddyInv'
    OBVIOUS
  <1>1. PICK ls : Sound(Memory, ls, held)
    BY DEF BuddyInv
  <1>2. asked \in Sizes \cup {NULL} /\ ret \in Addrs \cup {NULL, RTX_OK, RTX_ERR}
    BY DEF BuddyInv
  <1>3. ASSUME NEW size \in Sizes, Alloc(size)
        PROVE  BuddyInv'
    <2>1. size \in Nat
      BY SizesAssumption
    <2>2. (\E ls2 : Sound(Memory', ls2, held')) /\ asked' = size
      BY <1>1, <1>3, <2>1, AllocStep
    <2>3. Refuses(size) \/ \E b : Answers(size, b)
      BY <1>1, <1>3, <2>1, AllocStep
    <2>4. ret' \in Addrs \cup {NULL}
      BY <2>3, BlockAt DEF Refuses, Answers
    <2> QED
      BY <2>2, <2>4 DEF BuddyInv
  <1>4. CASE Dealloc(NULL)
    <2>1. Memory' = Memory /\ held' = held /\ asked' = NULL /\ ret' = RTX_ERR
      BY <1>4, NullStep
    <2> QED
      BY <1>1, <2>1 DEF BuddyInv
  <1>5. ASSUME NEW b \in held, Careful(b), Dealloc(b.addr)
        PROVE  BuddyInv'
    <2>1. \E ls2 : Sound(Memory', ls2, held')
      BY <1>1, <1>5, DeallocStep
    <2>2. asked' = NULL /\ ret' = RTX_OK
      BY <1>1, <1>5, DeallocStep
    <2> QED
      BY <2>1, <2>2 DEF BuddyInv
  <1>6. CASE UNCHANGED vars
    <2>1. Memory' = Memory /\ held' = held /\ asked' = asked /\ ret' = ret
      BY <1>6 DEF vars, memVars, Memory
    <2> QED
      BY <1>1, <1>2, <2>1 DEF BuddyInv
  <1> QED
    BY <1>3, <1>4, <1>5, <1>6 DEF CarefulNext, Request

----------------------------------------------------------------------------
(***************************************************************************)
(* What the invariant means.                                               *)
(***************************************************************************)
\* The free blocks are those of the lists.
LEMMA FreeBlocksAre ==
    ASSUME NEW ls, Holds(Memory, ls, held)
    PROVE  FreeBlocks = Listed(ls)
  <1>1. PICK k : k = Memory
    OBVIOUS
  <1>2. Holds(k, ls, held) /\ Linked(k, ls)
    BY <1>1 DEF Holds
  <1>3. ASSUME NEW l \in Levels
        PROVE  Addrs \cap Range(FreeList(k, l)) = Range(ls[l])
    <2>1. FreeList(k, l) = ls[l]
      BY <1>2, HeadIs
    <2>2. Range(ls[l]) \in SUBSET Addrs
      BY <1>2, ListedIs
    <2> QED
      BY <2>1, <2>2
  <1>4. ASSUME NEW b
        PROVE  b \in FreeBlocks <=> \E l \in Levels : \E a \in Range(ls[l]) : b = Blk(l, a)
    BY <1>1, <1>3 DEF FreeBlocks, Blk
  <1>5. ASSUME NEW l \in Levels, NEW a \in Range(ls[l])
        PROVE  Blk(l, a) \in Listed(ls)
    BY <1>2, ListedIs
  <1>6. ASSUME NEW b \in Listed(ls)
        PROVE  b.level \in Levels /\ b.addr \in Range(ls[b.level]) /\ b = Blk(b.level, b.addr)
    <2>1. b \in Block /\ b.addr \in Range(ls[b.level])
      BY <1>6 DEF Listed
    <2> QED
      BY <2>1, BlockAt, BlkIs
  <1>7. \A b : b \in FreeBlocks => b \in Listed(ls)
    BY <1>4, <1>5
  <1>8. \A b : b \in Listed(ls) => b \in FreeBlocks
    <2> SUFFICES ASSUME NEW b \in Listed(ls) PROVE b \in FreeBlocks
      OBVIOUS
    <2>1. \E l \in Levels : \E a \in Range(ls[l]) : b = Blk(l, a)
      BY <1>6
    <2> QED
      BY <1>4, <2>1
  <1> QED
    BY <1>7, <1>8

LEMMA InvType == BuddyInv => BuddyTypeOK /\ NoJunkFollowed
  <1> SUFFICES ASSUME BuddyInv PROVE BuddyTypeOK /\ NoJunkFollowed
    OBVIOUS
  <1>1. PICK k : k = Memory
    OBVIOUS
  <1>2. PICK ls : Sound(k, ls, held)
    BY <1>1 DEF BuddyInv
  <1>3. k \in MemoryOK /\ held \subseteq Block
    BY <1>2 DEF Sound, Holds, Tiles
  <1>4. k.bit_tree = bit_tree /\ k.head = head /\ k.node = node /\ k.ub = ub
    BY <1>1 DEF Memory
  <1>5. /\ bit_tree \in [Nodes -> {0, 1}] /\ head \in [Levels -> Addrs \cup {NULL}]
        /\ node \in [Addrs -> DNODE] /\ ub = FALSE
    BY <1>3, <1>4, MemoryFields
  <1> QED
    BY <1>3, <1>5 DEF BuddyInv, BuddyTypeOK, NoJunkFollowed

LEMMA InvLinked == BuddyInv => FreeListsLinked
  <1> SUFFICES ASSUME BuddyInv, NEW l \in Levels
               PROVE  LET path == FreeList(Memory, l)
                      IN  /\ Len(path) <= Width(0)
                          /\ \A i \in 1 .. Len(path) :
                                /\ [level |-> l, addr |-> path[i]] \in Block
                                /\ node[path[i]].prev = IF i = 1 THEN NULL ELSE path[i - 1]
    BY DEF FreeListsLinked
  <1>1. PICK k : k = Memory
    OBVIOUS
  <1>2. PICK ls : Sound(k, ls, held)
    BY <1>1 DEF BuddyInv
  <1>3. Holds(k, ls, held) /\ Linked(k, ls) /\ k.node = node
    BY <1>1, <1>2 DEF Sound, Holds, Memory
  <1>4. PICK path : path = ls[l]
    OBVIOUS
  <1>5. FreeList(Memory, l) = path /\ Path(path)
    BY <1>1, <1>3, <1>4, HeadIs
  <1>6. Len(path) <= Width(0)
    BY <1>5, PathLength
  <1>7. ASSUME NEW i \in 1 .. Len(path)
        PROVE  /\ [level |-> l, addr |-> path[i]] \in Block
               /\ node[path[i]].prev = IF i = 1 THEN NULL ELSE path[i - 1]
    <2>1. path[i] \in Range(path)
      BY <1>5, RangeIs
    <2>2. Blk(l, path[i]) \in Block /\ Chain(k.head[l], k.node, path)
      BY <1>3, <1>4, <2>1 DEF Linked
    <2> QED
      BY <1>3, <2>2 DEF Chain, Blk
  <1> QED
    BY <1>5, <1>6, <1>7

LEMMA InvTiles == BuddyInv => NothingLostOrShared /\ NothingShared
  <1> SUFFICES ASSUME BuddyInv PROVE NothingLostOrShared /\ NothingShared
    OBVIOUS
  <1>1. PICK ls : Holds(Memory, ls, held)
    BY DEF BuddyInv, Sound
  <1>2. FreeBlocks = Listed(ls)
    BY <1>1, FreeBlocksAre
  <1>3. PICK T : T = FreeBlocks \cup held
    OBVIOUS
  <1>4. Tiles(T) /\ FreeBlocks \cap held = {}
    BY <1>1, <1>2, <1>3 DEF Holds
  <1>5. NothingShared
    BY <1>3, <1>4 DEF NothingShared, Tiles
  <1>6. ASSUME NEW a \in Addrs
        PROVE  Cardinality({b \in T : a \in Cells(b)}) = 1
    <2>1. PICK c \in T : a \in Cells(c)
      BY <1>4 DEF Tiles
    <2>2. \A b \in T : a \in Cells(b) => b = c
      BY <1>4, <2>1 DEF Tiles, Overlap
    <2>3. {b \in T : a \in Cells(b)} = {c}
      BY <2>1, <2>2
    <2> QED
      BY <2>3, FS_Singleton
  <1> QED
    BY <1>3, <1>4, <1>5, <1>6 DEF NothingLostOrShared

LEMMA InvCoalesced == BuddyInv => Coalesced
  <1> SUFFICES ASSUME BuddyInv, NEW b \in FreeBlocks, b.level > 0
               PROVE  [level |-> b.level,
                       addr |-> Sibling(Nth(b.addr, b.level)) * Width(b.level)] \notin FreeBlocks
    BY DEF Coalesced
  <1>1. PICK ls : Sound(Memory, ls, held)
    BY DEF BuddyInv
  <1>2. Merged(Listed(ls)) /\ FreeBlocks = Listed(ls)
    BY <1>1, FreeBlocksAre DEF Sound
  <1>3. PICK l : l = b.level
    OBVIOUS
  <1>4. PICK x : x = Nth(b.addr, l)
    OBVIOUS
  <1>5. b \in Block
    BY <1>2 DEF Listed
  <1>6. l \in Levels /\ b = At(l, x) /\ x \in 0 .. POWER2[l] - 1
    BY <1>3, <1>4, <1>5, BlockAt, NthRange
  <1>7. At(l, Sibling(x)) \notin Listed(ls)
    BY <1>2, <1>3, <1>6 DEF Merged
  <1> QED
    BY <1>2, <1>3, <1>4, <1>7 DEF At

LEMMA InvBits == BuddyInv => BitsExact
  <1> SUFFICES ASSUME BuddyInv, NEW b \in Block, b.level > 0
               PROVE  bit_tree[Index(b.level, Nth(b.addr, b.level))] = 1
                        <=> \E h \in held : h.level >= b.level /\ Overlap(h, b)
    BY DEF BitsExact
  <1>1. PICK ls : Sound(Memory, ls, held)
    BY DEF BuddyInv
  <1>2. BitsFor(bit_tree, held) /\ held \subseteq Block
    <2>1. Memory.bit_tree = bit_tree
      BY DEF Memory
    <2> QED
      BY <1>1, <2>1 DEF Sound, Holds, Tiles
  <1>3. PICK l : l = b.level
    OBVIOUS
  <1>4. PICK x : x = Nth(b.addr, l)
    OBVIOUS
  <1>5. l \in Levels /\ x \in 0 .. POWER2[l] - 1 /\ l > 0
    BY <1>3, <1>4, BlockAt, NthRange
  <1>6. bit_tree[Index(l, x)] = 1 <=> Busy(held, l, x)
    BY <1>2, <1>5 DEF BitsFor
  <1>7. ASSUME NEW h \in held, h.level >= l
        PROVE  Overlap(h, b) <=> Nth(h.addr, l) = x
    <2>1. h \in Block /\ h.level \in Levels
      BY <1>2, BlockAt
    <2>2. b.level <= h.level
      BY <1>3, <1>5, <1>7, <2>1 DEF Levels
    <2>3. Overlap(b, h) <=> Nth(h.addr, b.level) = Nth(b.addr, b.level)
      BY <2>1, <2>2, OverlapIs
    <2>4. Overlap(b, h) <=> Overlap(h, b)
      BY <2>1, <2>2, OverlapIs
    <2> QED
      BY <1>3, <1>4, <2>3, <2>4
  <1>8. Busy(held, l, x) <=> \E h \in held : h.level >= l /\ Overlap(h, b)
    BY <1>7 DEF Busy
  <1> QED
    BY <1>3, <1>4, <1>6, <1>8

----------------------------------------------------------------------------
(***************************************************************************)
(* The theorems, for trees of any depth, blocks of any size and callers    *)
(* that have any number of them.                                           *)
(***************************************************************************)
LEMMA BuddyHolds == CarefulSpec => []BuddyInv
  BY BuddyInit, BuddyStep, PTL DEF CarefulSpec

\* The bits, the lists and the blocks have their types, whatever is asked for.
THEOREM BuddyTyped == CarefulSpec => []BuddyTypeOK
<1>1. BuddyInv => BuddyTypeOK
  BY InvType
<1> QED
  BY <1>1, BuddyHolds, PTL

\* k_mpool_alloc and k_mpool_dealloc never follow a link that a caller may have
\* written, as long as no buddy that is merged is the last of several.
THEOREM NoJunk == CarefulSpec => []NoJunkFollowed
<1>1. BuddyInv => NoJunkFollowed
  BY InvType
<1> QED
  BY <1>1, BuddyHolds, PTL

\* The free lists that push_head, pop_head and pop_block work on stay proper doubly
\* linked lists of blocks of their level.
THEOREM ListsLinked == CarefulSpec => []FreeListsLinked
<1>1. BuddyInv => FreeListsLinked
  BY InvLinked
<1> QED
  BY <1>1, BuddyHolds, PTL

\* Splitting and merging lose no memory, and no memory is ever both free and held
\* or in two blocks.
THEOREM NothingLost == CarefulSpec => []NothingLostOrShared
<1>1. BuddyInv => NothingLostOrShared
  BY InvTiles
<1> QED
  BY <1>1, BuddyHolds, PTL

\* The pool never gives two callers the same memory, nor can it: what it has left
\* to give overlaps nothing that a caller has.
THEOREM NothingIsShared == CarefulSpec => []NothingShared
<1>1. BuddyInv => NothingShared
  BY InvTiles
<1> QED
  BY <1>1, BuddyHolds, PTL

\* Two free buddies never stay apart after k_mpool_dealloc.
THEOREM BuddiesMerged == CarefulSpec => []Coalesced
<1>1. BuddyInv => Coalesced
  BY InvCoalesced
<1> QED
  BY <1>1, BuddyHolds, PTL

\* The bits, by which k_mpool_dealloc finds the size of a block and whether its
\* buddy is free, always tell the truth below the root.
THEOREM BitsAreExact == CarefulSpec => []BitsExact
<1>1. BuddyInv => BitsExact
  BY InvBits
<1> QED
  BY <1>1, BuddyHolds, PTL

\* One step of the allocator is one of the pool it promises to be.
LEMMA PromiseStep ==
    BuddyInv /\ [CarefulNext]_vars => [Pool!PoolNext]_(Pool!poolVars)
  <1> SUFFICES ASSUME BuddyInv, [CarefulNext]_vars PROVE [Pool!PoolNext]_(Pool!poolVars)
    OBVIOUS
  <1>1. PICK ls : Sound(Memory, ls, held)
    BY DEF BuddyInv
  <1>2. ASSUME NEW size \in Sizes, Alloc(size)
        PROVE  Pool!Request(size)
    <2>1. size \in Nat
      BY SizesAssumption
    <2>2. asked' = size
      BY <1>2 DEF Alloc
    <2>3. Refuses(size) \/ \E b : Answers(size, b)
      BY <1>1, <1>2, <2>1, AllocStep
    <2>4. CASE Refuses(size)
      <3>1. ret' = NULL /\ held' = held
            /\ (size = 0 \/ size > RAM_SIZE \/ NonEmpty(size) = {})
        BY <2>4 DEF Refuses
      <3>2. size = 0 \/ ~\E b \in Pool!Block : Pool!Place(b, size)
        <4> SUFFICES ASSUME size # 0, NEW b \in Pool!Block, Pool!Place(b, size) PROVE FALSE
          OBVIOUS
        <4>1. size > 0 /\ (size > RAM_SIZE \/ NonEmpty(size) = {})
          BY <2>1, <3>1
        <4>2. b \in Block
          BY PoolIs
        <4> QED
          BY <1>1, <2>1, <4>1, <4>2, NoPlace
      <3> QED
        BY <2>2, <3>1, <3>2 DEF Pool!Request
    <2>5. ASSUME NEW b, Answers(size, b)
          PROVE  Pool!Request(size)
      <3>1. size > 0 /\ size <= RAM_SIZE /\ b \in Block /\ b.level = LevelFor(size)
            /\ ret' = b.addr /\ held' = held \cup {b} /\ \A h \in held : ~Overlap(b, h)
        BY <2>5 DEF Answers
      <3>2. size <= Bytes(b.level) /\ \A l \in Levels : size <= Bytes(l) => l <= b.level
        BY <2>1, <3>1, LevelForIs
      <3>3. Pool!Fits(b, size)
        BY <3>2, PoolIs
      <3>4. Pool!Place(b, size)
        BY <3>1, <3>3, PoolIs
      <3>5. b \in Pool!Block
        BY <3>1, PoolIs
      <3> QED
        BY <2>2, <3>1, <3>4, <3>5 DEF Pool!Request
    <2> QED
      BY <2>3, <2>4, <2>5
  <1>3. CASE Dealloc(NULL)
    <2>1. held' = held /\ asked' = NULL /\ ret' = RTX_ERR
      BY <1>3, NullStep
    <2> QED
      BY <2>1 DEF Pool!Refuse, Pool!PoolNext
  <1>4. ASSUME NEW b \in held, Careful(b), Dealloc(b.addr)
        PROVE  Pool!Release(b)
    <2>1. held' = held \ {b} /\ asked' = NULL /\ ret' = RTX_OK
      BY <1>1, <1>4, DeallocStep
    <2> QED
      BY <2>1 DEF Pool!Release
  <1>5. CASE UNCHANGED vars
    BY <1>5 DEF vars, Pool!poolVars
  <1> QED
    BY <1>2, <1>3, <1>4, <1>5 DEF CarefulNext, Request, Pool!PoolNext

\* The allocator implements the pool: a caller gets the smallest block that holds
\* what it asks for, in memory nobody else has, and is refused only when there is
\* no place for one - k_mpool_alloc never refuses because of how it has split.
THEOREM PromiseIsKept == CarefulSpec => PromiseKept
<1>1. Init => Pool!PoolInit
  BY DEF Init, Pool!PoolInit
<1> QED
  BY <1>1, BuddyHolds, PromiseStep, PTL DEF CarefulSpec, PromiseKept, Pool!PoolSpec
=============================================================================

------------------------- MODULE PriorityQueueProofs -------------------------
(***************************************************************************)
(* What the queue operations do to a queue that is a proper doubly linked  *)
(* list: its tasks, in order, are the path p of n tasks, and each operation*)
(* is the operation on paths that its name promises.                       *)
(***************************************************************************)
EXTENDS PriorityQueue, FiniteSetTheorems, SequenceTheorems, WellFoundedInduction, TLAPS

USE MaxTasksAssumption, NullAssumption, SizeModAssumption

----------------------------------------------------------------------------
(***************************************************************************)
(* Numbers.                                                                *)
(***************************************************************************)
\* A non-empty set of natural numbers has a least element.
LEMMA Least ==
    ASSUME NEW S \in SUBSET Nat, S # {}
    PROVE  \E i \in S : \A j \in S : i <= j
  <1>1. PICK R : R = OpToRel(<, Nat)
    OBVIOUS
  <1>2. \A x, y \in Nat : <<y, x>> \in R <=> y < x
    BY <1>1 DEF OpToRel
  <1>3. IsWellFoundedOn(R, Nat)
    BY <1>1, NatLessThanWellFounded
  <1>4. PICK i \in S : \A y \in S : ~(<<y, i>> \in R)
    BY <1>3, WFMin
  <1> SUFFICES ASSUME NEW j \in S
               PROVE  i <= j
    BY <1>4
  <1>5. i \in Nat /\ j \in Nat
    BY <1>4
  <1>6. ~(j < i)
    BY <1>2, <1>4, <1>5
  <1> QED
    BY <1>5, <1>6

LEMMA CountsInRange ==
    \A n \in 0 .. SIZE_MOD - 1 : Incr(n) \in 0 .. SIZE_MOD - 1 /\ Decr(n) \in 0 .. SIZE_MOD - 1
  BY DEF Incr, Decr

\* current_size does not wrap: there are not that many tasks.
LEMMA CountsExact ==
    ASSUME NEW n \in 0 .. MAX_TASKS
    PROVE  Incr(n) = n + 1 /\ (n > 0 => Decr(n) = n - 1)
  <1>1. n + 1 < SIZE_MOD
    OBVIOUS
  <1>2. Incr(n) = n + 1
    BY <1>1 DEF Incr
  <1>3. ASSUME n > 0 PROVE Decr(n) = n - 1
    BY <1>1, <1>3 DEF Decr
  <1> QED
    BY <1>2, <1>3

----------------------------------------------------------------------------
(***************************************************************************)
(* Paths.                                                                  *)
(***************************************************************************)
\* n tasks in a row, each once.
Path(n, p) == /\ n \in Nat /\ p \in [1 .. n -> Tasks]
              /\ \A i, j \in 1 .. n : p[i] = p[j] => i = j

\* The queue record Q and the links of the array T say that the path is p.
Ends(Q, n, p)  == /\ Q.HEAD = IF n = 0 THEN NULL ELSE p[1]
                  /\ Q.TAIL = IF n = 0 THEN NULL ELSE p[n]
                  /\ Q.current_size = n
Links(T, n, p) == /\ \A i \in 1 .. n : T[p[i]].next = IF i = n THEN NULL ELSE p[i + 1]
                  /\ \A i \in 2 .. n : T[p[i]].prev = p[i - 1]
Along(T, Q, n, p) == Path(n, p) /\ Ends(Q, n, p) /\ Links(T, n, p)

\* A path without its j-th task, with a task before it, and with a task behind it.
Without(n, p, j) == [i \in 1 .. n - 1 |-> IF i < j THEN p[i] ELSE p[i + 1]]
Before(t, n, p)  == [i \in 1 .. n + 1 |-> IF i = 1 THEN t ELSE p[i - 1]]
Behind(n, p, t)  == [i \in 1 .. n + 1 |-> IF i <= n THEN p[i] ELSE t]
Within(n, p, j, t) == [i \in 1 .. n + 1 |-> IF i < j THEN p[i] ELSE IF i = j THEN t ELSE p[i - 1]]

LEMMA TasksFinite == IsFiniteSet(Tasks) /\ Cardinality(Tasks) = MAX_TASKS
  BY FS_Interval DEF Tasks

\* No path is longer than the array.
LEMMA PathLength ==
    ASSUME NEW n, NEW p, Path(n, p)
    PROVE  n <= MAX_TASKS /\ Cardinality(Range(p)) = n
  <1>1. Range(p) \subseteq Tasks
    BY DEF Path, Range
  <1>2. IsFiniteSet(Range(p)) /\ Cardinality(Range(p)) <= MAX_TASKS
    BY <1>1, TasksFinite, FS_Subset
  <1>3. IsFiniteSet(1 .. n) /\ Cardinality(1 .. n) = n
    BY FS_Interval DEF Path
  <1>4. p \in Bijection(1 .. n, Range(p))
    BY DEF Path, Range, Bijection, Injection, Surjection, IsInjective
  <1>5. ExistsBijection(1 .. n, Range(p))
    BY <1>4 DEF ExistsBijection
  <1>6. Cardinality(Range(p)) = n
    BY <1>2, <1>3, <1>5, FS_Bijection
  <1> QED
    BY <1>2, <1>6

LEMMA AlongPath ==
    ASSUME NEW T, NEW Q, NEW n, NEW p, Along(T, Q, n, p)
    PROVE  /\ n \in Nat /\ p \in [1 .. n -> Tasks] /\ n <= MAX_TASKS
           /\ \A i, j \in 1 .. n : p[i] = p[j] => i = j
           /\ n # 0 => n >= 1 /\ 1 \in 1 .. n /\ n \in 1 .. n
  <1>1. Path(n, p) /\ n <= MAX_TASKS
    BY PathLength DEF Along
  <1> QED
    BY <1>1 DEF Path

\* The walk along next finds the path.
LEMMA NodesOfPath ==
    ASSUME NEW k, NEW q, k.tcb \in [Tasks -> TCB],
           NEW n, NEW p, Along(k.tcb, k.queue[q], n, p)
    PROVE  Nodes(k, q) = p
  <1>1. PICK next : next = [t \in TaskPtr |-> IF t = NULL THEN NULL ELSE k.tcb[t].next]
    OBVIOUS
  <1>2. PICK node : node = CHOOSE g : g = [i \in 1 .. MAX_TASKS + 1 |->
                               IF i = 1 THEN k.queue[q].HEAD ELSE next[g[i - 1]]]
    OBVIOUS
  <1>3. Nodes(k, q) =
          [i \in 1 .. Cardinality({i \in 1 .. MAX_TASKS + 1 : node[i] # NULL}) |-> node[i]]
    BY <1>1, <1>2 DEF Nodes
  <1>4. n \in Nat /\ n <= MAX_TASKS
    BY PathLength DEF Along, Path
  <1>5. PICK f : f = [i \in 1 .. MAX_TASKS + 1 |-> IF i <= n THEN p[i] ELSE NULL]
    OBVIOUS
  <1>6. \A i \in 1 .. MAX_TASKS + 1 :
            f[i] = IF i = 1 THEN k.queue[q].HEAD ELSE next[f[i - 1]]
    <2> SUFFICES ASSUME NEW i \in 1 .. MAX_TASKS + 1
                 PROVE  f[i] = IF i = 1 THEN k.queue[q].HEAD ELSE next[f[i - 1]]
      OBVIOUS
    <2>1. CASE i = 1
      BY <1>4, <1>5, <2>1 DEF Along, Ends
    <2>2. CASE i > 1 /\ i - 1 > n
      <3>1. f[i - 1] = NULL /\ f[i] = NULL
        BY <1>4, <1>5, <2>2
      <3> QED
        BY <1>1, <2>2, <3>1 DEF TaskPtr
    <2>3. CASE i > 1 /\ i - 1 <= n
      <3>1. i - 1 \in 1 .. n /\ f[i - 1] = p[i - 1]
        BY <1>4, <1>5, <2>3
      <3>2. p[i - 1] \in Tasks /\ p[i - 1] # NULL
        BY <3>1 DEF Along, Path, Tasks
      <3>3. next[f[i - 1]] = k.tcb[p[i - 1]].next
        BY <1>1, <3>1, <3>2 DEF TaskPtr
      <3>4. k.tcb[p[i - 1]].next = IF i - 1 = n THEN NULL ELSE p[i]
        BY <3>1 DEF Along, Links
      <3>5. f[i] = IF i - 1 = n THEN NULL ELSE p[i]
        BY <1>4, <1>5, <2>3
      <3> QED
        BY <2>3, <3>3, <3>4, <3>5
    <2> QED
      BY <1>4, <2>1, <2>2, <2>3
  <1>7. f = [i \in 1 .. MAX_TASKS + 1 |-> IF i = 1 THEN k.queue[q].HEAD ELSE next[f[i - 1]]]
    BY <1>5, <1>6
  <1>8. node = [i \in 1 .. MAX_TASKS + 1 |-> IF i = 1 THEN k.queue[q].HEAD ELSE next[node[i - 1]]]
    BY <1>2, <1>7
  <1>9. \A i \in 1 .. MAX_TASKS + 1 : node[i] = f[i]
    <2> DEFINE Bad == {i \in 1 .. MAX_TASKS + 1 : node[i] # f[i]}
    <2> SUFFICES ASSUME Bad # {} PROVE FALSE
      OBVIOUS
    <2>1. Bad \in SUBSET Nat
      OBVIOUS
    <2>2. PICK i \in Bad : \A j \in Bad : i <= j
      BY <2>1, Least
    <2>3. i # 1 => i - 1 \in 1 .. MAX_TASKS + 1 /\ i - 1 \notin Bad
      BY <2>1, <2>2
    <2>4. i # 1 => node[i - 1] = f[i - 1]
      BY <2>3
    <2> QED
      BY <1>6, <1>8, <2>2, <2>4
  <1>10. {i \in 1 .. MAX_TASKS + 1 : node[i] # NULL} = 1 .. n
    <2>1. \A i \in 1 .. n : p[i] # NULL
      BY DEF Along, Path, Tasks
    <2> QED
      BY <1>4, <1>5, <1>9, <2>1
  <1>11. Cardinality(1 .. n) = n
    BY <1>4, FS_Interval
  <1>12. \A i \in 1 .. n : node[i] = p[i]
    BY <1>4, <1>5, <1>9
  <1>13. p = [i \in 1 .. n |-> p[i]]
    BY DEF Along, Path
  <1>14. Nodes(k, q) = [i \in 1 .. n |-> node[i]]
    BY <1>3, <1>10, <1>11
  <1> QED
    BY <1>12, <1>13, <1>14

\* A queue with a path is what WellLinked says.
LEMMA PathWellLinked ==
    ASSUME NEW k, NEW q, k.tcb \in [Tasks -> TCB],
           NEW n, NEW p, Along(k.tcb, k.queue[q], n, p)
    PROVE  WellLinked(k, q) /\ TasksOf(k, q) = Range(p)
  <1>1. Nodes(k, q) = p
    BY NodesOfPath
  <1>2. n \in Nat /\ n <= MAX_TASKS /\ Cardinality(Range(p)) = n
    BY PathLength DEF Along, Path
  <1>3. p \in Seq(Tasks) /\ Len(p) = n
    BY LenProperties, IsASeq DEF Along, Path
  <1>4. /\ k.queue[q].current_size = n
        /\ k.queue[q].TAIL = IF n = 0 THEN NULL ELSE p[n]
        /\ \A i \in 2 .. n : k.tcb[p[i]].prev = p[i - 1]
    BY DEF Along, Ends, Links
  <1> QED
    BY <1>1, <1>2, <1>3, <1>4 DEF WellLinked, TasksOf

\* The paths with a task more or less.
LEMMA NewPaths ==
    ASSUME NEW n, NEW p, Path(n, p)
    PROVE  /\ \A j \in 1 .. n : /\ Path(n - 1, Without(n, p, j))
                               /\ Range(Without(n, p, j)) = Range(p) \ {p[j]}
           /\ \A t \in Tasks \ Range(p) :
                 /\ Path(n + 1, Before(t, n, p)) /\ Range(Before(t, n, p)) = Range(p) \cup {t}
                 /\ Path(n + 1, Behind(n, p, t)) /\ Range(Behind(n, p, t)) = Range(p) \cup {t}
  <1>1. n \in Nat /\ p \in [1 .. n -> Tasks] /\ Range(p) = {p[i] : i \in 1 .. n}
    BY DEF Path, Range
  <1>2. ASSUME NEW j \in 1 .. n
        PROVE  /\ Path(n - 1, Without(n, p, j))
               /\ Range(Without(n, p, j)) = Range(p) \ {p[j]}
    <2>1. PICK w : w = Without(n, p, j)
      OBVIOUS
    <2>2. w \in [1 .. n - 1 -> Tasks] /\ \A i \in 1 .. n - 1 : w[i] = IF i < j THEN p[i] ELSE p[i + 1]
      BY <1>1, <2>1 DEF Without
    <2>3. Path(n - 1, w)
      BY <1>1, <2>2 DEF Path
    <2>4. ASSUME NEW i \in 1 .. n, i # j PROVE \E m \in 1 .. n - 1 : w[m] = p[i]
      <3>1. CASE i < j
        BY <1>1, <2>2, <3>1
      <3>2. CASE i > j
        <4>1. i - 1 \in 1 .. n - 1 /\ ~(i - 1 < j) /\ (i - 1) + 1 = i
          BY <1>1, <3>2
        <4> QED
          BY <2>2, <4>1
      <3> QED
        BY <1>1, <2>4, <3>1, <3>2
    <2>5. \A m \in 1 .. n - 1 : w[m] \in Range(p) \ {p[j]}
      BY <1>1, <2>2 DEF Path
    <2>6. Range(w) = {w[i] : i \in 1 .. n - 1}
      BY <2>2 DEF Range
    <2> QED
      BY <1>1, <2>1, <2>3, <2>4, <2>5, <2>6
  <1>3. ASSUME NEW t \in Tasks \ Range(p)
        PROVE  Path(n + 1, Before(t, n, p)) /\ Range(Before(t, n, p)) = Range(p) \cup {t}
    <2>1. PICK w : w = Before(t, n, p)
      OBVIOUS
    <2>2. w \in [1 .. n + 1 -> Tasks] /\ \A i \in 1 .. n + 1 : w[i] = IF i = 1 THEN t ELSE p[i - 1]
      BY <1>1, <2>1 DEF Before
    <2>3. Path(n + 1, w)
      BY <1>1, <2>2 DEF Path
    <2>4. \A i \in 1 .. n : i + 1 \in 1 .. n + 1 /\ w[i + 1] = p[i]
      BY <1>1, <2>2
    <2>5. 1 \in 1 .. n + 1 /\ w[1] = t
      BY <1>1, <2>2
    <2>6. \A m \in 1 .. n + 1 : m = 1 \/ (m - 1 \in 1 .. n /\ w[m] = p[m - 1])
      BY <1>1, <2>2
    <2>7. Range(w) = {w[i] : i \in 1 .. n + 1}
      BY <2>2 DEF Range
    <2>8. Range(p) \cup {t} \subseteq Range(w)
      BY <1>1, <2>4, <2>5, <2>7
    <2>9. Range(w) \subseteq Range(p) \cup {t}
      BY <1>1, <2>5, <2>6, <2>7
    <2> QED
      BY <2>1, <2>3, <2>8, <2>9
  <1>4. ASSUME NEW t \in Tasks \ Range(p)
        PROVE  Path(n + 1, Behind(n, p, t)) /\ Range(Behind(n, p, t)) = Range(p) \cup {t}
    <2>1. PICK w : w = Behind(n, p, t)
      OBVIOUS
    <2>2. w \in [1 .. n + 1 -> Tasks] /\ \A i \in 1 .. n + 1 : w[i] = IF i <= n THEN p[i] ELSE t
      BY <1>1, <2>1 DEF Behind
    <2>3. Path(n + 1, w)
      BY <1>1, <2>2 DEF Path
    <2>4. (\A i \in 1 .. n : i \in 1 .. n + 1 /\ w[i] = p[i]) /\ n + 1 \in 1 .. n + 1
          /\ w[n + 1] = t /\ \A m \in 1 .. n + 1 : w[m] \in Range(p) \cup {t}
      BY <1>1, <2>2
    <2>5. Range(w) = {w[i] : i \in 1 .. n + 1}
      BY <2>2 DEF Range
    <2>6. Range(p) \cup {t} \subseteq Range(w)
      BY <1>1, <2>4, <2>5
    <2> QED
      BY <2>1, <2>3, <2>4, <2>5, <2>6
  <1> QED
    BY <1>2, <1>3, <1>4

\* u comes before v on the path.
InOrder(n, p, u, v) == \E i, m \in 1 .. n : i < m /\ p[i] = u /\ p[m] = v

\* The order of the other tasks is the same on the new paths, the first task comes
\* before all others and the last after them.
LEMMA OrderKept ==
    ASSUME NEW n, NEW p, Path(n, p)
    PROVE  /\ \A j \in 1 .. n, u, v \in Tasks :
                 u # p[j] /\ v # p[j]
                 => (InOrder(n - 1, Without(n, p, j), u, v) <=> InOrder(n, p, u, v))
           /\ \A t, u, v \in Tasks :
                 u # t /\ v # t => (InOrder(n + 1, Before(t, n, p), u, v) <=> InOrder(n, p, u, v))
           /\ \A t, u, v \in Tasks :
                 u # t /\ v # t => (InOrder(n + 1, Behind(n, p, t), u, v) <=> InOrder(n, p, u, v))
           /\ \A t \in Tasks, u \in Range(p) : InOrder(n + 1, Behind(n, p, t), u, t)
           /\ \A u \in Range(p) : u # p[1] => InOrder(n, p, p[1], u)
  <1>1. n \in Nat /\ p \in [1 .. n -> Tasks] /\ Range(p) = {p[i] : i \in 1 .. n}
    BY DEF Path, Range
  <1>2. ASSUME NEW j \in 1 .. n, NEW u \in Tasks, NEW v \in Tasks, u # p[j], v # p[j]
        PROVE  InOrder(n - 1, Without(n, p, j), u, v) <=> InOrder(n, p, u, v)
    <2>1. PICK w : w = Without(n, p, j)
      OBVIOUS
    <2>2. \A i \in 1 .. n - 1 : w[i] = IF i < j THEN p[i] ELSE p[i + 1]
      BY <1>1, <2>1 DEF Without
    <2>3. ASSUME InOrder(n, p, u, v) PROVE InOrder(n - 1, w, u, v)
      <3>1. PICK i, m \in 1 .. n : i < m /\ p[i] = u /\ p[m] = v
        BY <2>3 DEF InOrder
      <3>2. i # j /\ m # j
        BY <1>2, <3>1
      <3>3. PICK a, b \in Int : a = (IF i < j THEN i ELSE i - 1) /\ b = (IF m < j THEN m ELSE m - 1)
        BY <1>1
      <3>4. a \in 1 .. n - 1 /\ b \in 1 .. n - 1 /\ a < b
        BY <1>1, <3>1, <3>2, <3>3
      <3>5. w[a] = p[i] /\ w[b] = p[m]
        BY <1>1, <2>2, <3>2, <3>3, <3>4
      <3> QED
        BY <3>1, <3>4, <3>5 DEF InOrder
    <2>4. ASSUME InOrder(n - 1, w, u, v) PROVE InOrder(n, p, u, v)
      <3>1. PICK i, m \in 1 .. n - 1 : i < m /\ w[i] = u /\ w[m] = v
        BY <2>4 DEF InOrder
      <3>2. PICK a, b \in Int : a = (IF i < j THEN i ELSE i + 1) /\ b = (IF m < j THEN m ELSE m + 1)
        BY <1>1
      <3>3. a \in 1 .. n /\ b \in 1 .. n /\ a < b
        BY <1>1, <3>1, <3>2
      <3>4. w[i] = p[a] /\ w[m] = p[b]
        BY <1>1, <2>2, <3>2
      <3> QED
        BY <3>1, <3>3, <3>4 DEF InOrder
    <2> QED
      BY <2>1, <2>3, <2>4
  <1>3. ASSUME NEW t \in Tasks, NEW u \in Tasks, NEW v \in Tasks, u # t, v # t
        PROVE  InOrder(n + 1, Before(t, n, p), u, v) <=> InOrder(n, p, u, v)
    <2>1. PICK w : w = Before(t, n, p)
      OBVIOUS
    <2>2. \A i \in 1 .. n + 1 : w[i] = IF i = 1 THEN t ELSE p[i - 1]
      BY <1>1, <2>1 DEF Before
    <2>3. ASSUME InOrder(n, p, u, v) PROVE InOrder(n + 1, w, u, v)
      <3>1. PICK i, m \in 1 .. n : i < m /\ p[i] = u /\ p[m] = v
        BY <2>3 DEF InOrder
      <3>2. i + 1 \in 1 .. n + 1 /\ m + 1 \in 1 .. n + 1 /\ i + 1 < m + 1
            /\ w[i + 1] = p[i] /\ w[m + 1] = p[m]
        BY <1>1, <2>2, <3>1
      <3> QED
        BY <3>1, <3>2 DEF InOrder
    <2>4. ASSUME InOrder(n + 1, w, u, v) PROVE InOrder(n, p, u, v)
      <3>1. PICK i, m \in 1 .. n + 1 : i < m /\ w[i] = u /\ w[m] = v
        BY <2>4 DEF InOrder
      <3>2. i # 1 /\ m # 1
        BY <1>1, <1>3, <2>2, <3>1
      <3>3. i - 1 \in 1 .. n /\ m - 1 \in 1 .. n /\ i - 1 < m - 1
            /\ w[i] = p[i - 1] /\ w[m] = p[m - 1]
        BY <1>1, <2>2, <3>1, <3>2
      <3> QED
        BY <3>1, <3>3 DEF InOrder
    <2> QED
      BY <2>1, <2>3, <2>4
  <1>4. ASSUME NEW t \in Tasks
        PROVE  /\ \A u \in Range(p) : InOrder(n + 1, Behind(n, p, t), u, t)
               /\ \A u, v \in Tasks : u # t /\ v # t
                    => (InOrder(n + 1, Behind(n, p, t), u, v) <=> InOrder(n, p, u, v))
    <2>1. PICK w : w = Behind(n, p, t)
      OBVIOUS
    <2>2. \A i \in 1 .. n + 1 : w[i] = IF i <= n THEN p[i] ELSE t
      BY <1>1, <2>1 DEF Behind
    <2>3. ASSUME NEW u \in Range(p) PROVE InOrder(n + 1, w, u, t)
      <3>1. PICK i \in 1 .. n : p[i] = u
        BY <1>1
      <3>2. i \in 1 .. n + 1 /\ n + 1 \in 1 .. n + 1 /\ i < n + 1 /\ w[i] = u /\ w[n + 1] = t
        BY <1>1, <2>2, <3>1
      <3> QED
        BY <3>2 DEF InOrder
    <2>4. ASSUME NEW u \in Tasks, NEW v \in Tasks, u # t, v # t
          PROVE  InOrder(n + 1, w, u, v) <=> InOrder(n, p, u, v)
      <3>1. ASSUME InOrder(n, p, u, v) PROVE InOrder(n + 1, w, u, v)
        <4>1. PICK i, m \in 1 .. n : i < m /\ p[i] = u /\ p[m] = v
          BY <3>1 DEF InOrder
        <4>2. i \in 1 .. n + 1 /\ m \in 1 .. n + 1 /\ w[i] = p[i] /\ w[m] = p[m]
          BY <1>1, <2>2
        <4> QED
          BY <4>1, <4>2 DEF InOrder
      <3>2. ASSUME InOrder(n + 1, w, u, v) PROVE InOrder(n, p, u, v)
        <4>1. PICK i, m \in 1 .. n + 1 : i < m /\ w[i] = u /\ w[m] = v
          BY <3>2 DEF InOrder
        <4>2. i # n + 1 /\ m # n + 1
          BY <1>1, <2>2, <2>4, <4>1
        <4>3. i \in 1 .. n /\ m \in 1 .. n /\ w[i] = p[i] /\ w[m] = p[m]
          BY <1>1, <2>2, <4>2
        <4> QED
          BY <4>1, <4>3 DEF InOrder
      <3> QED
        BY <3>1, <3>2
    <2> QED
      BY <2>1, <2>3, <2>4
  <1>5. ASSUME NEW u \in Range(p), u # p[1] PROVE InOrder(n, p, p[1], u)
    <2>1. PICK m \in 1 .. n : p[m] = u
      BY <1>1
    <2>2. 1 \in 1 .. n /\ 1 < m
      BY <1>1, <1>5, <2>1
    <2> QED
      BY <2>1, <2>2 DEF InOrder
  <1> QED
    BY <1>2, <1>3, <1>4, <1>5

\* A task inserted ahead of the j-th one.
LEMMA WithinPath ==
    ASSUME NEW n, NEW p, Path(n, p), NEW j \in 1 .. n, NEW t \in Tasks \ Range(p)
    PROVE  /\ Path(n + 1, Within(n, p, j, t))
           /\ Range(Within(n, p, j, t)) = Range(p) \cup {t}
           /\ \A u, v \in Tasks : u # t /\ v # t
                 => (InOrder(n + 1, Within(n, p, j, t), u, v) <=> InOrder(n, p, u, v))
           /\ \A u : InOrder(n + 1, Within(n, p, j, t), u, t) => \E i \in 1 .. j - 1 : p[i] = u
           /\ \A u : InOrder(n + 1, Within(n, p, j, t), t, u) => \E i \in j .. n : p[i] = u
  <1>1. n \in Nat /\ p \in [1 .. n -> Tasks] /\ Range(p) = {p[i] : i \in 1 .. n}
    BY DEF Path, Range
  <1>2. PICK w : w = Within(n, p, j, t)
    OBVIOUS
  <1>3. /\ w \in [1 .. n + 1 -> Tasks]
        /\ \A i \in 1 .. n + 1 : w[i] = IF i < j THEN p[i] ELSE IF i = j THEN t ELSE p[i - 1]
    BY <1>1, <1>2 DEF Within
  <1>4. \A i \in 1 .. n + 1 : /\ w[i] = t <=> i = j
                              /\ i < j => i \in 1 .. n /\ w[i] = p[i]
                              /\ i > j => i - 1 \in 1 .. n /\ w[i] = p[i - 1]
    <2> SUFFICES ASSUME NEW i \in 1 .. n + 1
                 PROVE  /\ w[i] = t <=> i = j
                        /\ i < j => i \in 1 .. n /\ w[i] = p[i]
                        /\ i > j => i - 1 \in 1 .. n /\ w[i] = p[i - 1]
      OBVIOUS
    <2>1. CASE i = j
      BY <1>3, <2>1
    <2>2. CASE i < j
      <3>1. i \in 1 .. n /\ w[i] = p[i]
        BY <1>1, <1>3, <2>2
      <3> QED
        BY <1>1, <2>2, <3>1
    <2>3. CASE i > j
      <3>1. i - 1 \in 1 .. n /\ w[i] = p[i - 1]
        BY <1>1, <1>3, <2>3
      <3> QED
        BY <1>1, <2>3, <3>1
    <2> QED
      BY <2>1, <2>2, <2>3
  <1>5. \A i \in 1 .. n : /\ i < j => i \in 1 .. n + 1 /\ w[i] = p[i]
                          /\ i >= j => i + 1 \in 1 .. n + 1 /\ w[i + 1] = p[i]
    <2> SUFFICES ASSUME NEW i \in 1 .. n
                 PROVE  /\ i < j => i \in 1 .. n + 1 /\ w[i] = p[i]
                        /\ i >= j => i + 1 \in 1 .. n + 1 /\ w[i + 1] = p[i]
      OBVIOUS
    <2>1. i \in 1 .. n + 1 /\ i + 1 \in 1 .. n + 1 /\ i \in Int /\ j \in Int
      BY <1>1
    <2>2. i < j => w[i] = p[i]
      BY <1>3, <2>1
    <2>3. ASSUME i >= j PROVE w[i + 1] = p[i]
      <3>1. i + 1 > j /\ (i + 1) - 1 = i
        BY <2>1, <2>3
      <3> QED
        BY <1>4, <2>1, <3>1
    <2> QED
      BY <2>1, <2>2, <2>3
  <1>6. Path(n + 1, w)
    <2>1. ASSUME NEW a \in 1 .. n + 1, NEW b \in 1 .. n + 1, w[a] = w[b] PROVE a = b
      <3>1. \A i, m \in 1 .. n : p[i] = p[m] => i = m
        BY DEF Path
      <3> QED
        BY <1>1, <1>4, <2>1, <3>1
    <2> QED
      BY <1>1, <1>3, <2>1 DEF Path
  <1>7. Range(w) = Range(p) \cup {t}
    <2>1. Range(w) = {w[i] : i \in 1 .. n + 1}
      BY <1>3 DEF Range
    <2>2. j \in 1 .. n + 1 /\ w[j] = t
      BY <1>1, <1>3
    <2>3. \A i \in 1 .. n + 1 : w[i] \in Range(p) \cup {t}
      BY <1>1, <1>4
    <2>4. \A i \in 1 .. n : \E m \in 1 .. n + 1 : w[m] = p[i]
      BY <1>1, <1>5
    <2> QED
      BY <1>1, <2>1, <2>2, <2>3, <2>4
  <1>8. ASSUME NEW u \in Tasks, NEW v \in Tasks, u # t, v # t
        PROVE  InOrder(n + 1, w, u, v) <=> InOrder(n, p, u, v)
    <2>1. ASSUME InOrder(n, p, u, v) PROVE InOrder(n + 1, w, u, v)
      <3>1. PICK i, m \in 1 .. n : i < m /\ p[i] = u /\ p[m] = v
        BY <2>1 DEF InOrder
      <3>2. PICK a, b \in Int : a = (IF i < j THEN i ELSE i + 1) /\ b = (IF m < j THEN m ELSE m + 1)
        BY <1>1
      <3>3. a \in 1 .. n + 1 /\ b \in 1 .. n + 1 /\ a < b
        BY <1>1, <3>1, <3>2
      <3>4. w[a] = u /\ w[b] = v
        BY <1>1, <1>5, <3>1, <3>2
      <3> QED
        BY <3>3, <3>4 DEF InOrder
    <2>2. ASSUME InOrder(n + 1, w, u, v) PROVE InOrder(n, p, u, v)
      <3>1. PICK i, m \in 1 .. n + 1 : i < m /\ w[i] = u /\ w[m] = v
        BY <2>2 DEF InOrder
      <3>2. i # j /\ m # j
        BY <1>4, <1>8, <3>1
      <3>3. PICK a, b \in Int : a = (IF i < j THEN i ELSE i - 1) /\ b = (IF m < j THEN m ELSE m - 1)
        BY <1>1
      <3>4. a \in 1 .. n /\ b \in 1 .. n /\ a < b
        BY <1>1, <3>1, <3>2, <3>3
      <3>5. p[a] = u /\ p[b] = v
        BY <1>1, <1>4, <3>1, <3>2, <3>3
      <3> QED
        BY <3>4, <3>5 DEF InOrder
    <2> QED
      BY <2>1, <2>2
  <1>9. ASSUME NEW u, InOrder(n + 1, w, u, t) PROVE \E i \in 1 .. j - 1 : p[i] = u
    <2>1. PICK i, m \in 1 .. n + 1 : i < m /\ w[i] = u /\ w[m] = t
      BY <1>9 DEF InOrder
    <2>2. m = j
      BY <1>4, <2>1
    <2> QED
      BY <1>1, <1>4, <2>1, <2>2
  <1>10. ASSUME NEW u, InOrder(n + 1, w, t, u) PROVE \E i \in j .. n : p[i] = u
    <2>1. PICK i, m \in 1 .. n + 1 : i < m /\ w[i] = t /\ w[m] = u
      BY <1>10 DEF InOrder
    <2>2. i = j
      BY <1>4, <2>1
    <2>3. m - 1 \in j .. n /\ p[m - 1] = u
      BY <1>1, <1>4, <2>1, <2>2
    <2> QED
      BY <2>3
  <1> QED
    BY <1>2, <1>6, <1>7, <1>8, <1>9, <1>10

\* Nobody is ahead of the first task, nor behind the last.
LEMMA AtTheEnds ==
    ASSUME NEW n, NEW p, Path(n, p), NEW t \in Tasks \ Range(p)
    PROVE  /\ \A u : ~InOrder(n + 1, Before(t, n, p), u, t)
           /\ \A u : ~InOrder(n + 1, Behind(n, p, t), t, u)
           /\ \A u, v : InOrder(n, p, u, v) => u \in Range(p) /\ v \in Range(p)
  <1>1. n \in Nat /\ p \in [1 .. n -> Tasks] /\ Range(p) = {p[i] : i \in 1 .. n}
    BY DEF Path, Range
  <1>2. ASSUME NEW u, InOrder(n + 1, Before(t, n, p), u, t) PROVE FALSE
    <2>1. PICK w : w = Before(t, n, p)
      OBVIOUS
    <2>2. PICK i, m \in 1 .. n + 1 : i < m /\ w[i] = u /\ w[m] = t
      BY <1>2, <2>1 DEF InOrder
    <2>3. w[m] = p[m - 1] /\ m - 1 \in 1 .. n
      BY <1>1, <2>1, <2>2 DEF Before
    <2> QED
      BY <1>1, <2>2, <2>3
  <1>3. ASSUME NEW u, InOrder(n + 1, Behind(n, p, t), t, u) PROVE FALSE
    <2>1. PICK w : w = Behind(n, p, t)
      OBVIOUS
    <2>2. PICK i, m \in 1 .. n + 1 : i < m /\ w[i] = t /\ w[m] = u
      BY <1>3, <2>1 DEF InOrder
    <2>3. w[i] = p[i] /\ i \in 1 .. n
      BY <1>1, <2>1, <2>2 DEF Behind
    <2> QED
      BY <1>1, <2>2, <2>3
  <1>4. ASSUME NEW u, NEW v, InOrder(n, p, u, v) PROVE u \in Range(p) /\ v \in Range(p)
    BY <1>1, <1>4 DEF InOrder
  <1> QED
    BY <1>2, <1>3, <1>4

----------------------------------------------------------------------------
(***************************************************************************)
(* The kernel memory.  What the lemmas say of an operation does not depend *)
(* on the other fields that the modules above keep in it.                  *)
(***************************************************************************)
Memory(k) == /\ k = [f \in DOMAIN k |-> k[f]]
             /\ {"tcb", "queue", "cur", "ub"} \subseteq DOMAIN k
             /\ k.tcb \in [Tasks -> TCB] /\ k.queue \in [Queues -> QUEUE]
             /\ k.cur \in Tasks /\ k.ub \in BOOLEAN

\* The fields that the queue operations leave alone, of a memory and of a TCB.
SameRest(l, k) == /\ DOMAIN l = DOMAIN k /\ l.cur = k.cur /\ l.ub = k.ub
                  /\ \A f \in DOMAIN k : f \notin {"tcb", "queue"} => l[f] = k[f]
SameTask(A, B) == /\ A.prio = B.prio /\ A.priv = B.priv
                  /\ A.real_time = B.real_time /\ A.tsk_deadline = B.tsk_deadline

\* Every operation writes one queue and the array.
Write(k, q, Q, T) == [k EXCEPT !.queue[q] = Q, !.tcb = T]

\* From k to l the tasks of q become the path p of n tasks: besides q, only the
\* links of the tasks of S and the state and links of t have changed.
Moved(l, k, q, S, t, n, p) ==
    /\ Memory(l) /\ SameRest(l, k)
    /\ Along(l.tcb, l.queue[q], n, p)
    /\ \A r \in Queues : r # q => l.queue[r] = k.queue[r]
    /\ \A u \in Tasks : SameTask(l.tcb[u], k.tcb[u])
    /\ \A u \in Tasks : u # t => l.tcb[u].state = k.tcb[u].state
    /\ \A u \in Tasks \ S : u # t => l.tcb[u] = k.tcb[u]

LEMMA WriteQueue ==
    ASSUME NEW k, Memory(k), NEW T \in [Tasks -> TCB], NEW q \in Queues, NEW Q \in QUEUE
    PROVE  Memory(Write(k, q, Q, T)) /\ SameRest(Write(k, q, Q, T), k)
  <1>1. Memory(Write(k, q, Q, T))
    BY DEF Memory, Write
  <1>2. SameRest(Write(k, q, Q, T), k)
    BY DEF Memory, SameRest, Write
  <1> QED
    BY <1>1, <1>2

LEMMA WriteRead ==
    ASSUME NEW k, Memory(k), NEW T, NEW q \in Queues, NEW Q
    PROVE  /\ Write(k, q, Q, T).tcb = T /\ Write(k, q, Q, T).queue[q] = Q
           /\ \A r \in Queues : r # q => Write(k, q, Q, T).queue[r] = k.queue[r]
  BY DEF Memory, Write

\* Facts about the fields of a memory.
LEMMA MemoryFields ==
    ASSUME NEW k, Memory(k)
    PROVE  /\ \A q \in Queues : /\ k.queue[q] \in QUEUE
                                /\ k.queue[q].HEAD \in TaskPtr /\ k.queue[q].TAIL \in TaskPtr
                                /\ k.queue[q].current_size \in 0 .. SIZE_MOD - 1
           /\ \A t \in Tasks : /\ k.tcb[t] \in TCB
                               /\ k.tcb[t].state \in States /\ k.tcb[t].prio \in Prio
                               /\ k.tcb[t].prev \in TaskPtr /\ k.tcb[t].next \in TaskPtr
                               /\ k.tcb[t].real_time \in BOOLEAN
                               /\ k.tcb[t].tsk_deadline \in Nat
           /\ NULL \notin Tasks /\ NULL \in TaskPtr /\ \A t \in Tasks : t \in TaskPtr
  BY DEF Memory, QUEUE, TCB, Tasks, TaskPtr

\* From k to l only the state of t has changed, to s: what every write to a
\* state between the queue operations does.
Restated(l, k, t, s) ==
    /\ Memory(l) /\ SameRest(l, k) /\ l.queue = k.queue
    /\ \A u \in Tasks : u # t => l.tcb[u] = k.tcb[u]
    /\ SameTask(l.tcb[t], k.tcb[t]) /\ l.tcb[t].state = s
    /\ l.tcb[t].next = k.tcb[t].next /\ l.tcb[t].prev = k.tcb[t].prev

LEMMA WriteState ==
    ASSUME NEW k, Memory(k), NEW t \in Tasks, NEW s \in States
    PROVE  Restated([k EXCEPT !.tcb[t].state = s], k, t, s)
  <1>0. PICK l : l = [k EXCEPT !.tcb[t].state = s]
    OBVIOUS
  <1>1. k.tcb[t] \in TCB
    BY MemoryFields
  <1>2. PICK W : W = [k.tcb[t] EXCEPT !.state = s]
    OBVIOUS
  <1>3. /\ W \in TCB /\ SameTask(W, k.tcb[t]) /\ W.state = s
        /\ W.next = k.tcb[t].next /\ W.prev = k.tcb[t].prev
    BY <1>1, <1>2 DEF TCB, SameTask
  <1>4. l = [k EXCEPT !.tcb = [k.tcb EXCEPT ![t] = W]]
    BY <1>0, <1>2 DEF Memory
  <1>5. Memory(l) /\ l.tcb = [k.tcb EXCEPT ![t] = W] /\ l.queue = k.queue
    BY <1>3, <1>4 DEF Memory
  <1>6. SameRest(l, k)
    BY <1>4 DEF Memory, SameRest
  <1>7. /\ \A u \in Tasks : u # t => l.tcb[u] = k.tcb[u]
        /\ l.tcb[t] = W
    BY <1>5 DEF Memory
  <1> QED
    BY <1>0, <1>3, <1>5, <1>6, <1>7 DEF Restated

\* Tasks off the path may change, and those on it in all but their links.
LEMMA AlongFrame ==
    ASSUME NEW T, NEW Q, NEW n, NEW p, Along(T, Q, n, p),
           NEW V, \A u \in Range(p) : V[u].next = T[u].next /\ V[u].prev = T[u].prev
    PROVE  Along(V, Q, n, p)
  <1>1. \A i \in 1 .. n : p[i] \in Range(p)
    BY DEF Along, Path, Range
  <1>2. n \in Nat
    BY DEF Along, Path
  <1> QED
    BY <1>1, <1>2 DEF Along, Links

----------------------------------------------------------------------------
(***************************************************************************)
(* Each operation on the queue it is applied to.                           *)
(***************************************************************************)
LEMMA PopHeadAlong ==
    ASSUME NEW k, Memory(k), NEW q \in Queues, NEW n, NEW p, n # 0,
           Along(k.tcb, k.queue[q], n, p)
    PROVE  /\ Moved(PopHead(k, q), k, q, Range(p), p[1], n - 1, Without(n, p, 1))
           /\ k.queue[q].HEAD = p[1] /\ p[1] \in Tasks
           /\ PopHead(k, q).tcb[p[1]].state = PoppedState(k.tcb[p[1]].state)
           /\ PopHead(k, q).tcb[p[1]].next = NULL
  <1>0. PICK l : l = PopHead(k, q)
    OBVIOUS
  <1>1. /\ n \in Nat /\ n >= 1 /\ p \in [1 .. n -> Tasks] /\ 1 \in 1 .. n /\ n <= MAX_TASKS
        /\ \A i, j \in 1 .. n : p[i] = p[j] => i = j
    BY AlongPath
  <1>2. PICK t \in Tasks : t = p[1]
    BY <1>1
  <1>3. k.queue[q].HEAD = t /\ t # NULL
    BY <1>1, <1>2, MemoryFields DEF Along, Ends
  <1>4. PICK m : m = k.tcb[t].next
    OBVIOUS
  <1>5. m = IF n = 1 THEN NULL ELSE p[2]
    BY <1>1, <1>2, <1>4 DEF Along, Links
  <1>6. m # t /\ m \in TaskPtr
    BY <1>1, <1>2, <1>5, MemoryFields
  <1>7. PICK T : T = [u \in Tasks |->
                        IF u = t THEN [k.tcb[u] EXCEPT !.next = NULL, !.prev = NULL,
                                                       !.state = PoppedState(k.tcb[u].state)]
                        ELSE IF u = m THEN [k.tcb[u] EXCEPT !.prev = NULL]
                        ELSE k.tcb[u]]
    OBVIOUS
  <1>8. ASSUME NEW u \in Tasks
        PROVE  /\ T[u] \in TCB /\ SameTask(T[u], k.tcb[u])
               /\ T[u].next = IF u = t THEN NULL ELSE k.tcb[u].next
               /\ T[u].prev = IF u = t \/ u = m THEN NULL ELSE k.tcb[u].prev
               /\ T[u].state = IF u = t THEN PoppedState(k.tcb[u].state) ELSE k.tcb[u].state
               /\ u # t /\ u # m => T[u] = k.tcb[u]
    <2>1. k.tcb[u] \in TCB /\ PoppedState(k.tcb[u].state) \in States /\ NULL \in TaskPtr
      BY MemoryFields DEF PoppedState, States
    <2>2. CASE u = t
      <3>1. T[u] = [k.tcb[u] EXCEPT !.next = NULL, !.prev = NULL,
                                    !.state = PoppedState(k.tcb[u].state)]
        BY <1>7, <2>2
      <3> QED
        BY <2>1, <2>2, <3>1 DEF TCB, SameTask
    <2>3. CASE u # t /\ u = m
      <3>1. T[u] = [k.tcb[u] EXCEPT !.prev = NULL]
        BY <1>7, <2>3
      <3> QED
        BY <2>1, <2>3, <3>1 DEF TCB, SameTask
    <2>4. CASE u # t /\ u # m
      BY <1>7, <2>1, <2>4 DEF SameTask
    <2> QED
      BY <2>2, <2>3, <2>4
  <1>9. T \in [Tasks -> TCB]
    BY <1>7, <1>8
  <1>10. PICK Q : Q = [HEAD |-> m, TAIL |-> IF m = NULL THEN NULL ELSE k.queue[q].TAIL,
                       current_size |-> Decr(k.queue[q].current_size)]
    OBVIOUS
  <1>11. Q \in QUEUE
    BY <1>6, <1>10, MemoryFields, CountsInRange DEF QUEUE
  <1>12. l = Write(k, q, Q, T)
    BY <1>0, <1>3, <1>4, <1>7, <1>10 DEF PopHead, Write
  <1>13. /\ Memory(l) /\ SameRest(l, k) /\ l.tcb = T /\ l.queue[q] = Q
         /\ \A r \in Queues : r # q => l.queue[r] = k.queue[r]
    <2>1. PICK x : x = Write(k, q, Q, T)
      OBVIOUS
    <2>2. Memory(x)
      BY <1>9, <1>11, <2>1, WriteQueue
    <2>3. SameRest(x, k)
      BY <1>9, <1>11, <2>1, WriteQueue
    <2>4. x.tcb = T /\ x.queue[q] = Q
      BY <2>1, WriteRead
    <2>5. \A r \in Queues : r # q => x.queue[r] = k.queue[r]
      BY <2>1, WriteRead
    <2> QED
      BY <1>12, <2>1, <2>2, <2>3, <2>4, <2>5
  <1>14. PICK w : w = Without(n, p, 1)
    OBVIOUS
  <1>15. Path(n - 1, w) /\ \A i \in 1 .. n - 1 : w[i] = p[i + 1] /\ i + 1 \in 1 .. n
    BY <1>1, <1>14, NewPaths DEF Along, Without
  <1>16. Ends(Q, n - 1, w)
    <2>1. k.queue[q].TAIL = p[n] /\ k.queue[q].current_size = n
      BY <1>1 DEF Along, Ends
    <2>2. Q.current_size = n - 1
      BY <1>1, <1>10, <2>1, CountsExact
    <2>3. CASE n = 1
      BY <1>5, <1>10, <2>2, <2>3 DEF Ends
    <2>4. CASE n > 1
      <3>1. w[1] = p[2] /\ w[n - 1] = p[n] /\ p[2] # NULL
        BY <1>1, <1>15, <2>4, MemoryFields
      <3> QED
        BY <1>1, <1>5, <1>10, <2>1, <2>2, <2>4, <3>1 DEF Ends
    <2> QED
      BY <1>1, <2>3, <2>4
  <1>17. Links(T, n - 1, w)
    <2>1. ASSUME NEW i \in 1 .. n - 1
          PROVE  T[w[i]].next = IF i = n - 1 THEN NULL ELSE w[i + 1]
      <3>1. w[i] = p[i + 1] /\ w[i] \in Tasks /\ w[i] # t /\ i + 1 \in 1 .. n
        BY <1>1, <1>2, <1>15
      <3>2. k.tcb[p[i + 1]].next = IF i + 1 = n THEN NULL ELSE p[i + 2]
        BY <3>1 DEF Along, Links
      <3>3. i # n - 1 => w[i + 1] = p[i + 2]
        BY <1>1, <1>15
      <3> QED
        BY <1>1, <1>8, <3>1, <3>2, <3>3
    <2>2. ASSUME NEW i \in 2 .. n - 1
          PROVE  T[w[i]].prev = w[i - 1]
      <3>1. /\ w[i] = p[i + 1] /\ w[i] \in Tasks /\ w[i] # t /\ w[i] # m
            /\ i + 1 \in 2 .. n /\ w[i - 1] = p[i]
        BY <1>1, <1>2, <1>5, <1>15
      <3>2. k.tcb[p[i + 1]].prev = p[i]
        BY <3>1 DEF Along, Links
      <3> QED
        BY <1>8, <3>1, <3>2
    <2> QED
      BY <2>1, <2>2 DEF Links
  <1>18. t \in Range(p) /\ (m # NULL => m \in Range(p))
    BY <1>1, <1>2, <1>5 DEF Range
  <1>19. \A u \in Tasks \ Range(p) : T[u] = k.tcb[u]
    BY <1>8, <1>18, MemoryFields
  <1>20. Along(l.tcb, l.queue[q], n - 1, Without(n, p, 1))
    BY <1>13, <1>14, <1>15, <1>16, <1>17 DEF Along
  <1>21. Moved(l, k, q, Range(p), p[1], n - 1, Without(n, p, 1))
    BY <1>2, <1>8, <1>13, <1>19, <1>20 DEF Moved
  <1>22. l.tcb[p[1]].state = PoppedState(k.tcb[p[1]].state) /\ l.tcb[p[1]].next = NULL
    BY <1>2, <1>8, <1>13
  <1> QED
    BY <1>0, <1>2, <1>3, <1>21, <1>22

LEMMA PopTailAlong ==
    ASSUME NEW k, Memory(k), NEW q \in Queues, NEW n, NEW p, n > 1,
           Along(k.tcb, k.queue[q], n, p)
    PROVE  /\ Moved(PopTail(k, q), k, q, Range(p), p[n], n - 1, Without(n, p, n))
           /\ PopTail(k, q).tcb[p[n]].state = k.tcb[p[n]].state
           /\ PopTail(k, q).tcb[p[n]].next = NULL
  <1>0. PICK l : l = PopTail(k, q)
    OBVIOUS
  <1>1. /\ n \in Nat /\ p \in [1 .. n -> Tasks] /\ n \in 1 .. n /\ n <= MAX_TASKS
        /\ n - 1 \in 1 .. n /\ \A i, j \in 1 .. n : p[i] = p[j] => i = j
    BY AlongPath
  <1>2. PICK t \in Tasks : t = p[n]
    BY <1>1
  <1>3. k.queue[q].TAIL = t /\ t # NULL /\ k.queue[q].current_size = n /\ n # 0
    BY <1>1, <1>2, MemoryFields DEF Along, Ends
  <1>4. PICK m \in Tasks : m = p[n - 1]
    BY <1>1
  <1>5. k.tcb[t].prev = m /\ m # t /\ m # NULL
    BY <1>1, <1>2, <1>4, MemoryFields DEF Along, Links
  <1>6. PICK T : T = [u \in Tasks |->
                        IF u = t THEN [k.tcb[u] EXCEPT !.next = NULL, !.prev = NULL]
                        ELSE IF u = m THEN [k.tcb[u] EXCEPT !.next = NULL]
                        ELSE k.tcb[u]]
    OBVIOUS
  <1>7. ASSUME NEW u \in Tasks
        PROVE  /\ T[u] \in TCB /\ SameTask(T[u], k.tcb[u])
               /\ T[u].next = IF u = t \/ u = m THEN NULL ELSE k.tcb[u].next
               /\ T[u].prev = IF u = t THEN NULL ELSE k.tcb[u].prev
               /\ T[u].state = k.tcb[u].state
               /\ u # t /\ u # m => T[u] = k.tcb[u]
    <2>1. k.tcb[u] \in TCB /\ NULL \in TaskPtr
      BY MemoryFields
    <2>2. CASE u = t
      <3>1. T[u] = [k.tcb[u] EXCEPT !.next = NULL, !.prev = NULL]
        BY <1>6, <2>2
      <3> QED
        BY <2>1, <2>2, <3>1 DEF TCB, SameTask
    <2>3. CASE u # t /\ u = m
      <3>1. T[u] = [k.tcb[u] EXCEPT !.next = NULL]
        BY <1>6, <2>3
      <3> QED
        BY <2>1, <2>3, <3>1 DEF TCB, SameTask
    <2>4. CASE u # t /\ u # m
      BY <1>6, <2>1, <2>4 DEF SameTask
    <2> QED
      BY <2>2, <2>3, <2>4
  <1>8. T \in [Tasks -> TCB]
    BY <1>6, <1>7
  <1>9. PICK Q : Q = [HEAD |-> IF m = NULL THEN NULL ELSE k.queue[q].HEAD, TAIL |-> m,
                      current_size |-> Decr(k.queue[q].current_size)]
    OBVIOUS
  <1>10. Q \in QUEUE
    BY <1>9, MemoryFields, CountsInRange DEF QUEUE
  <1>11. l = Write(k, q, Q, T)
    BY <1>0, <1>3, <1>5, <1>6, <1>9 DEF PopTail, Write
  <1>12. Memory(l) /\ SameRest(l, k)
    BY <1>8, <1>10, <1>11, WriteQueue
  <1>13. /\ l.tcb = T /\ l.queue[q] = Q
         /\ \A r \in Queues : r # q => l.queue[r] = k.queue[r]
    BY <1>11, WriteRead
  <1>14. PICK w : w = Without(n, p, n)
    OBVIOUS
  <1>15. Path(n - 1, w) /\ \A i \in 1 .. n - 1 : w[i] = p[i] /\ i \in 1 .. n
    BY <1>1, <1>14, NewPaths DEF Along, Without
  <1>16. Ends(Q, n - 1, w)
    <2>1. k.queue[q].HEAD = p[1]
      BY <1>1 DEF Along, Ends
    <2>2. Q.current_size = n - 1
      BY <1>1, <1>3, <1>9, CountsExact
    <2>3. w[1] = p[1] /\ w[n - 1] = p[n - 1] /\ n - 1 # 0
      BY <1>1, <1>15
    <2> QED
      BY <1>4, <1>5, <1>9, <2>1, <2>2, <2>3 DEF Ends
  <1>17. Links(T, n - 1, w)
    <2>1. ASSUME NEW i \in 1 .. n - 1
          PROVE  T[w[i]].next = IF i = n - 1 THEN NULL ELSE w[i + 1]
      <3>1. w[i] = p[i] /\ w[i] \in Tasks /\ w[i] # t /\ i \in 1 .. n
        BY <1>1, <1>2, <1>15
      <3>2. k.tcb[p[i]].next = p[i + 1]
        BY <1>1, <3>1 DEF Along, Links
      <3>3. CASE i = n - 1
        BY <1>4, <1>7, <3>1, <3>3
      <3>4. CASE i # n - 1
        <4>1. w[i + 1] = p[i + 1] /\ p[i] # m
          BY <1>1, <1>4, <1>15, <3>4
        <4> QED
          BY <1>7, <3>1, <3>2, <3>4, <4>1
      <3> QED
        BY <3>3, <3>4
    <2>2. ASSUME NEW i \in 2 .. n - 1
          PROVE  T[w[i]].prev = w[i - 1]
      <3>1. /\ w[i] = p[i] /\ w[i] \in Tasks /\ w[i] # t
            /\ i \in 2 .. n /\ w[i - 1] = p[i - 1]
        BY <1>1, <1>2, <1>15
      <3>2. k.tcb[p[i]].prev = p[i - 1]
        BY <3>1 DEF Along, Links
      <3> QED
        BY <1>7, <3>1, <3>2
    <2> QED
      BY <2>1, <2>2 DEF Links
  <1>18. t \in Range(p) /\ m \in Range(p)
    BY <1>1, <1>2, <1>4 DEF Range
  <1>19. \A u \in Tasks \ Range(p) : T[u] = k.tcb[u]
    BY <1>7, <1>18
  <1>20. Along(l.tcb, l.queue[q], n - 1, Without(n, p, n))
    BY <1>13, <1>14, <1>15, <1>16, <1>17 DEF Along
  <1>21. Moved(l, k, q, Range(p), p[n], n - 1, Without(n, p, n))
    BY <1>2, <1>7, <1>12, <1>13, <1>19, <1>20 DEF Moved
  <1>22. l.tcb[p[n]].state = k.tcb[p[n]].state /\ l.tcb[p[n]].next = NULL
    BY <1>2, <1>7, <1>13
  <1> QED
    BY <1>0, <1>21, <1>22

\* The middle case of pop_task.
LEMMA UnlinkAlong ==
    ASSUME NEW k, Memory(k), NEW q \in Queues, NEW n, NEW p, NEW j \in 2 .. n - 1,
           Along(k.tcb, k.queue[q], n, p)
    PROVE  /\ Moved(Unlink(k, p[j], q), k, q, Range(p), p[j], n - 1, Without(n, p, j))
           /\ Unlink(k, p[j], q).tcb[p[j]].state = k.tcb[p[j]].state
  <1>0. PICK l : l = Unlink(k, p[j], q)
    OBVIOUS
  <1>1. /\ n \in Nat /\ p \in [1 .. n -> Tasks] /\ n <= MAX_TASKS
        /\ n # 0 /\ j \in 1 .. n /\ j - 1 \in 1 .. n /\ j + 1 \in 1 .. n
        /\ \A i, m \in 1 .. n : p[i] = p[m] => i = m
    BY AlongPath
  <1>2. PICK a \in Tasks, t \in Tasks, b \in Tasks : a = p[j - 1] /\ t = p[j] /\ b = p[j + 1]
    BY <1>1
  <1>3. k.tcb[t].prev = a /\ k.tcb[t].next = b /\ a # NULL /\ b # NULL
    <2>1. j \in 2 .. n /\ j # n
      BY <1>1
    <2> QED
      BY <1>1, <1>2, <2>1, MemoryFields DEF Along, Links
  <1>4. PICK T : T = [u \in Tasks |->
                       [k.tcb[u] EXCEPT !.next = IF u = a THEN b ELSE k.tcb[u].next,
                                        !.prev = IF u = b THEN a ELSE k.tcb[u].prev]]
    OBVIOUS
  <1>5. ASSUME NEW u \in Tasks
        PROVE  /\ T[u] \in TCB /\ SameTask(T[u], k.tcb[u])
               /\ T[u].next = IF u = a THEN b ELSE k.tcb[u].next
               /\ T[u].prev = IF u = b THEN a ELSE k.tcb[u].prev
               /\ T[u].state = k.tcb[u].state
    <2>1. k.tcb[u] \in TCB /\ k.tcb[u].next \in TaskPtr /\ k.tcb[u].prev \in TaskPtr
          /\ a \in TaskPtr /\ b \in TaskPtr
      BY MemoryFields
    <2>2. PICK x \in TaskPtr, y \in TaskPtr :
            /\ x = IF u = a THEN b ELSE k.tcb[u].next
            /\ y = IF u = b THEN a ELSE k.tcb[u].prev
      BY <2>1
    <2>3. T[u] = [k.tcb[u] EXCEPT !.next = x, !.prev = y]
      BY <1>4, <2>2
    <2> QED
      BY <2>1, <2>2, <2>3 DEF TCB, SameTask
  <1>6. T \in [Tasks -> TCB]
    BY <1>4, <1>5
  <1>7. PICK Q : Q = [k.queue[q] EXCEPT !.current_size = Decr(k.queue[q].current_size)]
    OBVIOUS
  <1>8. /\ Q \in QUEUE /\ Q.HEAD = k.queue[q].HEAD /\ Q.TAIL = k.queue[q].TAIL
        /\ Q.current_size = Decr(k.queue[q].current_size)
    BY <1>7, MemoryFields, CountsInRange DEF QUEUE
  <1>9. l = Write(k, q, Q, T)
    BY <1>0, <1>2, <1>3, <1>4, <1>7 DEF Unlink, Write
  <1>10. Memory(l) /\ SameRest(l, k)
    BY <1>6, <1>8, <1>9, WriteQueue
  <1>11. /\ l.tcb = T /\ l.queue[q] = Q
         /\ \A r \in Queues : r # q => l.queue[r] = k.queue[r]
    BY <1>9, WriteRead
  <1>12. PICK w : w = Without(n, p, j)
    OBVIOUS
  <1>13. Path(n - 1, w) /\ \A i \in 1 .. n - 1 : w[i] = IF i < j THEN p[i] ELSE p[i + 1]
    <2>1. Path(n - 1, w)
      BY <1>1, <1>12, NewPaths DEF Along
    <2> QED
      BY <1>1, <1>12, <2>1 DEF Without
  <1>14. Ends(Q, n - 1, w)
    <2>1. k.queue[q].HEAD = p[1] /\ k.queue[q].TAIL = p[n] /\ k.queue[q].current_size = n
      BY <1>1 DEF Along, Ends
    <2>2. Q.current_size = n - 1
      BY <1>1, <1>8, <2>1, CountsExact
    <2>3. w[1] = p[1] /\ w[n - 1] = p[n] /\ n - 1 # 0
      BY <1>1, <1>13
    <2> QED
      BY <1>8, <2>1, <2>2, <2>3 DEF Ends
  <1>15. Links(T, n - 1, w)
    <2>1. ASSUME NEW i \in 1 .. n - 1
          PROVE  T[w[i]].next = IF i = n - 1 THEN NULL ELSE w[i + 1]
      <3>1. CASE i < j - 1
        <4>1. w[i] = p[i] /\ w[i + 1] = p[i + 1] /\ p[i] # a /\ p[i] \in Tasks /\ i # n - 1 /\ i # n
              /\ i \in 1 .. n
          BY <1>1, <1>2, <1>13, <3>1
        <4>2. k.tcb[p[i]].next = p[i + 1]
          BY <4>1 DEF Along, Links
        <4> QED
          BY <1>5, <4>1, <4>2
      <3>2. CASE i = j - 1
        <4>1. w[i] = a /\ w[i + 1] = b /\ i # n - 1
          BY <1>1, <1>2, <1>13, <3>2
        <4> QED
          BY <1>5, <4>1
      <3>3. CASE i >= j
        <4>1. w[i] = p[i + 1] /\ p[i + 1] # a /\ p[i + 1] \in Tasks /\ i + 1 \in 1 .. n
          BY <1>1, <1>2, <1>13, <3>3
        <4>2. k.tcb[p[i + 1]].next = IF i + 1 = n THEN NULL ELSE p[i + 2]
          BY <4>1 DEF Along, Links
        <4>3. i # n - 1 => w[i + 1] = p[i + 2]
          BY <1>1, <1>13, <3>3
        <4> QED
          BY <1>1, <1>5, <4>1, <4>2, <4>3
      <3> QED
        BY <3>1, <3>2, <3>3
    <2>2. ASSUME NEW i \in 2 .. n - 1
          PROVE  T[w[i]].prev = w[i - 1]
      <3>1. CASE i < j
        <4>1. w[i] = p[i] /\ w[i - 1] = p[i - 1] /\ p[i] # b /\ p[i] \in Tasks /\ i \in 2 .. n
          BY <1>1, <1>2, <1>13, <3>1
        <4>2. k.tcb[p[i]].prev = p[i - 1]
          BY <4>1 DEF Along, Links
        <4> QED
          BY <1>5, <4>1, <4>2
      <3>2. CASE i = j
        <4>1. w[i] = b /\ w[i - 1] = a
          BY <1>1, <1>2, <1>13, <3>2
        <4> QED
          BY <1>5, <4>1
      <3>3. CASE i > j
        <4>1. w[i] = p[i + 1] /\ w[i - 1] = p[i] /\ p[i + 1] # b /\ p[i + 1] \in Tasks
              /\ i + 1 \in 2 .. n
          BY <1>1, <1>2, <1>13, <3>3
        <4>2. k.tcb[p[i + 1]].prev = p[i]
          BY <4>1 DEF Along, Links
        <4> QED
          BY <1>5, <4>1, <4>2
      <3> QED
        BY <3>1, <3>2, <3>3
    <2> QED
      BY <2>1, <2>2 DEF Links
  <1>16. a \in Range(p) /\ b \in Range(p)
    BY <1>1, <1>2 DEF Range
  <1>17. ASSUME NEW u \in Tasks \ Range(p) PROVE T[u] = k.tcb[u]
    <2>1. T[u] = [k.tcb[u] EXCEPT !.next = k.tcb[u].next, !.prev = k.tcb[u].prev]
      BY <1>4, <1>16
    <2>2. k.tcb[u] \in TCB
      BY MemoryFields
    <2> QED
      BY <2>1, <2>2 DEF TCB
  <1>18. Along(l.tcb, l.queue[q], n - 1, Without(n, p, j))
    BY <1>11, <1>12, <1>13, <1>14, <1>15 DEF Along
  <1>19. Moved(l, k, q, Range(p), p[j], n - 1, Without(n, p, j))
    BY <1>5, <1>10, <1>11, <1>17, <1>18 DEF Moved
  <1>20. l.tcb[p[j]].state = k.tcb[p[j]].state
    BY <1>2, <1>5, <1>11
  <1> QED
    BY <1>0, <1>19, <1>20

\* pop_task of a task of the queue: only one that is neither first nor last keeps
\* its link to the next.
LEMMA PopTaskAlong ==
    ASSUME NEW k, Memory(k), NEW q \in Queues, NEW n, NEW p, NEW j \in 1 .. n,
           Along(k.tcb, k.queue[q], n, p)
    PROVE  /\ Moved(PopTask(k, p[j], q), k, q, Range(p), p[j], n - 1, Without(n, p, j))
           /\ PopTask(k, p[j], q).tcb[p[j]].state \in {k.tcb[p[j]].state, "READY"}
           /\ j \in {1, n} => PopTask(k, p[j], q).tcb[p[j]].next = NULL
  <1>0. PICK l : l = PopTask(k, p[j], q)
    OBVIOUS
  <1>1. /\ n \in Nat /\ p \in [1 .. n -> Tasks] /\ n # 0 /\ 1 \in 1 .. n /\ n \in 1 .. n
        /\ \A i, m \in 1 .. n : p[i] = p[m] => i = m
    BY AlongPath
  <1>2. PICK t \in Tasks : t = p[j]
    BY <1>1
  <1>3. /\ k.queue[q].HEAD = p[1] /\ k.queue[q].TAIL = p[n] /\ p[1] \in Tasks /\ p[n] \in Tasks
        /\ k.queue[q].HEAD # NULL /\ k.queue[q].TAIL # NULL
    BY <1>1, MemoryFields DEF Along, Ends
  <1>4. CASE j = 1
    <2>1. PICK x : x = PopHead(k, q)
      OBVIOUS
    <2>2. Moved(x, k, q, Range(p), t, n - 1, Without(n, p, 1)) /\ x.tcb[t].next = NULL
      <3>1. /\ Moved(PopHead(k, q), k, q, Range(p), p[1], n - 1, Without(n, p, 1))
            /\ PopHead(k, q).tcb[p[1]].next = NULL
        BY <1>1, PopHeadAlong
      <3> QED
        BY <1>2, <1>4, <2>1, <3>1
    <2>3. l = [x EXCEPT !.tcb[t].state = "READY"]
      BY <1>0, <1>2, <1>3, <1>4, <2>1 DEF PopTask
    <2>4. Memory(x) /\ "READY" \in States
      BY <2>2 DEF Moved, States
    <2>5. /\ Memory(l) /\ SameRest(l, x) /\ l.queue = x.queue
          /\ \A u \in Tasks : u # t => l.tcb[u] = x.tcb[u]
          /\ SameTask(l.tcb[t], x.tcb[t]) /\ l.tcb[t].state = "READY"
          /\ l.tcb[t].next = x.tcb[t].next
      <3>1. Restated(l, x, t, "READY")
        BY <2>3, <2>4, WriteState
      <3> QED
        BY <3>1 DEF Restated
    <2>6. SameRest(l, k) /\ \A u \in Tasks : SameTask(l.tcb[u], k.tcb[u])
      BY <2>2, <2>5 DEF SameRest, SameTask, Moved
    <2>7. Path(n, p) /\ Range(p) \subseteq Tasks
      BY DEF Along, Path, Range
    <2>8. Range(Without(n, p, 1)) = Range(p) \ {t}
      BY <1>1, <1>2, <1>4, <2>7, NewPaths
    <2>9. Along(l.tcb, l.queue[q], n - 1, Without(n, p, 1))
      <3>1. \A u \in Range(Without(n, p, 1)) : l.tcb[u] = x.tcb[u]
        BY <2>5, <2>7, <2>8
      <3>2. Along(x.tcb, x.queue[q], n - 1, Without(n, p, 1)) /\ l.queue[q] = x.queue[q]
        BY <2>2, <2>5 DEF Moved
      <3> QED
        BY <3>1, <3>2, AlongFrame
    <2>10. Moved(l, k, q, Range(p), t, n - 1, Without(n, p, 1))
      BY <2>2, <2>5, <2>6, <2>9 DEF Moved
    <2> QED
      BY <1>0, <1>2, <1>4, <2>2, <2>5, <2>10
  <1>5. CASE j = n /\ j # 1
    <2>1. l = PopTail(k, q) /\ n > 1
      BY <1>0, <1>1, <1>2, <1>3, <1>5 DEF PopTask
    <2>2. /\ Moved(l, k, q, Range(p), p[n], n - 1, Without(n, p, n))
          /\ l.tcb[p[n]].state = k.tcb[p[n]].state /\ l.tcb[p[n]].next = NULL
      BY <2>1, PopTailAlong
    <2> QED
      BY <1>0, <1>5, <2>2
  <1>6. CASE j \in 2 .. n - 1
    <2>1. Nodes(k, q) = p /\ Len(p) = n
      <3>1. Nodes(k, q) = p
        BY NodesOfPath DEF Memory
      <3> QED
        BY <1>1, <3>1, LenProperties, IsASeq
    <2>2. WalkMeets(k, q, t)
      <3>1. j \in 2 .. n /\ \A m \in 2 .. j - 1 : p[m] # p[n]
        BY <1>1, <1>6
      <3> QED
        BY <1>2, <1>3, <2>1, <3>1 DEF WalkMeets
    <2>3. k.queue[q].HEAD # t /\ k.queue[q].TAIL # t
      BY <1>1, <1>2, <1>3, <1>6
    <2>4. l = Unlink(k, p[j], q)
      BY <1>0, <1>2, <1>3, <2>2, <2>3 DEF PopTask
    <2>5. /\ Moved(l, k, q, Range(p), p[j], n - 1, Without(n, p, j))
          /\ l.tcb[p[j]].state = k.tcb[p[j]].state
      BY <1>6, <2>4, UnlinkAlong
    <2>6. j \notin {1, n}
      BY <1>1, <1>6
    <2> QED
      BY <1>0, <2>5, <2>6
  <1> QED
    BY <1>1, <1>4, <1>5, <1>6

LEMMA PushHeadAlong ==
    ASSUME NEW k, Memory(k), NEW q \in Queues, NEW n, NEW p,
           Along(k.tcb, k.queue[q], n, p), NEW t \in Tasks \ Range(p),
           k.tcb[t].next = NULL
    PROVE  /\ Moved(PushHead(k, t, q), k, q, Range(p), t, n + 1, Before(t, n, p))
           /\ PushHead(k, t, q).tcb[t].state =
                IF k.tcb[t].state = "SUSPENDED" THEN "SUSPENDED" ELSE "READY"
  <1>0. PICK l : l = PushHead(k, t, q)
    OBVIOUS
  <1>1. /\ n \in Nat /\ p \in [1 .. n -> Tasks] /\ n <= MAX_TASKS
        /\ \A i, m \in 1 .. n : p[i] = p[m] => i = m
    BY AlongPath
  <1>2. PICK h : h = k.queue[q].HEAD
    OBVIOUS
  <1>3. h = (IF n = 0 THEN NULL ELSE p[1]) /\ h \in TaskPtr /\ t # NULL /\ t \in TaskPtr
    BY <1>2, MemoryFields DEF Along, Ends
  <1>4. \A i \in 1 .. n : p[i] # t /\ p[i] # NULL
    BY <1>1, MemoryFields DEF Range
  <1>5. h # t /\ (h = NULL <=> n = 0) /\ (n # 0 => 1 \in 1 .. n)
    BY <1>1, <1>3, <1>4
  <1>6. PICK T : T = [u \in Tasks |->
                  IF u = t
                  THEN [k.tcb[u] EXCEPT
                           !.prev = NULL,
                           !.next = IF h = NULL THEN k.tcb[u].next ELSE h,
                           !.state = IF k.tcb[u].state = "SUSPENDED" THEN "SUSPENDED"
                                     ELSE "READY"]
                  ELSE IF u = h THEN [k.tcb[u] EXCEPT !.prev = t]
                  ELSE k.tcb[u]]
    OBVIOUS
  <1>7. ASSUME NEW u \in Tasks
        PROVE  /\ T[u] \in TCB /\ SameTask(T[u], k.tcb[u])
               /\ T[u].next = IF u = t THEN h ELSE k.tcb[u].next
               /\ T[u].prev = IF u = t THEN NULL ELSE IF u = h THEN t ELSE k.tcb[u].prev
               /\ T[u].state = IF u # t THEN k.tcb[u].state
                               ELSE IF k.tcb[u].state = "SUSPENDED" THEN "SUSPENDED" ELSE "READY"
               /\ u # t /\ u # h => T[u] = k.tcb[u]
    <2>1. k.tcb[u] \in TCB /\ NULL \in TaskPtr
      BY MemoryFields
    <2>2. CASE u = t
      <3>1. (IF h = NULL THEN k.tcb[u].next ELSE h) = h
        BY <2>2
      <3>2. PICK s \in States : s = IF k.tcb[u].state = "SUSPENDED" THEN "SUSPENDED" ELSE "READY"
        BY DEF States
      <3>3. T[u] = [k.tcb[u] EXCEPT !.prev = NULL, !.next = h, !.state = s]
        BY <1>6, <2>2, <3>1, <3>2
      <3> QED
        BY <1>3, <2>1, <2>2, <3>2, <3>3 DEF TCB, SameTask
    <2>3. CASE u # t /\ u = h
      <3>1. T[u] = [k.tcb[u] EXCEPT !.prev = t]
        BY <1>6, <2>3
      <3> QED
        BY <1>3, <2>1, <2>3, <3>1 DEF TCB, SameTask
    <2>4. CASE u # t /\ u # h
      BY <1>6, <2>1, <2>4 DEF SameTask
    <2> QED
      BY <2>2, <2>3, <2>4
  <1>8. T \in [Tasks -> TCB]
    BY <1>6, <1>7
  <1>9. PICK Q : Q = [HEAD |-> t, TAIL |-> IF h = NULL THEN t ELSE k.queue[q].TAIL,
                      current_size |-> Incr(k.queue[q].current_size)]
    OBVIOUS
  <1>10. Q \in QUEUE
    BY <1>3, <1>9, MemoryFields, CountsInRange DEF QUEUE
  <1>11. l = Write(k, q, Q, T)
    BY <1>0, <1>2, <1>6, <1>9 DEF PushHead, Write
  <1>12. Memory(l) /\ SameRest(l, k)
    BY <1>8, <1>10, <1>11, WriteQueue
  <1>13. /\ l.tcb = T /\ l.queue[q] = Q
         /\ \A r \in Queues : r # q => l.queue[r] = k.queue[r]
    BY <1>11, WriteRead
  <1>14. PICK w : w = Before(t, n, p)
    OBVIOUS
  <1>15. Path(n + 1, w)
    BY <1>14, NewPaths DEF Along
  <1>16. /\ w[1] = t /\ \A i \in 2 .. n + 1 : w[i] = p[i - 1] /\ i - 1 \in 1 .. n
    BY <1>1, <1>14 DEF Before
  <1>17. Ends(Q, n + 1, w)
    <2>1. k.queue[q].TAIL = (IF n = 0 THEN NULL ELSE p[n]) /\ k.queue[q].current_size = n
      BY DEF Along, Ends
    <2>2. Q.current_size = n + 1
      BY <1>1, <1>9, <2>1, CountsExact
    <2>3. w[n + 1] = IF n = 0 THEN t ELSE p[n]
      BY <1>1, <1>16
    <2> QED
      BY <1>1, <1>5, <1>9, <1>16, <2>1, <2>2, <2>3 DEF Ends
  <1>18. Links(T, n + 1, w)
    <2>1. ASSUME NEW i \in 1 .. n + 1
          PROVE  T[w[i]].next = IF i = n + 1 THEN NULL ELSE w[i + 1]
      <3>1. CASE i = 1
        <4>1. n # 0 => w[2] = p[1]
          BY <1>1, <1>16
        <4> QED
          BY <1>1, <1>3, <1>7, <1>16, <3>1, <4>1
      <3>2. CASE i > 1
        <4>1. w[i] = p[i - 1] /\ i - 1 \in 1 .. n /\ p[i - 1] \in Tasks /\ p[i - 1] # t
          BY <1>1, <1>4, <1>16, <3>2
        <4>2. k.tcb[p[i - 1]].next = IF i - 1 = n THEN NULL ELSE p[i]
          BY <4>1 DEF Along, Links
        <4>3. i # n + 1 => w[i + 1] = p[i]
          BY <1>1, <1>16, <3>2
        <4> QED
          BY <1>1, <1>7, <4>1, <4>2, <4>3
      <3> QED
        BY <1>1, <3>1, <3>2
    <2>2. ASSUME NEW i \in 2 .. n + 1
          PROVE  T[w[i]].prev = w[i - 1]
      <3>1. w[i] = p[i - 1] /\ i - 1 \in 1 .. n /\ p[i - 1] \in Tasks /\ p[i - 1] # t
        BY <1>1, <1>4, <1>16
      <3>2. CASE i = 2
        BY <1>1, <1>3, <1>7, <1>16, <3>1, <3>2
      <3>3. CASE i > 2
        <4>1. i - 1 \in 2 .. n /\ w[i - 1] = p[i - 2] /\ p[i - 1] # h
          BY <1>1, <1>3, <1>16, <3>3
        <4>2. k.tcb[p[i - 1]].prev = p[i - 2]
          BY <4>1 DEF Along, Links
        <4> QED
          BY <1>7, <3>1, <4>1, <4>2
      <3> QED
        BY <1>1, <3>2, <3>3
    <2> QED
      BY <2>1, <2>2 DEF Links
  <1>19. h # NULL => h \in Range(p)
    BY <1>1, <1>3, <1>5 DEF Range
  <1>20. \A u \in Tasks \ Range(p) : u # t => T[u] = k.tcb[u]
    BY <1>7, <1>19, MemoryFields
  <1>21. Along(l.tcb, l.queue[q], n + 1, Before(t, n, p))
    BY <1>13, <1>14, <1>15, <1>17, <1>18 DEF Along
  <1>22. Moved(l, k, q, Range(p), t, n + 1, Before(t, n, p))
    BY <1>7, <1>12, <1>13, <1>20, <1>21 DEF Moved
  <1>23. l.tcb[t].state = IF k.tcb[t].state = "SUSPENDED" THEN "SUSPENDED" ELSE "READY"
    BY <1>7, <1>13
  <1> QED
    BY <1>0, <1>22, <1>23

\* The last lines of push_tail, once t is the tail, and two writes in a row.
Counted(Q) == [Q EXCEPT !.current_size = Incr(Q.current_size)]
Readied(A) == [A EXCEPT !.next = NULL, !.state = IF A.state \in {"BLK_SEND", "SUSPENDED"}
                                                 THEN A.state ELSE "READY"]

LEMMA FinishWrite ==
    ASSUME NEW k, Memory(k), NEW q \in Queues, NEW t \in Tasks, k.queue[q].TAIL = t
    PROVE  FinishTail(k, t, q) =
             Write(k, q, Counted(k.queue[q]), [k.tcb EXCEPT ![t] = Readied(k.tcb[t])])
  <1>1. PICK W : W = Readied(k.tcb[t])
    OBVIOUS
  <1>2. PICK c : c = Incr(k.queue[q].current_size)
    OBVIOUS
  <1>3. FinishTail(k, t, q) = [k EXCEPT !.queue[q].current_size = c, !.tcb[t] = W]
    BY <1>1, <1>2 DEF FinishTail, Readied
  <1>4. PICK a : a = [k EXCEPT !.queue[q].current_size = c]
    OBVIOUS
  <1>5. [k EXCEPT !.queue[q].current_size = c, !.tcb[t] = W] = [a EXCEPT !.tcb[t] = W]
    BY <1>4
  <1>6. a.tcb = k.tcb
    BY <1>4 DEF Memory
  <1>7. [a EXCEPT !.tcb[t] = W] = [a EXCEPT !.tcb = [k.tcb EXCEPT ![t] = W]]
    BY <1>6
  <1>8. a = [k EXCEPT !.queue[q] = Counted(k.queue[q])]
    BY <1>2, <1>4 DEF Counted
  <1> QED
    BY <1>1, <1>3, <1>5, <1>7, <1>8 DEF Write

\* A queue record is its three fields.
LEMMA CountedFields ==
    ASSUME NEW Q \in QUEUE
    PROVE  /\ Counted(Q) = [HEAD |-> Q.HEAD, TAIL |-> Q.TAIL,
                            current_size |-> Incr(Q.current_size)]
           /\ Q = [HEAD |-> Q.HEAD, TAIL |-> Q.TAIL, current_size |-> Q.current_size]
  BY DEF Counted, QUEUE

LEMMA WriteWrite ==
    ASSUME NEW k, Memory(k), NEW q \in Queues, NEW Q, NEW T, NEW R, NEW V
    PROVE  Write(Write(k, q, Q, T), q, R, V) = Write(k, q, R, V)
  <1>1. PICK l : l = Write(k, q, Q, T)
    OBVIOUS
  <1>2. DOMAIN l = DOMAIN k /\ l = [f \in DOMAIN l |-> l[f]]
    BY <1>1 DEF Memory, Write
  <1>3. \A f \in DOMAIN k : f \notin {"tcb", "queue"} => l[f] = k[f]
    BY <1>1 DEF Memory, Write
  <1>4. l.queue = [k.queue EXCEPT ![q] = Q]
    BY <1>1 DEF Memory, Write
  <1>5. [l.queue EXCEPT ![q] = R] = [k.queue EXCEPT ![q] = R]
    BY <1>4 DEF Memory
  <1>6. PICK A : A = [l.queue EXCEPT ![q] = R]
    OBVIOUS
  <1>7. Write(l, q, R, V) = [l EXCEPT !.queue = A, !.tcb = V]
    BY <1>6 DEF Write
  <1>8. Write(k, q, R, V) = [k EXCEPT !.queue = A, !.tcb = V]
    BY <1>5, <1>6 DEF Write
  <1>9. [l EXCEPT !.queue = A, !.tcb = V] = [k EXCEPT !.queue = A, !.tcb = V]
    BY <1>2, <1>3 DEF Memory
  <1> QED
    BY <1>1, <1>7, <1>8, <1>9

\* push_tail of a task that is not a real-time one, or has the latest deadline:
\* whatever its links were.
GoesLast(k, t, q) ==
    \/ ~k.tcb[t].real_time
    \/ k.tcb[t].prio = RT_INDEX /\ FirstNotBefore(k, q, k.tcb[t].tsk_deadline) = NULL

LEMMA PushTailAlong ==
    ASSUME NEW k, Memory(k), NEW q \in Queues, NEW n, NEW p,
           Along(k.tcb, k.queue[q], n, p), NEW t \in Tasks \ Range(p), GoesLast(k, t, q)
    PROVE  /\ Moved(PushTail(k, t, q), k, q, Range(p), t, n + 1, Behind(n, p, t))
           /\ PushTail(k, t, q).tcb[t].state =
                IF k.tcb[t].state \in {"BLK_SEND", "SUSPENDED"} THEN k.tcb[t].state ELSE "READY"
  <1>0. PICK l : l = PushTail(k, t, q)
    OBVIOUS
  <1>1. /\ n \in Nat /\ p \in [1 .. n -> Tasks] /\ n <= MAX_TASKS
        /\ n # 0 => n \in 1 .. n /\ 1 \in 1 .. n
        /\ \A i, m \in 1 .. n : p[i] = p[m] => i = m
    BY AlongPath
  <1>2. PICK last : last = k.queue[q].TAIL
    OBVIOUS
  <1>3. last = (IF n = 0 THEN NULL ELSE p[n]) /\ last \in TaskPtr /\ t # NULL /\ t \in TaskPtr
    BY <1>2, MemoryFields DEF Along, Ends
  <1>4. \A i \in 1 .. n : p[i] # t /\ p[i] # NULL /\ p[i] \in Range(p)
    BY <1>1, MemoryFields DEF Range
  <1>5. last # t /\ (last = NULL <=> n = 0) /\ (n # 0 => last \in Tasks /\ last \in Range(p))
    BY <1>1, <1>3, <1>4
  <1>6. PICK s \in States : s = IF k.tcb[t].state \in {"BLK_SEND", "SUSPENDED"}
                               THEN k.tcb[t].state ELSE "READY"
    BY MemoryFields DEF States
  <1>7. PICK T : T = [u \in Tasks |->
                  IF u = t
                  THEN [k.tcb[u] EXCEPT !.prev = IF n = 0 THEN k.tcb[u].prev ELSE last,
                                        !.next = NULL, !.state = s]
                  ELSE IF u = last THEN [k.tcb[u] EXCEPT !.next = t]
                  ELSE k.tcb[u]]
    OBVIOUS
  <1>8. ASSUME NEW u \in Tasks
        PROVE  /\ T[u] \in TCB /\ SameTask(T[u], k.tcb[u])
               /\ T[u].next = IF u = t THEN NULL ELSE IF u = last THEN t ELSE k.tcb[u].next
               /\ u # t => T[u].prev = k.tcb[u].prev
               /\ u = t /\ n # 0 => T[u].prev = last
               /\ T[u].state = IF u = t THEN s ELSE k.tcb[u].state
               /\ u # t /\ u # last => T[u] = k.tcb[u]
    <2>1. k.tcb[u] \in TCB /\ NULL \in TaskPtr /\ k.tcb[u].prev \in TaskPtr
      BY MemoryFields
    <2>2. CASE u = t
      <3>1. PICK r \in TaskPtr : r = IF n = 0 THEN k.tcb[u].prev ELSE last
        BY <1>3, <2>1
      <3>2. T[u] = [k.tcb[u] EXCEPT !.prev = r, !.next = NULL, !.state = s]
        BY <1>7, <2>2, <3>1
      <3>3. T[u] \in TCB
        BY <2>1, <3>2 DEF TCB
      <3> QED
        BY <2>1, <2>2, <3>1, <3>2, <3>3 DEF TCB, SameTask
    <2>3. CASE u # t /\ u = last
      <3>1. T[u] = [k.tcb[u] EXCEPT !.next = t]
        BY <1>7, <2>3
      <3> QED
        BY <1>3, <2>1, <2>3, <3>1 DEF TCB, SameTask
    <2>4. CASE u # t /\ u # last
      BY <1>7, <2>1, <2>4 DEF SameTask
    <2> QED
      BY <2>2, <2>3, <2>4
  <1>9. T \in [Tasks -> TCB]
    BY <1>7, <1>8
  <1>10. PICK Q : Q = [HEAD |-> IF n = 0 THEN t ELSE k.queue[q].HEAD, TAIL |-> t,
                       current_size |-> Incr(k.queue[q].current_size)]
    OBVIOUS
  <1>11. Q \in QUEUE
    BY <1>3, <1>10, MemoryFields, CountsInRange DEF QUEUE
  <1>12. l = Write(k, q, Q, T)
    <2>1. k.queue[q] \in QUEUE /\ k.tcb[t] \in TCB
      BY MemoryFields
    <2>2. CASE n = 0
      <3>1. PICK R : R = [k.queue[q] EXCEPT !.HEAD = t, !.TAIL = t]
        OBVIOUS
      <3>2. PICK a : a = Write(k, q, R, k.tcb)
        OBVIOUS
      <3>3. [k EXCEPT !.queue[q].HEAD = t, !.queue[q].TAIL = t] = a
        BY <3>1, <3>2 DEF Memory, Write
      <3>4. R \in QUEUE /\ R.TAIL = t /\ R.HEAD = t
            /\ R.current_size = k.queue[q].current_size
        BY <1>3, <2>1, <3>1 DEF QUEUE
      <3>5. Memory(a) /\ a.queue[q] = R /\ a.tcb = k.tcb
        <4>1. k.tcb \in [Tasks -> TCB]
          BY DEF Memory
        <4>2. Memory(a)
          BY <3>2, <3>4, <4>1, WriteQueue
        <4> QED
          BY <3>2, <4>2, WriteRead
      <3>6. l = FinishTail(a, t, q)
        BY <1>0, <1>2, <1>5, <2>2, <3>3 DEF PushTail
      <3>7. PICK R2 : R2 = Counted(R)
        OBVIOUS
      <3>8. PICK T2 : T2 = [k.tcb EXCEPT ![t] = [k.tcb[t] EXCEPT !.next = NULL, !.state = s]]
        OBVIOUS
      <3>9. l = Write(a, q, R2, T2)
        <4>1. Readied(k.tcb[t]) = [k.tcb[t] EXCEPT !.next = NULL, !.state = s]
          BY <1>6 DEF Readied
        <4>2. FinishTail(a, t, q) = Write(a, q, Counted(R), [k.tcb EXCEPT ![t] = Readied(k.tcb[t])])
          <5>1. a.queue[q].TAIL = t
            BY <3>4, <3>5
          <5>2. FinishTail(a, t, q) =
                  Write(a, q, Counted(a.queue[q]), [a.tcb EXCEPT ![t] = Readied(a.tcb[t])])
            BY <3>5, <5>1, FinishWrite
          <5> QED
            BY <3>5, <5>2
        <4> QED
          BY <3>6, <3>7, <3>8, <4>1, <4>2
      <3>10. l = Write(k, q, R2, T2)
        BY <3>2, <3>9, WriteWrite
      <3>11. R2 = Q
        <4>1. R2 = [HEAD |-> R.HEAD, TAIL |-> R.TAIL, current_size |-> Incr(R.current_size)]
          BY <3>4, <3>7, CountedFields
        <4> QED
          BY <1>10, <2>2, <3>4, <4>1
      <3>12. T2 = T
        <4>1. T[t] = [k.tcb[t] EXCEPT !.next = NULL, !.state = s]
          <5>1. T[t] = [k.tcb[t] EXCEPT !.prev = k.tcb[t].prev, !.next = NULL, !.state = s]
            BY <1>7, <2>2
          <5> QED
            BY <2>1, <5>1 DEF TCB
        <4>2. \A u \in Tasks : u # t => T[u] = k.tcb[u]
          BY <1>5, <1>7, <2>2, MemoryFields
        <4> QED
          BY <1>7, <3>8, <4>1, <4>2 DEF Memory
      <3> QED
        BY <3>10, <3>11, <3>12
    <2>3. CASE n # 0
      <3>1. PICK R : R = [k.queue[q] EXCEPT !.TAIL = t]
        OBVIOUS
      <3>2. PICK V : V = [k.tcb EXCEPT ![t] = [k.tcb[t] EXCEPT !.prev = last],
                                       ![last] = [k.tcb[last] EXCEPT !.next = t]]
        OBVIOUS
      <3>3. PICK a : a = Write(k, q, R, V)
        OBVIOUS
      <3>4. k.tcb[last] \in TCB /\ last \in Tasks
        BY <1>5, <2>3, MemoryFields
      <3>5. R \in QUEUE /\ R.TAIL = t /\ R.HEAD = k.queue[q].HEAD
            /\ R.current_size = k.queue[q].current_size
        BY <1>3, <2>1, <3>1 DEF QUEUE
      <3>6. [k.tcb[t] EXCEPT !.prev = last] \in TCB /\ [k.tcb[last] EXCEPT !.next = t] \in TCB
        BY <1>3, <2>1, <3>4 DEF TCB
      <3>7. V \in [Tasks -> TCB] /\ V[t] = [k.tcb[t] EXCEPT !.prev = last]
        BY <1>5, <3>2, <3>4, <3>6 DEF Memory
      <3>8. Memory(a) /\ a.queue[q] = R /\ a.tcb = V
        BY <3>3, <3>5, <3>7, WriteQueue, WriteRead
      <3>9. Append1(k, t, q) = a
        <4>1. Append1(k, t, q) =
                [k EXCEPT !.tcb[t].prev = last, !.tcb[last].next = t, !.queue[q].TAIL = t]
          BY <1>2 DEF Append1
        <4>2. PICK b : b = [k EXCEPT !.tcb[t].prev = last]
          OBVIOUS
        <4>3. PICK c : c = [b EXCEPT !.tcb[last].next = t]
          OBVIOUS
        <4>4. Append1(k, t, q) = [c EXCEPT !.queue[q].TAIL = t]
          BY <4>1, <4>2, <4>3
        <4>5. b = [k EXCEPT !.tcb = [k.tcb EXCEPT ![t] = [k.tcb[t] EXCEPT !.prev = last]]]
          BY <4>2
        <4>6. b.tcb = [k.tcb EXCEPT ![t] = [k.tcb[t] EXCEPT !.prev = last]] /\ b.queue = k.queue
          BY <4>5 DEF Memory
        <4>7. c = [b EXCEPT !.tcb = V]
          <5>1. b.tcb[last] = k.tcb[last]
            BY <1>5, <3>4, <4>6 DEF Memory
          <5>2. V = [b.tcb EXCEPT ![last] = [k.tcb[last] EXCEPT !.next = t]]
            BY <3>2, <4>6
          <5>3. c = [b EXCEPT !.tcb = [b.tcb EXCEPT ![last] = [b.tcb[last] EXCEPT !.next = t]]]
            BY <4>3
          <5> QED
            BY <5>1, <5>2, <5>3
        <4>8. c = [k EXCEPT !.tcb = V]
          BY <4>5, <4>7 DEF Memory
        <4> QED
          BY <3>1, <3>3, <4>4, <4>8 DEF Memory, Write
      <3>10. l = FinishTail(a, t, q)
        <4>1. k.queue[q].TAIL # NULL
          BY <1>2, <1>5, <2>3
        <4>2. CASE ~k.tcb[t].real_time
          BY <1>0, <3>9, <4>1, <4>2 DEF PushTail
        <4>3. CASE /\ k.tcb[t].real_time /\ k.tcb[t].prio = RT_INDEX
                   /\ FirstNotBefore(k, q, k.tcb[t].tsk_deadline) = NULL
          BY <1>0, <3>9, <4>1, <4>3 DEF PushTail
        <4> QED
          BY <4>2, <4>3 DEF GoesLast
      <3>11. PICK R2 : R2 = Counted(R)
        OBVIOUS
      <3>12. PICK T2 : T2 = [V EXCEPT ![t] = [V[t] EXCEPT !.next = NULL, !.state = s]]
        OBVIOUS
      <3>13. V[t].state = k.tcb[t].state
        BY <2>1, <3>7 DEF TCB
      <3>14. l = Write(a, q, R2, T2)
        <4>1. Readied(V[t]) = [V[t] EXCEPT !.next = NULL, !.state = s]
          BY <1>6, <3>13 DEF Readied
        <4>2. FinishTail(a, t, q) = Write(a, q, Counted(R), [V EXCEPT ![t] = Readied(V[t])])
          <5>1. a.queue[q].TAIL = t
            BY <3>5, <3>8
          <5>2. FinishTail(a, t, q) =
                  Write(a, q, Counted(a.queue[q]), [a.tcb EXCEPT ![t] = Readied(a.tcb[t])])
            BY <3>8, <5>1, FinishWrite
          <5> QED
            BY <3>8, <5>2
        <4> QED
          BY <3>10, <3>11, <3>12, <4>1, <4>2
      <3>15. l = Write(k, q, R2, T2)
        BY <3>3, <3>14, WriteWrite
      <3>16. R2 = Q
        <4>1. R2 = [HEAD |-> R.HEAD, TAIL |-> R.TAIL, current_size |-> Incr(R.current_size)]
          BY <3>5, <3>11, CountedFields
        <4> QED
          BY <1>10, <2>3, <3>5, <4>1
      <3>17. T2 = T
        <4>1. T2[t] = T[t]
          <5>1. T2[t] = [V[t] EXCEPT !.next = NULL, !.state = s]
            BY <3>7, <3>12
          <5>2. T[t] = [k.tcb[t] EXCEPT !.prev = last, !.next = NULL, !.state = s]
            BY <1>7, <2>3
          <5> QED
            BY <2>1, <3>7, <5>1, <5>2 DEF TCB
        <4>2. \A u \in Tasks : u # t => T[u] = T2[u]
          <5>1. \A u \in Tasks : u # t => T2[u] = V[u]
            BY <3>7, <3>12
          <5>2. \A u \in Tasks : u # t => V[u] = IF u = last THEN [k.tcb[last] EXCEPT !.next = t]
                                                ELSE k.tcb[u]
            BY <3>2, <3>4 DEF Memory
          <5> QED
            BY <1>7, <5>1, <5>2
        <4> QED
          BY <1>7, <3>7, <3>12, <4>1, <4>2
      <3> QED
        BY <3>15, <3>16, <3>17
    <2> QED
      BY <2>2, <2>3
  <1>13. Memory(l) /\ SameRest(l, k)
    BY <1>9, <1>11, <1>12, WriteQueue
  <1>14. /\ l.tcb = T /\ l.queue[q] = Q
         /\ \A r \in Queues : r # q => l.queue[r] = k.queue[r]
    BY <1>12, WriteRead
  <1>15. PICK w : w = Behind(n, p, t)
    OBVIOUS
  <1>16. Path(n + 1, w)
    BY <1>15, NewPaths DEF Along
  <1>17. w[n + 1] = t /\ \A i \in 1 .. n : w[i] = p[i] /\ i \in 1 .. n + 1
    BY <1>1, <1>15 DEF Behind
  <1>18. Ends(Q, n + 1, w)
    <2>1. k.queue[q].HEAD = (IF n = 0 THEN NULL ELSE p[1]) /\ k.queue[q].current_size = n
      BY DEF Along, Ends
    <2>2. Q.current_size = n + 1
      BY <1>1, <1>10, <2>1, CountsExact
    <2>3. w[1] = IF n = 0 THEN t ELSE p[1]
      BY <1>1, <1>17
    <2> QED
      BY <1>1, <1>10, <1>17, <2>1, <2>2, <2>3 DEF Ends
  <1>19. Links(T, n + 1, w)
    <2>1. ASSUME NEW i \in 1 .. n + 1
          PROVE  T[w[i]].next = IF i = n + 1 THEN NULL ELSE w[i + 1]
      <3>1. CASE i = n + 1
        BY <1>8, <1>17, <3>1
      <3>2. CASE i = n
        <4>1. w[i] = last /\ w[i + 1] = t /\ n # 0
          BY <1>1, <1>3, <1>17, <3>2
        <4> QED
          BY <1>1, <1>5, <1>8, <3>2, <4>1
      <3>3. CASE i < n
        <4>1. w[i] = p[i] /\ w[i + 1] = p[i + 1] /\ p[i] \in Tasks /\ p[i] # t /\ p[i] # last
          BY <1>1, <1>3, <1>4, <1>17, <3>3
        <4>2. k.tcb[p[i]].next = p[i + 1]
          BY <1>1, <3>3 DEF Along, Links
        <4> QED
          BY <1>1, <1>8, <3>3, <4>1, <4>2
      <3> QED
        BY <1>1, <3>1, <3>2, <3>3
    <2>2. ASSUME NEW i \in 2 .. n + 1
          PROVE  T[w[i]].prev = w[i - 1]
      <3>1. CASE i = n + 1
        <4>1. w[i] = t /\ n # 0 /\ w[i - 1] = last
          BY <1>1, <1>3, <1>17, <3>1
        <4> QED
          BY <1>8, <4>1
      <3>2. CASE i <= n
        <4>1. w[i] = p[i] /\ w[i - 1] = p[i - 1] /\ p[i] \in Tasks /\ p[i] # t
          BY <1>1, <1>4, <1>17, <3>2
        <4>2. k.tcb[p[i]].prev = p[i - 1]
          BY <1>1, <3>2 DEF Along, Links
        <4> QED
          BY <1>8, <4>1, <4>2
      <3> QED
        BY <1>1, <3>1, <3>2
    <2> QED
      BY <2>1, <2>2 DEF Links
  <1>20. \A u \in Tasks \ Range(p) : u # t => T[u] = k.tcb[u]
    BY <1>5, <1>8, MemoryFields
  <1>21. Along(l.tcb, l.queue[q], n + 1, Behind(n, p, t))
    BY <1>14, <1>15, <1>16, <1>18, <1>19 DEF Along
  <1>22. Moved(l, k, q, Range(p), t, n + 1, Behind(n, p, t))
    BY <1>8, <1>13, <1>14, <1>20, <1>21 DEF Moved
  <1>23. l.tcb[t].state = IF k.tcb[t].state \in {"BLK_SEND", "SUSPENDED"} THEN k.tcb[t].state
                          ELSE "READY"
    BY <1>6, <1>8, <1>14
  <1> QED
    BY <1>0, <1>22, <1>23

\* Where push_tail finds the place of a deadline.
Found(k, q, n, p, d) ==
    \/ /\ FirstNotBefore(k, q, d) = NULL
       /\ \A i \in 1 .. n : k.tcb[p[i]].tsk_deadline < d
    \/ \E j \in 1 .. n :
          /\ FirstNotBefore(k, q, d) = p[j] /\ k.tcb[p[j]].tsk_deadline >= d
          /\ \A i \in 1 .. j - 1 : k.tcb[p[i]].tsk_deadline < d

LEMMA FirstNotBeforeAlong ==
    ASSUME NEW k, Memory(k), NEW q \in Queues, NEW n, NEW p,
           Along(k.tcb, k.queue[q], n, p), NEW d \in Nat
    PROVE  Found(k, q, n, p, d)
  <1> SUFFICES
         \/ /\ FirstNotBefore(k, q, d) = NULL
            /\ \A i \in 1 .. n : k.tcb[p[i]].tsk_deadline < d
         \/ \E j \in 1 .. n :
               /\ FirstNotBefore(k, q, d) = p[j] /\ k.tcb[p[j]].tsk_deadline >= d
               /\ \A i \in 1 .. j - 1 : k.tcb[p[i]].tsk_deadline < d
    BY DEF Found
  <1>1. /\ n \in Nat /\ p \in [1 .. n -> Tasks] /\ \A i, m \in 1 .. n : p[i] = p[m] => i = m
    BY AlongPath
  <1>2. Nodes(k, q) = p /\ Len(p) = n
    <2>1. k.tcb \in [Tasks -> TCB]
      BY DEF Memory
    <2>2. Nodes(k, q) = p
      BY <2>1, NodesOfPath
    <2> QED
      BY <2>2, LenProperties, IsASeq, <1>1
  <1>3. \A i \in 1 .. n : k.tcb[p[i]].tsk_deadline \in Nat
    BY <1>1, MemoryFields
  <1>4. PICK late : late = {t \in Tasks :
                      /\ k.tcb[t].tsk_deadline >= d
                      /\ \E i \in 1 .. n :
                            /\ p[i] = t
                            /\ \A j \in 1 .. i - 1 : k.tcb[p[j]].tsk_deadline < d}
    OBVIOUS
  <1>5. FirstNotBefore(k, q, d) = IF late = {} THEN NULL ELSE CHOOSE t \in late : TRUE
    BY <1>2, <1>4 DEF FirstNotBefore
  <1>6. PICK Bad : Bad = {i \in 1 .. n : k.tcb[p[i]].tsk_deadline >= d}
    OBVIOUS
  <1>7. CASE Bad = {}
    <2>1. \A i \in 1 .. n : k.tcb[p[i]].tsk_deadline < d
      BY <1>3, <1>6, <1>7
    <2>2. late = {}
      BY <1>3, <1>4, <2>1
    <2> QED
      BY <1>5, <2>1, <2>2
  <1>8. CASE Bad # {}
    <2>1. Bad \in SUBSET Nat
      BY <1>6
    <2>2. PICK j \in Bad : \A i \in Bad : j <= i
      BY <1>8, <2>1, Least
    <2>3. j \in 1 .. n /\ k.tcb[p[j]].tsk_deadline >= d /\ p[j] \in Tasks
      BY <1>1, <1>6, <2>2
    <2>4. \A i \in 1 .. j - 1 : i \in 1 .. n /\ i \notin Bad
      BY <1>1, <2>2, <2>3
    <2>5. \A i \in 1 .. j - 1 : k.tcb[p[i]].tsk_deadline < d
      BY <1>3, <1>6, <2>4
    <2>6. p[j] \in late
      BY <1>4, <2>3, <2>5
    <2>7. ASSUME NEW t \in late PROVE t = p[j]
      <3>1. PICK i \in 1 .. n : p[i] = t /\ \A m \in 1 .. i - 1 : k.tcb[p[m]].tsk_deadline < d
        BY <1>4, <2>7
      <3>2. k.tcb[p[i]].tsk_deadline >= d
        BY <1>4, <2>7, <3>1
      <3>3. i \in Bad
        BY <1>6, <3>2
      <3>4. j <= i /\ i \in Nat
        BY <2>2, <3>3
      <3>5. ~(j < i)
        <4>1. j \in 1 .. i - 1 => k.tcb[p[j]].tsk_deadline < d
          BY <3>1
        <4> QED
          BY <1>3, <2>3, <3>4, <4>1
      <3> QED
        BY <2>3, <3>1, <3>4, <3>5
    <2>8. FirstNotBefore(k, q, d) = p[j]
      BY <1>5, <2>6, <2>7
    <2> QED
      BY <2>3, <2>5, <2>8
  <1> QED
    BY <1>7, <1>8

\* The last lines of push_tail when t is not the tail.
LEMMA FinishOther ==
    ASSUME NEW k, Memory(k), NEW q \in Queues, NEW t, NEW s \in Tasks, k.queue[q].TAIL = s,
           k.tcb[s].next = NULL,
           k.tcb[t].state \in {"BLK_SEND", "SUSPENDED"} \/ k.tcb[s].state = "READY"
    PROVE  FinishTail(k, t, q) = Write(k, q, Counted(k.queue[q]), k.tcb)
  <1>1. PICK W : W = [k.tcb[s] EXCEPT
            !.next = NULL,
            !.state = IF k.tcb[t].state \in {"BLK_SEND", "SUSPENDED"}
                      THEN k.tcb[s].state ELSE "READY"]
    OBVIOUS
  <1>2. W = k.tcb[s]
    BY <1>1, MemoryFields DEF TCB
  <1>3. PICK c : c = Incr(k.queue[q].current_size)
    OBVIOUS
  <1>4. FinishTail(k, t, q) = [k EXCEPT !.queue[q].current_size = c, !.tcb[s] = W]
    BY <1>1, <1>3 DEF FinishTail
  <1>5. PICK a : a = [k EXCEPT !.queue[q].current_size = c]
    OBVIOUS
  <1>6. [k EXCEPT !.queue[q].current_size = c, !.tcb[s] = W] = [a EXCEPT !.tcb[s] = W]
    BY <1>5
  <1>7. a.tcb = k.tcb
    BY <1>5 DEF Memory
  <1>8. [a EXCEPT !.tcb[s] = W] = [a EXCEPT !.tcb = [k.tcb EXCEPT ![s] = W]]
    BY <1>7
  <1>9. [k.tcb EXCEPT ![s] = W] = k.tcb
    BY <1>2 DEF Memory
  <1>10. a = [k EXCEPT !.queue[q] = Counted(k.queue[q])]
    BY <1>3, <1>5 DEF Counted
  <1> QED
    BY <1>4, <1>6, <1>8, <1>9, <1>10 DEF Write

\* The TCBs with t linked between b and h.
LinkedBetween(k, b, t, h) ==
    [u \in Tasks |-> IF u = t THEN [k.tcb[u] EXCEPT !.next = h, !.prev = b]
                     ELSE IF u = h THEN [k.tcb[u] EXCEPT !.prev = t]
                     ELSE IF u = b THEN [k.tcb[u] EXCEPT !.next = t]
                     ELSE k.tcb[u]]

\* Four writes to TCBs in a row, and two.
LEMMA InsertBeforeWrites ==
    ASSUME NEW k, Memory(k), NEW t \in Tasks, NEW h \in Tasks, NEW b \in Tasks,
           t # h, t # b, b # h, k.tcb[h].prev = b
    PROVE  InsertBefore(k, t, h) = [k EXCEPT !.tcb = LinkedBetween(k, b, t, h)]
  <1>1. b # NULL
    BY MemoryFields
  <1>2. InsertBefore(k, t, h) = [k EXCEPT !.tcb[t].prev = b, !.tcb[t].next = h,
                                          !.tcb[b].next = t, !.tcb[h].prev = t]
    BY <1>1 DEF InsertBefore
  <1>3. PICK V : V = [k.tcb EXCEPT ![t] = [k.tcb[t] EXCEPT !.prev = b]]
    OBVIOUS
  <1>4. PICK a : a = [k EXCEPT !.tcb[t].prev = b]
    OBVIOUS
  <1>5. a = [k EXCEPT !.tcb = V] /\ a.tcb = V
    <2>1. a = [k EXCEPT !.tcb = V]
      BY <1>3, <1>4
    <2> QED
      BY <2>1 DEF Memory
  <1>6. PICK V2 : V2 = [V EXCEPT ![t] = [V[t] EXCEPT !.next = h]]
    OBVIOUS
  <1>7. PICK a2 : a2 = [a EXCEPT !.tcb[t].next = h]
    OBVIOUS
  <1>8. a2 = [k EXCEPT !.tcb = V2] /\ a2.tcb = V2
    <2>1. a2 = [a EXCEPT !.tcb = [a.tcb EXCEPT ![t] = [a.tcb[t] EXCEPT !.next = h]]]
      BY <1>7
    <2>2. a2 = [a EXCEPT !.tcb = V2]
      BY <1>5, <1>6, <2>1
    <2>3. a2 = [k EXCEPT !.tcb = V2]
      BY <1>5, <2>2 DEF Memory
    <2> QED
      BY <2>3 DEF Memory
  <1>9. PICK V3 : V3 = [V2 EXCEPT ![b] = [V2[b] EXCEPT !.next = t]]
    OBVIOUS
  <1>10. PICK a3 : a3 = [a2 EXCEPT !.tcb[b].next = t]
    OBVIOUS
  <1>11. a3 = [k EXCEPT !.tcb = V3] /\ a3.tcb = V3
    <2>1. a3 = [a2 EXCEPT !.tcb = [a2.tcb EXCEPT ![b] = [a2.tcb[b] EXCEPT !.next = t]]]
      BY <1>10
    <2>2. a3 = [a2 EXCEPT !.tcb = V3]
      BY <1>8, <1>9, <2>1
    <2>3. a3 = [k EXCEPT !.tcb = V3]
      BY <1>8, <2>2 DEF Memory
    <2> QED
      BY <2>3 DEF Memory
  <1>12. PICK V4 : V4 = [V3 EXCEPT ![h] = [V3[h] EXCEPT !.prev = t]]
    OBVIOUS
  <1>13. PICK a4 : a4 = [a3 EXCEPT !.tcb[h].prev = t]
    OBVIOUS
  <1>14. a4 = [k EXCEPT !.tcb = V4]
    <2>1. a4 = [a3 EXCEPT !.tcb = [a3.tcb EXCEPT ![h] = [a3.tcb[h] EXCEPT !.prev = t]]]
      BY <1>13
    <2>2. a4 = [a3 EXCEPT !.tcb = V4]
      BY <1>11, <1>12, <2>1
    <2> QED
      BY <1>11, <2>2 DEF Memory
  <1>15. InsertBefore(k, t, h) = a4
    BY <1>2, <1>4, <1>7, <1>10, <1>13
  <1>16. PICK T : T = LinkedBetween(k, b, t, h)
    OBVIOUS
  <1>17. V4 = T
    <2>1. \A u \in Tasks : k.tcb[u] \in TCB
      BY MemoryFields
    <2>2. /\ DOMAIN V = Tasks /\ V[t] = [k.tcb[t] EXCEPT !.prev = b]
          /\ \A u \in Tasks : u # t => V[u] = k.tcb[u]
      BY <1>3 DEF Memory
    <2>3. /\ DOMAIN V2 = Tasks /\ V2[t] = [V[t] EXCEPT !.next = h]
          /\ \A u \in Tasks : u # t => V2[u] = k.tcb[u]
      BY <1>6, <2>2
    <2>4. /\ DOMAIN V3 = Tasks /\ V3[t] = V2[t] /\ V3[b] = [k.tcb[b] EXCEPT !.next = t]
          /\ \A u \in Tasks : u # t /\ u # b => V3[u] = k.tcb[u]
      BY <1>9, <2>3
    <2>5. /\ DOMAIN V4 = Tasks /\ V4[t] = V2[t] /\ V4[b] = [k.tcb[b] EXCEPT !.next = t]
          /\ V4[h] = [k.tcb[h] EXCEPT !.prev = t]
          /\ \A u \in Tasks : u # t /\ u # b /\ u # h => V4[u] = k.tcb[u]
      BY <1>12, <2>4
    <2>6. V2[t] = [k.tcb[t] EXCEPT !.next = h, !.prev = b]
      BY <2>1, <2>2, <2>3 DEF TCB
    <2>7. \A u \in Tasks : V4[u] = T[u]
      BY <1>16, <2>5, <2>6 DEF LinkedBetween
    <2>8. V4 = [u \in Tasks |-> V4[u]]
      BY <1>12, <2>5
    <2>9. T = [u \in Tasks |-> T[u]]
      BY <1>16 DEF LinkedBetween
    <2> QED
      BY <2>7, <2>8, <2>9
  <1> QED
    BY <1>14, <1>15, <1>16, <1>17

LEMMA InsertFirstWrites ==
    ASSUME NEW k, Memory(k), NEW q \in Queues, NEW t \in Tasks, NEW h \in Tasks, t # h,
           k.queue[q].HEAD = h
    PROVE  InsertFirst(k, t, q) =
             Write(k, q, [k.queue[q] EXCEPT !.HEAD = t],
                   [u \in Tasks |-> IF u = t THEN [k.tcb[u] EXCEPT !.next = h]
                                    ELSE IF u = h THEN [k.tcb[u] EXCEPT !.prev = t]
                                    ELSE k.tcb[u]])
  <1>1. InsertFirst(k, t, q) = [k EXCEPT !.tcb[h].prev = t, !.tcb[t].next = h, !.queue[q].HEAD = t]
    BY DEF InsertFirst
  <1>2. PICK V : V = [k.tcb EXCEPT ![h] = [k.tcb[h] EXCEPT !.prev = t]]
    OBVIOUS
  <1>3. PICK a : a = [k EXCEPT !.tcb[h].prev = t]
    OBVIOUS
  <1>4. a = [k EXCEPT !.tcb = V] /\ a.tcb = V
    <2>1. a = [k EXCEPT !.tcb = V]
      BY <1>2, <1>3
    <2> QED
      BY <2>1 DEF Memory
  <1>5. PICK V2 : V2 = [V EXCEPT ![t] = [V[t] EXCEPT !.next = h]]
    OBVIOUS
  <1>6. PICK a2 : a2 = [a EXCEPT !.tcb[t].next = h]
    OBVIOUS
  <1>7. a2 = [k EXCEPT !.tcb = V2] /\ a2.queue = k.queue
    <2>1. a2 = [a EXCEPT !.tcb = [a.tcb EXCEPT ![t] = [a.tcb[t] EXCEPT !.next = h]]]
      BY <1>6
    <2>2. a2 = [a EXCEPT !.tcb = V2]
      BY <1>4, <1>5, <2>1
    <2>3. a2 = [k EXCEPT !.tcb = V2]
      BY <1>4, <2>2 DEF Memory
    <2> QED
      BY <2>3 DEF Memory
  <1>8. PICK R : R = [k.queue[q] EXCEPT !.HEAD = t]
    OBVIOUS
  <1>9. PICK b : b = [a2 EXCEPT !.queue[q].HEAD = t]
    OBVIOUS
  <1>10. InsertFirst(k, t, q) = b
    BY <1>1, <1>3, <1>6, <1>9
  <1>11. b = [a2 EXCEPT !.queue = [k.queue EXCEPT ![q] = R]]
    BY <1>7, <1>8, <1>9
  <1>12. b = Write(k, q, R, V2)
    <2>1. b = [k EXCEPT !.queue = [k.queue EXCEPT ![q] = R], !.tcb = V2]
      BY <1>7, <1>11 DEF Memory
    <2>2. Write(k, q, R, V2) = [k EXCEPT !.queue = [k.queue EXCEPT ![q] = R], !.tcb = V2]
      BY DEF Write
    <2> QED
      BY <2>1, <2>2
  <1>13. PICK T : T = [u \in Tasks |-> IF u = t THEN [k.tcb[u] EXCEPT !.next = h]
                                      ELSE IF u = h THEN [k.tcb[u] EXCEPT !.prev = t]
                                      ELSE k.tcb[u]]
    OBVIOUS
  <1>14. V2 = T
    <2>1. /\ DOMAIN V = Tasks /\ V[h] = [k.tcb[h] EXCEPT !.prev = t]
          /\ \A u \in Tasks : u # h => V[u] = k.tcb[u]
      BY <1>2 DEF Memory
    <2>2. /\ DOMAIN V2 = Tasks /\ V2[t] = [k.tcb[t] EXCEPT !.next = h]
          /\ \A u \in Tasks : u # t => V2[u] = V[u]
      BY <1>5, <2>1
    <2>3. \A u \in Tasks : V2[u] = T[u]
      BY <1>13, <2>1, <2>2
    <2>4. V2 = [u \in Tasks |-> V2[u]]
      BY <1>5, <2>2
    <2> QED
      BY <1>13, <2>3, <2>4
  <1> QED
    BY <1>8, <1>10, <1>12, <1>13, <1>14

\* push_tail of a real-time task that somebody on the queue is not ahead of.
LEMMA InsertAlong ==
    ASSUME NEW k, Memory(k), NEW q \in Queues, NEW n, NEW p,
           Along(k.tcb, k.queue[q], n, p), NEW t \in Tasks \ Range(p),
           k.tcb[t].real_time, k.tcb[t].prio = RT_INDEX,
           NEW j \in 1 .. n, FirstNotBefore(k, q, k.tcb[t].tsk_deadline) = p[j],
           k.tcb[t].state \in {"BLK_SEND", "SUSPENDED"} \/ k.tcb[p[n]].state = "READY"
    PROVE  /\ Moved(PushTail(k, t, q), k, q, Range(p), t, n + 1, Within(n, p, j, t))
           /\ PushTail(k, t, q).tcb[t].state = k.tcb[t].state
  <1>0. PICK l : l = PushTail(k, t, q)
    OBVIOUS
  <1>1. /\ n \in Nat /\ p \in [1 .. n -> Tasks] /\ n <= MAX_TASKS
        /\ n \in 1 .. n /\ 1 \in 1 .. n
        /\ \A i, m \in 1 .. n : p[i] = p[m] => i = m
    BY AlongPath
  <1>2. \A i \in 1 .. n : p[i] # t /\ p[i] # NULL /\ p[i] \in Range(p) /\ p[i] \in Tasks
    BY <1>1, MemoryFields DEF Range
  <1>3. /\ k.queue[q].HEAD = p[1] /\ k.queue[q].TAIL = p[n] /\ k.queue[q].current_size = n
        /\ \A i \in 1 .. n : k.tcb[p[i]].next = IF i = n THEN NULL ELSE p[i + 1]
        /\ \A i \in 2 .. n : k.tcb[p[i]].prev = p[i - 1]
    BY <1>1 DEF Along, Ends, Links
  <1>4. PICK h : h = p[j]
    OBVIOUS
  <1>5. PICK b : b = IF j = 1 THEN NULL ELSE p[j - 1]
    OBVIOUS
  <1>6. /\ h \in Tasks /\ h # t /\ h \in Range(p) /\ t # NULL /\ t \in TaskPtr /\ h \in TaskPtr
        /\ b # t /\ b # h /\ b \in TaskPtr
        /\ j # 1 => j - 1 \in 1 .. n /\ b \in Tasks /\ b \in Range(p)
    <2>1. CASE j = 1
      BY <1>2, <1>4, <1>5, <2>1, MemoryFields
    <2>2. CASE j # 1
      <3>1. j - 1 \in 1 .. n /\ j - 1 # j
        BY <1>1, <2>2
      <3>2. b = p[j - 1] /\ b # h
        BY <1>1, <1>4, <1>5, <2>2, <3>1
      <3> QED
        BY <1>2, <1>4, <2>2, <3>1, <3>2, MemoryFields
    <2> QED
      BY <2>1, <2>2
  <1>7. PICK c \in TaskPtr : c = IF j = 1 THEN k.tcb[t].prev ELSE b
    BY <1>6, MemoryFields
  <1>8. PICK T : T = [u \in Tasks |->
                  IF u = t THEN [k.tcb[u] EXCEPT !.next = h, !.prev = c]
                  ELSE IF u = h THEN [k.tcb[u] EXCEPT !.prev = t]
                  ELSE IF u = b THEN [k.tcb[u] EXCEPT !.next = t]
                  ELSE k.tcb[u]]
    OBVIOUS
  <1>9. ASSUME NEW u \in Tasks
        PROVE  /\ T[u] \in TCB /\ SameTask(T[u], k.tcb[u]) /\ T[u].state = k.tcb[u].state
               /\ T[u].next = IF u = t THEN h ELSE IF u = b THEN t ELSE k.tcb[u].next
               /\ T[u].prev = IF u = t THEN c ELSE IF u = h THEN t ELSE k.tcb[u].prev
               /\ u # t /\ u # h /\ u # b => T[u] = k.tcb[u]
    <2>1. k.tcb[u] \in TCB
      BY MemoryFields
    <2>2. CASE u = t
      <3>1. T[u] = [k.tcb[u] EXCEPT !.next = h, !.prev = c]
        BY <1>8, <2>2
      <3> QED
        BY <1>6, <1>7, <2>1, <2>2, <3>1 DEF TCB, SameTask
    <2>3. CASE u = h
      <3>1. T[u] = [k.tcb[u] EXCEPT !.prev = t]
        BY <1>6, <1>8, <2>3
      <3> QED
        BY <1>6, <2>1, <2>3, <3>1 DEF TCB, SameTask
    <2>4. CASE u = b
      <3>1. T[u] = [k.tcb[u] EXCEPT !.next = t]
        BY <1>6, <1>8, <2>4
      <3> QED
        BY <1>6, <2>1, <2>4, <3>1 DEF TCB, SameTask
    <2>5. CASE u # t /\ u # h /\ u # b
      BY <1>8, <2>1, <2>5 DEF SameTask
    <2> QED
      BY <2>2, <2>3, <2>4, <2>5
  <1>10. T \in [Tasks -> TCB]
    BY <1>8, <1>9
  <1>11. PICK Q : Q = [HEAD |-> IF j = 1 THEN t ELSE k.queue[q].HEAD, TAIL |-> k.queue[q].TAIL,
                       current_size |-> Incr(k.queue[q].current_size)]
    OBVIOUS
  <1>12. k.queue[q] \in QUEUE /\ Q \in QUEUE
    BY <1>6, <1>11, MemoryFields, CountsInRange DEF QUEUE
  <1>13. PICK R : R = IF j = 1 THEN [k.queue[q] EXCEPT !.HEAD = t] ELSE k.queue[q]
    OBVIOUS
  <1>14. /\ R \in QUEUE /\ R.HEAD = (IF j = 1 THEN t ELSE k.queue[q].HEAD)
         /\ R.TAIL = k.queue[q].TAIL /\ R.current_size = k.queue[q].current_size
    BY <1>6, <1>12, <1>13 DEF QUEUE
  <1>15. PICK a : a = Write(k, q, R, T)
    OBVIOUS
  <1>16. Memory(a) /\ a.queue[q] = R /\ a.tcb = T
    BY <1>10, <1>14, <1>15, WriteQueue, WriteRead
  <1>17. l = FinishTail(a, t, q)
    <2>1. k.queue[q].TAIL # NULL
      BY <1>1, <1>2, <1>3
    <2>2. CASE j = 1
      <3>1. InsertFirst(k, t, q) = a
        <4>1. InsertFirst(k, t, q) =
                Write(k, q, [k.queue[q] EXCEPT !.HEAD = t],
                      [u \in Tasks |-> IF u = t THEN [k.tcb[u] EXCEPT !.next = h]
                                       ELSE IF u = h THEN [k.tcb[u] EXCEPT !.prev = t]
                                       ELSE k.tcb[u]])
          <5>1. k.queue[q].HEAD = h /\ t # h
            BY <1>3, <1>4, <1>6, <2>2
          <5> QED
            BY <1>6, <5>1, InsertFirstWrites
        <4>2. PICK V : V = [u \in Tasks |-> IF u = t THEN [k.tcb[u] EXCEPT !.next = h]
                                       ELSE IF u = h THEN [k.tcb[u] EXCEPT !.prev = t]
                                       ELSE k.tcb[u]]
          OBVIOUS
        <4>3. V = T
          <5>1. b = NULL /\ \A u \in Tasks : u # b
            BY <1>5, <2>2, MemoryFields
          <5>2. k.tcb[t] \in TCB
            BY MemoryFields
          <5>3. [k.tcb[t] EXCEPT !.next = h, !.prev = c] = [k.tcb[t] EXCEPT !.next = h]
            BY <1>7, <2>2, <5>2 DEF TCB
          <5> QED
            BY <1>8, <4>2, <5>1, <5>3
        <4> QED
          BY <1>13, <1>15, <2>2, <4>1, <4>2, <4>3
      <3>2. p[j] = k.queue[q].HEAD /\ p[j] # NULL
        BY <1>2, <1>3, <2>2
      <3> QED
        BY <1>0, <2>1, <3>1, <3>2 DEF PushTail
    <2>3. CASE j # 1
      <3>1. InsertBefore(k, t, h) = a
        <4>1. k.tcb[h].prev = b /\ c = b /\ b \in Tasks
          BY <1>3, <1>4, <1>5, <1>6, <1>7, <2>3
        <4>2. InsertBefore(k, t, h) = [k EXCEPT !.tcb = T]
          <5>1. /\ t \in Tasks /\ h \in Tasks /\ b \in Tasks
                /\ t # h /\ t # b /\ b # h /\ k.tcb[h].prev = b
            BY <1>6, <4>1
          <5>2. InsertBefore(k, t, h) = [k EXCEPT !.tcb = LinkedBetween(k, b, t, h)]
            BY <5>1, InsertBeforeWrites
          <5>3. LinkedBetween(k, b, t, h) = T
            BY <1>8, <4>1 DEF LinkedBetween
          <5> QED
            BY <5>2, <5>3
        <4>3. [k.queue EXCEPT ![q] = R] = k.queue
          BY <1>13, <2>3 DEF Memory
        <4>4. a = [k EXCEPT !.tcb = T]
          BY <1>15, <4>3 DEF Memory, Write
        <4> QED
          BY <4>2, <4>4
      <3>2. p[j] # k.queue[q].HEAD /\ p[j] # NULL
        BY <1>1, <1>2, <1>3, <2>3
      <3> QED
        BY <1>0, <1>4, <2>1, <3>1, <3>2 DEF PushTail
    <2> QED
      BY <2>2, <2>3
  <1>18. l = Write(k, q, Q, T)
    <2>1. p[n] \in Tasks /\ p[n] # t /\ a.queue[q].TAIL = p[n]
      BY <1>1, <1>2, <1>3, <1>14, <1>16
    <2>2. p[n] # b
      <3>1. CASE j = 1
        BY <1>5, <2>1, <3>1, MemoryFields
      <3>2. CASE j # 1
        BY <1>1, <1>5, <1>6, <3>2
      <3> QED
        BY <3>1, <3>2
    <2>3. k.tcb[p[n]].next = NULL
      BY <1>1, <1>3
    <2>4. a.tcb[p[n]].next = NULL /\ a.tcb[p[n]].state = k.tcb[p[n]].state
          /\ a.tcb[t].state = k.tcb[t].state
      BY <1>9, <1>16, <2>1, <2>2, <2>3
    <2>5. a.tcb[t].state \in {"BLK_SEND", "SUSPENDED"} \/ a.tcb[p[n]].state = "READY"
      BY <2>4
    <2>6. l = Write(a, q, Counted(a.queue[q]), a.tcb)
      BY <1>16, <1>17, <2>1, <2>4, <2>5, FinishOther
    <2>7. Counted(R) = Q
      <3>1. Counted(R) = [HEAD |-> R.HEAD, TAIL |-> R.TAIL, current_size |-> Incr(R.current_size)]
        BY <1>14, CountedFields
      <3> QED
        BY <1>11, <1>14, <3>1
    <2> QED
      BY <1>15, <1>16, <2>6, <2>7, WriteWrite
  <1>19. Memory(l) /\ SameRest(l, k)
    BY <1>10, <1>12, <1>18, WriteQueue
  <1>20. /\ l.tcb = T /\ l.queue[q] = Q
         /\ \A r \in Queues : r # q => l.queue[r] = k.queue[r]
    BY <1>18, WriteRead
  <1>21. PICK w : w = Within(n, p, j, t)
    OBVIOUS
  <1>22. Path(n + 1, w)
    BY <1>21, WithinPath DEF Along
  <1>23. \A i \in 1 .. n + 1 : w[i] = IF i < j THEN p[i] ELSE IF i = j THEN t ELSE p[i - 1]
    BY <1>1, <1>21 DEF Within
  <1>24. Ends(Q, n + 1, w)
    <2>1. Q.current_size = n + 1
      BY <1>1, <1>3, <1>11, CountsExact
    <2>2. w[1] = (IF j = 1 THEN t ELSE p[1]) /\ w[n + 1] = p[n]
      BY <1>1, <1>23
    <2> QED
      BY <1>1, <1>3, <1>11, <2>1, <2>2 DEF Ends
  <1>25. ASSUME NEW i \in 1 .. n + 1
         PROVE  T[w[i]].next = IF i = n + 1 THEN NULL ELSE w[i + 1]
    <2>1. CASE i = j
      <3>1. w[i] = t /\ w[i + 1] = h /\ i # n + 1
        BY <1>1, <1>4, <1>23, <2>1
      <3> QED
        BY <1>9, <3>1
    <2>2. CASE i < j - 1
      <3>1. i \in 1 .. n /\ w[i] = p[i] /\ w[i + 1] = p[i + 1] /\ i # n /\ i # n + 1
        BY <1>1, <1>23, <2>2
      <3>2. p[i] # t /\ p[i] # b /\ p[i] \in Tasks
        BY <1>1, <1>2, <1>5, <2>2, <3>1
      <3>3. k.tcb[p[i]].next = p[i + 1]
        BY <1>3, <3>1
      <3> QED
        BY <1>9, <3>1, <3>2, <3>3
    <2>3. CASE i = j - 1
      <3>1. w[i] = b /\ w[i + 1] = t /\ i # n + 1 /\ b \in Tasks
        BY <1>1, <1>5, <1>6, <1>23, <2>3
      <3> QED
        BY <1>6, <1>9, <3>1
    <2>4. CASE i > j
      <3>1. i - 1 \in 1 .. n /\ w[i] = p[i - 1]
        BY <1>1, <1>23, <2>4
      <3>2. p[i - 1] # t /\ p[i - 1] \in Tasks
        BY <1>2, <3>1
      <3>3. p[i - 1] # b
        <4>1. CASE j = 1
          BY <1>5, <3>2, <4>1, MemoryFields
        <4>2. CASE j # 1
          <5>1. j - 1 \in 1 .. n /\ i - 1 # j - 1
            BY <1>6, <2>4, <4>2
          <5> QED
            BY <1>1, <1>5, <3>1, <4>2, <5>1
        <4> QED
          BY <4>1, <4>2
      <3>4. T[w[i]].next = k.tcb[p[i - 1]].next
        BY <1>9, <3>1, <3>2, <3>3
      <3>5. k.tcb[p[i - 1]].next = IF i - 1 = n THEN NULL ELSE p[(i - 1) + 1]
        BY <1>3, <3>1
      <3>6. i # n + 1 => w[i + 1] = p[(i - 1) + 1]
        BY <1>1, <1>23, <2>4
      <3> QED
        BY <1>1, <3>4, <3>5, <3>6
    <2> QED
      BY <2>1, <2>2, <2>3, <2>4
  <1>26. ASSUME NEW i \in 2 .. n + 1
         PROVE  T[w[i]].prev = w[i - 1]
    <2>1. CASE i = j
      <3>1. w[i] = t /\ w[i - 1] = b /\ c = b
        BY <1>1, <1>5, <1>7, <1>23, <2>1
      <3> QED
        BY <1>9, <3>1
    <2>2. CASE i < j
      <3>1. i \in 2 .. n /\ i \in 1 .. n /\ w[i] = p[i] /\ w[i - 1] = p[i - 1]
        BY <1>1, <1>23, <2>2
      <3>2. p[i] # t /\ p[i] # h /\ p[i] \in Tasks
        BY <1>1, <1>2, <1>4, <2>2, <3>1
      <3>3. k.tcb[p[i]].prev = p[i - 1]
        BY <1>3, <3>1
      <3> QED
        BY <1>9, <3>1, <3>2, <3>3
    <2>3. CASE i = j + 1
      <3>1. w[i] = h /\ w[i - 1] = t
        BY <1>1, <1>4, <1>23, <2>3
      <3> QED
        BY <1>6, <1>9, <3>1
    <2>4. CASE i > j + 1
      <3>1. i - 1 \in 2 .. n /\ i - 1 \in 1 .. n /\ w[i] = p[i - 1] /\ w[i - 1] = p[(i - 1) - 1]
        BY <1>1, <1>23, <2>4
      <3>2. p[i - 1] # t /\ p[i - 1] # h /\ p[i - 1] \in Tasks
        BY <1>1, <1>2, <1>4, <2>4, <3>1
      <3>3. k.tcb[p[i - 1]].prev = p[(i - 1) - 1]
        BY <1>3, <3>1
      <3> QED
        BY <1>9, <3>1, <3>2, <3>3
    <2> QED
      BY <2>1, <2>2, <2>3, <2>4
  <1>27. Along(l.tcb, l.queue[q], n + 1, Within(n, p, j, t))
    <2>1. Links(T, n + 1, w)
      BY <1>25, <1>26 DEF Links
    <2> QED
      BY <1>20, <1>21, <1>22, <1>24, <2>1 DEF Along
  <1>28. \A u \in Tasks \ Range(p) : u # t => T[u] = k.tcb[u]
    <2> SUFFICES ASSUME NEW u \in Tasks \ Range(p), u # t PROVE T[u] = k.tcb[u]
      OBVIOUS
    <2>1. u # h /\ u # b
      <3>1. CASE j = 1
        BY <1>5, <1>6, <3>1, MemoryFields
      <3>2. CASE j # 1
        BY <1>6, <3>2
      <3> QED
        BY <3>1, <3>2
    <2> QED
      BY <1>9, <2>1
  <1>29. Moved(l, k, q, Range(p), t, n + 1, Within(n, p, j, t))
    BY <1>9, <1>19, <1>20, <1>27, <1>28 DEF Moved
  <1> QED
    BY <1>0, <1>9, <1>20, <1>29

----------------------------------------------------------------------------
(***************************************************************************)
(* All the queues of a memory at once: each is a proper list, and no task  *)
(* is on two of them.                                                      *)
(***************************************************************************)
Linked(k, q) == Along(k.tcb, k.queue[q], Len(Nodes(k, q)), Nodes(k, q))
Lists(k)     == /\ \A q \in Queues : Linked(k, q)
                /\ \A q, r \in Queues : q # r => TasksOf(k, q) \cap TasksOf(k, r) = {}

\* u is ahead of v on q.
Precedes(k, q, u, v) == InOrder(Len(Nodes(k, q)), Nodes(k, q), u, v)

\* t is on none of the queues.
Loose(k, t) == \A q \in Queues : t \notin TasksOf(k, q)

\* From k to l the tasks of the queue q become the set S by taking t off or putting
\* it on, and nothing else moves.
Shifted(l, k, q, t, S) ==
    /\ Memory(l) /\ Lists(l) /\ SameRest(l, k)
    /\ TasksOf(l, q) = S
    /\ \A r \in Queues : r # q => Nodes(l, r) = Nodes(k, r) /\ TasksOf(l, r) = TasksOf(k, r)
    /\ \A u \in Tasks : SameTask(l.tcb[u], k.tcb[u])
    /\ \A u \in Tasks : u # t => l.tcb[u].state = k.tcb[u].state
    /\ \A u \in Tasks \ TasksOf(k, q) : u # t => l.tcb[u] = k.tcb[u]
    /\ \A r \in Queues, u, v \in Tasks \ {t} : Precedes(l, r, u, v) <=> Precedes(k, r, u, v)

LEMMA FindPath ==
    ASSUME NEW k, Memory(k), NEW q, NEW n, NEW p, Along(k.tcb, k.queue[q], n, p)
    PROVE  /\ Nodes(k, q) = p /\ Len(p) = n /\ TasksOf(k, q) = Range(p) /\ Linked(k, q)
           /\ WellLinked(k, q)
  <1>1. Nodes(k, q) = p /\ TasksOf(k, q) = Range(p) /\ WellLinked(k, q)
    BY NodesOfPath, PathWellLinked DEF Memory
  <1>2. Len(p) = n
    BY LenProperties, IsASeq DEF Along, Path
  <1> QED
    BY <1>1, <1>2 DEF Linked

\* A proper list: who is on it, and when it is empty.
LEMMA LinkedFacts ==
    ASSUME NEW k, Memory(k), NEW q, Linked(k, q)
    PROVE  /\ Path(Len(Nodes(k, q)), Nodes(k, q)) /\ TasksOf(k, q) \subseteq Tasks
           /\ TasksOf(k, q) = Range(Nodes(k, q)) /\ WellLinked(k, q)
           /\ \A t : t \in TasksOf(k, q) <=> \E j \in 1 .. Len(Nodes(k, q)) : Nodes(k, q)[j] = t
           /\ k.queue[q].HEAD = NULL <=> Len(Nodes(k, q)) = 0
           /\ k.queue[q].HEAD = NULL <=> TasksOf(k, q) = {}
           /\ k.queue[q].HEAD # NULL => /\ k.queue[q].HEAD = Nodes(k, q)[1]
                                        /\ k.queue[q].TAIL = Nodes(k, q)[Len(Nodes(k, q))]
                                        /\ k.queue[q].HEAD \in TasksOf(k, q)
  <1>1. PICK n, p : n = Len(Nodes(k, q)) /\ p = Nodes(k, q)
    OBVIOUS
  <1>2. Along(k.tcb, k.queue[q], n, p)
    BY <1>1 DEF Linked
  <1>3. TasksOf(k, q) = Range(p) /\ WellLinked(k, q)
    BY <1>2, FindPath
  <1>4. Path(n, p) /\ n \in Nat /\ p \in [1 .. n -> Tasks] /\ Ends(k.queue[q], n, p)
    BY <1>2 DEF Along, Path
  <1>5. Range(p) = {p[j] : j \in 1 .. n} /\ Range(p) \subseteq Tasks
    BY <1>4 DEF Range
  <1>6. NULL \notin Tasks
    BY MemoryFields
  <1>7. n # 0 => 1 \in 1 .. n /\ p[1] \in Tasks
    BY <1>4
  <1>8. /\ k.queue[q].HEAD = NULL <=> n = 0
        /\ n # 0 => k.queue[q].HEAD = p[1] /\ k.queue[q].TAIL = p[n]
    BY <1>4, <1>6, <1>7 DEF Ends
  <1>9. \A t : t \in Range(p) <=> \E j \in 1 .. n : p[j] = t
    BY <1>5
  <1>10. Range(p) = {} <=> n = 0
    <2>1. n = 0 => 1 .. n = {}
      OBVIOUS
    <2>2. n # 0 => p[1] \in Range(p)
      BY <1>5, <1>7
    <2> QED
      BY <1>5, <2>1, <2>2
  <1>11. n # 0 => p[1] \in Range(p)
    BY <1>5, <1>7
  <1> QED
    BY <1>1, <1>3, <1>4, <1>5, <1>8, <1>9, <1>10, <1>11

\* What one queue's new path means for all of them.
LEMMA Lift ==
    ASSUME NEW k, Memory(k), Lists(k), NEW q \in Queues, NEW t \in Tasks,
           \A r \in Queues : r # q => t \notin TasksOf(k, r),
           NEW l, NEW n, NEW p, Moved(l, k, q, TasksOf(k, q), t, n, p),
           Range(p) \subseteq TasksOf(k, q) \cup {t},
           \A u, v \in Tasks : u # t /\ v # t => (InOrder(n, p, u, v) <=> Precedes(k, q, u, v))
    PROVE  Shifted(l, k, q, t, Range(p)) /\ Nodes(l, q) = p /\ Len(p) = n
  <1>1. Memory(l) /\ Along(l.tcb, l.queue[q], n, p)
    BY DEF Moved
  <1>2. Nodes(l, q) = p /\ TasksOf(l, q) = Range(p) /\ Linked(l, q) /\ Len(p) = n
    BY <1>1, FindPath
  <1>3. ASSUME NEW r \in Queues, r # q
        PROVE  Nodes(l, r) = Nodes(k, r) /\ TasksOf(l, r) = TasksOf(k, r) /\ Linked(l, r)
    <2>1. PICK m, w : m = Len(Nodes(k, r)) /\ w = Nodes(k, r)
      OBVIOUS
    <2>2. Along(k.tcb, k.queue[r], m, w) /\ Range(w) = TasksOf(k, r) /\ Range(w) \subseteq Tasks
      BY <2>1, LinkedFacts DEF Lists, Linked
    <2>3. \A u \in Range(w) : u \in Tasks \ TasksOf(k, q) /\ u # t
      BY <1>3, <2>2 DEF Lists
    <2>4. \A u \in Range(w) : l.tcb[u] = k.tcb[u]
      BY <2>3 DEF Moved
    <2>5. Along(l.tcb, k.queue[r], m, w)
      BY <2>2, <2>4, AlongFrame
    <2>6. l.queue[r] = k.queue[r]
      BY <1>3 DEF Moved
    <2>7. Along(l.tcb, l.queue[r], m, w)
      BY <2>5, <2>6
    <2> QED
      BY <1>1, <2>1, <2>2, <2>7, FindPath
  <1>4. ASSUME NEW r \in Queues, NEW s \in Queues, r # s
        PROVE  TasksOf(l, r) \cap TasksOf(l, s) = {}
    <2>1. TasksOf(k, r) \cap TasksOf(k, s) = {}
      BY <1>4 DEF Lists
    <2> QED
      BY <1>2, <1>3, <1>4, <2>1
  <1>5. Lists(l)
    BY <1>2, <1>3, <1>4 DEF Lists
  <1>6. ASSUME NEW r \in Queues, NEW u \in Tasks \ {t}, NEW v \in Tasks \ {t}
        PROVE  Precedes(l, r, u, v) <=> Precedes(k, r, u, v)
    <2>1. CASE r = q
      <3>1. Precedes(l, q, u, v) <=> InOrder(n, p, u, v)
        BY <1>2 DEF Precedes
      <3> QED
        BY <2>1, <3>1
    <2>2. CASE r # q
      BY <1>3, <2>2 DEF Precedes
    <2> QED
      BY <2>1, <2>2
  <1> QED
    BY <1>1, <1>2, <1>3, <1>5, <1>6 DEF Moved, Shifted

\* l is k without the first task t of q.
HeadPopped(l, k, q, t) ==
    /\ Shifted(l, k, q, t, TasksOf(k, q) \ {t})
    /\ t \in TasksOf(k, q) /\ t \in Tasks
    /\ \A u \in TasksOf(k, q) : u # t => Precedes(k, q, t, u)
    /\ l.tcb[t].state = PoppedState(k.tcb[t].state) /\ l.tcb[t].next = NULL
    /\ Nodes(l, q) = Without(Len(Nodes(k, q)), Nodes(k, q), 1)

LEMMA PopHeadLists ==
    ASSUME NEW k, Memory(k), Lists(k), NEW q \in Queues, k.queue[q].HEAD # NULL,
           NEW t, t = k.queue[q].HEAD
    PROVE  HeadPopped(PopHead(k, q), k, q, t)
  <1>1. PICK n, p : n = Len(Nodes(k, q)) /\ p = Nodes(k, q)
    OBVIOUS
  <1>2. Linked(k, q)
    BY DEF Lists
  <1>3. Along(k.tcb, k.queue[q], n, p)
    BY <1>1, <1>2 DEF Linked
  <1>4. n # 0 /\ t = p[1] /\ t \in TasksOf(k, q) /\ TasksOf(k, q) = Range(p) /\ t \in Tasks
        /\ Path(n, p) /\ 1 \in 1 .. n
    <2>1. n # 0 /\ t = p[1] /\ t \in TasksOf(k, q) /\ TasksOf(k, q) = Range(p)
          /\ TasksOf(k, q) \subseteq Tasks
      BY <1>1, <1>2, LinkedFacts
    <2> QED
      BY <1>3, <2>1, AlongPath DEF Along
  <1>5. /\ Moved(PopHead(k, q), k, q, TasksOf(k, q), t, n - 1, Without(n, p, 1))
        /\ PopHead(k, q).tcb[t].state = PoppedState(k.tcb[t].state)
        /\ PopHead(k, q).tcb[t].next = NULL
    BY <1>3, <1>4, PopHeadAlong
  <1>6. Range(Without(n, p, 1)) = TasksOf(k, q) \ {t}
    BY <1>4, NewPaths
  <1>7. \A r \in Queues : r # q => t \notin TasksOf(k, r)
    BY <1>4 DEF Lists
  <1>8. \A u, v \in Tasks : u # t /\ v # t
           => (InOrder(n - 1, Without(n, p, 1), u, v) <=> Precedes(k, q, u, v))
    BY <1>1, <1>4, OrderKept DEF Precedes
  <1>9. /\ Shifted(PopHead(k, q), k, q, t, Range(Without(n, p, 1)))
        /\ Nodes(PopHead(k, q), q) = Without(n, p, 1)
    BY <1>4, <1>5, <1>6, <1>7, <1>8, Lift
  <1>10. \A u \in TasksOf(k, q) : u # t => Precedes(k, q, t, u)
    BY <1>1, <1>4, OrderKept DEF Precedes
  <1> QED
    BY <1>1, <1>4, <1>5, <1>6, <1>9, <1>10 DEF HeadPopped

LEMMA PopTaskLists ==
    ASSUME NEW k, Memory(k), Lists(k), NEW q \in Queues, NEW t \in TasksOf(k, q)
    PROVE  /\ Shifted(PopTask(k, t, q), k, q, t, TasksOf(k, q) \ {t}) /\ t \in Tasks
           /\ PopTask(k, t, q).tcb[t].state \in {k.tcb[t].state, "READY"}
           /\ t \in {k.queue[q].HEAD, k.queue[q].TAIL} => PopTask(k, t, q).tcb[t].next = NULL
  <1>1. PICK n, p : n = Len(Nodes(k, q)) /\ p = Nodes(k, q)
    OBVIOUS
  <1>2. Linked(k, q)
    BY DEF Lists
  <1>3. Along(k.tcb, k.queue[q], n, p)
    BY <1>1, <1>2 DEF Linked
  <1>4. TasksOf(k, q) = Range(p) /\ t \in Tasks /\ Path(n, p) /\ \E j \in 1 .. n : p[j] = t
    BY <1>1, <1>2, LinkedFacts
  <1>5. PICK j \in 1 .. n : p[j] = t
    BY <1>4
  <1>6. /\ Moved(PopTask(k, t, q), k, q, TasksOf(k, q), t, n - 1, Without(n, p, j))
        /\ PopTask(k, t, q).tcb[t].state \in {k.tcb[t].state, "READY"}
        /\ j \in {1, n} => PopTask(k, t, q).tcb[t].next = NULL
    BY <1>3, <1>4, <1>5, PopTaskAlong
  <1>7. Range(Without(n, p, j)) = TasksOf(k, q) \ {t}
    BY <1>4, <1>5, NewPaths
  <1>8. \A r \in Queues : r # q => t \notin TasksOf(k, r)
    BY DEF Lists
  <1>9. Shifted(PopTask(k, t, q), k, q, t, Range(Without(n, p, j)))
    <2>1. \A u, v \in Tasks : u # t /\ v # t
             => (InOrder(n - 1, Without(n, p, j), u, v) <=> Precedes(k, q, u, v))
      BY <1>1, <1>4, <1>5, OrderKept DEF Precedes
    <2> QED
      BY <1>4, <1>6, <1>7, <1>8, <2>1, Lift
  <1>10. t \in {k.queue[q].HEAD, k.queue[q].TAIL} => j \in {1, n}
    <2>1. n \in Nat /\ 1 \in 1 .. n /\ n \in 1 .. n
      BY <1>4, <1>5 DEF Path
    <2>2. k.queue[q].HEAD = p[1] /\ k.queue[q].TAIL = p[n]
      BY <1>3, <2>1 DEF Along, Ends
    <2> QED
      BY <1>4, <1>5, <2>1, <2>2 DEF Path
  <1> QED
    BY <1>1, <1>4, <1>5, <1>6, <1>7, <1>9, <1>10

LEMMA PushHeadLists ==
    ASSUME NEW k, Memory(k), Lists(k), NEW q \in Queues, NEW t \in Tasks,
           Loose(k, t), k.tcb[t].next = NULL
    PROVE  /\ Shifted(PushHead(k, t, q), k, q, t, TasksOf(k, q) \cup {t})
           /\ PushHead(k, t, q).tcb[t].state =
                IF k.tcb[t].state = "SUSPENDED" THEN "SUSPENDED" ELSE "READY"
  <1>1. PICK n, p : n = Len(Nodes(k, q)) /\ p = Nodes(k, q)
    OBVIOUS
  <1>2. Linked(k, q)
    BY DEF Lists
  <1>3. Along(k.tcb, k.queue[q], n, p)
    BY <1>1, <1>2 DEF Linked
  <1>4. TasksOf(k, q) = Range(p) /\ Path(n, p) /\ t \in Tasks \ Range(p)
    BY <1>1, <1>2, LinkedFacts DEF Loose
  <1>5. /\ Moved(PushHead(k, t, q), k, q, TasksOf(k, q), t, n + 1, Before(t, n, p))
        /\ PushHead(k, t, q).tcb[t].state =
                IF k.tcb[t].state = "SUSPENDED" THEN "SUSPENDED" ELSE "READY"
    BY <1>3, <1>4, PushHeadAlong
  <1>6. Range(Before(t, n, p)) = TasksOf(k, q) \cup {t}
    BY <1>4, NewPaths
  <1>7. Shifted(PushHead(k, t, q), k, q, t, Range(Before(t, n, p)))
    <2>1. \A u, v \in Tasks : u # t /\ v # t
             => (InOrder(n + 1, Before(t, n, p), u, v) <=> Precedes(k, q, u, v))
      BY <1>1, <1>4, OrderKept DEF Precedes
    <2> QED
      BY <1>5, <1>6, <2>1, Lift DEF Loose
  <1> QED
    BY <1>1, <1>5, <1>6, <1>7

LEMMA PushTailLists ==
    ASSUME NEW k, Memory(k), Lists(k), NEW q \in Queues, NEW t \in Tasks,
           Loose(k, t), ~k.tcb[t].real_time
    PROVE  /\ Shifted(PushTail(k, t, q), k, q, t, TasksOf(k, q) \cup {t})
           /\ \A u \in TasksOf(k, q) : Precedes(PushTail(k, t, q), q, u, t)
           /\ PushTail(k, t, q).tcb[t].state =
                IF k.tcb[t].state \in {"BLK_SEND", "SUSPENDED"} THEN k.tcb[t].state ELSE "READY"
           /\ Nodes(PushTail(k, t, q), q) = Behind(Len(Nodes(k, q)), Nodes(k, q), t)
  <1>1. PICK n, p : n = Len(Nodes(k, q)) /\ p = Nodes(k, q)
    OBVIOUS
  <1>2. Linked(k, q)
    BY DEF Lists
  <1>3. Along(k.tcb, k.queue[q], n, p)
    BY <1>1, <1>2 DEF Linked
  <1>4. TasksOf(k, q) = Range(p) /\ Path(n, p) /\ t \in Tasks \ Range(p)
    BY <1>1, <1>2, LinkedFacts DEF Loose
  <1>5. /\ Moved(PushTail(k, t, q), k, q, TasksOf(k, q), t, n + 1, Behind(n, p, t))
        /\ PushTail(k, t, q).tcb[t].state =
                IF k.tcb[t].state \in {"BLK_SEND", "SUSPENDED"} THEN k.tcb[t].state ELSE "READY"
    BY <1>3, <1>4, PushTailAlong DEF GoesLast
  <1>6. Range(Behind(n, p, t)) = TasksOf(k, q) \cup {t}
    BY <1>4, NewPaths
  <1>7. /\ Shifted(PushTail(k, t, q), k, q, t, Range(Behind(n, p, t)))
        /\ Nodes(PushTail(k, t, q), q) = Behind(n, p, t) /\ Len(Behind(n, p, t)) = n + 1
    <2>1. \A u, v \in Tasks : u # t /\ v # t
             => (InOrder(n + 1, Behind(n, p, t), u, v) <=> Precedes(k, q, u, v))
      BY <1>1, <1>4, OrderKept DEF Precedes
    <2> QED
      BY <1>5, <1>6, <2>1, Lift DEF Loose
  <1>8. \A u \in TasksOf(k, q) : Precedes(PushTail(k, t, q), q, u, t)
    BY <1>4, <1>7, OrderKept DEF Precedes
  <1> QED
    BY <1>1, <1>5, <1>6, <1>7, <1>8

\* Links and ends decide what is on a queue, and nothing else does.
LEMMA Relisted ==
    ASSUME NEW k, Memory(k), Lists(k), NEW l, Memory(l), l.queue = k.queue,
           \A u \in Tasks : l.tcb[u].next = k.tcb[u].next /\ l.tcb[u].prev = k.tcb[u].prev
    PROVE  /\ Lists(l)
           /\ \A q \in Queues : Nodes(l, q) = Nodes(k, q) /\ TasksOf(l, q) = TasksOf(k, q)
           /\ \A u : Loose(l, u) <=> Loose(k, u)
           /\ \A q \in Queues : \A u, v : Precedes(l, q, u, v) <=> Precedes(k, q, u, v)
  <1>1. ASSUME NEW q \in Queues
        PROVE  Nodes(l, q) = Nodes(k, q) /\ TasksOf(l, q) = TasksOf(k, q) /\ Linked(l, q)
    <2>1. PICK n, p : n = Len(Nodes(k, q)) /\ p = Nodes(k, q)
      OBVIOUS
    <2>2. Along(k.tcb, k.queue[q], n, p) /\ Range(p) = TasksOf(k, q) /\ Range(p) \subseteq Tasks
      BY <2>1, LinkedFacts DEF Lists, Linked
    <2>3. Along(l.tcb, l.queue[q], n, p)
      <3>1. \A u \in Range(p) : l.tcb[u].next = k.tcb[u].next /\ l.tcb[u].prev = k.tcb[u].prev
        BY <2>2
      <3> QED
        BY <2>2, <3>1, AlongFrame
    <2> QED
      BY <2>1, <2>2, <2>3, FindPath
  <1>2. Lists(l)
    BY <1>1 DEF Lists
  <1> QED
    BY <1>1, <1>2 DEF Loose, Precedes

----------------------------------------------------------------------------
(***************************************************************************)
(* Queues in the order of deadlines.                                       *)
(***************************************************************************)
\* The tasks on q are in the order of their deadlines.
ByDeadline(k, q) ==
    \A u, v \in Tasks : Precedes(k, q, u, v) => k.tcb[u].tsk_deadline <= k.tcb[v].tsk_deadline

\* Who is ahead of somebody on q is on q.
LEMMA PrecedesOn ==
    ASSUME NEW k, Memory(k), NEW q, Linked(k, q), NEW u, NEW v, Precedes(k, q, u, v)
    PROVE  u \in TasksOf(k, q) /\ v \in TasksOf(k, q)
  <1>1. PICK n, p : n = Len(Nodes(k, q)) /\ p = Nodes(k, q)
    OBVIOUS
  <1>2. \A t : t \in TasksOf(k, q) <=> \E j \in 1 .. n : p[j] = t
    BY <1>1, LinkedFacts
  <1>3. PICK i, m \in 1 .. n : p[i] = u /\ p[m] = v
    BY <1>1 DEF Precedes, InOrder
  <1> QED
    BY <1>2, <1>3

\* Only the task that moves can spoil the order.
LEMMA SortedKept ==
    ASSUME NEW k, Memory(k), NEW q \in Queues, ByDeadline(k, q),
           NEW t \in Tasks, NEW l, NEW S, Shifted(l, k, q, t, S),
           \A u \in Tasks \ {t} :
              /\ Precedes(l, q, u, t) => k.tcb[u].tsk_deadline <= k.tcb[t].tsk_deadline
              /\ Precedes(l, q, t, u) => k.tcb[t].tsk_deadline <= k.tcb[u].tsk_deadline
    PROVE  ByDeadline(l, q)
  <1> SUFFICES ASSUME NEW u \in Tasks, NEW v \in Tasks, Precedes(l, q, u, v)
               PROVE  l.tcb[u].tsk_deadline <= l.tcb[v].tsk_deadline
    BY DEF ByDeadline
  <1>1. \A x \in Tasks : l.tcb[x].tsk_deadline = k.tcb[x].tsk_deadline
                         /\ k.tcb[x].tsk_deadline \in Nat
    BY MemoryFields DEF Shifted, SameTask
  <1>2. CASE u # t /\ v # t
    <2>1. Precedes(k, q, u, v)
      BY <1>2 DEF Shifted
    <2>2. k.tcb[u].tsk_deadline <= k.tcb[v].tsk_deadline
      BY <2>1 DEF ByDeadline
    <2> QED
      BY <1>1, <2>2
  <1>3. CASE u = t /\ v = t
    BY <1>1, <1>3
  <1>4. CASE u = t /\ v # t
    BY <1>1, <1>4
  <1>5. CASE u # t /\ v = t
    BY <1>1, <1>5
  <1> QED
    BY <1>2, <1>3, <1>4, <1>5

\* A task that is taken off spoils nothing.
LEMMA SortedWithout ==
    ASSUME NEW k, Memory(k), NEW q \in Queues, ByDeadline(k, q),
           NEW t \in Tasks, NEW l, Shifted(l, k, q, t, TasksOf(k, q) \ {t})
    PROVE  ByDeadline(l, q)
  <1>1. Memory(l) /\ Linked(l, q) /\ t \notin TasksOf(l, q)
    BY DEF Shifted, Lists
  <1>2. \A u : ~Precedes(l, q, u, t) /\ ~Precedes(l, q, t, u)
    BY <1>1, PrecedesOn
  <1> QED
    BY <1>2, SortedKept

\* push_head of a task whose deadline is as early as any.
LEMMA PushHeadSorted ==
    ASSUME NEW k, Memory(k), Lists(k), NEW q \in Queues, NEW t \in Tasks,
           Loose(k, t), k.tcb[t].next = NULL, ByDeadline(k, q),
           \A u \in TasksOf(k, q) : k.tcb[t].tsk_deadline <= k.tcb[u].tsk_deadline
    PROVE  ByDeadline(PushHead(k, t, q), q)
  <1>1. PICK n, p : n = Len(Nodes(k, q)) /\ p = Nodes(k, q)
    OBVIOUS
  <1>2. Linked(k, q)
    BY DEF Lists
  <1>3. Along(k.tcb, k.queue[q], n, p)
    BY <1>1, <1>2 DEF Linked
  <1>4. TasksOf(k, q) = Range(p) /\ Path(n, p) /\ t \in Tasks \ Range(p)
    BY <1>1, <1>2, LinkedFacts DEF Loose
  <1>5. PICK l : l = PushHead(k, t, q)
    OBVIOUS
  <1>6. Memory(l) /\ Along(l.tcb, l.queue[q], n + 1, Before(t, n, p))
    BY <1>3, <1>4, <1>5, PushHeadAlong DEF Moved
  <1>7. Nodes(l, q) = Before(t, n, p) /\ Len(Before(t, n, p)) = n + 1
    BY <1>6, FindPath
  <1>8. Shifted(l, k, q, t, TasksOf(k, q) \cup {t})
    BY <1>5, PushHeadLists
  <1>9. \A u \in Tasks \ {t} : ~Precedes(l, q, u, t)
    BY <1>4, <1>7, AtTheEnds DEF Precedes
  <1>10. ASSUME NEW u \in Tasks \ {t}, Precedes(l, q, t, u)
         PROVE  k.tcb[t].tsk_deadline <= k.tcb[u].tsk_deadline
    <2>1. Memory(l) /\ Linked(l, q) /\ TasksOf(l, q) = TasksOf(k, q) \cup {t}
      BY <1>8 DEF Shifted, Lists
    <2>2. u \in TasksOf(k, q)
      BY <1>10, <2>1, PrecedesOn
    <2> QED
      BY <2>2
  <1>11. ByDeadline(l, q)
    BY <1>8, <1>9, <1>10, SortedKept
  <1> QED
    BY <1>5, <1>11

\* push_tail of a real-time task, which goes where its deadline belongs.
LEMMA PushTailSorted ==
    ASSUME NEW k, Memory(k), Lists(k), NEW q \in Queues, NEW t \in Tasks,
           Loose(k, t), k.tcb[t].real_time, k.tcb[t].prio = RT_INDEX,
           k.tcb[t].state = "SUSPENDED" \/ \A u \in TasksOf(k, q) : k.tcb[u].state = "READY"
    PROVE  /\ Shifted(PushTail(k, t, q), k, q, t, TasksOf(k, q) \cup {t})
           /\ PushTail(k, t, q).tcb[t].state \in {k.tcb[t].state, "READY"}
           /\ k.tcb[t].state = "SUSPENDED" => PushTail(k, t, q).tcb[t].state = "SUSPENDED"
           /\ ByDeadline(k, q) => ByDeadline(PushTail(k, t, q), q)
  <1>1. PICK n, p : n = Len(Nodes(k, q)) /\ p = Nodes(k, q)
    OBVIOUS
  <1>2. Linked(k, q)
    BY DEF Lists
  <1>3. Along(k.tcb, k.queue[q], n, p)
    BY <1>1, <1>2 DEF Linked
  <1>4. TasksOf(k, q) = Range(p) /\ Path(n, p) /\ t \in Tasks \ Range(p)
        /\ \A u : u \in TasksOf(k, q) <=> \E j \in 1 .. n : p[j] = u
    BY <1>1, <1>2, LinkedFacts DEF Loose
  <1>5. PICK l : l = PushTail(k, t, q)
    OBVIOUS
  <1>6. PICK d : d = k.tcb[t].tsk_deadline
    OBVIOUS
  <1>7. d \in Nat /\ \A u \in Tasks : k.tcb[u].tsk_deadline \in Nat
    BY <1>6, MemoryFields
  <1>8. \/ /\ FirstNotBefore(k, q, d) = NULL
           /\ \A i \in 1 .. n : k.tcb[p[i]].tsk_deadline < d
        \/ \E j \in 1 .. n :
              /\ FirstNotBefore(k, q, d) = p[j] /\ k.tcb[p[j]].tsk_deadline >= d
              /\ \A i \in 1 .. j - 1 : k.tcb[p[i]].tsk_deadline < d
    <2>1. d \in Nat
      BY <1>7
    <2>2. Found(k, q, n, p, d)
      BY <1>3, <2>1, FirstNotBeforeAlong
    <2> QED
      BY <2>2 DEF Found
  <1>9. n \in Nat /\ \A i \in 1 .. n : p[i] \in Tasks /\ p[i] \in Range(p)
    BY <1>4 DEF Path
  <1>10. CASE FirstNotBefore(k, q, d) = NULL /\ \A i \in 1 .. n : k.tcb[p[i]].tsk_deadline < d
    <2>1. /\ Moved(l, k, q, TasksOf(k, q), t, n + 1, Behind(n, p, t))
          /\ l.tcb[t].state =
               IF k.tcb[t].state \in {"BLK_SEND", "SUSPENDED"} THEN k.tcb[t].state ELSE "READY"
      <3>1. GoesLast(k, t, q)
        BY <1>6, <1>10 DEF GoesLast
      <3> QED
        BY <1>3, <1>4, <1>5, <3>1, PushTailAlong
    <2>2. Range(Behind(n, p, t)) = TasksOf(k, q) \cup {t}
      BY <1>4, NewPaths
    <2>3. \A u, v \in Tasks : u # t /\ v # t
             => (InOrder(n + 1, Behind(n, p, t), u, v) <=> Precedes(k, q, u, v))
      BY <1>1, <1>4, OrderKept DEF Precedes
    <2>4. /\ Shifted(l, k, q, t, TasksOf(k, q) \cup {t})
          /\ Nodes(l, q) = Behind(n, p, t) /\ Len(Behind(n, p, t)) = n + 1
      <3>1. \A r \in Queues : r # q => t \notin TasksOf(k, r)
        BY DEF Loose
      <3>2. Range(Behind(n, p, t)) \subseteq TasksOf(k, q) \cup {t}
        BY <2>2
      <3>3. /\ Shifted(l, k, q, t, Range(Behind(n, p, t)))
            /\ Nodes(l, q) = Behind(n, p, t) /\ Len(Behind(n, p, t)) = n + 1
        BY <2>1, <2>3, <3>1, <3>2, Lift
      <3> QED
        BY <2>2, <3>3
    <2>5. \A u \in Tasks \ {t} : ~Precedes(l, q, t, u)
      BY <1>4, <2>4, AtTheEnds DEF Precedes
    <2>6. ASSUME NEW u \in Tasks \ {t}, Precedes(l, q, u, t)
          PROVE  k.tcb[u].tsk_deadline <= k.tcb[t].tsk_deadline
      <3>1. Memory(l) /\ Linked(l, q) /\ TasksOf(l, q) = TasksOf(k, q) \cup {t}
        BY <2>4 DEF Shifted, Lists
      <3>2. u \in TasksOf(k, q)
        BY <2>6, <3>1, PrecedesOn
      <3>3. k.tcb[u].tsk_deadline < d
        BY <1>4, <1>10, <3>2
      <3> QED
        BY <1>6, <1>7, <3>3
    <2>7. ByDeadline(k, q) => ByDeadline(l, q)
      BY <2>4, <2>5, <2>6, SortedKept
    <2> QED
      BY <1>5, <2>1, <2>4, <2>7
  <1>11. ASSUME NEW j \in 1 .. n, FirstNotBefore(k, q, d) = p[j],
                k.tcb[p[j]].tsk_deadline >= d,
                \A i \in 1 .. j - 1 : k.tcb[p[i]].tsk_deadline < d
         PROVE  /\ Shifted(l, k, q, t, TasksOf(k, q) \cup {t})
                /\ l.tcb[t].state = k.tcb[t].state
                /\ ByDeadline(k, q) => ByDeadline(l, q)
    <2>1. /\ Moved(l, k, q, TasksOf(k, q), t, n + 1, Within(n, p, j, t))
          /\ l.tcb[t].state = k.tcb[t].state
      <3>1. n \in 1 .. n /\ p[n] \in TasksOf(k, q)
        BY <1>4, <1>9
      <3>2. k.tcb[t].state \in {"BLK_SEND", "SUSPENDED"} \/ k.tcb[p[n]].state = "READY"
        BY <3>1
      <3> QED
        BY <1>3, <1>4, <1>5, <1>6, <1>11, <3>2, InsertAlong
    <2>2. /\ Range(Within(n, p, j, t)) = TasksOf(k, q) \cup {t}
          /\ \A u, v \in Tasks : u # t /\ v # t
               => (InOrder(n + 1, Within(n, p, j, t), u, v) <=> InOrder(n, p, u, v))
          /\ \A u : InOrder(n + 1, Within(n, p, j, t), u, t) => \E i \in 1 .. j - 1 : p[i] = u
          /\ \A u : InOrder(n + 1, Within(n, p, j, t), t, u) => \E i \in j .. n : p[i] = u
      BY <1>4, WithinPath
    <2>3. \A u, v \in Tasks : u # t /\ v # t
             => (InOrder(n + 1, Within(n, p, j, t), u, v) <=> Precedes(k, q, u, v))
      BY <1>1, <2>2 DEF Precedes
    <2>4. /\ Shifted(l, k, q, t, TasksOf(k, q) \cup {t})
          /\ Nodes(l, q) = Within(n, p, j, t) /\ Len(Within(n, p, j, t)) = n + 1
      <3>1. \A r \in Queues : r # q => t \notin TasksOf(k, r)
        BY DEF Loose
      <3>2. Range(Within(n, p, j, t)) \subseteq TasksOf(k, q) \cup {t}
        BY <2>2
      <3>3. /\ Shifted(l, k, q, t, Range(Within(n, p, j, t)))
            /\ Nodes(l, q) = Within(n, p, j, t) /\ Len(Within(n, p, j, t)) = n + 1
        BY <2>1, <2>3, <3>1, <3>2, Lift
      <3> QED
        BY <2>2, <3>3
    <2>5. ASSUME NEW u \in Tasks \ {t}, Precedes(l, q, u, t)
          PROVE  k.tcb[u].tsk_deadline <= k.tcb[t].tsk_deadline
      <3>1. PICK i \in 1 .. j - 1 : p[i] = u
        BY <2>2, <2>4, <2>5 DEF Precedes
      <3>2. k.tcb[u].tsk_deadline < d
        BY <1>11, <3>1
      <3> QED
        BY <1>6, <1>7, <3>2
    <2>6. ASSUME ByDeadline(k, q), NEW u \in Tasks \ {t}, Precedes(l, q, t, u)
          PROVE  k.tcb[t].tsk_deadline <= k.tcb[u].tsk_deadline
      <3>1. PICK i \in j .. n : p[i] = u
        BY <2>2, <2>4, <2>6 DEF Precedes
      <3>2. i \in 1 .. n /\ j \in 1 .. n /\ (i = j \/ j < i)
        BY <1>9, <3>1
      <3>3. CASE i = j
        BY <1>6, <1>7, <1>11, <3>1, <3>3
      <3>4. CASE j < i
        <4>1. Precedes(k, q, p[j], u)
          BY <1>1, <3>1, <3>2, <3>4 DEF Precedes, InOrder
        <4>2. k.tcb[p[j]].tsk_deadline <= k.tcb[u].tsk_deadline
          BY <1>9, <2>6, <3>2, <4>1 DEF ByDeadline
        <4>3. p[j] \in Tasks
          BY <1>9
        <4> QED
          BY <1>6, <1>7, <1>11, <4>2, <4>3
      <3> QED
        BY <3>2, <3>3, <3>4
    <2>7. ByDeadline(k, q) => ByDeadline(l, q)
      BY <2>4, <2>5, <2>6, SortedKept
    <2> QED
      BY <2>1, <2>4, <2>7
  <1> QED
    <2>1. CASE \E j \in 1 .. n :
                 /\ FirstNotBefore(k, q, d) = p[j] /\ k.tcb[p[j]].tsk_deadline >= d
                 /\ \A i \in 1 .. j - 1 : k.tcb[p[i]].tsk_deadline < d
      <3>1. PICK j \in 1 .. n :
                 /\ FirstNotBefore(k, q, d) = p[j] /\ k.tcb[p[j]].tsk_deadline >= d
                 /\ \A i \in 1 .. j - 1 : k.tcb[p[i]].tsk_deadline < d
        BY <2>1
      <3>2. /\ Shifted(l, k, q, t, TasksOf(k, q) \cup {t})
            /\ l.tcb[t].state = k.tcb[t].state
            /\ ByDeadline(k, q) => ByDeadline(l, q)
        BY <1>11, <3>1
      <3> QED
        BY <1>5, <3>2
    <2> QED
      BY <1>8, <1>10, <2>1
=============================================================================

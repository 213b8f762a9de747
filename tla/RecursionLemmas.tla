--------------------------- MODULE RecursionLemmas ----------------------------
(***************************************************************************)
(* Induction over the natural numbers, functions defined by recursion on a *)
(* bounded range of them, and what FoldLeft of the community modules makes *)
(* of a sequence, stated with sets and functions instead of operators, so  *)
(* that any proof can cite them.                                           *)
(***************************************************************************)
EXTENDS Integers, SequencesExt, WellFoundedInduction, TLAPS

\* A set that holds zero and the successor of each of its numbers holds all.
LEMMA SetInduction ==
  ASSUME NEW S, 0 \in S, \A n \in Nat : n \in S => n + 1 \in S
  PROVE  Nat \subseteq S
<1> DEFINE Missing == Nat \ S
<1> SUFFICES ASSUME Missing # {} PROVE FALSE
  OBVIOUS
<1>1. PICK m \in Missing : \A n \in Missing : ~(<<n, m>> \in OpToRel(<, Nat))
  BY NatLessThanWellFounded, WFMin, Zenon
<1>2. \A n \in Missing : ~(n < m)
  BY <1>1 DEF OpToRel
<1>3. m \in Nat /\ m # 0 /\ m - 1 \in Nat
  OBVIOUS
<1>4. m - 1 \in S
  BY <1>2, <1>3
<1>5. (m - 1) + 1 \in S
  BY <1>3, <1>4
<1>6. (m - 1) + 1 = m
  BY <1>3
<1> QED
  BY <1>5, <1>6

\* f starts at base and continues with step up to N.
Recursive(f, N, base, step) ==
  f = [n \in 0 .. N |-> IF n = 0 THEN base ELSE step[<<n, f[n - 1]>>]]

\* There is such a function, and it stays where base and step are.
LEMMA RecursionExists ==
  ASSUME NEW N \in Nat, NEW V, NEW base \in V, NEW step \in [(1 .. N) \X V -> V]
  PROVE  \E f \in [0 .. N -> V] : Recursive(f, N, base, step)
<1> DEFINE S == {n \in Nat : n <= N => \E f \in [0 .. n -> V] : Recursive(f, n, base, step)}
<1>1. 0 \in S
  <2> DEFINE f == [n \in 0 .. 0 |-> base]
  <2>1. f \in [0 .. 0 -> V]
    OBVIOUS
  <2>2. Recursive(f, 0, base, step)
    BY DEF Recursive
  <2> QED
    BY <2>1, <2>2
<1>2. ASSUME NEW n \in Nat, n \in S PROVE n + 1 \in S
  <2> SUFFICES ASSUME n + 1 <= N
               PROVE  \E f \in [0 .. n + 1 -> V] : Recursive(f, n + 1, base, step)
    OBVIOUS
  <2>1. n <= N /\ n + 1 \in 1 .. N
    OBVIOUS
  <2>2. PICK f \in [0 .. n -> V] : Recursive(f, n, base, step)
    BY <1>2, <2>1
  <2>3. f[n] \in V /\ step[<<n + 1, f[n]>>] \in V
    BY <2>1
  <2> DEFINE g == [m \in 0 .. n + 1 |-> IF m = n + 1 THEN step[<<n + 1, f[n]>>] ELSE f[m]]
  <2>4. g \in [0 .. n + 1 -> V]
    BY <2>3
  <2>5. \A m \in 0 .. n + 1 : g[m] = IF m = 0 THEN base ELSE step[<<m, g[m - 1]>>]
    <3> TAKE m \in 0 .. n + 1
    <3>1. CASE m = n + 1
      <4>1. g[m] = step[<<n + 1, f[n]>>] /\ m # 0 /\ m - 1 = n
        BY <3>1
      <4>2. g[n] = f[n]
        OBVIOUS
      <4> HIDE DEF g
      <4> QED
        BY <3>1, <4>1, <4>2
    <3>2. CASE m # n + 1
      <4>1. m \in 0 .. n /\ g[m] = f[m]
        BY <3>2
      <4>2. m # 0 => m - 1 \in 0 .. n /\ g[m - 1] = f[m - 1]
        BY <3>2
      <4>3. f[m] = IF m = 0 THEN base ELSE step[<<m, f[m - 1]>>]
        BY <2>2, <4>1 DEF Recursive
      <4> HIDE DEF g
      <4> QED
        BY <4>1, <4>2, <4>3
    <3> QED
      BY <3>1, <3>2
  <2> HIDE DEF g
  <2>6. Recursive(g, n + 1, base, step)
    BY <2>4, <2>5 DEF Recursive
  <2> QED
    BY <2>4, <2>6
<1> HIDE DEF S
<1>3. N \in S
  BY <1>1, <1>2, SetInduction
<1> QED
  BY <1>3 DEF S

\* Two functions that start and continue alike agree as far as both go.
LEMMA RecursionAgrees ==
  ASSUME NEW N \in Nat, NEW M \in Nat, NEW base, NEW step, NEW f, NEW g,
         Recursive(f, N, base, step), Recursive(g, M, base, step)
  PROVE  \A n \in Nat : n <= N /\ n <= M => f[n] = g[n]
<1> DEFINE S == {n \in Nat : n <= N /\ n <= M => f[n] = g[n]}
<1>1. 0 \in S
  BY DEF Recursive
<1>2. ASSUME NEW n \in Nat, n \in S PROVE n + 1 \in S
  <2> SUFFICES ASSUME n + 1 <= N, n + 1 <= M PROVE f[n + 1] = g[n + 1]
    OBVIOUS
  <2>1. f[n] = g[n]
    BY <1>2
  <2>2. n + 1 \in 0 .. N /\ n + 1 \in 0 .. M /\ n + 1 # 0 /\ (n + 1) - 1 = n
    OBVIOUS
  <2>3. f[n + 1] = step[<<n + 1, f[n]>>]
    BY <2>2 DEF Recursive
  <2>4. g[n + 1] = step[<<n + 1, g[n]>>]
    BY <2>2 DEF Recursive
  <2> QED
    BY <2>1, <2>3, <2>4
<1> HIDE DEF S
<1>3. Nat \subseteq S
  BY <1>1, <1>2, SetInduction
<1> QED
  BY <1>3 DEF S

\* The same on all natural numbers.
RecursiveOnNat(f, base, step) ==
  f = [n \in Nat |-> IF n = 0 THEN base ELSE step[<<n, f[n - 1]>>]]

LEMMA RecursionOnNat ==
  ASSUME NEW V, NEW base \in V, NEW step \in [(Nat \ {0}) \X V -> V]
  PROVE  \E f \in [Nat -> V] : RecursiveOnNat(f, base, step)
<1> DEFINE Upto(n) == CHOOSE f \in [0 .. n -> V] : Recursive(f, n, base, step)
           f == [n \in Nat |-> Upto(n)[n]]
<1>1. \A n \in Nat : Upto(n) \in [0 .. n -> V] /\ Recursive(Upto(n), n, base, step)
  <2> SUFFICES ASSUME NEW n \in Nat
               PROVE  \E g \in [0 .. n -> V] : Recursive(g, n, base, step)
    OBVIOUS
  <2> DEFINE s == [x \in (1 .. n) \X V |-> step[x]]
  <2>1. s \in [(1 .. n) \X V -> V]
    OBVIOUS
  <2>2. PICK g \in [0 .. n -> V] : Recursive(g, n, base, s)
    BY <2>1, RecursionExists
  <2>3. ASSUME NEW m \in 0 .. n, m # 0 PROVE s[<<m, g[m - 1]>>] = step[<<m, g[m - 1]>>]
    <3>1. m \in 1 .. n /\ m - 1 \in 0 .. n
      BY <2>3
    <3> QED
      BY <3>1
  <2> HIDE DEF s
  <2>4. Recursive(g, n, base, step)
    BY <2>2, <2>3 DEF Recursive
  <2> QED
    BY <2>4
<1> HIDE DEF Upto
<1>2. f \in [Nat -> V]
  BY <1>1
<1>3. ASSUME NEW n \in Nat
      PROVE  f[n] = IF n = 0 THEN base ELSE step[<<n, f[n - 1]>>]
  <2>1. f[n] = Upto(n)[n] /\ n \in 0 .. n
    OBVIOUS
  <2>2. n # 0 => n - 1 \in Nat /\ f[n - 1] = Upto(n - 1)[n - 1]
    OBVIOUS
  <2>3. n # 0 => Upto(n - 1)[n - 1] = Upto(n)[n - 1]
    <3>1. ASSUME n # 0 PROVE Upto(n - 1)[n - 1] = Upto(n)[n - 1]
      <4>1. n - 1 \in Nat /\ n - 1 <= n /\ n - 1 <= n - 1
        BY <3>1
      <4>2. Recursive(Upto(n - 1), n - 1, base, step) /\ Recursive(Upto(n), n, base, step)
        BY <1>1, <4>1
      <4> QED
        BY <4>1, <4>2, RecursionAgrees
    <3> QED
      BY <3>1
  <2>4. Upto(n)[n] = IF n = 0 THEN base ELSE step[<<n, Upto(n)[n - 1]>>]
    BY <1>1, <2>1 DEF Recursive
  <2> HIDE DEF f
  <2> QED
    BY <2>1, <2>2, <2>3, <2>4
<1> HIDE DEF f
<1>4. f = [n \in Nat |-> IF n = 0 THEN base ELSE step[<<n, f[n - 1]>>]]
  BY <1>2, <1>3
<1> QED
  BY <1>2, <1>4 DEF RecursiveOnNat

-----------------------------------------------------------------------------
(* FoldLeft recurs on the set of positions it has still to visit, the last *)
(* of them first.                                                          *)

\* The last position of a set that holds n and nothing above it.
LEMMA LastIsMax ==
  ASSUME NEW n \in Nat, NEW s \in SUBSET (1 .. n), n \in s
  PROVE  Max(s) = n
<1>1. \A x \in s : x \in Nat /\ x <= n
  OBVIOUS
<1>2. Max(s) \in s /\ \A y \in s : Max(s) >= y
  BY <1>1 DEF Max
<1> DEFINE m == Max(s)
<1>3. m \in Nat /\ m <= n /\ m >= n
  BY <1>1, <1>2
<1> HIDE DEF m
<1>4. m = n
  BY <1>3
<1> QED
  BY <1>4 DEF m

\* f is the function inside FoldLeft, for N positions.
Folding(f, N, base, step) ==
  f = [s \in SUBSET (1 .. N) |->
         IF s = {} THEN base ELSE step[<<Max(s), f[s \ {Max(s)}]>>]]

\* There is such a function.
LEMMA FoldingExists ==
  ASSUME NEW N \in Nat, NEW V, NEW base \in V, NEW step \in [(1 .. N) \X V -> V]
  PROVE  \E f \in [SUBSET (1 .. N) -> V] : Folding(f, N, base, step)
<1> DEFINE S == {n \in Nat : n <= N =>
                   \E f \in [SUBSET (1 .. n) -> V] : Folding(f, n, base, step)}
<1>1. 0 \in S
  <2> DEFINE f == [s \in SUBSET (1 .. 0) |-> base]
  <2>1. f \in [SUBSET (1 .. 0) -> V]
    OBVIOUS
  <2>2. \A s \in SUBSET (1 .. 0) : s = {} /\ f[s] = base
    OBVIOUS
  <2>3. Folding(f, 0, base, step)
    BY <2>2 DEF Folding
  <2> HIDE DEF f
  <2> QED
    BY <2>1, <2>3
<1>2. ASSUME NEW n \in Nat, n \in S PROVE n + 1 \in S
  <2>0. n + 1 \in Nat
    OBVIOUS
  <2> SUFFICES ASSUME n + 1 <= N
               PROVE  \E f \in [SUBSET (1 .. n + 1) -> V] : Folding(f, n + 1, base, step)
    BY <2>0, Zenon
  <2>1. n <= N /\ n + 1 \in 1 .. N
    BY <2>0
  <2>2. PICK f \in [SUBSET (1 .. n) -> V] : Folding(f, n, base, step)
    BY <1>2, <2>1
  <2> DEFINE rest(s) == s \ {n + 1}
             g == [s \in SUBSET (1 .. n + 1) |->
                     IF n + 1 \in s THEN step[<<n + 1, f[rest(s)]>>] ELSE f[s]]
  <2>3. ASSUME NEW s \in SUBSET (1 .. n + 1)
        PROVE  /\ rest(s) \in SUBSET (1 .. n)
               /\ n + 1 \notin s => s \in SUBSET (1 .. n)
    <3>1. \A x \in 1 .. n + 1 : x # n + 1 => x \in 1 .. n
      OBVIOUS
    <3> QED
      BY <3>1
  <2>4. g \in [SUBSET (1 .. n + 1) -> V]
    BY <2>1, <2>3
  <2>5. \A s \in SUBSET (1 .. n) : g[s] = f[s]
    OBVIOUS
  <2>6. ASSUME NEW s \in SUBSET (1 .. n + 1)
        PROVE  g[s] = IF s = {} THEN base ELSE step[<<Max(s), g[s \ {Max(s)}]>>]
    <3>1. CASE n + 1 \in s
      <4>1. Max(s) = n + 1
        BY <2>0, <3>1, LastIsMax
      <4>2. g[s] = step[<<n + 1, f[rest(s)]>>] /\ s # {}
        BY <3>1
      <4>3. g[rest(s)] = f[rest(s)]
        BY <2>3, <2>5
      <4> HIDE DEF g
      <4> QED
        BY <4>1, <4>2, <4>3
    <3>2. CASE n + 1 \notin s
      <4>1. s \in SUBSET (1 .. n) /\ s \ {Max(s)} \in SUBSET (1 .. n)
        BY <2>3, <3>2
      <4>2. g[s] = f[s] /\ g[s \ {Max(s)}] = f[s \ {Max(s)}]
        BY <2>5, <4>1
      <4>3. f[s] = IF s = {} THEN base ELSE step[<<Max(s), f[s \ {Max(s)}]>>]
        BY <2>2, <4>1 DEF Folding
      <4> HIDE DEF g
      <4> QED
        BY <4>2, <4>3
    <3> QED
      BY <3>1, <3>2
  <2> HIDE DEF g
  <2>7. Folding(g, n + 1, base, step)
    BY <2>4, <2>6 DEF Folding
  <2> QED
    BY <2>4, <2>7
<1> HIDE DEF S
<1>3. N \in S /\ N <= N
  BY <1>1, <1>2, SetInduction
<1> QED
  BY <1>3, Zenon DEF S

\* Every set of positions but the empty one has a last position.
LEMMA MaxIsMember ==
  ASSUME NEW N \in Nat, NEW s \in SUBSET (1 .. N), s # {}
  PROVE  Max(s) \in s
<1> DEFINE HasMax(t) == \E m \in t : \A x \in t : m >= x
           S == {n \in Nat : \A t \in SUBSET (1 .. n) : t # {} => HasMax(t)}
<1>1. 0 \in S
  <2>1. \A t \in SUBSET (1 .. 0) : t = {}
    OBVIOUS
  <2> HIDE DEF HasMax
  <2> QED
    BY <2>1
<1>2. ASSUME NEW n \in Nat, n \in S PROVE n + 1 \in S
  <2>1. ASSUME NEW t \in SUBSET (1 .. n + 1), t # {} PROVE HasMax(t)
    <3>1. CASE n + 1 \in t
      <4>1. \A x \in t : n + 1 >= x
        OBVIOUS
      <4> QED
        BY <3>1, <4>1
    <3>2. CASE n + 1 \notin t
      <4>1. \A x \in 1 .. n + 1 : x # n + 1 => x \in 1 .. n
        OBVIOUS
      <4>2. t \in SUBSET (1 .. n)
        BY <3>2, <4>1
      <4> QED
        BY <1>2, <2>1, <4>2
    <3> QED
      BY <3>1, <3>2
  <2>2. n + 1 \in Nat
    OBVIOUS
  <2> HIDE DEF HasMax
  <2> QED
    BY <2>1, <2>2
<1> HIDE DEF S
<1>3. N \in S
  BY <1>1, <1>2, SetInduction
<1>4. HasMax(s)
  BY <1>3 DEF S
<1> QED
  BY <1>4 DEF Max

\* The positions up to n, the last of them taken away.
LEMMA Positions ==
  ASSUME NEW N \in Nat
  PROVE  /\ 1 .. 0 = {} /\ 1 .. 0 \in SUBSET (1 .. N)
         /\ \A n \in 1 .. N :
               /\ 1 .. n \in SUBSET (1 .. N) /\ 1 .. n # {}
               /\ Max(1 .. n) = n /\ (1 .. n) \ {n} = 1 .. n - 1
<1>1. ASSUME NEW n \in 1 .. N PROVE Max(1 .. n) = n
  <2>1. n \in Nat /\ n \in 1 .. n /\ 1 .. n \in SUBSET (1 .. n)
    OBVIOUS
  <2> QED
    BY <2>1, LastIsMax
<1>2. 1 .. 0 = {} /\ 1 .. 0 \in SUBSET (1 .. N)
  OBVIOUS
<1>3. ASSUME NEW n \in 1 .. N
      PROVE  1 .. n \in SUBSET (1 .. N) /\ 1 .. n # {} /\ (1 .. n) \ {n} = 1 .. n - 1
  <2>1. \A i : i \in (1 .. n) \ {n} <=> i \in 1 .. n - 1
    OBVIOUS
  <2> QED
    BY <2>1
<1> QED
  BY <1>1, <1>2, <1>3
===============================================================================

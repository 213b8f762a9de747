------------------------------ MODULE ChainProofs ------------------------------
(***************************************************************************)
(* What the operators of RequestChain do to any chain: the pass that hands *)
(* out the waiting extras leaves nothing for a second one, and gives each  *)
(* to its own hop, as long as they wait in the order of the hops.          *)
(***************************************************************************)
EXTENDS RequestChain, RecursionLemmas, FiniteSetTheorems

-----------------------------------------------------------------------------
(* Ranks.                                                                  *)

LEMMA RankType ==
  ASSUME NEW S, IsFiniteSet(S), NEW i
  PROVE  Rank(S, i) \in Nat /\ Rank(S, i) <= Cardinality(S)
<1>1. {j \in S : j <= i} \in SUBSET S
  OBVIOUS
<1> QED
  BY <1>1, FS_Subset, FS_CardinalityType DEF Rank

\* Ranks grow with the elements.
LEMMA RankGrows ==
  ASSUME NEW S \in SUBSET Nat, IsFiniteSet(S), NEW i \in Nat, NEW j \in S, i < j
  PROVE  Rank(S, i) < Rank(S, j)
<1> DEFINE A == {x \in S : x <= i}
           B == {x \in S : x <= j}
<1>0. \A x \in S : x <= i => x <= j
  OBVIOUS
<1>1. A \in SUBSET B /\ j \in B /\ j \notin A /\ B \in SUBSET S
  <2>1. j <= j /\ ~(j <= i)
    OBVIOUS
  <2> QED
    BY <1>0, <2>1
<1>2. IsFiniteSet(B) /\ Cardinality(B) \in Nat
  BY <1>1, FS_Subset, FS_CardinalityType
<1>3. IsFiniteSet(A) /\ Cardinality(A) \in Nat
      /\ Cardinality(A) <= Cardinality(B) /\ Cardinality(A) # Cardinality(B)
  <2> HIDE DEF A, B
  <2> QED
    BY <1>1, <1>2, FS_Subset, FS_CardinalityType
<1> QED
  BY <1>2, <1>3 DEF Rank

LEMMA RankIsOwn ==
  ASSUME NEW S \in SUBSET Nat, IsFiniteSet(S), NEW i \in S, NEW j \in S,
         Rank(S, i) = Rank(S, j)
  PROVE  i = j
<1>1. i < j \/ j < i \/ i = j
  OBVIOUS
<1>2. Rank(S, i) \in Nat /\ Rank(S, j) \in Nat
  BY RankType
<1>3. ~(i < j) /\ ~(j < i)
  BY <1>2, RankGrows
<1> QED
  BY <1>1, <1>3

\* A nonempty set of natural numbers has a least element.
LEMMA LeastExists ==
  ASSUME NEW S \in SUBSET Nat, S # {}
  PROVE  \E x \in S : \A y \in S : x <= y
<1>1. PICK n \in S : TRUE
  OBVIOUS
<1> DEFINE G == {m \in Nat : \A y \in S : m <= y}
<1>2. SUFFICES ASSUME \A x \in S : \E y \in S : ~(x <= y) PROVE FALSE
  OBVIOUS
<1>3. 0 \in G
  OBVIOUS
<1>4. ASSUME NEW m \in Nat, m \in G PROVE m + 1 \in G
  <2>1. m \notin S
    BY <1>2, <1>4
  <2>2. \A y \in S : m <= y /\ m # y
    BY <1>4, <2>1
  <2>3. m + 1 \in Nat /\ \A y \in S : m + 1 <= y
    BY <2>2
  <2> QED
    BY <2>3
<1> HIDE DEF G
<1>5. Nat \subseteq G
  BY <1>3, <1>4, SetInduction
<1>6. n \in Nat /\ n + 1 \in G
  <2>1. n \in Nat /\ n + 1 \in Nat
    OBVIOUS
  <2> QED
    BY <1>5, <2>1
<1>7. n + 1 <= n
  BY <1>1, <1>6 DEF G
<1> QED
  BY <1>6, <1>7

\* Of a finite set of numbers, m elements have a rank up to m.
LEMMA RanksAreAll ==
  ASSUME NEW S \in SUBSET Nat, IsFiniteSet(S), NEW m \in Nat, m <= Cardinality(S)
  PROVE  Cardinality({i \in S : Rank(S, i) <= m}) = m
<1> DEFINE n == Cardinality(S)
           T(k) == {i \in S : Rank(S, i) <= k}
           G == {k \in Nat : k <= n => Cardinality(T(k)) = k}
<1>1. n \in Nat /\ \A i \in S : Rank(S, i) \in Nat
  BY RankType, FS_CardinalityType
<1>2. \A k : T(k) \in SUBSET S /\ IsFiniteSet(T(k))
  <2>1. \A k : T(k) \in SUBSET S
    OBVIOUS
  <2> QED
    BY <2>1, FS_Subset
<1>3. 0 \in G
  <2>1. ASSUME NEW i \in S, Rank(S, i) <= 0 PROVE FALSE
    <3>1. i \in {j \in S : j <= i} /\ {j \in S : j <= i} \in SUBSET S
      OBVIOUS
    <3>2. Rank(S, i) = 0
      BY <1>1, <2>1
    <3>3. {j \in S : j <= i} = {}
      BY <3>1, <3>2, FS_Subset, FS_EmptySet DEF Rank
    <3> QED
      BY <3>1, <3>3
  <2>2. T(0) = {}
    BY <2>1
  <2> QED
    BY <2>2, FS_EmptySet
<1>4. ASSUME NEW k \in Nat, k \in G PROVE k + 1 \in G
  <2>1. k + 1 \in Nat
    OBVIOUS
  <2>2. ASSUME k + 1 <= n PROVE Cardinality(T(k + 1)) = k + 1
    <3>1. Cardinality(T(k)) = k /\ k < n
      BY <1>1, <1>4, <2>2
    <3>2. S \ T(k) # {} /\ S \ T(k) \in SUBSET Nat
      <4>1. T(k) # S
        BY <3>1
      <4> QED
        BY <1>2, <4>1
    <3>3. PICK x \in S \ T(k) : \A y \in S \ T(k) : x <= y
      BY <3>2, LeastExists
    <3>4. \A t \in T(k) : t < x
      <4>1. ASSUME NEW t \in T(k), ~(t < x) PROVE FALSE
        <5>1. x < t
          BY <3>3, <4>1
        <5>2. Rank(S, x) < Rank(S, t)
          BY <3>3, <5>1, RankGrows
        <5> QED
          BY <1>1, <3>3, <4>1, <5>2
      <4> QED
        BY <4>1
    <3>5. {j \in S : j <= x} = T(k) \cup {x}
      <4>1. ASSUME NEW j \in S, j <= x, j \notin T(k) PROVE j = x
        <5>1. x <= j
          BY <3>3, <4>1
        <5> QED
          BY <3>3, <4>1, <5>1
      <4>2. x \in S /\ x <= x /\ \A t \in T(k) : t \in S /\ t <= x
        BY <3>3, <3>4
      <4> HIDE DEF T
      <4> QED
        BY <4>1, <4>2
    <3>6. Cardinality(T(k) \cup {x}) = k + 1
      BY <1>2, <3>1, <3>3, FS_AddElement
    <3>7. Rank(S, x) = k + 1
      BY <3>5, <3>6 DEF Rank
    <3>8. T(k + 1) = T(k) \cup {x}
      <4>1. ASSUME NEW j \in S, Rank(S, j) <= k + 1, j \notin T(k) PROVE j = x
        <5>1. Rank(S, j) = k + 1
          BY <1>1, <4>1
        <5> QED
          BY <3>3, <3>7, <5>1, RankIsOwn
      <4>2. \A j \in T(k) : j \in S /\ Rank(S, j) <= k + 1
        BY <1>1
      <4>3. x \in S /\ Rank(S, x) <= k + 1
        BY <3>3, <3>7
      <4>4. \A j : j \in T(k + 1) <=> j \in S /\ Rank(S, j) <= k + 1
        OBVIOUS
      <4> HIDE DEF T
      <4> QED
        BY <4>1, <4>2, <4>3, <4>4
    <3> QED
      BY <3>6, <3>8
  <2> QED
    BY <2>1, <2>2
<1> HIDE DEF G
<1>5. Nat \subseteq G
  BY <1>3, <1>4, SetInduction
<1> QED
  BY <1>1, <1>5 DEF G

-----------------------------------------------------------------------------
(* Chains.                                                                 *)

Extras == [hop : Nat \ {0}, noBody : BOOLEAN]

EntryShape ==
  [hop : Nat, extra : [ExtraKinds -> Extras \cup {NoExtra}],
   known : BOOLEAN, expected : BOOLEAN, response : BOOLEAN, noBody : BOOLEAN,
   finished : BOOLEAN, failed : BOOLEAN, cached : BOOLEAN,
   scheduled : BOOLEAN, asks : Nat, bodyError : BOOLEAN, incomplete : BOOLEAN]

Chain == [entries : Seq(EntryShape), pending : [ExtraKinds -> Seq(Extras)]]

\* The entries that a pass over c gives an extra of kind k.
Served(c, k) == {i \in Needy(c, k) : Rank(Needy(c, k), i) <= Len(c.pending[k])}

\* The extra of kind k that entry i has after a pass.
Handed(c, i, k) ==
  IF i \in Served(c, k) THEN c.pending[k][Rank(Needy(c, k), i)]
  ELSE c.entries[i].extra[k]

LEMMA NoExtraIsNone == NoExtra \notin Extras
  BY DEF NoExtra, Extra, Extras

LEMMA NeedyType ==
  ASSUME NEW c \in Chain, NEW k \in ExtraKinds
  PROVE  /\ Needy(c, k) \in SUBSET (DOMAIN c.entries) /\ DOMAIN c.entries = 1 .. LastHop(c)
         /\ LastHop(c) \in Nat /\ Needy(c, k) \in SUBSET Nat /\ IsFiniteSet(Needy(c, k))
         /\ Served(c, k) \in SUBSET (DOMAIN c.entries) /\ IsFiniteSet(Served(c, k))
<1>1. /\ DOMAIN c.entries = 1 .. LastHop(c) /\ LastHop(c) \in Nat
  BY DEF Chain, LastHop
<1>2. Needy(c, k) \in SUBSET (DOMAIN c.entries)
  BY DEF Needy, Settled
<1>3. IsFiniteSet(1 .. LastHop(c))
  BY <1>1, FS_Interval
<1>4. Served(c, k) \in SUBSET Needy(c, k)
  BY DEF Served
<1> QED
  BY <1>1, <1>2, <1>3, <1>4, FS_Subset

\* A pass hands out as many extras as there are, or as are needed.
LEMMA HandedOut ==
  ASSUME NEW c \in Chain, NEW k \in ExtraKinds
  PROVE  LET n == Cardinality(Served(c, k)) IN
         /\ n \in Nat /\ n <= Len(c.pending[k])
         /\ n = Len(c.pending[k]) \/ Served(c, k) = Needy(c, k)
         /\ \A i \in Served(c, k) :
               Rank(Needy(c, k), i) \in 1 .. Len(c.pending[k])
<1> DEFINE N == Needy(c, k)
           m == Len(c.pending[k])
<1>1. N \in SUBSET Nat /\ IsFiniteSet(N) /\ Cardinality(N) \in Nat /\ m \in Nat
  BY NeedyType, FS_CardinalityType DEF Chain
<1> DEFINE S == {i \in N : Rank(N, i) <= m}
<1>2. Served(c, k) = S /\ S \in SUBSET N /\ IsFiniteSet(S) /\ Cardinality(S) \in Nat
      /\ Cardinality(S) <= Cardinality(N)
  <2>1. Served(c, k) = S /\ S \in SUBSET N
    BY DEF Served
  <2> HIDE DEF S, N
  <2> QED
    BY <1>1, <2>1, FS_Subset, FS_CardinalityType
<1> HIDE DEF N, m
<1>3. \A i \in N : Rank(N, i) \in Nat /\ Rank(N, i) <= Cardinality(N) /\ Rank(N, i) # 0
  <2>1. ASSUME NEW i \in N PROVE Rank(N, i) # 0
    <3>1. i \in {j \in N : j <= i} /\ {j \in N : j <= i} \in SUBSET N
      BY <1>1
    <3> QED
      BY <1>1, <3>1, FS_Subset, FS_EmptySet DEF Rank
  <2> QED
    BY <1>1, <2>1, RankType
<1>4. m <= Cardinality(N) => Cardinality(S) = m
  BY <1>1, RanksAreAll
<1>5. Cardinality(N) <= m => S = N
  <2>1. \A i \in N : Cardinality(N) <= m => Rank(N, i) <= m
    BY <1>1, <1>3
  <2> QED
    BY <2>1
<1>6. Cardinality(S) = m \/ S = N
  BY <1>1, <1>4, <1>5
<1>7. Cardinality(S) <= m
  BY <1>1, <1>2, <1>4, <1>5
<1>8. \A i \in S : Rank(N, i) \in 1 .. m
  BY <1>1, <1>3
<1> HIDE DEF S
<1> QED
  BY <1>2, <1>6, <1>7, <1>8 DEF m, N

LEMMA EntryOf ==
  ASSUME NEW c \in Chain, NEW i \in DOMAIN c.entries
  PROVE  /\ c.entries[i] \in EntryShape
         /\ \A k \in ExtraKinds : c.entries[i].extra[k] \in Extras \cup {NoExtra}
<1>1. c.entries[i] \in EntryShape
  BY DEF Chain
<1> QED
  BY <1>1 DEF EntryShape

LEMMA Reconciliation ==
  ASSUME NEW c \in Chain
  PROVE  /\ Reconcile(c) \in Chain
         /\ DOMAIN Reconcile(c).entries = DOMAIN c.entries
         /\ LastHop(Reconcile(c)) = LastHop(c)
         /\ \A i \in DOMAIN c.entries :
               /\ Reconcile(c).entries[i]
                     = [c.entries[i] EXCEPT !.extra = [k \in ExtraKinds |-> Handed(c, i, k)]]
               /\ [k \in ExtraKinds |-> Handed(c, i, k)] \in [ExtraKinds -> Extras \cup {NoExtra}]
         /\ \A k \in ExtraKinds :
               Reconcile(c).pending[k] =
                 SubSeq(c.pending[k], Cardinality(Served(c, k)) + 1, Len(c.pending[k]))
<1> DEFINE E(i) == [c.entries[i] EXCEPT !.extra = [k \in ExtraKinds |-> Handed(c, i, k)]]
           P(k) == SubSeq(c.pending[k], Cardinality(Served(c, k)) + 1, Len(c.pending[k]))
<1>1. Reconcile(c) = [entries |-> [i \in DOMAIN c.entries |-> E(i)],
                      pending |-> [k \in ExtraKinds |-> P(k)]]
  BY DEF Reconcile, Handed, Served
<1>2. \A k \in ExtraKinds : c.pending[k] \in Seq(Extras)
  BY DEF Chain
<1>3. ASSUME NEW i \in DOMAIN c.entries, NEW k \in ExtraKinds
      PROVE  Handed(c, i, k) \in Extras \cup {NoExtra}
  <2>1. c.entries[i].extra[k] \in Extras \cup {NoExtra}
    BY EntryOf
  <2> QED
    BY <1>2, <2>1, HandedOut DEF Handed
<1>4. ASSUME NEW i \in DOMAIN c.entries PROVE E(i) \in EntryShape
  <2> DEFINE x == [k \in ExtraKinds |-> Handed(c, i, k)]
  <2>1. x \in [ExtraKinds -> Extras \cup {NoExtra}] /\ c.entries[i] \in EntryShape
    BY <1>3 DEF Chain
  <2> HIDE DEF x
  <2>2. [c.entries[i] EXCEPT !.extra = x] \in EntryShape
    BY <2>1 DEF EntryShape
  <2> QED
    BY <2>2 DEF x
<1>5. \A k \in ExtraKinds : P(k) \in Seq(Extras)
  BY <1>2, HandedOut
<1>6. DOMAIN c.entries = 1 .. LastHop(c) /\ LastHop(c) \in Nat
  BY DEF Chain, LastHop
<1> HIDE DEF E, P
<1>7. [i \in DOMAIN c.entries |-> E(i)] \in Seq(EntryShape)
  BY <1>4, <1>6
<1>8. Reconcile(c) \in Chain
  BY <1>1, <1>5, <1>7 DEF Chain
<1>9. LastHop(Reconcile(c)) = LastHop(c)
  BY <1>1, <1>6, <1>7 DEF LastHop
<1>10. \A k \in ExtraKinds : Reconcile(c).pending[k] = P(k)
  BY <1>1
<1>11. \A i \in DOMAIN c.entries : Reconcile(c).entries[i] = E(i)
  BY <1>1
<1>12. DOMAIN Reconcile(c).entries = DOMAIN c.entries
  BY <1>1
<1>13. \A i \in DOMAIN c.entries :
         [k \in ExtraKinds |-> Handed(c, i, k)] \in [ExtraKinds -> Extras \cup {NoExtra}]
  BY <1>3
<1> QED
  BY <1>8, <1>9, <1>10, <1>11, <1>12, <1>13 DEF E, P

-----------------------------------------------------------------------------
(* A second pass.                                                          *)

\* Whatever still waits has nobody to go to.
Stable(c) == \A k \in ExtraKinds : Needy(c, k) = {} \/ c.pending[k] = <<>>

Assigned(c, k) == {i \in DOMAIN c.entries : c.entries[i].extra[k] # NoExtra}

\* The pass gives what it says and touches nothing else.
LEMMA AfterPass ==
  ASSUME NEW c \in Chain
  PROVE  /\ \A i \in DOMAIN c.entries : \A f \in DOMAIN c.entries[i] \ {"extra"} :
               Reconcile(c).entries[i][f] = c.entries[i][f]
         /\ \A i \in DOMAIN c.entries : \A k \in ExtraKinds :
               Reconcile(c).entries[i].extra[k] = Handed(c, i, k)
         /\ \A k \in ExtraKinds :
               /\ Assigned(Reconcile(c), k) = Assigned(c, k) \cup Served(c, k)
               /\ Assigned(c, k) \cap Served(c, k) = {}
               /\ Needy(Reconcile(c), k) = Needy(c, k) \ Served(c, k)
<1> DEFINE d == Reconcile(c)
           x(i) == [k \in ExtraKinds |-> Handed(c, i, k)]
<1>1. /\ d \in Chain /\ DOMAIN d.entries = DOMAIN c.entries
      /\ \A i \in DOMAIN c.entries :
            d.entries[i] = [c.entries[i] EXCEPT !.extra = x(i)]
  BY Reconciliation
<1>2. \A i \in DOMAIN c.entries :
         c.entries[i] \in EntryShape /\ d.entries[i] \in EntryShape
  BY <1>1, EntryOf
<1> HIDE DEF d
<1>3. \A i \in DOMAIN c.entries :
         /\ d.entries[i].extra = x(i)
         /\ \A f \in DOMAIN c.entries[i] \ {"extra"} : d.entries[i][f] = c.entries[i][f]
         /\ d.entries[i].known = c.entries[i].known
         /\ d.entries[i].expected = c.entries[i].expected
  <2> HIDE DEF x
  <2> QED
    BY <1>1, <1>2 DEF EntryShape
<1>4. \A i \in DOMAIN c.entries : \A k \in ExtraKinds :
         d.entries[i].extra[k] = Handed(c, i, k)
  BY <1>3
<1>5. Settled(d) = Settled(c)
  <2>1. ASSUME NEW i \in DOMAIN c.entries
        PROVE  (\A j \in 1 .. i : d.entries[j].known) <=> (\A j \in 1 .. i : c.entries[j].known)
    <3>1. \A j \in 1 .. i : j \in DOMAIN c.entries
      BY DEF Chain
    <3> QED
      BY <1>3, <3>1
  <2> QED
    BY <1>1, <2>1 DEF Settled
<1>6. ASSUME NEW k \in ExtraKinds
      PROVE  /\ Assigned(d, k) = Assigned(c, k) \cup Served(c, k)
             /\ Assigned(c, k) \cap Served(c, k) = {}
             /\ Needy(d, k) = Needy(c, k) \ Served(c, k)
  <2>1. \A i \in Served(c, k) : /\ i \in Needy(c, k) /\ i \in DOMAIN c.entries
                                /\ c.entries[i].extra[k] = NoExtra
    BY DEF Served, Needy, Settled
  <2>2. \A i \in Served(c, k) : Handed(c, i, k) # NoExtra
    <3>1. ASSUME NEW i \in Served(c, k) PROVE Handed(c, i, k) \in Extras
      <4>1. c.pending[k] \in Seq(Extras) /\ Rank(Needy(c, k), i) \in 1 .. Len(c.pending[k])
        BY HandedOut DEF Chain
      <4> QED
        BY <4>1 DEF Handed
    <3> QED
      BY <3>1, NoExtraIsNone
  <2>3. \A i \in DOMAIN c.entries \ Served(c, k) : Handed(c, i, k) = c.entries[i].extra[k]
    BY DEF Handed
  <2>4. Assigned(d, k) = Assigned(c, k) \cup Served(c, k)
    BY <1>1, <1>4, <2>1, <2>2, <2>3 DEF Assigned
  <2>5. Assigned(c, k) \cap Served(c, k) = {}
    BY <2>1 DEF Assigned
  <2>6. Settled(c) \in SUBSET (DOMAIN c.entries)
    BY DEF Settled
  <2>7. Needy(d, k) = Needy(c, k) \ Served(c, k)
    <3>1. \A i \in Settled(c) : /\ i \in DOMAIN c.entries
                                /\ d.entries[i].expected = c.entries[i].expected
                                /\ d.entries[i].extra[k] = Handed(c, i, k)
      BY <1>3, <1>4, <2>6
    <3>2. \A i : i \in Needy(d, k) <=> /\ i \in Settled(c)
                                     /\ c.entries[i].expected /\ Handed(c, i, k) = NoExtra
      BY <1>5, <3>1 DEF Needy
    <3>3. \A i : i \in Needy(c, k) <=> /\ i \in Settled(c)
                                     /\ c.entries[i].expected
                                     /\ c.entries[i].extra[k] = NoExtra
      BY DEF Needy
    <3> QED
      BY <2>2, <2>3, <3>1, <3>2, <3>3
  <2> QED
    BY <2>4, <2>5, <2>7
<1> QED
  BY <1>3, <1>4, <1>6 DEF d

\* After a pass, nothing waits that somebody could have.
LEMMA PassLeavesNothing ==
  ASSUME NEW c \in Chain
  PROVE  Stable(Reconcile(c))
<1> SUFFICES ASSUME NEW k \in ExtraKinds
             PROVE  Needy(Reconcile(c), k) = {} \/ Reconcile(c).pending[k] = <<>>
  BY DEF Stable
<1> DEFINE n == Cardinality(Served(c, k))
<1>1. n = Len(c.pending[k]) \/ Served(c, k) = Needy(c, k)
  BY HandedOut
<1>2. Reconcile(c).pending[k] = SubSeq(c.pending[k], n + 1, Len(c.pending[k]))
      /\ c.pending[k] \in Seq(Extras)
  BY Reconciliation DEF Chain
<1>3. CASE n = Len(c.pending[k])
  <2>1. Reconcile(c).pending[k] = <<>>
    <3> HIDE DEF n
    <3> QED
      BY <1>2, <1>3
  <2> QED
    BY <2>1
<1>4. CASE Served(c, k) = Needy(c, k)
  BY <1>4, AfterPass
<1> QED
  BY <1>1, <1>3, <1>4

\* A pass over a stable chain changes nothing.
LEMMA StableStays ==
  ASSUME NEW c \in Chain, Stable(c)
  PROVE  Reconcile(c) = c
<1> DEFINE d == Reconcile(c)
<1>1. ASSUME NEW k \in ExtraKinds PROVE Served(c, k) = {} /\ d.pending[k] = c.pending[k]
  <2>1. \A i \in Served(c, k) : i \in Needy(c, k) /\ Rank(Needy(c, k), i) \in 1 .. Len(c.pending[k])
    BY HandedOut DEF Served
  <2>2. c.pending[k] = <<>> => 1 .. Len(c.pending[k]) = {}
    OBVIOUS
  <2>3. Served(c, k) = {}
    BY <2>1, <2>2 DEF Stable
  <2>4. c.pending[k] \in Seq(Extras)
    BY DEF Chain
  <2>5. d.pending[k] = SubSeq(c.pending[k], Cardinality(Served(c, k)) + 1, Len(c.pending[k]))
    BY Reconciliation
  <2>6. Cardinality(Served(c, k)) = 0
    BY <2>3, FS_EmptySet
  <2> HIDE DEF d
  <2>7. d.pending[k] = SubSeq(c.pending[k], 1, Len(c.pending[k]))
    BY <2>5, <2>6
  <2> QED
    BY <2>3, <2>4, <2>7
<1>2. ASSUME NEW i \in DOMAIN c.entries PROVE d.entries[i] = c.entries[i]
  <2>1. c.entries[i] \in EntryShape
    BY EntryOf
  <2>2. c.entries[i].extra \in [ExtraKinds -> Extras \cup {NoExtra}]
    BY <2>1 DEF EntryShape
  <2> DEFINE x == [k \in ExtraKinds |-> Handed(c, i, k)]
  <2>3. x = c.entries[i].extra
    BY <1>1, <2>2 DEF Handed
  <2>4. d.entries[i] = [c.entries[i] EXCEPT !.extra = x]
    BY Reconciliation
  <2> HIDE DEF d, x
  <2> QED
    BY <2>1, <2>3, <2>4 DEF EntryShape
<1>3. d \in Chain /\ DOMAIN d.entries = DOMAIN c.entries
  BY Reconciliation
<1> HIDE DEF d
<1>4. d.entries = c.entries
  BY <1>2, <1>3 DEF Chain
<1>5. d.pending = c.pending
  BY <1>1, <1>3 DEF Chain
<1>6. d = c
  BY <1>3, <1>4, <1>5 DEF Chain
<1> QED
  BY <1>6 DEF d

-----------------------------------------------------------------------------
(* To its own hop.                                                         *)

\* The extras of kind k that c has handed out, the ones waiting in it and the
\* ones in tail are those of the first hops of H, in this order.
Paired(c, k, H, tail) ==
  LET waiting == c.pending[k] \o tail IN
  /\ \A i \in Assigned(c, k) : i \in H /\ c.entries[i].extra[k].hop = i
  /\ \A i \in Assigned(c, k), h \in H : h < i => h \in Assigned(c, k)
  /\ \A n \in DOMAIN waiting :
        /\ waiting[n].hop \in H
        /\ Rank(H, waiting[n].hop) = Cardinality(Assigned(c, k)) + n

\* Whoever needs an extra of kind k is a hop of H, or comes after them all;
\* the hops of H before it have theirs or need it.
NeedIsDue(c, k, H) ==
  \A i \in Needy(c, k) :
    /\ i \in H \/ \A h \in H : h < i
    /\ \A h \in H : h < i => h \in Assigned(c, k) \cup Needy(c, k)

LEMMA AssignedType ==
  ASSUME NEW c \in Chain, NEW k \in ExtraKinds
  PROVE  /\ Assigned(c, k) \in SUBSET (DOMAIN c.entries) /\ Assigned(c, k) \in SUBSET Nat
         /\ IsFiniteSet(Assigned(c, k)) /\ Cardinality(Assigned(c, k)) \in Nat
<1>1. Assigned(c, k) \in SUBSET (DOMAIN c.entries)
  BY DEF Assigned
<1>2. DOMAIN c.entries = 1 .. LastHop(c) /\ LastHop(c) \in Nat
  BY NeedyType
<1>3. IsFiniteSet(1 .. LastHop(c))
  BY <1>2, FS_Interval
<1> QED
  BY <1>1, <1>2, <1>3, FS_Subset, FS_CardinalityType

\* Disjoint sets add up.
LEMMA Apart ==
  ASSUME NEW S, NEW T, IsFiniteSet(S), IsFiniteSet(T), S \cap T = {}
  PROVE  /\ IsFiniteSet(S \cup T)
         /\ Cardinality(S \cup T) = Cardinality(S) + Cardinality(T)
<1>1. Cardinality(S \cap T) = 0 /\ Cardinality(S) \in Nat /\ Cardinality(T) \in Nat
  BY FS_EmptySet, FS_CardinalityType
<1>2. IsFiniteSet(S \cup T)
      /\ Cardinality(S \cup T) = Cardinality(S) + Cardinality(T) - Cardinality(S \cap T)
  BY FS_Union
<1> QED
  BY <1>1, <1>2

\* The pass hands the extras to the hops they are about.
LEMMA PassPairs ==
  ASSUME NEW c \in Chain, NEW k \in ExtraKinds, NEW H \in SUBSET Nat, IsFiniteSet(H),
         NEW tail \in Seq(Extras), Paired(c, k, H, tail), NeedIsDue(c, k, H)
  PROVE  /\ Paired(Reconcile(c), k, H, tail)
         /\ Cardinality(Assigned(Reconcile(c), k)) + Len(Reconcile(c).pending[k])
               = Cardinality(Assigned(c, k)) + Len(c.pending[k])
<1> DEFINE A == Assigned(c, k)
           N == Needy(c, k)
           S == Served(c, k)
           P == c.pending[k]
           d == Reconcile(c)
           a == Cardinality(A)
           u == Cardinality(S)
           Q == P \o tail
<1>1. /\ A \in SUBSET Nat /\ IsFiniteSet(A) /\ a \in Nat
      /\ N \in SUBSET Nat /\ IsFiniteSet(N) /\ S \in SUBSET N /\ IsFiniteSet(S)
      /\ u \in Nat /\ u <= Len(P) /\ P \in Seq(Extras) /\ Len(P) \in Nat
  <2>1. A \in SUBSET Nat /\ IsFiniteSet(A) /\ a \in Nat
    BY AssignedType
  <2>2. N \in SUBSET Nat /\ IsFiniteSet(N) /\ IsFiniteSet(S)
    BY NeedyType
  <2>3. S \in SUBSET N
    BY DEF Served
  <2>4. u \in Nat /\ u <= Len(P)
    BY HandedOut
  <2>5. P \in Seq(Extras) /\ Len(P) \in Nat
    BY DEF Chain
  <2> QED
    BY <2>1, <2>2, <2>3, <2>4, <2>5
<1>2. /\ \A i \in A : i \in H /\ c.entries[i].extra[k].hop = i
      /\ \A i \in A, h \in H : h < i => h \in A
      /\ \A n \in DOMAIN Q : Q[n].hop \in H /\ Rank(H, Q[n].hop) = a + n
  BY DEF Paired
<1>3. \A i \in N : /\ i \in H \/ \A h \in H : h < i
                   /\ \A h \in H : h < i => h \in A \cup N
  BY DEF NeedIsDue
<1>4. \A i \in N : i \notin A
  BY DEF Needy, Assigned
<1>5. \A i \in S : Rank(N, i) \in 1 .. Len(P)
  BY HandedOut
<1>6. /\ \A i \in DOMAIN c.entries : d.entries[i].extra[k] = Handed(c, i, k)
      /\ Assigned(d, k) = A \cup S
      /\ d.pending[k] = SubSeq(P, u + 1, Len(P))
  BY AfterPass, Reconciliation
<1>7. \A i \in S : Handed(c, i, k) = P[Rank(N, i)]
  BY DEF Handed
<1>8. \A i \in A : Handed(c, i, k) = c.entries[i].extra[k] /\ i \in DOMAIN c.entries
  BY <1>1, <1>4 DEF Handed, Assigned
<1>9. \A i \in S : i \in DOMAIN c.entries
  BY NeedyType
<1>10. \A i \in N : i \in S <=> Rank(N, i) <= Len(P)
  BY DEF Served
<1> HIDE DEF A, N, S, P, d, u
\* The rank of a hop that needs an extra, among all of them.
<1>11. ASSUME NEW i \in N, i \in H PROVE Rank(H, i) = a + Rank(N, i)
  <2> DEFINE B == {j \in N : j <= i}
  <2>1. ASSUME NEW h \in A PROVE h <= i
    BY <1>1, <1>2, <1>4, <1>11
  <2>2. ASSUME NEW h \in H, h <= i, h \notin A PROVE h \in N
    <3>1. h \in Nat /\ i \in Nat
      BY <1>1
    <3> QED
      BY <1>3, <1>11, <2>2, <3>1
  <2>3. ASSUME NEW h \in N, h <= i PROVE h \in H
    <3>1. h = i \/ h < i
      BY <1>1, <2>3
    <3>2. ~(i < h)
      BY <1>1, <2>3
    <3> QED
      BY <1>3, <1>11, <3>1, <3>2
  <2>4. {h \in H : h <= i} = A \cup B
    <3>1. \A h : h \in B <=> h \in N /\ h <= i
      OBVIOUS
    <3> HIDE DEF B
    <3> QED
      BY <1>2, <2>1, <2>2, <2>3, <3>1
  <2>5. B \in SUBSET N /\ A \cap B = {}
    BY <1>4
  <2>6. IsFiniteSet(B)
    BY <1>1, <2>5, FS_Subset
  <2>7. Cardinality(A \cup B) = a + Cardinality(B)
    BY <1>1, <2>5, <2>6, Apart
  <2> QED
    BY <2>4, <2>7 DEF Rank
\* Nobody else is served.
<1>12. ASSUME NEW i \in S PROVE i \in H
  <2> DEFINE x == Rank(N, i)
             C == {j \in N : j <= i}
  <2>1. x \in 1 .. Len(P)
    BY <1>5
  <2>2. ASSUME i \notin H PROVE FALSE
    <3>1. Q[x].hop \in H /\ Rank(H, Q[x].hop) = a + x
      <4>1. x \in DOMAIN Q
        BY <1>1, <2>1
      <4> QED
        BY <1>2, <4>1
    <3>2. i \in N /\ C \in SUBSET N /\ IsFiniteSet(C) /\ i \in C /\ i \in Nat
      <4>1. i \in N /\ C \in SUBSET N /\ i \in C /\ i \in Nat
        BY <1>1, <1>12
      <4> QED
        BY <1>1, <4>1, FS_Subset
    <3>3. \A h \in H : h \in A \cup (C \ {i})
      <4>1. \A h \in H : h < i /\ h \in A \cup N
        BY <1>3, <2>2, <3>2
      <4>2. \A h \in H : h <= i /\ h # i
        BY <1>1, <2>2, <4>1
      <4> QED
        BY <4>1, <4>2
    <3>4. H \in SUBSET (A \cup (C \ {i}))
      BY <3>3
    <3>5. IsFiniteSet(C \ {i}) /\ Cardinality(C \ {i}) = x - 1 /\ A \cap (C \ {i}) = {}
      <4>1. IsFiniteSet(C \ {i}) /\ Cardinality(C \ {i}) = x - 1
        BY <3>2, FS_RemoveElement DEF Rank
      <4>2. A \cap (C \ {i}) = {}
        BY <1>4, <3>2
      <4> QED
        BY <4>1, <4>2
    <3>6. /\ IsFiniteSet(A \cup (C \ {i}))
          /\ Cardinality(A \cup (C \ {i})) = a + (x - 1)
      BY <1>1, <3>5, Apart
    <3>7. Cardinality(H) <= a + (x - 1) /\ Cardinality(H) \in Nat
      <4>1. Cardinality(H) <= Cardinality(A \cup (C \ {i}))
        BY <3>4, <3>6, FS_Subset
      <4>2. Cardinality(H) \in Nat
        BY FS_CardinalityType
      <4> QED
        BY <3>6, <4>1, <4>2
    <3>8. Rank(H, Q[x].hop) <= Cardinality(H)
      BY RankType
    <3> HIDE DEF x
    <3> QED
      BY <1>1, <2>1, <3>1, <3>7, <3>8
  <2> QED
    BY <2>2
<1>13. ASSUME NEW i \in S PROVE P[Rank(N, i)].hop = i
  <2> DEFINE x == Rank(N, i)
  <2>1. x \in 1 .. Len(P)
    BY <1>5
  <2>2. x \in DOMAIN Q /\ Q[x] = P[x]
    BY <1>1, <2>1
  <2>3. Q[x].hop \in H /\ Rank(H, Q[x].hop) = a + x
    BY <1>2, <2>2
  <2>4. Rank(H, i) = a + x /\ i \in H
    BY <1>1, <1>11, <1>12
  <2>5. Q[x].hop = i
    <3> HIDE DEF Q, x
    <3>1. Q[x].hop \in H /\ Rank(H, Q[x].hop) = Rank(H, i)
      BY <2>3, <2>4
    <3> QED
      BY <2>4, <3>1, RankIsOwn
  <2> QED
    BY <2>2, <2>5
<1>14. Cardinality(A \cup S) = a + u
  <2>1. A \cap S = {}
    BY <1>1, <1>4
  <2> QED
    BY <1>1, <2>1, Apart DEF u
<1>15. \A i \in Assigned(d, k) : i \in H /\ d.entries[i].extra[k].hop = i
  <2>1. \A i \in A : i \in H /\ d.entries[i].extra[k].hop = i
    BY <1>2, <1>6, <1>8
  <2>2. \A i \in S : i \in H /\ d.entries[i].extra[k].hop = i
    BY <1>6, <1>7, <1>9, <1>12, <1>13
  <2> QED
    BY <1>6, <2>1, <2>2
<1>16. ASSUME NEW i \in Assigned(d, k), NEW h \in H, h < i PROVE h \in Assigned(d, k)
  <2>1. CASE i \in A
    BY <1>2, <1>6, <1>16, <2>1
  <2>2. CASE i \in S /\ h \notin A
    <3>1. i \in N /\ h \in N /\ h \in Nat
      BY <1>1, <1>3, <1>16, <2>2
    <3>2. Rank(N, h) < Rank(N, i) /\ Rank(N, h) \in Nat
      BY <1>1, <1>16, <3>1, RankGrows, RankType
    <3>3. Rank(N, h) <= Len(P)
      BY <1>1, <1>5, <2>2, <3>2
    <3> QED
      BY <1>6, <1>10, <3>1, <3>3
  <2> QED
    BY <1>6, <1>16, <2>1, <2>2
<1> DEFINE W == d.pending[k] \o tail
<1>17. ASSUME NEW n \in DOMAIN W PROVE W[n].hop \in H /\ Rank(H, W[n].hop) = (a + u) + n
  <2>1. /\ W \in Seq(Extras) /\ Len(W) = (Len(P) - u) + Len(tail) /\ Len(tail) \in Nat
        /\ Len(Q) = Len(P) + Len(tail) /\ Q \in Seq(Extras)
    BY <1>1, <1>6
  <2>2. n \in 1 .. (Len(P) - u) + Len(tail) /\ n + u \in DOMAIN Q
    BY <1>1, <1>17, <2>1
  <2>3. W[n] = Q[n + u]
    <3> DEFINE V == SubSeq(P, u + 1, Len(P))
    <3>1. /\ V \in Seq(Extras) /\ Len(V) = Len(P) - u
          /\ \A j \in 1 .. Len(P) - u : V[j] = P[j + u]
      BY <1>1
    <3>2. W = V \o tail
      BY <1>6
    <3> HIDE DEF V, W
    <3>3. CASE n <= Len(P) - u
      <4>1. n \in 1 .. Len(P) - u /\ n + u \in 1 .. Len(P)
        BY <1>1, <2>2, <3>3
      <4>2. W[n] = V[n]
        BY <3>1, <3>2, <4>1
      <4>3. Q[n + u] = P[n + u]
        BY <1>1, <4>1
      <4> QED
        BY <3>1, <4>1, <4>2, <4>3
    <3>4. CASE ~(n <= Len(P) - u)
      <4> DEFINE l == n - (Len(P) - u)
      <4>1. l \in 1 .. Len(tail) /\ n = (Len(P) - u) + l /\ n + u = Len(P) + l
        BY <1>1, <2>1, <2>2, <3>4
      <4> HIDE DEF l
      <4>2. W[n] = tail[l]
        BY <3>1, <3>2, <4>1
      <4>3. Q[n + u] = tail[l]
        BY <1>1, <4>1
      <4> QED
        BY <4>2, <4>3
    <3> QED
      BY <3>3, <3>4
  <2>4. Q[n + u].hop \in H /\ Rank(H, Q[n + u].hop) = a + (n + u)
    BY <1>2, <2>2
  <2> HIDE DEF W, Q
  <2>5. a + (n + u) = (a + u) + n
    BY <1>1, <2>2
  <2> QED
    BY <2>3, <2>4, <2>5
<1>18. Paired(d, k, H, tail)
  BY <1>6, <1>14, <1>15, <1>16, <1>17 DEF Paired
<1>19. Cardinality(Assigned(d, k)) + Len(d.pending[k]) = a + Len(P)
  <2>1. Len(d.pending[k]) = Len(P) - u
    BY <1>1, <1>6
  <2> QED
    BY <1>1, <1>6, <1>14, <2>1
<1> QED
  BY <1>18, <1>19 DEF d, A, P

-----------------------------------------------------------------------------
(* The steps of a chain.                                                   *)

LEMMA ChainType ==
  ASSUME NEW c \in Chain
  PROVE  /\ c.entries \in Seq(EntryShape) /\ DOMAIN c.entries = 1 .. LastHop(c)
         /\ LastHop(c) \in Nat /\ \A k \in ExtraKinds : c.pending[k] \in Seq(Extras)
  BY DEF Chain, LastHop

LEMMA WithEntry ==
  ASSUME NEW c \in Chain, NEW i \in DOMAIN c.entries, NEW e \in EntryShape
  PROVE  LET d == [c EXCEPT !.entries[i] = e] IN
         /\ d \in Chain /\ DOMAIN d.entries = DOMAIN c.entries /\ LastHop(d) = LastHop(c)
         /\ d.pending = c.pending /\ d.entries[i] = e
         /\ \A j \in DOMAIN c.entries \ {i} : d.entries[j] = c.entries[j]
<1> DEFINE s == c.entries
           t == [s EXCEPT ![i] = e]
           d == [c EXCEPT !.entries[i] = e]
<1>1. s \in Seq(EntryShape) /\ c = [entries |-> s, pending |-> c.pending]
      /\ c.pending \in [ExtraKinds -> Seq(Extras)]
  BY DEF Chain
<1>2. d = [entries |-> t, pending |-> c.pending]
  <2>1. d = [c EXCEPT !.entries = t]
    OBVIOUS
  <2> HIDE DEF d, s, t
  <2> QED
    BY <1>1, <2>1
<1> HIDE DEF d
<1>3. d.entries = t /\ d.pending = c.pending
  BY <1>2
<1> HIDE DEF s
<1>4. /\ t \in Seq(EntryShape) /\ DOMAIN t = DOMAIN s /\ Len(t) = Len(s) /\ t[i] = e
      /\ \A j \in DOMAIN s \ {i} : t[j] = s[j]
  BY <1>1 DEF s
<1> HIDE DEF t
<1>5. d \in Chain
  BY <1>1, <1>2, <1>4 DEF Chain
<1> QED
  BY <1>3, <1>4, <1>5 DEF LastHop, d, s

\* Only the extra info decides who gets what.
LEMMA SameInfo ==
  ASSUME NEW c \in Chain, NEW d \in Chain, DOMAIN d.entries = DOMAIN c.entries,
         d.pending = c.pending,
         \A i \in DOMAIN c.entries : /\ d.entries[i].known = c.entries[i].known
                                     /\ d.entries[i].expected = c.entries[i].expected
                                     /\ d.entries[i].extra = c.entries[i].extra
  PROVE  /\ \A k \in ExtraKinds :
               /\ Needy(d, k) = Needy(c, k) /\ Assigned(d, k) = Assigned(c, k)
               /\ \A H, tail : Paired(c, k, H, tail) => Paired(d, k, H, tail)
         /\ Stable(c) => Stable(d)
<1>1. Settled(d) = Settled(c)
  <2>1. \A i \in DOMAIN c.entries : 1 .. i \subseteq DOMAIN c.entries
    BY ChainType
  <2> QED
    BY <2>1 DEF Settled
<1>2. Settled(c) \in SUBSET (DOMAIN c.entries)
  BY DEF Settled
<1>3. ASSUME NEW k \in ExtraKinds
      PROVE  Needy(d, k) = Needy(c, k) /\ Assigned(d, k) = Assigned(c, k)
  BY <1>1, <1>2 DEF Needy, Assigned
<1>4. ASSUME NEW k \in ExtraKinds, NEW H, NEW tail, Paired(c, k, H, tail)
      PROVE  Paired(d, k, H, tail)
  <2>1. Assigned(d, k) = Assigned(c, k) /\ Assigned(c, k) \in SUBSET (DOMAIN c.entries)
    BY <1>3 DEF Assigned
  <2>2. \A i \in Assigned(c, k) : d.entries[i].extra[k] = c.entries[i].extra[k]
    BY <2>1
  <2> QED
    BY <1>4, <2>1, <2>2 DEF Paired
<1> QED
  BY <1>3, <1>4 DEF Stable

\* What an entry is told to expect.
LEMMA ExpectOnlyStep ==
  ASSUME NEW c \in Chain, NEW i \in DOMAIN c.entries, NEW x \in BOOLEAN
  PROVE  LET d == ExpectOnly(c, i, x) IN
         /\ Expect(c, i, x) = Reconcile(d)
         /\ d \in Chain /\ DOMAIN d.entries = DOMAIN c.entries /\ LastHop(d) = LastHop(c)
         /\ d.pending = c.pending
         /\ d.entries[i].known /\ d.entries[i].expected = x
         /\ \A f \in DOMAIN c.entries[i] \ {"known", "expected"} :
               d.entries[i][f] = c.entries[i][f]
         /\ \A j \in DOMAIN c.entries \ {i} : d.entries[j] = c.entries[j]
         /\ \A k \in ExtraKinds : \A H, tail : Paired(c, k, H, tail) => Paired(d, k, H, tail)
<1> DEFINE e == [c.entries[i] EXCEPT !.known = TRUE, !.expected = x]
           d == [c EXCEPT !.entries[i] = e]
<1>1. c.entries[i] \in EntryShape
  BY EntryOf
<1>2. /\ e \in EntryShape /\ e.known = TRUE /\ e.expected = x
      /\ e.extra = c.entries[i].extra
      /\ \A f \in DOMAIN c.entries[i] \ {"known", "expected"} : e[f] = c.entries[i][f]
  BY <1>1 DEF EntryShape
<1>3. ExpectOnly(c, i, x) = d /\ Expect(c, i, x) = Reconcile(d)
  <2>1. [c EXCEPT !.entries[i].known = TRUE, !.entries[i].expected = x] = d
    BY DEF Chain
  <2> QED
    BY <2>1 DEF ExpectOnly, Expect
<1> HIDE DEF e
<1>4. /\ d \in Chain /\ DOMAIN d.entries = DOMAIN c.entries /\ LastHop(d) = LastHop(c)
      /\ d.pending = c.pending /\ d.entries[i] = e
      /\ \A j \in DOMAIN c.entries \ {i} : d.entries[j] = c.entries[j]
  BY <1>2, WithEntry
<1> HIDE DEF d
<1>5. \A j \in DOMAIN c.entries : d.entries[j].extra = c.entries[j].extra
  BY <1>2, <1>4
<1>6. ASSUME NEW k \in ExtraKinds, NEW H, NEW tail, Paired(c, k, H, tail)
      PROVE  Paired(d, k, H, tail)
  <2>1. Assigned(d, k) = Assigned(c, k)
    BY <1>4, <1>5 DEF Assigned
  <2>2. \A j \in Assigned(c, k) : d.entries[j].extra[k] = c.entries[j].extra[k]
    BY <1>5 DEF Assigned
  <2> QED
    BY <1>4, <1>6, <2>1, <2>2 DEF Paired
<1> QED
  BY <1>2, <1>3, <1>4, <1>6

\* One more entry, of which nothing is known yet.
LEMMA AppendStep ==
  ASSUME NEW c \in Chain, NEW h \in Nat
  PROVE  LET d == [c EXCEPT !.entries = Append(@, Entry(h))] IN
         /\ d \in Chain /\ LastHop(d) = LastHop(c) + 1
         /\ DOMAIN d.entries = DOMAIN c.entries \cup {LastHop(c) + 1}
         /\ d.pending = c.pending /\ d.entries[LastHop(c) + 1] = Entry(h)
         /\ \A j \in DOMAIN c.entries : d.entries[j] = c.entries[j]
         /\ \A k \in ExtraKinds :
               /\ Needy(d, k) = Needy(c, k) /\ Assigned(d, k) = Assigned(c, k)
               /\ \A H, tail : Paired(c, k, H, tail) => Paired(d, k, H, tail)
         /\ Stable(c) => Stable(d)
<1> DEFINE d == [c EXCEPT !.entries = Append(@, Entry(h))]
           n == LastHop(c)
<1>1. c.entries \in Seq(EntryShape) /\ n \in Nat /\ DOMAIN c.entries = 1 .. n /\ n = Len(c.entries)
  BY ChainType DEF LastHop
<1>2. Entry(h) \in EntryShape /\ ~Entry(h).known
      /\ \A k \in ExtraKinds : Entry(h).extra[k] = NoExtra
  BY DEF Entry, EntryShape
<1> HIDE DEF n
<1>3. /\ d.entries = Append(c.entries, Entry(h)) /\ d.entries \in Seq(EntryShape)
      /\ d.pending = c.pending /\ d \in Chain
  <2>1. d.entries = Append(c.entries, Entry(h)) /\ d.pending = c.pending
    BY DEF Chain
  <2>2. d.entries \in Seq(EntryShape)
    BY <1>1, <1>2, <2>1
  <2>3. d = [entries |-> d.entries, pending |-> c.pending]
    <3>1. c = [entries |-> c.entries, pending |-> c.pending]
      BY DEF Chain
    <3> QED
      BY <3>1
  <2> HIDE DEF d
  <2> QED
    BY <2>1, <2>2, <2>3 DEF Chain
<1> HIDE DEF d
<1>4. /\ Len(d.entries) = n + 1 /\ DOMAIN d.entries = 1 .. n + 1 /\ d.entries[n + 1] = Entry(h)
      /\ \A j \in 1 .. n : d.entries[j] = c.entries[j]
  BY <1>1, <1>2, <1>3
<1>5. \A j : j \in 1 .. n + 1 <=> j \in 1 .. n \/ j = n + 1
  BY <1>1
<1>6. n + 1 \notin Settled(d) /\ \A j \in 1 .. n : j \in Settled(d) <=> j \in Settled(c)
  <2>1. n + 1 \in 1 .. n + 1 /\ \A j \in 1 .. n : \A m \in 1 .. j : m \in 1 .. n
    BY <1>1
  <2> QED
    BY <1>1, <1>2, <1>4, <1>5, <2>1 DEF Settled
<1>7. Settled(d) = Settled(c) /\ \A j \in Settled(c) : j \in 1 .. n
  <2>1. \A j : j \in Settled(d) => j \in 1 .. n + 1
    BY <1>4 DEF Settled
  <2>2. \A j : j \in Settled(c) => j \in 1 .. n
    BY <1>1 DEF Settled
  <2> QED
    BY <1>5, <1>6, <2>1, <2>2
<1>8. ASSUME NEW k \in ExtraKinds
      PROVE  Needy(d, k) = Needy(c, k) /\ Assigned(d, k) = Assigned(c, k)
  <2>1. Needy(d, k) = Needy(c, k)
    BY <1>4, <1>7 DEF Needy
  <2>2. Assigned(d, k) = Assigned(c, k)
    BY <1>1, <1>2, <1>4, <1>5 DEF Assigned
  <2> QED
    BY <2>1, <2>2
<1>9. ASSUME NEW k \in ExtraKinds, NEW H, NEW tail, Paired(c, k, H, tail)
      PROVE  Paired(d, k, H, tail)
  <2>1. \A j \in Assigned(c, k) : d.entries[j] = c.entries[j]
    BY <1>1, <1>4 DEF Assigned
  <2> QED
    BY <1>3, <1>8, <1>9, <2>1 DEF Paired
<1>10. Stable(c) => Stable(d)
  BY <1>3, <1>8 DEF Stable
<1>11. LastHop(d) = n + 1 /\ DOMAIN d.entries = DOMAIN c.entries \cup {n + 1}
  BY <1>1, <1>4, <1>5 DEF LastHop
<1> QED
  BY <1>1, <1>3, <1>4, <1>8, <1>9, <1>10, <1>11 DEF d, n

\* Asking for bodies does not touch the extras.
LEMMA ScheduleStep ==
  ASSUME NEW c \in Chain
  PROVE  LET d == ScheduleReady(c) IN
         /\ d \in Chain /\ DOMAIN d.entries = DOMAIN c.entries /\ LastHop(d) = LastHop(c)
         /\ d.pending = c.pending
         /\ \A i \in DOMAIN c.entries :
               /\ \A f \in DOMAIN c.entries[i] \ {"scheduled", "asks"} :
                     d.entries[i][f] = c.entries[i][f]
               /\ ~Ready(c.entries[i]) => d.entries[i] = c.entries[i]
               /\ Ready(c.entries[i]) =>
                     /\ d.entries[i].scheduled
                     /\ d.entries[i].asks = c.entries[i].asks
                          + IF HasNoBody(c.entries[i]) THEN 0 ELSE 1
<1> DEFINE d == ScheduleReady(c)
           x(i) == IF HasNoBody(c.entries[i]) THEN c.entries[i].asks ELSE c.entries[i].asks + 1
           y(i) == [c.entries[i] EXCEPT !.scheduled = TRUE, !.asks = x(i)]
           z(i) == IF ~Ready(c.entries[i]) THEN c.entries[i] ELSE y(i)
<1>1. d.entries = [i \in DOMAIN c.entries |-> z(i)] /\ d.pending = c.pending
      /\ d = [entries |-> d.entries, pending |-> c.pending]
  <2> DEFINE s == [i \in DOMAIN c.entries |-> z(i)]
  <2>1. d = [c EXCEPT !.entries = s]
    BY DEF ScheduleReady
  <2>2. c = [entries |-> c.entries, pending |-> c.pending]
    BY DEF Chain
  <2> HIDE DEF s, d
  <2>3. d = [entries |-> s, pending |-> c.pending]
    BY <2>1, <2>2
  <2> QED
    BY <2>3 DEF s
<1> HIDE DEF d
<1>2. ASSUME NEW i \in DOMAIN c.entries
      PROVE  /\ y(i) \in EntryShape /\ z(i) \in EntryShape /\ y(i).scheduled /\ y(i).asks = x(i)
             /\ \A f \in DOMAIN c.entries[i] \ {"scheduled", "asks"} :
                   y(i)[f] = c.entries[i][f] /\ z(i)[f] = c.entries[i][f]
             /\ x(i) = c.entries[i].asks + IF HasNoBody(c.entries[i]) THEN 0 ELSE 1
  <2>1. c.entries[i] \in EntryShape /\ c.entries[i].asks \in Nat
    <3>1. c.entries[i] \in EntryShape
      BY EntryOf
    <3> QED
      BY <3>1 DEF EntryShape
  <2>2. x(i) \in Nat /\ x(i) = c.entries[i].asks + IF HasNoBody(c.entries[i]) THEN 0 ELSE 1
    BY <2>1
  <2> HIDE DEF x
  <2>3. /\ y(i) \in EntryShape /\ y(i).scheduled /\ y(i).asks = x(i)
        /\ \A f \in DOMAIN c.entries[i] \ {"scheduled", "asks"} : y(i)[f] = c.entries[i][f]
    BY <2>1, <2>2 DEF EntryShape
  <2> HIDE DEF y
  <2> QED
    BY <2>1, <2>2, <2>3
<1>3. DOMAIN c.entries = 1 .. LastHop(c) /\ LastHop(c) \in Nat
  BY ChainType
<1> HIDE DEF x, y
<1>4. d.entries \in Seq(EntryShape) /\ DOMAIN d.entries = DOMAIN c.entries
      /\ Len(d.entries) = LastHop(c)
  <2> HIDE DEF z
  <2> QED
    BY <1>1, <1>2, <1>3
<1>5. d \in Chain /\ LastHop(d) = LastHop(c)
  BY <1>1, <1>4 DEF Chain, LastHop
<1>6. \A i \in DOMAIN c.entries :
         /\ ~Ready(c.entries[i]) => d.entries[i] = c.entries[i]
         /\ Ready(c.entries[i]) => d.entries[i] = y(i)
         /\ \A f \in DOMAIN c.entries[i] \ {"scheduled", "asks"} :
               d.entries[i][f] = c.entries[i][f]
  BY <1>1, <1>2
<1> QED
  BY <1>1, <1>2, <1>4, <1>5, <1>6 DEF d

-----------------------------------------------------------------------------
(* Chains in step with the hops of the browser.                            *)

\* Per kind, the hops of n that have an extra of it; only the last one may
\* have a request extra alone.
HopSets(n) ==
  {H \in [ExtraKinds -> SUBSET (1 .. n)] :
     /\ H["response"] \subseteq H["request"]
     /\ H["request"] \ H["response"] \subseteq {n}}

\* What the entries of c are told of the hops with extra info.
Informed(c, X, n) ==
  \A i \in DOMAIN c.entries :
    /\ i < LastHop(c) => c.entries[i].known
    /\ c.entries[i].known /\ i \in X => c.entries[i].expected
    /\ c.entries[i].expected => i \in X \/ i = n

InStep(c, H, n, tail) ==
  /\ Informed(c, H["request"], n)
  /\ \A k \in ExtraKinds : Paired(c, k, H[k], tail[k])

\* The extras of kind k that have come: with an entry, waiting, or in tail.
Come(c, k, tail) == Cardinality(Assigned(c, k)) + Len(c.pending[k]) + Len(tail[k])

Tails == [ExtraKinds -> Seq(Extras)]

\* The fields that are not about the extra info.
BaseFields == {"hop", "response", "noBody", "finished", "failed", "cached",
               "scheduled", "asks", "bodyError", "incomplete"}

SameBase(c, d) ==
  /\ DOMAIN d.entries = DOMAIN c.entries /\ LastHop(d) = LastHop(c)
  /\ \A i \in DOMAIN c.entries : \A f \in BaseFields : d.entries[i][f] = c.entries[i][f]

LEMMA HopSetType ==
  ASSUME NEW n \in Nat, NEW H \in HopSets(n), NEW k \in ExtraKinds
  PROVE  /\ H[k] \in SUBSET (1 .. n) /\ H[k] \in SUBSET Nat /\ IsFiniteSet(H[k])
         /\ H[k] \subseteq H["request"] /\ \A i \in H["request"] \ H[k] : i = n
<1>1. H \in [ExtraKinds -> SUBSET (1 .. n)]
  BY DEF HopSets
<1>2. H[k] \in SUBSET (1 .. n) /\ IsFiniteSet(1 .. n)
  BY <1>1, FS_Interval
<1>3. IsFiniteSet(H[k])
  BY <1>2, FS_Subset
<1>4. k = "request" \/ k = "response"
  BY DEF ExtraKinds
<1>5. H[k] \subseteq H["request"] /\ \A i \in H["request"] \ H[k] : i = n
  BY <1>4 DEF HopSets
<1> QED
  BY <1>2, <1>3, <1>5

LEMMA InformedIsDue ==
  ASSUME NEW c \in Chain, NEW n \in Nat, NEW H \in HopSets(n), NEW k \in ExtraKinds,
         Informed(c, H["request"], n)
  PROVE  NeedIsDue(c, k, H[k])
<1>1. /\ H[k] \in SUBSET (1 .. n) /\ H[k] \subseteq H["request"]
      /\ \A i \in H["request"] \ H[k] : i = n
  BY HopSetType
<1>2. DOMAIN c.entries = 1 .. LastHop(c) /\ LastHop(c) \in Nat
  BY ChainType
<1> SUFFICES ASSUME NEW i \in Needy(c, k)
             PROVE  /\ i \in H[k] \/ \A h \in H[k] : h < i
                    /\ \A h \in H[k] : h < i => h \in Assigned(c, k) \cup Needy(c, k)
  BY DEF NeedIsDue
<1>3. /\ i \in DOMAIN c.entries /\ \A j \in 1 .. i : c.entries[j].known
      /\ c.entries[i].expected
  BY DEF Needy, Settled
<1>4. i \in H[k] \/ \A h \in H[k] : h < i
  <2>1. i \in H["request"] \/ i = n
    BY <1>3 DEF Informed
  <2>2. i \in H[k] \/ i = n
    BY <1>1, <2>1
  <2>3. ASSUME i = n, i \notin H[k], NEW h \in H[k] PROVE h < i
    BY <1>1, <2>3
  <2> QED
    BY <2>2, <2>3
<1>5. ASSUME NEW h \in H[k], h < i PROVE h \in Assigned(c, k) \cup Needy(c, k)
  <2>1. h \in DOMAIN c.entries /\ \A j \in 1 .. h : j \in 1 .. i
    BY <1>1, <1>2, <1>3, <1>5
  <2>2. h \in Settled(c)
    BY <1>3, <2>1 DEF Settled
  <2>3. c.entries[h].known
    BY <1>1, <1>2, <1>3, <1>5, <2>1
  <2>4. c.entries[h].expected
    BY <1>1, <1>5, <2>1, <2>3 DEF Informed
  <2> QED
    BY <2>1, <2>2, <2>4 DEF Needy, Assigned
<1> QED
  BY <1>4, <1>5

\* A pass keeps a chain in step.
LEMMA PassStep ==
  ASSUME NEW c \in Chain
  PROVE  LET d == Reconcile(c) IN
         /\ d \in Chain /\ Stable(d) /\ SameBase(c, d)
         /\ \A i \in DOMAIN c.entries : /\ d.entries[i].known = c.entries[i].known
                                        /\ d.entries[i].expected = c.entries[i].expected
         /\ \A n \in Nat : \A H \in HopSets(n), tail \in Tails :
               InStep(c, H, n, tail) =>
                 /\ InStep(d, H, n, tail)
                 /\ \A k \in ExtraKinds : Come(d, k, tail) = Come(c, k, tail)
<1> DEFINE d == Reconcile(c)
<1>1. d \in Chain /\ Stable(d) /\ DOMAIN d.entries = DOMAIN c.entries /\ LastHop(d) = LastHop(c)
  BY Reconciliation, PassLeavesNothing
<1>2. \A i \in DOMAIN c.entries : \A f \in DOMAIN c.entries[i] \ {"extra"} :
         d.entries[i][f] = c.entries[i][f]
  BY AfterPass
<1> HIDE DEF d
<1>3. ASSUME NEW i \in DOMAIN c.entries
      PROVE  /\ \A f \in BaseFields : d.entries[i][f] = c.entries[i][f]
             /\ d.entries[i].known = c.entries[i].known
             /\ d.entries[i].expected = c.entries[i].expected
  <2>1. DOMAIN c.entries[i] \ {"extra"} = BaseFields \cup {"known", "expected"}
    BY EntryOf DEF EntryShape, BaseFields
  <2> QED
    BY <1>2, <2>1
<1>4. ASSUME NEW n \in Nat, NEW H \in HopSets(n), NEW tail \in Tails, InStep(c, H, n, tail)
      PROVE  /\ InStep(d, H, n, tail)
             /\ \A k \in ExtraKinds : Come(d, k, tail) = Come(c, k, tail)
  <2>1. Informed(d, H["request"], n)
    BY <1>1, <1>3, <1>4 DEF Informed, InStep
  <2>2. ASSUME NEW k \in ExtraKinds
        PROVE  Paired(d, k, H[k], tail[k]) /\ Come(d, k, tail) = Come(c, k, tail)
    <3>1. H[k] \in SUBSET Nat /\ IsFiniteSet(H[k]) /\ tail[k] \in Seq(Extras)
      BY HopSetType DEF Tails
    <3>2. NeedIsDue(c, k, H[k]) /\ Paired(c, k, H[k], tail[k])
      BY <1>4, InformedIsDue DEF InStep
    <3>3. /\ Paired(d, k, H[k], tail[k])
          /\ Cardinality(Assigned(d, k)) + Len(d.pending[k])
                = Cardinality(Assigned(c, k)) + Len(c.pending[k])
      BY <3>1, <3>2, PassPairs DEF d
    <3> QED
      BY <3>3 DEF Come
  <2> QED
    BY <2>1, <2>2 DEF InStep
<1> QED
  BY <1>1, <1>3, <1>4 DEF d, SameBase

\* What is not about the extra info does not matter to it.
LEMMA InfoStep ==
  ASSUME NEW c \in Chain, NEW d \in Chain, DOMAIN d.entries = DOMAIN c.entries,
         LastHop(d) = LastHop(c), d.pending = c.pending,
         \A i \in DOMAIN c.entries : /\ d.entries[i].known = c.entries[i].known
                                     /\ d.entries[i].expected = c.entries[i].expected
                                     /\ d.entries[i].extra = c.entries[i].extra
  PROVE  /\ Stable(c) => Stable(d)
         /\ \A n \in Nat : \A H \in HopSets(n), tail \in Tails :
               InStep(c, H, n, tail) =>
                 /\ InStep(d, H, n, tail)
                 /\ \A k \in ExtraKinds : Come(d, k, tail) = Come(c, k, tail)
<1>1. /\ Stable(c) => Stable(d)
      /\ \A k \in ExtraKinds :
            /\ Assigned(d, k) = Assigned(c, k)
            /\ \A H, tail : Paired(c, k, H, tail) => Paired(d, k, H, tail)
  BY SameInfo
<1>2. ASSUME NEW X, NEW n, Informed(c, X, n) PROVE Informed(d, X, n)
  BY <1>2 DEF Informed
<1> QED
  BY <1>1, <1>2 DEF InStep, Come

\* Telling the last entry whether it has extra info.
LEMMA ExpectStep ==
  ASSUME NEW c \in Chain, NEW i \in DOMAIN c.entries, i = LastHop(c), NEW x \in BOOLEAN
  PROVE  LET d == Expect(c, i, x) IN
         /\ d \in Chain /\ Stable(d) /\ SameBase(c, d)
         /\ d.entries[i].known /\ d.entries[i].expected = x
         /\ \A n \in Nat : \A H \in HopSets(n), tail \in Tails :
               InStep(c, H, n, tail) /\ (i \in H["request"] => x)
                 /\ (x => i \in H["request"] \/ i = n) =>
                 /\ InStep(d, H, n, tail)
                 /\ \A k \in ExtraKinds : Come(d, k, tail) = Come(c, k, tail)
<1> DEFINE m == ExpectOnly(c, i, x)
           d == Expect(c, i, x)
<1>1. /\ d = Reconcile(m) /\ m \in Chain /\ DOMAIN m.entries = DOMAIN c.entries
      /\ LastHop(m) = LastHop(c) /\ m.pending = c.pending
      /\ m.entries[i].known /\ m.entries[i].expected = x
      /\ \A f \in DOMAIN c.entries[i] \ {"known", "expected"} :
            m.entries[i][f] = c.entries[i][f]
      /\ \A j \in DOMAIN c.entries \ {i} : m.entries[j] = c.entries[j]
      /\ \A k \in ExtraKinds : \A H, tail : Paired(c, k, H, tail) => Paired(m, k, H, tail)
  BY ExpectOnlyStep
<1> HIDE DEF m, d
<1>2. DOMAIN c.entries[i] \ {"known", "expected"} = BaseFields \cup {"extra"}
  BY EntryOf DEF EntryShape, BaseFields
<1>3. SameBase(c, m) /\ \A j \in DOMAIN c.entries : m.entries[j].extra = c.entries[j].extra
  BY <1>1, <1>2 DEF SameBase
<1>4. /\ d \in Chain /\ Stable(d) /\ SameBase(m, d)
      /\ d.entries[i].known /\ d.entries[i].expected = x
  BY <1>1, PassStep
<1>5. SameBase(c, d)
  BY <1>3, <1>4 DEF SameBase
<1>6. ASSUME NEW n \in Nat, NEW H \in HopSets(n), NEW tail \in Tails, InStep(c, H, n, tail),
             i \in H["request"] => x, x => i \in H["request"] \/ i = n
      PROVE  /\ InStep(d, H, n, tail)
             /\ \A k \in ExtraKinds : Come(d, k, tail) = Come(c, k, tail)
  <2>1. Informed(m, H["request"], n)
    BY <1>1, <1>6 DEF Informed, InStep
  <2>2. InStep(m, H, n, tail)
    BY <1>1, <1>6, <2>1 DEF InStep
  <2>3. \A k \in ExtraKinds : Come(m, k, tail) = Come(c, k, tail)
    BY <1>1, <1>3 DEF Come, Assigned
  <2>4. /\ InStep(d, H, n, tail)
        /\ \A k \in ExtraKinds : Come(d, k, tail) = Come(m, k, tail)
    BY <1>1, <2>2, PassStep
  <2> QED
    BY <2>3, <2>4
<1> QED
  BY <1>4, <1>5, <1>6 DEF d

\* One more extra waits.
LEMMA QueueStep ==
  ASSUME NEW c \in Chain, NEW k \in ExtraKinds, NEW x \in Extras
  PROVE  LET d == [c EXCEPT !.pending[k] = Append(@, x)] IN
         /\ d \in Chain /\ d.entries = c.entries /\ d.pending[k] = Append(c.pending[k], x)
         /\ \A j \in ExtraKinds \ {k} : d.pending[j] = c.pending[j]
         /\ \A n \in Nat : \A H \in HopSets(n), tail \in Tails :
               /\ InStep(c, H, n, tail) /\ tail[k] = <<>> /\ x.hop \in H[k]
               /\ Rank(H[k], x.hop) = Come(c, k, tail) + 1
               => /\ InStep(d, H, n, tail) /\ Come(d, k, tail) = Come(c, k, tail) + 1
                  /\ \A j \in ExtraKinds \ {k} : Come(d, j, tail) = Come(c, j, tail)
<1> DEFINE d == [c EXCEPT !.pending[k] = Append(@, x)]
           P == c.pending
           v == Append(P[k], x)
           p == [P EXCEPT ![k] = v]
<1>1. c = [entries |-> c.entries, pending |-> P] /\ P \in [ExtraKinds -> Seq(Extras)]
      /\ c.entries \in Seq(EntryShape)
  BY DEF Chain
<1>2. d = [entries |-> c.entries, pending |-> p]
  <2>1. d = [c EXCEPT !.pending[k] = v]
    OBVIOUS
  <2> HIDE DEF v, d
  <2> QED
    BY <1>1, <2>1
<1> HIDE DEF d, P
<1>3. /\ p \in [ExtraKinds -> Seq(Extras)] /\ p[k] = Append(P[k], x)
      /\ \A j \in ExtraKinds \ {k} : p[j] = P[j]
  BY <1>1
<1> HIDE DEF p
<1>4. d.entries = c.entries /\ d.pending = p
  BY <1>2
<1>5. d \in Chain
  BY <1>1, <1>2, <1>3 DEF Chain
<1>6. \A j \in ExtraKinds : Assigned(d, j) = Assigned(c, j)
  BY <1>4 DEF Assigned
<1>7. ASSUME NEW n \in Nat, NEW H \in HopSets(n), NEW tail \in Tails,
             InStep(c, H, n, tail), tail[k] = <<>>, x.hop \in H[k],
             Rank(H[k], x.hop) = Come(c, k, tail) + 1
      PROVE  /\ InStep(d, H, n, tail) /\ Come(d, k, tail) = Come(c, k, tail) + 1
             /\ \A j \in ExtraKinds \ {k} : Come(d, j, tail) = Come(c, j, tail)
  <2>1. Informed(d, H["request"], n)
    BY <1>4, <1>7 DEF Informed, InStep, LastHop
  <2>2. ASSUME NEW j \in ExtraKinds \ {k}
        PROVE  Paired(d, j, H[j], tail[j])
    <3>1. d.pending[j] = c.pending[j] /\ Assigned(d, j) = Assigned(c, j)
      BY <1>3, <1>4, <1>6 DEF P
    <3>2. Paired(c, j, H[j], tail[j])
      BY <1>7 DEF InStep
    <3> QED
      BY <1>4, <3>1, <3>2 DEF Paired
  <2> DEFINE m == Len(P[k])
             a == Cardinality(Assigned(c, k))
             Q == P[k] \o tail[k]
             W == p[k] \o tail[k]
  <2>3. P[k] \in Seq(Extras) /\ m \in Nat /\ a \in Nat /\ Q = P[k] /\ W = Append(P[k], x)
    BY <1>1, <1>3, <1>7, AssignedType
  <2>4. Come(c, k, tail) = a + m
    BY <1>7, <2>3 DEF Come, P
  <2>5. Paired(d, k, H[k], tail[k])
    <3>1. \A i \in DOMAIN Q : Q[i].hop \in H[k] /\ Rank(H[k], Q[i].hop) = a + i
      BY <1>7 DEF InStep, Paired, P
    <3>2. ASSUME NEW i \in DOMAIN W PROVE W[i].hop \in H[k] /\ Rank(H[k], W[i].hop) = a + i
      <4>1. i \in 1 .. m \/ i = m + 1
        BY <1>1, <1>3, <2>3, <3>2
      <4>2. CASE i \in 1 .. m
        <5>1. i \in DOMAIN Q /\ W[i] = Q[i]
          BY <2>3, <4>2
        <5> QED
          BY <3>1, <5>1
      <4>3. CASE i = m + 1
        <5>1. W[i] = x
          BY <2>3, <4>3
        <5>2. Rank(H[k], x.hop) = a + (m + 1)
          BY <1>7, <2>3, <2>4
        <5> QED
          BY <1>7, <4>3, <5>1, <5>2
      <4> QED
        BY <4>1, <4>2, <4>3
    <3> HIDE DEF W
    <3>3. \A i \in Assigned(c, k) : i \in H[k] /\ d.entries[i].extra[k].hop = i
      BY <1>4, <1>7 DEF InStep, Paired
    <3>4. \A i \in Assigned(c, k), h \in H[k] : h < i => h \in Assigned(c, k)
      BY <1>7 DEF InStep, Paired
    <3> QED
      BY <1>4, <1>6, <3>2, <3>3, <3>4 DEF Paired, W
  <2>6. Come(d, k, tail) = Come(c, k, tail) + 1
    <3>1. Len(p[k]) = m + 1 /\ Len(tail[k]) = 0
      BY <1>3, <1>7, <2>3
    <3> HIDE DEF m, a
    <3> QED
      BY <1>4, <1>6, <2>3, <2>4, <3>1 DEF Come, a
  <2>7. \A j \in ExtraKinds \ {k} : Come(d, j, tail) = Come(c, j, tail)
    BY <1>3, <1>4, <1>6 DEF Come, P
  <2> QED
    BY <2>1, <2>2, <2>5, <2>6, <2>7 DEF InStep
<1> QED
  BY <1>3, <1>4, <1>5, <1>7 DEF d, P

LEMMA AddExtraStep ==
  ASSUME NEW c \in Chain, NEW k \in ExtraKinds, NEW x \in Extras
  PROVE  LET d == AddExtra(c, k, x) IN
         /\ d \in Chain /\ Stable(d) /\ SameBase(c, d)
         /\ \A i \in DOMAIN c.entries :
               c.entries[i].known => /\ d.entries[i].known
                                     /\ d.entries[i].expected = c.entries[i].expected
         /\ \A n \in Nat : \A H \in HopSets(n), tail \in Tails :
               /\ InStep(c, H, n, tail) /\ tail[k] = <<>> /\ x.hop \in H[k]
               /\ Rank(H[k], x.hop) = Come(c, k, tail) + 1
               /\ LastHop(c) > 0 /\ c.entries[LastHop(c)].failed => LastHop(c) = n
               => /\ InStep(d, H, n, tail) /\ Come(d, k, tail) = Come(c, k, tail) + 1
                  /\ \A j \in ExtraKinds \ {k} : Come(d, j, tail) = Come(c, j, tail)
<1> DEFINE q == [c EXCEPT !.pending[k] = Append(@, x)]
           i == LastHop(c)
           d == AddExtra(c, k, x)
<1>1. /\ q \in Chain /\ q.entries = c.entries
      /\ \A n \in Nat : \A H \in HopSets(n), tail \in Tails :
               /\ InStep(c, H, n, tail) /\ tail[k] = <<>> /\ x.hop \in H[k]
               /\ Rank(H[k], x.hop) = Come(c, k, tail) + 1
               => /\ InStep(q, H, n, tail) /\ Come(q, k, tail) = Come(c, k, tail) + 1
                  /\ \A j \in ExtraKinds \ {k} : Come(q, j, tail) = Come(c, j, tail)
  BY QueueStep
<1>2. d = IF i > 0 /\ c.entries[i].failed /\ ~c.entries[i].known
          THEN Expect(q, i, TRUE) ELSE Reconcile(q)
  BY DEF AddExtra
<1>3. LastHop(q) = i /\ SameBase(c, q) /\ DOMAIN c.entries = 1 .. i /\ i \in Nat
  BY <1>1, ChainType DEF LastHop, SameBase
<1> HIDE DEF q, d, i
<1>4. CASE i > 0 /\ c.entries[i].failed /\ ~c.entries[i].known
  <2>0. PICK yes \in BOOLEAN : yes = TRUE
    OBVIOUS
  <2>1. i \in DOMAIN q.entries /\ d = Expect(q, i, yes)
    BY <1>1, <1>2, <1>3, <1>4, <2>0
  <2>2. /\ d \in Chain /\ Stable(d) /\ SameBase(q, d)
        /\ \A n \in Nat : \A H \in HopSets(n), tail \in Tails :
              InStep(q, H, n, tail) /\ i = n =>
                /\ InStep(d, H, n, tail)
                /\ \A j \in ExtraKinds : Come(d, j, tail) = Come(q, j, tail)
    <3>1. /\ d \in Chain /\ Stable(d) /\ SameBase(q, d)
          /\ \A n \in Nat : \A H \in HopSets(n), tail \in Tails :
                InStep(q, H, n, tail) /\ (i \in H["request"] => yes)
                  /\ (yes => i \in H["request"] \/ i = n) =>
                  /\ InStep(d, H, n, tail)
                  /\ \A j \in ExtraKinds : Come(d, j, tail) = Come(q, j, tail)
      BY <1>1, <1>3, <2>1, ExpectStep
    <3> QED
      BY <2>0, <3>1
  <2>3. SameBase(c, d)
    BY <1>3, <2>2 DEF SameBase
  <2>4. \A j \in DOMAIN c.entries : c.entries[j].known =>
           d.entries[j].known /\ d.entries[j].expected = c.entries[j].expected
    <3>1. d = Reconcile(ExpectOnly(q, i, yes)) /\ ExpectOnly(q, i, yes) \in Chain
          /\ DOMAIN ExpectOnly(q, i, yes).entries = DOMAIN q.entries
          /\ \A j \in DOMAIN q.entries \ {i} : ExpectOnly(q, i, yes).entries[j] = q.entries[j]
      BY <1>1, <2>1, ExpectOnlyStep
    <3>2. \A j \in DOMAIN q.entries \ {i} :
            d.entries[j].known = q.entries[j].known /\ d.entries[j].expected = q.entries[j].expected
      BY <3>1, PassStep
    <3> QED
      BY <1>1, <1>4, <3>2
  <2> QED
    BY <1>1, <1>4, <2>2, <2>3, <2>4 DEF d, i
<1>5. CASE ~(i > 0 /\ c.entries[i].failed /\ ~c.entries[i].known)
  <2>1. d = Reconcile(q)
    BY <1>2, <1>5
  <2>2. /\ d \in Chain /\ Stable(d) /\ SameBase(q, d)
        /\ \A j \in DOMAIN q.entries :
              d.entries[j].known = q.entries[j].known /\ d.entries[j].expected = q.entries[j].expected
        /\ \A n \in Nat : \A H \in HopSets(n), tail \in Tails :
              InStep(q, H, n, tail) =>
                /\ InStep(d, H, n, tail)
                /\ \A j \in ExtraKinds : Come(d, j, tail) = Come(q, j, tail)
    BY <1>1, <2>1, PassStep
  <2>3. SameBase(c, d)
    BY <1>3, <2>2 DEF SameBase
  <2> QED
    BY <1>1, <2>2, <2>3 DEF d, i
<1> QED
  BY <1>4, <1>5

\* A new entry is in step once the one before it is known.
LEMMA NewEntryStep ==
  ASSUME NEW c \in Chain, NEW h \in Nat
  PROVE  LET d == [c EXCEPT !.entries = Append(@, Entry(h))] IN
         \A n \in Nat : \A H \in HopSets(n), tail \in Tails :
           InStep(c, H, n, tail) /\ (LastHop(c) > 0 => c.entries[LastHop(c)].known) =>
             /\ InStep(d, H, n, tail)
             /\ \A k \in ExtraKinds : Come(d, k, tail) = Come(c, k, tail)
<1> DEFINE d == [c EXCEPT !.entries = Append(@, Entry(h))]
           m == LastHop(c)
<1>1. /\ d \in Chain /\ LastHop(d) = m + 1 /\ DOMAIN d.entries = DOMAIN c.entries \cup {m + 1}
      /\ d.pending = c.pending /\ d.entries[m + 1] = Entry(h)
      /\ \A j \in DOMAIN c.entries : d.entries[j] = c.entries[j]
      /\ \A k \in ExtraKinds :
            /\ Assigned(d, k) = Assigned(c, k)
            /\ \A H, tail : Paired(c, k, H, tail) => Paired(d, k, H, tail)
  BY AppendStep
<1>2. DOMAIN c.entries = 1 .. m /\ m \in Nat
  BY ChainType
<1> HIDE DEF d, m
<1>3. ASSUME NEW X, NEW n, Informed(c, X, n), m > 0 => c.entries[m].known
      PROVE  Informed(d, X, n)
  <2>1. ASSUME NEW i \in DOMAIN c.entries PROVE c.entries[i].known
    <3>1. i < m \/ i = m
      BY <1>2
    <3> QED
      BY <1>2, <1>3, <3>1 DEF Informed, m
  <2>2. ~Entry(h).known /\ ~Entry(h).expected
    BY DEF Entry
  <2>3. \A i \in DOMAIN c.entries : i # m + 1
    BY <1>2
  <2> QED
    BY <1>1, <1>2, <1>3, <2>1, <2>2, <2>3 DEF Informed
<1> QED
  BY <1>1, <1>3 DEF InStep, Come, d, m

-----------------------------------------------------------------------------
(* What the extras say of the bodies.                                      *)

\* An extra is honest about the hops B without a body.
Honest(x, B) == x.noBody <=> x.hop \in B

Frank(c, B) ==
  /\ \A i \in DOMAIN c.entries :
        c.entries[i].extra["response"] # NoExtra => Honest(c.entries[i].extra["response"], B)
  /\ \A m \in DOMAIN c.pending["response"] : Honest(c.pending["response"][m], B)

SameExtras(c, d) ==
  /\ DOMAIN d.entries = DOMAIN c.entries /\ d.pending = c.pending
  /\ \A i \in DOMAIN c.entries : d.entries[i].extra = c.entries[i].extra

LEMMA SameFrank ==
  ASSUME NEW c, NEW d, NEW B, SameExtras(c, d), Frank(c, B)
  PROVE  Frank(d, B)
  BY DEF SameExtras, Frank

\* A pass hands out what waits, as it is.
LEMMA PassFrank ==
  ASSUME NEW c \in Chain, NEW B, Frank(c, B)
  PROVE  Frank(Reconcile(c), B)
<1> DEFINE d == Reconcile(c)
           p == c.pending["response"]
           n == Cardinality(Served(c, "response"))
<1>1. PICK k \in ExtraKinds : k = "response"
  BY DEF ExtraKinds
<1>2. /\ n \in Nat /\ n <= Len(p) /\ p \in Seq(Extras)
      /\ \A i \in Served(c, k) : Rank(Needy(c, k), i) \in 1 .. Len(p)
  BY <1>1, HandedOut, ChainType
<1>3. /\ DOMAIN d.entries = DOMAIN c.entries
      /\ d.pending[k] = SubSeq(p, n + 1, Len(p))
      /\ \A i \in DOMAIN c.entries : d.entries[i].extra[k] = Handed(c, i, k)
  BY <1>1, Reconciliation, AfterPass
<1> HIDE DEF d, n
<1>4. \A m \in 1 .. Len(p) : Honest(p[m], B)
  BY <1>2 DEF Frank
<1>5. ASSUME NEW i \in DOMAIN c.entries, d.entries[i].extra["response"] # NoExtra
      PROVE  Honest(d.entries[i].extra["response"], B)
  <2>1. CASE i \in Served(c, k)
    <3>1. d.entries[i].extra["response"] = p[Rank(Needy(c, k), i)]
      BY <1>1, <1>3, <2>1 DEF Handed
    <3> QED
      BY <1>2, <1>4, <2>1, <3>1
  <2>2. CASE i \notin Served(c, k)
    <3>1. d.entries[i].extra["response"] = c.entries[i].extra["response"]
      BY <1>1, <1>3, <2>2 DEF Handed
    <3> QED
      BY <1>5, <3>1 DEF Frank
  <2> QED
    BY <2>1, <2>2
<1>6. ASSUME NEW m \in DOMAIN d.pending["response"]
      PROVE  Honest(d.pending["response"][m], B)
  <2>1. d.pending["response"] = SubSeq(p, n + 1, Len(p))
    BY <1>1, <1>3
  <2>2. d.pending["response"][m] = p[n + m] /\ n + m \in 1 .. Len(p)
    BY <1>2, <1>6, <2>1
  <2> QED
    BY <1>4, <2>2
<1> QED
  BY <1>3, <1>5, <1>6 DEF Frank, d

LEMMA ExpectFrank ==
  ASSUME NEW c \in Chain, NEW i \in DOMAIN c.entries, NEW x \in BOOLEAN, NEW B, Frank(c, B)
  PROVE  Frank(Expect(c, i, x), B)
<1> DEFINE m == ExpectOnly(c, i, x)
<1>1. /\ Expect(c, i, x) = Reconcile(m) /\ m \in Chain
      /\ DOMAIN m.entries = DOMAIN c.entries /\ m.pending = c.pending
      /\ \A f \in DOMAIN c.entries[i] \ {"known", "expected"} :
            m.entries[i][f] = c.entries[i][f]
      /\ \A j \in DOMAIN c.entries \ {i} : m.entries[j] = c.entries[j]
  BY ExpectOnlyStep
<1> HIDE DEF m
<1>2. "extra" \in DOMAIN c.entries[i] \ {"known", "expected"}
  BY EntryOf DEF EntryShape
<1>3. SameExtras(c, m)
  BY <1>1, <1>2 DEF SameExtras
<1> QED
  BY <1>1, <1>3, SameFrank, PassFrank

\* A new extra waits honestly, and is handed out so.
LEMMA AddFrank ==
  ASSUME NEW c \in Chain, NEW k \in ExtraKinds, NEW x \in Extras, NEW B, Frank(c, B),
         k = "response" => Honest(x, B)
  PROVE  Frank(AddExtra(c, k, x), B)
<1> DEFINE q == [c EXCEPT !.pending[k] = Append(@, x)]
           i == LastHop(c)
<1>1. /\ q \in Chain /\ q.entries = c.entries /\ q.pending[k] = Append(c.pending[k], x)
      /\ \A j \in ExtraKinds \ {k} : q.pending[j] = c.pending[j]
  BY QueueStep
<1>2. AddExtra(c, k, x) = IF i > 0 /\ c.entries[i].failed /\ ~c.entries[i].known
                          THEN Expect(q, i, TRUE) ELSE Reconcile(q)
  BY DEF AddExtra
<1>3. DOMAIN q.entries = 1 .. i /\ i \in Nat /\ \A j \in ExtraKinds : c.pending[j] \in Seq(Extras)
  BY <1>1, ChainType
<1> HIDE DEF q, i
<1>4. ASSUME NEW m \in DOMAIN q.pending["response"]
      PROVE  Honest(q.pending["response"][m], B)
  <2>0. "response" \in ExtraKinds
    BY DEF ExtraKinds
  <2>1. CASE k = "response"
    <3> DEFINE p == c.pending["response"]
    <3>1. q.pending["response"] = Append(p, x) /\ p \in Seq(Extras)
      BY <1>1, <1>3, <2>0, <2>1
    <3>2. \A l \in 1 .. Len(p) : Honest(p[l], B)
      BY <3>1 DEF Frank
    <3> HIDE DEF p
    <3>3. \/ m \in 1 .. Len(p) /\ q.pending["response"][m] = p[m]
          \/ m = Len(p) + 1 /\ q.pending["response"][m] = x
      BY <1>4, <3>1
    <3> QED
      BY <2>1, <3>2, <3>3
  <2>2. CASE k # "response"
    <3>1. q.pending["response"] = c.pending["response"]
      BY <1>1, <2>0, <2>2
    <3> QED
      BY <1>4, <3>1 DEF Frank
  <2> QED
    BY <2>1, <2>2
<1>5. Frank(q, B)
  BY <1>1, <1>4 DEF Frank
<1>6. CASE i > 0 /\ c.entries[i].failed /\ ~c.entries[i].known
  <2>1. PICK yes \in BOOLEAN : yes = TRUE
    OBVIOUS
  <2>2. i \in DOMAIN q.entries /\ AddExtra(c, k, x) = Expect(q, i, yes)
    BY <1>2, <1>3, <1>6, <2>1
  <2> QED
    BY <1>1, <1>5, <2>2, ExpectFrank
<1>7. CASE ~(i > 0 /\ c.entries[i].failed /\ ~c.entries[i].known)
  BY <1>1, <1>2, <1>5, <1>7, PassFrank
<1> QED
  BY <1>6, <1>7

\* The extra of a request leaves a settled chain's other extras where they are.
LEMMA AddQuiet ==
  ASSUME NEW c \in Chain, Stable(c), NEW x \in Extras,
         LastHop(c) > 0 => c.entries[LastHop(c)].known
  PROVE  \A i \in DOMAIN c.entries :
           AddExtra(c, "request", x).entries[i].extra["response"]
             = c.entries[i].extra["response"]
<1>0. PICK k \in ExtraKinds : k = "request"
  BY DEF ExtraKinds
<1>1. PICK l \in ExtraKinds : l = "response"
  BY DEF ExtraKinds
<1> DEFINE q == [c EXCEPT !.pending[k] = Append(@, x)]
<1>2. /\ q \in Chain /\ q.entries = c.entries
      /\ \A j \in ExtraKinds \ {k} : q.pending[j] = c.pending[j]
  BY QueueStep
<1>3. AddExtra(c, "request", x) = Reconcile(q)
  BY <1>0 DEF AddExtra
<1> HIDE DEF q
<1>4. Needy(q, l) = Needy(c, l) /\ q.pending[l] = c.pending[l]
  BY <1>0, <1>1, <1>2 DEF Needy, Settled
<1>5. Served(q, l) = {}
  <2>1. CASE Needy(c, l) = {}
    BY <1>4, <2>1 DEF Served
  <2>2. CASE c.pending[l] = <<>>
    <3>1. \A i \in Served(q, l) : Rank(Needy(q, l), i) \in 1 .. Len(q.pending[l])
      BY <1>2, HandedOut
    <3>2. Len(q.pending[l]) = 0
      BY <1>4, <2>2
    <3> QED
      BY <3>1, <3>2
  <2> QED
    BY <2>1, <2>2 DEF Stable
<1>6. \A i \in DOMAIN q.entries : Reconcile(q).entries[i].extra[l] = Handed(q, i, l)
  BY <1>2, AfterPass
<1> QED
  BY <1>1, <1>2, <1>3, <1>5, <1>6 DEF Handed

LEMMA AppendFrank ==
  ASSUME NEW c \in Chain, NEW h \in Nat, NEW B, Frank(c, B)
  PROVE  Frank([c EXCEPT !.entries = Append(@, Entry(h))], B)
<1> DEFINE d == [c EXCEPT !.entries = Append(@, Entry(h))]
<1>1. /\ DOMAIN d.entries = DOMAIN c.entries \cup {LastHop(c) + 1}
      /\ d.pending = c.pending /\ d.entries[LastHop(c) + 1] = Entry(h)
      /\ \A j \in DOMAIN c.entries : d.entries[j] = c.entries[j]
  BY AppendStep
<1> HIDE DEF d
<1>2. Entry(h).extra["response"] = NoExtra
  BY DEF Entry, ExtraKinds
<1> QED
  BY <1>1, <1>2 DEF Frank, d
================================================================================

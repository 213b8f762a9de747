----------------------------- MODULE RecorderProofs -----------------------------
(***************************************************************************)
(* Proofs about Recorder, for every set of requests, every life they may   *)
(* have, every limit on orphans, and every interleaving of base events,    *)
(* extra infos and the freeze.                                             *)
(***************************************************************************)
EXTENDS Recorder, ChainProofs

-----------------------------------------------------------------------------
(* The recorder's own state.                                               *)

Kinds == {"sent", "cached", "received", "finished", "failed", "requestExtra",
          "responseExtra"}
EventShape == [id : Ids, kind : Kinds, hop : Nat \ {0}, late : BOOLEAN,
               redirect : BOOLEAN, hasExtra : BOOLEAN, noBody : BOOLEAN]

TypeInv ==
  /\ chains \in [Ids -> Chain] /\ frozenExtras \in [Ids -> Tails]
  /\ frozen \in BOOLEAN /\ limitErr \in BOOLEAN /\ orphanCount \in 0 .. MaxOrphans
  /\ postCutoff \subseteq Ids /\ dropped \subseteq Ids

\* The queue of orphans is for requests without an entry, after the freeze.
OrphanInv ==
  /\ IsFiniteSet(Orphans) /\ orphanCount = Cardinality(Orphans)
  /\ \A r \in Ids, k \in ExtraKinds :
        frozenExtras[r][k] # <<>> => frozen /\ LastHop(chains[r]) = 0

StableInv == \A r \in Ids : Stable(chains[r])

RecInv == TypeInv /\ OrphanInv /\ StableInv

LEMMA QueuedType ==
  ASSUME TypeInv, NEW r \in Ids, NEW k \in ExtraKinds
  PROVE  /\ IsFiniteSet(Queued(r, k))
         /\ Cardinality(Queued(r, k)) = Len(frozenExtras[r][k])
<1> DEFINE n == Len(frozenExtras[r][k])
           x == <<r, k>>
           f == [i \in 1 .. n |-> <<x, i>>]
<1>1. frozenExtras[r][k] \in Seq(Extras)
  BY DEF TypeInv, Tails
<1>2. n \in Nat /\ Queued(r, k) = {x} \X (1 .. n)
  BY <1>1 DEF Queued
<1> HIDE DEF n, x
<1>3. f \in Bijection(1 .. n, Queued(r, k))
  <2>1. f \in [1 .. n -> {x} \X (1 .. n)]
    OBVIOUS
  <2>2. \A a, b \in 1 .. n : f[a] = f[b] => a = b
    OBVIOUS
  <2>3. \A t \in {x} \X (1 .. n) : \E i \in 1 .. n : f[i] = t
    OBVIOUS
  <2> HIDE DEF f
  <2> QED
    BY <1>2, <2>1, <2>2, <2>3 DEF Bijection, Injection, Surjection, IsInjective
<1>4. IsFiniteSet(1 .. n) /\ Cardinality(1 .. n) = n
  BY <1>2, FS_Interval
<1>5. ExistsBijection(1 .. n, Queued(r, k))
  BY <1>3 DEF ExistsBijection
<1> QED
  BY <1>4, <1>5, FS_Bijection DEF n

LEMMA OrphansType ==
  ASSUME NEW t
  PROVE  t \in Orphans <=> \E r \in Ids, k \in ExtraKinds : t \in Queued(r, k)
  BY DEF Orphans

\* A newly queued extra is one orphan more.
LEMMA OneMoreOrphan ==
  ASSUME TypeInv, IsFiniteSet(Orphans), orphanCount = Cardinality(Orphans),
         NEW r \in Ids, NEW k \in ExtraKinds, NEW x \in Extras,
         frozenExtras' = [frozenExtras EXCEPT ![r][k] = Append(@, x)]
  PROVE  /\ IsFiniteSet(Orphans') /\ Cardinality(Orphans') = orphanCount + 1
         /\ frozenExtras' \in [Ids -> Tails]
         /\ frozenExtras'[r] = [frozenExtras[r] EXCEPT ![k] = Append(@, x)]
         /\ \A q \in Ids \ {r} : frozenExtras'[q] = frozenExtras[q]
<1> DEFINE n == Len(frozenExtras[r][k])
           new == <<<<r, k>>, n + 1>>
<1>1. /\ frozenExtras \in [Ids -> Tails] /\ frozenExtras[r] \in Tails
      /\ frozenExtras[r][k] \in Seq(Extras) /\ n \in Nat
      /\ \A q \in Ids, j \in ExtraKinds : frozenExtras[q][j] \in Seq(Extras)
  BY DEF TypeInv, Tails
<1>2. Append(frozenExtras[r][k], x) \in Seq(Extras)
      /\ DOMAIN Append(frozenExtras[r][k], x) = (DOMAIN frozenExtras[r][k]) \cup {n + 1}
      /\ n + 1 \notin DOMAIN frozenExtras[r][k]
  BY <1>1
<1>3. /\ frozenExtras'[r] = [frozenExtras[r] EXCEPT ![k] = Append(@, x)]
      /\ \A q \in Ids \ {r} : frozenExtras'[q] = frozenExtras[q]
      /\ frozenExtras'[r] \in Tails
  BY <1>1, <1>2 DEF Tails
<1>4. frozenExtras' \in [Ids -> Tails]
  BY <1>1, <1>3
<1>5. /\ \A j \in ExtraKinds \ {k} : frozenExtras'[r][j] = frozenExtras[r][j]
      /\ frozenExtras'[r][k] = Append(frozenExtras[r][k], x)
  BY <1>1, <1>3 DEF Tails
<1>6. \A q \in Ids, j \in ExtraKinds :
        (q # r \/ j # k) => DOMAIN frozenExtras'[q][j] = DOMAIN frozenExtras[q][j]
  BY <1>3, <1>5
<1>7. DOMAIN frozenExtras'[r][k] = (DOMAIN frozenExtras[r][k]) \cup {n + 1}
  BY <1>2, <1>5
<1> HIDE DEF n
<1>8. \A q \in Ids, j \in ExtraKinds :
        (q # r \/ j # k) => Queued(q, j)' = Queued(q, j)
  BY <1>6 DEF Queued
<1>9. Queued(r, k)' = Queued(r, k) \cup {new}
  BY <1>7 DEF Queued
<1>10. new \notin Queued(r, k) /\ \A q \in Ids, j \in ExtraKinds :
          (q # r \/ j # k) => new \notin Queued(q, j)
  BY <1>2 DEF Queued
<1>11. new \notin Orphans
  BY <1>10, OrphansType
<1>12. \A t : t \in Orphans' <=> \E q \in Ids, j \in ExtraKinds : t \in Queued(q, j)'
  BY DEF Orphans
<1> HIDE DEF new
<1>13. Orphans' = Orphans \cup {new}
  BY <1>8, <1>9, <1>12, OrphansType
<1> QED
  BY <1>3, <1>4, <1>11, <1>13, FS_AddElement

\* A request that adopts its extras takes them off the count.
LEMMA OrphansAdopted ==
  ASSUME TypeInv, IsFiniteSet(Orphans), orphanCount = Cardinality(Orphans),
         NEW r \in Ids,
         frozenExtras' = [frozenExtras EXCEPT ![r] = [k \in ExtraKinds |-> <<>>]]
  PROVE  /\ IsFiniteSet(Orphans')
         /\ Adopted(r) \in Nat /\ Adopted(r) <= orphanCount
         /\ Cardinality(Orphans') = orphanCount - Adopted(r)
         /\ frozenExtras' \in [Ids -> Tails]
         /\ \A k \in ExtraKinds : frozenExtras'[r][k] = <<>>
         /\ \A q \in Ids \ {r} : frozenExtras'[q] = frozenExtras[q]
<1> DEFINE A == Queued(r, "request")
           B == Queued(r, "response")
<1>1. /\ frozenExtras \in [Ids -> Tails] /\ frozenExtras[r] \in Tails
      /\ \A k \in ExtraKinds : frozenExtras[r][k] \in Seq(Extras)
  BY DEF TypeInv, Tails
<1>2. /\ \A k \in ExtraKinds : frozenExtras'[r][k] = <<>>
      /\ \A q \in Ids \ {r} : frozenExtras'[q] = frozenExtras[q]
      /\ frozenExtras'[r] \in Tails
  BY <1>1 DEF Tails
<1>3. frozenExtras' \in [Ids -> Tails]
  BY <1>1, <1>2
<1>4. /\ IsFiniteSet(A) /\ Cardinality(A) = Len(frozenExtras[r]["request"])
      /\ IsFiniteSet(B) /\ Cardinality(B) = Len(frozenExtras[r]["response"])
  BY QueuedType DEF ExtraKinds
<1>5. A \cap B = {}
  BY DEF Queued
<1>6. IsFiniteSet(A \cup B) /\ Cardinality(A \cup B) = Adopted(r)
  <2> HIDE DEF A, B
  <2>1. IsFiniteSet(A \cup B) /\ Cardinality(A \cup B) = Cardinality(A) + Cardinality(B)
    BY <1>4, <1>5, Apart
  <2> QED
    BY <1>4, <1>5, <2>1 DEF Adopted
<1>7. \A q \in Ids \ {r}, j \in ExtraKinds : Queued(q, j)' = Queued(q, j)
  BY <1>2 DEF Queued
<1>8. \A j \in ExtraKinds : Queued(r, j)' = {}
  BY <1>2 DEF Queued
<1>9. \A q \in Ids \ {r}, j \in ExtraKinds : \A t \in Queued(q, j) : t \notin A \cup B
  BY DEF Queued
<1>10. \A t : t \in A \cup B <=> \E j \in ExtraKinds : t \in Queued(r, j)
  BY DEF ExtraKinds
<1>11. \A t : t \in Orphans' <=> \E q \in Ids, j \in ExtraKinds : t \in Queued(q, j)'
  BY DEF Orphans
<1> HIDE DEF A, B
<1>12. Orphans' = Orphans \ (A \cup B) /\ A \cup B \subseteq Orphans
  BY <1>7, <1>8, <1>9, <1>10, <1>11, OrphansType
<1>13. Orphans = Orphans' \cup (A \cup B) /\ Orphans' \cap (A \cup B) = {}
       /\ Orphans' \in SUBSET Orphans
  BY <1>12
<1>14. IsFiniteSet(Orphans')
  BY <1>13, FS_Subset
<1>15. Cardinality(Orphans) = Cardinality(Orphans') + Cardinality(A \cup B)
  BY <1>6, <1>13, <1>14, Apart
<1>16. Cardinality(Orphans') \in Nat /\ Cardinality(A \cup B) \in Nat
  BY <1>6, <1>14, FS_CardinalityType
<1>17. Adopted(r) \in Nat /\ Adopted(r) <= orphanCount
       /\ Cardinality(Orphans') = orphanCount - Adopted(r)
  BY <1>6, <1>15, <1>16
<1> QED
  BY <1>2, <1>3, <1>14, <1>17

-----------------------------------------------------------------------------
(* What the handlers do to a chain.                                        *)

\* Whoever looks at the pairing alone sees no difference between c and d.
StaysInStep(c, d) ==
  \A n \in Nat : \A H \in HopSets(n), tail \in Tails :
    InStep(c, H, n, tail) =>
      /\ InStep(d, H, n, tail)
      /\ \A k \in ExtraKinds : Come(d, k, tail) = Come(c, k, tail)

\* An entry changes in other fields than those of the pairing.
LEMMA EntryStep ==
  ASSUME NEW c \in Chain, NEW i \in DOMAIN c.entries, NEW e \in EntryShape,
         e.known = c.entries[i].known, e.expected = c.entries[i].expected,
         e.extra = c.entries[i].extra
  PROVE  LET d == [c EXCEPT !.entries[i] = e] IN
         /\ d \in Chain /\ DOMAIN d.entries = DOMAIN c.entries /\ LastHop(d) = LastHop(c)
         /\ d.entries[i] = e /\ d.pending = c.pending
         /\ \A j \in DOMAIN c.entries \ {i} : d.entries[j] = c.entries[j]
         /\ Stable(c) => Stable(d)
         /\ StaysInStep(c, d) /\ SameExtras(c, d)
<1> DEFINE d == [c EXCEPT !.entries[i] = e]
<1>1. /\ d \in Chain /\ DOMAIN d.entries = DOMAIN c.entries /\ LastHop(d) = LastHop(c)
      /\ d.entries[i] = e /\ d.pending = c.pending
      /\ \A j \in DOMAIN c.entries \ {i} : d.entries[j] = c.entries[j]
  BY WithEntry
<1> HIDE DEF d
<1>2. \A j \in DOMAIN c.entries : /\ d.entries[j].known = c.entries[j].known
                                  /\ d.entries[j].expected = c.entries[j].expected
                                  /\ d.entries[j].extra = c.entries[j].extra
  BY <1>1
<1>3. /\ Stable(c) => Stable(d)
      /\ StaysInStep(c, d) /\ SameExtras(c, d)
  BY <1>1, <1>2, InfoStep DEF StaysInStep, SameExtras
<1> QED
  BY <1>1, <1>3 DEF d

\* An event sets one flag of the current entry.
Flags == {"finished", "failed", "cached"}
Flagged(c, i, f) == [c EXCEPT !.entries[i][f] = TRUE]

LEMMA FlagStep ==
  ASSUME NEW c \in Chain, NEW i \in DOMAIN c.entries, NEW f \in Flags
  PROVE  LET d == Flagged(c, i, f) IN
         /\ d \in Chain /\ DOMAIN d.entries = DOMAIN c.entries /\ LastHop(d) = LastHop(c)
         /\ d.entries[i][f] /\ d.pending = c.pending
         /\ \A g \in DOMAIN c.entries[i] \ {f} : d.entries[i][g] = c.entries[i][g]
         /\ \A j \in DOMAIN c.entries \ {i} : d.entries[j] = c.entries[j]
         /\ Stable(c) => Stable(d)
         /\ StaysInStep(c, d) /\ SameExtras(c, d)
<1> DEFINE e == [c.entries[i] EXCEPT ![f] = TRUE]
<1>1. c.entries[i] \in EntryShape
  BY EntryOf
<1>2. e \in EntryShape
  BY <1>1 DEF EntryShape, Flags
<1>3. /\ e.known = c.entries[i].known /\ e.expected = c.entries[i].expected
      /\ e.extra = c.entries[i].extra /\ e[f] = TRUE
      /\ \A g \in DOMAIN c.entries[i] \ {f} : e[g] = c.entries[i][g]
  BY <1>1 DEF EntryShape, Flags
<1>4. Flagged(c, i, f) = [c EXCEPT !.entries[i] = e]
  BY DEF Flagged
<1> HIDE DEF e
<1> DEFINE d == [c EXCEPT !.entries[i] = e]
<1>5. /\ d \in Chain /\ DOMAIN d.entries = DOMAIN c.entries /\ LastHop(d) = LastHop(c)
      /\ d.entries[i] = e /\ d.pending = c.pending
      /\ \A j \in DOMAIN c.entries \ {i} : d.entries[j] = c.entries[j]
      /\ Stable(c) => Stable(d)
      /\ StaysInStep(c, d) /\ SameExtras(c, d)
  BY <1>2, <1>3, EntryStep
<1>6. Flagged(c, i, f) = d
  BY <1>4
<1> HIDE DEF d
<1> QED
  BY <1>3, <1>5, <1>6

LEMMA FlagStable ==
  ASSUME NEW c \in Chain, Stable(c), NEW i \in DOMAIN c.entries, NEW f \in Flags
  PROVE  Flagged(c, i, f) \in Chain /\ Stable(Flagged(c, i, f))
  BY FlagStep

\* What UpdateReady makes of a chain.
Scheduled(c) == IF IncludeBodies THEN ScheduleReady(c) ELSE c

LEMMA ScheduledStep ==
  ASSUME NEW c \in Chain
  PROVE  LET d == Scheduled(c) IN
         /\ d \in Chain /\ DOMAIN d.entries = DOMAIN c.entries /\ LastHop(d) = LastHop(c)
         /\ d.pending = c.pending
         /\ \A i \in DOMAIN c.entries :
               /\ \A f \in DOMAIN c.entries[i] \ {"scheduled", "asks"} :
                     d.entries[i][f] = c.entries[i][f]
               /\ ~IncludeBodies \/ ~Ready(c.entries[i]) => d.entries[i] = c.entries[i]
               /\ IncludeBodies /\ Ready(c.entries[i]) =>
                     /\ d.entries[i].scheduled
                     /\ d.entries[i].asks = c.entries[i].asks
                          + IF HasNoBody(c.entries[i]) THEN 0 ELSE 1
         /\ Stable(c) => Stable(d)
         /\ StaysInStep(c, d) /\ SameExtras(c, d)
<1> DEFINE d == ScheduleReady(c)
<1>1. /\ d \in Chain /\ DOMAIN d.entries = DOMAIN c.entries /\ LastHop(d) = LastHop(c)
      /\ d.pending = c.pending
      /\ \A i \in DOMAIN c.entries :
            /\ \A f \in DOMAIN c.entries[i] \ {"scheduled", "asks"} :
                  d.entries[i][f] = c.entries[i][f]
            /\ ~Ready(c.entries[i]) => d.entries[i] = c.entries[i]
            /\ Ready(c.entries[i]) =>
                  /\ d.entries[i].scheduled
                  /\ d.entries[i].asks = c.entries[i].asks
                       + IF HasNoBody(c.entries[i]) THEN 0 ELSE 1
  BY ScheduleStep
<1> HIDE DEF d
<1>2. \A i \in DOMAIN c.entries : /\ d.entries[i].known = c.entries[i].known
                                  /\ d.entries[i].expected = c.entries[i].expected
                                  /\ d.entries[i].extra = c.entries[i].extra
  <2> TAKE i \in DOMAIN c.entries
  <2> QED
    BY <1>1, EntryOf DEF EntryShape
<1>3. /\ Stable(c) => Stable(d)
      /\ StaysInStep(c, d) /\ SameExtras(c, d)
  BY <1>1, <1>2, InfoStep DEF StaysInStep, SameExtras
<1>4. StaysInStep(c, c) /\ SameExtras(c, c)
  BY DEF StaysInStep, SameExtras
<1>5. CASE IncludeBodies
  <2>1. Scheduled(c) = d
    BY <1>5 DEF Scheduled, d
  <2> QED
    BY <1>1, <1>3, <1>5, <2>1
<1>6. CASE ~IncludeBodies
  <2>1. Scheduled(c) = c
    BY <1>6 DEF Scheduled
  <2> QED
    BY <1>4, <1>6, <2>1
<1> QED
  BY <1>5, <1>6

\* A redirect answers the last hop and takes its body out of reach.
LEMMA RedirectStep ==
  ASSUME NEW c \in Chain, NEW i \in DOMAIN c.entries, i = LastHop(c), NEW e \in EventShape
  PROVE  LET d == Redirect(c, e) IN
         /\ d \in Chain /\ Stable(d)
         /\ DOMAIN d.entries = DOMAIN c.entries /\ LastHop(d) = LastHop(c)
         /\ d.entries[i].known
         /\ c.entries[i].response => d.entries[i].noBody = c.entries[i].noBody
         /\ ~c.entries[i].response => d.entries[i].noBody = e.noBody
         /\ d.entries[i].response = TRUE /\ d.entries[i].finished = TRUE
         /\ IncludeBodies => d.entries[i].scheduled
         /\ ~IncludeBodies => d.entries[i].scheduled = c.entries[i].scheduled
         /\ \A f \in {"hop", "failed", "cached", "asks"} :
               d.entries[i][f] = c.entries[i][f]
         /\ \A j \in DOMAIN c.entries \ {i} : \A f \in BaseFields :
               d.entries[j][f] = c.entries[j][f]
         /\ \E m \in Chain : SameExtras(c, m) /\ d = Expect(m, i, e.hasExtra)
         /\ \A n \in Nat : \A H \in HopSets(n), tail \in Tails :
               InStep(c, H, n, tail) /\ (i \in H["request"] => e.hasExtra)
                 /\ (e.hasExtra => i \in H["request"] \/ i = n) =>
                 /\ InStep(d, H, n, tail)
                 /\ \A k \in ExtraKinds : Come(d, k, tail) = Come(c, k, tail)
<1> DEFINE b == IF c.entries[i].response THEN c.entries[i].noBody ELSE e.noBody
           answered == [c.entries[i] EXCEPT !.noBody = b, !.response = TRUE,
                                            !.finished = TRUE]
           lost == ~HasNoBody(answered)
           unfetchable == [answered EXCEPT !.scheduled = TRUE, !.bodyError = lost]
           x == IF IncludeBodies THEN unfetchable ELSE answered
           d1 == [c EXCEPT !.entries[i] = x]
<1>1. c.entries[i] \in EntryShape /\ e.noBody \in BOOLEAN /\ e.hasExtra \in BOOLEAN
  BY EntryOf DEF EventShape
<1>2. b \in BOOLEAN
  BY <1>1 DEF EntryShape
<1>3. Redirect(c, e) = Expect(d1, i, e.hasExtra)
  BY DEF Redirect
<1> HIDE DEF b
<1>4. /\ answered \in EntryShape /\ answered.noBody = b
      /\ answered.response = TRUE /\ answered.finished = TRUE
      /\ \A f \in DOMAIN c.entries[i] \ {"noBody", "response", "finished"} :
            answered[f] = c.entries[i][f]
  BY <1>1, <1>2 DEF EntryShape
<1>5. lost \in BOOLEAN
  BY DEF HasNoBody
<1> HIDE DEF answered, lost
<1>6. /\ unfetchable \in EntryShape /\ unfetchable.scheduled = TRUE
      /\ \A f \in DOMAIN c.entries[i] \ {"scheduled", "bodyError"} :
            unfetchable[f] = answered[f]
  BY <1>1, <1>4, <1>5 DEF EntryShape
<1> HIDE DEF unfetchable
<1>7. /\ x \in EntryShape /\ x.noBody = b /\ x.response = TRUE /\ x.finished = TRUE
      /\ IncludeBodies => x.scheduled
      /\ ~IncludeBodies => x.scheduled = c.entries[i].scheduled
      /\ \A f \in {"hop", "failed", "cached", "asks", "known", "expected", "extra"} :
            x[f] = c.entries[i][f]
  <2>1. DOMAIN c.entries[i] = {"hop", "extra", "known", "expected", "response", "noBody",
          "finished", "failed", "cached", "scheduled", "asks", "bodyError", "incomplete"}
    BY <1>1 DEF EntryShape
  <2>2. c.entries[i].scheduled \in BOOLEAN
    BY <1>1 DEF EntryShape
  <2>3. CASE IncludeBodies
    BY <1>4, <1>6, <2>1, <2>2, <2>3
  <2>4. CASE ~IncludeBodies
    BY <1>4, <2>1, <2>2, <2>4
  <2> QED
    BY <2>3, <2>4
<1> HIDE DEF x
<1>8. /\ d1 \in Chain /\ DOMAIN d1.entries = DOMAIN c.entries /\ LastHop(d1) = LastHop(c)
      /\ d1.entries[i] = x
      /\ \A j \in DOMAIN c.entries \ {i} : d1.entries[j] = c.entries[j]
      /\ StaysInStep(c, d1) /\ SameExtras(c, d1)
  BY <1>7, EntryStep
<1> HIDE DEF d1
<1> DEFINE d == Expect(d1, i, e.hasExtra)
<1>9. /\ d \in Chain /\ Stable(d) /\ SameBase(d1, d)
      /\ d.entries[i].known
      /\ \A n \in Nat : \A H \in HopSets(n), tail \in Tails :
            InStep(d1, H, n, tail) /\ (i \in H["request"] => e.hasExtra)
              /\ (e.hasExtra => i \in H["request"] \/ i = n) =>
              /\ InStep(d, H, n, tail)
              /\ \A k \in ExtraKinds : Come(d, k, tail) = Come(d1, k, tail)
  BY <1>1, <1>8, ExpectStep
<1> HIDE DEF d
<1>10. /\ DOMAIN d.entries = DOMAIN c.entries /\ LastHop(d) = LastHop(c)
       /\ \A f \in BaseFields : d.entries[i][f] = x[f]
       /\ \A j \in DOMAIN c.entries \ {i} : \A f \in BaseFields :
             d.entries[j][f] = c.entries[j][f]
  BY <1>8, <1>9 DEF SameBase
<1>11. /\ d.entries[i].noBody = b /\ d.entries[i].response = TRUE
       /\ d.entries[i].finished = TRUE
       /\ IncludeBodies => d.entries[i].scheduled
       /\ ~IncludeBodies => d.entries[i].scheduled = c.entries[i].scheduled
       /\ \A f \in {"hop", "failed", "cached", "asks"} :
             d.entries[i][f] = c.entries[i][f]
  BY <1>7, <1>10 DEF BaseFields
<1>12. \A n \in Nat : \A H \in HopSets(n), tail \in Tails :
         InStep(c, H, n, tail) /\ (i \in H["request"] => e.hasExtra)
           /\ (e.hasExtra => i \in H["request"] \/ i = n) =>
           /\ InStep(d, H, n, tail)
           /\ \A k \in ExtraKinds : Come(d, k, tail) = Come(c, k, tail)
  BY <1>8, <1>9 DEF StaysInStep
<1>13. Redirect(c, e) = d
  BY <1>3 DEF d
<1>14. \E m \in Chain : SameExtras(c, m) /\ d = Expect(m, i, e.hasExtra)
  BY <1>8 DEF d
<1> QED
  BY <1>9, <1>10, <1>11, <1>12, <1>13, <1>14 DEF b

LEMMA RedirectFields ==
  ASSUME NEW c \in Chain, NEW i \in DOMAIN c.entries, i = LastHop(c), NEW e \in EventShape
  PROVE  LET d == Redirect(c, e) IN
         /\ d \in Chain /\ DOMAIN d.entries = DOMAIN c.entries /\ LastHop(d) = LastHop(c)
         /\ d.entries[i].response = TRUE /\ d.entries[i].finished = TRUE
         /\ \A f \in {"hop", "failed", "cached", "asks"} :
               d.entries[i][f] = c.entries[i][f]
         /\ \A j \in DOMAIN c.entries \ {i} : \A f \in BaseFields :
               d.entries[j][f] = c.entries[j][f]
  BY RedirectStep

\* A response is noted with the current entry.
WithAnswer(c, e) ==
  LET i == LastHop(c)
  IN Expect([c EXCEPT !.entries[i].response = TRUE, !.entries[i].noBody = e.noBody],
            i, e.hasExtra)

LEMMA AnswerStep ==
  ASSUME NEW c \in Chain, NEW i \in DOMAIN c.entries, i = LastHop(c), NEW e \in EventShape
  PROVE  LET d == WithAnswer(c, e) IN
         /\ d \in Chain /\ Stable(d)
         /\ DOMAIN d.entries = DOMAIN c.entries /\ LastHop(d) = LastHop(c)
         /\ d.entries[i].known /\ d.entries[i].expected = e.hasExtra
         /\ d.entries[i].noBody = e.noBody /\ d.entries[i].response = TRUE
         /\ \A f \in BaseFields \ {"noBody", "response"} :
               d.entries[i][f] = c.entries[i][f]
         /\ \A j \in DOMAIN c.entries \ {i} : \A f \in BaseFields :
               d.entries[j][f] = c.entries[j][f]
         /\ \E m \in Chain : SameExtras(c, m) /\ d = Expect(m, i, e.hasExtra)
         /\ \A n \in Nat : \A H \in HopSets(n), tail \in Tails :
               InStep(c, H, n, tail) /\ (i \in H["request"] => e.hasExtra)
                 /\ (e.hasExtra => i \in H["request"] \/ i = n) =>
                 /\ InStep(d, H, n, tail)
                 /\ \A k \in ExtraKinds : Come(d, k, tail) = Come(c, k, tail)
<1> DEFINE b == e.noBody
           x == [c.entries[i] EXCEPT !.response = TRUE, !.noBody = b]
           d1 == [c EXCEPT !.entries[i] = x]
           d2 == [c EXCEPT !.entries[i].response = TRUE, !.entries[i].noBody = e.noBody]
<1>1. c.entries[i] \in EntryShape /\ e.noBody \in BOOLEAN /\ e.hasExtra \in BOOLEAN
  BY EntryOf DEF EventShape
<1>2. b \in BOOLEAN
  BY <1>1
<1>3. d2 = d1
  OBVIOUS
<1>4. WithAnswer(c, e) = Expect(d2, i, e.hasExtra)
  BY DEF WithAnswer
<1> HIDE DEF b
<1>5. /\ x \in EntryShape /\ x.noBody = b /\ x.response = TRUE
      /\ \A f \in DOMAIN c.entries[i] \ {"noBody", "response"} : x[f] = c.entries[i][f]
  BY <1>1, <1>2 DEF EntryShape
<1>6. DOMAIN c.entries[i] = BaseFields \cup {"extra", "known", "expected"}
  BY <1>1 DEF EntryShape, BaseFields
<1> HIDE DEF x, d2
<1>7. /\ d1 \in Chain /\ DOMAIN d1.entries = DOMAIN c.entries /\ LastHop(d1) = LastHop(c)
      /\ d1.entries[i] = x
      /\ \A j \in DOMAIN c.entries \ {i} : d1.entries[j] = c.entries[j]
      /\ StaysInStep(c, d1) /\ SameExtras(c, d1)
  BY <1>5, <1>6, EntryStep DEF BaseFields
<1> HIDE DEF d1
<1> DEFINE d == Expect(d1, i, e.hasExtra)
<1>8. /\ d \in Chain /\ Stable(d) /\ SameBase(d1, d)
      /\ d.entries[i].known /\ d.entries[i].expected = e.hasExtra
      /\ \A n \in Nat : \A H \in HopSets(n), tail \in Tails :
            InStep(d1, H, n, tail) /\ (i \in H["request"] => e.hasExtra)
              /\ (e.hasExtra => i \in H["request"] \/ i = n) =>
              /\ InStep(d, H, n, tail)
              /\ \A k \in ExtraKinds : Come(d, k, tail) = Come(d1, k, tail)
  BY <1>1, <1>7, ExpectStep
<1> HIDE DEF d
<1>9. /\ DOMAIN d.entries = DOMAIN c.entries /\ LastHop(d) = LastHop(c)
      /\ \A f \in BaseFields : d.entries[i][f] = x[f]
      /\ \A j \in DOMAIN c.entries \ {i} : \A f \in BaseFields :
            d.entries[j][f] = c.entries[j][f]
  BY <1>7, <1>8 DEF SameBase
<1>10. /\ d.entries[i].noBody = b /\ d.entries[i].response = TRUE
       /\ \A f \in BaseFields \ {"noBody", "response"} :
             d.entries[i][f] = c.entries[i][f]
  BY <1>5, <1>6, <1>9 DEF BaseFields
<1>11. \A n \in Nat : \A H \in HopSets(n), tail \in Tails :
         InStep(c, H, n, tail) /\ (i \in H["request"] => e.hasExtra)
           /\ (e.hasExtra => i \in H["request"] \/ i = n) =>
           /\ InStep(d, H, n, tail)
           /\ \A k \in ExtraKinds : Come(d, k, tail) = Come(c, k, tail)
  BY <1>7, <1>8 DEF StaysInStep
<1>12. WithAnswer(c, e) = d
  BY <1>3, <1>4 DEF d
<1>13. \E m \in Chain : SameExtras(c, m) /\ d = Expect(m, i, e.hasExtra)
  BY <1>7 DEF d
<1> QED
  BY <1>8, <1>9, <1>10, <1>11, <1>12, <1>13 DEF b

LEMMA AnswerFields ==
  ASSUME NEW c \in Chain, NEW i \in DOMAIN c.entries, i = LastHop(c), NEW e \in EventShape
  PROVE  LET d == WithAnswer(c, e) IN
         /\ d \in Chain /\ DOMAIN d.entries = DOMAIN c.entries /\ LastHop(d) = LastHop(c)
         /\ d.entries[i].response = TRUE
         /\ \A f \in BaseFields \ {"noBody", "response"} :
               d.entries[i][f] = c.entries[i][f]
         /\ \A j \in DOMAIN c.entries \ {i} : \A f \in BaseFields :
               d.entries[j][f] = c.entries[j][f]
  BY AnswerStep

\* A failure settles what the entry may expect.
Fail(c) ==
  LET i == LastHop(c)
      d == [c EXCEPT !.entries[i].failed = TRUE]
  IN IF ~d.entries[i].known /\ \E k \in ExtraKinds : d.pending[k] # <<>>
     THEN Expect(d, i, TRUE) ELSE d

LEMMA FailStep ==
  ASSUME NEW c \in Chain, NEW i \in DOMAIN c.entries, i = LastHop(c)
  PROVE  LET d == Fail(c) IN
         /\ d \in Chain /\ (Stable(c) => Stable(d))
         /\ DOMAIN d.entries = DOMAIN c.entries /\ LastHop(d) = LastHop(c)
         /\ d.entries[i].failed = TRUE
         /\ c.entries[i].known =>
               d.entries[i].known /\ d.entries[i].expected = c.entries[i].expected
         /\ \E m \in Chain :
               SameExtras(c, m) /\ (d = m \/ \E x \in BOOLEAN : d = Expect(m, i, x))
         /\ \A f \in BaseFields \ {"failed"} : d.entries[i][f] = c.entries[i][f]
         /\ \A j \in DOMAIN c.entries \ {i} : \A f \in BaseFields :
               d.entries[j][f] = c.entries[j][f]
         /\ \A n \in Nat : \A H \in HopSets(n), tail \in Tails :
               InStep(c, H, n, tail) /\ i = n =>
                 /\ InStep(d, H, n, tail)
                 /\ \A k \in ExtraKinds : Come(d, k, tail) = Come(c, k, tail)
<1> DEFINE d1 == [c EXCEPT !.entries[i].failed = TRUE]
           d == Expect(d1, i, TRUE)
<1>1. /\ d1 \in Chain /\ DOMAIN d1.entries = DOMAIN c.entries /\ LastHop(d1) = LastHop(c)
      /\ d1.entries[i].failed = TRUE
      /\ \A g \in DOMAIN c.entries[i] \ {"failed"} : d1.entries[i][g] = c.entries[i][g]
      /\ \A j \in DOMAIN c.entries \ {i} : d1.entries[j] = c.entries[j]
      /\ Stable(c) => Stable(d1)
      /\ StaysInStep(c, d1) /\ SameExtras(c, d1)
  <2>1. PICK f \in Flags : f = "failed"
    BY DEF Flags
  <2> DEFINE e == Flagged(c, i, f)
  <2>3. /\ e \in Chain /\ DOMAIN e.entries = DOMAIN c.entries /\ LastHop(e) = LastHop(c)
        /\ e.entries[i][f]
        /\ \A g \in DOMAIN c.entries[i] \ {f} : e.entries[i][g] = c.entries[i][g]
        /\ \A j \in DOMAIN c.entries \ {i} : e.entries[j] = c.entries[j]
        /\ Stable(c) => Stable(e)
        /\ StaysInStep(c, e) /\ SameExtras(c, e)
    BY FlagStep
  <2>4. e = d1
    BY <2>1 DEF Flagged
  <2> HIDE DEF e, d1
  <2> QED
    BY <2>1, <2>3, <2>4
<1>2. DOMAIN c.entries[i] = BaseFields \cup {"extra", "known", "expected"}
  <2>1. c.entries[i] \in EntryShape
    BY EntryOf
  <2> QED
    BY <2>1 DEF EntryShape, BaseFields
<1>3. Fail(c) = IF ~d1.entries[i].known /\ \E k \in ExtraKinds : d1.pending[k] # <<>>
                THEN d ELSE d1
  BY DEF Fail
<1> HIDE DEF d1
<1>4. PICK yes \in BOOLEAN : yes = TRUE
  OBVIOUS
<1>5. /\ d \in Chain /\ Stable(d) /\ SameBase(d1, d)
      /\ d.entries[i].known
      /\ \A n \in Nat : \A H \in HopSets(n), tail \in Tails :
            InStep(d1, H, n, tail) /\ i = n =>
              /\ InStep(d, H, n, tail)
              /\ \A k \in ExtraKinds : Come(d, k, tail) = Come(d1, k, tail)
  <2> DEFINE g == Expect(d1, i, yes)
  <2>1. /\ g \in Chain /\ Stable(g) /\ SameBase(d1, g)
        /\ g.entries[i].known
        /\ \A n \in Nat : \A H \in HopSets(n), tail \in Tails :
              InStep(d1, H, n, tail) /\ (i \in H["request"] => yes)
                /\ (yes => i \in H["request"] \/ i = n) =>
                /\ InStep(g, H, n, tail)
                /\ \A k \in ExtraKinds : Come(g, k, tail) = Come(d1, k, tail)
    BY <1>1, ExpectStep
  <2>2. g = d
    BY <1>4
  <2> HIDE DEF g, d
  <2> QED
    BY <1>4, <2>1, <2>2
<1> HIDE DEF d
<1>6. /\ DOMAIN d.entries = DOMAIN c.entries /\ LastHop(d) = LastHop(c)
      /\ \A f \in BaseFields : d.entries[i][f] = d1.entries[i][f]
      /\ \A j \in DOMAIN c.entries \ {i} : \A f \in BaseFields :
            d.entries[j][f] = c.entries[j][f]
  BY <1>1, <1>5 DEF SameBase
<1>7. /\ d.entries[i].failed = TRUE /\ d1.entries[i].known = c.entries[i].known
      /\ d1.entries[i].expected = c.entries[i].expected
      /\ \A f \in BaseFields \ {"failed"} : /\ d.entries[i][f] = c.entries[i][f]
                                            /\ d1.entries[i][f] = c.entries[i][f]
  BY <1>1, <1>2, <1>6 DEF BaseFields
<1>8. \A n \in Nat : \A H \in HopSets(n), tail \in Tails :
        InStep(c, H, n, tail) /\ i = n =>
          /\ InStep(d, H, n, tail) /\ InStep(d1, H, n, tail)
          /\ \A k \in ExtraKinds : /\ Come(d, k, tail) = Come(c, k, tail)
                                   /\ Come(d1, k, tail) = Come(c, k, tail)
  BY <1>1, <1>5 DEF StaysInStep
<1>9. CASE ~d1.entries[i].known /\ \E k \in ExtraKinds : d1.pending[k] # <<>>
  <2>1. Fail(c) = d
    BY <1>3, <1>9
  <2>2. \E m \in Chain : SameExtras(c, m) /\ \E x \in BOOLEAN : d = Expect(m, i, x)
    BY <1>1, <1>4 DEF d
  <2> QED
    BY <1>5, <1>6, <1>7, <1>8, <1>9, <2>1, <2>2
<1>10. CASE ~(~d1.entries[i].known /\ \E k \in ExtraKinds : d1.pending[k] # <<>>)
  <2>1. Fail(c) = d1
    BY <1>3, <1>10
  <2> QED
    BY <1>1, <1>7, <1>8, <2>1
<1> QED
  BY <1>9, <1>10

\* The first entry takes over the extras queued for its request.
NoTail == [k \in ExtraKinds |-> <<>>]

LEMMA AdoptStep ==
  ASSUME NEW c \in Chain, LastHop(c) = 0, NEW t \in Tails
  PROVE  LET d == [c EXCEPT !.pending = [k \in ExtraKinds |-> c.pending[k] \o t[k]]] IN
         /\ d \in Chain /\ Stable(d) /\ d.entries = c.entries
         /\ NoTail \in Tails
         /\ \A n \in Nat : \A H \in HopSets(n) :
               InStep(c, H, n, t) =>
                 /\ InStep(d, H, n, NoTail)
                 /\ \A k \in ExtraKinds : Come(d, k, NoTail) = Come(c, k, t)
<1> DEFINE p == [k \in ExtraKinds |-> c.pending[k] \o t[k]]
           d == [c EXCEPT !.pending = p]
<1>1. /\ c.entries \in Seq(EntryShape) /\ \A k \in ExtraKinds : c.pending[k] \in Seq(Extras)
      /\ DOMAIN c.entries = {} /\ \A k \in ExtraKinds : t[k] \in Seq(Extras)
  BY ChainType DEF Tails
<1>2. p \in [ExtraKinds -> Seq(Extras)] /\ \A k \in ExtraKinds : p[k] = c.pending[k] \o t[k]
  <2>1. ASSUME NEW k \in ExtraKinds
        PROVE  c.pending[k] \o t[k] \in Seq(Extras)
    <3>1. c.pending[k] \in Seq(Extras) /\ t[k] \in Seq(Extras)
      BY <1>1
    <3> QED
      BY <3>1
  <2> QED
    BY <2>1
<1> HIDE DEF p
<1>3. d \in Chain /\ d.entries = c.entries /\ d.pending = p
  BY <1>1, <1>2 DEF Chain
<1>4. NoTail \in Tails /\ \A k \in ExtraKinds : NoTail[k] = <<>>
  BY DEF NoTail, Tails
<1> HIDE DEF d
<1>5. Stable(d)
  BY <1>1, <1>3 DEF Stable, Needy, Settled
<1>6. ASSUME NEW n \in Nat, NEW H \in HopSets(n), InStep(c, H, n, t)
      PROVE  /\ InStep(d, H, n, NoTail)
             /\ \A k \in ExtraKinds : Come(d, k, NoTail) = Come(c, k, t)
  <2>1. \A k \in ExtraKinds : Assigned(d, k) = {} /\ Assigned(c, k) = {}
    BY <1>1, <1>3 DEF Assigned
  <2>2. Informed(d, H["request"], n)
    BY <1>1, <1>3 DEF Informed
  <2>3. ASSUME NEW k \in ExtraKinds
        PROVE  /\ Paired(d, k, H[k], NoTail[k]) /\ Come(d, k, NoTail) = Come(c, k, t)
    <3> DEFINE a == c.pending[k]
               b == t[k]
    <3>0. /\ a \in Seq(Extras) /\ b \in Seq(Extras)
          /\ d.pending[k] = a \o b /\ NoTail[k] = <<>>
      BY <1>1, <1>2, <1>3, <1>4
    <3> HIDE DEF a, b
    <3>1. d.pending[k] \o NoTail[k] = a \o b
      BY <3>0
    <3>2. /\ Len(d.pending[k]) + Len(NoTail[k]) = Len(a) + Len(b)
          /\ Len(d.pending[k]) \in Nat /\ Len(NoTail[k]) \in Nat
          /\ Len(a) \in Nat /\ Len(b) \in Nat
      BY <3>0
    <3>3. Paired(c, k, H[k], t[k])
      BY <1>6 DEF InStep
    <3>4. Paired(d, k, H[k], NoTail[k])
      BY <2>1, <3>1, <3>3 DEF Paired, a, b
    <3>5. /\ Cardinality(Assigned(d, k)) = Cardinality(Assigned(c, k))
          /\ Cardinality(Assigned(c, k)) \in Nat
      BY <2>1, AssignedType
    <3> DEFINE m == Cardinality(Assigned(c, k))
    <3>7. Come(d, k, NoTail) = m + Len(d.pending[k]) + Len(NoTail[k])
          /\ Come(c, k, t) = m + Len(a) + Len(b)
      BY <3>5 DEF Come, a, b
    <3> DEFINE x1 == Len(d.pending[k])
               x2 == Len(NoTail[k])
               y1 == Len(a)
               y2 == Len(b)
    <3>8. /\ x1 + x2 = y1 + y2 /\ x1 \in Nat /\ x2 \in Nat /\ y1 \in Nat /\ y2 \in Nat
          /\ Come(d, k, NoTail) = m + x1 + x2 /\ Come(c, k, t) = m + y1 + y2
      BY <3>2, <3>7
    <3> HIDE DEF m, x1, x2, y1, y2
    <3>6. Come(d, k, NoTail) = Come(c, k, t)
      <4>1. m \in Nat
        BY <3>5 DEF m
      <4> QED
        BY <3>8, <4>1
    <3> QED
      BY <3>4, <3>6
  <2> QED
    BY <2>2, <2>3 DEF InStep
<1> QED
  BY <1>3, <1>4, <1>5, <1>6 DEF d, p

\* An extra that waits for its request is in step as one in the chain is.
\* From c with the queues t to d with the queues u, one extra of kind k came.
Gains(c, t, d, u, H, n, k) ==
  /\ InStep(d, H, n, u) /\ Come(d, k, u) = Come(c, k, t) + 1
  /\ \A j \in ExtraKinds \ {k} : Come(d, j, u) = Come(c, j, t)

LEMMA TailStep ==
  ASSUME NEW c \in Chain, NEW t \in Tails, NEW k \in ExtraKinds, NEW x \in Extras,
         NEW n \in Nat, NEW H \in HopSets(n),
         InStep(c, H, n, t), x.hop \in H[k], Rank(H[k], x.hop) = Come(c, k, t) + 1
  PROVE  Gains(c, t, c, [t EXCEPT ![k] = Append(@, x)], H, n, k)
<1> DEFINE u == [t EXCEPT ![k] = Append(@, x)]
<1>1. /\ \A j \in ExtraKinds : c.pending[j] \in Seq(Extras) /\ t[j] \in Seq(Extras)
      /\ u[k] = Append(t[k], x) /\ \A j \in ExtraKinds \ {k} : u[j] = t[j]
  BY ChainType DEF Tails
<1> HIDE DEF u
<1>2. /\ InStep(c, H, n, u) /\ Come(c, k, u) = Come(c, k, t) + 1
      /\ \A j \in ExtraKinds \ {k} : Come(c, j, u) = Come(c, j, t)
  <2> DEFINE p == c.pending[k]
             q == t[k]
             w == p \o q
             v == p \o Append(q, x)
             a == Cardinality(Assigned(c, k))
  <2>1. p \in Seq(Extras) /\ q \in Seq(Extras) /\ a \in Nat
    BY <1>1, AssignedType
  <2>2. Come(c, k, t) = a + Len(p) + Len(q) /\ Come(c, k, u) = a + Len(p) + Len(Append(q, x))
    BY <1>1 DEF Come
  <2>3. Paired(c, k, H[k], q)
    BY DEF InStep
  <2> HIDE DEF p, q, a
  <2>4. /\ Len(w) \in Nat /\ Len(w) = Len(p) + Len(q) /\ DOMAIN w = 1 .. Len(w)
        /\ DOMAIN v = 1 .. Len(w) + 1 /\ v[Len(w) + 1] = x
        /\ Len(Append(q, x)) = Len(q) + 1 /\ Len(p) \in Nat /\ Len(q) \in Nat
    BY <2>1
  <2>5. \A m \in 1 .. Len(w) : v[m] = w[m]
    BY <2>1
  <2> HIDE DEF w, v
  <2>6. Come(c, k, u) = Come(c, k, t) + 1 /\ Come(c, k, t) = a + Len(w)
    BY <2>1, <2>2, <2>4
  <2>7. \A m \in DOMAIN w : w[m].hop \in H[k] /\ Rank(H[k], w[m].hop) = a + m
    BY <2>3 DEF Paired, w, p, a
  <2>8. Rank(H[k], x.hop) = a + (Len(w) + 1)
    BY <2>1, <2>4, <2>6
  <2>9. ASSUME NEW m \in DOMAIN v
        PROVE  v[m].hop \in H[k] /\ Rank(H[k], v[m].hop) = a + m
    <3>1. m \in 1 .. Len(w) \/ m = Len(w) + 1
      BY <2>4
    <3>2. CASE m \in 1 .. Len(w)
      BY <2>4, <2>5, <2>7, <3>2
    <3>3. CASE m = Len(w) + 1
      BY <2>4, <2>8, <3>3
    <3> QED
      BY <3>1, <3>2, <3>3
  <2>10. Paired(c, k, H[k], u[k])
    <3>1. u[k] = Append(q, x) /\ v = c.pending[k] \o u[k]
      BY <1>1 DEF q, v, p
    <3> QED
      BY <2>3, <2>9, <3>1 DEF Paired, a
  <2>11. \A j \in ExtraKinds \ {k} : Paired(c, j, H[j], u[j])
    BY <1>1 DEF InStep
  <2>12. \A j \in ExtraKinds \ {k} : Come(c, j, u) = Come(c, j, t)
    BY <1>1 DEF Come
  <2>13. InStep(c, H, n, u)
    BY <2>10, <2>11 DEF InStep
  <2> QED
    BY <2>6, <2>12, <2>13
<1> QED
  BY <1>2 DEF u, Gains

-----------------------------------------------------------------------------
(* The outcomes of handling an event: one disjunct for each way in which   *)
(* the chains and the queues of orphans can change.                        *)

\* The capture has failed, or fails now.
Failing ==
  /\ limitErr' = TRUE
  /\ UNCHANGED <<chains, frozen, frozenExtras, orphanCount, postCutoff, dropped>>

\* One chain changes; so does the rest unless it is said not to.
Chains(e, d) ==
  /\ ~limitErr /\ chains' = [chains EXCEPT ![e.id] = d]
  /\ UNCHANGED <<frozen, limitErr, dropped>> /\ postCutoff' \subseteq Ids
OnlyChains(e, d) == Chains(e, d) /\ UNCHANGED <<frozenExtras, orphanCount>>

\* Nothing to do: past the cutoff, sent again, without an entry, or a cache
\* event that does not count.
Passing(e) ==
  /\ ~limitErr
  /\ UNCHANGED <<chains, frozen, limitErr, frozenExtras, orphanCount, dropped>>
  /\ postCutoff' \subseteq Ids
  /\ \/ e.kind = "cached"
     \/ frozen /\ e.late /\ e.kind \in {"sent", "received", "finished", "failed"}
     \/ e.kind = "sent" /\ ~e.redirect /\ LastHop(chains[e.id]) > 0
     \/ e.kind \in {"received", "finished", "failed"} /\ LastHop(chains[e.id]) = 0

Starting(e) ==
  /\ e.kind = "sent" /\ LastHop(chains[e.id]) = 0 /\ Counts(e)
  /\ Chains(e, [Adopt(chains[e.id], e.id) EXCEPT !.entries = Append(@, Entry(e.hop))])
  /\ orphanCount' = IF orphanCount < Adopted(e.id) THEN 0
                    ELSE orphanCount - Adopted(e.id)
  /\ frozenExtras' = [frozenExtras EXCEPT ![e.id] = [k \in ExtraKinds |-> <<>>]]

Redirecting(e) ==
  /\ e.kind = "sent" /\ LastHop(chains[e.id]) > 0 /\ e.redirect /\ Counts(e)
  /\ OnlyChains(e, [Redirect(chains[e.id], e) EXCEPT !.entries = Append(@, Entry(e.hop))])

Answering(e) ==
  /\ e.kind = "received" /\ LastHop(chains[e.id]) > 0 /\ Counts(e)
  /\ OnlyChains(e, Scheduled(WithAnswer(chains[e.id], e)))

Finishing(e) ==
  /\ e.kind = "finished" /\ LastHop(chains[e.id]) > 0 /\ Counts(e)
  /\ OnlyChains(e, Scheduled(Flagged(chains[e.id], LastHop(chains[e.id]), "finished")))

Breaking(e) ==
  /\ e.kind = "failed" /\ LastHop(chains[e.id]) > 0 /\ Counts(e)
  /\ OnlyChains(e, Fail(chains[e.id]))

Caching(e) ==
  /\ e.kind = "cached" /\ LastHop(chains[e.id]) > 0
  /\ OnlyChains(e, Flagged(chains[e.id], LastHop(chains[e.id]), "cached"))

Kind(k) == IF k = "request" THEN "requestExtra" ELSE "responseExtra"
ExtraOf(e) == Extra(e.hop, e.noBody)

\* An extra that does not wait for its request is paired at once.
Pairing(e, k) ==
  /\ e.kind = Kind(k) /\ ~(frozen /\ LastHop(chains[e.id]) = 0)
  /\ LET d == AddExtra(chains[e.id], k, ExtraOf(e)) IN
     OnlyChains(e, IF k = "request" THEN d ELSE Scheduled(d))

Queueing(e, k) ==
  /\ e.kind = Kind(k) /\ frozen /\ LastHop(chains[e.id]) = 0
  /\ ~limitErr /\ orphanCount < MaxOrphans /\ orphanCount' = orphanCount + 1
  /\ frozenExtras' = [frozenExtras EXCEPT ![e.id][k] = Append(@, ExtraOf(e))]
  /\ UNCHANGED <<chains, frozen, limitErr, postCutoff, dropped>>

Dropping(e, k) ==
  /\ e.kind = Kind(k) /\ ~limitErr /\ dropped' = dropped \cup {e.id}
  /\ UNCHANGED <<chains, frozen, limitErr, frozenExtras, orphanCount, postCutoff>>

Outcome(e) ==
  \/ Failing \/ Passing(e) \/ Starting(e) \/ Redirecting(e)
  \/ Answering(e) \/ Finishing(e) \/ Breaking(e) \/ Caching(e)
  \/ \E k \in ExtraKinds : Pairing(e, k) \/ Queueing(e, k) \/ Dropping(e, k)

LEMMA SentOn ==
  ASSUME NEW e, LastHop(chains[e.id]) # 0, e.redirect, RequestWillBeSent(e), ~Exceed
  PROVE  /\ chains' = [chains EXCEPT ![e.id] =
                         [Redirect(chains[e.id], e) EXCEPT !.entries = Append(@, Entry(e.hop))]]
         /\ UNCHANGED <<frozen, limitErr, dropped, frozenExtras, orphanCount>>
         /\ postCutoff' = postCutoff \ {e.id}
  BY DEF RequestWillBeSent

LEMMA Outcomes ==
  ASSUME TypeInv, NEW e \in EventShape, NEW b \in BOOLEAN, HandleEvent(e, b)
  PROVE  Outcome(e)
<1> DEFINE r == e.id
           c == chains[r]
           i == LastHop(c)
<1> USE RecorderAssumption
<1>1. /\ r \in Ids /\ c \in Chain /\ i \in Nat /\ e.kind \in Kinds
      /\ frozen \in BOOLEAN /\ limitErr \in BOOLEAN /\ orphanCount \in 0 .. MaxOrphans
      /\ postCutoff \subseteq Ids /\ postCutoff \cup {r} \subseteq Ids
      /\ postCutoff \ {r} \subseteq Ids
  BY ChainType DEF TypeInv, EventShape
<1>2. [chains EXCEPT ![r] = c] = chains
  BY DEF TypeInv
<1>3. CASE limitErr
  <2>1. Ignore
    BY <1>3 DEF HandleEvent
  <2> QED
    BY <1>1, <1>3, <2>1 DEF Ignore, recorderVars, Outcome, Failing
<1>4. ASSUME Exceed
      PROVE  Outcome(e)
  BY <1>4 DEF Exceed, Outcome, Failing
<1>5. CASE ~limitErr /\ e.kind \in {"sent", "received", "finished", "failed"} /\ ~Counts(e)
  <2>1. PastCutoff(e)
    BY <1>5 DEF HandleEvent
  <2>2. frozen /\ e.late
    BY <1>1, <1>5 DEF Counts, EventShape
  <2> QED
    BY <1>1, <1>5, <2>1, <2>2 DEF PastCutoff, Outcome, Passing
<1>6. CASE ~limitErr /\ e.kind = "sent" /\ Counts(e)
  <2>1. RequestWillBeSent(e)
    BY <1>6 DEF HandleEvent, Apply
  <2>2. CASE i = 0 /\ ~Exceed
    <3>1. Starting(e)
      BY <1>1, <1>6, <2>1, <2>2 DEF RequestWillBeSent, Starting, Chains
    <3> QED
      BY <3>1 DEF Outcome
  <2>3. CASE i > 0 /\ e.redirect /\ ~Exceed
    <3>1. /\ chains' = [chains EXCEPT ![e.id] =
                          [Redirect(chains[e.id], e) EXCEPT !.entries = Append(@, Entry(e.hop))]]
          /\ UNCHANGED <<frozen, limitErr, dropped, frozenExtras, orphanCount>>
          /\ postCutoff' = postCutoff \ {e.id}
      <4> HIDE DEF r, c
      <4>1. LastHop(chains[e.id]) # 0
        BY <2>3, <1>1 DEF i, c, r
      <4> QED
        BY <2>1, <2>3, <4>1, SentOn
    <3>3. postCutoff' \subseteq Ids
      BY <3>1 DEF TypeInv
    <3>2. Redirecting(e)
      BY <1>6, <2>3, <3>1, <3>3 DEF Redirecting, OnlyChains, Chains
    <3> QED
      BY <3>2 DEF Outcome
  <2>4. CASE i > 0 /\ ~e.redirect /\ ~Exceed
    <3>1. Passing(e)
      BY <1>1, <1>6, <2>1, <2>4 DEF RequestWillBeSent, Passing
    <3> QED
      BY <3>1 DEF Outcome
  <2> QED
    BY <1>1, <1>4, <2>2, <2>3, <2>4 DEF EventShape
<1>7. CASE ~limitErr /\ e.kind = "received" /\ Counts(e)
  <2>1. ResponseReceived(e)
    BY <1>7 DEF HandleEvent, Apply
  <2>2. CASE i = 0
    <3>1. Passing(e)
      BY <1>1, <1>7, <2>1, <2>2 DEF ResponseReceived, Ignore, recorderVars, Passing
    <3> QED
      BY <3>1 DEF Outcome
  <2>3. CASE i > 0 /\ ~Exceed
    <3>1. Answering(e)
      BY <1>1, <1>7, <2>1, <2>3
      DEF ResponseReceived, Answering, WithAnswer, UpdateReady, Scheduled, Update,
          OnlyChains, Chains
    <3> QED
      BY <3>1 DEF Outcome
  <2> QED
    BY <1>1, <1>4, <2>2, <2>3
<1>8. CASE ~limitErr /\ e.kind = "finished" /\ Counts(e)
  <2>1. LoadingFinished(e)
    BY <1>8 DEF HandleEvent, Apply
  <2>2. CASE i = 0
    <3>1. Scheduled(c) = c
      <4>1. c.entries = <<>> /\ DOMAIN c.entries = {} /\ c \in Chain
        BY <1>1, <2>2, ChainType DEF LastHop
      <4>2. ScheduleReady(c) = c
        BY <4>1 DEF ScheduleReady, Chain
      <4> QED
        BY <4>2 DEF Scheduled
    <3>2. Passing(e)
      BY <1>1, <1>2, <1>8, <2>1, <2>2, <3>1
      DEF LoadingFinished, UpdateReady, Scheduled, Update, Current, Passing
    <3> QED
      BY <3>2 DEF Outcome
  <2>3. CASE i > 0
    <3>1. Finishing(e)
      <4>1. Current(r, "finished") = Flagged(c, i, "finished")
        BY <1>1, <2>3 DEF Current, Flagged
      <4>2. UpdateReady(r, Flagged(c, i, "finished"))
        BY <2>1, <4>1 DEF LoadingFinished
      <4> QED
        BY <1>1, <1>8, <2>3, <4>2
        DEF UpdateReady, Scheduled, Update, Finishing, OnlyChains, Chains
    <3> QED
      BY <3>1 DEF Outcome
  <2> QED
    BY <1>1, <2>2, <2>3
<1>9. CASE ~limitErr /\ e.kind = "failed" /\ Counts(e)
  <2> DEFINE f == Current(r, "failed")
             j == LastHop(f)
             settled == IF j > 0 /\ ~f.entries[j].known
                             /\ \E k \in ExtraKinds : f.pending[k] # <<>>
                        THEN Expect(f, j, TRUE) ELSE f
  <2>0. LoadingFailed(e)
    BY <1>9 DEF HandleEvent, Apply
  <2>1. (j > 0 /\ Exceed) \/ Update(r, settled)
    BY <2>0 DEF LoadingFailed
  <2>4. i > 0 => f = Flagged(c, i, "failed")
    BY DEF Current, Flagged
  <2>5. i > 0 => LastHop(Flagged(c, i, "failed")) = i
    <3> SUFFICES ASSUME i > 0
                 PROVE  LastHop(Flagged(c, i, "failed")) = i
      OBVIOUS
    <3>1. i \in DOMAIN c.entries
      BY <1>1, ChainType
    <3>2. PICK g \in Flags : g = "failed"
      BY DEF Flags
    <3>3. LastHop(Flagged(c, i, g)) = i
      BY <1>1, <3>1, FlagStep
    <3> QED
      BY <3>2, <3>3
  <2>6. i = 0 => f = c
    BY DEF Current
  <2> HIDE DEF f
  <2>7. j = i
    BY <1>1, <2>4, <2>5, <2>6
  <2>2. CASE i = 0
    <3>1. Passing(e)
      <4>1. f = c
        BY <2>2, <2>6
      <4>2. settled = c
        BY <2>2, <2>7, <4>1
      <4>3. Update(r, settled)
        BY <2>1, <2>2, <2>7
      <4> HIDE DEF settled
      <4>4. Update(r, c)
        BY <4>2, <4>3 DEF Update
      <4> QED
        BY <1>1, <1>2, <1>9, <2>2, <4>4 DEF Update, Passing
    <3> QED
      BY <3>1 DEF Outcome
  <2>3. CASE i > 0 /\ ~Exceed
    <3>1. Breaking(e)
      <4> DEFINE d == [c EXCEPT !.entries[i].failed = TRUE]
      <4>0. f = Flagged(c, i, "failed")
        BY <2>3, <2>4
      <4>1. f = d
        BY <4>0 DEF Flagged
      <4>3. Fail(c) = IF ~d.entries[i].known /\ \E k \in ExtraKinds : d.pending[k] # <<>>
                      THEN Expect(d, i, TRUE) ELSE d
        BY DEF Fail
      <4> HIDE DEF d
      <4>4. settled = Fail(c)
        BY <2>3, <2>7, <4>1, <4>3
      <4>5. Update(r, settled)
        BY <2>1, <2>3
      <4> HIDE DEF settled
      <4>2. Update(r, Fail(c))
        BY <4>4, <4>5 DEF Update
      <4> QED
        BY <1>1, <1>9, <2>3, <4>2 DEF Update, Breaking, OnlyChains, Chains
    <3> QED
      BY <3>1 DEF Outcome
  <2> QED
    BY <1>1, <1>4, <2>2, <2>3
<1>10. CASE ~limitErr /\ e.kind = "cached"
  <2>1. Ignore \/ ServedFromCache(e)
    BY <1>10 DEF HandleEvent, Apply
  <2>2. CASE Ignore \/ i = 0
    <3>1. Passing(e)
      BY <1>1, <1>2, <1>10, <2>1, <2>2
      DEF ServedFromCache, Update, Current, Passing, Ignore, recorderVars
    <3> QED
      BY <3>1 DEF Outcome
  <2>3. CASE i > 0 /\ ~Ignore
    <3>1. Caching(e)
      BY <1>1, <1>10, <2>1, <2>3
      DEF ServedFromCache, Update, Current, Flagged, Caching, OnlyChains, Chains
    <3> QED
      BY <3>1 DEF Outcome
  <2> QED
    BY <1>1, <2>2, <2>3
<1>11. ASSUME ~limitErr, NEW k \in ExtraKinds, e.kind = Kind(k)
       PROVE  Outcome(e)
  <2>0. k = "request" \/ k = "response"
    BY DEF ExtraKinds
  <2>1. CASE frozen /\ i = 0
    <3>1. QueueFrozenExtra(e, k)
      BY <1>1, <1>11, <2>0, <2>1 DEF HandleEvent, Kind, HasCapturedRequest
    <3>2. CASE LimitReached
      <4>1. Dropping(e, k)
        BY <1>11, <3>1, <3>2 DEF QueueFrozenExtra, Dropping
      <4> QED
        BY <4>1 DEF Outcome
    <3>3. CASE ~LimitReached /\ ~Exceed
      <4>1. Queueing(e, k)
        <5>1. orphanCount < MaxOrphans
          BY <1>1, <3>3 DEF LimitReached
        <5> QED
          BY <1>11, <2>1, <3>1, <3>3, <5>1
        DEF QueueFrozenExtra, Queueing, ExtraOf, LimitReached
      <4> QED
        BY <4>1 DEF Outcome
    <3> QED
      BY <1>4, <3>2, <3>3
  <2>2. CASE ~(frozen /\ i = 0) /\ ~Exceed
    <3>1. ~(frozen /\ ~HasCapturedRequest(r))
      BY <1>1, <2>2 DEF HasCapturedRequest
    <3>2. CASE k = "request"
      <4>1. RequestExtraInfo(e)
        BY <1>11, <3>1, <3>2 DEF HandleEvent, Kind, Apply
      <4>2. Pairing(e, k)
        BY <1>1, <1>11, <2>2, <3>2, <4>1
        DEF RequestExtraInfo, Update, Pairing, ExtraOf, OnlyChains, Chains
      <4> QED
        BY <4>2 DEF Outcome
    <3>3. CASE k = "response"
      <4>1. ResponseExtraInfo(e)
        BY <1>11, <3>1, <3>3 DEF HandleEvent, Kind, Apply
      <4>2. Pairing(e, k)
        BY <1>1, <1>11, <2>2, <3>3, <4>1
        DEF ResponseExtraInfo, UpdateReady, Scheduled, Update, Pairing, ExtraOf, OnlyChains,
            Chains
      <4> QED
        BY <4>2 DEF Outcome
    <3> QED
      BY <2>0, <3>2, <3>3
  <2> QED
    BY <1>4, <2>1, <2>2
<1>12. e.kind \in {"requestExtra", "responseExtra"} => \E k \in ExtraKinds : e.kind = Kind(k)
  BY DEF Kind, ExtraKinds
<1> HIDE DEF r, c, i
<1> QED
  BY <1>1, <1>3, <1>5, <1>6, <1>7, <1>8, <1>9, <1>10, <1>11, <1>12 DEF Kinds

-----------------------------------------------------------------------------
(* What holds of every chain and every queue.                              *)

LEMMA NewChains ==
  ASSUME TypeInv, NEW e \in EventShape, NEW d \in Chain, Chains(e, d)
  PROVE  /\ chains' \in [Ids -> Chain] /\ chains'[e.id] = d
         /\ \A r \in Ids \ {e.id} : chains'[r] = chains[r]
  BY DEF TypeInv, Chains, EventShape

\* A change of one chain that the queues of orphans do not notice.
LEMMA ChainChange ==
  ASSUME RecInv, NEW e \in EventShape, NEW d \in Chain, OnlyChains(e, d),
         Stable(d), LastHop(chains[e.id]) = 0 => LastHop(d) = 0
  PROVE  RecInv'
<1>1. /\ chains' \in [Ids -> Chain] /\ chains'[e.id] = d
      /\ \A r \in Ids \ {e.id} : chains'[r] = chains[r]
  BY NewChains DEF OnlyChains, RecInv
<1>2. TypeInv'
  BY <1>1 DEF RecInv, TypeInv, OnlyChains, Chains
<1>3. StableInv'
  BY <1>1 DEF RecInv, StableInv
<1>4. Orphans' = Orphans
  BY DEF OnlyChains, Orphans, Queued
<1>5. \A r \in Ids : LastHop(chains[r]) = 0 => LastHop(chains'[r]) = 0
  BY <1>1
<1>6. OrphanInv'
  BY <1>4, <1>5 DEF RecInv, OrphanInv, OnlyChains, Chains
<1> QED
  BY <1>2, <1>3, <1>6 DEF RecInv

\* The last entry of a chain that has one.
LEMMA LastEntry ==
  ASSUME TypeInv, NEW e \in EventShape
  PROVE  /\ e.id \in Ids /\ chains[e.id] \in Chain /\ LastHop(chains[e.id]) \in Nat
         /\ DOMAIN chains[e.id].entries = 1 .. LastHop(chains[e.id])
         /\ LastHop(chains[e.id]) > 0 =>
              LastHop(chains[e.id]) \in DOMAIN chains[e.id].entries
  BY ChainType DEF TypeInv, EventShape

LEMMA ExtraOfType ==
  ASSUME NEW e \in EventShape
  PROVE  ExtraOf(e) \in Extras /\ ExtraOf(e).hop = e.hop /\ ExtraOf(e).noBody = e.noBody
  BY DEF EventShape, ExtraOf, Extra, Extras

LEMMA OutcomeKeepsRec ==
  ASSUME RecInv, NEW e \in EventShape, Outcome(e)
  PROVE  RecInv'
<1> DEFINE r == e.id
           c == chains[r]
           i == LastHop(c)
<1> USE RecorderAssumption
<1>1. /\ TypeInv /\ r \in Ids /\ c \in Chain /\ i \in Nat
      /\ DOMAIN c.entries = 1 .. i /\ (i > 0 => i \in DOMAIN c.entries)
      /\ e.hop \in Nat /\ Stable(c)
  BY LastEntry DEF RecInv, EventShape, StableInv
<1>2. CASE Failing
  <2>1. Orphans' = Orphans
    BY <1>2 DEF Failing, Orphans, Queued
  <2> QED
    BY <1>2, <2>1 DEF Failing, RecInv, TypeInv, OrphanInv, StableInv
<1>3. CASE Passing(e)
  <2>1. Orphans' = Orphans
    BY <1>3 DEF Passing, Orphans, Queued
  <2> QED
    BY <1>3, <2>1 DEF Passing, RecInv, TypeInv, OrphanInv, StableInv
<1>4. CASE Starting(e)
  <2> DEFINE a == Adopt(c, r)
             d == [a EXCEPT !.entries = Append(@, Entry(e.hop))]
  <2>0. frozenExtras[r] \in Tails
    BY <1>1 DEF TypeInv
  <2>1. a \in Chain /\ Stable(a) /\ a.entries = c.entries
    BY <1>1, <1>4, <2>0, AdoptStep DEF Adopt, Starting
  <2> HIDE DEF a
  <2>2. d \in Chain /\ Stable(d) /\ LastHop(d) = 1
    <3>1. LastHop(a) = 0
      BY <1>4, <2>1 DEF LastHop, Starting
    <3>2. d \in Chain /\ Stable(d) /\ LastHop(d) = LastHop(a) + 1
      BY <1>1, <2>1, AppendStep
    <3> HIDE DEF d
    <3> QED
      BY <3>1, <3>2
  <2>3. Chains(e, d)
    BY <1>4 DEF Starting, a
  <2> HIDE DEF d
  <2>4. /\ chains' \in [Ids -> Chain] /\ chains'[r] = d
        /\ \A q \in Ids \ {r} : chains'[q] = chains[q]
    BY <1>1, <2>2, <2>3, NewChains
  <2>5. /\ IsFiniteSet(Orphans')
        /\ Adopted(r) \in Nat /\ Adopted(r) <= orphanCount
        /\ Cardinality(Orphans') = orphanCount - Adopted(r)
        /\ frozenExtras' \in [Ids -> Tails]
        /\ \A k \in ExtraKinds : frozenExtras'[r][k] = <<>>
        /\ \A q \in Ids \ {r} : frozenExtras'[q] = frozenExtras[q]
    <3>1. frozenExtras' = [frozenExtras EXCEPT ![r] = [k \in ExtraKinds |-> <<>>]]
      BY <1>4 DEF Starting
    <3>2. IsFiniteSet(Orphans) /\ orphanCount = Cardinality(Orphans)
      BY DEF RecInv, OrphanInv
    <3> QED
      BY <1>1, <3>1, <3>2, OrphansAdopted
  <2>6. orphanCount' = Cardinality(Orphans') /\ orphanCount' \in 0 .. MaxOrphans
    <3>1. orphanCount' = IF orphanCount < Adopted(r) THEN 0 ELSE orphanCount - Adopted(r)
      BY <1>4 DEF Starting
    <3>2. orphanCount \in 0 .. MaxOrphans
      BY <1>1 DEF TypeInv
    <3> QED
      BY <2>5, <3>1, <3>2
  <2>7. TypeInv'
    BY <2>3, <2>4, <2>5, <2>6 DEF RecInv, TypeInv, Chains
  <2>8. OrphanInv'
    BY <2>3, <2>4, <2>5, <2>6 DEF RecInv, OrphanInv, Chains
  <2>9. StableInv'
    BY <2>2, <2>4 DEF RecInv, StableInv
  <2> QED
    BY <2>7, <2>8, <2>9 DEF RecInv
<1>5. CASE Redirecting(e)
  <2> DEFINE a == Redirect(c, e)
             d == [a EXCEPT !.entries = Append(@, Entry(e.hop))]
  <2>1. a \in Chain /\ Stable(a)
    BY <1>1, <1>5, RedirectStep DEF Redirecting
  <2>2. OnlyChains(e, d) /\ i > 0
    BY <1>5 DEF Redirecting
  <2> HIDE DEF a
  <2>3. d \in Chain /\ Stable(d)
    BY <1>1, <2>1, AppendStep
  <2> HIDE DEF d
  <2> QED
    BY <1>1, <2>2, <2>3, ChainChange
<1>6. CASE Answering(e)
  <2> DEFINE a == WithAnswer(c, e)
             d == Scheduled(a)
  <2>1. a \in Chain /\ Stable(a)
    BY <1>1, <1>6, AnswerStep DEF Answering
  <2>2. OnlyChains(e, d) /\ i > 0
    BY <1>6 DEF Answering
  <2> HIDE DEF a
  <2>3. d \in Chain /\ Stable(d)
    BY <2>1, ScheduledStep
  <2> HIDE DEF d
  <2> QED
    BY <1>1, <2>2, <2>3, ChainChange
<1>7. CASE Finishing(e)
  <2> DEFINE a == Flagged(c, i, "finished")
             d == Scheduled(a)
  <2>1. a \in Chain /\ Stable(a)
    <3>1. PICK f \in Flags : f = "finished"
      BY DEF Flags
    <3>3. i \in DOMAIN c.entries
      BY <1>1, <1>7 DEF Finishing
    <3>2. Flagged(c, i, f) \in Chain /\ Stable(Flagged(c, i, f))
      BY <1>1, <3>3, FlagStable
    <3> QED
      BY <3>1, <3>2
  <2>2. OnlyChains(e, d) /\ i > 0
    BY <1>7 DEF Finishing
  <2> HIDE DEF a
  <2>3. d \in Chain /\ Stable(d)
    BY <2>1, ScheduledStep
  <2> HIDE DEF d
  <2> QED
    BY <1>1, <2>2, <2>3, ChainChange
<1>8. CASE Breaking(e)
  <2> DEFINE d == Fail(c)
  <2>1. OnlyChains(e, d) /\ i > 0
    BY <1>8 DEF Breaking
  <2>2. d \in Chain /\ Stable(d)
    BY <1>1, <2>1, FailStep
  <2> HIDE DEF d
  <2> QED
    BY <1>1, <2>1, <2>2, ChainChange
<1>9. CASE Caching(e)
  <2>1. PICK f \in Flags : f = "cached"
    BY DEF Flags
  <2> DEFINE d == Flagged(c, i, f)
  <2>2. OnlyChains(e, d) /\ i > 0
    BY <1>9, <2>1 DEF Caching
  <2>3. d \in Chain /\ Stable(d)
    <3>1. i \in DOMAIN c.entries
      BY <1>1, <2>2
    <3> QED
      BY <1>1, <3>1, FlagStable
  <2> HIDE DEF d
  <2> QED
    BY <1>1, <2>2, <2>3, ChainChange
<1>10. ASSUME NEW k \in ExtraKinds, Pairing(e, k)
       PROVE  RecInv'
  <2> DEFINE a == AddExtra(c, k, ExtraOf(e))
             d == IF k = "request" THEN a ELSE Scheduled(a)
  <2>1. a \in Chain /\ Stable(a) /\ LastHop(a) = i
    BY <1>1, ExtraOfType, AddExtraStep DEF SameBase
  <2>2. OnlyChains(e, d)
    BY <1>10 DEF Pairing
  <2> HIDE DEF a
  <2>3. d \in Chain /\ Stable(d) /\ LastHop(d) = i
    BY <2>1, ScheduledStep
  <2> HIDE DEF d
  <2> QED
    BY <1>1, <2>2, <2>3, ChainChange
<1>11. ASSUME NEW k \in ExtraKinds, Queueing(e, k)
       PROVE  RecInv'
  <2>1. /\ IsFiniteSet(Orphans') /\ Cardinality(Orphans') = orphanCount + 1
        /\ frozenExtras' \in [Ids -> Tails]
        /\ frozenExtras'[r] = [frozenExtras[r] EXCEPT ![k] = Append(@, ExtraOf(e))]
        /\ \A q \in Ids \ {r} : frozenExtras'[q] = frozenExtras[q]
    <3>1. frozenExtras' = [frozenExtras EXCEPT ![r][k] = Append(@, ExtraOf(e))]
      BY <1>11 DEF Queueing
    <3>2. IsFiniteSet(Orphans) /\ orphanCount = Cardinality(Orphans)
      BY DEF RecInv, OrphanInv
    <3> QED
      BY <1>1, <3>1, <3>2, ExtraOfType, OneMoreOrphan
  <2>2. orphanCount' = Cardinality(Orphans') /\ orphanCount' \in 0 .. MaxOrphans
    BY <1>1, <1>11, <2>1 DEF Queueing, TypeInv
  <2>3. TypeInv'
    BY <1>11, <2>1, <2>2 DEF Queueing, RecInv, TypeInv
  <2>4. OrphanInv'
    BY <1>11, <2>1, <2>2 DEF Queueing, RecInv, OrphanInv
  <2>5. StableInv'
    BY <1>11 DEF Queueing, RecInv, StableInv
  <2> QED
    BY <2>3, <2>4, <2>5 DEF RecInv
<1>12. ASSUME NEW k \in ExtraKinds, Dropping(e, k)
       PROVE  RecInv'
  <2>1. Orphans' = Orphans
    BY <1>12 DEF Dropping, Orphans, Queued
  <2> QED
    BY <1>1, <1>12, <2>1 DEF Dropping, RecInv, TypeInv, OrphanInv, StableInv
<1> QED
  BY <1>2, <1>3, <1>4, <1>5, <1>6, <1>7, <1>8, <1>9, <1>10, <1>11, <1>12 DEF Outcome

-----------------------------------------------------------------------------
(* What the browser sends.                                                 *)

\* Base events are stamped in order.
EnvInv ==
  /\ script \in [Ids -> Scripts] /\ clockRead \in BOOLEAN
  /\ baseAt \in [Ids -> Nat] /\ earlyAt \in [Ids -> Nat]
  /\ extraAt \in [Ids -> [ExtraKinds -> Nat]]
  /\ \A r \in Ids : earlyAt[r] <= baseAt[r]

\* The recorder is frozen as the clock is read, and no event is late before.
ClockInv ==
  /\ clockRead = frozen
  /\ \A r \in Ids : earlyAt[r] < baseAt[r] => clockRead

Length(r) == Len(script[r].hops)
Place(h, n) == 5 * (h - 1) + n

LEMMA PlaceIs ==
  ASSUME NEW h \in Nat \ {0}, NEW n \in 0 .. 4
  PROVE  /\ Place(h, n) \in Nat /\ HopOf(Place(h, n)) = h
         /\ StepOf(Place(h, n)) = Events[n + 1]
<1>1. 5 * (h - 1) + n \in Nat /\ (5 * (h - 1) + n) \div 5 = h - 1
      /\ (5 * (h - 1) + n) % 5 = n
  OBVIOUS
<1> QED
  BY <1>1 DEF Place, HopOf, StepOf

LEMMA PlaceOf ==
  ASSUME NEW b \in Nat
  PROVE  /\ HopOf(b) \in Nat \ {0} /\ b % 5 \in 0 .. 4
         /\ b = Place(HopOf(b), b % 5)
  BY DEF Place, HopOf

LEMMA ScriptOf ==
  ASSUME EnvInv, NEW r \in Ids
  PROVE  /\ IsScript(script[r]) /\ Length(r) \in Nat \ {0}
         /\ DOMAIN script[r].hops = 1 .. Length(r)
         /\ \A h \in 1 .. Length(r) :
              /\ script[r].hops[h] \in Hops
              /\ script[r].hops[h].extra = "request" =>
                   h = Length(r) /\ script[r].end = "blocked"
<1>1. IsScript(script[r])
  BY BrowserAssumption DEF EnvInv
<1>2. script[r].hops \in Seq(Hops) /\ script[r].hops # <<>>
  BY <1>1 DEF IsScript
<1>3. Length(r) \in Nat \ {0} /\ DOMAIN script[r].hops = 1 .. Length(r)
  BY <1>2 DEF Length
<1> QED
  BY <1>1, <1>2, <1>3 DEF IsScript, Length

\* What may happen at a place of a life.
LEMMA OccursAt ==
  ASSUME NEW r \in Ids, NEW h \in Nat \ {0}
  PROVE  /\ Occurs(script[r], Place(h, 0))
         /\ Occurs(script[r], Place(h, 3)) =>
              h = Length(r) /\ script[r].end # "blocked"
         /\ Occurs(script[r], Place(h, 4)) <=> h = Length(r)
<1>1. /\ HopOf(Place(h, 0)) = h /\ StepOf(Place(h, 0)) = "sent"
      /\ HopOf(Place(h, 3)) = h /\ StepOf(Place(h, 3)) = "received"
      /\ HopOf(Place(h, 4)) = h /\ StepOf(Place(h, 4)) = "end"
  BY PlaceIs DEF Events
<1> QED
  BY <1>1 DEF Occurs, Length

\* The base events that are still to come after m of them, and the next one.
ComingFrom(m, r) == {b \in m .. 5 * Len(script[r].hops) - 1 : Occurs(script[r], b)}
NextFrom(m, r)   == CHOOSE b \in ComingFrom(m, r) : \A c \in ComingFrom(m, r) : b <= c

LEMMA NextFromIs ==
  ASSUME EnvInv, NEW r \in Ids, NEW m \in Nat, ComingFrom(m, r) # {}
  PROVE  LET b == NextFrom(m, r) IN
         /\ b \in Nat /\ m <= b /\ HopOf(b) \in 1 .. Length(r) /\ Occurs(script[r], b)
         /\ \A x \in m .. b - 1 : ~Occurs(script[r], x)
<1> DEFINE n == Length(r)
           b == NextFrom(m, r)
           C == ComingFrom(m, r)
<1>1. n \in Nat
  BY ScriptOf
<1>2. C = {x \in m .. 5 * n - 1 : Occurs(script[r], x)}
  BY DEF ComingFrom, Length
<1> HIDE DEF n
<1>3. C \in SUBSET Nat
  BY <1>1, <1>2
<1>4. \E x \in C : \A y \in C : x <= y
  BY <1>3, LeastExists
<1>5. b \in C /\ \A y \in C : b <= y
  BY <1>4 DEF NextFrom
<1> HIDE DEF b, C
<1>6. b \in Nat /\ m <= b /\ b <= 5 * n - 1 /\ Occurs(script[r], b)
  BY <1>1, <1>2, <1>5
<1>7. HopOf(b) \in 1 .. n
  BY <1>1, <1>6 DEF HopOf
<1>8. ASSUME NEW x \in m .. b - 1
      PROVE  ~Occurs(script[r], x)
  <2>1. x \in m .. 5 * n - 1 /\ ~(b <= x)
    BY <1>1, <1>6, <1>8
  <2> QED
    BY <1>2, <1>5, <2>1
<1> QED
  BY <1>6, <1>7, <1>8 DEF n, b

LEMMA NextBaseIs ==
  ASSUME EnvInv, NEW r \in Ids, Coming(r) # {}
  PROVE  /\ NextBase(r) \in Nat /\ baseAt[r] <= NextBase(r)
         /\ HopOf(NextBase(r)) \in 1 .. Length(r)
         /\ Occurs(script[r], NextBase(r))
         /\ \A b \in baseAt[r] .. NextBase(r) - 1 : ~Occurs(script[r], b)
<1>1. Coming(r) = ComingFrom(baseAt[r], r) /\ baseAt[r] \in Nat
  BY DEF Coming, ComingFrom, EnvInv
<1>2. NextBase(r) = NextFrom(baseAt[r], r)
  BY <1>1 DEF NextBase, NextFrom
<1> QED
  BY <1>1, <1>2, NextFromIs

\* What a base event says, by its place n in hop h.
KindAt(r, n) == CASE n = 0 -> "sent" [] n = 1 -> "sent" [] n = 2 -> "cached"
                  [] n = 3 -> "received"
                  [] OTHER -> IF script[r].end = "finished" THEN "finished" ELSE "failed"

LEMMA BaseEventIs ==
  ASSUME EnvInv, NEW r \in Ids, NEW h \in 1 .. Length(r), NEW n \in 0 .. 4, NEW late \in BOOLEAN
  PROVE  LET e == BaseEvent(r, Place(h, n), late)
             g == IF e.redirect THEN h - 1 ELSE h
         IN /\ e \in EventShape /\ e.id = r /\ e.hop = h /\ e.late = late
            /\ e.kind = KindAt(r, n) /\ e.redirect = (n = 0 /\ h > 1)
            /\ g \in 1 .. Length(r)
            /\ e.hasExtra = (script[r].hops[g].extra = "both")
            /\ e.noBody = (script[r].hops[g].noBody /\ script[r].hops[g].extra # "both")
<1> DEFINE b == Place(h, n)
           redirect == n = 0 /\ h > 1
           kind == KindAt(r, n)
           g == IF redirect THEN h - 1 ELSE h
           hx == script[r].hops[g].extra = "both"
           nb == script[r].hops[g].noBody /\ script[r].hops[g].extra # "both"
           x == [id |-> r, kind |-> kind, hop |-> h, late |-> late, redirect |-> redirect,
                 hasExtra |-> hx, noBody |-> nb]
<1>1. h \in Nat \ {0} /\ Length(r) \in Nat
  BY ScriptOf
<1>2. HopOf(b) = h /\ StepOf(b) = Events[n + 1]
  BY <1>1, PlaceIs
<1>3. g \in 1 .. Length(r)
  BY <1>1
<1> HIDE DEF b
<1>4. (StepOf(b) = "sent" /\ h > 1) = redirect
  BY <1>2 DEF Events
<1>5. BaseEvent(r, b, late) = x
  <2>1. kind = CASE StepOf(b) = "again" -> "sent"
                 [] StepOf(b) = "end" -> IF script[r].end = "finished"
                                         THEN "finished" ELSE "failed"
                 [] OTHER -> StepOf(b)
    BY <1>2 DEF Events, KindAt
  <2> HIDE DEF kind, g
  <2>2. Says(r, g) = [hasExtra |-> hx, noBody |-> nb]
    BY DEF Says
  <2>3. g = IF StepOf(b) = "sent" /\ h > 1 THEN h - 1 ELSE h
    BY <1>4 DEF g
  <2> DEFINE y == Event(r, kind, h, late, Says(r, g))
             yes == StepOf(b) = "sent" /\ h > 1
  <2>4. BaseEvent(r, b, late) = [y EXCEPT !.redirect = yes]
    BY <1>2, <2>1, <2>3 DEF BaseEvent
  <2> HIDE DEF hx, nb
  <2>5. y = [id |-> r, kind |-> kind, hop |-> h, late |-> late, redirect |-> FALSE,
             hasExtra |-> hx, noBody |-> nb]
    BY <2>2 DEF Event
  <2> HIDE DEF y, yes
  <2>6. [y EXCEPT !.redirect = yes] =
          [id |-> r, kind |-> kind, hop |-> h, late |-> late, redirect |-> yes,
           hasExtra |-> hx, noBody |-> nb]
    BY <2>5
  <2>7. yes = redirect
    BY <1>4 DEF yes
  <2> HIDE DEF redirect
  <2> QED
    BY <2>4, <2>6, <2>7
<1>6. kind \in Kinds
  BY DEF KindAt, Kinds
<1> HIDE DEF g, kind
<1>7. x \in EventShape
  BY <1>1, <1>6 DEF EventShape
<1> DEFINE e == BaseEvent(r, b, late)
<1> HIDE DEF hx, nb, redirect
<1>8. /\ e \in EventShape /\ e.id = r /\ e.hop = h /\ e.late = late /\ e.kind = kind
      /\ e.redirect = redirect /\ e.hasExtra = hx /\ e.noBody = nb
  BY <1>5, <1>7
<1> HIDE DEF e
<1>9. g = IF e.redirect THEN h - 1 ELSE h
  BY <1>8 DEF g
<1> QED
  BY <1>3, <1>8, <1>9 DEF b, kind, hx, nb, redirect, e

\* The hops with extra info, as the lemmas of ChainProofs want them.
HopsOf(r) == [k \in ExtraKinds |-> ExtraHops(r, k)]

LEMMA HopsOfIs ==
  ASSUME EnvInv, NEW r \in Ids
  PROVE  /\ HopsOf(r) \in HopSets(Length(r)) /\ Length(r) \in Nat
         /\ \A k \in ExtraKinds :
              /\ HopsOf(r)[k] = ExtraHops(r, k) /\ ExtraHops(r, k) \in SUBSET Nat
              /\ ExtraHops(r, k) \in SUBSET (1 .. Length(r)) /\ IsFiniteSet(ExtraHops(r, k))
         /\ \A h \in 1 .. Length(r) :
              /\ h \in HopsOf(r)["response"] <=> script[r].hops[h].extra = "both"
              /\ h \in HopsOf(r)["request"] <=> script[r].hops[h].extra \in {"both", "request"}
<1>1. /\ Length(r) \in Nat /\ DOMAIN script[r].hops = 1 .. Length(r)
      /\ \A h \in 1 .. Length(r) : script[r].hops[h].extra = "request" => h = Length(r)
  BY ScriptOf
<1>2. \A k \in ExtraKinds : /\ HopsOf(r)[k] = ExtraHops(r, k)
                            /\ ExtraHops(r, k) \in SUBSET (1 .. Length(r))
  BY <1>1 DEF HopsOf, ExtraHops
<1>3. \A h \in 1 .. Length(r) :
        /\ h \in HopsOf(r)["response"] <=> script[r].hops[h].extra = "both"
        /\ h \in HopsOf(r)["request"] <=> script[r].hops[h].extra \in {"both", "request"}
  BY <1>1, <1>2 DEF ExtraHops, HasExtra, ExtraKinds
<1>4. HopsOf(r) \in [ExtraKinds -> SUBSET (1 .. Length(r))]
  BY <1>2 DEF HopsOf
<1>5. /\ HopsOf(r)["response"] \subseteq HopsOf(r)["request"]
      /\ HopsOf(r)["request"] \ HopsOf(r)["response"] \subseteq {Length(r)}
  <2>1. HopsOf(r)["response"] \subseteq 1 .. Length(r) /\ HopsOf(r)["request"] \subseteq 1 .. Length(r)
    BY <1>2 DEF ExtraKinds
  <2> QED
    BY <1>1, <1>3, <2>1
<1>6. HopsOf(r) \in HopSets(Length(r))
  BY <1>4, <1>5 DEF HopSets
<1>7. \A k \in ExtraKinds : ExtraHops(r, k) \in SUBSET Nat /\ IsFiniteSet(ExtraHops(r, k))
  BY <1>1, <1>2, <1>6, HopSetType
<1> QED
  BY <1>1, <1>2, <1>3, <1>6, <1>7

\* The next extra info after m of them is about the hop that is next in line.
ExtraFrom(m, r, k) ==
  ExtraEvent(r, k, CHOOSE h \in ExtraHops(r, k) : Rank(ExtraHops(r, k), h) = m + 1)

LEMMA ExtraFromIs ==
  ASSUME EnvInv, NEW r \in Ids, NEW k \in ExtraKinds, NEW m \in Nat,
         m < Cardinality(ExtraHops(r, k))
  PROVE  LET e == ExtraFrom(m, r, k) IN
         /\ e \in EventShape /\ e.id = r /\ e.kind = Kind(k) /\ e.hop \in ExtraHops(r, k)
         /\ Rank(ExtraHops(r, k), e.hop) = m + 1
         /\ e.noBody = script[r].hops[e.hop].noBody
<1> DEFINE S == ExtraHops(r, k)
           A == {x \in S : Rank(S, x) <= m}
           B == {x \in S : Rank(S, x) <= m + 1}
<1>1. m \in Nat /\ S \in SUBSET Nat /\ IsFiniteSet(S) /\ S \in SUBSET (1 .. Length(r))
      /\ Length(r) \in Nat
  BY HopsOfIs
<1>2. m < Cardinality(S) /\ Cardinality(S) \in Nat
  BY <1>1, FS_CardinalityType
<1> HIDE DEF S
<1>3. m + 1 \in Nat /\ m <= Cardinality(S) /\ m + 1 <= Cardinality(S) /\ m # m + 1
  BY <1>1, <1>2
<1>4. Cardinality(A) = m /\ Cardinality(B) = m + 1
  <2>1. Cardinality(A) = m
    BY <1>1, <1>3, RanksAreAll
  <2> DEFINE n == m + 1
  <2>2. n \in Nat /\ n <= Cardinality(S)
    BY <1>3
  <2> HIDE DEF n
  <2>3. Cardinality({x \in S : Rank(S, x) <= n}) = n
    BY <1>1, <2>2, RanksAreAll
  <2> QED
    BY <2>1, <2>3 DEF n
<1>5. A # B
  BY <1>3, <1>4
<1>6. \A x \in S : Rank(S, x) \in Nat
  BY <1>1, RankType
<1>7. \E h \in S : Rank(S, h) = m + 1
  <2>1. \A x \in S : Rank(S, x) <= m => Rank(S, x) <= m + 1
    BY <1>1, <1>6
  <2>2. PICK x \in S : Rank(S, x) <= m + 1 /\ ~(Rank(S, x) <= m)
    BY <1>5, <2>1
  <2>3. Rank(S, x) = m + 1
    BY <1>1, <1>6, <2>2
  <2> QED
    BY <2>3
<1> DEFINE h == CHOOSE x \in S : Rank(S, x) = m + 1
<1>8. h \in S /\ Rank(S, h) = m + 1
  BY <1>7
<1> HIDE DEF h
<1>9. h \in 1 .. Length(r) /\ h \in Nat \ {0}
  BY <1>1, <1>8
<1> DEFINE nb == script[r].hops[h].noBody
           e == [id |-> r, kind |-> Kind(k), hop |-> h, late |-> FALSE,
                 redirect |-> FALSE, hasExtra |-> FALSE, noBody |-> nb]
<1>10. ExtraFrom(m, r, k) = e
  <2>1. ExtraFrom(m, r, k) = ExtraEvent(r, k, h)
    BY DEF ExtraFrom, S, h
  <2> QED
    BY <2>1 DEF ExtraEvent, Event, Kind
<1>11. nb \in BOOLEAN
  BY <1>9, ScriptOf DEF Hops
<1>12. Kind(k) \in Kinds
  BY DEF Kind, Kinds
<1> HIDE DEF nb
<1>13. e \in EventShape /\ e.id = r /\ e.kind = Kind(k) /\ e.hop = h /\ e.noBody = nb
  BY <1>9, <1>11, <1>12 DEF EventShape
<1> HIDE DEF e
<1> QED
  BY <1>8, <1>10, <1>13 DEF S, nb

LEMMA NextExtraIs ==
  ASSUME EnvInv, NEW r \in Ids, NEW k \in ExtraKinds,
         extraAt[r][k] < Cardinality(ExtraHops(r, k))
  PROVE  LET e == NextExtra(r, k) IN
         /\ e \in EventShape /\ e.id = r /\ e.kind = Kind(k) /\ e.hop \in ExtraHops(r, k)
         /\ Rank(ExtraHops(r, k), e.hop) = extraAt[r][k] + 1
         /\ e.noBody = script[r].hops[e.hop].noBody
<1>1. extraAt[r][k] \in Nat /\ NextExtra(r, k) = ExtraFrom(extraAt[r][k], r, k)
  BY DEF EnvInv, NextExtra, ExtraFrom
<1> HIDE DEF EnvInv
<1> QED
  BY <1>1, ExtraFromIs

\* Nothing that an event does touches the freeze.
LEMMA OutcomeKeepsFreeze ==
  ASSUME NEW e, Outcome(e)
  PROVE  frozen' = frozen
  BY DEF Outcome, Failing, Passing, Starting, Redirecting, Answering, Finishing, Breaking,
         Caching, Pairing, Queueing, Dropping, OnlyChains, Chains

-----------------------------------------------------------------------------
(* Every step.                                                             *)

LEMMA InitInv == Init => RecInv /\ EnvInv /\ ClockInv
<1> SUFFICES ASSUME Init
             PROVE  RecInv /\ EnvInv /\ ClockInv
  OBVIOUS
<1> USE RecorderAssumption DEF Init
<1>1. EmptyChain \in Chain /\ NoTail \in Tails /\ Stable(EmptyChain) /\ LastHop(EmptyChain) = 0
  <2>1. [k \in ExtraKinds |-> <<>>] \in [ExtraKinds -> Seq(Extras)]
    OBVIOUS
  <2>2. EmptyChain \in Chain
    BY <2>1 DEF EmptyChain, Chain
  <2>3. EmptyChain.entries = <<>>
    BY DEF EmptyChain
  <2> QED
    BY <2>1, <2>2, <2>3 DEF Tails, NoTail, Stable, LastHop, Needy, Settled
<1>2. /\ \A r \in Ids : chains[r] = EmptyChain /\ frozenExtras[r] = NoTail
      /\ chains \in [Ids -> Chain] /\ frozenExtras \in [Ids -> Tails]
      /\ frozen = FALSE /\ limitErr = FALSE /\ orphanCount = 0 /\ postCutoff = {}
      /\ dropped = {}
  BY <1>1 DEF RecorderInit, NoTail
<1>3. TypeInv
  <2>1. 0 \in 0 .. MaxOrphans
    OBVIOUS
  <2>2. frozen \in BOOLEAN /\ limitErr \in BOOLEAN
    BY <1>2
  <2> QED
    BY <1>2, <2>1, <2>2 DEF TypeInv
<1>4. \A r \in Ids, k \in ExtraKinds : frozenExtras[r][k] = <<>>
  BY <1>2 DEF NoTail
<1>5. Orphans = {}
  <2>1. \A r \in Ids, k \in ExtraKinds : Queued(r, k) = {}
    BY <1>4 DEF Queued
  <2> QED
    BY <2>1 DEF Orphans
<1>6. OrphanInv
  BY <1>2, <1>4, <1>5, FS_EmptySet DEF OrphanInv
<1>7. StableInv
  BY <1>1, <1>2 DEF StableInv
<1>8. EnvInv /\ ClockInv
  <2>1. /\ script \in [Ids -> Scripts] /\ baseAt \in [Ids -> Nat] /\ earlyAt \in [Ids -> Nat]
        /\ extraAt \in [Ids -> [ExtraKinds -> Nat]]
    BY DEF BrowserInit
  <2>2. \A r \in Ids : earlyAt[r] = 0 /\ baseAt[r] = 0
    BY DEF BrowserInit
  <2>3. clockRead \in BOOLEAN /\ clockRead = frozen
    BY <1>2 DEF BrowserInit
  <2> QED
    BY <2>1, <2>2, <2>3 DEF EnvInv, ClockInv
<1> QED
  BY <1>3, <1>6, <1>7, <1>8 DEF RecInv

\* A base event arrives.
LEMMA BaseStep ==
  ASSUME RecInv, EnvInv, NEW r \in Ids, NEW isLate \in BOOLEAN, SendBase(r, isLate),
         NEW buf \in BOOLEAN, HandleEvent(BaseEvent(r, NextBase(r), isLate), buf)
  PROVE  LET b == NextBase(r)
             h == HopOf(b)
             n == b % 5
             e == BaseEvent(r, Place(h, n), isLate)
         IN /\ h \in 1 .. Length(r) /\ n \in 0 .. 4 /\ b = Place(h, n) /\ b \in Nat
            /\ Occurs(script[r], b) /\ e \in EventShape /\ Outcome(e)
            /\ RecInv' /\ EnvInv' /\ (ClockInv => ClockInv')
<1> DEFINE b == NextBase(r)
           h == HopOf(b)
           n == b % 5
           e == BaseEvent(r, Place(h, n), isLate)
<1>1. Coming(r) # {}
  BY DEF SendBase
<1>2. /\ h \in 1 .. Length(r) /\ b \in Nat /\ Occurs(script[r], b) /\ baseAt[r] <= b
  BY <1>1, NextBaseIs
<1>3. b = Place(h, n) /\ n \in 0 .. 4
  BY <1>2, PlaceOf
<1> HIDE DEF b, h, n
<1>4. e \in EventShape
  BY <1>2, <1>3, BaseEventIs
<1>5. HandleEvent(e, buf)
  <2>1. BaseEvent(r, b, isLate) = e
    BY <1>3
  <2>2. HandleEvent(BaseEvent(r, b, isLate), buf)
    BY DEF b
  <2> QED
    BY <2>1, <2>2
<1>6. Outcome(e)
  <2> HIDE DEF e
  <2> QED
    BY <1>4, <1>5, Outcomes DEF RecInv
<1> HIDE DEF e
<1>7. RecInv' /\ frozen' = frozen
  BY <1>4, <1>6, OutcomeKeepsRec, OutcomeKeepsFreeze
<1>8. EnvInv' /\ (ClockInv => ClockInv')
  <2>1. /\ baseAt' = [baseAt EXCEPT ![r] = b + 1] /\ (isLate => clockRead)
        /\ earlyAt' = IF isLate THEN earlyAt ELSE [earlyAt EXCEPT ![r] = b + 1]
        /\ UNCHANGED <<script, extraAt, clockRead>>
    BY DEF SendBase, b
  <2>2. earlyAt[r] \in Nat /\ baseAt[r] \in Nat /\ earlyAt[r] <= baseAt[r]
    BY DEF EnvInv
  <2> QED
    BY <1>2, <1>7, <2>1, <2>2 DEF EnvInv, ClockInv
<1> QED
  BY <1>2, <1>3, <1>4, <1>6, <1>7, <1>8 DEF b, h, n, e

\* An extra info arrives.
LEMMA ExtraStep ==
  ASSUME RecInv, EnvInv, NEW r \in Ids, NEW k \in ExtraKinds, SendExtra(r, k),
         NEW buf \in BOOLEAN, HandleEvent(NextExtra(r, k), buf)
  PROVE  LET e == NextExtra(r, k)
         IN /\ e \in EventShape /\ e.id = r /\ e.kind = Kind(k) /\ e.hop \in ExtraHops(r, k)
            /\ Rank(ExtraHops(r, k), e.hop) = extraAt[r][k] + 1
            /\ e.noBody = script[r].hops[e.hop].noBody
            /\ Outcome(e) /\ RecInv' /\ EnvInv' /\ (ClockInv => ClockInv')
<1> DEFINE e == NextExtra(r, k)
<1>1. extraAt[r][k] < Cardinality(ExtraHops(r, k))
  BY DEF SendExtra
<1>2. /\ e \in EventShape /\ e.id = r /\ e.kind = Kind(k) /\ e.hop \in ExtraHops(r, k)
      /\ Rank(ExtraHops(r, k), e.hop) = extraAt[r][k] + 1
      /\ e.noBody = script[r].hops[e.hop].noBody
  BY <1>1, NextExtraIs
<1>3. Outcome(e)
  <2>2. HandleEvent(e, buf)
    OBVIOUS
  <2> HIDE DEF e
  <2> QED
    BY <1>2, <2>2, Outcomes DEF RecInv
<1> HIDE DEF e
<1>4. RecInv' /\ frozen' = frozen
  BY <1>2, <1>3, OutcomeKeepsRec, OutcomeKeepsFreeze
<1>5. EnvInv' /\ (ClockInv => ClockInv')
  <2>1. extraAt' = [extraAt EXCEPT ![r][k] = @ + 1]
        /\ UNCHANGED <<script, baseAt, earlyAt, clockRead>>
    BY DEF SendExtra
  <2>2. extraAt' \in [Ids -> [ExtraKinds -> Nat]]
    BY <2>1 DEF EnvInv
  <2> QED
    BY <1>4, <2>1, <2>2 DEF EnvInv, ClockInv
<1> QED
  BY <1>2, <1>3, <1>4, <1>5 DEF e

\* The pass at the freeze finds nothing to do.
LEMMA FreezeStep ==
  ASSUME RecInv, EnvInv, Freeze
  PROVE  /\ UNCHANGED <<chains, limitErr, frozenExtras, orphanCount, postCutoff, dropped,
                        script, baseAt, extraAt, earlyAt>>
         /\ RecInv' /\ EnvInv' /\ ClockInv'
<1>1. /\ frozen' = TRUE /\ clockRead' = TRUE
      /\ chains' = [r \in Ids |-> Reconcile(chains[r])]
      /\ UNCHANGED <<limitErr, frozenExtras, orphanCount, postCutoff, dropped,
                     script, baseAt, extraAt, earlyAt>>
  BY DEF Freeze, FreezeAtMonotonic, ReadClock
<1>2. \A r \in Ids : Reconcile(chains[r]) = chains[r]
  BY StableStays DEF RecInv, TypeInv, StableInv
<1>3. chains' = chains
  BY <1>1, <1>2 DEF RecInv, TypeInv
<1>4. Orphans' = Orphans
  BY <1>1 DEF Orphans, Queued
<1>5. RecInv'
  BY <1>1, <1>3, <1>4 DEF RecInv, TypeInv, OrphanInv, StableInv
<1>6. EnvInv' /\ ClockInv'
  BY <1>1 DEF EnvInv, ClockInv
<1> QED
  BY <1>1, <1>3, <1>5, <1>6

-----------------------------------------------------------------------------
(* The cutoff.                                                             *)

\* The places of r's life that its early part has got past.
Reached(r) == {x \in (1 .. Length(r)) \X (0 .. 4) : EarlyPast(r, x[1], x[2])}

\* Chain c holds what the base events at the places R of life s say.
Taken(c, s, R) ==
  /\ DOMAIN c.entries = {h \in DOMAIN s.hops : <<h, 0>> \in R}
  /\ \A i \in DOMAIN c.entries :
       LET e == c.entries[i]
           redirected == i < LastHop(c)
       IN /\ e.hop = i
          /\ e.response = (redirected \/ <<i, 3>> \in R)
          /\ e.finished = (redirected \/ (<<i, 4>> \in R /\ s.end = "finished"))
          /\ e.failed = (<<i, 4>> \in R /\ s.end \in {"failed", "blocked"})

LEMMA ReachedIs ==
  ASSUME EnvInv, NEW r \in Ids, NEW h \in 1 .. Length(r), NEW n \in 0 .. 4
  PROVE  <<h, n>> \in Reached(r) <=> Occurs(script[r], Place(h, n)) /\ earlyAt[r] > Place(h, n)
<1>1. <<h, n>> \in (1 .. Length(r)) \X (0 .. 4)
  OBVIOUS
<1>2. <<h, n>> \in Reached(r) <=> EarlyPast(r, h, n)
  BY <1>1 DEF Reached
<1> QED
  BY <1>2 DEF EarlyPast, Place

\* What EntriesUpToCutoff says of one request.
LEMMA IntakeIs ==
  ASSUME EnvInv, RecInv
  PROVE  EntriesUpToCutoff <=>
           (~limitErr => \A r \in Ids : Taken(chains[r], script[r], Reached(r)))
<1> SUFFICES ASSUME NEW r \in Ids
             PROVE  Taken(chains[r], script[r], Reached(r)) <=>
               /\ Entries(r) = {h \in DOMAIN script[r].hops : EarlyPast(r, h, 0)}
               /\ \A i \in Entries(r) :
                    LET e == chains[r].entries[i]
                        redirected == i < LastHop(chains[r])
                    IN /\ e.hop = i
                       /\ e.response = (redirected \/ EarlyPast(r, i, 3))
                       /\ e.finished = (redirected \/ Ended(r, i, {"finished"}))
                       /\ e.failed = Ended(r, i, {"failed", "blocked"})
  BY DEF EntriesUpToCutoff
<1> DEFINE c == chains[r]
           s == script[r]
           R == Reached(r)
<1>1. DOMAIN s.hops = 1 .. Length(r)
  BY ScriptOf
<1>2. \A h \in DOMAIN s.hops, n \in 0 .. 4 : <<h, n>> \in R <=> EarlyPast(r, h, n)
  BY <1>1, ReachedIs DEF EarlyPast, Place
<1>7. \A h \in DOMAIN s.hops : /\ <<h, 0>> \in R <=> EarlyPast(r, h, 0)
                               /\ <<h, 3>> \in R <=> EarlyPast(r, h, 3)
                               /\ <<h, 4>> \in R <=> EarlyPast(r, h, 4)
  <2>1. 0 \in 0 .. 4 /\ 3 \in 0 .. 4 /\ 4 \in 0 .. 4
    OBVIOUS
  <2> HIDE DEF R, s
  <2> QED
    BY <1>2, <2>1, Zenon
<1>3. {h \in DOMAIN s.hops : <<h, 0>> \in R} = {h \in DOMAIN s.hops : EarlyPast(r, h, 0)}
  <2> HIDE DEF R, s
  <2> QED
    BY <1>7
<1>4. ASSUME DOMAIN c.entries = {h \in DOMAIN s.hops : EarlyPast(r, h, 0)},
             NEW i \in DOMAIN c.entries
      PROVE  /\ <<i, 3>> \in R <=> EarlyPast(r, i, 3)
             /\ <<i, 4>> \in R /\ s.end = "finished" <=> Ended(r, i, {"finished"})
             /\ <<i, 4>> \in R /\ s.end \in {"failed", "blocked"}
                  <=> Ended(r, i, {"failed", "blocked"})
  <2>1. i \in DOMAIN s.hops
    BY <1>4
  <2> QED
    BY <1>7, <2>1 DEF Ended
<1> HIDE DEF R
<1>5. CASE DOMAIN c.entries = {h \in DOMAIN s.hops : EarlyPast(r, h, 0)}
  <2> DEFINE Told(i, a, b, f) ==
               LET e == c.entries[i]
                   redirected == i < LastHop(c)
               IN /\ e.hop = i
                  /\ e.response = (redirected \/ a)
                  /\ e.finished = (redirected \/ b)
                  /\ e.failed = f
             A(i) == <<i, 3>> \in R
             B(i) == <<i, 4>> \in R /\ s.end = "finished"
             F(i) == <<i, 4>> \in R /\ s.end \in {"failed", "blocked"}
  <2>1. Taken(c, s, R) <=> /\ DOMAIN c.entries = {h \in DOMAIN s.hops : <<h, 0>> \in R}
                           /\ \A i \in DOMAIN c.entries : Told(i, A(i), B(i), F(i))
    BY DEF Taken
  <2>2. ASSUME NEW i \in DOMAIN c.entries
        PROVE  /\ A(i) = EarlyPast(r, i, 3) /\ B(i) = Ended(r, i, {"finished"})
               /\ F(i) = Ended(r, i, {"failed", "blocked"})
    <3>1. EarlyPast(r, i, 3) \in BOOLEAN /\ Ended(r, i, {"finished"}) \in BOOLEAN
          /\ Ended(r, i, {"failed", "blocked"}) \in BOOLEAN
      BY DEF EarlyPast, Ended
    <3> QED
      BY <1>4, <1>5, <3>1
  <2> HIDE DEF A, B, F
  <2>3. \A i \in DOMAIN c.entries :
          Told(i, A(i), B(i), F(i)) <=>
            Told(i, EarlyPast(r, i, 3), Ended(r, i, {"finished"}),
                 Ended(r, i, {"failed", "blocked"}))
    BY <2>2
  <2>4. Taken(c, s, R) <=>
          \A i \in DOMAIN c.entries :
            Told(i, EarlyPast(r, i, 3), Ended(r, i, {"finished"}),
                 Ended(r, i, {"failed", "blocked"}))
    BY <1>3, <1>5, <2>1, <2>3
  <2> QED
    BY <1>5, <2>4 DEF Entries, R
<1>6. CASE DOMAIN c.entries # {h \in DOMAIN s.hops : EarlyPast(r, h, 0)}
  BY <1>3, <1>6 DEF Taken, Entries, R
<1> QED
  BY <1>5, <1>6

\* An early base event takes the life one place further; a late one does not.
LEMMA Moves ==
  ASSUME EnvInv, NEW r \in Ids, NEW isLate \in BOOLEAN, SendBase(r, isLate),
         NEW h \in 1 .. Length(r), NEW n \in 0 .. 4, NextBase(r) = Place(h, n)
  PROVE  /\ script' = script /\ \A q \in Ids \ {r} : Reached(q)' = Reached(q)
         /\ isLate => Reached(r)' = Reached(r) /\ clockRead
         /\ ~isLate =>
              /\ Reached(r)' = Reached(r) \cup {<<h, n>>}
              /\ \A m \in n .. 4 : <<h, m>> \notin Reached(r)
              /\ \A g \in 1 .. Length(r) :
                    <<g, 0>> \in Reached(r) <=> g < h \/ (g = h /\ n > 0)
<1> DEFINE b == Place(h, n)
<1>0. h \in Nat \ {0} /\ Length(r) \in Nat
  BY ScriptOf
<1>1. /\ script' = script /\ (isLate => clockRead)
      /\ earlyAt[r] < baseAt[r] => isLate
      /\ earlyAt' = IF isLate THEN earlyAt ELSE [earlyAt EXCEPT ![r] = b + 1]
  BY DEF SendBase, EnvInv
<1>2. /\ baseAt[r] \in Nat /\ earlyAt[r] \in Nat /\ earlyAt[r] <= baseAt[r]
      /\ earlyAt \in [Ids -> Nat]
  BY DEF EnvInv
<1>3. b \in Nat /\ baseAt[r] <= b /\ Occurs(script[r], b)
      /\ \A x \in baseAt[r] .. b - 1 : ~Occurs(script[r], x)
  <2>1. Coming(r) # {}
    BY DEF SendBase
  <2> QED
    BY <2>1, NextBaseIs
<1>4. ASSUME NEW q \in Ids, earlyAt'[q] = earlyAt[q]
      PROVE  Reached(q)' = Reached(q)
  BY <1>1, <1>4 DEF Reached, EarlyPast, Length
<1>5. \A q \in Ids \ {r} : Reached(q)' = Reached(q)
  BY <1>1, <1>2, <1>4
<1>6. isLate => Reached(r)' = Reached(r) /\ clockRead
  BY <1>1, <1>4
<1>7. ASSUME ~isLate
      PROVE  /\ Reached(r)' = Reached(r) \cup {<<h, n>>}
             /\ \A m \in n .. 4 : <<h, m>> \notin Reached(r)
             /\ \A g \in 1 .. Length(r) :
                   <<g, 0>> \in Reached(r) <=> g < h \/ (g = h /\ n > 0)
  <2>1. earlyAt'[r] = b + 1 /\ earlyAt[r] = baseAt[r]
    BY <1>1, <1>2, <1>7
  <2>2. ASSUME NEW g \in 1 .. Length(r), NEW m \in 0 .. 4
        PROVE  /\ Place(g, m) \in Nat /\ (Place(g, m) = b <=> g = h /\ m = n)
               /\ g < h => Place(g, m) < b
               /\ g > h => Place(g, m) > b
               /\ g = h => (Place(g, m) < b <=> m < n)
    BY <1>0 DEF Place
  <2>3. ASSUME NEW g \in 1 .. Length(r), NEW m \in 0 .. 4
        PROVE  (Occurs(script[r], Place(g, m)) /\ b + 1 > Place(g, m))
                 <=> <<g, m>> \in Reached(r) \/ (g = h /\ m = n)
    <3>1. <<g, m>> \in Reached(r) <=>
            Occurs(script[r], Place(g, m)) /\ earlyAt[r] > Place(g, m)
      BY ReachedIs
    <3>2. Place(g, m) \in Nat /\ (Place(g, m) = b <=> g = h /\ m = n)
      BY <2>2
    <3> DEFINE p == Place(g, m)
    <3> HIDE DEF b, p
    <3>3. CASE p = b
      BY <1>3, <3>2, <3>3 DEF p
    <3>4. CASE p > b
      BY <1>2, <1>3, <2>1, <3>1, <3>2, <3>4 DEF p
    <3>5. CASE p < b
      <4>1. Occurs(script[r], p) => earlyAt[r] > p
        <5>1. ~(earlyAt[r] > p) => p \in baseAt[r] .. b - 1
          BY <1>2, <1>3, <2>1, <3>2, <3>5 DEF p
        <5> QED
          BY <1>3, <5>1
      <4> QED
        BY <1>2, <1>3, <2>1, <3>1, <3>2, <3>5, <4>1 DEF p
    <3> QED
      BY <1>3, <3>2, <3>3, <3>4, <3>5 DEF p
  <2>4. Reached(r)' = {x \in (1 .. Length(r)) \X (0 .. 4) :
                         Occurs(script[r], Place(x[1], x[2])) /\ b + 1 > Place(x[1], x[2])}
    BY <1>1, <2>1 DEF Reached, EarlyPast, Length, Place
  <2>5. Reached(r)' = Reached(r) \cup {<<h, n>>}
    <3> HIDE DEF b
    <3>1. Reached(r) \subseteq (1 .. Length(r)) \X (0 .. 4)
      BY DEF Reached
    <3>2. ASSUME NEW x \in (1 .. Length(r)) \X (0 .. 4)
          PROVE  x \in Reached(r)' <=> x \in Reached(r) \cup {<<h, n>>}
      <4>1. x = <<x[1], x[2]>> /\ x[1] \in 1 .. Length(r) /\ x[2] \in 0 .. 4
        OBVIOUS
      <4>2. (Occurs(script[r], Place(x[1], x[2])) /\ b + 1 > Place(x[1], x[2]))
              <=> <<x[1], x[2]>> \in Reached(r) \/ (x[1] = h /\ x[2] = n)
        BY <2>3, <4>1
      <4>3. x = <<h, n>> <=> x[1] = h /\ x[2] = n
        BY <4>1
      <4> QED
        BY <2>4, <4>1, <4>2, <4>3
    <3>3. <<h, n>> \in (1 .. Length(r)) \X (0 .. 4)
      OBVIOUS
    <3>4. Reached(r)' \subseteq (1 .. Length(r)) \X (0 .. 4)
      BY <2>4
    <3> QED
      BY <3>1, <3>2, <3>3, <3>4
  <2>6. ASSUME NEW m \in n .. 4
        PROVE  <<h, m>> \notin Reached(r)
    <3>1. m \in 0 .. 4 /\ ~(m < n)
      OBVIOUS
    <3>2. ~(Place(h, m) < b) /\ Place(h, m) \in Nat
      BY <2>2, <3>1
    <3>3. <<h, m>> \in Reached(r) => earlyAt[r] > Place(h, m)
      BY <3>1, ReachedIs
    <3> HIDE DEF b
    <3> QED
      BY <1>2, <1>3, <2>1, <3>2, <3>3
  <2>7. ASSUME NEW g \in 1 .. Length(r)
        PROVE  <<g, 0>> \in Reached(r) <=> g < h \/ (g = h /\ n > 0)
    <3>1. /\ Place(g, 0) \in Nat /\ (Place(g, 0) = b <=> g = h /\ 0 = n)
          /\ g < h => Place(g, 0) < b
          /\ g > h => Place(g, 0) > b
          /\ g = h => (Place(g, 0) < b <=> 0 < n)
      BY <2>2
    <3>2. (Occurs(script[r], Place(g, 0)) /\ b + 1 > Place(g, 0))
            <=> <<g, 0>> \in Reached(r) \/ (g = h /\ 0 = n)
      <4>1. 0 \in 0 .. 4
        OBVIOUS
      <4> QED
        BY <2>3, <4>1, Zenon
    <3>3. Occurs(script[r], Place(g, 0))
      BY <1>0, OccursAt
    <3>4. 0 = n => <<h, 0>> \notin Reached(r)
      BY <2>6
    <3> HIDE DEF b
    <3>5. b + 1 > Place(g, 0) <=> g < h \/ g = h
      BY <1>0, <1>3, <3>1
    <3>6. n > 0 <=> 0 # n
      OBVIOUS
    <3> QED
      BY <1>0, <3>2, <3>3, <3>4, <3>5, <3>6
  <2> QED
    BY <2>5, <2>6, <2>7
<1> QED
  BY <1>1, <1>5, <1>6, <1>7

\* What the cutoff is about.
TakenFields == {"hop", "response", "finished", "failed"}

LEMMA TakenSame ==
  ASSUME NEW c, NEW d, NEW s, NEW R, NEW Q, Taken(c, s, R),
         DOMAIN d.entries = DOMAIN c.entries, LastHop(d) = LastHop(c),
         \A i \in DOMAIN c.entries : \A f \in TakenFields : d.entries[i][f] = c.entries[i][f],
         \A h \in DOMAIN s.hops : /\ <<h, 0>> \in Q <=> <<h, 0>> \in R
                                  /\ <<h, 3>> \in Q <=> <<h, 3>> \in R
                                  /\ <<h, 4>> \in Q <=> <<h, 4>> \in R
  PROVE  Taken(d, s, Q)
<1>1. DOMAIN c.entries = {h \in DOMAIN s.hops : <<h, 0>> \in R}
  BY DEF Taken
<1>2. DOMAIN d.entries = {h \in DOMAIN s.hops : <<h, 0>> \in Q}
  BY <1>1
<1>3. ASSUME NEW i \in DOMAIN d.entries
      PROVE  LET e == d.entries[i]
                 redirected == i < LastHop(d)
             IN /\ e.hop = i
                /\ e.response = (redirected \/ <<i, 3>> \in Q)
                /\ e.finished = (redirected \/ (<<i, 4>> \in Q /\ s.end = "finished"))
                /\ e.failed = (<<i, 4>> \in Q /\ s.end \in {"failed", "blocked"})
  <2>1. i \in DOMAIN s.hops /\ i \in DOMAIN c.entries
    BY <1>1
  <2>2. /\ d.entries[i].hop = c.entries[i].hop
        /\ d.entries[i].response = c.entries[i].response
        /\ d.entries[i].finished = c.entries[i].finished
        /\ d.entries[i].failed = c.entries[i].failed
    BY <2>1 DEF TakenFields
  <2> DEFINE a == <<i, 3>> \in R
             b == <<i, 4>> \in R
  <2>3. /\ <<i, 3>> \in Q <=> a
        /\ <<i, 4>> \in Q <=> b
    BY <2>1, Zenon
  <2>4. /\ c.entries[i].hop = i
        /\ c.entries[i].response = (i < LastHop(c) \/ a)
        /\ c.entries[i].finished = (i < LastHop(c) \/ (b /\ s.end = "finished"))
        /\ c.entries[i].failed = (b /\ s.end \in {"failed", "blocked"})
    BY <2>1 DEF Taken
  <2> HIDE DEF a, b
  <2> QED
    BY <2>2, <2>3, <2>4
<1> QED
  BY <1>2, <1>3 DEF Taken

\* The next hop starts: the one before it has been redirected.
LEMMA TakenAppend ==
  ASSUME NEW c \in Chain, NEW d \in Chain, NEW s, NEW R, NEW h \in DOMAIN s.hops,
         NEW n \in Nat, DOMAIN s.hops = 1 .. n,
         Taken(c, s, R), LastHop(c) = h - 1, LastHop(d) = h, d.entries[h] = Entry(h),
         <<h, 3>> \notin R, <<h, 4>> \notin R,
         \A g \in DOMAIN s.hops : <<g, 0>> \in R => g < h,
         \A i \in DOMAIN c.entries :
           /\ d.entries[i].hop = c.entries[i].hop /\ d.entries[i].failed = c.entries[i].failed
           /\ i = h - 1 => d.entries[i].response = TRUE /\ d.entries[i].finished = TRUE
           /\ i # h - 1 => /\ d.entries[i].response = c.entries[i].response
                           /\ d.entries[i].finished = c.entries[i].finished
  PROVE  Taken(d, s, R \cup {<<h, 0>>})
<1> DEFINE Q == R \cup {<<h, 0>>}
<1>1. /\ DOMAIN c.entries = 1 .. h - 1 /\ DOMAIN d.entries = 1 .. h /\ h \in Nat \ {0}
      /\ h \in 1 .. n
  BY ChainType
<1>2. DOMAIN c.entries = {g \in DOMAIN s.hops : <<g, 0>> \in R}
  BY DEF Taken
<1>3. \A g : /\ <<g, 3>> \in Q <=> <<g, 3>> \in R
             /\ <<g, 4>> \in Q <=> <<g, 4>> \in R
             /\ <<g, 0>> \in Q <=> <<g, 0>> \in R \/ g = h
  OBVIOUS
<1> HIDE DEF Q
<1>4. DOMAIN d.entries = {g \in DOMAIN s.hops : <<g, 0>> \in Q}
  <2>1. {g \in DOMAIN s.hops : <<g, 0>> \in Q}
          = {g \in DOMAIN s.hops : <<g, 0>> \in R} \cup {h}
    BY <1>3
  <2>2. 1 .. h = (1 .. h - 1) \cup {h}
    BY <1>1
  <2> QED
    BY <1>1, <1>2, <2>1, <2>2
<1>5. ASSUME NEW i \in DOMAIN d.entries
      PROVE  LET e == d.entries[i]
                 redirected == i < LastHop(d)
             IN /\ e.hop = i
                /\ e.response = (redirected \/ <<i, 3>> \in Q)
                /\ e.finished = (redirected \/ (<<i, 4>> \in Q /\ s.end = "finished"))
                /\ e.failed = (<<i, 4>> \in Q /\ s.end \in {"failed", "blocked"})
  <2>1. CASE i = h
    <3>0. <<i, 3>> \notin Q /\ <<i, 4>> \notin Q
      BY <1>3, <2>1, Zenon
    <3>1. ~(i < LastHop(d)) /\ <<i, 3>> \notin Q /\ <<i, 4>> \notin Q
      BY <1>1, <2>1, <3>0
    <3>2. /\ d.entries[i].hop = h /\ d.entries[i].response = FALSE
          /\ d.entries[i].finished = FALSE /\ d.entries[i].failed = FALSE
      BY <2>1 DEF Entry
    <3> QED
      BY <2>1, <3>1, <3>2
  <2>2. CASE i # h
    <3>1. i \in DOMAIN c.entries /\ i < LastHop(d) /\ i \in Nat
      BY <1>1, <2>2
    <3> DEFINE a == <<i, 3>> \in R
               b == <<i, 4>> \in R
    <3>2. /\ c.entries[i].hop = i
          /\ c.entries[i].response = (i < LastHop(c) \/ a)
          /\ c.entries[i].finished = (i < LastHop(c) \/ (b /\ s.end = "finished"))
          /\ c.entries[i].failed = (b /\ s.end \in {"failed", "blocked"})
      BY <3>1 DEF Taken
    <3>3. /\ <<i, 3>> \in Q <=> a
          /\ <<i, 4>> \in Q <=> b
      BY <1>3, Zenon
    <3> HIDE DEF a, b
    <3>4. /\ d.entries[i].hop = i
          /\ d.entries[i].failed = (b /\ s.end \in {"failed", "blocked"})
      BY <3>1, <3>2
    <3>5. d.entries[i].response = TRUE /\ d.entries[i].finished = TRUE
      <4>1. CASE i = h - 1
        BY <3>1, <4>1
      <4>2. CASE i # h - 1
        <5>1. i < LastHop(c)
          BY <1>1, <3>1, <4>2
        <5>2. c.entries[i].response = TRUE /\ c.entries[i].finished = TRUE
          BY <3>2, <5>1
        <5> QED
          BY <3>1, <4>2, <5>2
      <4> QED
        BY <4>1, <4>2
    <3> QED
      BY <3>1, <3>3, <3>4, <3>5
  <2> QED
    BY <2>1, <2>2
<1> QED
  BY <1>4, <1>5 DEF Taken, Q

\* The last hop is answered (n = 3) or ends (n = 4).
LEMMA TakenLast ==
  ASSUME NEW c, NEW d, NEW s, NEW R, NEW h \in DOMAIN c.entries, NEW n \in {3, 4},
         Taken(c, s, R), LastHop(c) = h, LastHop(d) = h, h \in Nat,
         DOMAIN d.entries = DOMAIN c.entries,
         s.end \in {"finished", "failed", "blocked"}, <<h, n>> \notin R,
         d.entries[h].hop = c.entries[h].hop,
         d.entries[h].response = IF n = 3 THEN TRUE ELSE c.entries[h].response,
         d.entries[h].finished = IF n = 4 /\ s.end = "finished" THEN TRUE
                                 ELSE c.entries[h].finished,
         d.entries[h].failed = IF n = 4 /\ s.end # "finished" THEN TRUE
                               ELSE c.entries[h].failed,
         \A i \in DOMAIN c.entries \ {h} : \A f \in TakenFields :
           d.entries[i][f] = c.entries[i][f]
  PROVE  Taken(d, s, R \cup {<<h, n>>})
<1> DEFINE Q == R \cup {<<h, n>>}
<1>1. \A g : /\ <<g, 3>> \in Q <=> <<g, 3>> \in R \/ (g = h /\ n = 3)
             /\ <<g, 4>> \in Q <=> <<g, 4>> \in R \/ (g = h /\ n = 4)
             /\ <<g, 0>> \in Q <=> <<g, 0>> \in R
  OBVIOUS
<1> HIDE DEF Q
<1>2. DOMAIN d.entries = {g \in DOMAIN s.hops : <<g, 0>> \in Q}
  BY <1>1 DEF Taken
<1>3. ASSUME NEW i \in DOMAIN d.entries
      PROVE  LET e == d.entries[i]
                 redirected == i < LastHop(d)
             IN /\ e.hop = i
                /\ e.response = (redirected \/ <<i, 3>> \in Q)
                /\ e.finished = (redirected \/ (<<i, 4>> \in Q /\ s.end = "finished"))
                /\ e.failed = (<<i, 4>> \in Q /\ s.end \in {"failed", "blocked"})
  <2> DEFINE a == <<i, 3>> \in R
             b == <<i, 4>> \in R
  <2>1. /\ c.entries[i].hop = i
        /\ c.entries[i].response = (i < LastHop(c) \/ a)
        /\ c.entries[i].finished = (i < LastHop(c) \/ (b /\ s.end = "finished"))
        /\ c.entries[i].failed = (b /\ s.end \in {"failed", "blocked"})
    BY DEF Taken
  <2>2. /\ <<i, 3>> \in Q <=> a \/ (i = h /\ n = 3)
        /\ <<i, 4>> \in Q <=> b \/ (i = h /\ n = 4)
    BY <1>1, Zenon
  <2> HIDE DEF a, b
  <2>3. CASE i # h
    BY <2>1, <2>2, <2>3 DEF TakenFields
  <2>4. CASE i = h /\ n = 3
    BY <2>1, <2>2, <2>4
  <2>5. CASE i = h /\ n = 4 /\ s.end = "finished"
    <3>1. b = FALSE
      BY <2>5 DEF b
    <3> QED
      BY <2>1, <2>2, <2>5, <3>1
  <2>6. CASE i = h /\ n = 4 /\ s.end # "finished"
    <3>1. b = FALSE
      BY <2>6 DEF b
    <3> QED
      BY <2>1, <2>2, <2>6, <3>1
  <2> QED
    BY <2>3, <2>4, <2>5, <2>6
<1> QED
  BY <1>2, <1>3 DEF Taken, Q

TakenInv == ~limitErr => \A r \in Ids : Taken(chains[r], script[r], Reached(r))

\* It is enough to look at the chain that changes.
LEMMA TakenElsewhere ==
  ASSUME TakenInv, ~limitErr, NEW r \in Ids, script' = script,
         \A q \in Ids \ {r} : chains'[q] = chains[q] /\ Reached(q)' = Reached(q),
         Taken(chains'[r], script[r], Reached(r)')
  PROVE  TakenInv'
<1> SUFFICES ASSUME NEW q \in Ids
             PROVE  Taken(chains'[q], script'[q], Reached(q)')
  BY DEF TakenInv
<1>1. CASE q = r
  BY <1>1
<1>2. CASE q # r
  BY <1>2 DEF TakenInv
<1> QED
  BY <1>1, <1>2

LEMMA FlagElsewhere ==
  ASSUME NEW c \in Chain, NEW i \in DOMAIN c.entries, NEW f \in Flags, NEW g \in BaseFields,
         g # f
  PROVE  Flagged(c, i, f).entries[i][g] = c.entries[i][g]
<1>1. c.entries[i] \in EntryShape
  BY EntryOf
<1>2. g \in DOMAIN c.entries[i] \ {f}
  BY <1>1 DEF EntryShape, BaseFields
<1> HIDE DEF BaseFields
<1> QED
  BY <1>2, FlagStep

\* Setting a flag and scheduling a fetch are seen in those fields only.
LEMMA FlagFields ==
  ASSUME NEW c \in Chain, NEW i \in DOMAIN c.entries, NEW f \in Flags
  PROVE  LET d == Flagged(c, i, f) IN
         /\ d \in Chain /\ DOMAIN d.entries = DOMAIN c.entries /\ LastHop(d) = LastHop(c)
         /\ d.entries[i][f] /\ (Stable(c) => Stable(d)) /\ StaysInStep(c, d)
         /\ \A g \in BaseFields \ {f} : d.entries[i][g] = c.entries[i][g]
         /\ \A j \in DOMAIN c.entries \ {i} : \A g \in BaseFields :
              d.entries[j][g] = c.entries[j][g]
<1> DEFINE d == Flagged(c, i, f)
<1>1. /\ d \in Chain /\ DOMAIN d.entries = DOMAIN c.entries /\ LastHop(d) = LastHop(c)
      /\ d.entries[i][f] /\ (Stable(c) => Stable(d)) /\ StaysInStep(c, d)
      /\ \A j \in DOMAIN c.entries \ {i} : d.entries[j] = c.entries[j]
  BY FlagStep
<1>2. \A g \in BaseFields \ {f} : d.entries[i][g] = c.entries[i][g]
  BY FlagElsewhere
<1> HIDE DEF d
<1> QED
  BY <1>1, <1>2 DEF d

LEMMA ScheduledFields ==
  ASSUME NEW c \in Chain
  PROVE  LET d == Scheduled(c) IN
         /\ d \in Chain /\ DOMAIN d.entries = DOMAIN c.entries /\ LastHop(d) = LastHop(c)
         /\ (Stable(c) => Stable(d)) /\ StaysInStep(c, d)
         /\ \A i \in DOMAIN c.entries : \A g \in BaseFields \ {"scheduled", "asks"} :
              d.entries[i][g] = c.entries[i][g]
<1> DEFINE d == Scheduled(c)
<1>1. /\ d \in Chain /\ DOMAIN d.entries = DOMAIN c.entries /\ LastHop(d) = LastHop(c)
      /\ (Stable(c) => Stable(d)) /\ StaysInStep(c, d)
      /\ \A i \in DOMAIN c.entries : \A g \in DOMAIN c.entries[i] \ {"scheduled", "asks"} :
           d.entries[i][g] = c.entries[i][g]
  BY ScheduledStep
<1> HIDE DEF d
<1>2. ASSUME NEW i \in DOMAIN c.entries
      PROVE  BaseFields \ {"scheduled", "asks"} \subseteq DOMAIN c.entries[i] \ {"scheduled", "asks"}
  <2>1. c.entries[i] \in EntryShape
    BY EntryOf
  <2> QED
    BY <2>1 DEF EntryShape, BaseFields
<1> QED
  BY <1>1, <1>2 DEF d

\* Which outcomes a base event can have, by its place.
LEMMA BaseOutcome ==
  ASSUME RecInv, EnvInv, ClockInv, TakenInv, NEW r \in Ids, NEW isLate \in BOOLEAN,
         SendBase(r, isLate),
         NEW h \in 1 .. Length(r), NEW n \in 0 .. 4, NextBase(r) = Place(h, n),
         Occurs(script[r], Place(h, n)), Outcome(BaseEvent(r, Place(h, n), isLate)), ~limitErr'
  PROVE  LET e == BaseEvent(r, Place(h, n), isLate) IN
         /\ ~limitErr /\ limitErr' = limitErr
         /\ isLate => Passing(e) \/ Caching(e)
         /\ ~isLate => LastHop(chains[r]) = IF n = 0 THEN h - 1 ELSE h
         /\ ~isLate /\ n = 0 /\ h = 1 => Starting(e)
         /\ ~isLate /\ n = 0 /\ h > 1 => Redirecting(e)
         /\ ~isLate /\ n \in {1, 2} => Passing(e) \/ Caching(e)
         /\ ~isLate /\ n = 3 => Answering(e) /\ h = Length(r) /\ script[r].end # "blocked"
         /\ ~isLate /\ n = 4 => /\ h = Length(r)
                                /\ script[r].end = "finished" => Finishing(e)
                                /\ script[r].end # "finished" => Breaking(e)
<1> DEFINE e == BaseEvent(r, Place(h, n), isLate)
           i == LastHop(chains[r])
<1>1. /\ e \in EventShape /\ e.id = r /\ e.hop = h /\ e.late = isLate
      /\ e.kind = KindAt(r, n) /\ e.redirect = (n = 0 /\ h > 1)
  BY BaseEventIs
<1>2. Outcome(e)
  OBVIOUS
<1> HIDE DEF e
<1>3. h \in Nat \ {0} /\ Length(r) \in Nat /\ DOMAIN script[r].hops = 1 .. Length(r)
  BY ScriptOf
<1>4. ~limitErr /\ limitErr' = limitErr /\ ~Failing
  BY <1>2 DEF Outcome, Failing, Passing, Starting, Redirecting, Answering, Finishing, Breaking,
         Caching, Pairing, Queueing, Dropping, OnlyChains, Chains
<1>5. e.kind # "requestExtra" /\ e.kind # "responseExtra"
  BY <1>1 DEF KindAt
<1>6. ~\E k \in ExtraKinds : Pairing(e, k) \/ Queueing(e, k) \/ Dropping(e, k)
  BY <1>5 DEF Pairing, Queueing, Dropping, Kind
<1>7. \/ Passing(e) \/ Starting(e) \/ Redirecting(e)
      \/ Answering(e) \/ Finishing(e) \/ Breaking(e) \/ Caching(e)
  BY <1>2, <1>4, <1>6 DEF Outcome
<1>8. ASSUME isLate
      PROVE  Passing(e) \/ Caching(e)
  <2>2. frozen
    BY <1>8, Moves DEF ClockInv
  <2>3. e.late
    BY <1>1, <1>8
  <2>1. ~Counts(e)
    BY <2>2, <2>3 DEF Counts
  <2> QED
    BY <1>7, <2>1 DEF Starting, Redirecting, Answering, Finishing, Breaking
<1>9. ASSUME ~isLate
      PROVE  i = IF n = 0 THEN h - 1 ELSE h
  <2>1. \A g \in 1 .. Length(r) : <<g, 0>> \in Reached(r) <=> g < h \/ (g = h /\ n > 0)
    BY <1>9, Moves
  <2>2. 1 .. i = {g \in 1 .. Length(r) : <<g, 0>> \in Reached(r)} /\ i \in Nat
    <3>1. Taken(chains[r], script[r], Reached(r))
      BY <1>4 DEF TakenInv
    <3>2. DOMAIN chains[r].entries = 1 .. i /\ i \in Nat
      BY ChainType DEF RecInv, TypeInv
    <3> QED
      BY <1>3, <3>1, <3>2 DEF Taken
  <2> HIDE DEF i
  <2>3. \A g \in 1 .. Length(r) : g \in 1 .. i <=> g < h \/ (g = h /\ n > 0)
    BY <2>1, <2>2
  <2>4. \A g \in 1 .. i : g \in 1 .. Length(r)
    BY <2>2
  <2>5. CASE n = 0
    <3>1. h \notin 1 .. i
      BY <1>3, <2>3, <2>5
    <3>2. h > 1 => h - 1 \in 1 .. i
      BY <1>3, <2>3, <2>5
    <3> QED
      BY <1>3, <2>2, <2>5, <3>1, <3>2
  <2>6. CASE n # 0
    <3>1. h \in 1 .. i
      BY <1>3, <2>3, <2>6
    <3>2. h + 1 \notin 1 .. i
      BY <1>3, <2>3, <2>4
    <3> QED
      BY <1>3, <2>2, <2>6, <3>1, <3>2
  <2> QED
    BY <2>5, <2>6
<1>10. ASSUME ~isLate, n \in {0, 1}
       PROVE  /\ n = 0 /\ h = 1 => Starting(e)
              /\ n = 0 /\ h > 1 => Redirecting(e)
              /\ n = 1 => Passing(e)
  <2>1. e.kind = "sent" /\ ~e.late
    BY <1>1, <1>10 DEF KindAt
  <2>2. Passing(e) \/ Starting(e) \/ Redirecting(e)
    BY <1>7, <2>1 DEF Answering, Finishing, Breaking, Caching
  <2>3. Passing(e) => ~e.redirect /\ i > 0
    BY <1>1, <2>1 DEF Passing
  <2>4. (Starting(e) => i = 0) /\ (Redirecting(e) => i > 0 /\ e.redirect)
    BY <1>1 DEF Starting, Redirecting
  <2> HIDE DEF i
  <2>5. e.redirect <=> n = 0 /\ h > 1
    BY <1>1
  <2>6. CASE n = 0 /\ h = 1
    <3>1. i = 0
      BY <1>9, <1>10, <2>6
    <3> QED
      BY <2>2, <2>3, <2>4, <2>6, <3>1
  <2>7. CASE n = 0 /\ h > 1
    <3>1. i > 0 /\ e.redirect
      BY <1>3, <1>9, <1>10, <2>5, <2>7
    <3> QED
      BY <2>2, <2>3, <2>4, <2>7, <3>1
  <2>8. CASE n = 1
    <3>1. i > 0 /\ ~e.redirect
      BY <1>3, <1>9, <1>10, <2>5, <2>8
    <3> QED
      BY <2>2, <2>3, <2>4, <2>8, <3>1
  <2> QED
    BY <1>3, <1>10, <2>6, <2>7, <2>8
<1>11. ASSUME ~isLate, n = 2
       PROVE  Passing(e) \/ Caching(e)
  <2>1. e.kind = "cached"
    BY <1>1, <1>11 DEF KindAt
  <2> QED
    BY <1>7, <2>1 DEF Starting, Redirecting, Answering, Finishing, Breaking
<1>12. ASSUME ~isLate, n = 3
       PROVE  Answering(e) /\ h = Length(r) /\ script[r].end # "blocked"
  <2>1. e.kind = "received" /\ ~e.late
    BY <1>1, <1>12 DEF KindAt
  <2>2. Passing(e) \/ Answering(e)
    BY <1>7, <2>1 DEF Starting, Redirecting, Finishing, Breaking, Caching
  <2>3. Passing(e) => i = 0
    BY <1>1, <2>1 DEF Passing
  <2>4. h = Length(r) /\ script[r].end # "blocked"
    BY <1>3, <1>12, OccursAt
  <2> HIDE DEF i
  <2> QED
    BY <1>3, <1>9, <1>12, <2>2, <2>3, <2>4
<1>13. ASSUME ~isLate, n = 4
       PROVE  /\ h = Length(r)
              /\ script[r].end = "finished" => Finishing(e)
              /\ script[r].end # "finished" => Breaking(e)
  <2>1. /\ ~e.late
        /\ e.kind = IF script[r].end = "finished" THEN "finished" ELSE "failed"
    BY <1>1, <1>13 DEF KindAt
  <2>2. Passing(e) \/ Finishing(e) \/ Breaking(e)
    BY <1>7, <2>1 DEF Starting, Redirecting, Answering, Caching
  <2>3. Passing(e) => i = 0
    BY <1>1, <2>1 DEF Passing
  <2>4. (Finishing(e) => e.kind = "finished") /\ (Breaking(e) => e.kind = "failed")
    BY DEF Finishing, Breaking
  <2>5. h = Length(r)
    BY <1>3, <1>13, OccursAt
  <2> HIDE DEF i
  <2> QED
    BY <1>3, <1>9, <1>13, <2>1, <2>2, <2>3, <2>4, <2>5
<1> QED
  BY <1>4, <1>8, <1>9, <1>10, <1>11, <1>12, <1>13 DEF e, i

\* What Caching does to a chain.
LEMMA CachingIs ==
  ASSUME TypeInv, NEW e \in EventShape, Caching(e)
  PROVE  LET c == chains[e.id]
             d == Flagged(c, LastHop(c), "cached")
         IN /\ OnlyChains(e, d) /\ d \in Chain
            /\ DOMAIN d.entries = DOMAIN c.entries /\ LastHop(d) = LastHop(c)
            /\ StaysInStep(c, d)
            /\ \A i \in DOMAIN c.entries : \A g \in BaseFields \ {"cached"} :
                 d.entries[i][g] = c.entries[i][g]
<1> DEFINE c == chains[e.id]
           i == LastHop(c)
           d == Flagged(c, i, "cached")
<1>1. c \in Chain /\ i \in DOMAIN c.entries /\ OnlyChains(e, d)
  BY LastEntry DEF Caching
<1>2. PICK f \in Flags : f = "cached"
  BY DEF Flags
<1> DEFINE x == Flagged(c, i, f)
<1> HIDE DEF c, i
<1>3. /\ x \in Chain /\ DOMAIN x.entries = DOMAIN c.entries /\ LastHop(x) = LastHop(c)
      /\ StaysInStep(c, x)
      /\ \A g \in BaseFields \ {f} : x.entries[i][g] = c.entries[i][g]
      /\ \A j \in DOMAIN c.entries \ {i} : \A g \in BaseFields :
           x.entries[j][g] = c.entries[j][g]
  BY <1>1, FlagFields
<1>4. d = x
  BY <1>2
<1> HIDE DEF d, x
<1>5. \A j \in DOMAIN c.entries : \A g \in BaseFields \ {"cached"} :
        d.entries[j][g] = c.entries[j][g]
  BY <1>2, <1>3, <1>4
<1> QED
  BY <1>1, <1>3, <1>4, <1>5 DEF c, i, d

LEMMA BaseKeepsTaken ==
  ASSUME RecInv, EnvInv, ClockInv, TakenInv, NEW r \in Ids, NEW isLate \in BOOLEAN,
         SendBase(r, isLate),
         NEW buf \in BOOLEAN, HandleEvent(BaseEvent(r, NextBase(r), isLate), buf)
  PROVE  TakenInv'
<1> SUFFICES ASSUME ~limitErr'
             PROVE  TakenInv'
  BY DEF TakenInv
<1> DEFINE h == HopOf(NextBase(r))
           n == NextBase(r) % 5
           e == BaseEvent(r, Place(h, n), isLate)
           c == chains[r]
           s == script[r]
           R == Reached(r)
           g == IF e.redirect THEN h - 1 ELSE h
<1>1. /\ h \in 1 .. Length(r) /\ n \in 0 .. 4 /\ NextBase(r) = Place(h, n)
      /\ Occurs(s, Place(h, n)) /\ e \in EventShape /\ Outcome(e)
  BY BaseStep
<1> HIDE DEF h, n
<1>2. /\ ~limitErr /\ limitErr' = limitErr
      /\ isLate => Passing(e) \/ Caching(e)
      /\ ~isLate => LastHop(c) = IF n = 0 THEN h - 1 ELSE h
      /\ ~isLate /\ n = 0 /\ h = 1 => Starting(e)
      /\ ~isLate /\ n = 0 /\ h > 1 => Redirecting(e)
      /\ ~isLate /\ n \in {1, 2} => Passing(e) \/ Caching(e)
      /\ ~isLate /\ n = 3 => Answering(e) /\ h = Length(r) /\ s.end # "blocked"
      /\ ~isLate /\ n = 4 => /\ h = Length(r)
                             /\ s.end = "finished" => Finishing(e)
                             /\ s.end # "finished" => Breaking(e)
  BY <1>1, BaseOutcome
<1>3. /\ script' = script /\ \A q \in Ids \ {r} : Reached(q)' = Reached(q)
      /\ isLate => Reached(r)' = R
      /\ ~isLate =>
           /\ Reached(r)' = R \cup {<<h, n>>}
           /\ \A m \in n .. 4 : <<h, m>> \notin R
           /\ \A x \in 1 .. Length(r) :
                 <<x, 0>> \in R <=> x < h \/ (x = h /\ n > 0)
  BY <1>1, Moves
<1>4. e.id = r /\ e.hop = h /\ e.hop \in Nat
  <2>1. e.id = r /\ e.hop = h
    BY <1>1, BaseEventIs
  <2> QED
    BY <1>1, <2>1 DEF EventShape
<1> HIDE DEF e
<1>5. /\ DOMAIN s.hops = 1 .. Length(r) /\ Length(r) \in Nat /\ h \in Nat \ {0}
      /\ s.end \in {"finished", "failed", "blocked"}
  BY <1>1, ScriptOf DEF IsScript
<1>6. /\ c \in Chain /\ Taken(c, s, R) /\ TypeInv
      /\ LastHop(c) \in Nat /\ DOMAIN c.entries = 1 .. LastHop(c)
  BY <1>2, ChainType DEF RecInv, TypeInv, TakenInv
<1>14. c \in Chain
  BY <1>6
<1>7. ASSUME NEW d \in Chain, Chains(e, d), Taken(d, s, Reached(r)')
      PROVE  TakenInv'
  <2>1. chains'[r] = d /\ \A q \in Ids \ {r} : chains'[q] = chains[q]
    BY <1>1, <1>4, <1>6, <1>7, NewChains
  <2> QED
    BY <1>2, <1>3, <1>7, <2>1, TakenElsewhere
<1>8. ASSUME Passing(e) \/ Caching(e), isLate \/ n \in {1, 2}
      PROVE  TakenInv'
  <2> DEFINE Q == Reached(r)'
  <2>1. \A x \in DOMAIN s.hops : /\ <<x, 0>> \in Q <=> <<x, 0>> \in R
                                 /\ <<x, 3>> \in Q <=> <<x, 3>> \in R
                                 /\ <<x, 4>> \in Q <=> <<x, 4>> \in R
    <3>1. Q = R \/ \E m \in {1, 2} : Q = R \cup {<<h, m>>}
      BY <1>3, <1>8
    <3> HIDE DEF Q, R
    <3> QED
      BY <3>1
  <2>2. CASE Passing(e)
    <3>1. chains' = chains
      BY <2>2 DEF Passing
    <3>2. \A i \in DOMAIN c.entries : \A f \in TakenFields : c.entries[i][f] = c.entries[i][f]
      OBVIOUS
    <3> HIDE DEF Q, R, c, s
    <3>3. Taken(c, s, Q)
      BY <1>6, <2>1, <3>2, TakenSame
    <3> QED
      BY <1>2, <1>3, <3>1, <3>3, TakenElsewhere DEF Q, c, s
  <2>3. CASE Caching(e)
    <3> DEFINE d == Flagged(c, LastHop(c), "cached")
    <3>1. /\ OnlyChains(e, d) /\ d \in Chain
          /\ DOMAIN d.entries = DOMAIN c.entries /\ LastHop(d) = LastHop(c)
          /\ \A i \in DOMAIN c.entries : \A f \in BaseFields \ {"cached"} :
               d.entries[i][f] = c.entries[i][f]
      BY <1>1, <1>4, <1>6, <2>3, CachingIs
    <3> HIDE DEF d
    <3>2. \A i \in DOMAIN c.entries : \A f \in TakenFields : d.entries[i][f] = c.entries[i][f]
      BY <3>1 DEF TakenFields, BaseFields
    <3>3. Taken(d, s, Q)
      <4> HIDE DEF Q, R, c, s
      <4> QED
        BY <1>6, <2>1, <3>1, <3>2, TakenSame
    <3> QED
      BY <1>7, <3>1, <3>3 DEF OnlyChains
  <2> QED
    BY <1>8, <2>2, <2>3
<1>9. CASE ~isLate /\ n = 0
  <2>1. /\ <<h, 3>> \notin R /\ <<h, 4>> \notin R
        /\ \A x \in DOMAIN s.hops : <<x, 0>> \in R => x < h
        /\ LastHop(c) = h - 1 /\ Reached(r)' = R \cup {<<h, 0>>}
    <3>1. 3 \in n .. 4 /\ 4 \in n .. 4
      BY <1>9
    <3>2. \A m \in n .. 4 : <<h, m>> \notin R
      BY <1>3, <1>9
    <3>3. <<h, 3>> \notin R /\ <<h, 4>> \notin R
      BY <3>1, <3>2, Zenon
    <3> QED
      BY <1>2, <1>3, <1>5, <1>9, <3>3
  <2>2. CASE h = 1
    <3> DEFINE a == Adopt(c, r)
               d == [a EXCEPT !.entries = Append(@, Entry(e.hop))]
    <3>1. Starting(e) /\ frozenExtras[r] \in Tails
      BY <1>2, <1>6, <1>9, <2>2 DEF TypeInv
    <3>2. a \in Chain /\ a.entries = c.entries /\ LastHop(c) = 0
      <4>1. LastHop(c) = 0
        BY <2>1, <2>2
      <4> QED
        BY <1>6, <3>1, <4>1, AdoptStep DEF Adopt
    <3>3. Chains(e, d)
      BY <1>4, <3>1 DEF Starting
    <3> HIDE DEF a
    <3>8. /\ d \in Chain /\ LastHop(d) = LastHop(a) + 1
          /\ d.entries[LastHop(a) + 1] = Entry(e.hop)
      BY <1>4, <3>2, AppendStep
    <3> HIDE DEF d
    <3>4. d \in Chain /\ LastHop(d) = LastHop(a) + 1 /\ d.entries[LastHop(a) + 1] = Entry(h)
      BY <1>4, <3>8
    <3>5. LastHop(a) = 0
      BY <3>2 DEF LastHop
    <3>6. LastHop(d) = h /\ d.entries[h] = Entry(h) /\ DOMAIN c.entries = {}
      BY <1>6, <2>2, <3>2, <3>4, <3>5
    <3>7. Taken(d, s, R \cup {<<h, 0>>})
      <4> HIDE DEF R, s, c
      <4> QED
        BY <1>1, <1>5, <1>6, <2>1, <3>4, <3>6, TakenAppend
    <3> QED
      BY <1>7, <2>1, <3>3, <3>4, <3>7
  <2>3. CASE h > 1
    <3> DEFINE a == Redirect(c, e)
               d == [a EXCEPT !.entries = Append(@, Entry(e.hop))]
               i == LastHop(c)
    <3>1. Redirecting(e) /\ i = h - 1 /\ i \in DOMAIN c.entries
      BY <1>2, <1>5, <1>6, <1>9, <2>1, <2>3
    <3>2. /\ a \in Chain /\ DOMAIN a.entries = DOMAIN c.entries /\ LastHop(a) = LastHop(c)
          /\ a.entries[i].response = TRUE /\ a.entries[i].finished = TRUE
          /\ \A f \in {"hop", "failed", "cached", "asks"} : a.entries[i][f] = c.entries[i][f]
          /\ \A j \in DOMAIN c.entries \ {i} : \A f \in BaseFields :
                a.entries[j][f] = c.entries[j][f]
      <4> HIDE DEF c
      <4>1. i = LastHop(c)
        OBVIOUS
      <4> HIDE DEF i
      <4>2. i \in DOMAIN c.entries
        BY <3>1
      <4>3. e \in EventShape
        BY <1>1
      <4>4. c \in Chain
        BY <1>14
      <4> HIDE DEF e
      <4> DEFINE b == Redirect(c, e)
      <4>5. /\ b \in Chain /\ DOMAIN b.entries = DOMAIN c.entries /\ LastHop(b) = LastHop(c)
            /\ b.entries[i].response = TRUE /\ b.entries[i].finished = TRUE
        BY <4>1, <4>2, <4>3, <4>4, RedirectFields
      <4>6. /\ \A f \in {"hop", "failed", "cached", "asks"} : b.entries[i][f] = c.entries[i][f]
            /\ \A j \in DOMAIN c.entries \ {i} : \A f \in BaseFields :
                  b.entries[j][f] = c.entries[j][f]
        BY <4>1, <4>2, <4>3, <4>4, RedirectFields
      <4> HIDE DEF b
      <4> QED
        BY <4>5, <4>6 DEF b
    <3>3. OnlyChains(e, d)
      BY <1>4, <3>1 DEF Redirecting
    <3> HIDE DEF a, i
    <3>8. /\ d \in Chain /\ LastHop(d) = LastHop(a) + 1
          /\ d.entries[LastHop(a) + 1] = Entry(e.hop)
          /\ \A j \in DOMAIN a.entries : d.entries[j] = a.entries[j]
      BY <1>4, <3>2, AppendStep
    <3> HIDE DEF d
    <3>4. /\ d \in Chain /\ LastHop(d) = LastHop(a) + 1 /\ d.entries[LastHop(a) + 1] = Entry(h)
          /\ \A j \in DOMAIN a.entries : d.entries[j] = a.entries[j]
      BY <1>4, <3>8
    <3>5. LastHop(d) = h /\ d.entries[h] = Entry(h)
      BY <1>5, <1>6, <2>1, <3>2, <3>4
    <3>6. \A j \in DOMAIN c.entries :
            /\ d.entries[j].hop = c.entries[j].hop /\ d.entries[j].failed = c.entries[j].failed
            /\ j = h - 1 => d.entries[j].response = TRUE /\ d.entries[j].finished = TRUE
            /\ j # h - 1 => /\ d.entries[j].response = c.entries[j].response
                            /\ d.entries[j].finished = c.entries[j].finished
      BY <3>1, <3>2, <3>4 DEF BaseFields
    <3>7. Taken(d, s, R \cup {<<h, 0>>})
      <4> HIDE DEF R, s, c
      <4> QED
        BY <1>1, <1>5, <1>6, <2>1, <3>4, <3>5, <3>6, TakenAppend
    <3> QED
      BY <1>7, <2>1, <3>3, <3>4, <3>7 DEF OnlyChains
  <2> QED
    BY <1>5, <2>2, <2>3
<1>10. CASE ~isLate /\ n = 3
  <2> DEFINE a == WithAnswer(c, e)
             d == Scheduled(a)
  <2>1. /\ Answering(e) /\ LastHop(c) = h /\ h \in DOMAIN c.entries
        /\ Reached(r)' = R \cup {<<h, n>>} /\ <<h, n>> \notin R
    BY <1>2, <1>3, <1>5, <1>6, <1>10
  <2>2. /\ a \in Chain /\ DOMAIN a.entries = DOMAIN c.entries /\ LastHop(a) = LastHop(c)
        /\ a.entries[h].response = TRUE
        /\ \A f \in BaseFields \ {"noBody", "response"} : a.entries[h][f] = c.entries[h][f]
        /\ \A j \in DOMAIN c.entries \ {h} : \A f \in BaseFields :
              a.entries[j][f] = c.entries[j][f]
    <3>1. e \in EventShape /\ c \in Chain /\ h \in DOMAIN c.entries /\ h = LastHop(c)
      BY <1>1, <1>6, <2>1
    <3> HIDE DEF a, c, R, s
    <3> QED
      BY <3>1, AnswerFields DEF a
  <2>3. OnlyChains(e, d)
    BY <1>4, <2>1 DEF Answering
  <2> HIDE DEF a
  <2>4. /\ d \in Chain /\ DOMAIN d.entries = DOMAIN a.entries /\ LastHop(d) = LastHop(a)
        /\ \A i \in DOMAIN a.entries : \A f \in BaseFields \ {"scheduled", "asks"} :
              d.entries[i][f] = a.entries[i][f]
    BY <2>2, ScheduledFields
  <2> HIDE DEF d
  <2>5. /\ d.entries[h].response = TRUE /\ d.entries[h].hop = c.entries[h].hop
        /\ d.entries[h].finished = c.entries[h].finished
        /\ d.entries[h].failed = c.entries[h].failed
        /\ \A i \in DOMAIN c.entries \ {h} : \A f \in TakenFields :
              d.entries[i][f] = c.entries[i][f]
        /\ LastHop(d) = h /\ DOMAIN d.entries = DOMAIN c.entries
    BY <2>1, <2>2, <2>4 DEF TakenFields, BaseFields
  <2>8. /\ n \in {3, 4}
        /\ d.entries[h].response = IF n = 3 THEN TRUE ELSE c.entries[h].response
        /\ d.entries[h].finished = IF n = 4 /\ s.end = "finished" THEN TRUE
                                  ELSE c.entries[h].finished
        /\ d.entries[h].failed = IF n = 4 /\ s.end # "finished" THEN TRUE
                                ELSE c.entries[h].failed
    <3> HIDE DEF c, s
    <3>1. n = 3 /\ n # 4
      BY <1>10
    <3> QED
      BY <2>5, <3>1
  <2>6. Taken(d, s, R \cup {<<h, n>>})
    <3> HIDE DEF R, s, c
    <3> QED
      BY <1>5, <1>6, <2>1, <2>5, <2>8, TakenLast
  <2> QED
    BY <1>7, <2>1, <2>3, <2>4, <2>6 DEF OnlyChains
<1>11. CASE ~isLate /\ n = 4 /\ s.end = "finished"
  <2>0. PICK f \in Flags : f = "finished"
    BY DEF Flags
  <2> DEFINE a == Flagged(c, h, f)
             d == Scheduled(a)
  <2>1. /\ Finishing(e) /\ LastHop(c) = h /\ h \in DOMAIN c.entries
        /\ Reached(r)' = R \cup {<<h, n>>} /\ <<h, n>> \notin R
    BY <1>2, <1>3, <1>5, <1>6, <1>11
  <2>2. /\ a \in Chain /\ DOMAIN a.entries = DOMAIN c.entries /\ LastHop(a) = LastHop(c)
        /\ a.entries[h][f]
        /\ \A x \in BaseFields \ {f} : a.entries[h][x] = c.entries[h][x]
        /\ \A j \in DOMAIN c.entries \ {h} : \A x \in BaseFields :
              a.entries[j][x] = c.entries[j][x]
    <3> HIDE DEF c
    <3>1. h \in DOMAIN c.entries
      BY <2>1
    <3> QED
      BY <1>14, <3>1, FlagFields
  <2>3. OnlyChains(e, d)
    BY <1>4, <2>0, <2>1 DEF Finishing
  <2> HIDE DEF a
  <2>4. /\ d \in Chain /\ DOMAIN d.entries = DOMAIN a.entries /\ LastHop(d) = LastHop(a)
        /\ \A i \in DOMAIN a.entries : \A x \in BaseFields \ {"scheduled", "asks"} :
              d.entries[i][x] = a.entries[i][x]
    BY <2>2, ScheduledFields
  <2> HIDE DEF d
  <2>5. /\ d.entries[h].finished /\ d.entries[h].hop = c.entries[h].hop
        /\ d.entries[h].response = c.entries[h].response
        /\ d.entries[h].failed = c.entries[h].failed
        /\ \A i \in DOMAIN c.entries \ {h} : \A x \in TakenFields :
              d.entries[i][x] = c.entries[i][x]
        /\ LastHop(d) = h /\ DOMAIN d.entries = DOMAIN c.entries
    BY <2>0, <2>1, <2>2, <2>4 DEF TakenFields, BaseFields
  <2>7. d.entries[h].finished = TRUE
    <3>1. d.entries[h].finished \in BOOLEAN
      <4>1. d.entries[h] \in EntryShape
        BY <2>1, <2>2, <2>4, EntryOf
      <4> QED
        BY <4>1 DEF EntryShape
    <3> QED
      BY <2>5, <3>1
  <2>8. /\ n \in {3, 4}
        /\ d.entries[h].response = IF n = 3 THEN TRUE ELSE c.entries[h].response
        /\ d.entries[h].finished = IF n = 4 /\ s.end = "finished" THEN TRUE
                                  ELSE c.entries[h].finished
        /\ d.entries[h].failed = IF n = 4 /\ s.end # "finished" THEN TRUE
                                ELSE c.entries[h].failed
    BY <1>11, <2>5, <2>7
  <2>6. Taken(d, s, R \cup {<<h, n>>})
    <3> HIDE DEF R, s, c
    <3> QED
      BY <1>5, <1>6, <2>1, <2>5, <2>8, TakenLast
  <2> QED
    BY <1>7, <2>1, <2>3, <2>4, <2>6 DEF OnlyChains
<1>12. CASE ~isLate /\ n = 4 /\ s.end # "finished"
  <2> DEFINE d == Fail(c)
  <2>1. /\ Breaking(e) /\ LastHop(c) = h /\ h \in DOMAIN c.entries
        /\ Reached(r)' = R \cup {<<h, n>>} /\ <<h, n>> \notin R
    BY <1>2, <1>3, <1>5, <1>6, <1>12
  <2>2. /\ d \in Chain /\ DOMAIN d.entries = DOMAIN c.entries /\ LastHop(d) = LastHop(c)
        /\ d.entries[h].failed = TRUE
        /\ \A x \in BaseFields \ {"failed"} : d.entries[h][x] = c.entries[h][x]
        /\ \A j \in DOMAIN c.entries \ {h} : \A x \in BaseFields :
              d.entries[j][x] = c.entries[j][x]
    BY <1>6, <2>1, FailStep
  <2>3. OnlyChains(e, d)
    BY <1>4, <2>1 DEF Breaking
  <2> HIDE DEF d
  <2>5. /\ d.entries[h].hop = c.entries[h].hop
        /\ d.entries[h].response = c.entries[h].response
        /\ d.entries[h].finished = c.entries[h].finished
        /\ \A i \in DOMAIN c.entries \ {h} : \A x \in TakenFields :
              d.entries[i][x] = c.entries[i][x]
        /\ LastHop(d) = h /\ DOMAIN d.entries = DOMAIN c.entries
    BY <2>1, <2>2 DEF TakenFields, BaseFields
  <2>8. /\ n \in {3, 4}
        /\ d.entries[h].response = IF n = 3 THEN TRUE ELSE c.entries[h].response
        /\ d.entries[h].finished = IF n = 4 /\ s.end = "finished" THEN TRUE
                                  ELSE c.entries[h].finished
        /\ d.entries[h].failed = IF n = 4 /\ s.end # "finished" THEN TRUE
                                ELSE c.entries[h].failed
    <3> HIDE DEF c, s
    <3>1. n = 4 /\ n # 3 /\ s.end # "finished"
      BY <1>12
    <3>2. d.entries[h].failed = TRUE
      BY <2>2
    <3> QED
      BY <2>5, <3>1, <3>2
  <2>6. Taken(d, s, R \cup {<<h, n>>})
    <3> HIDE DEF R, s, c
    <3> QED
      BY <1>5, <1>6, <2>1, <2>5, <2>8, TakenLast
  <2> QED
    BY <1>7, <2>1, <2>2, <2>3, <2>6 DEF OnlyChains
<1> HIDE DEF R, s, c
<1>13. n = 0 \/ n \in {1, 2} \/ n = 3 \/ n = 4
  BY <1>1
<1> QED
  BY <1>2, <1>8, <1>9, <1>10, <1>11, <1>12, <1>13

\* The outcomes of an extra info.
LEMMA ExtraOutcome ==
  ASSUME NEW e, NEW k \in ExtraKinds, e.kind = Kind(k), Outcome(e)
  PROVE  Failing \/ Pairing(e, k) \/ Queueing(e, k) \/ Dropping(e, k)
<1>1. e.kind \in {"requestExtra", "responseExtra"}
  BY DEF Kind
<1>2. \A j \in ExtraKinds : e.kind = Kind(j) => j = k
  BY DEF Kind, ExtraKinds
<1>3. ~(Passing(e) \/ Starting(e) \/ Redirecting(e) \/ Answering(e) \/ Finishing(e)
        \/ Breaking(e) \/ Caching(e))
  BY <1>1 DEF Passing, Starting, Redirecting, Answering, Finishing, Breaking, Caching
<1>4. \A j \in ExtraKinds : Pairing(e, j) \/ Queueing(e, j) \/ Dropping(e, j) => j = k
  BY <1>2 DEF Pairing, Queueing, Dropping
<1> QED
  BY <1>3, <1>4 DEF Outcome

\* What pairing an extra does to a chain.
LEMMA PairingFields ==
  ASSUME NEW c \in Chain, NEW k \in ExtraKinds, NEW x \in Extras
  PROVE  LET a == AddExtra(c, k, x)
             d == IF k = "request" THEN a ELSE Scheduled(a)
         IN /\ d \in Chain /\ DOMAIN d.entries = DOMAIN c.entries /\ LastHop(d) = LastHop(c)
            /\ \A i \in DOMAIN c.entries : \A f \in BaseFields \ {"scheduled", "asks"} :
                 d.entries[i][f] = c.entries[i][f]
            /\ StaysInStep(a, d)
<1> DEFINE a == AddExtra(c, k, x)
           d == IF k = "request" THEN a ELSE Scheduled(a)
<1>1. a \in Chain /\ SameBase(c, a)
  BY AddExtraStep
<1> HIDE DEF a
<1>2. /\ Scheduled(a) \in Chain /\ DOMAIN Scheduled(a).entries = DOMAIN a.entries
      /\ LastHop(Scheduled(a)) = LastHop(a) /\ StaysInStep(a, Scheduled(a))
      /\ \A i \in DOMAIN a.entries : \A g \in BaseFields \ {"scheduled", "asks"} :
           Scheduled(a).entries[i][g] = a.entries[i][g]
  BY <1>1, ScheduledFields
<1>3. StaysInStep(a, a)
  BY DEF StaysInStep
<1>4. CASE k = "request"
  <2>1. d = a
    BY <1>4
  <2> HIDE DEF d
  <2> QED
    BY <1>1, <1>3, <2>1 DEF SameBase, d, a
<1>5. CASE k # "request"
  <2>1. d = Scheduled(a)
    BY <1>5
  <2> HIDE DEF d
  <2> QED
    BY <1>1, <1>2, <2>1 DEF SameBase, d, a
<1> QED
  BY <1>4, <1>5

LEMMA ExtraKeepsTaken ==
  ASSUME RecInv, EnvInv, TakenInv, NEW r \in Ids, NEW k \in ExtraKinds, SendExtra(r, k),
         NEW buf \in BOOLEAN, HandleEvent(NextExtra(r, k), buf)
  PROVE  TakenInv'
<1> SUFFICES ASSUME ~limitErr'
             PROVE  TakenInv'
  BY DEF TakenInv
<1> DEFINE e == NextExtra(r, k)
           c == chains[r]
           s == script[r]
           R == Reached(r)
<1>1. e \in EventShape /\ e.id = r /\ e.kind = Kind(k) /\ Outcome(e)
  BY ExtraStep
<1> HIDE DEF e
<1>2. Pairing(e, k) \/ Queueing(e, k) \/ Dropping(e, k)
  BY <1>1, ExtraOutcome DEF Failing
<1>3. ~limitErr
  BY <1>2 DEF Pairing, Queueing, Dropping, OnlyChains, Chains
<1>4. script' = script /\ \A q \in Ids : Reached(q)' = Reached(q)
  BY DEF SendExtra, Reached, EarlyPast, Length
<1>5. c \in Chain /\ Taken(c, s, R) /\ TypeInv
  BY <1>3 DEF RecInv, TypeInv, TakenInv
<1>6. CASE Queueing(e, k) \/ Dropping(e, k)
  <2>1. chains' = chains
    BY <1>6 DEF Queueing, Dropping
  <2> QED
    BY <1>3, <1>4, <1>5, <2>1, TakenElsewhere
<1>7. CASE Pairing(e, k)
  <2> DEFINE x == ExtraOf(e)
             a == AddExtra(c, k, x)
             d == IF k = "request" THEN a ELSE Scheduled(a)
  <2>1. OnlyChains(e, d) /\ x \in Extras
    BY <1>1, <1>7, ExtraOfType DEF Pairing
  <2> HIDE DEF x, c
  <2>2. /\ d \in Chain /\ DOMAIN d.entries = DOMAIN c.entries /\ LastHop(d) = LastHop(c)
        /\ \A i \in DOMAIN c.entries : \A f \in BaseFields \ {"scheduled", "asks"} :
             d.entries[i][f] = c.entries[i][f]
    BY <1>5, <2>1, PairingFields
  <2> HIDE DEF d, R, s
  <2>3. \A i \in DOMAIN c.entries : \A f \in TakenFields : d.entries[i][f] = c.entries[i][f]
    BY <2>2 DEF TakenFields, BaseFields
  <2>4. Taken(d, s, R)
    <3>1. \A h \in DOMAIN s.hops : /\ <<h, 0>> \in R <=> <<h, 0>> \in R
                                   /\ <<h, 3>> \in R <=> <<h, 3>> \in R
                                   /\ <<h, 4>> \in R <=> <<h, 4>> \in R
      OBVIOUS
    <3> QED
      BY <1>5, <2>2, <2>3, <3>1, TakenSame
  <2>5. chains'[r] = d /\ \A q \in Ids \ {r} : chains'[q] = chains[q]
    BY <1>1, <1>5, <2>1, <2>2, NewChains DEF OnlyChains
  <2> QED
    BY <1>3, <1>4, <2>4, <2>5, TakenElsewhere DEF s, R
<1> QED
  BY <1>2, <1>6, <1>7

LEMMA FreezeKeepsTaken ==
  ASSUME RecInv, EnvInv, TakenInv, Freeze
  PROVE  TakenInv'
<1>1. UNCHANGED <<chains, limitErr, script, earlyAt>>
  BY FreezeStep
<1>2. \A q \in Ids : Reached(q)' = Reached(q)
  BY <1>1 DEF Reached, EarlyPast, Length
<1> QED
  BY <1>1, <1>2 DEF TakenInv

LEMMA InitTaken == Init => TakenInv
<1> SUFFICES ASSUME Init, NEW r \in Ids
             PROVE  Taken(chains[r], script[r], Reached(r))
  BY DEF TakenInv
<1>1. EnvInv /\ chains[r] = EmptyChain /\ earlyAt[r] = 0
  BY InitInv DEF Init, RecorderInit, BrowserInit
<1>2. DOMAIN script[r].hops = 1 .. Length(r) /\ Length(r) \in Nat
  BY <1>1, ScriptOf
<1>3. DOMAIN chains[r].entries = {}
  BY <1>1 DEF EmptyChain
<1>4. ASSUME NEW h \in DOMAIN script[r].hops
      PROVE  <<h, 0>> \notin Reached(r)
  <2>1. h \in 1 .. Length(r) /\ h \in Nat \ {0}
    BY <1>2
  <2>2. <<h, 0>> \in Reached(r) => EarlyPast(r, h, 0)
    BY DEF Reached
  <2>3. ~(0 > 5 * (h - 1) + 0)
    BY <2>1
  <2> QED
    BY <1>1, <2>2, <2>3 DEF EarlyPast
<1> QED
  BY <1>3, <1>4 DEF Taken

-----------------------------------------------------------------------------
(* First theorems.                                                         *)

CoreInv == RecInv /\ EnvInv /\ ClockInv /\ TakenInv

LEMMA CoreStep ==
  ASSUME CoreInv, [Next]_vars
  PROVE  CoreInv'
<1> USE DEF CoreInv
<1>1. ASSUME NEW r \in Ids, BaseArrives(r)
      PROVE  CoreInv'
  <2>1. PICK isLate \in BOOLEAN, buf \in BOOLEAN :
         /\ SendBase(r, isLate)
         /\ HandleEvent(BaseEvent(r, NextBase(r), isLate), buf)
    BY <1>1 DEF BaseArrives
  <2> QED
    BY <2>1, BaseStep, BaseKeepsTaken
<1>2. ASSUME NEW r \in Ids, ExtraArrives(r)
      PROVE  CoreInv'
  <2>1. PICK k \in ExtraKinds, buf \in BOOLEAN :
         SendExtra(r, k) /\ HandleEvent(NextExtra(r, k), buf)
    BY <1>2 DEF ExtraArrives
  <2> QED
    BY <2>1, ExtraStep, ExtraKeepsTaken
<1>3. CASE Freeze
  BY <1>3, FreezeStep, FreezeKeepsTaken
<1>4. CASE UNCHANGED vars
  <2>1. Orphans' = Orphans /\ \A q \in Ids : Reached(q)' = Reached(q)
    BY <1>4 DEF vars, recorderVars, browserVars, Orphans, Queued, Reached, EarlyPast, Length
  <2> QED
    BY <1>4, <2>1 DEF vars, recorderVars, browserVars, RecInv, TypeInv, OrphanInv, StableInv,
                      EnvInv, ClockInv, TakenInv
<1> QED
  BY <1>1, <1>2, <1>3, <1>4 DEF Next

\* The invariant behind the other theorems is inductive.
THEOREM Inductive == Spec => []CoreInv
<1>1. Init => CoreInv
  BY InitInv, InitTaken DEF CoreInv
<1>2. CoreInv /\ [Next]_vars => CoreInv'
  BY CoreStep
<1> QED
  BY <1>1, <1>2, PTL DEF Spec

\* However many extras come without a request, the count of the queued ones is
\* exact, and they wait only for requests that have no entry (addFrozenOrphan
\* and the hand-over in requestWillBeSent).
THEOREM OrphansAreCounted == Spec => []OrphansAccounted
<1>1. ASSUME CoreInv
      PROVE  OrphansAccounted
  <2>1. /\ TypeInv /\ OrphanInv
    BY <1>1 DEF CoreInv, RecInv
  <2>2. TypeOK
    <3>1. ASSUME NEW r \in Ids, NEW i \in DOMAIN chains[r].entries
          PROVE  LET e == chains[r].entries[i] IN
                 /\ e.hop \in Nat /\ e.extra \in [ExtraKinds -> [hop : Nat, noBody : BOOLEAN]]
                 /\ \A f \in DOMAIN e \ {"hop", "extra", "asks"} : e[f] \in BOOLEAN
                 /\ e.asks \in Nat
      <4>1. chains[r].entries[i] \in EntryShape
        BY <2>1, EntryOf DEF TypeInv
      <4>2. Extras \cup {NoExtra} \subseteq [hop : Nat, noBody : BOOLEAN]
        <5>1. NoExtra \in [hop : Nat, noBody : BOOLEAN]
          BY DEF NoExtra, Extra
        <5>2. \A x \in Extras : x \in [hop : Nat, noBody : BOOLEAN]
          BY DEF Extras
        <5> QED
          BY <5>1, <5>2
      <4>3. \A x \in [ExtraKinds -> Extras \cup {NoExtra}] :
              x \in [ExtraKinds -> [hop : Nat, noBody : BOOLEAN]]
        BY <4>2
      <4> QED
        BY <4>1, <4>3 DEF EntryShape
    <3>2. ASSUME NEW p \in Tails
          PROVE  p \in [ExtraKinds -> Seq([hop : Nat, noBody : BOOLEAN])]
      <4>1. Extras \subseteq [hop : Nat, noBody : BOOLEAN]
        BY DEF Extras
      <4>2. ASSUME NEW s \in Seq(Extras)
            PROVE  s \in Seq([hop : Nat, noBody : BOOLEAN])
        <5> DEFINE T == [hop : Nat, noBody : BOOLEAN]
        <5>1. Extras \subseteq T /\ s \in Seq(Extras)
          BY <4>1, <4>2
        <5> HIDE DEF T
        <5>2. s \in Seq(T)
          BY <5>1
        <5> QED
          BY <5>2 DEF T
      <4> QED
        BY <4>2 DEF Tails
    <3>3. \A r \in Ids : chains[r].pending \in Tails /\ frozenExtras[r] \in Tails
      BY <2>1 DEF TypeInv, Chain, Tails
    <3> QED
      BY <2>1, <3>1, <3>2, <3>3 DEF TypeOK, TypeInv
  <2>3. ASSUME NEW r \in Ids, NEW k \in ExtraKinds, Queued(r, k) # {}
        PROVE  ~HasCapturedRequest(r)
    <3>1. frozenExtras[r][k] # <<>>
      BY <2>3 DEF Queued
    <3>2. LastHop(chains[r]) = 0
      BY <2>1, <3>1 DEF OrphanInv
    <3> QED
      BY <3>2 DEF HasCapturedRequest
  <2> QED
    BY <2>1, <2>2, <2>3 DEF OrphanInv, OrphansAccounted
<1> QED
  BY <1>1, Inductive, PTL

\* After every event the pairing has caught up: the passes of
\* freezeAtMonotonic and of the drain change nothing (reconcileExtraInfo).
THEOREM PairingNeverLags == Spec => []Reconciled
<1>1. ASSUME CoreInv
      PROVE  Reconciled
  BY <1>1, StableStays DEF CoreInv, RecInv, TypeInv, StableInv, Reconciled
<1> QED
  BY <1>1, Inductive, PTL

-----------------------------------------------------------------------------
(* To each hop its own extra info.                                         *)

\* From c with the queues t to d with the queues u, the extras stay with the
\* hops H of n, and none comes or goes.
Keeps(c, t, d, u, H, n) ==
  InStep(c, H, n, t) =>
    InStep(d, H, n, u) /\ \A k \in ExtraKinds : Come(d, k, u) = Come(c, k, t)

\* The response of hop i says whether i has extra info; only of the last hop
\* may it not know.
Truly(e, i, H, n) ==
  /\ i \in H["request"] => e.hasExtra
  /\ e.hasExtra => i \in H["request"] \/ i = n

LEMMA StartKeeps ==
  ASSUME NEW c \in Chain, LastHop(c) = 0, NEW h \in Nat, NEW t \in Tails,
         NEW n \in Nat, NEW H \in HopSets(n)
  PROVE  LET a == [c EXCEPT !.pending = [k \in ExtraKinds |-> c.pending[k] \o t[k]]]
             d == [a EXCEPT !.entries = Append(@, Entry(h))]
         IN d \in Chain /\ NoTail \in Tails /\ Keeps(c, t, d, NoTail, H, n)
<1> DEFINE a == [c EXCEPT !.pending = [k \in ExtraKinds |-> c.pending[k] \o t[k]]]
           d == [a EXCEPT !.entries = Append(@, Entry(h))]
<1>1. /\ a \in Chain /\ a.entries = c.entries /\ NoTail \in Tails
      /\ Keeps(c, t, a, NoTail, H, n)
  BY AdoptStep DEF Keeps
<1>2. LastHop(a) = 0
  BY <1>1 DEF LastHop
<1> HIDE DEF a
<1>3. d \in Chain
  BY <1>1, AppendStep
<1>4. Keeps(a, NoTail, d, NoTail, H, n)
  <2>1. InStep(a, H, n, NoTail) /\ (LastHop(a) > 0 => a.entries[LastHop(a)].known) =>
          InStep(d, H, n, NoTail) /\ \A k \in ExtraKinds : Come(d, k, NoTail) = Come(a, k, NoTail)
    <3>1. \A m \in Nat : \A G \in HopSets(m), u \in Tails :
            InStep(a, G, m, u) /\ (LastHop(a) > 0 => a.entries[LastHop(a)].known) =>
              /\ InStep(d, G, m, u)
              /\ \A k \in ExtraKinds : Come(d, k, u) = Come(a, k, u)
      BY <1>1, NewEntryStep
    <3> HIDE DEF d
    <3> QED
      BY <1>1, <3>1
  <2>2. LastHop(a) > 0 => a.entries[LastHop(a)].known
    BY <1>2
  <2> HIDE DEF d
  <2> QED
    BY <2>1, <2>2 DEF Keeps
<1> HIDE DEF d
<1>5. Keeps(c, t, d, NoTail, H, n)
  BY <1>1, <1>4 DEF Keeps
<1> QED
  BY <1>1, <1>3, <1>5 DEF a, d

LEMMA RedirectKeeps ==
  ASSUME NEW c \in Chain, NEW i \in DOMAIN c.entries, i = LastHop(c), NEW e \in EventShape,
         NEW t \in Tails, NEW n \in Nat, NEW H \in HopSets(n), Truly(e, i, H, n)
  PROVE  LET d == [Redirect(c, e) EXCEPT !.entries = Append(@, Entry(e.hop))]
         IN d \in Chain /\ Keeps(c, t, d, t, H, n)
<1> DEFINE a == Redirect(c, e)
           d == [a EXCEPT !.entries = Append(@, Entry(e.hop))]
<1>1. /\ a \in Chain /\ LastHop(a) = i /\ a.entries[i].known
      /\ Keeps(c, t, a, t, H, n)
  <2>1. /\ a \in Chain /\ LastHop(a) = LastHop(c) /\ a.entries[i].known
        /\ \A m \in Nat : \A G \in HopSets(m), u \in Tails :
             InStep(c, G, m, u) /\ (i \in G["request"] => e.hasExtra)
               /\ (e.hasExtra => i \in G["request"] \/ i = m) =>
               /\ InStep(a, G, m, u)
               /\ \A k \in ExtraKinds : Come(a, k, u) = Come(c, k, u)
    BY RedirectStep
  <2> HIDE DEF a
  <2>2. InStep(c, H, n, t) =>
          /\ InStep(a, H, n, t)
          /\ \A k \in ExtraKinds : Come(a, k, t) = Come(c, k, t)
    BY <2>1 DEF Truly
  <2> QED
    BY <2>1, <2>2 DEF Keeps
<1>2. e.hop \in Nat
  BY DEF EventShape
<1> HIDE DEF a
<1>3. d \in Chain
  BY <1>1, <1>2, AppendStep
<1>4. Keeps(a, t, d, t, H, n)
  BY <1>1, <1>2, NewEntryStep DEF Keeps
<1> HIDE DEF d
<1>5. Keeps(c, t, d, t, H, n)
  BY <1>1, <1>4 DEF Keeps
<1> QED
  BY <1>3, <1>5 DEF a, d

LEMMA AnswerKeeps ==
  ASSUME NEW c \in Chain, NEW i \in DOMAIN c.entries, i = LastHop(c), NEW e \in EventShape,
         NEW t \in Tails, NEW n \in Nat, NEW H \in HopSets(n), Truly(e, i, H, n)
  PROVE  LET d == Scheduled(WithAnswer(c, e))
         IN d \in Chain /\ Keeps(c, t, d, t, H, n)
<1> DEFINE a == WithAnswer(c, e)
<1>1. a \in Chain /\ Keeps(c, t, a, t, H, n)
  <2>1. /\ a \in Chain
        /\ \A m \in Nat : \A G \in HopSets(m), u \in Tails :
             InStep(c, G, m, u) /\ (i \in G["request"] => e.hasExtra)
               /\ (e.hasExtra => i \in G["request"] \/ i = m) =>
               /\ InStep(a, G, m, u)
               /\ \A k \in ExtraKinds : Come(a, k, u) = Come(c, k, u)
    BY AnswerStep
  <2> HIDE DEF a
  <2>2. InStep(c, H, n, t) =>
          /\ InStep(a, H, n, t)
          /\ \A k \in ExtraKinds : Come(a, k, t) = Come(c, k, t)
    BY <2>1 DEF Truly
  <2> QED
    BY <2>1, <2>2 DEF Keeps
<1> HIDE DEF a
<1> DEFINE d == Scheduled(a)
<1>2. d \in Chain /\ StaysInStep(a, d)
  BY <1>1, ScheduledStep
<1> HIDE DEF d
<1>3. Keeps(c, t, d, t, H, n)
  BY <1>1, <1>2 DEF Keeps, StaysInStep
<1> QED
  BY <1>2, <1>3 DEF a, d

LEMMA FlagKeeps ==
  ASSUME NEW c \in Chain, NEW i \in DOMAIN c.entries, NEW f \in Flags,
         NEW t \in Tails, NEW n \in Nat, NEW H \in HopSets(n)
  PROVE  LET a == Flagged(c, i, f)
             d == Scheduled(a)
         IN /\ a \in Chain /\ Keeps(c, t, a, t, H, n)
            /\ d \in Chain /\ Keeps(c, t, d, t, H, n)
<1> DEFINE a == Flagged(c, i, f)
<1>1. a \in Chain /\ StaysInStep(c, a)
  BY FlagStep
<1> HIDE DEF a
<1> DEFINE d == Scheduled(a)
<1>2. d \in Chain /\ StaysInStep(a, d)
  BY <1>1, ScheduledStep
<1> HIDE DEF d
<1>3. Keeps(c, t, a, t, H, n) /\ Keeps(c, t, d, t, H, n)
  BY <1>1, <1>2 DEF Keeps, StaysInStep
<1> QED
  BY <1>1, <1>2, <1>3 DEF a, d

LEMMA FailKeeps ==
  ASSUME NEW c \in Chain, NEW i \in DOMAIN c.entries, i = LastHop(c),
         NEW t \in Tails, NEW n \in Nat, i = n, NEW H \in HopSets(n)
  PROVE  Fail(c) \in Chain /\ Keeps(c, t, Fail(c), t, H, n)
  BY FailStep DEF Keeps

LEMMA PairKeeps ==
  ASSUME NEW c \in Chain, NEW k \in ExtraKinds, NEW x \in Extras, NEW t \in Tails,
         NEW n \in Nat, NEW H \in HopSets(n), InStep(c, H, n, t), t[k] = <<>>, x.hop \in H[k],
         Rank(H[k], x.hop) = Come(c, k, t) + 1,
         LastHop(c) > 0 /\ c.entries[LastHop(c)].failed => LastHop(c) = n
  PROVE  LET a == AddExtra(c, k, x)
             d == IF k = "request" THEN a ELSE Scheduled(a)
         IN /\ d \in Chain /\ InStep(d, H, n, t) /\ Come(d, k, t) = Come(c, k, t) + 1
            /\ \A j \in ExtraKinds \ {k} : Come(d, j, t) = Come(c, j, t)
<1> DEFINE a == AddExtra(c, k, x)
           d == IF k = "request" THEN a ELSE Scheduled(a)
<1>1. /\ a \in Chain /\ InStep(a, H, n, t) /\ Come(a, k, t) = Come(c, k, t) + 1
      /\ \A j \in ExtraKinds \ {k} : Come(a, j, t) = Come(c, j, t)
  BY AddExtraStep
<1>2. d \in Chain /\ StaysInStep(a, d)
  BY PairingFields
<1> HIDE DEF a, d
<1>3. InStep(d, H, n, t) /\ \A j \in ExtraKinds : Come(d, j, t) = Come(a, j, t)
  BY <1>1, <1>2 DEF StaysInStep
<1> QED
  BY <1>1, <1>2, <1>3 DEF a, d

\* Of the requests that lost no orphan, the extras in chain and queue are in
\* step with the hops, and all that have come are there.
InPlace(r) == InStep(chains[r], HopsOf(r), Length(r), frozenExtras[r])
AllThere(r) ==
  \A k \in ExtraKinds : extraAt[r][k] = Come(chains[r], k, frozenExtras[r])

PairInv ==
  \A r \in Ids :
    /\ \A i \in DOMAIN chains[r].entries : chains[r].entries[i].hop = i
    /\ r \notin dropped => InPlace(r) /\ (~limitErr => AllThere(r))

\* It is enough to look at the request that changes.
LEMMA PairsElsewhere ==
  ASSUME PairInv, TakenInv', ~limitErr, ~limitErr', NEW r \in Ids, script' = script,
         dropped \subseteq dropped',
         \A q \in Ids \ {r} : /\ chains'[q] = chains[q] /\ extraAt'[q] = extraAt[q]
                              /\ frozenExtras'[q] = frozenExtras[q],
         r \notin dropped' =>
           /\ InStep(chains'[r], HopsOf(r), Length(r), frozenExtras'[r])
           /\ \A k \in ExtraKinds : extraAt'[r][k] = Come(chains'[r], k, frozenExtras'[r])
  PROVE  PairInv'
<1>1. \A q \in Ids : HopsOf(q)' = HopsOf(q) /\ Length(q)' = Length(q)
  BY DEF HopsOf, ExtraHops, Length
<1> SUFFICES ASSUME NEW q \in Ids
             PROVE  /\ \A i \in DOMAIN chains'[q].entries : chains'[q].entries[i].hop = i
                    /\ q \notin dropped' => InPlace(q)' /\ AllThere(q)'
  BY DEF PairInv
<1>2. \A i \in DOMAIN chains'[q].entries : chains'[q].entries[i].hop = i
  <2>1. Taken(chains'[q], script'[q], Reached(q)')
    BY DEF TakenInv
  <2> QED
    BY <2>1 DEF Taken
<1>3. ASSUME q \notin dropped'
      PROVE  InPlace(q)' /\ AllThere(q)'
  <2>1. CASE q = r
    BY <1>1, <1>3, <2>1 DEF InPlace, AllThere
  <2>2. CASE q # r
    <3>1. InPlace(q) /\ AllThere(q)
      BY <1>3 DEF PairInv
    <3> QED
      BY <1>1, <2>2, <3>1 DEF InPlace, AllThere
  <2> QED
    BY <2>1, <2>2
<1> QED
  BY <1>2, <1>3

\* A capture that has failed changes nothing of it any more.
LEMMA PairsAfterFailure ==
  ASSUME PairInv, limitErr', script' = script,
         UNCHANGED <<chains, frozenExtras, dropped>>
  PROVE  PairInv'
<1>1. \A q \in Ids : HopsOf(q)' = HopsOf(q) /\ Length(q)' = Length(q)
  BY DEF HopsOf, ExtraHops, Length
<1> QED
  BY <1>1 DEF PairInv, InPlace

LEMMA BaseKeepsPairs ==
  ASSUME CoreInv, PairInv, NEW r \in Ids, NEW isLate \in BOOLEAN, SendBase(r, isLate),
         NEW buf \in BOOLEAN, HandleEvent(BaseEvent(r, NextBase(r), isLate), buf)
  PROVE  PairInv'
<1> DEFINE h == HopOf(NextBase(r))
           n == NextBase(r) % 5
           e == BaseEvent(r, Place(h, n), isLate)
           c == chains[r]
           t == frozenExtras[r]
           N == Length(r)
           H == HopsOf(r)
           g == IF e.redirect THEN h - 1 ELSE h
<1> USE DEF CoreInv
<1>1. /\ h \in 1 .. N /\ n \in 0 .. 4 /\ NextBase(r) = Place(h, n)
      /\ Occurs(script[r], Place(h, n)) /\ e \in EventShape /\ Outcome(e)
  BY BaseStep
<1>2. /\ TakenInv' /\ script' = script /\ extraAt' = extraAt
  BY BaseKeepsTaken DEF SendBase
<1> HIDE DEF h, n
<1>3. /\ e.id = r /\ e.redirect = (n = 0 /\ h > 1) /\ g \in 1 .. N
      /\ e.hasExtra = (script[r].hops[g].extra = "both")
  <2>1. EnvInv /\ h \in 1 .. Length(r) /\ n \in 0 .. 4
    BY <1>1
  <2>2. /\ e.id = r /\ e.redirect = (n = 0 /\ h > 1)
        /\ (IF e.redirect THEN h - 1 ELSE h) \in 1 .. Length(r)
        /\ e.hasExtra =
             (script[r].hops[IF e.redirect THEN h - 1 ELSE h].extra = "both")
    <3> HIDE DEF e
    <3> QED
      BY <2>1, BaseEventIs DEF e
  <2> QED
    BY <2>2
<1>4. CASE limitErr'
  <2>1. Failing
    BY <1>1, <1>4 DEF Outcome, Passing, Starting, Redirecting, Answering, Finishing, Breaking,
         Caching, Pairing, Queueing, Dropping, OnlyChains, Chains
  <2> QED
    BY <1>2, <1>4, <2>1, PairsAfterFailure DEF Failing
<1>5. CASE ~limitErr'
  <2>1. /\ ~limitErr /\ limitErr' = limitErr
        /\ isLate => Passing(e) \/ Caching(e)
        /\ ~isLate => LastHop(c) = IF n = 0 THEN h - 1 ELSE h
        /\ ~isLate /\ n = 0 /\ h = 1 => Starting(e)
        /\ ~isLate /\ n = 0 /\ h > 1 => Redirecting(e)
        /\ ~isLate /\ n \in {1, 2} => Passing(e) \/ Caching(e)
        /\ ~isLate /\ n = 3 => Answering(e) /\ h = N /\ script[r].end # "blocked"
        /\ ~isLate /\ n = 4 => /\ h = N
                               /\ script[r].end = "finished" => Finishing(e)
                               /\ script[r].end # "finished" => Breaking(e)
    BY <1>1, <1>5, BaseOutcome
  <2>2. /\ N \in Nat /\ H \in HopSets(N)
        /\ g \in H["request"] <=> script[r].hops[g].extra \in {"both", "request"}
        /\ script[r].hops[g].extra = "request" => g = N /\ script[r].end = "blocked"
    BY <1>3, HopsOfIs, ScriptOf
  <2>3. /\ TypeInv /\ c \in Chain /\ t \in Tails /\ LastHop(c) \in Nat
        /\ DOMAIN c.entries = 1 .. LastHop(c)
    BY ChainType DEF RecInv, TypeInv
  <2>4. r \notin dropped => /\ InStep(c, H, N, t)
                            /\ \A k \in ExtraKinds : extraAt[r][k] = Come(c, k, t)
    BY <2>1 DEF PairInv, InPlace, AllThere
  <2>5. ASSUME NEW d \in Chain, NEW u \in Tails, Keeps(c, t, d, u, H, N), Chains(e, d),
               frozenExtras' = [frozenExtras EXCEPT ![r] = u]
        PROVE  PairInv'
    <3>1. chains'[r] = d /\ \A q \in Ids \ {r} : chains'[q] = chains[q]
      BY <1>1, <1>3, <2>3, <2>5, NewChains
    <3>2. frozenExtras'[r] = u /\ \A q \in Ids \ {r} : frozenExtras'[q] = frozenExtras[q]
      BY <2>3, <2>5 DEF TypeInv
    <3>3. dropped' = dropped
      BY <2>5 DEF Chains
    <3> HIDE DEF c, t, N, H
    <3>4. r \notin dropped' =>
            InStep(d, H, N, u) /\ \A k \in ExtraKinds : extraAt'[r][k] = Come(d, k, u)
      BY <1>2, <2>4, <2>5, <3>3 DEF Keeps
    <3> QED
      BY <1>2, <1>5, <2>1, <3>1, <3>2, <3>3, <3>4, PairsElsewhere DEF N, H
  <2>6. ASSUME NEW d \in Chain, Keeps(c, t, d, t, H, N), OnlyChains(e, d)
        PROVE  PairInv'
    <3>1. frozenExtras' = [frozenExtras EXCEPT ![r] = t] /\ Chains(e, d)
      BY <2>3, <2>6 DEF OnlyChains, TypeInv
    <3> QED
      BY <2>3, <2>5, <2>6, <3>1
  <2>7. ASSUME Passing(e) \/ Caching(e)
        PROVE  PairInv'
    <3>1. CASE Passing(e)
      BY <1>2, <1>5, <2>1, <2>4, <3>1, PairsElsewhere DEF Passing
    <3>2. CASE Caching(e)
      <4> DEFINE d == Flagged(c, LastHop(c), "cached")
      <4>1. OnlyChains(e, d) /\ d \in Chain /\ StaysInStep(c, d)
        BY <1>1, <1>3, <2>3, <3>2, CachingIs
      <4> HIDE DEF d, c, t, N, H
      <4>2. Keeps(c, t, d, t, H, N)
        BY <2>2, <2>3, <4>1 DEF Keeps, StaysInStep
      <4> QED
        BY <2>6, <4>1, <4>2
    <3> QED
      BY <2>7, <3>1, <3>2
  <2> HIDE DEF e, g
  <2>8. h \in Nat \ {0} /\ e.hop \in Nat
    BY <1>1, <2>2 DEF EventShape
  <2>9. CASE ~isLate /\ n = 0 /\ h = 1
    <3>1. LastHop(c) = 0 /\ Starting(e)
      BY <2>1, <2>9
    <3> DEFINE a == [c EXCEPT !.pending = [k \in ExtraKinds |-> c.pending[k] \o t[k]]]
               d == [a EXCEPT !.entries = Append(@, Entry(e.hop))]
    <3>2. Chains(e, d) /\ frozenExtras' = [frozenExtras EXCEPT ![r] = NoTail]
      BY <1>3, <3>1 DEF Starting, Adopt, NoTail
    <3>3. d \in Chain /\ NoTail \in Tails /\ Keeps(c, t, d, NoTail, H, N)
      <4> HIDE DEF c, t, N, H
      <4> QED
        BY <2>2, <2>3, <2>8, <3>1, StartKeeps
    <3> HIDE DEF d
    <3> QED
      BY <2>5, <3>2, <3>3
  <2>10. CASE ~isLate /\ n = 0 /\ h > 1
    <3> DEFINE i == LastHop(c)
               d == [Redirect(c, e) EXCEPT !.entries = Append(@, Entry(e.hop))]
    <3>0. g = h - 1
      BY <1>3, <2>10 DEF g
    <3>1. i = h - 1 /\ i \in DOMAIN c.entries /\ Redirecting(e) /\ g = i /\ i < N
      <4> HIDE DEF c, N, H
      <4>1. i = h - 1 /\ i \in 1 .. LastHop(c)
        BY <2>1, <2>3, <2>8, <2>10
      <4> QED
        BY <1>1, <2>1, <2>2, <2>3, <2>8, <2>10, <3>0, <4>1
    <3>2. OnlyChains(e, d)
      BY <1>3, <3>1 DEF Redirecting
    <3>3. Truly(e, i, H, N)
      <4> HIDE DEF N, H, c, i
      <4>1. e.hasExtra <=> script[r].hops[i].extra = "both"
        BY <1>3, <3>1
      <4>2. i # N /\ (i \in H["request"] <=> script[r].hops[i].extra \in {"both", "request"})
            /\ (script[r].hops[i].extra = "request" => i = N)
        BY <2>2, <3>1
      <4> QED
        BY <4>1, <4>2 DEF Truly
    <3> HIDE DEF N, H, t, c
    <3>4. d \in Chain /\ Keeps(c, t, d, t, H, N)
      <4>1. i \in DOMAIN c.entries /\ i = LastHop(c)
        BY <3>1
      <4> HIDE DEF i
      <4> QED
        BY <1>1, <2>2, <2>3, <3>3, <4>1, RedirectKeeps
    <3> HIDE DEF d
    <3> QED
      BY <2>6, <3>2, <3>4
  <2>11. CASE ~isLate /\ n = 3
    <3> DEFINE i == LastHop(c)
               d == Scheduled(WithAnswer(c, e))
    <3>1. i = h /\ i \in DOMAIN c.entries /\ Answering(e) /\ g = i /\ i = N
          /\ script[r].end # "blocked"
      BY <1>1, <1>3, <2>1, <2>2, <2>3, <2>8, <2>11 DEF g
    <3>2. OnlyChains(e, d)
      BY <1>3, <3>1 DEF Answering
    <3>3. Truly(e, i, H, N)
      BY <1>3, <2>2, <3>1 DEF Truly
    <3> HIDE DEF N, H, t, c
    <3>4. d \in Chain /\ Keeps(c, t, d, t, H, N)
      <4>1. i \in DOMAIN c.entries /\ i = LastHop(c)
        BY <3>1
      <4> HIDE DEF i
      <4> QED
        BY <1>1, <2>2, <2>3, <3>3, <4>1, AnswerKeeps
    <3> HIDE DEF d
    <3> QED
      BY <2>6, <3>2, <3>4
  <2>12. CASE ~isLate /\ n = 4 /\ script[r].end = "finished"
    <3> DEFINE i == LastHop(c)
    <3>0. PICK f \in Flags : f = "finished"
      BY DEF Flags
    <3> DEFINE d == Scheduled(Flagged(c, i, f))
    <3>1. i \in DOMAIN c.entries /\ Finishing(e)
      BY <1>1, <2>1, <2>3, <2>8, <2>12
    <3>2. OnlyChains(e, d)
      BY <1>3, <3>0, <3>1 DEF Finishing
    <3> HIDE DEF N, H, t, c
    <3>4. d \in Chain /\ Keeps(c, t, d, t, H, N)
      <4>1. i \in DOMAIN c.entries
        BY <3>1
      <4> HIDE DEF i
      <4> QED
        BY <2>2, <2>3, <4>1, FlagKeeps
    <3> HIDE DEF d
    <3> QED
      BY <2>6, <3>2, <3>4
  <2>13. CASE ~isLate /\ n = 4 /\ script[r].end # "finished"
    <3> DEFINE i == LastHop(c)
               d == Fail(c)
    <3>1. i \in DOMAIN c.entries /\ Breaking(e) /\ i = N
      BY <1>1, <2>1, <2>3, <2>8, <2>13
    <3>2. OnlyChains(e, d)
      BY <1>3, <3>1 DEF Breaking
    <3> HIDE DEF N, H, t, c
    <3>4. d \in Chain /\ Keeps(c, t, d, t, H, N)
      <4>1. i \in DOMAIN c.entries /\ i = LastHop(c) /\ i = N
        BY <3>1
      <4> HIDE DEF i
      <4> QED
        BY <2>2, <2>3, <4>1, FailKeeps
    <3> HIDE DEF d
    <3> QED
      BY <2>6, <3>2, <3>4
  <2>14. n = 0 \/ n \in {1, 2} \/ n = 3 \/ n = 4
    BY <1>1
  <2>15. h = 1 \/ h > 1
    BY <2>8
  <2> QED
    BY <2>1, <2>7, <2>9, <2>10, <2>11, <2>12, <2>13, <2>14, <2>15
<1> QED
  BY <1>4, <1>5

LEMMA ExtraKeepsPairs ==
  ASSUME CoreInv, PairInv, NEW r \in Ids, NEW k \in ExtraKinds, SendExtra(r, k),
         NEW buf \in BOOLEAN, HandleEvent(NextExtra(r, k), buf)
  PROVE  PairInv'
<1> DEFINE e == NextExtra(r, k)
           c == chains[r]
           t == frozenExtras[r]
           N == Length(r)
           H == HopsOf(r)
           x == ExtraOf(e)
<1> USE DEF CoreInv
<1>1. /\ e \in EventShape /\ e.id = r /\ e.kind = Kind(k) /\ e.hop \in ExtraHops(r, k)
      /\ Rank(ExtraHops(r, k), e.hop) = extraAt[r][k] + 1 /\ Outcome(e)
  BY ExtraStep
<1>2. /\ TakenInv' /\ script' = script
      /\ extraAt' = [extraAt EXCEPT ![r][k] = extraAt[r][k] + 1]
  BY ExtraKeepsTaken DEF SendExtra
<1> HIDE DEF e
<1>3. CASE limitErr'
  <2>1. Failing
    BY <1>1, <1>3 DEF Outcome, Passing, Starting, Redirecting, Answering, Finishing, Breaking,
         Caching, Pairing, Queueing, Dropping, OnlyChains, Chains
  <2> QED
    BY <1>2, <1>3, <2>1, PairsAfterFailure DEF Failing
<1>4. CASE ~limitErr'
  <2>1. Pairing(e, k) \/ Queueing(e, k) \/ Dropping(e, k)
    BY <1>1, <1>4, ExtraOutcome DEF Failing
  <2>2. ~limitErr /\ dropped \subseteq dropped'
    BY <2>1 DEF Pairing, Queueing, Dropping, OnlyChains, Chains
  <2>3. /\ N \in Nat /\ H \in HopSets(N) /\ H[k] = ExtraHops(r, k)
    BY HopsOfIs
  <2>4. /\ TypeInv /\ OrphanInv /\ c \in Chain /\ t \in Tails /\ LastHop(c) \in Nat
        /\ DOMAIN c.entries = 1 .. LastHop(c) /\ x \in Extras /\ x.hop = e.hop
    BY <1>1, ChainType, ExtraOfType DEF RecInv, TypeInv
  <2>5. /\ \A q \in Ids \ {r} : extraAt'[q] = extraAt[q]
        /\ extraAt'[r][k] = extraAt[r][k] + 1
        /\ \A j \in ExtraKinds \ {k} : extraAt'[r][j] = extraAt[r][j]
    <3>1. extraAt \in [Ids -> [ExtraKinds -> Nat]]
      BY DEF EnvInv
    <3> QED
      BY <1>2, <3>1
  <2>6. r \notin dropped => /\ InStep(c, H, N, t)
                            /\ \A j \in ExtraKinds : extraAt[r][j] = Come(c, j, t)
                            /\ x.hop \in H[k] /\ Rank(H[k], x.hop) = Come(c, k, t) + 1
    BY <1>1, <2>2, <2>3, <2>4 DEF PairInv, InPlace, AllThere
  <2>7. CASE Pairing(e, k)
    <3> DEFINE a == AddExtra(c, k, x)
               d == IF k = "request" THEN a ELSE Scheduled(a)
    <3>1. OnlyChains(e, d) /\ t[k] = <<>> /\ frozenExtras' = frozenExtras
      BY <1>1, <2>4, <2>7 DEF Pairing, OrphanInv, OnlyChains
    <3>2. d \in Chain
      BY <2>4, PairingFields
    <3>3. LastHop(c) > 0 /\ c.entries[LastHop(c)].failed => LastHop(c) = N
      <4> SUFFICES ASSUME LastHop(c) > 0, c.entries[LastHop(c)].failed
                   PROVE  LastHop(c) = N
        OBVIOUS
      <4> DEFINE i == LastHop(c)
      <4>1. i \in DOMAIN c.entries /\ i \in Nat \ {0}
        BY <2>4
      <4>2. Taken(c, script[r], Reached(r))
        BY <2>2 DEF TakenInv
      <4>3. <<i, 4>> \in Reached(r)
        BY <4>1, <4>2 DEF Taken
      <4> HIDE DEF c, i
      <4>4. EarlyPast(r, i, 4)
        BY <4>3 DEF Reached
      <4>5. Occurs(script[r], Place(i, 4))
        BY <4>4 DEF EarlyPast, Place
      <4> QED
        BY <4>1, <4>5, OccursAt DEF i
    <3>4. chains'[r] = d /\ \A q \in Ids \ {r} : chains'[q] = chains[q]
      BY <1>1, <2>4, <3>1, <3>2, NewChains DEF OnlyChains
    <3> HIDE DEF c, t, N, H, x
    <3>5. r \notin dropped =>
            /\ InStep(d, H, N, t) /\ Come(d, k, t) = Come(c, k, t) + 1
            /\ \A j \in ExtraKinds \ {k} : Come(d, j, t) = Come(c, j, t)
      BY <2>3, <2>4, <2>6, <3>1, <3>3, PairKeeps
    <3> HIDE DEF d
    <3>6. r \notin dropped' =>
            InStep(d, H, N, t) /\ \A j \in ExtraKinds : extraAt'[r][j] = Come(d, j, t)
      BY <2>2, <2>5, <2>6, <3>5
    <3> QED
      BY <1>2, <1>4, <2>2, <2>5, <3>1, <3>4, <3>6, PairsElsewhere DEF N, H, t
  <2>8. CASE Queueing(e, k)
    <3> DEFINE u == [t EXCEPT ![k] = Append(@, x)]
    <3>1. /\ frozenExtras' = [frozenExtras EXCEPT ![r][k] = Append(@, x)]
          /\ chains' = chains
      BY <1>1, <2>8 DEF Queueing
    <3>2. frozenExtras'[r] = u /\ \A q \in Ids \ {r} : frozenExtras'[q] = frozenExtras[q]
      BY <2>4, <3>1 DEF TypeInv
    <3> HIDE DEF c, t, N, H, x
    <3>3. r \notin dropped =>
            /\ InStep(c, H, N, u) /\ Come(c, k, u) = Come(c, k, t) + 1
            /\ \A j \in ExtraKinds \ {k} : Come(c, j, u) = Come(c, j, t)
      <4> SUFFICES ASSUME r \notin dropped
                   PROVE  Gains(c, t, c, u, H, N, k)
        BY DEF Gains
      <4>1. /\ c \in Chain /\ t \in Tails /\ x \in Extras /\ N \in Nat /\ H \in HopSets(N)
            /\ InStep(c, H, N, t) /\ x.hop \in H[k] /\ Rank(H[k], x.hop) = Come(c, k, t) + 1
        BY <2>3, <2>4, <2>6
      <4> QED
        BY <4>1, TailStep
    <3> HIDE DEF u
    <3>4. r \notin dropped' =>
            InStep(c, H, N, u) /\ \A j \in ExtraKinds : extraAt'[r][j] = Come(c, j, u)
      BY <2>2, <2>5, <2>6, <3>3
    <3> QED
      BY <1>2, <1>4, <2>2, <2>5, <3>1, <3>2, <3>4, PairsElsewhere DEF N, H, c
  <2>9. CASE Dropping(e, k)
    <3>1. r \in dropped' /\ chains' = chains /\ frozenExtras' = frozenExtras
      BY <1>1, <2>9 DEF Dropping
    <3> QED
      BY <1>2, <1>4, <2>2, <2>5, <3>1, PairsElsewhere
  <2> QED
    BY <2>1, <2>7, <2>8, <2>9
<1> QED
  BY <1>3, <1>4

LEMMA FreezeKeepsPairs ==
  ASSUME CoreInv, PairInv, Freeze
  PROVE  PairInv'
<1>1. UNCHANGED <<chains, limitErr, frozenExtras, dropped, script, extraAt>>
  BY FreezeStep DEF CoreInv
<1>2. \A q \in Ids : HopsOf(q)' = HopsOf(q) /\ Length(q)' = Length(q)
  BY <1>1 DEF HopsOf, ExtraHops, Length
<1> QED
  BY <1>1, <1>2 DEF PairInv, InPlace, AllThere

LEMMA InitPairs == Init => PairInv
<1> SUFFICES ASSUME Init, NEW r \in Ids
             PROVE  /\ \A i \in DOMAIN chains[r].entries : chains[r].entries[i].hop = i
                    /\ InPlace(r) /\ AllThere(r)
  BY DEF PairInv
<1>1. /\ chains[r] = EmptyChain /\ frozenExtras[r] = NoTail
      /\ \A k \in ExtraKinds : extraAt[r][k] = 0
  BY DEF Init, RecorderInit, BrowserInit, NoTail
<1>2. /\ DOMAIN EmptyChain.entries = {} /\ \A k \in ExtraKinds : EmptyChain.pending[k] = <<>>
      /\ \A k \in ExtraKinds : NoTail[k] = <<>> /\ Assigned(EmptyChain, k) = {}
  BY DEF EmptyChain, NoTail, Assigned
<1>3. InStep(EmptyChain, HopsOf(r), Length(r), NoTail)
  <2>1. Informed(EmptyChain, HopsOf(r)["request"], Length(r))
    BY <1>2 DEF Informed
  <2>2. ASSUME NEW k \in ExtraKinds
        PROVE  Paired(EmptyChain, k, HopsOf(r)[k], NoTail[k])
    <3>1. EmptyChain.pending[k] \o NoTail[k] = <<>> /\ Assigned(EmptyChain, k) = {}
      BY <1>2
    <3> QED
      BY <3>1 DEF Paired
  <2> QED
    BY <2>1, <2>2 DEF InStep
<1>4. ASSUME NEW k \in ExtraKinds
      PROVE  Come(EmptyChain, k, NoTail) = 0
  <2>1. EmptyChain.pending[k] = <<>> /\ NoTail[k] = <<>> /\ Assigned(EmptyChain, k) = {}
    BY <1>2
  <2>2. Cardinality({}) = 0
    BY FS_EmptySet
  <2>3. Come(EmptyChain, k, NoTail) = 0 + 0 + 0
    BY <2>1, <2>2 DEF Come
  <2> QED
    BY <2>3
<1> QED
  BY <1>1, <1>2, <1>3, <1>4 DEF InPlace, AllThere

\* With the core invariant, that of the pairing is inductive.
THEOREM PairsInductive == Spec => []PairInv
<1>1. Init => PairInv
  BY InitPairs
<1>2. CoreInv /\ PairInv /\ [Next]_vars => PairInv'
  <2> SUFFICES ASSUME CoreInv, PairInv, [Next]_vars
               PROVE  PairInv'
    OBVIOUS
  <2>1. ASSUME NEW r \in Ids, BaseArrives(r)
        PROVE  PairInv'
    <3>1. PICK isLate \in BOOLEAN, buf \in BOOLEAN :
         /\ SendBase(r, isLate)
         /\ HandleEvent(BaseEvent(r, NextBase(r), isLate), buf)
      BY <2>1 DEF BaseArrives
    <3> QED
      BY <3>1, BaseKeepsPairs
  <2>2. ASSUME NEW r \in Ids, ExtraArrives(r)
        PROVE  PairInv'
    <3>1. PICK k \in ExtraKinds, buf \in BOOLEAN :
         SendExtra(r, k) /\ HandleEvent(NextExtra(r, k), buf)
      BY <2>2 DEF ExtraArrives
    <3> QED
      BY <3>1, ExtraKeepsPairs
  <2>3. CASE UNCHANGED vars
    <3>1. \A q \in Ids : HopsOf(q)' = HopsOf(q) /\ Length(q)' = Length(q)
      BY <2>3 DEF HopsOf, ExtraHops, Length, vars, browserVars
    <3> QED
      BY <2>3, <3>1 DEF PairInv, InPlace, AllThere, vars, recorderVars, browserVars
  <2> QED
    BY <2>1, <2>2, <2>3, FreezeKeepsPairs DEF Next
<1> QED
  BY <1>1, <1>2, Inductive, PTL DEF Spec

\* However extras and base events interleave with each other and the freeze,
\* no hop gets the extra info of another one, unless its request lost an
\* orphan to the limit (reconcileExtraInfo, setExtraInfoExpectation and the
\* hand-over of queued extras).
THEOREM EachHopItsOwn == Spec => []ExtrasBelongToHop
<1>1. ASSUME CoreInv, PairInv
      PROVE  ExtrasBelongToHop
  <2> SUFFICES ASSUME NEW r \in Ids \ dropped, NEW i \in DOMAIN chains[r].entries,
                      NEW k \in ExtraKinds
               PROVE  chains[r].entries[i].extra[k].hop \in {0, chains[r].entries[i].hop}
    BY DEF ExtrasBelongToHop, Entries, IsOwn
  <2>1. chains[r].entries[i].hop = i /\ InPlace(r)
    BY <1>1 DEF PairInv
  <2>2. CASE i \in Assigned(chains[r], k)
    BY <2>1, <2>2 DEF InPlace, InStep, Paired
  <2>3. CASE i \notin Assigned(chains[r], k)
    BY <2>3 DEF Assigned, NoExtra, Extra
  <2> QED
    BY <2>2, <2>3
<1> QED
  BY <1>1, Inductive, PairsInductive, PTL

\* None is lost or used twice on its way from the listener to its entry: every
\* extra delivered is with a hop, waits in a chain or waits for its request.
THEOREM NoneIsLost == Spec => []NoExtraLost
<1>1. ASSUME PairInv
      PROVE  NoExtraLost
  BY <1>1 DEF PairInv, AllThere, Come, Assigned, NoExtraLost, Entries
<1> QED
  BY <1>1, PairsInductive, PTL

-----------------------------------------------------------------------------
(* A body is asked for once, if there is one.                              *)

\* The entries of c are asked for as they should be: those that a redirect
\* follows cannot be, and the response of the last one says the truth of its
\* body and its extra info.  R are the hops with a response extra, B those
\* without a body, n is the last one.
Minded(c, R, B, n) ==
  /\ \A i \in DOMAIN c.entries :
        LET e == c.entries[i] IN
        /\ e.asks = 0 \/ (e.asks = 1 /\ i = n /\ i \notin B)
        /\ e.scheduled => IncludeBodies /\ (i = n => i \in B \/ e.asks = 1)
        /\ ~e.scheduled => e.asks = 0
        /\ IncludeBodies /\ i # LastHop(c) => e.scheduled
  /\ \A i \in DOMAIN c.entries :
        LET e == c.entries[i] IN
        i = LastHop(c) /\ e.response =>
          /\ e.known /\ (e.expected => i \in R)
          /\ e.noBody <=> i \in B /\ i \notin R

\* Who is ready has been asked for.
Fetched(c, R, B, n) ==
  /\ Minded(c, R, B, n)
  /\ IncludeBodies => \A i \in DOMAIN c.entries : ~Ready(c.entries[i])

\* What an entry's extra info and response say of its body is true.
LEMMA ReadyIsTrue ==
  ASSUME NEW c \in Chain, NEW n \in Nat, NEW H \in HopSets(n), NEW t \in Tails, NEW B,
         InStep(c, H, n, t), Frank(c, B), Minded(c, H["response"], B, n),
         NEW i \in DOMAIN c.entries, i = LastHop(c), Ready(c.entries[i])
  PROVE  HasNoBody(c.entries[i]) <=> i \in B
<1> DEFINE e == c.entries[i]
<1>1. PICK k \in ExtraKinds : k = "response"
  BY DEF ExtraKinds
<1>2. /\ e.known /\ (e.expected => i \in H["response"])
      /\ e.noBody <=> i \in B /\ i \notin H["response"]
  BY DEF Minded, Ready
<1>3. CASE e.extra["response"] # NoExtra
  <2>1. i \in Assigned(c, k) /\ Paired(c, k, H[k], t[k])
    BY <1>1, <1>3 DEF Assigned, InStep
  <2>2. e.extra["response"].hop = i
    BY <1>1, <2>1 DEF Paired
  <2>3. Honest(e.extra["response"], B)
    BY <1>3 DEF Frank
  <2> QED
    BY <1>3, <2>2, <2>3 DEF HasNoBody, Honest
<1>4. CASE e.extra["response"] = NoExtra
  <2>1. ~e.expected
    BY <1>4 DEF Ready
  <2>2. i \notin H["request"]
    BY <1>2, <2>1 DEF InStep, Informed
  <2>3. i \notin H["response"]
    BY <2>2 DEF HopSets
  <2>4. e.noBody <=> i \in B
    BY <1>2, <2>3
  <2> QED
    BY <1>4, <2>4 DEF HasNoBody
<1> QED
  BY <1>3, <1>4

\* Scheduling asks for the one body that is ready.
LEMMA ScheduledFetches ==
  ASSUME NEW c \in Chain, NEW n \in Nat, NEW H \in HopSets(n), NEW t \in Tails, NEW B,
         InStep(c, H, n, t), Frank(c, B), Minded(c, H["response"], B, n),
         \A i \in DOMAIN c.entries : i = LastHop(c) /\ c.entries[i].finished => i = n
  PROVE  Fetched(Scheduled(c), H["response"], B, n) /\ Frank(Scheduled(c), B)
<1> DEFINE d == Scheduled(c)
           R == H["response"]
<1>1. /\ DOMAIN d.entries = DOMAIN c.entries /\ LastHop(d) = LastHop(c)
      /\ \A i \in DOMAIN c.entries :
            /\ \A f \in DOMAIN c.entries[i] \ {"scheduled", "asks"} :
                  d.entries[i][f] = c.entries[i][f]
            /\ ~IncludeBodies \/ ~Ready(c.entries[i]) => d.entries[i] = c.entries[i]
            /\ IncludeBodies /\ Ready(c.entries[i]) =>
                  /\ d.entries[i].scheduled
                  /\ d.entries[i].asks = c.entries[i].asks
                       + IF HasNoBody(c.entries[i]) THEN 0 ELSE 1
      /\ SameExtras(c, d)
  BY ScheduledStep
<1> HIDE DEF d
<1>2. Frank(d, B)
  BY <1>1, SameFrank
<1>3. ASSUME NEW i \in DOMAIN c.entries
      PROVE  /\ d.entries[i].known = c.entries[i].known
             /\ d.entries[i].expected = c.entries[i].expected
             /\ d.entries[i].response = c.entries[i].response
             /\ d.entries[i].noBody = c.entries[i].noBody
  <2>1. {"known", "expected", "response", "noBody"}
          \subseteq DOMAIN c.entries[i] \ {"scheduled", "asks"}
    BY EntryOf DEF EntryShape
  <2> QED
    BY <1>1, <2>1
<1>4. ASSUME NEW i \in DOMAIN c.entries, IncludeBodies, Ready(c.entries[i])
      PROVE  /\ i = LastHop(c) /\ i = n /\ d.entries[i].scheduled
             /\ i \in B => d.entries[i].asks = 0
             /\ i \notin B => d.entries[i].asks = 1
  <2>1. i = LastHop(c) /\ c.entries[i].asks = 0
    BY <1>4 DEF Minded, Ready
  <2>2. i = n
    BY <1>4, <2>1 DEF Ready
  <2>3. HasNoBody(c.entries[i]) <=> i \in B
    BY <1>4, <2>1, ReadyIsTrue
  <2>4. /\ d.entries[i].scheduled
        /\ HasNoBody(c.entries[i]) => d.entries[i].asks = 0
        /\ ~HasNoBody(c.entries[i]) => d.entries[i].asks = 1
    BY <1>1, <1>4, <2>1
  <2> QED
    BY <2>1, <2>2, <2>3, <2>4
<1>5. \A i \in DOMAIN c.entries : ~IncludeBodies \/ ~Ready(c.entries[i]) =>
        d.entries[i] = c.entries[i]
  BY <1>1
<1>6. Minded(d, R, B, n)
  <2>1. ASSUME NEW i \in DOMAIN d.entries
        PROVE  LET e == d.entries[i] IN
               /\ e.asks = 0 \/ (e.asks = 1 /\ i = n /\ i \notin B)
               /\ e.scheduled => IncludeBodies /\ (i = n => i \in B \/ e.asks = 1)
               /\ ~e.scheduled => e.asks = 0
               /\ IncludeBodies /\ i # LastHop(d) => e.scheduled
    <3>0. i \in DOMAIN c.entries
      BY <1>1
    <3>1. CASE IncludeBodies /\ Ready(c.entries[i])
      BY <1>4, <3>0, <3>1
    <3>2. CASE ~(IncludeBodies /\ Ready(c.entries[i]))
      <4>1. d.entries[i] = c.entries[i]
        BY <1>5, <3>0, <3>2
      <4> QED
        BY <1>1, <3>0, <4>1 DEF Minded
    <3> QED
      BY <3>1, <3>2
  <2>2. ASSUME NEW i \in DOMAIN d.entries, i = LastHop(d), d.entries[i].response
        PROVE  /\ d.entries[i].known /\ (d.entries[i].expected => i \in R)
               /\ d.entries[i].noBody <=> i \in B /\ i \notin R
    BY <1>1, <1>3, <2>2 DEF Minded
  <2> QED
    BY <2>1, <2>2 DEF Minded
<1>7. ASSUME IncludeBodies, NEW i \in DOMAIN d.entries
      PROVE  ~Ready(d.entries[i])
  <2>1. CASE Ready(c.entries[i])
    <3>1. d.entries[i].scheduled
      BY <1>1, <1>4, <1>7, <2>1
    <3> QED
      BY <3>1 DEF Ready
  <2>2. CASE ~Ready(c.entries[i])
    BY <1>1, <1>5, <1>7, <2>2
  <2> QED
    BY <2>1, <2>2
<1> QED
  BY <1>2, <1>6, <1>7 DEF Fetched, d

\* The first entry of a chain, which takes over what waits for it in t.
LEMMA StartFetches ==
  ASSUME NEW c \in Chain, LastHop(c) = 0, NEW h \in Nat, NEW t \in Tails,
         NEW R, NEW B, NEW n, Frank(c, B),
         \A m \in DOMAIN t["response"] : Honest(t["response"][m], B)
  PROVE  LET a == [c EXCEPT !.pending = [k \in ExtraKinds |-> c.pending[k] \o t[k]]]
             d == [a EXCEPT !.entries = Append(@, Entry(h))]
         IN Fetched(d, R, B, n) /\ Frank(d, B)
<1> DEFINE a == [c EXCEPT !.pending = [k \in ExtraKinds |-> c.pending[k] \o t[k]]]
           d == [a EXCEPT !.entries = Append(@, Entry(h))]
<1>1. a \in Chain /\ a.entries = c.entries
  BY AdoptStep
<1>2. DOMAIN c.entries = {} /\ LastHop(a) = 0
  BY <1>1, ChainType DEF LastHop
<1>3. Frank(a, B)
  <2>1. PICK k \in ExtraKinds : k = "response"
    BY DEF ExtraKinds
  <2> DEFINE p == c.pending[k]
             q == t[k]
  <2>2. p \in Seq(Extras) /\ q \in Seq(Extras)
    BY ChainType DEF Tails
  <2>3. a.pending[k] = p \o q
    BY DEF Chain
  <2> HIDE DEF a
  <2>4. /\ \A m \in 1 .. Len(p) : Honest(p[m], B)
        /\ \A m \in 1 .. Len(q) : Honest(q[m], B)
    BY <2>1, <2>2 DEF Frank
  <2> HIDE DEF p, q
  <2>5. ASSUME NEW m \in DOMAIN (p \o q)
        PROVE  Honest((p \o q)[m], B)
    <3>1. \/ m \in 1 .. Len(p) /\ (p \o q)[m] = p[m]
          \/ m - Len(p) \in 1 .. Len(q) /\ (p \o q)[m] = q[m - Len(p)]
      BY <2>2, <2>5
    <3> QED
      BY <2>4, <3>1
  <2> QED
    BY <1>1, <1>2, <2>1, <2>3, <2>5 DEF Frank
<1> HIDE DEF a
<1>8. /\ DOMAIN d.entries = DOMAIN a.entries \cup {LastHop(a) + 1}
      /\ LastHop(d) = LastHop(a) + 1 /\ d.entries[LastHop(a) + 1] = Entry(h)
  BY <1>1, AppendStep
<1>5. Frank(d, B)
  BY <1>1, <1>3, AppendFrank
<1> HIDE DEF d
<1>4. /\ DOMAIN d.entries = DOMAIN a.entries \cup {1} /\ LastHop(d) = 1
      /\ d.entries[1] = Entry(h)
  BY <1>2, <1>8
<1>6. DOMAIN d.entries = {1}
  BY <1>1, <1>2, <1>4
<1>7. ~Entry(h).scheduled /\ Entry(h).asks = 0 /\ ~Entry(h).response
  BY DEF Entry
<1> QED
  BY <1>4, <1>5, <1>6, <1>7 DEF Fetched, Minded, Ready, a, d

\* A redirect gives the body of the last hop up, before it was asked for.
LEMMA RedirectFetches ==
  ASSUME NEW c \in Chain, NEW i \in DOMAIN c.entries, i = LastHop(c), NEW e \in EventShape,
         NEW R, NEW B, NEW n, i # n, Minded(c, R, B, n), Frank(c, B)
  PROVE  LET d == [Redirect(c, e) EXCEPT !.entries = Append(@, Entry(e.hop))]
         IN Fetched(d, R, B, n) /\ Frank(d, B)
<1> DEFINE a == Redirect(c, e)
           d == [a EXCEPT !.entries = Append(@, Entry(e.hop))]
<1>10. /\ a \in Chain /\ DOMAIN a.entries = DOMAIN c.entries /\ LastHop(a) = LastHop(c)
       /\ IncludeBodies => a.entries[i].scheduled
       /\ ~IncludeBodies => a.entries[i].scheduled = c.entries[i].scheduled
       /\ \A f \in {"hop", "failed", "cached", "asks"} : a.entries[i][f] = c.entries[i][f]
       /\ \A j \in DOMAIN c.entries \ {i} : \A f \in BaseFields :
             a.entries[j][f] = c.entries[j][f]
       /\ \E m \in Chain : SameExtras(c, m) /\ a = Expect(m, i, e.hasExtra)
  BY RedirectStep, ZenonT(30)
<1> HIDE DEF a
<1>1. /\ a \in Chain /\ DOMAIN a.entries = DOMAIN c.entries /\ LastHop(a) = i
      /\ IncludeBodies => a.entries[i].scheduled
      /\ ~IncludeBodies => a.entries[i].scheduled = c.entries[i].scheduled
      /\ a.entries[i].asks = c.entries[i].asks
      /\ \A j \in DOMAIN c.entries \ {i} : a.entries[j].asks = c.entries[j].asks
                                      /\ a.entries[j].scheduled = c.entries[j].scheduled
      /\ \E m \in Chain : SameExtras(c, m) /\ a = Expect(m, i, e.hasExtra)
  BY <1>10 DEF BaseFields
<1>2. Frank(a, B)
  <2>1. PICK m \in Chain : SameExtras(c, m) /\ a = Expect(m, i, e.hasExtra)
    BY <1>1
  <2>2. Frank(m, B) /\ i \in DOMAIN m.entries /\ e.hasExtra \in BOOLEAN
    BY <2>1, SameFrank DEF SameExtras, EventShape
  <2> QED
    BY <2>1, <2>2, ExpectFrank
<1>3. e.hop \in Nat /\ i \in Nat /\ DOMAIN c.entries = 1 .. i
  BY ChainType DEF EventShape
<1>11. /\ DOMAIN d.entries = DOMAIN a.entries \cup {LastHop(a) + 1}
       /\ LastHop(d) = LastHop(a) + 1 /\ d.entries[LastHop(a) + 1] = Entry(e.hop)
       /\ \A j \in DOMAIN a.entries : d.entries[j] = a.entries[j]
  BY <1>1, <1>3, AppendStep
<1>5. Frank(d, B)
  BY <1>1, <1>2, <1>3, AppendFrank
<1> HIDE DEF d
<1>4. /\ DOMAIN d.entries = DOMAIN a.entries \cup {i + 1} /\ LastHop(d) = i + 1
      /\ d.entries[i + 1] = Entry(e.hop)
      /\ \A j \in DOMAIN a.entries : d.entries[j] = a.entries[j]
  BY <1>1, <1>11
<1>6. LET f == Entry(e.hop) IN ~f.scheduled /\ f.asks = 0 /\ ~f.response
  BY DEF Entry
<1>7. ASSUME NEW j \in DOMAIN c.entries
      PROVE  LET f == d.entries[j] IN
             /\ f.asks = 0 \/ (f.asks = 1 /\ j = n /\ j \notin B)
             /\ f.scheduled => IncludeBodies /\ (j = n => j \in B \/ f.asks = 1)
             /\ ~f.scheduled => f.asks = 0
             /\ IncludeBodies => f.scheduled
  <2>1. d.entries[j] = a.entries[j]
    BY <1>1, <1>4
  <2>2. CASE j = i
    BY <1>1, <2>1, <2>2 DEF Minded
  <2>3. CASE j # i
    BY <1>1, <2>1, <2>3 DEF Minded
  <2> QED
    BY <2>2, <2>3
<1>8. \A j \in DOMAIN d.entries : j \in DOMAIN c.entries \/ j = i + 1
  BY <1>1, <1>4
<1>9. Minded(d, R, B, n)
  <2>1. i + 1 \notin DOMAIN c.entries
    BY <1>3
  <2> QED
    BY <1>4, <1>6, <1>7, <1>8, <2>1 DEF Minded
<1>12. IncludeBodies => \A j \in DOMAIN d.entries : ~Ready(d.entries[j])
  BY <1>4, <1>6, <1>7, <1>8 DEF Ready
<1> QED
  BY <1>5, <1>9, <1>12 DEF Fetched, a, d

\* What came of the chain m, or of an entry that it told what to expect.
LEMMA ExpectedFrank ==
  ASSUME NEW c \in Chain, NEW d, NEW i \in DOMAIN c.entries, NEW B, Frank(c, B),
         \E m \in Chain :
           SameExtras(c, m) /\ (d = m \/ \E x \in BOOLEAN : d = Expect(m, i, x))
  PROVE  Frank(d, B)
<1>1. PICK m \in Chain :
        SameExtras(c, m) /\ (d = m \/ \E x \in BOOLEAN : d = Expect(m, i, x))
  OBVIOUS
<1>2. Frank(m, B) /\ i \in DOMAIN m.entries
  BY <1>1, SameFrank DEF SameExtras
<1>3. CASE d = m
  BY <1>2, <1>3
<1>4. CASE \E x \in BOOLEAN : d = Expect(m, i, x)
  <2>1. PICK x \in BOOLEAN : d = Expect(m, i, x)
    BY <1>4
  <2> QED
    BY <1>2, <2>1, ExpectFrank
<1> QED
  BY <1>1, <1>3, <1>4

\* What the last response says of its body: the truth, if no extra will.
TellsBody(e, i, R, B) ==
  /\ e.hasExtra => i \in R
  /\ e.noBody <=> i \in B /\ i \notin R

\* What the answer d to e leaves of entry i, and of the others, in c.
Answered(c, d, e, i) ==
  /\ d \in Chain /\ DOMAIN d.entries = DOMAIN c.entries /\ LastHop(d) = LastHop(c)
  /\ d.entries[i].known /\ d.entries[i].expected = e.hasExtra
  /\ d.entries[i].noBody = e.noBody /\ d.entries[i].response = TRUE
  /\ \A f \in BaseFields \ {"noBody", "response"} : d.entries[i][f] = c.entries[i][f]
  /\ \A j \in DOMAIN c.entries \ {i} : \A f \in BaseFields :
        d.entries[j][f] = c.entries[j][f]
  /\ \E m \in Chain : SameExtras(c, m) /\ d = Expect(m, i, e.hasExtra)

LEMMA AnswerIs ==
  ASSUME NEW c \in Chain, NEW i \in DOMAIN c.entries, i = LastHop(c), NEW e \in EventShape
  PROVE  Answered(c, WithAnswer(c, e), e, i)
<1> DEFINE d == WithAnswer(c, e)
<1>1. /\ d \in Chain /\ DOMAIN d.entries = DOMAIN c.entries /\ LastHop(d) = LastHop(c)
      /\ d.entries[i].response = TRUE
      /\ \A f \in BaseFields \ {"noBody", "response"} : d.entries[i][f] = c.entries[i][f]
      /\ \A j \in DOMAIN c.entries \ {i} : \A f \in BaseFields :
            d.entries[j][f] = c.entries[j][f]
  BY AnswerFields
<1>2. /\ d.entries[i].known /\ d.entries[i].expected = e.hasExtra
      /\ d.entries[i].noBody = e.noBody
  BY AnswerStep, ZenonT(30)
<1>3. \E m \in Chain : SameExtras(c, m) /\ d = Expect(m, i, e.hasExtra)
  BY AnswerStep
<1> HIDE DEF d
<1> QED
  BY <1>1, <1>2, <1>3 DEF Answered, d

\* The last response settles what its entry may expect.
LEMMA AnswerFetches ==
  ASSUME NEW c \in Chain, NEW i \in DOMAIN c.entries, i = LastHop(c), NEW e \in EventShape,
         NEW H \in HopSets(i), NEW t \in Tails, NEW B,
         InStep(c, H, i, t), Frank(c, B), Minded(c, H["response"], B, i), Truly(e, i, H, i),
         TellsBody(e, i, H["response"], B)
  PROVE  LET d == Scheduled(WithAnswer(c, e))
         IN Fetched(d, H["response"], B, i) /\ Frank(d, B)
<1> DEFINE a == WithAnswer(c, e)
           R == H["response"]
<1>0. i \in Nat
  BY ChainType
<1>1. Answered(c, a, e, i)
  BY AnswerIs
<1>2. InStep(a, H, i, t)
  <2>1. \A m \in Nat : \A G \in HopSets(m), u \in Tails :
          InStep(c, G, m, u) /\ (i \in G["request"] => e.hasExtra)
            /\ (e.hasExtra => i \in G["request"] \/ i = m) =>
            /\ InStep(a, G, m, u)
            /\ \A k \in ExtraKinds : Come(a, k, u) = Come(c, k, u)
    BY AnswerStep
  <2> HIDE DEF a
  <2> QED
    BY <1>0, <2>1 DEF Truly
<1> HIDE DEF a
<1>3. Frank(a, B)
  <2>1. e.hasExtra \in BOOLEAN
    BY DEF EventShape
  <2>2. \E m \in Chain :
          SameExtras(c, m) /\ (a = m \/ \E x \in BOOLEAN : a = Expect(m, i, x))
    BY <1>1, <2>1 DEF Answered
  <2> QED
    BY <2>2, ExpectedFrank
<1>4. \A j \in DOMAIN a.entries :
        a.entries[j].asks = c.entries[j].asks /\ a.entries[j].scheduled = c.entries[j].scheduled
  BY <1>1 DEF Answered, BaseFields
<1>5. Minded(a, R, B, i)
  BY <1>1, <1>4 DEF Answered, Minded, TellsBody
<1> QED
  BY <1>0, <1>1, <1>2, <1>3, <1>5, ScheduledFetches DEF Answered, a

\* A flag says nothing of the body, unless that it has come.
LEMMA FlagMinded ==
  ASSUME NEW c \in Chain, NEW i \in DOMAIN c.entries, NEW f \in Flags, NEW R, NEW B, NEW n,
         Minded(c, R, B, n), Frank(c, B)
  PROVE  LET d == Flagged(c, i, f) IN
         /\ Minded(d, R, B, n) /\ Frank(d, B)
         /\ f = "cached" /\ Fetched(c, R, B, n) => Fetched(d, R, B, n)
<1> DEFINE d == Flagged(c, i, f)
           Told == {"known", "expected", "response", "noBody", "scheduled", "asks"}
<1>1. /\ DOMAIN d.entries = DOMAIN c.entries /\ LastHop(d) = LastHop(c)
      /\ \A g \in DOMAIN c.entries[i] \ {f} : d.entries[i][g] = c.entries[i][g]
      /\ \A j \in DOMAIN c.entries \ {i} : d.entries[j] = c.entries[j]
      /\ SameExtras(c, d)
  <2> HIDE DEF Told
  <2> QED
    BY FlagStep
<1> HIDE DEF d
<1>2. Told \subseteq DOMAIN c.entries[i] \ {f}
      /\ "finished" \in DOMAIN c.entries[i]
  BY EntryOf DEF EntryShape, Flags
<1>3. \A g \in Told : d.entries[i][g] = c.entries[i][g]
  BY <1>1, <1>2
<1>4. ASSUME NEW j \in DOMAIN c.entries
      PROVE  /\ d.entries[j].known = c.entries[j].known
             /\ d.entries[j].expected = c.entries[j].expected
             /\ d.entries[j].response = c.entries[j].response
             /\ d.entries[j].noBody = c.entries[j].noBody
             /\ d.entries[j].scheduled = c.entries[j].scheduled
             /\ d.entries[j].asks = c.entries[j].asks
             /\ d.entries[j].extra = c.entries[j].extra
             /\ f = "cached" => d.entries[j].finished = c.entries[j].finished
  <2>1. CASE j = i
    BY <1>1, <1>2, <1>3, <2>1 DEF SameExtras
  <2>2. CASE j # i
    BY <1>1, <2>2
  <2> QED
    BY <2>1, <2>2
<1>5. Minded(d, R, B, n)
  BY <1>1, <1>4 DEF Minded
<1>6. Frank(d, B)
  BY <1>1, SameFrank
<1>7. ASSUME f = "cached", Fetched(c, R, B, n)
      PROVE  Fetched(d, R, B, n)
  <2>1. \A j \in DOMAIN c.entries : Ready(d.entries[j]) <=> Ready(c.entries[j])
    BY <1>4, <1>7 DEF Ready
  <2> QED
    BY <1>1, <1>5, <1>7, <2>1 DEF Fetched
<1> QED
  BY <1>5, <1>6, <1>7 DEF d

LEMMA FinishFetches ==
  ASSUME NEW c \in Chain, NEW i \in DOMAIN c.entries, i = LastHop(c),
         NEW H \in HopSets(i), NEW t \in Tails, NEW B,
         InStep(c, H, i, t), Frank(c, B), Minded(c, H["response"], B, i), NEW f \in Flags
  PROVE  LET d == Scheduled(Flagged(c, i, f))
         IN Fetched(d, H["response"], B, i) /\ Frank(d, B)
<1> DEFINE a == Flagged(c, i, f)
<1>0. i \in Nat
  BY ChainType
<1>1. a \in Chain /\ LastHop(a) = LastHop(c) /\ DOMAIN a.entries = DOMAIN c.entries
      /\ StaysInStep(c, a)
  BY FlagStep
<1>2. Minded(a, H["response"], B, i) /\ Frank(a, B)
  BY FlagMinded
<1> HIDE DEF a
<1>3. InStep(a, H, i, t)
  BY <1>0, <1>1 DEF StaysInStep
<1> QED
  BY <1>0, <1>1, <1>2, <1>3, ScheduledFetches DEF a

\* Chains of which Minded says the same.
LEMMA SameMind ==
  ASSUME NEW c \in Chain, NEW d \in Chain, NEW R, NEW B, NEW n, Minded(c, R, B, n),
         DOMAIN d.entries = DOMAIN c.entries, LastHop(d) = LastHop(c),
         \A j \in DOMAIN c.entries :
           /\ d.entries[j].response = c.entries[j].response
           /\ d.entries[j].noBody = c.entries[j].noBody
           /\ d.entries[j].scheduled = c.entries[j].scheduled
           /\ d.entries[j].asks = c.entries[j].asks
           /\ c.entries[j].known /\ j = LastHop(c) =>
                d.entries[j].known /\ d.entries[j].expected = c.entries[j].expected
  PROVE  /\ Minded(d, R, B, n)
         /\ \A j \in DOMAIN d.entries : IncludeBodies /\ j # LastHop(d) => ~Ready(d.entries[j])
  BY DEF Minded, Ready

\* A failure does not make a body ready.
LEMMA FailFetches ==
  ASSUME NEW c \in Chain, NEW i \in DOMAIN c.entries, i = LastHop(c), ~c.entries[i].finished,
         NEW R, NEW B, NEW n, Frank(c, B), Minded(c, R, B, n)
  PROVE  Fetched(Fail(c), R, B, n) /\ Frank(Fail(c), B)
<1> DEFINE d == Fail(c)
<1>1. /\ d \in Chain /\ DOMAIN d.entries = DOMAIN c.entries /\ LastHop(d) = LastHop(c)
      /\ c.entries[i].known =>
            d.entries[i].known /\ d.entries[i].expected = c.entries[i].expected
      /\ \E m \in Chain :
            SameExtras(c, m) /\ (d = m \/ \E x \in BOOLEAN : d = Expect(m, i, x))
      /\ \A f \in BaseFields \ {"failed"} : d.entries[i][f] = c.entries[i][f]
      /\ \A j \in DOMAIN c.entries \ {i} : \A f \in BaseFields :
            d.entries[j][f] = c.entries[j][f]
  BY FailStep
<1> HIDE DEF d
<1>2. Frank(d, B)
  BY <1>1, ExpectedFrank
<1>3. \A j \in DOMAIN c.entries :
        /\ d.entries[j].response = c.entries[j].response
        /\ d.entries[j].noBody = c.entries[j].noBody
        /\ d.entries[j].scheduled = c.entries[j].scheduled
        /\ d.entries[j].asks = c.entries[j].asks
        /\ d.entries[j].finished = c.entries[j].finished
  BY <1>1 DEF BaseFields
<1>4. /\ Minded(d, R, B, n)
      /\ \A j \in DOMAIN d.entries : IncludeBodies /\ j # LastHop(d) => ~Ready(d.entries[j])
  BY <1>1, <1>3, SameMind
<1>5. ~Ready(d.entries[i])
  BY <1>3 DEF Ready
<1> QED
  BY <1>1, <1>2, <1>4, <1>5 DEF Fetched, d

\* A response's extra may make its body ready; a request's does not.
LEMMA PairFetches ==
  ASSUME NEW c \in Chain, Stable(c), NEW k \in ExtraKinds, NEW x \in Extras, NEW t \in Tails,
         NEW n \in Nat, NEW H \in HopSets(n), InStep(c, H, n, t), t[k] = <<>>, x.hop \in H[k],
         Rank(H[k], x.hop) = Come(c, k, t) + 1,
         LastHop(c) > 0 /\ c.entries[LastHop(c)].failed => LastHop(c) = n,
         \A i \in DOMAIN c.entries : i = LastHop(c) /\ c.entries[i].finished => i = n,
         NEW B, Frank(c, B), Fetched(c, H["response"], B, n), k = "response" => Honest(x, B)
  PROVE  LET a == AddExtra(c, k, x)
             d == IF k = "request" THEN a ELSE Scheduled(a)
         IN Fetched(d, H["response"], B, n) /\ Frank(d, B)
<1> DEFINE a == AddExtra(c, k, x)
           d == IF k = "request" THEN a ELSE Scheduled(a)
           R == H["response"]
<1>1. /\ a \in Chain /\ SameBase(c, a) /\ InStep(a, H, n, t)
      /\ \A i \in DOMAIN c.entries :
            c.entries[i].known => /\ a.entries[i].known
                                  /\ a.entries[i].expected = c.entries[i].expected
  BY AddExtraStep
<1>2. Frank(a, B)
  BY AddFrank
<1>0. k = "request" /\ (LastHop(c) > 0 => c.entries[LastHop(c)].known) =>
          \A i \in DOMAIN c.entries :
            a.entries[i].extra["response"] = c.entries[i].extra["response"]
  BY AddQuiet
<1> HIDE DEF a
<1>3. /\ DOMAIN a.entries = DOMAIN c.entries /\ LastHop(a) = LastHop(c)
      /\ \A j \in DOMAIN c.entries :
           /\ a.entries[j].response = c.entries[j].response
           /\ a.entries[j].noBody = c.entries[j].noBody
           /\ a.entries[j].scheduled = c.entries[j].scheduled
           /\ a.entries[j].asks = c.entries[j].asks
           /\ a.entries[j].finished = c.entries[j].finished
  BY <1>1 DEF SameBase, BaseFields
<1>4. /\ Minded(a, R, B, n)
      /\ \A j \in DOMAIN a.entries : IncludeBodies /\ j # LastHop(a) => ~Ready(a.entries[j])
  <2>1. Minded(c, R, B, n)
    BY DEF Fetched
  <2> HIDE DEF R
  <2> QED
    BY <1>1, <1>3, <2>1, SameMind
<1>5. CASE k = "request"
  <2>1. ASSUME IncludeBodies, NEW j \in DOMAIN a.entries
        PROVE  ~Ready(a.entries[j])
    <3>1. CASE j # LastHop(a)
      BY <1>4, <2>1, <3>1
    <3>2. CASE j = LastHop(a) /\ ~c.entries[j].response
      BY <1>3, <3>2 DEF Ready
    <3>3. CASE j = LastHop(a) /\ c.entries[j].response
      <4>1. j \in DOMAIN c.entries /\ j = LastHop(c)
        BY <1>3, <3>3
      <4>2. c.entries[j].known /\ ~Ready(c.entries[j])
        BY <2>1, <3>3, <4>1 DEF Fetched, Minded
      <4>3. a.entries[j].extra["response"] = c.entries[j].extra["response"]
        BY <1>0, <1>5, <4>1, <4>2
      <4>4. a.entries[j].expected = c.entries[j].expected
        BY <1>1, <4>1, <4>2
      <4> QED
        BY <1>3, <4>1, <4>2, <4>3, <4>4 DEF Ready
    <3> QED
      BY <3>1, <3>2, <3>3
  <2>2. d = a
    BY <1>5
  <2> QED
    BY <1>2, <1>4, <2>1, <2>2 DEF Fetched, a
<1>6. CASE k # "request"
  <2>1. \A i \in DOMAIN a.entries : i = LastHop(a) /\ a.entries[i].finished => i = n
    BY <1>3
  <2>2. Fetched(Scheduled(a), R, B, n) /\ Frank(Scheduled(a), B)
    BY <1>1, <1>2, <1>4, <2>1, ScheduledFetches
  <2>3. d = Scheduled(a)
    BY <1>6
  <2> QED
    BY <2>2, <2>3 DEF a
<1> QED
  BY <1>5, <1>6

\* The hops of r without a body.
Bare(r) == {h \in DOMAIN script[r].hops : script[r].hops[h].noBody}

\* Of a request with the chain c and the queues t, the bodies are asked for as
\* they should be, and the extras to come say the truth of them.
BodyIn(r, c, t) ==
  /\ Fetched(c, HopsOf(r)["response"], Bare(r), Length(r)) /\ Frank(c, Bare(r))
  /\ \A m \in DOMAIN t["response"] : Honest(t["response"][m], Bare(r))

BodyInv == \A r \in Ids \ dropped : BodyIn(r, chains[r], frozenExtras[r])

\* It is enough to look at the request that changes.
LEMMA BodiesElsewhere ==
  ASSUME BodyInv, NEW r \in Ids, script' = script, dropped \subseteq dropped',
         \A q \in Ids \ {r} : chains'[q] = chains[q] /\ frozenExtras'[q] = frozenExtras[q],
         r \notin dropped' => BodyIn(r, chains'[r], frozenExtras'[r])
  PROVE  BodyInv'
<1>1. \A q \in Ids : HopsOf(q)' = HopsOf(q) /\ Length(q)' = Length(q) /\ Bare(q)' = Bare(q)
  BY DEF HopsOf, ExtraHops, Length, Bare
<1> SUFFICES ASSUME NEW q \in Ids \ dropped'
             PROVE  BodyIn(q, chains[q], frozenExtras[q])'
  BY DEF BodyInv
<1>2. BodyIn(q, chains'[q], frozenExtras'[q])
  <2>1. CASE q = r
    BY <2>1
  <2>2. CASE q # r
    BY <2>2 DEF BodyInv
  <2> QED
    BY <2>1, <2>2
<1> QED
  BY <1>1, <1>2 DEF BodyIn

LEMMA BodiesUnchanged ==
  ASSUME BodyInv, script' = script, UNCHANGED <<chains, frozenExtras>>,
         dropped \subseteq dropped'
  PROVE  BodyInv'
<1>1. \A q \in Ids : HopsOf(q)' = HopsOf(q) /\ Length(q)' = Length(q) /\ Bare(q)' = Bare(q)
  BY DEF HopsOf, ExtraHops, Length, Bare
<1> QED
  BY <1>1 DEF BodyInv, BodyIn

\* Of the entry that ended in a finish the chain is at the last hop; of one
\* that failed it is not finished.
LEMMA EndedLast ==
  ASSUME EnvInv, TakenInv, ~limitErr, NEW r \in Ids, TypeInv, NEW i,
         i = LastHop(chains[r]), i \in DOMAIN chains[r].entries
  PROVE  /\ chains[r].entries[i].finished => i = Length(r) /\ script[r].end = "finished"
         /\ chains[r].entries[i].failed => i = Length(r)
<1>1. /\ chains[r].entries[i].finished = (<<i, 4>> \in Reached(r) /\ script[r].end = "finished")
      /\ chains[r].entries[i].failed =
           (<<i, 4>> \in Reached(r) /\ script[r].end \in {"failed", "blocked"})
      /\ i \in Nat \ {0}
  <2>1. chains[r] \in Chain
    BY DEF TypeInv
  <2>2. DOMAIN chains[r].entries = 1 .. LastHop(chains[r]) /\ LastHop(chains[r]) \in Nat
    BY <2>1, ChainType
  <2>3. i \in Nat \ {0} /\ ~(i < LastHop(chains[r]))
    BY <2>2
  <2> QED
    BY <2>3 DEF TakenInv, Taken
<1>2. ASSUME <<i, 4>> \in Reached(r)
      PROVE  i = Length(r)
  <2>1. EarlyPast(r, i, 4)
    BY <1>2 DEF Reached
  <2>2. Occurs(script[r], Place(i, 4))
    BY <2>1 DEF EarlyPast, Place
  <2> QED
    BY <1>1, <2>2, OccursAt
<1> QED
  BY <1>1, <1>2

LEMMA BaseKeepsBodies ==
  ASSUME CoreInv, PairInv, BodyInv, NEW r \in Ids, NEW isLate \in BOOLEAN,
         SendBase(r, isLate),
         NEW buf \in BOOLEAN, HandleEvent(BaseEvent(r, NextBase(r), isLate), buf)
  PROVE  BodyInv'
<1> DEFINE h == HopOf(NextBase(r))
           n == NextBase(r) % 5
           e == BaseEvent(r, Place(h, n), isLate)
           c == chains[r]
           t == frozenExtras[r]
           N == Length(r)
           H == HopsOf(r)
           R == H["response"]
           B == Bare(r)
           g == IF e.redirect THEN h - 1 ELSE h
<1> USE DEF CoreInv
<1>1. /\ h \in 1 .. N /\ n \in 0 .. 4 /\ NextBase(r) = Place(h, n)
      /\ Occurs(script[r], Place(h, n)) /\ e \in EventShape /\ Outcome(e)
  BY BaseStep
<1>2. script' = script
  BY DEF SendBase
<1> HIDE DEF h, n
<1>3. /\ e.id = r /\ e.redirect = (n = 0 /\ h > 1) /\ g \in 1 .. N
      /\ e.hasExtra = (script[r].hops[g].extra = "both")
      /\ e.noBody = (script[r].hops[g].noBody /\ script[r].hops[g].extra # "both")
  BY <1>1, BaseEventIs
<1>4. CASE limitErr'
  <2>1. Failing
    BY <1>1, <1>4 DEF Outcome, Passing, Starting, Redirecting, Answering, Finishing, Breaking,
         Caching, Pairing, Queueing, Dropping, OnlyChains, Chains
  <2> QED
    BY <1>2, <2>1, BodiesUnchanged DEF Failing
<1>5. CASE ~limitErr'
  <2>1. /\ ~limitErr
        /\ isLate => Passing(e) \/ Caching(e)
        /\ ~isLate => LastHop(c) = IF n = 0 THEN h - 1 ELSE h
        /\ ~isLate /\ n = 0 /\ h = 1 => Starting(e)
        /\ ~isLate /\ n = 0 /\ h > 1 => Redirecting(e)
        /\ ~isLate /\ n \in {1, 2} => Passing(e) \/ Caching(e)
        /\ ~isLate /\ n = 3 => Answering(e) /\ h = N /\ script[r].end # "blocked"
        /\ ~isLate /\ n = 4 => /\ h = N
                               /\ script[r].end = "finished" => Finishing(e)
                               /\ script[r].end # "finished" => Breaking(e)
    BY <1>1, <1>5, BaseOutcome
  <2>2. /\ N \in Nat /\ H \in HopSets(N)
        /\ g \in H["request"] <=> script[r].hops[g].extra \in {"both", "request"}
        /\ g \in R <=> script[r].hops[g].extra = "both"
        /\ script[r].hops[g].extra = "request" => g = N /\ script[r].end = "blocked"
        /\ g \in B <=> script[r].hops[g].noBody
    <3>1. /\ N \in Nat /\ H \in HopSets(N)
          /\ g \in H["request"] <=> script[r].hops[g].extra \in {"both", "request"}
          /\ g \in R <=> script[r].hops[g].extra = "both"
      BY <1>3, HopsOfIs
    <3>2. /\ script[r].hops[g].extra = "request" => g = N /\ script[r].end = "blocked"
          /\ g \in DOMAIN script[r].hops
      BY <1>3, ScriptOf
    <3>3. g \in B <=> script[r].hops[g].noBody
      BY <3>2 DEF Bare
    <3> QED
      BY <3>1, <3>2, <3>3
  <2>3. /\ TypeInv /\ c \in Chain /\ t \in Tails /\ LastHop(c) \in Nat
        /\ DOMAIN c.entries = 1 .. LastHop(c)
    BY ChainType DEF RecInv, TypeInv
  <2>4. r \notin dropped => /\ InStep(c, H, N, t) /\ Fetched(c, R, B, N) /\ Minded(c, R, B, N)
                            /\ Frank(c, B)
                            /\ \A m \in DOMAIN t["response"] : Honest(t["response"][m], B)
    BY <2>1 DEF PairInv, InPlace, BodyInv, BodyIn, Fetched
  <2>5. ASSUME NEW d \in Chain, NEW u \in Tails, Chains(e, d),
               frozenExtras' = [frozenExtras EXCEPT ![r] = u],
               r \notin dropped => /\ Fetched(d, R, B, N) /\ Frank(d, B)
                                   /\ \A m \in DOMAIN u["response"] : Honest(u["response"][m], B)
        PROVE  BodyInv'
    <3>1. chains'[r] = d /\ \A q \in Ids \ {r} : chains'[q] = chains[q]
      BY <1>1, <1>3, <2>3, <2>5, NewChains
    <3>2. frozenExtras'[r] = u /\ \A q \in Ids \ {r} : frozenExtras'[q] = frozenExtras[q]
      BY <2>3, <2>5 DEF TypeInv
    <3>3. dropped' = dropped
      BY <2>5 DEF Chains
    <3>4. r \notin dropped' => BodyIn(r, d, u)
      BY <2>5, <3>3 DEF BodyIn
    <3> QED
      BY <1>2, <3>1, <3>2, <3>3, <3>4, BodiesElsewhere
  <2>6. ASSUME NEW d \in Chain, OnlyChains(e, d),
               r \notin dropped => Fetched(d, R, B, N) /\ Frank(d, B)
        PROVE  BodyInv'
    <3>1. frozenExtras' = [frozenExtras EXCEPT ![r] = t] /\ Chains(e, d)
      BY <2>3, <2>6 DEF OnlyChains, TypeInv
    <3> QED
      BY <2>3, <2>4, <2>5, <2>6, <3>1
  <2>7. ASSUME Passing(e) \/ Caching(e)
        PROVE  BodyInv'
    <3>1. CASE Passing(e)
      BY <1>2, <3>1, BodiesUnchanged DEF Passing
    <3>2. CASE Caching(e)
      <4>0. PICK f \in Flags : f = "cached"
        BY DEF Flags
      <4> DEFINE i == LastHop(c)
                 d == Flagged(c, i, f)
      <4>1. OnlyChains(e, d) /\ d \in Chain /\ i \in DOMAIN c.entries
        <5>1. OnlyChains(e, Flagged(c, i, "cached")) /\ Flagged(c, i, "cached") \in Chain
          BY <1>1, <1>3, <2>3, <3>2, CachingIs
        <5>2. i > 0
          BY <1>3, <3>2 DEF Caching
        <5> QED
          BY <2>3, <4>0, <5>1, <5>2
      <4> HIDE DEF c, t, N, H, B, i
      <4>2. r \notin dropped => Fetched(d, R, B, N) /\ Frank(d, B)
        BY <2>3, <2>4, <4>0, <4>1, FlagMinded
      <4> HIDE DEF d
      <4> QED
        BY <2>6, <4>1, <4>2
    <3> QED
      BY <2>7, <3>1, <3>2
  <2> HIDE DEF e, g
  <2>8. h \in Nat \ {0} /\ e.hop \in Nat
    BY <1>1, <2>2 DEF EventShape
  <2>9. CASE ~isLate /\ n = 0 /\ h = 1
    <3>1. LastHop(c) = 0 /\ Starting(e)
      BY <2>1, <2>9
    <3> DEFINE a == [c EXCEPT !.pending = [k \in ExtraKinds |-> c.pending[k] \o t[k]]]
               d == [a EXCEPT !.entries = Append(@, Entry(e.hop))]
    <3>2. Chains(e, d) /\ frozenExtras' = [frozenExtras EXCEPT ![r] = NoTail]
      BY <1>3, <3>1 DEF Starting, Adopt, NoTail
    <3>3. d \in Chain /\ NoTail \in Tails
      <4> HIDE DEF c, t, N, H
      <4> QED
        BY <2>2, <2>3, <2>8, <3>1, StartKeeps
    <3>4. r \notin dropped => Fetched(d, R, B, N) /\ Frank(d, B)
      <4> HIDE DEF c, t, N, H, B, R
      <4> QED
        BY <2>3, <2>4, <2>8, <3>1, StartFetches
    <3>5. DOMAIN NoTail["response"] = {}
      BY DEF NoTail, ExtraKinds
    <3> HIDE DEF d
    <3> QED
      BY <2>5, <3>2, <3>3, <3>4, <3>5
  <2>10. CASE ~isLate /\ n = 0 /\ h > 1
    <3> DEFINE i == LastHop(c)
               d == [Redirect(c, e) EXCEPT !.entries = Append(@, Entry(e.hop))]
    <3>0. g = h - 1
      BY <1>3, <2>10 DEF g
    <3>1. i = h - 1 /\ i \in DOMAIN c.entries /\ Redirecting(e) /\ g = i /\ i # N
      <4> HIDE DEF c, N, H
      <4>1. i = h - 1 /\ i \in 1 .. LastHop(c)
        BY <2>1, <2>3, <2>8, <2>10
      <4> QED
        BY <1>1, <2>1, <2>2, <2>3, <2>8, <2>10, <3>0, <4>1
    <3>2. OnlyChains(e, d)
      BY <1>3, <3>1 DEF Redirecting
    <3>3. Truly(e, i, H, N)
      <4> HIDE DEF N, H, c, i
      <4>1. e.hasExtra <=> script[r].hops[i].extra = "both"
        BY <1>3, <3>1
      <4>2. i # N /\ (i \in H["request"] <=> script[r].hops[i].extra \in {"both", "request"})
            /\ (script[r].hops[i].extra = "request" => i = N)
        BY <2>2, <3>1
      <4> QED
        BY <4>1, <4>2 DEF Truly
    <3> HIDE DEF N, H, t, c, B
    <3>4. i \in DOMAIN c.entries /\ i = LastHop(c) /\ i # N
      BY <3>1
    <3> HIDE DEF i
    <3>5. d \in Chain
      BY <1>1, <2>2, <2>3, <3>3, <3>4, RedirectKeeps
    <3>6. r \notin dropped => Fetched(d, R, B, N) /\ Frank(d, B)
      BY <1>1, <2>3, <2>4, <3>4, RedirectFetches
    <3> HIDE DEF d
    <3> QED
      BY <2>6, <3>2, <3>5, <3>6
  <2>11. CASE ~isLate /\ n = 3
    <3> DEFINE i == LastHop(c)
               d == Scheduled(WithAnswer(c, e))
    <3>1. i = h /\ i \in DOMAIN c.entries /\ Answering(e) /\ g = i /\ i = N
          /\ script[r].end # "blocked"
      BY <1>1, <1>3, <2>1, <2>2, <2>3, <2>8, <2>11 DEF g
    <3>2. OnlyChains(e, d)
      BY <1>3, <3>1 DEF Answering
    <3>3. Truly(e, i, H, i)
      BY <1>3, <2>2, <3>1 DEF Truly
    <3>4. TellsBody(e, i, R, B)
      BY <1>3, <2>2, <3>1 DEF TellsBody
    <3> HIDE DEF N, H, t, c, B
    <3>5. /\ i \in DOMAIN c.entries /\ i = LastHop(c) /\ H \in HopSets(i) /\ i \in Nat
          /\ r \notin dropped => InStep(c, H, i, t) /\ Minded(c, R, B, i) /\ Frank(c, B)
      BY <2>2, <2>4, <3>1
    <3>6. i = N
      BY <3>1
    <3> HIDE DEF i
    <3>7. d \in Chain
      BY <1>1, <2>3, <3>3, <3>5, AnswerKeeps
    <3>8. r \notin dropped => Fetched(d, R, B, i) /\ Frank(d, B)
      BY <1>1, <2>3, <3>3, <3>4, <3>5, AnswerFetches
    <3> HIDE DEF d
    <3> QED
      BY <2>6, <3>2, <3>6, <3>7, <3>8
  <2>12. CASE ~isLate /\ n = 4 /\ script[r].end = "finished"
    <3> DEFINE i == LastHop(c)
    <3>0. PICK f \in Flags : f = "finished"
      BY DEF Flags
    <3> DEFINE d == Scheduled(Flagged(c, i, f))
    <3>1. i \in DOMAIN c.entries /\ Finishing(e) /\ i = N
      BY <1>1, <2>1, <2>3, <2>8, <2>12
    <3>2. OnlyChains(e, d)
      BY <1>3, <3>0, <3>1 DEF Finishing
    <3> HIDE DEF N, H, t, c, B
    <3>5. /\ i \in DOMAIN c.entries /\ i = LastHop(c) /\ H \in HopSets(i) /\ i \in Nat
          /\ r \notin dropped => InStep(c, H, i, t) /\ Minded(c, R, B, i) /\ Frank(c, B)
      BY <2>2, <2>4, <3>1
    <3>6. i = N
      BY <3>1
    <3> HIDE DEF i
    <3>7. d \in Chain
      BY <2>3, <3>5, FlagKeeps
    <3>8. r \notin dropped => Fetched(d, R, B, i) /\ Frank(d, B)
      BY <2>3, <3>5, FinishFetches
    <3> HIDE DEF d
    <3> QED
      BY <2>6, <3>2, <3>6, <3>7, <3>8
  <2>13. CASE ~isLate /\ n = 4 /\ script[r].end # "finished"
    <3> DEFINE i == LastHop(c)
               d == Fail(c)
    <3>1. i \in DOMAIN c.entries /\ Breaking(e)
      BY <1>1, <2>1, <2>3, <2>8, <2>13
    <3>2. OnlyChains(e, d)
      BY <1>3, <3>1 DEF Breaking
    <3>3. ~c.entries[i].finished
      <4>1. c.entries[i].finished => script[r].end = "finished"
        BY <2>1, <2>3, <3>1, EndedLast
      <4> QED
        BY <2>13, <4>1
    <3> HIDE DEF N, H, t, c, B
    <3>4. i \in DOMAIN c.entries /\ i = LastHop(c)
      BY <3>1
    <3> HIDE DEF i
    <3>5. d \in Chain
      BY <2>3, <3>4, FailStep
    <3>6. r \notin dropped => Fetched(d, R, B, N) /\ Frank(d, B)
      BY <2>3, <2>4, <3>3, <3>4, FailFetches
    <3> HIDE DEF d
    <3> QED
      BY <2>6, <3>2, <3>5, <3>6
  <2>14. n = 0 \/ n \in {1, 2} \/ n = 3 \/ n = 4
    BY <1>1
  <2>15. h = 1 \/ h > 1
    BY <2>8
  <2> QED
    BY <2>1, <2>7, <2>9, <2>10, <2>11, <2>12, <2>13, <2>14, <2>15
<1> QED
  BY <1>4, <1>5

LEMMA ExtraKeepsBodies ==
  ASSUME CoreInv, PairInv, BodyInv, NEW r \in Ids, NEW k \in ExtraKinds, SendExtra(r, k),
         NEW buf \in BOOLEAN, HandleEvent(NextExtra(r, k), buf)
  PROVE  BodyInv'
<1> DEFINE e == NextExtra(r, k)
           c == chains[r]
           t == frozenExtras[r]
           N == Length(r)
           H == HopsOf(r)
           R == H["response"]
           B == Bare(r)
           x == ExtraOf(e)
<1> USE DEF CoreInv
<1>1. /\ e \in EventShape /\ e.id = r /\ e.kind = Kind(k) /\ e.hop \in ExtraHops(r, k)
      /\ Rank(ExtraHops(r, k), e.hop) = extraAt[r][k] + 1 /\ Outcome(e)
      /\ e.noBody = script[r].hops[e.hop].noBody
  BY ExtraStep
<1>2. script' = script
  BY DEF SendExtra
<1> HIDE DEF e
<1>3. CASE limitErr'
  <2>1. Failing
    BY <1>1, <1>3 DEF Outcome, Passing, Starting, Redirecting, Answering, Finishing, Breaking,
         Caching, Pairing, Queueing, Dropping, OnlyChains, Chains
  <2> QED
    BY <1>2, <2>1, BodiesUnchanged DEF Failing
<1>4. CASE ~limitErr'
  <2>1. Pairing(e, k) \/ Queueing(e, k) \/ Dropping(e, k)
    BY <1>1, <1>4, ExtraOutcome DEF Failing
  <2>2. ~limitErr
    BY <2>1 DEF Pairing, Queueing, Dropping, OnlyChains, Chains
  <2>3. /\ N \in Nat /\ H \in HopSets(N) /\ H[k] = ExtraHops(r, k)
        /\ ExtraHops(r, k) \in SUBSET (1 .. N)
    BY HopsOfIs
  <2>4. /\ TypeInv /\ OrphanInv /\ c \in Chain /\ t \in Tails /\ LastHop(c) \in Nat
        /\ DOMAIN c.entries = 1 .. LastHop(c) /\ x \in Extras /\ x.hop = e.hop
        /\ x.noBody = e.noBody /\ Stable(c)
    BY <1>1, ChainType, ExtraOfType DEF RecInv, TypeInv, StableInv
  <2>5. Honest(x, B)
    <3>1. e.hop \in DOMAIN script[r].hops
      BY <1>1, <2>3, ScriptOf
    <3> QED
      BY <1>1, <2>4, <3>1 DEF Honest, Bare
  <2>6. r \notin dropped =>
          /\ InStep(c, H, N, t) /\ x.hop \in H[k] /\ Rank(H[k], x.hop) = Come(c, k, t) + 1
          /\ Fetched(c, R, B, N) /\ Frank(c, B)
          /\ \A m \in DOMAIN t["response"] : Honest(t["response"][m], B)
    BY <1>1, <2>2, <2>3, <2>4 DEF PairInv, InPlace, AllThere, BodyInv, BodyIn
  <2>7. CASE Pairing(e, k)
    <3> DEFINE a == AddExtra(c, k, x)
               d == IF k = "request" THEN a ELSE Scheduled(a)
    <3>1. /\ OnlyChains(e, d) /\ t[k] = <<>> /\ frozenExtras' = frozenExtras
          /\ dropped' = dropped
      BY <1>1, <2>4, <2>7 DEF Pairing, OrphanInv, OnlyChains, Chains
    <3>2. d \in Chain
      BY <2>4, PairingFields
    <3>3. /\ LastHop(c) > 0 /\ c.entries[LastHop(c)].failed => LastHop(c) = N
          /\ \A i \in DOMAIN c.entries : i = LastHop(c) /\ c.entries[i].finished => i = N
      <4>1. LastHop(c) > 0 => LastHop(c) \in DOMAIN c.entries
        BY <2>4
      <4> QED
        BY <2>2, <2>4, <4>1, EndedLast
    <3>4. chains'[r] = d /\ \A q \in Ids \ {r} : chains'[q] = chains[q]
      BY <1>1, <2>4, <3>1, <3>2, NewChains DEF OnlyChains
    <3> HIDE DEF c, t, N, H, x, B
    <3>5. r \notin dropped => Fetched(d, R, B, N) /\ Frank(d, B)
      BY <2>3, <2>4, <2>5, <2>6, <3>1, <3>3, PairFetches
    <3> HIDE DEF d
    <3>6. r \notin dropped' => BodyIn(r, chains'[r], frozenExtras'[r])
      BY <2>6, <3>1, <3>4, <3>5 DEF BodyIn, N, H, t, B
    <3> QED
      BY <1>2, <3>1, <3>4, <3>6, BodiesElsewhere
  <2>8. CASE Queueing(e, k)
    <3> DEFINE u == [t EXCEPT ![k] = Append(@, x)]
    <3>1. /\ frozenExtras' = [frozenExtras EXCEPT ![r][k] = Append(@, x)]
          /\ chains' = chains /\ dropped' = dropped
      BY <1>1, <2>8 DEF Queueing
    <3>2. frozenExtras'[r] = u /\ \A q \in Ids \ {r} : frozenExtras'[q] = frozenExtras[q]
      BY <2>4, <3>1 DEF TypeInv
    <3>3. ASSUME r \notin dropped, NEW m \in DOMAIN u["response"]
          PROVE  Honest(u["response"][m], B)
      <4>0. "response" \in ExtraKinds /\ t \in [ExtraKinds -> Seq(Extras)]
        BY <2>4 DEF ExtraKinds, Tails
      <4>1. \A l \in DOMAIN t["response"] : Honest(t["response"][l], B)
        BY <2>6, <3>3
      <4> HIDE DEF t, x, B
      <4>2. CASE k = "response"
        <5> DEFINE q == t["response"]
        <5>1. u["response"] = Append(q, x) /\ q \in Seq(Extras)
          BY <4>0, <4>2
        <5> HIDE DEF u, q
        <5>2. \/ m \in DOMAIN q /\ u["response"][m] = q[m]
              \/ u["response"][m] = x
          BY <2>4, <3>3, <5>1
        <5> QED
          BY <2>5, <4>1, <5>2 DEF q
      <4>3. CASE k # "response"
        <5>1. u["response"] = t["response"]
          BY <4>0, <4>3
        <5> HIDE DEF u
        <5> QED
          BY <3>3, <4>1, <5>1
      <4> QED
        BY <4>2, <4>3
    <3>4. r \notin dropped' => BodyIn(r, chains'[r], frozenExtras'[r])
      <4> HIDE DEF u, N
      <4> QED
        BY <2>6, <3>1, <3>2, <3>3 DEF BodyIn, N
    <3> HIDE DEF u
    <3> QED
      BY <1>2, <3>1, <3>2, <3>4, BodiesElsewhere
  <2>9. CASE Dropping(e, k)
    <3>1. /\ UNCHANGED <<chains, frozenExtras>> /\ dropped \subseteq dropped'
      BY <2>9 DEF Dropping
    <3> QED
      BY <1>2, <3>1, BodiesUnchanged
  <2> QED
    BY <2>1, <2>7, <2>8, <2>9
<1> QED
  BY <1>3, <1>4

LEMMA InitBodies == Init => BodyInv
<1> SUFFICES ASSUME Init, NEW r \in Ids
             PROVE  BodyIn(r, chains[r], frozenExtras[r])
  BY DEF BodyInv
<1>1. chains[r] = EmptyChain /\ frozenExtras[r] = NoTail
  BY DEF Init, RecorderInit, NoTail
<1>2. /\ DOMAIN EmptyChain.entries = {} /\ DOMAIN EmptyChain.pending["response"] = {}
      /\ DOMAIN NoTail["response"] = {}
  BY DEF EmptyChain, NoTail, ExtraKinds
<1> QED
  BY <1>1, <1>2 DEF BodyIn, Fetched, Minded, Frank

\* With the invariants of the core and of the pairing, that of the bodies is
\* inductive.
THEOREM BodiesInductive == Spec => []BodyInv
<1>1. Init => BodyInv
  BY InitBodies
<1>2. CoreInv /\ PairInv /\ BodyInv /\ [Next]_vars => BodyInv'
  <2> SUFFICES ASSUME CoreInv, PairInv, BodyInv, [Next]_vars
               PROVE  BodyInv'
    OBVIOUS
  <2>1. ASSUME NEW r \in Ids, BaseArrives(r)
        PROVE  BodyInv'
    <3>1. PICK isLate \in BOOLEAN, buf \in BOOLEAN :
         /\ SendBase(r, isLate)
         /\ HandleEvent(BaseEvent(r, NextBase(r), isLate), buf)
      BY <2>1 DEF BaseArrives
    <3> QED
      BY <3>1, BaseKeepsBodies
  <2>2. ASSUME NEW r \in Ids, ExtraArrives(r)
        PROVE  BodyInv'
    <3>1. PICK k \in ExtraKinds, buf \in BOOLEAN :
         SendExtra(r, k) /\ HandleEvent(NextExtra(r, k), buf)
      BY <2>2 DEF ExtraArrives
    <3> QED
      BY <3>1, ExtraKeepsBodies
  <2>3. CASE Freeze
    <3>1. UNCHANGED <<chains, frozenExtras, dropped, script>>
      BY <2>3, FreezeStep DEF CoreInv
    <3> QED
      BY <3>1, BodiesUnchanged
  <2>4. CASE UNCHANGED vars
    <3>1. UNCHANGED <<chains, frozenExtras, dropped, script>>
      BY <2>4 DEF vars, recorderVars, browserVars
    <3> QED
      BY <3>1, BodiesUnchanged
  <2> QED
    BY <2>1, <2>2, <2>3, <2>4 DEF Next
<1> QED
  BY <1>1, <1>2, Inductive, PairsInductive, PTL DEF Spec

\* However the events of a request interleave, a body is asked for at most
\* once, only for the last hop, and never when the browser has none
\* (readyBodyFetchTasks, hasNoResponseBody).
THEOREM AsksOnce == Spec => []NoNeedlessFetch
<1>1. ASSUME CoreInv, BodyInv
      PROVE  NoNeedlessFetch
  <2> SUFFICES ASSUME NEW r \in Ids \ dropped, NEW i \in DOMAIN chains[r].entries,
                      chains[r].entries[i].asks > 0
               PROVE  /\ chains[r].entries[i].asks = 1 /\ i = Length(r)
                      /\ ~script[r].hops[i].noBody
    BY DEF NoNeedlessFetch, Entries, Length
  <2>1. Minded(chains[r], HopsOf(r)["response"], Bare(r), Length(r))
    BY <1>1 DEF BodyInv, BodyIn, Fetched
  <2>2. chains[r].entries[i].asks = 1 /\ i = Length(r) /\ i \notin Bare(r)
    BY <2>1 DEF Minded
  <2>3. i \in DOMAIN script[r].hops
    BY <1>1, <2>2, ScriptOf DEF CoreInv
  <2> QED
    BY <2>2, <2>3 DEF Bare
<1> QED
  BY <1>1, Inductive, BodiesInductive, PTL

\* Once all events of a request have come, up to the cutoff, its body has been
\* asked for if it has one, whichever of them came last (readyBodyFetchTasks
\* after responseReceived, loadingFinished and responseExtraInfo).
THEOREM AsksInTheEnd == Spec => []NoBodyForgotten
<1>1. ASSUME CoreInv, PairInv, BodyInv
      PROVE  NoBodyForgotten
  <2> SUFFICES ASSUME IncludeBodies, ~limitErr, NEW r \in Ids \ dropped,
                      EarlyPast(r, Length(r), 4), script[r].end = "finished",
                      \A k \in ExtraKinds : extraAt[r][k] = Cardinality(ExtraHops(r, k))
               PROVE  chains[r].entries[Length(r)].asks =
                        IF script[r].hops[Length(r)].noBody THEN 0 ELSE 1
    BY DEF NoBodyForgotten, Length
  <2> DEFINE c == chains[r]
             t == frozenExtras[r]
             n == Length(r)
             R == HopsOf(r)["response"]
             B == Bare(r)
  <2>0. PICK k \in ExtraKinds : k = "response"
    BY DEF ExtraKinds
  <2>1. /\ c \in Chain /\ t \in Tails /\ Stable(c) /\ n \in Nat \ {0}
        /\ DOMAIN c.entries = 1 .. LastHop(c) /\ LastHop(c) \in Nat
        /\ DOMAIN script[r].hops = 1 .. n
    BY <1>1, ChainType, ScriptOf DEF CoreInv, RecInv, TypeInv, StableInv
  <2>2. /\ <<n, 0>> \in Reached(r) /\ <<n, 3>> \in Reached(r) /\ <<n, 4>> \in Reached(r)
    <3>1. Occurs(script[r], Place(n, 0)) /\ Occurs(script[r], Place(n, 3))
      <4>1. HopOf(Place(n, 3)) = n /\ StepOf(Place(n, 3)) = "received"
        <5> HIDE DEF n
        <5> QED
          BY <2>1, PlaceIs DEF Events
      <4>2. Occurs(script[r], Place(n, 0))
        BY <2>1, OccursAt
      <4> QED
        BY <4>1, <4>2 DEF Occurs, Length
    <3>2. earlyAt[r] > Place(n, 4) /\ earlyAt[r] \in Nat
      BY <1>1 DEF EarlyPast, Place, CoreInv, EnvInv
    <3>3. Place(n, 4) = Place(n, 3) + 1 /\ Place(n, 4) = Place(n, 0) + 4
          /\ Place(n, 0) \in Nat /\ Place(n, 3) \in Nat
      BY <2>1 DEF Place
    <3>4. earlyAt[r] > Place(n, 3) /\ earlyAt[r] > Place(n, 0)
      BY <3>2, <3>3
    <3>5. EarlyPast(r, n, 0) /\ EarlyPast(r, n, 3)
      BY <3>1, <3>4 DEF EarlyPast, Place
    <3>6. n \in 1 .. n
      BY <2>1
    <3> QED
      BY <3>5, <3>6 DEF Reached
  <2>3. /\ n \in DOMAIN c.entries /\ n = LastHop(c)
        /\ c.entries[n].response /\ c.entries[n].finished
    <3>1. Taken(c, script[r], Reached(r))
      BY <1>1 DEF CoreInv, TakenInv
    <3>2. n \in DOMAIN c.entries /\ DOMAIN c.entries \subseteq 1 .. n
      <4>1. DOMAIN c.entries = {h \in 1 .. n : <<h, 0>> \in Reached(r)} /\ n \in 1 .. n
        BY <2>1, <3>1 DEF Taken
      <4> HIDE DEF c, n
      <4> QED
        BY <2>2, <4>1
    <3>3. n = LastHop(c)
      <4> HIDE DEF n, c
      <4>1. LastHop(c) \in DOMAIN c.entries
        BY <2>1, <3>2
      <4> QED
        BY <2>1, <3>2, <4>1
    <3> QED
      BY <2>2, <3>1, <3>2, <3>3 DEF Taken
  <2>4. /\ Minded(c, R, B, n) /\ ~Ready(c.entries[n]) /\ InStep(c, HopsOf(r), n, t)
        /\ extraAt[r][k] = Come(c, k, t)
    BY <1>1, <2>3 DEF BodyInv, BodyIn, Fetched, PairInv, InPlace, AllThere
  <2>5. n \in B <=> script[r].hops[n].noBody
    BY <2>1 DEF Bare
  <2>6. ASSUME ~c.entries[n].scheduled
        PROVE  FALSE
    <3>1. c.entries[n].expected /\ c.entries[n].extra["response"] = NoExtra
      BY <2>3, <2>4, <2>6 DEF Ready
    <3>2. n \in R
      BY <2>3, <2>4, <3>1 DEF Minded
    <3> DEFINE A == Assigned(c, k)
               P == c.pending[k]
    <3>3. n \in Needy(c, k)
      <4>1. \A j \in 1 .. n : c.entries[j].known
        <5>1. ASSUME NEW j \in 1 .. n
              PROVE  c.entries[j].known
          <6>1. CASE j = n
            BY <2>3, <2>4, <6>1 DEF Minded
          <6>2. CASE j # n
            <7>1. j \in DOMAIN c.entries /\ j < LastHop(c)
              BY <2>1, <2>3, <5>1, <6>2
            <7> QED
              BY <2>4, <7>1 DEF InStep, Informed
          <6> QED
            BY <6>1, <6>2
        <5> QED
          BY <5>1
      <4> QED
        BY <2>0, <2>3, <3>1, <4>1 DEF Needy, Settled
    <3>4. P = <<>> /\ t[k] = <<>>
      <4>1. P = <<>>
        BY <2>1, <3>3 DEF Stable
      <4>2. t[k] = <<>>
        BY <1>1, <2>1, <2>3 DEF CoreInv, RecInv, OrphanInv
      <4> QED
        BY <4>1, <4>2
    <3>5. A \in SUBSET R /\ n \notin A /\ IsFiniteSet(R) /\ R = ExtraHops(r, k)
      <4>1. Paired(c, k, HopsOf(r)[k], t[k])
        BY <2>4 DEF InStep
      <4>2. A \in SUBSET R
        BY <2>0, <4>1 DEF Paired
      <4>3. n \notin A
        BY <2>0, <3>1 DEF Assigned
      <4>4. IsFiniteSet(R) /\ R = ExtraHops(r, k)
        BY <1>1, <2>0, HopsOfIs DEF CoreInv
      <4> QED
        BY <4>2, <4>3, <4>4
    <3>6. Cardinality(A) = Cardinality(R)
      <4>1. Cardinality(A) \in Nat
        BY <2>1, AssignedType
      <4>2. Len(P) = 0 /\ Len(t[k]) = 0
        BY <3>4
      <4>3. Come(c, k, t) = Cardinality(A) + Len(P) + Len(t[k])
        BY DEF Come
      <4>4. Come(c, k, t) = Cardinality(A)
        <5> HIDE DEF A, P, c, t
        <5> QED
          BY <4>1, <4>2, <4>3
      <4> QED
        BY <2>4, <3>5, <4>4
    <3> HIDE DEF A, R
    <3>7. A = R
      BY <3>5, <3>6, FS_Subset
    <3> QED
      BY <3>2, <3>5, <3>7
  <2>7. c.entries[n].scheduled
    BY <2>6
  <2>8. /\ n \in B \/ c.entries[n].asks = 1
        /\ c.entries[n].asks = 0 \/ (c.entries[n].asks = 1 /\ n \notin B)
    BY <2>3, <2>4, <2>7 DEF Minded
  <2> QED
    BY <2>5, <2>8
<1> QED
  BY <1>1, Inductive, PairsInductive, BodiesInductive, PTL

-----------------------------------------------------------------------------
(* Cache hits, and the bodies that a redirect puts out of reach.           *)

\* Chain d marks no entry that c does not mark.
NoNewMark(c, d) ==
  \A j \in DOMAIN d.entries :
    d.entries[j].cached => j \in DOMAIN c.entries /\ c.entries[j].cached

\* It keeps the errors of those that a redirect follows.
KeepsErrors(c, d) ==
  /\ DOMAIN c.entries \subseteq DOMAIN d.entries
  /\ \A j \in DOMAIN c.entries \ {LastHop(c)} :
       d.entries[j].bodyError = c.entries[j].bodyError

Follows(c, d) == NoNewMark(c, d) /\ KeepsErrors(c, d)

LEMMA AppendFollows ==
  ASSUME NEW c \in Chain, NEW a \in Chain, NEW h \in Nat, Follows(c, a)
  PROVE  LET d == [a EXCEPT !.entries = Append(@, Entry(h))] IN
         d \in Chain /\ Follows(c, d)
<1> DEFINE d == [a EXCEPT !.entries = Append(@, Entry(h))]
<1>1. /\ DOMAIN d.entries = DOMAIN a.entries \cup {LastHop(a) + 1} /\ d \in Chain
      /\ d.entries[LastHop(a) + 1] = Entry(h)
      /\ \A j \in DOMAIN a.entries : d.entries[j] = a.entries[j]
  BY AppendStep
<1>2. Entry(h).cached = FALSE
  BY DEF Entry
<1> HIDE DEF d
<1> QED
  BY <1>1, <1>2 DEF Follows, NoNewMark, KeepsErrors, d

LEMMA ScheduledFollows ==
  ASSUME NEW c, NEW a \in Chain, Follows(c, a)
  PROVE  /\ Scheduled(a) \in Chain /\ Follows(c, Scheduled(a))
         /\ LastHop(Scheduled(a)) = LastHop(a)
<1> DEFINE d == Scheduled(a)
<1>1. /\ d \in Chain /\ DOMAIN d.entries = DOMAIN a.entries /\ LastHop(d) = LastHop(a)
      /\ \A i \in DOMAIN a.entries : \A g \in BaseFields \ {"scheduled", "asks"} :
           d.entries[i][g] = a.entries[i][g]
  BY ScheduledFields
<1> HIDE DEF d
<1>2. {"cached", "bodyError"} \subseteq BaseFields \ {"scheduled", "asks"}
  BY DEF BaseFields
<1>3. \A i \in DOMAIN a.entries :
        /\ d.entries[i].cached = a.entries[i].cached
        /\ d.entries[i].bodyError = a.entries[i].bodyError
  BY <1>1, <1>2
<1> QED
  BY <1>1, <1>3 DEF Follows, NoNewMark, KeepsErrors, d

\* Only a cache event that counts marks an entry: the last one of its chain.
\* A new last one comes with the request or a redirect.
LEMMA OutcomeFollows ==
  ASSUME RecInv, NEW e \in EventShape, Outcome(e), NEW r \in Ids
  PROVE  LET d == chains'[r]
             i == LastHop(chains[r])
         IN /\ KeepsErrors(chains[r], d)
            /\ \/ LastHop(d) = i
               \/ r = e.id /\ (Starting(e) \/ Redirecting(e))
            /\ \/ NoNewMark(chains[r], d)
               \/ /\ r = e.id /\ e.kind = "cached" /\ chains' # chains
                  /\ i \in DOMAIN chains[r].entries /\ DOMAIN d.entries = DOMAIN chains[r].entries
                  /\ \A j \in DOMAIN chains[r].entries \ {i} :
                       d.entries[j].cached = chains[r].entries[j].cached
<1> DEFINE c == chains[e.id]
           i == LastHop(c)
<1>1. /\ TypeInv /\ e.id \in Ids /\ c \in Chain /\ i \in Nat
      /\ DOMAIN c.entries = 1 .. i /\ (i > 0 => i \in DOMAIN c.entries)
      /\ e.hop \in Nat
  BY LastEntry DEF RecInv, EventShape
<1>2. ASSUME chains'[r] = chains[r]
      PROVE  Follows(chains[r], chains'[r]) /\ LastHop(chains'[r]) = LastHop(chains[r])
  BY <1>2 DEF Follows, NoNewMark, KeepsErrors
<1>3. ASSUME NEW d \in Chain, Chains(e, d)
      PROVE  /\ chains'[e.id] = d /\ (r # e.id => chains'[r] = chains[r])
             /\ Follows(c, d) => Follows(chains[r], chains'[r])
             /\ r # e.id \/ LastHop(d) = i => LastHop(chains'[r]) = LastHop(chains[r])
  <2>1. chains'[e.id] = d /\ \A q \in Ids \ {e.id} : chains'[q] = chains[q]
    BY <1>1, <1>3, NewChains
  <2> QED
    BY <1>2, <2>1
<1>4. {"cached", "bodyError"} \subseteq BaseFields \ {"scheduled", "asks"}
      /\ "bodyError" # "cached"
  BY DEF BaseFields
<1>5. CASE \/ Failing \/ Passing(e)
           \/ \E k \in ExtraKinds : Queueing(e, k) \/ Dropping(e, k)
  BY <1>2, <1>5 DEF Failing, Passing, Queueing, Dropping, Follows
<1>6. CASE Starting(e)
  <2> DEFINE a == Adopt(c, e.id)
             d == [a EXCEPT !.entries = Append(@, Entry(e.hop))]
  <2>1. frozenExtras[e.id] \in Tails
    BY <1>1 DEF TypeInv
  <2>2. a \in Chain /\ a.entries = c.entries
    BY <1>1, <1>6, <2>1, AdoptStep DEF Adopt, Starting
  <2>3. Chains(e, d)
    BY <1>6 DEF Starting
  <2>4. Follows(c, a)
    BY <2>2 DEF Follows, NoNewMark, KeepsErrors
  <2> HIDE DEF a, c
  <2>5. d \in Chain /\ Follows(c, d)
    BY <1>1, <2>2, <2>4, AppendFollows
  <2> HIDE DEF d
  <2> QED
    BY <1>3, <1>6, <2>3, <2>5 DEF Follows
<1>7. CASE Redirecting(e)
  <2> DEFINE a == Redirect(c, e)
             d == [a EXCEPT !.entries = Append(@, Entry(e.hop))]
  <2>1. OnlyChains(e, d) /\ i \in DOMAIN c.entries
    BY <1>1, <1>7 DEF Redirecting
  <2> HIDE DEF c
  <2>2. /\ a \in Chain /\ DOMAIN a.entries = DOMAIN c.entries /\ LastHop(a) = LastHop(c)
        /\ \A f \in {"hop", "failed", "cached", "asks"} : a.entries[i][f] = c.entries[i][f]
        /\ \A j \in DOMAIN c.entries \ {i} : \A f \in BaseFields :
              a.entries[j][f] = c.entries[j][f]
    BY <1>1, <2>1, RedirectFields
  <2> HIDE DEF a, i
  <2>3. Follows(c, a)
    BY <1>4, <2>2 DEF Follows, NoNewMark, KeepsErrors, i
  <2>4. d \in Chain /\ Follows(c, d)
    BY <1>1, <2>2, <2>3, AppendFollows
  <2> HIDE DEF d
  <2> QED
    BY <1>3, <1>7, <2>1, <2>4 DEF OnlyChains, Follows
<1>8. CASE Answering(e)
  <2> DEFINE a == WithAnswer(c, e)
             d == Scheduled(a)
  <2>1. OnlyChains(e, d) /\ i \in DOMAIN c.entries
    BY <1>1, <1>8 DEF Answering
  <2> HIDE DEF c
  <2>2. /\ a \in Chain /\ DOMAIN a.entries = DOMAIN c.entries /\ LastHop(a) = LastHop(c)
        /\ \A f \in BaseFields \ {"noBody", "response"} : a.entries[i][f] = c.entries[i][f]
        /\ \A j \in DOMAIN c.entries \ {i} : \A f \in BaseFields :
              a.entries[j][f] = c.entries[j][f]
    BY <1>1, <2>1, AnswerFields
  <2> HIDE DEF a, i
  <2>3. Follows(c, a)
    BY <1>4, <2>2 DEF Follows, NoNewMark, KeepsErrors
  <2>4. d \in Chain /\ Follows(c, d) /\ LastHop(d) = LastHop(c)
    BY <2>2, <2>3, ScheduledFollows
  <2> HIDE DEF d
  <2> QED
    BY <1>3, <2>1, <2>4 DEF OnlyChains, Follows, i
<1>9. CASE Finishing(e)
  <2> DEFINE a == Flagged(c, i, "finished")
             d == Scheduled(a)
  <2>1. OnlyChains(e, d) /\ i \in DOMAIN c.entries
    BY <1>1, <1>9 DEF Finishing
  <2> HIDE DEF c, i
  <2>2. a \in Chain /\ Follows(c, a) /\ LastHop(a) = LastHop(c)
    <3>1. PICK f \in Flags : f = "finished"
      BY DEF Flags
    <3> DEFINE x == Flagged(c, i, f)
    <3>2. /\ x \in Chain /\ DOMAIN x.entries = DOMAIN c.entries /\ LastHop(x) = LastHop(c)
          /\ \A g \in BaseFields \ {f} : x.entries[i][g] = c.entries[i][g]
          /\ \A j \in DOMAIN c.entries \ {i} : \A g \in BaseFields :
                x.entries[j][g] = c.entries[j][g]
      <4>1. c \in Chain /\ i \in DOMAIN c.entries
        BY <1>1, <2>1
      <4> QED
        BY <4>1, FlagFields
    <3>3. a = x
      BY <3>1
    <3> HIDE DEF a, x
    <3> QED
      BY <1>4, <3>1, <3>2, <3>3 DEF Follows, NoNewMark, KeepsErrors
  <2> HIDE DEF a
  <2>4. d \in Chain /\ Follows(c, d) /\ LastHop(d) = LastHop(c)
    BY <2>2, ScheduledFollows
  <2> HIDE DEF d
  <2> QED
    BY <1>3, <2>1, <2>4 DEF OnlyChains, Follows, i
<1>10. CASE Breaking(e)
  <2> DEFINE d == Fail(c)
  <2>1. OnlyChains(e, d) /\ i \in DOMAIN c.entries
    BY <1>1, <1>10 DEF Breaking
  <2> HIDE DEF c
  <2>2. /\ d \in Chain /\ DOMAIN d.entries = DOMAIN c.entries /\ LastHop(d) = LastHop(c)
        /\ \A f \in BaseFields \ {"failed"} : d.entries[i][f] = c.entries[i][f]
        /\ \A j \in DOMAIN c.entries \ {i} : \A f \in BaseFields :
              d.entries[j][f] = c.entries[j][f]
    BY <1>1, <2>1, FailStep
  <2> HIDE DEF d, i
  <2>3. Follows(c, d)
    BY <1>4, <2>2 DEF Follows, NoNewMark, KeepsErrors
  <2> QED
    BY <1>3, <2>1, <2>2, <2>3 DEF OnlyChains, Follows, i
<1>11. ASSUME NEW k \in ExtraKinds, Pairing(e, k)
       PROVE  Follows(chains[r], chains'[r]) /\ LastHop(chains'[r]) = LastHop(chains[r])
  <2> DEFINE a == AddExtra(c, k, ExtraOf(e))
             d == IF k = "request" THEN a ELSE Scheduled(a)
  <2>1. OnlyChains(e, d)
    BY <1>11 DEF Pairing
  <2> HIDE DEF c
  <2>2. /\ d \in Chain /\ DOMAIN d.entries = DOMAIN c.entries /\ LastHop(d) = LastHop(c)
        /\ \A j \in DOMAIN c.entries : \A f \in BaseFields \ {"scheduled", "asks"} :
             d.entries[j][f] = c.entries[j][f]
    BY <1>1, ExtraOfType, PairingFields
  <2> HIDE DEF d
  <2>3. Follows(c, d)
    BY <1>4, <2>2 DEF Follows, NoNewMark, KeepsErrors
  <2> QED
    BY <1>3, <2>1, <2>2, <2>3 DEF OnlyChains, Follows
<1>12. CASE Caching(e) /\ r = e.id
  <2>1. e.kind = "cached" /\ i \in DOMAIN c.entries
    BY <1>1, <1>12 DEF Caching
  <2> DEFINE d == Flagged(c, i, "cached")
  <2>2. /\ OnlyChains(e, d) /\ d \in Chain /\ DOMAIN d.entries = DOMAIN c.entries
        /\ LastHop(d) = LastHop(c)
        /\ \A j \in DOMAIN c.entries : \A g \in BaseFields \ {"cached"} :
             d.entries[j][g] = c.entries[j][g]
    BY <1>1, <1>12, CachingIs
  <2>3. \A j \in DOMAIN c.entries \ {i} : d.entries[j].cached = c.entries[j].cached
    BY <1>1, <2>1 DEF Flagged
  <2> HIDE DEF d
  <2>4. chains'[r] = d
    BY <1>3, <1>12, <2>2 DEF OnlyChains
  <2>5. chains' = chains => Follows(chains[r], chains'[r])
    BY <1>2
  <2> QED
    BY <1>4, <1>12, <2>1, <2>2, <2>3, <2>4, <2>5 DEF Follows, KeepsErrors, i, c
<1>13. CASE Caching(e) /\ r # e.id
  <2>1. chains'[r] = chains[r]
    BY <1>1, <1>3, <1>13, CachingIs DEF OnlyChains
  <2> QED
    BY <1>2, <2>1 DEF Follows
<1> HIDE DEF c, i
<1> QED
  BY <1>5, <1>6, <1>7, <1>8, <1>9, <1>10, <1>11, <1>12, <1>13 DEF Outcome, Follows
\* What becomes of the request IDs seen past the cutoff.
LEMMA PostCutoffIs ==
  ASSUME NEW e \in EventShape, NEW buf \in BOOLEAN, HandleEvent(e, buf), ~limitErr'
  PROVE  /\ e.kind = "sent" /\ frozen /\ e.late => postCutoff' = postCutoff \cup {e.id}
         /\ e.kind = "sent" /\ ~(frozen /\ e.late) => postCutoff' = postCutoff \ {e.id}
         /\ e.kind # "sent" => postCutoff' = postCutoff
<1>1. ~Exceed
  BY DEF Exceed
<1>2. CASE limitErr
  <2>1. Ignore
    BY <1>2 DEF HandleEvent
  <2> QED
    BY <1>2, <2>1 DEF Ignore, recorderVars
<1>3. CASE ~limitErr /\ e.kind = "sent"
  <2>1. IF ~frozen \/ ~e.late THEN RequestWillBeSent(e) ELSE PastCutoff(e)
    BY <1>3 DEF HandleEvent, Apply, Counts
  <2> QED
    BY <1>1, <1>3, <2>1 DEF RequestWillBeSent, PastCutoff
<1>4. CASE ~limitErr /\ e.kind # "sent"
  <2>1. \/ Ignore \/ PastCutoff(e) \/ ServedFromCache(e)
        \/ QueueFrozenExtra(e, "request") \/ QueueFrozenExtra(e, "response")
        \/ RequestExtraInfo(e) \/ ResponseExtraInfo(e)
        \/ ResponseReceived(e) \/ LoadingFinished(e) \/ LoadingFailed(e)
    BY <1>4 DEF HandleEvent, Apply, EventShape, Kinds
  <2>2. CASE Ignore
    BY <1>4, <2>2 DEF Ignore, recorderVars
  <2>3. CASE PastCutoff(e)
    BY <1>4, <2>3 DEF PastCutoff
  <2>4. CASE ServedFromCache(e) \/ LoadingFinished(e)
    BY <1>4, <2>4 DEF ServedFromCache, LoadingFinished, UpdateReady, Update
  <2>5. CASE QueueFrozenExtra(e, "request") \/ QueueFrozenExtra(e, "response")
    BY <1>1, <1>4, <2>5 DEF QueueFrozenExtra
  <2>6. CASE RequestExtraInfo(e) \/ ResponseExtraInfo(e)
    BY <1>1, <1>4, <2>6 DEF RequestExtraInfo, ResponseExtraInfo, UpdateReady, Update
  <2>7. CASE ResponseReceived(e)
    BY <1>1, <1>4, <2>7 DEF ResponseReceived, UpdateReady, Update, Ignore, recorderVars
  <2>8. CASE LoadingFailed(e)
    BY <1>1, <1>4, <2>8 DEF LoadingFailed, Update
  <2> QED
    BY <2>1, <2>2, <2>3, <2>4, <2>5, <2>6, <2>7, <2>8
<1> QED
  BY <1>2, <1>3, <1>4

\* A request of which a hop has been sent past the cutoff, and no hop since
\* that is before it, is known to be past it.
PostInv ==
  ~limitErr => \A r \in Ids : \A h \in 1 .. Length(r) :
    earlyAt[r] <= Place(h, 0) /\ Place(h, 0) < baseAt[r] => r \in postCutoff

CacheInv == PostInv /\ CacheMarksOwnHop

LEMMA BaseKeepsPost ==
  ASSUME RecInv, EnvInv, ClockInv, PostInv, NEW r \in Ids, NEW isLate \in BOOLEAN,
         SendBase(r, isLate),
         NEW buf \in BOOLEAN, HandleEvent(BaseEvent(r, NextBase(r), isLate), buf)
  PROVE  PostInv'
<1> DEFINE b == NextBase(r)
           h == HopOf(b)
           n == b % 5
           e == BaseEvent(r, Place(h, n), isLate)
<1>1. /\ h \in 1 .. Length(r) /\ n \in 0 .. 4 /\ b = Place(h, n) /\ b \in Nat
      /\ Occurs(script[r], b) /\ e \in EventShape /\ Outcome(e)
  BY BaseStep
<1>2. e.id = r /\ e.late = isLate /\ e.kind = KindAt(r, n)
  BY <1>1, BaseEventIs
<1>3. HandleEvent(e, buf)
  BY <1>1
<1>4. /\ baseAt' = [baseAt EXCEPT ![r] = b + 1] /\ (isLate => clockRead)
      /\ earlyAt' = IF isLate THEN earlyAt ELSE [earlyAt EXCEPT ![r] = b + 1]
      /\ script' = script
  BY DEF SendBase
<1>5. /\ baseAt[r] <= b /\ \A x \in baseAt[r] .. b - 1 : ~Occurs(script[r], x)
  <2>1. Coming(r) # {}
    BY DEF SendBase
  <2> QED
    BY <2>1, NextBaseIs
<1>6. /\ baseAt \in [Ids -> Nat] /\ earlyAt \in [Ids -> Nat]
      /\ \A q \in Ids : Length(q)' = Length(q) /\ Length(q) \in Nat
  BY <1>4, ScriptOf DEF EnvInv, Length
<1> HIDE DEF e, b, h, n
<1> SUFFICES ASSUME ~limitErr', NEW q \in Ids, NEW g \in 1 .. Length(q),
                    earlyAt'[q] <= Place(g, 0), Place(g, 0) < baseAt'[q]
             PROVE  q \in postCutoff'
  BY <1>6 DEF PostInv, Place
<1>7. ~limitErr
  BY <1>1 DEF Outcome, Failing, Passing, Starting, Redirecting, Answering, Finishing, Breaking,
         Caching, Pairing, Queueing, Dropping, OnlyChains, Chains
<1>8. /\ e.kind = "sent" /\ frozen /\ e.late => postCutoff' = postCutoff \cup {r}
      /\ e.kind = "sent" /\ ~(frozen /\ e.late) => postCutoff' = postCutoff \ {r}
      /\ e.kind # "sent" => postCutoff' = postCutoff
  BY <1>1, <1>2, <1>3, PostCutoffIs
<1>9. g \in Nat \ {0} /\ Place(g, 0) \in Nat /\ Occurs(script[q], Place(g, 0))
  <2>1. g \in Nat \ {0} /\ 0 \in 0 .. 4
    BY <1>6
  <2> QED
    BY <2>1, PlaceIs, OccursAt
<1>10. CASE q # r
  <2>1. q \in postCutoff
    BY <1>4, <1>6, <1>7, <1>10 DEF PostInv
  <2> QED
    BY <1>8, <1>10, <2>1
<1>11. CASE q = r /\ isLate
  <2>1. frozen /\ e.late /\ earlyAt' = earlyAt
    BY <1>2, <1>4, <1>11 DEF ClockInv
  <2>2. CASE e.kind = "sent"
    BY <1>8, <1>11, <2>1, <2>2
  <2>3. CASE e.kind # "sent"
    <3>1. Place(g, 0) # b
      <4>1. n # 0
        BY <1>2, <2>3 DEF KindAt
      <4> QED
        BY <1>1, <1>6, <1>9, <4>1 DEF Place
    <3>2. Place(g, 0) < b + 1
      BY <1>1, <1>4, <1>6, <1>11
    <3>3. Place(g, 0) < baseAt[r]
      <4>1. CASE Place(g, 0) >= baseAt[r]
        <5>1. Place(g, 0) \in baseAt[r] .. b - 1
          BY <1>1, <1>6, <1>9, <3>1, <3>2, <4>1
        <5> QED
          BY <1>5, <1>9, <1>11, <5>1
      <4> QED
        BY <1>6, <1>9, <4>1
    <3>4. r \in postCutoff
      BY <1>7, <1>11, <2>1, <3>3 DEF PostInv
    <3> QED
      BY <1>8, <1>11, <2>3, <3>4
  <2> QED
    BY <2>2, <2>3
<1>12. CASE q = r /\ ~isLate
  <2>1. earlyAt'[r] = b + 1 /\ baseAt'[r] = b + 1
    BY <1>4, <1>6, <1>12
  <2> QED
    BY <1>1, <1>9, <1>12, <2>1
<1> QED
  BY <1>10, <1>11, <1>12

LEMMA ExtraKeepsPost ==
  ASSUME RecInv, EnvInv, PostInv, NEW r \in Ids, NEW k \in ExtraKinds, SendExtra(r, k),
         NEW buf \in BOOLEAN, HandleEvent(NextExtra(r, k), buf)
  PROVE  PostInv'
<1> DEFINE e == NextExtra(r, k)
<1>1. e \in EventShape /\ e.kind = Kind(k) /\ Outcome(e)
  BY ExtraStep
<1>2. HandleEvent(e, buf)
  OBVIOUS
<1>3. UNCHANGED <<script, baseAt, earlyAt>> /\ \A q \in Ids : Length(q)' = Length(q)
  BY DEF SendExtra, Length
<1> HIDE DEF e
<1> SUFFICES ASSUME ~limitErr'
             PROVE  PostInv'
  BY DEF PostInv
<1>4. postCutoff' = postCutoff
  BY <1>1, <1>2, PostCutoffIs DEF Kind
<1>5. ~limitErr
  BY <1>1 DEF Outcome, Failing, Passing, Starting, Redirecting, Answering, Finishing, Breaking,
         Caching, Pairing, Queueing, Dropping, OnlyChains, Chains
<1> QED
  BY <1>3, <1>4, <1>5 DEF PostInv, Place
\* A cache event that counts finds the hop it is about at the end of its chain.
LEMMA CachedIsLast ==
  ASSUME RecInv, EnvInv, ClockInv, TakenInv, PostInv, ~limitErr,
         NEW r \in Ids, NEW h \in 1 .. Length(r), NextBase(r) = Place(h, 2), Coming(r) # {},
         NEW buf \in BOOLEAN, buf => r \notin postCutoff, ~buf => ~frozen
  PROVE  LastHop(chains[r]) = h
<1> DEFINE b == Place(h, 2)
           i == LastHop(chains[r])
<1>1. /\ h \in Nat \ {0} /\ Length(r) \in Nat /\ i \in Nat
      /\ DOMAIN chains[r].entries = 1 .. i /\ DOMAIN script[r].hops = 1 .. Length(r)
  BY ScriptOf, ChainType DEF RecInv, TypeInv
<1>2. /\ b \in Nat /\ baseAt[r] <= b
      /\ \A x \in baseAt[r] .. b - 1 : ~Occurs(script[r], x)
  BY <1>1, NextBaseIs
<1>3. baseAt[r] \in Nat /\ earlyAt[r] \in Nat /\ earlyAt[r] <= baseAt[r]
  BY DEF EnvInv
<1> HIDE DEF i
<1>4. ASSUME NEW g \in 1 .. Length(r)
      PROVE  g \in 1 .. i <=> earlyAt[r] > Place(g, 0)
  <2>1. Taken(chains[r], script[r], Reached(r))
    BY DEF TakenInv
  <2>2. g \in 1 .. i <=> <<g, 0>> \in Reached(r)
    BY <1>1, <2>1 DEF Taken
  <2>3. g \in Nat \ {0} /\ 0 \in 0 .. 4
    BY <1>1
  <2> QED
    BY <2>2, <2>3, ReachedIs, OccursAt
<1>5. ASSUME NEW g \in 1 .. Length(r), g <= h
      PROVE  earlyAt[r] > Place(g, 0)
  <2>1. g \in Nat \ {0} /\ Place(g, 0) \in Nat /\ Place(g, 0) < b
    BY <1>1, <1>5 DEF Place
  <2>2. Occurs(script[r], Place(g, 0))
    BY <2>1, OccursAt
  <2>3. Place(g, 0) < baseAt[r]
    <3> DEFINE p == Place(g, 0)
    <3> HIDE DEF b, p
    <3> QED
      BY <1>2, <1>3, <2>1, <2>2 DEF p
  <2>4. earlyAt[r] <= Place(g, 0) => r \in postCutoff
    BY <2>3 DEF PostInv
  <2>5. ~frozen => ~(earlyAt[r] < baseAt[r])
    BY DEF ClockInv
  <2> DEFINE p == Place(g, 0)
  <2> HIDE DEF p
  <2> QED
    BY <1>3, <2>1, <2>3, <2>4, <2>5 DEF p
<1>6. ASSUME NEW g \in 1 .. Length(r), g > h
      PROVE  ~(earlyAt[r] > Place(g, 0))
  BY <1>1, <1>2, <1>3, <1>6 DEF Place
<1>7. i <= Length(r)
  <2>1. Taken(chains[r], script[r], Reached(r))
    BY DEF TakenInv
  <2>2. 1 .. i \subseteq 1 .. Length(r)
    BY <1>1, <2>1 DEF Taken
  <2> QED
    BY <1>1, <2>2
<1>8. h \in 1 .. i
  BY <1>1, <1>4, <1>5
<1>9. ~(i > h)
  <2>1. ASSUME i > h
        PROVE  FALSE
    <3>1. i \in 1 .. Length(r) /\ i \in 1 .. i
      BY <1>1, <1>7, <2>1
    <3> QED
      BY <1>4, <1>6, <2>1, <3>1
  <2> QED
    BY <2>1
<1> QED
  BY <1>1, <1>8, <1>9 DEF i

LEMMA BaseKeepsMarks ==
  ASSUME RecInv, EnvInv, ClockInv, TakenInv, CacheInv, NEW r \in Ids, NEW isLate \in BOOLEAN,
         SendBase(r, isLate), NEW buf \in BOOLEAN, buf => frozen,
         HandleEvent(BaseEvent(r, NextBase(r), isLate), buf)
  PROVE  CacheMarksOwnHop'
<1> DEFINE b == NextBase(r)
           h == HopOf(b)
           n == b % 5
           e == BaseEvent(r, Place(h, n), isLate)
<1>1. /\ h \in 1 .. Length(r) /\ n \in 0 .. 4 /\ b = Place(h, n)
      /\ Occurs(script[r], b) /\ e \in EventShape /\ Outcome(e)
  BY BaseStep
<1>2. e.id = r /\ e.kind = KindAt(r, n)
  BY <1>1, BaseEventIs
<1>3. HandleEvent(e, buf) /\ Coming(r) # {} /\ script' = script
  BY <1>1 DEF SendBase
<1>4. h \in Nat \ {0} /\ NextBase(r) = Place(h, n)
  BY <1>1, ScriptOf
<1> HIDE DEF e, b, h, n
<1> SUFFICES ASSUME NEW q \in Ids, NEW i \in DOMAIN chains'[q].entries,
                    chains'[q].entries[i].cached
             PROVE  script[q].hops[i].cached
  BY <1>3 DEF CacheMarksOwnHop, Entries
<1>5. ASSUME i \in DOMAIN chains[q].entries, chains[q].entries[i].cached
      PROVE  script[q].hops[i].cached
  BY <1>5 DEF CacheInv, CacheMarksOwnHop, Entries
<1>6. CASE NoNewMark(chains[q], chains'[q])
  BY <1>5, <1>6 DEF NoNewMark
<1>7. CASE /\ q = e.id /\ e.kind = "cached" /\ chains' # chains
           /\ LET l == LastHop(chains[q]) IN
              /\ l \in DOMAIN chains[q].entries
              /\ DOMAIN chains'[q].entries = DOMAIN chains[q].entries
              /\ \A j \in DOMAIN chains[q].entries \ {l} :
                   chains'[q].entries[j].cached = chains[q].entries[j].cached
  <2>1. CASE i # LastHop(chains[q])
    BY <1>5, <1>7, <2>1
  <2>2. CASE i = LastHop(chains[q])
    <3>1. n = 2
      BY <1>1, <1>2, <1>7 DEF KindAt
    <3>2. script[r].hops[h].cached
      <4>1. Occurs(script[r], Place(h, 2))
        BY <1>1, <3>1
      <4>2. HopOf(Place(h, 2)) = h /\ StepOf(Place(h, 2)) = "cached"
        BY <1>4, PlaceIs DEF Events
      <4> QED
        BY <4>1, <4>2 DEF Occurs
    <3>3. ~limitErr /\ CacheCounts(e, buf)
      <4>1. ~Ignore
        BY <1>7 DEF Ignore, recorderVars
      <4>2. CASE limitErr
        BY <1>3, <4>1, <4>2 DEF HandleEvent
      <4>3. CASE ~limitErr
        BY <1>3, <1>7, <4>1, <4>3 DEF HandleEvent
      <4> QED
        BY <4>2, <4>3
    <3>4. (buf => r \notin postCutoff) /\ (~buf => ~frozen)
      BY <1>2, <3>3 DEF CacheCounts
    <3>5. LastHop(chains[r]) = h
      BY <1>1, <1>3, <1>4, <3>1, <3>3, <3>4, CachedIsLast DEF CacheInv
    <3> QED
      BY <1>2, <1>7, <2>2, <3>2, <3>5
  <2> QED
    BY <2>1, <2>2
<1> QED
  BY <1>1, <1>6, <1>7, OutcomeFollows

LEMMA ExtraKeepsMarks ==
  ASSUME RecInv, EnvInv, CacheInv, NEW r \in Ids, NEW k \in ExtraKinds, SendExtra(r, k),
         NEW buf \in BOOLEAN, HandleEvent(NextExtra(r, k), buf)
  PROVE  CacheMarksOwnHop'
<1> DEFINE e == NextExtra(r, k)
<1>1. e \in EventShape /\ e.kind = Kind(k) /\ Outcome(e)
  BY ExtraStep
<1>2. script' = script
  BY DEF SendExtra
<1> HIDE DEF e
<1>3. e.kind # "cached"
  BY <1>1 DEF Kind
<1>4. \A q \in Ids : NoNewMark(chains[q], chains'[q])
  BY <1>1, <1>3, OutcomeFollows
<1> QED
  BY <1>2, <1>4 DEF CacheInv, CacheMarksOwnHop, Entries, NoNewMark

LEMMA FreezeKeepsCache ==
  ASSUME RecInv, EnvInv, CacheInv, Freeze
  PROVE  CacheInv'
<1>1. UNCHANGED <<chains, limitErr, postCutoff, script, baseAt, earlyAt>>
  BY FreezeStep
<1>2. \A q \in Ids : Length(q)' = Length(q)
  BY <1>1 DEF Length
<1> QED
  BY <1>1, <1>2 DEF CacheInv, PostInv, CacheMarksOwnHop, Entries, Place

LEMMA InitCache == Init => CacheInv
<1> SUFFICES ASSUME Init
             PROVE  CacheInv
  OBVIOUS
<1>1. /\ \A r \in Ids : chains[r] = EmptyChain /\ baseAt[r] = 0
  BY DEF Init, RecorderInit, BrowserInit
<1>2. \A r \in Ids : Entries(r) = {}
  BY <1>1 DEF Entries, EmptyChain
<1>3. ASSUME NEW r \in Ids, NEW h \in 1 .. Length(r)
      PROVE  ~(Place(h, 0) < baseAt[r])
  <2>1. Length(r) \in Nat
    BY InitInv, ScriptOf
  <2> QED
    BY <1>1, <2>1 DEF Place
<1> QED
  BY <1>2, <1>3 DEF CacheInv, PostInv, CacheMarksOwnHop

\* A redirect puts the body of the entry it follows out of reach: that is an
\* error, unless the entry has no body.
RedirectedBody(c, e) ==
  LET f == c.entries[LastHop(c)]
      x == f.extra["response"]
  IN IF x # NoExtra THEN x.noBody ELSE IF f.response THEN f.noBody ELSE e.noBody

LEMMA RedirectError ==
  ASSUME NEW c \in Chain, NEW i \in DOMAIN c.entries, i = LastHop(c), NEW e \in EventShape,
         IncludeBodies
  PROVE  Redirect(c, e).entries[i].bodyError = ~RedirectedBody(c, e)
<1> DEFINE b == IF c.entries[i].response THEN c.entries[i].noBody ELSE e.noBody
           answered == [c.entries[i] EXCEPT !.noBody = b, !.response = TRUE,
                                            !.finished = TRUE]
           lost == ~HasNoBody(answered)
           x == [answered EXCEPT !.scheduled = TRUE, !.bodyError = lost]
           d1 == [c EXCEPT !.entries[i] = x]
<1>1. c.entries[i] \in EntryShape /\ e.noBody \in BOOLEAN /\ e.hasExtra \in BOOLEAN
  BY EntryOf DEF EventShape
<1>2. b \in BOOLEAN
  BY <1>1 DEF EntryShape
<1>3. Redirect(c, e) = Expect(d1, i, e.hasExtra)
  BY DEF Redirect
<1>4. lost = ~RedirectedBody(c, e)
  <2>1. answered.extra = c.entries[i].extra /\ answered.noBody = b
    <3> HIDE DEF b
    <3> QED
      BY <1>1 DEF EntryShape
  <2> HIDE DEF answered
  <2> QED
    BY <2>1 DEF HasNoBody, RedirectedBody
<1> HIDE DEF b
<1>5. /\ answered \in EntryShape
      /\ \A f \in DOMAIN c.entries[i] \ {"noBody", "response", "finished"} :
            answered[f] = c.entries[i][f]
  BY <1>1, <1>2 DEF EntryShape
<1>6. lost \in BOOLEAN
  BY DEF HasNoBody
<1> HIDE DEF answered, lost
<1>7. /\ x \in EntryShape /\ x.bodyError = lost
      /\ \A f \in {"known", "expected", "extra"} : x[f] = c.entries[i][f]
  BY <1>1, <1>5, <1>6 DEF EntryShape
<1> HIDE DEF x
<1>8. /\ d1 \in Chain /\ DOMAIN d1.entries = DOMAIN c.entries /\ d1.entries[i] = x
      /\ LastHop(d1) = i
  BY <1>7, EntryStep
<1> HIDE DEF d1
<1>9. SameBase(d1, Expect(d1, i, e.hasExtra))
  <2>1. d1 \in Chain /\ i \in DOMAIN d1.entries /\ i = LastHop(d1) /\ e.hasExtra \in BOOLEAN
    BY <1>1, <1>8
  <2> QED
    BY <2>1, ExpectStep
<1> QED
  BY <1>3, <1>4, <1>7, <1>8, <1>9 DEF SameBase, BaseFields

\* The body that a redirect put out of reach is missed, if there was one.
LostInv ==
  IncludeBodies =>
    \A r \in Ids \ dropped : \A i \in Entries(r) \ {LastHop(chains[r])} :
      chains[r].entries[i].bodyError \/ i \in Bare(r)

LEMMA BaseKeepsLost ==
  ASSUME CoreInv, PairInv, BodyInv, LostInv, NEW r \in Ids, NEW isLate \in BOOLEAN,
         SendBase(r, isLate),
         NEW buf \in BOOLEAN, HandleEvent(BaseEvent(r, NextBase(r), isLate), buf)
  PROVE  LostInv'
<1> DEFINE h == HopOf(NextBase(r))
           n == NextBase(r) % 5
           e == BaseEvent(r, Place(h, n), isLate)
           g == IF e.redirect THEN h - 1 ELSE h
<1> USE DEF CoreInv
<1>1. /\ h \in 1 .. Length(r) /\ n \in 0 .. 4 /\ NextBase(r) = Place(h, n)
      /\ Occurs(script[r], Place(h, n)) /\ e \in EventShape /\ Outcome(e)
  BY BaseStep
<1>2. script' = script
  BY DEF SendBase
<1> HIDE DEF h, n
<1>3. /\ e.id = r /\ e.redirect = (n = 0 /\ h > 1) /\ g \in 1 .. Length(r)
      /\ e.noBody = (script[r].hops[g].noBody /\ script[r].hops[g].extra # "both")
  BY <1>1, BaseEventIs
<1>10. e.kind = KindAt(r, n)
  BY <1>1, BaseEventIs
<1>4. DOMAIN script[r].hops = 1 .. Length(r) /\ h \in Nat \ {0}
  BY <1>1, ScriptOf
<1>5. Redirecting(e) => LastHop(chains[r]) = g
  <2> SUFFICES ASSUME Redirecting(e)
               PROVE  LastHop(chains[r]) = g
    OBVIOUS
  <2>1. e.redirect /\ ~limitErr' /\ Counts(e)
    BY DEF Redirecting, OnlyChains, Chains
  <2>2. n = 0 /\ h > 1 /\ g = h - 1
    BY <1>3, <2>1
  <2>3. ~isLate
    <3>1. e.late = isLate
      BY <1>1, BaseEventIs
    <3>2. isLate => frozen
      BY DEF SendBase, ClockInv
    <3> QED
      BY <2>1, <3>1, <3>2 DEF Counts
  <2>4. LastHop(chains[r]) = IF n = 0 THEN h - 1 ELSE h
    BY <1>1, <2>1, <2>3, BaseOutcome
  <2> QED
    BY <2>2, <2>4
<1> HIDE DEF e, g
<1>6. dropped \subseteq dropped' /\ \A q \in Ids : Bare(q)' = Bare(q)
  BY <1>1, <1>2 DEF Outcome, Failing, Passing, Starting, Redirecting, Answering, Finishing,
         Breaking, Caching, Pairing, Queueing, Dropping, OnlyChains, Chains, Bare
<1> SUFFICES ASSUME IncludeBodies, NEW q \in Ids \ dropped',
                    NEW i \in DOMAIN chains'[q].entries \ {LastHop(chains'[q])}
             PROVE  chains'[q].entries[i].bodyError \/ i \in Bare(q)
  BY <1>6 DEF LostInv, Entries
<1>7. /\ KeepsErrors(chains[q], chains'[q])
      /\ \/ LastHop(chains'[q]) = LastHop(chains[q])
         \/ q = e.id /\ (Starting(e) \/ Redirecting(e))
  BY <1>1, OutcomeFollows
<1>8. /\ chains[q] \in Chain /\ chains'[q] \in Chain
      /\ DOMAIN chains[q].entries = 1 .. LastHop(chains[q]) /\ LastHop(chains[q]) \in Nat
      /\ DOMAIN chains'[q].entries = 1 .. LastHop(chains'[q]) /\ LastHop(chains'[q]) \in Nat
  <2>1. RecInv'
    BY <1>1, OutcomeKeepsRec
  <2>2. chains[q] \in Chain /\ chains'[q] \in Chain
    BY <2>1 DEF RecInv, TypeInv
  <2> QED
    BY <2>2, ChainType
<1>9. ASSUME i \in DOMAIN chains[q].entries \ {LastHop(chains[q])}
      PROVE  chains'[q].entries[i].bodyError \/ i \in Bare(q)
  <2>1. chains[q].entries[i].bodyError \/ i \in Bare(q)
    BY <1>6, <1>9 DEF LostInv, Entries
  <2> QED
    BY <1>7, <1>9, <2>1 DEF KeepsErrors
<1>11. CASE LastHop(chains'[q]) = LastHop(chains[q])
  BY <1>8, <1>9, <1>11
<1>12. ASSUME q = r, NEW a \in Chain, LastHop(a) = LastHop(chains[r]),
              Chains(e, [a EXCEPT !.entries = Append(@, Entry(e.hop))])
       PROVE  /\ i \in 1 .. LastHop(chains[r])
              /\ chains'[r].entries[i] = a.entries[i]
  <2> DEFINE d == [a EXCEPT !.entries = Append(@, Entry(e.hop))]
  <2>1. e.hop \in Nat
    BY <1>1 DEF EventShape
  <2>2. /\ d \in Chain /\ LastHop(d) = LastHop(a) + 1
        /\ \A j \in DOMAIN a.entries : d.entries[j] = a.entries[j]
    BY <1>12, <2>1, AppendStep
  <2>3. Chains(e, d)
    BY <1>12
  <2> HIDE DEF d
  <2>4. chains'[r] = d
    BY <1>1, <1>3, <1>12, <2>2, <2>3, NewChains DEF RecInv
  <2>5. i \in 1 .. LastHop(chains[r]) /\ DOMAIN a.entries = 1 .. LastHop(a)
    <3>1. LastHop(a) \in Nat /\ DOMAIN a.entries = 1 .. LastHop(a)
      BY <1>12, ChainType
    <3> QED
      BY <1>8, <1>12, <2>2, <2>4, <3>1
  <2> QED
    BY <1>12, <2>2, <2>4, <2>5
<1>13. CASE q = e.id /\ Starting(e)
  <2> DEFINE a == Adopt(chains[r], r)
  <2>1. LastHop(chains[r]) = 0 /\ Chains(e, [a EXCEPT !.entries = Append(@, Entry(e.hop))])
    BY <1>3, <1>13 DEF Starting
  <2>2. frozenExtras[r] \in Tails /\ chains[r] \in Chain
    BY DEF RecInv, TypeInv
  <2>3. a \in Chain /\ a.entries = chains[r].entries
    BY <2>1, <2>2, AdoptStep DEF Adopt
  <2> HIDE DEF a
  <2>4. i \in 1 .. LastHop(chains[r])
    BY <1>3, <1>12, <1>13, <2>1, <2>3 DEF LastHop
  <2> QED
    BY <2>1, <2>4
<1>14. CASE q = e.id /\ Redirecting(e)
  <2> DEFINE c == chains[r]
             a == Redirect(c, e)
  <2>1. /\ LastHop(c) = g /\ OnlyChains(e, [a EXCEPT !.entries = Append(@, Entry(e.hop))])
        /\ q = r /\ c \in Chain
    BY <1>3, <1>5, <1>8, <1>14 DEF Redirecting
  <2>2. g \in DOMAIN c.entries
    BY <1>3, <1>4, <1>8, <1>14, <2>1
  <2>3. a \in Chain /\ LastHop(a) = LastHop(c)
    <3>1. c \in Chain /\ g \in DOMAIN c.entries /\ g = LastHop(c) /\ e \in EventShape
      BY <1>1, <2>1, <2>2
    <3> HIDE DEF c
    <3> QED
      BY <3>1, RedirectFields
  <2>4. a.entries[g].bodyError = ~RedirectedBody(c, e)
    BY <1>1, <2>1, <2>2, RedirectError
  <2> HIDE DEF a
  <2>5. i \in 1 .. LastHop(c) /\ chains'[r].entries[i] = a.entries[i]
    BY <1>12, <2>1, <2>3 DEF OnlyChains
  <2>6. CASE i # g
    BY <1>8, <1>9, <2>1, <2>5, <2>6
  <2>7. CASE i = g
    <3>1. RedirectedBody(c, e) => g \in Bare(r)
      <4> DEFINE f == c.entries[g]
                 x == f.extra["response"]
      <4>1. /\ Minded(c, HopsOf(r)["response"], Bare(r), Length(r)) /\ Frank(c, Bare(r))
            /\ InStep(c, HopsOf(r), Length(r), frozenExtras[r])
        BY <1>6, <2>1 DEF BodyInv, BodyIn, Fetched, PairInv, InPlace
      <4>2. ASSUME x # NoExtra, x.noBody
            PROVE  g \in Bare(r)
        <5>1. PICK k \in ExtraKinds : k = "response"
          BY DEF ExtraKinds
        <5>2. Honest(x, Bare(r))
          BY <2>2, <4>1, <4>2 DEF Frank
        <5>3. x.hop = g
          <6>1. g \in Assigned(c, k) /\ Paired(c, k, HopsOf(r)[k], frozenExtras[r][k])
            BY <2>2, <4>1, <4>2, <5>1 DEF Assigned, InStep
          <6> QED
            BY <5>1, <6>1 DEF Paired
        <5> QED
          BY <4>2, <5>2, <5>3 DEF Honest
      <4>3. ASSUME f.response, f.noBody
            PROVE  g \in Bare(r)
        BY <2>1, <2>2, <4>1, <4>3 DEF Minded
      <4>4. ASSUME e.noBody
            PROVE  g \in Bare(r)
        BY <1>3, <1>4, <4>4 DEF Bare
      <4> QED
        BY <2>1, <4>2, <4>3, <4>4 DEF RedirectedBody
    <3> QED
      BY <2>1, <2>4, <2>5, <2>7, <3>1
  <2> QED
    BY <2>6, <2>7
<1> QED
  BY <1>7, <1>11, <1>13, <1>14

LEMMA ExtraKeepsLost ==
  ASSUME RecInv, EnvInv, LostInv, NEW r \in Ids, NEW k \in ExtraKinds, SendExtra(r, k),
         NEW buf \in BOOLEAN, HandleEvent(NextExtra(r, k), buf)
  PROVE  LostInv'
<1> DEFINE e == NextExtra(r, k)
<1>1. e \in EventShape /\ e.kind = Kind(k) /\ Outcome(e) /\ RecInv'
  BY ExtraStep
<1>2. script' = script
  BY DEF SendExtra
<1> HIDE DEF e
<1>3. ~Starting(e) /\ ~Redirecting(e)
  BY <1>1 DEF Kind, Starting, Redirecting
<1>4. dropped \subseteq dropped' /\ \A q \in Ids : Bare(q)' = Bare(q)
  BY <1>1, <1>2 DEF Outcome, Failing, Passing, Starting, Redirecting, Answering, Finishing,
         Breaking, Caching, Pairing, Queueing, Dropping, OnlyChains, Chains, Bare
<1>5. ASSUME NEW q \in Ids
      PROVE  /\ KeepsErrors(chains[q], chains'[q])
             /\ LastHop(chains'[q]) = LastHop(chains[q])
             /\ DOMAIN chains'[q].entries = DOMAIN chains[q].entries
  <2>1. /\ KeepsErrors(chains[q], chains'[q]) /\ LastHop(chains'[q]) = LastHop(chains[q])
    BY <1>1, <1>3, OutcomeFollows
  <2>2. chains[q] \in Chain /\ chains'[q] \in Chain
    BY <1>1 DEF RecInv, TypeInv
  <2> QED
    BY <2>1, <2>2, ChainType
<1> QED
  BY <1>4, <1>5 DEF LostInv, Entries, KeepsErrors

LEMMA LostUnchanged ==
  ASSUME LostInv, UNCHANGED <<script, chains, dropped>>
  PROVE  LostInv'
<1>1. \A q \in Ids : Bare(q)' = Bare(q)
  BY DEF Bare
<1> QED
  BY <1>1 DEF LostInv, Entries

LEMMA InitLost == Init => LostInv
<1> SUFFICES ASSUME Init
             PROVE  LostInv
  OBVIOUS
<1>1. \A r \in Ids : Entries(r) = {}
  BY DEF Init, RecorderInit, Entries, EmptyChain
<1> QED
  BY <1>1 DEF LostInv

-----------------------------------------------------------------------------
(* All of it.                                                              *)

RecorderInv == CoreInv /\ PairInv /\ BodyInv /\ CacheInv /\ LostInv

LEMMA InitRecorder == Init => RecorderInv
  BY InitInv, InitTaken, InitPairs, InitBodies, InitCache, InitLost DEF RecorderInv, CoreInv

LEMMA RecorderStep ==
  ASSUME RecorderInv, [Next]_vars
  PROVE  RecorderInv'
<1>1. CoreInv /\ PairInv /\ BodyInv /\ CacheInv /\ LostInv
      /\ RecInv /\ EnvInv /\ ClockInv /\ TakenInv /\ PostInv
  BY DEF RecorderInv, CoreInv, CacheInv
<1>2. CoreInv'
  BY <1>1, CoreStep
<1>3. ASSUME NEW r \in Ids, BaseArrives(r)
      PROVE  RecorderInv'
  <2>1. PICK isLate \in BOOLEAN, buf \in BOOLEAN :
         /\ SendBase(r, isLate) /\ (buf => frozen)
         /\ HandleEvent(BaseEvent(r, NextBase(r), isLate), buf)
    BY <1>3 DEF BaseArrives
  <2>2. PairInv' /\ BodyInv' /\ LostInv'
    BY <1>1, <2>1, BaseKeepsPairs, BaseKeepsBodies, BaseKeepsLost
  <2>3. CacheInv'
    BY <1>1, <2>1, BaseKeepsPost, BaseKeepsMarks DEF CacheInv
  <2> QED
    BY <1>2, <2>2, <2>3 DEF RecorderInv
<1>4. ASSUME NEW r \in Ids, ExtraArrives(r)
      PROVE  RecorderInv'
  <2>1. PICK k \in ExtraKinds, buf \in BOOLEAN :
         SendExtra(r, k) /\ HandleEvent(NextExtra(r, k), buf)
    BY <1>4 DEF ExtraArrives
  <2>2. PairInv' /\ BodyInv' /\ LostInv'
    BY <1>1, <2>1, ExtraKeepsPairs, ExtraKeepsBodies, ExtraKeepsLost
  <2>3. CacheInv'
    BY <1>1, <2>1, ExtraKeepsPost, ExtraKeepsMarks DEF CacheInv
  <2> QED
    BY <1>2, <2>2, <2>3 DEF RecorderInv
<1>5. CASE Freeze
  <2>1. UNCHANGED <<chains, frozenExtras, dropped, script>>
    BY <1>1, <1>5, FreezeStep
  <2> QED
    BY <1>1, <1>2, <1>5, <2>1, FreezeKeepsPairs, BodiesUnchanged, FreezeKeepsCache,
       LostUnchanged DEF RecorderInv
<1>6. CASE UNCHANGED vars
  <2>1. /\ UNCHANGED <<script, baseAt, extraAt, earlyAt>>
        /\ UNCHANGED <<chains, limitErr, frozenExtras, dropped, postCutoff>>
    BY <1>6 DEF vars, recorderVars, browserVars
  <2>2. \A q \in Ids : HopsOf(q)' = HopsOf(q) /\ Length(q)' = Length(q)
    BY <2>1 DEF HopsOf, ExtraHops, Length
  <2>3. PairInv' /\ CacheInv'
    BY <1>1, <2>1, <2>2 DEF PairInv, InPlace, AllThere, CacheInv, PostInv, CacheMarksOwnHop,
                            Entries, Place
  <2> QED
    BY <1>1, <1>2, <2>1, <2>3, BodiesUnchanged, LostUnchanged DEF RecorderInv
<1> QED
  BY <1>3, <1>4, <1>5, <1>6 DEF Next

THEOREM RecorderInductive == Spec => []RecorderInv
<1> QED
  BY InitRecorder, RecorderStep, PTL DEF Spec

\* Whatever the interleaving of late and early events with the freeze, the
\* chains hold what the base events up to the cutoff say, and no more
\* (handleEvent and freezeAtMonotonic).  Cache events have no timestamp, and a
\* buffered one may follow a redirect that was dropped as past the cutoff;
\* still no hop is marked as served from the cache that was not
\* (handleBufferedEvent, postCutoffRequestIDs).
THEOREM CutoffIsExact == Spec => []IntakeIsTheCutoff
<1>1. ASSUME RecorderInv
      PROVE  IntakeIsTheCutoff
  <2>1. EntriesUpToCutoff
    BY <1>1, IntakeIs DEF RecorderInv, CoreInv, TakenInv
  <2> QED
    BY <1>1, <2>1 DEF RecorderInv, CacheInv, IntakeIsTheCutoff
<1> QED
  BY <1>1, RecorderInductive, PTL
================================================================================

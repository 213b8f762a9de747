----------------------------- MODULE CaptureProofs -----------------------------
(***************************************************************************)
(* Proofs about Capture, for every finite set of requests and workers, any *)
(* queue size and any lives: what is asked for is answered once, what      *)
(* stops stays stopped, the buffer and the replay do not show, and an      *)
(* archive tells the truth of its extra info and its bodies.  They rest on *)
(* RecorderProofs: an event changes one chain, wherever it comes from, and *)
(* the recorder of a live capture is one that the browser feeds directly.  *)
(***************************************************************************)
EXTENDS Capture, RecorderProofs

-----------------------------------------------------------------------------
(* What one chain asks for.                                                *)

\* Only the last entry may still be asked for, and none a second time.
AskInv(c) ==
  \A i \in DOMAIN c.entries :
    LET e == c.entries[i] IN
    /\ e.asks \in {0, 1} /\ (e.asks = 1 => e.scheduled)
    /\ IncludeBodies /\ i # LastHop(c) => e.scheduled

\* From c to d, at most the last entry has been asked for, as it is over.
Asked(c, d) ==
  /\ DOMAIN c.entries \subseteq DOMAIN d.entries
  /\ \A i \in DOMAIN d.entries :
       IF i \in DOMAIN c.entries
       THEN \/ d.entries[i].asks = c.entries[i].asks
            \/ /\ i = LastHop(d) /\ d.entries[i].finished
               /\ c.entries[i].asks = 0 /\ d.entries[i].asks = 1
       ELSE d.entries[i].asks = 0

LEMMA NothingAsked ==
  ASSUME NEW c \in Chain, AskInv(c), NEW d \in Chain,
         DOMAIN d.entries = DOMAIN c.entries, LastHop(d) = LastHop(c),
         \A i \in DOMAIN c.entries : /\ d.entries[i].asks = c.entries[i].asks
                                     /\ c.entries[i].scheduled => d.entries[i].scheduled
  PROVE  AskInv(d) /\ Asked(c, d)
  BY DEF AskInv, Asked

LEMMA SameBaseAsks ==
  ASSUME NEW c \in Chain, AskInv(c), NEW d \in Chain, SameBase(c, d)
  PROVE  AskInv(d) /\ Asked(c, d)
<1>1. "asks" \in BaseFields /\ "scheduled" \in BaseFields
  BY DEF BaseFields
<1>2. \A i \in DOMAIN c.entries : /\ d.entries[i]["asks"] = c.entries[i]["asks"]
                                  /\ d.entries[i]["scheduled"] = c.entries[i]["scheduled"]
  BY <1>1 DEF SameBase
<1>3. DOMAIN d.entries = DOMAIN c.entries /\ LastHop(d) = LastHop(c)
  BY DEF SameBase
<1> QED
  BY <1>2, <1>3, NothingAsked

LEMMA ScheduledAsks ==
  ASSUME NEW c \in Chain, AskInv(c)
  PROVE  AskInv(Scheduled(c)) /\ Asked(c, Scheduled(c))
<1> DEFINE d == Scheduled(c)
<1>1. DOMAIN d.entries = DOMAIN c.entries /\ LastHop(d) = LastHop(c)
  BY ScheduledStep
<1>2. \A i \in DOMAIN c.entries :
        /\ ~IncludeBodies \/ ~Ready(c.entries[i]) => d.entries[i] = c.entries[i]
        /\ IncludeBodies /\ Ready(c.entries[i]) =>
              /\ d.entries[i].scheduled
              /\ d.entries[i].asks = c.entries[i].asks
                   + IF HasNoBody(c.entries[i]) THEN 0 ELSE 1
  BY ScheduledStep
<1> HIDE DEF d
<1>3. ASSUME NEW i \in DOMAIN c.entries, IncludeBodies, Ready(c.entries[i])
      PROVE  /\ i = LastHop(c) /\ c.entries[i].asks = 0 /\ d.entries[i].finished
             /\ d.entries[i].scheduled /\ d.entries[i].asks \in {0, 1}
  <2>1. ~c.entries[i].scheduled /\ c.entries[i].finished
    BY <1>3 DEF Ready
  <2>3. d.entries[i].finished = c.entries[i].finished
    <3>1. "finished" \in BaseFields \ {"scheduled", "asks"}
      BY DEF BaseFields
    <3>2. d.entries[i]["finished"] = c.entries[i]["finished"]
      BY <1>3, <3>1, ScheduledFields DEF d
    <3> QED
      BY <3>2
  <2>2. i = LastHop(c) /\ c.entries[i].asks = 0
    BY <1>3, <2>1 DEF AskInv
  <2> QED
    BY <1>2, <1>3, <2>1, <2>2, <2>3
<1>4. ASSUME NEW i \in DOMAIN c.entries
      PROVE  /\ d.entries[i].asks \in {0, 1} /\ (d.entries[i].asks = 1 => d.entries[i].scheduled)
             /\ IncludeBodies /\ i # LastHop(c) => d.entries[i].scheduled
             /\ \/ d.entries[i].asks = c.entries[i].asks
                \/ /\ i = LastHop(c) /\ d.entries[i].finished
                   /\ c.entries[i].asks = 0 /\ d.entries[i].asks = 1
  <2>1. CASE IncludeBodies /\ Ready(c.entries[i])
    BY <1>3, <2>1
  <2>2. CASE ~(IncludeBodies /\ Ready(c.entries[i]))
    BY <1>2, <2>2 DEF AskInv
  <2> QED
    BY <2>1, <2>2
<1> QED
  BY <1>1, <1>4 DEF AskInv, Asked, d

\* First one change that asks for nothing, then the look at who is ready.
LEMMA ThenScheduled ==
  ASSUME NEW c \in Chain, NEW a \in Chain, AskInv(a), Asked(c, a),
         DOMAIN a.entries = DOMAIN c.entries,
         \A i \in DOMAIN c.entries : a.entries[i].asks = c.entries[i].asks
  PROVE  AskInv(Scheduled(a)) /\ Asked(c, Scheduled(a))
  BY ScheduledAsks, ScheduledStep DEF Asked

\* A new hop follows, whose request is not answered yet.
LEMMA AppendAsks ==
  ASSUME NEW c \in Chain, NEW a \in Chain, DOMAIN a.entries = DOMAIN c.entries,
         \A i \in DOMAIN c.entries :
           /\ a.entries[i].asks = c.entries[i].asks
           /\ a.entries[i].asks \in {0, 1} /\ (a.entries[i].asks = 1 => a.entries[i].scheduled)
           /\ IncludeBodies => a.entries[i].scheduled,
         NEW h \in Nat
  PROVE  LET d == [a EXCEPT !.entries = Append(@, Entry(h))]
         IN AskInv(d) /\ Asked(c, d) /\ d \in Chain
<1> DEFINE d == [a EXCEPT !.entries = Append(@, Entry(h))]
           n == LastHop(a) + 1
<1>1. /\ d \in Chain /\ LastHop(d) = n /\ DOMAIN d.entries = DOMAIN a.entries \cup {n}
      /\ d.entries[n] = Entry(h)
      /\ \A j \in DOMAIN a.entries : d.entries[j] = a.entries[j]
  BY AppendStep
<1>2. n \notin DOMAIN a.entries
  <2>1. DOMAIN a.entries = 1 .. LastHop(a) /\ LastHop(a) \in Nat
    BY ChainType
  <2> QED
    BY <2>1
<1>3. Entry(h).asks = 0
  BY DEF Entry
<1> HIDE DEF d, n
<1> QED
  BY <1>1, <1>2, <1>3 DEF AskInv, Asked, d

\* Whatever an event amounts to, one chain changes, and may ask for one body.
LEMMA OutcomeAsks ==
  ASSUME RecInv, NEW e \in EventShape, Outcome(e), AskInv(chains[e.id])
  PROVE  /\ e.id \in Ids /\ chains[e.id] \in Chain
         /\ \A r \in Ids \ {e.id} : chains'[r] = chains[r]
         /\ AskInv(chains'[e.id]) /\ Asked(chains[e.id], chains'[e.id])
<1> DEFINE r == e.id
           c == chains[r]
           i == LastHop(c)
           Goal == AskInv(chains'[r]) /\ Asked(c, chains'[r])
                   /\ \A q \in Ids \ {r} : chains'[q] = chains[q]
<1>1. /\ TypeInv /\ r \in Ids /\ c \in Chain /\ i \in Nat
      /\ DOMAIN c.entries = 1 .. i /\ (i > 0 => i \in DOMAIN c.entries)
      /\ e.hop \in Nat
  BY LastEntry DEF RecInv, EventShape
<1>2. ASSUME NEW d \in Chain, Chains(e, d), AskInv(d), Asked(c, d)
      PROVE  Goal
  BY <1>1, <1>2, NewChains
<1>3. ASSUME chains' = chains
      PROVE  Goal
  <2>1. AskInv(c) /\ Asked(c, c)
    BY <1>1, NothingAsked
  <2> QED
    BY <1>3, <2>1
<1> SUFFICES Goal
  BY <1>1
<1> HIDE DEF Goal
<1>4. CASE Failing \/ Passing(e) \/ \E k \in ExtraKinds : Queueing(e, k) \/ Dropping(e, k)
  BY <1>3, <1>4 DEF Failing, Passing, Queueing, Dropping
<1>5. CASE Starting(e)
  <2> DEFINE a == Adopt(c, r)
             d == [a EXCEPT !.entries = Append(@, Entry(e.hop))]
  <2>1. frozenExtras[r] \in Tails
    BY <1>1 DEF TypeInv
  <2>2. a \in Chain /\ a.entries = c.entries
    BY <1>1, <1>5, <2>1, AdoptStep DEF Adopt, Starting
  <2>3. Chains(e, d) /\ i = 0
    BY <1>5 DEF Starting
  <2> HIDE DEF a
  <2>4. DOMAIN c.entries = {}
    BY <1>1, <2>3
  <2>5. AskInv(d) /\ Asked(c, d) /\ d \in Chain
    BY <1>1, <2>2, <2>4, AppendAsks
  <2> HIDE DEF d
  <2> QED
    BY <1>2, <2>3, <2>5
<1>6. CASE Redirecting(e)
  <2> DEFINE a == Redirect(c, e)
             d == [a EXCEPT !.entries = Append(@, Entry(e.hop))]
  <2>1. Chains(e, d) /\ i > 0
    BY <1>6 DEF Redirecting, OnlyChains
  <2>2. /\ a \in Chain /\ DOMAIN a.entries = DOMAIN c.entries
        /\ IncludeBodies => a.entries[i].scheduled
        /\ ~IncludeBodies => a.entries[i].scheduled = c.entries[i].scheduled
        /\ \A f \in {"hop", "failed", "cached", "asks"} : a.entries[i][f] = c.entries[i][f]
        /\ \A j \in DOMAIN c.entries \ {i} : \A f \in BaseFields :
              a.entries[j][f] = c.entries[j][f]
    <3>1. c \in Chain /\ i \in DOMAIN c.entries /\ i = LastHop(c) /\ e \in EventShape
      BY <1>1, <2>1
    <3> HIDE DEF c, i
    <3> QED
      BY <3>1, RedirectStep
  <2> HIDE DEF a
  <2>3. ASSUME NEW j \in DOMAIN c.entries
        PROVE  /\ a.entries[j].asks = c.entries[j].asks
               /\ a.entries[j].asks \in {0, 1}
               /\ (a.entries[j].asks = 1 => a.entries[j].scheduled)
               /\ IncludeBodies => a.entries[j].scheduled
    <3>1. c.entries[i].scheduled \in BOOLEAN
      BY <1>1, <2>1, EntryOf DEF EntryShape
    <3>2. CASE j = i
      BY <2>2, <3>1, <3>2 DEF AskInv
    <3>3. CASE j # i
      <4>1. /\ a.entries[j].asks = c.entries[j].asks
            /\ a.entries[j].scheduled = c.entries[j].scheduled
        BY <2>2, <3>3 DEF BaseFields
      <4> QED
        BY <3>3, <4>1 DEF AskInv
    <3> QED
      BY <3>2, <3>3
  <2>4. AskInv(d) /\ Asked(c, d) /\ d \in Chain
    BY <1>1, <2>2, <2>3, AppendAsks
  <2> HIDE DEF d
  <2> QED
    BY <1>2, <2>1, <2>4
<1>7. CASE Answering(e)
  <2> DEFINE a == WithAnswer(c, e)
             d == Scheduled(a)
  <2>1. Chains(e, d) /\ i > 0
    BY <1>7 DEF Answering, OnlyChains
  <2>2. /\ a \in Chain /\ DOMAIN a.entries = DOMAIN c.entries /\ LastHop(a) = i
        /\ \A f \in BaseFields \ {"noBody", "response"} : a.entries[i][f] = c.entries[i][f]
        /\ \A j \in DOMAIN c.entries \ {i} : \A f \in BaseFields :
              a.entries[j][f] = c.entries[j][f]
    <3>1. c \in Chain /\ i \in DOMAIN c.entries /\ i = LastHop(c)
      BY <1>1, <2>1
    <3> HIDE DEF c, i
    <3> QED
      BY <3>1, AnswerFields
  <2> HIDE DEF a
  <2>3. \A j \in DOMAIN c.entries : /\ a.entries[j].asks = c.entries[j].asks
                                    /\ a.entries[j].scheduled = c.entries[j].scheduled
    BY <2>2 DEF BaseFields
  <2>4. AskInv(a) /\ Asked(c, a)
    BY <1>1, <2>2, <2>3, NothingAsked
  <2>5. AskInv(d) /\ Asked(c, d) /\ d \in Chain
    BY <1>1, <2>2, <2>3, <2>4, ThenScheduled, ScheduledStep
  <2> HIDE DEF d
  <2> QED
    BY <1>2, <2>1, <2>5
<1>8. ASSUME NEW f \in Flags, i > 0
      PROVE  LET a == Flagged(c, i, f) IN
             /\ a \in Chain /\ DOMAIN a.entries = DOMAIN c.entries
             /\ AskInv(a) /\ Asked(c, a)
             /\ \A j \in DOMAIN c.entries : a.entries[j].asks = c.entries[j].asks
  <2> DEFINE a == Flagged(c, i, f)
  <2>1. /\ a \in Chain /\ DOMAIN a.entries = DOMAIN c.entries /\ LastHop(a) = i
        /\ \A g \in DOMAIN c.entries[i] \ {f} : a.entries[i][g] = c.entries[i][g]
        /\ \A j \in DOMAIN c.entries \ {i} : a.entries[j] = c.entries[j]
    <3>1. i \in DOMAIN c.entries /\ LastHop(c) = i /\ c \in Chain
      BY <1>1, <1>8
    <3> HIDE DEF i, c
    <3> QED
      BY <3>1, FlagStep
  <2> HIDE DEF a
  <2>2. "asks" \in DOMAIN c.entries[i] \ {f} /\ "scheduled" \in DOMAIN c.entries[i] \ {f}
    BY <1>1, <1>8, EntryOf DEF EntryShape, Flags
  <2>3. \A j \in DOMAIN c.entries : /\ a.entries[j].asks = c.entries[j].asks
                                    /\ a.entries[j].scheduled = c.entries[j].scheduled
    BY <2>1, <2>2
  <2> QED
    BY <1>1, <2>1, <2>3, NothingAsked DEF a
<1>9. CASE Finishing(e)
  <2>1. PICK f \in Flags : f = "finished"
    BY DEF Flags
  <2> DEFINE a == Flagged(c, i, f)
             d == Scheduled(a)
  <2>2. Chains(e, d) /\ i > 0
    BY <1>9, <2>1 DEF Finishing, OnlyChains
  <2>3. /\ a \in Chain /\ DOMAIN a.entries = DOMAIN c.entries
        /\ AskInv(a) /\ Asked(c, a)
        /\ \A j \in DOMAIN c.entries : a.entries[j].asks = c.entries[j].asks
    BY <1>8, <2>2
  <2> HIDE DEF a
  <2>4. AskInv(d) /\ Asked(c, d) /\ d \in Chain
    BY <1>1, <2>3, ThenScheduled, ScheduledStep
  <2> HIDE DEF d
  <2> QED
    BY <1>2, <2>2, <2>4
<1>10. CASE Caching(e)
  <2>1. PICK f \in Flags : f = "cached"
    BY DEF Flags
  <2> DEFINE d == Flagged(c, i, f)
  <2>2. Chains(e, d) /\ i > 0
    BY <1>10, <2>1 DEF Caching, OnlyChains
  <2>3. d \in Chain /\ AskInv(d) /\ Asked(c, d)
    BY <1>8, <2>2
  <2> HIDE DEF d
  <2> QED
    BY <1>2, <2>2, <2>3
<1>11. CASE Breaking(e)
  <2> DEFINE d == Fail(c)
  <2>1. Chains(e, d) /\ i > 0
    BY <1>11 DEF Breaking, OnlyChains
  <2>2. /\ d \in Chain /\ DOMAIN d.entries = DOMAIN c.entries /\ LastHop(d) = i
        /\ \A f \in BaseFields \ {"failed"} : d.entries[i][f] = c.entries[i][f]
        /\ \A j \in DOMAIN c.entries \ {i} : \A f \in BaseFields :
              d.entries[j][f] = c.entries[j][f]
    BY <1>1, <2>1, FailStep
  <2> HIDE DEF d
  <2>3. \A j \in DOMAIN c.entries : /\ d.entries[j].asks = c.entries[j].asks
                                    /\ d.entries[j].scheduled = c.entries[j].scheduled
    BY <2>2 DEF BaseFields
  <2>4. AskInv(d) /\ Asked(c, d)
    BY <1>1, <2>2, <2>3, NothingAsked
  <2> QED
    BY <1>2, <2>1, <2>2, <2>4
<1>12. CASE \E k \in ExtraKinds : Pairing(e, k)
  <2>1. PICK k \in ExtraKinds : Pairing(e, k)
    BY <1>12
  <2> DEFINE a == AddExtra(c, k, ExtraOf(e))
             d == IF k = "request" THEN a ELSE Scheduled(a)
  <2>2. Chains(e, d)
    BY <2>1 DEF Pairing, OnlyChains
  <2>3. a \in Chain /\ SameBase(c, a)
    BY <1>1, ExtraOfType, AddExtraStep
  <2> HIDE DEF a
  <2>4. AskInv(a) /\ Asked(c, a)
    BY <1>1, <2>3, SameBaseAsks
  <2>5. /\ DOMAIN a.entries = DOMAIN c.entries
        /\ \A j \in DOMAIN c.entries : a.entries[j].asks = c.entries[j].asks
    BY <2>3 DEF SameBase, BaseFields
  <2>6. AskInv(Scheduled(a)) /\ Asked(c, Scheduled(a)) /\ Scheduled(a) \in Chain
    BY <1>1, <2>3, <2>4, <2>5, ThenScheduled, ScheduledStep
  <2>7. AskInv(d) /\ Asked(c, d) /\ d \in Chain
    BY <2>3, <2>4, <2>6
  <2> HIDE DEF d
  <2> QED
    BY <1>2, <2>2, <2>7
<1> QED
  BY <1>4, <1>5, <1>6, <1>7, <1>9, <1>10, <1>11, <1>12 DEF Outcome

-----------------------------------------------------------------------------
(* The tasks.                                                              *)

AsksInv == \A r \in Ids : AskInv(chains[r])

\* The entries asked for, and the three places where a task for one may be.
Wanted == {t \in Task : /\ t.id \in Ids /\ t.entry \in DOMAIN chains[t.id].entries
                        /\ chains[t.id].entries[t.entry].asks = 1}
InQueue == {queue[n] : n \in DOMAIN queue}
InHand  == {work[w] : w \in Workers} \ {NoTask}
Told    == {a.task : a \in answers}

\* Every entry asked for has its task in one of the places, once.
TasksInv ==
  /\ \A n, m \in DOMAIN queue : queue[n] = queue[m] => n = m
  /\ \A v, w \in Workers : work[v] = work[w] /\ work[v] # NoTask => v = w
  /\ \A a, b \in answers : a.task = b.task => a = b
  /\ InQueue \cap InHand = {} /\ InQueue \cap Told = {} /\ InHand \cap Told = {}
  /\ Wanted = InQueue \cup InHand \cup Told

LEMMA NoTaskIsNone == NoTask \notin Task
  BY DEF NoTask, Task

\* What one chain has come to ask for is new.
LEMMA TasksOfAChain ==
  ASSUME TypeInv, TypeInv', AsksInv, NEW r \in Ids,
         \A q \in Ids \ {r} : chains'[q] = chains[q],
         AskInv(chains'[r]), Asked(chains[r], chains'[r])
  PROVE  /\ AsksInv'
         /\ \A t, u \in NewTasks : t = u
         /\ NewTasks \subseteq Task /\ NewTasks \cap Wanted = {}
         /\ Wanted' = Wanted \cup NewTasks
<1> DEFINE c == chains[r]
           d == chains'[r]
           n == LastHop(d)
<1>1. /\ c \in Chain /\ d \in Chain /\ n \in Nat
      /\ DOMAIN d.entries = 1 .. n /\ DOMAIN c.entries \subseteq Nat \ {0}
      /\ \A q \in Ids : chains'[q] \in Chain /\ chains[q] \in Chain
  <2>1. c \in Chain /\ d \in Chain /\ \A q \in Ids : chains'[q] \in Chain /\ chains[q] \in Chain
    BY DEF TypeInv
  <2>2. DOMAIN c.entries = 1 .. LastHop(c) /\ LastHop(c) \in Nat
    BY <2>1, ChainType
  <2>3. DOMAIN d.entries = 1 .. n /\ n \in Nat
    BY <2>1, ChainType
  <2> QED
    BY <2>1, <2>2, <2>3
<1>2. /\ DOMAIN c.entries \subseteq DOMAIN d.entries
      /\ \A i \in DOMAIN d.entries :
           IF i \in DOMAIN c.entries
           THEN \/ d.entries[i].asks = c.entries[i].asks
                \/ i = n /\ c.entries[i].asks = 0 /\ d.entries[i].asks = 1
           ELSE d.entries[i].asks = 0
  BY DEF Asked
<1>3. \A i \in DOMAIN c.entries : c.entries[i].asks \in {0, 1}
  BY DEF AsksInv, AskInv
<1>4. \A q \in Ids : \A i \in DOMAIN chains[q].entries : chains[q].entries[i].asks \in Nat
  BY <1>1, EntryOf DEF EntryShape
<1> DEFINE more(i) == /\ i \in DOMAIN c.entries /\ i = n
                      /\ c.entries[i].asks = 0 /\ d.entries[i].asks = 1
<1>5. \A t : t \in NewTasks <=> \E i \in DOMAIN d.entries :
                                  t = [id |-> r, entry |-> i] /\ more(i)
  <2>1. ASSUME NEW t \in NewTasks
        PROVE  \E i \in DOMAIN d.entries : t = [id |-> r, entry |-> i] /\ more(i)
    <3>1. PICK q \in Ids : t \in [id : {q}, entry : DOMAIN chains'[q].entries]
      BY <2>1 DEF NewTasks
    <3>2. PICK i \in DOMAIN chains'[q].entries : t = [id |-> q, entry |-> i]
      BY <3>1
    <3>3. chains'[q].entries[i].asks > IF i \in DOMAIN chains[q].entries
                                       THEN chains[q].entries[i].asks ELSE 0
      BY <2>1, <3>2 DEF NewTasks
    <3>4. q = r
      <4>1. CASE q # r
        <5>1. chains'[q] = chains[q]
          BY <4>1
        <5> QED
          BY <1>4, <3>2, <3>3, <5>1
      <4> QED
        BY <4>1
    <3>5. more(i)
      BY <1>2, <1>3, <3>2, <3>3, <3>4
    <3> QED
      BY <3>2, <3>4, <3>5
  <2>2. ASSUME NEW i \in DOMAIN d.entries, more(i)
        PROVE  [id |-> r, entry |-> i] \in NewTasks
    <3> DEFINE t == [id |-> r, entry |-> i]
    <3>1. t \in [id : {r}, entry : DOMAIN chains'[r].entries] /\ t.id = r /\ t.entry = i
      OBVIOUS
    <3>2. d.entries[i].asks > IF i \in DOMAIN c.entries THEN c.entries[i].asks ELSE 0
      BY <2>2
    <3> QED
      BY <3>1, <3>2 DEF NewTasks
  <2> QED
    BY <2>1, <2>2
<1>6. NewTasks \subseteq Task
  BY <1>1, <1>5 DEF Task
<1>7. \A t \in NewTasks : t \notin Wanted
  BY <1>5 DEF Wanted
<1>8. ASSUME NEW t \in Task
      PROVE  t \in Wanted' <=> t \in Wanted \/ t \in NewTasks
  <2>1. CASE t.id = r
    <3>1. t = [id |-> r, entry |-> t.entry]
      BY <2>1 DEF Task
    <3>2. t \in NewTasks <=> more(t.entry)
      <4>1. \A i : t = [id |-> r, entry |-> i] => t.entry = i
        OBVIOUS
      <4> QED
        BY <1>2, <1>5, <3>1, <4>1
    <3>3. t \in Wanted <=> t.entry \in DOMAIN c.entries /\ c.entries[t.entry].asks = 1
      BY <2>1 DEF Wanted
    <3>4. t \in Wanted' <=> t.entry \in DOMAIN d.entries /\ d.entries[t.entry].asks = 1
      BY <2>1 DEF Wanted
    <3> QED
      BY <1>2, <1>3, <3>2, <3>3, <3>4
  <2>2. CASE t.id # r
    <3>1. t \notin NewTasks
      BY <1>5, <2>2
    <3>2. t.id \in Ids /\ chains'[t.id] = chains[t.id]
      BY <2>2 DEF Task
    <3> QED
      BY <3>1, <3>2 DEF Wanted
  <2> QED
    BY <2>1, <2>2
<1>9. Wanted' = Wanted \cup NewTasks
  <2>1. Wanted' \subseteq Task /\ Wanted \subseteq Task
    BY DEF Wanted
  <2> QED
    BY <1>6, <1>8, <2>1
<1>10. AsksInv'
  BY DEF AsksInv
<1> HIDE DEF more
<1>11. \A t, u \in NewTasks : t = u
  <2>1. \A i : more(i) => i = n
    BY DEF more
  <2> QED
    BY <1>5, <2>1
<1> QED
  BY <1>6, <1>7, <1>9, <1>10, <1>11

\* A new task gets a place of its own.
LEMMA PlaceForATask ==
  ASSUME TasksInv, queue \in Seq(Task), NEW t \in Task, t \notin Wanted,
         Wanted' = Wanted \cup {t}, work' = work,
         \/ queue' = Append(queue, t) /\ answers' = answers
         \/ answers' = answers \cup {Answer(t, 0, FALSE)} /\ queue' = queue
  PROVE  TasksInv'
<1>1. t \notin InQueue /\ t \notin InHand /\ t \notin Told
  BY DEF TasksInv
<1>2. InHand' = InHand
  BY DEF InHand
<1>3. CASE queue' = Append(queue, t) /\ answers' = answers
  <2>1. /\ DOMAIN queue = 1 .. Len(queue) /\ Len(queue) \in Nat
        /\ DOMAIN queue' = 1 .. Len(queue) + 1 /\ queue'[Len(queue) + 1] = t
        /\ \A n \in DOMAIN queue : queue'[n] = queue[n]
    BY <1>3
  <2>2. InQueue' = InQueue \cup {t} /\ Told' = Told
    BY <1>3, <2>1 DEF InQueue, Told
  <2>3. \A n, m \in DOMAIN queue' : queue'[n] = queue'[m] => n = m
    <3>1. \A n \in DOMAIN queue : queue[n] # t
      BY <1>1 DEF InQueue
    <3>2. \A n \in DOMAIN queue' : n \in DOMAIN queue \/ n = Len(queue) + 1
      BY <2>1
    <3> QED
      BY <2>1, <3>1, <3>2 DEF TasksInv
  <2> QED
    BY <1>1, <1>2, <1>3, <2>2, <2>3 DEF TasksInv
<1>4. CASE answers' = answers \cup {Answer(t, 0, FALSE)} /\ queue' = queue
  <2>1. Answer(t, 0, FALSE).task = t
    BY DEF Answer
  <2>2. InQueue' = InQueue /\ Told' = Told \cup {t}
    BY <1>4, <2>1 DEF InQueue, Told
  <2>3. \A a, b \in answers' : a.task = b.task => a = b
    <3>1. \A a \in answers : a.task # t
      BY <1>1 DEF Told
    <3> QED
      BY <1>4, <2>1, <3>1 DEF TasksInv
  <2> QED
    <3>1. /\ \A n, m \in DOMAIN queue' : queue'[n] = queue'[m] => n = m
          /\ \A v, u \in Workers : work'[v] = work'[u] /\ work'[v] # NoTask => v = u
      BY <1>4 DEF TasksInv
    <3>2. /\ InQueue' \cap InHand' = {} /\ InQueue' \cap Told' = {}
          /\ InHand' \cap Told' = {} /\ Wanted' = InQueue' \cup InHand' \cup Told'
      BY <1>1, <1>2, <2>2 DEF TasksInv
    <3> QED
      BY <2>3, <3>1, <3>2 DEF TasksInv
<1> QED
  BY <1>3, <1>4

\* A worker takes the first task.
LEMMA TaskTaken ==
  ASSUME TasksInv, queue \in Seq(Task), queue # <<>>, work \in [Workers -> Task \cup {NoTask}],
         NEW w \in Workers, work[w] = NoTask, work' = [work EXCEPT ![w] = Head(queue)],
         queue' = Tail(queue), answers' = answers, Wanted' = Wanted
  PROVE  TasksInv'
<1> DEFINE t == Head(queue)
           n == Len(queue)
<1>1. /\ DOMAIN queue = 1 .. n /\ n \in Nat \ {0} /\ t = queue[1] /\ t \in Task
      /\ DOMAIN queue' = 1 .. n - 1 /\ \A m \in 1 .. n - 1 : queue'[m] = queue[m + 1]
  OBVIOUS
<1> HIDE DEF t, n
<1>2. t # NoTask
  BY <1>1, NoTaskIsNone
<1>3. InQueue' = InQueue \ {t}
  <2>1. ASSUME NEW m \in 1 .. n - 1
        PROVE  queue'[m] \in InQueue /\ queue'[m] # t
    <3>1. m + 1 \in DOMAIN queue /\ 1 \in DOMAIN queue /\ m + 1 # 1
      BY <1>1
    <3> QED
      BY <1>1, <3>1 DEF InQueue, TasksInv
  <2>2. ASSUME NEW x \in InQueue, x # t
        PROVE  x \in InQueue'
    <3>1. PICK m \in DOMAIN queue : x = queue[m]
      BY <2>2 DEF InQueue
    <3>2. m # 1
      BY <1>1, <2>2, <3>1
    <3>3. m - 1 \in 1 .. n - 1 /\ (m - 1) + 1 = m
      BY <1>1, <3>2
    <3>4. queue'[m - 1] = x
      BY <1>1, <3>1, <3>3
    <3> QED
      BY <1>1, <3>3, <3>4 DEF InQueue
  <2> QED
    BY <1>1, <2>1, <2>2 DEF InQueue
<1>4. work' = [work EXCEPT ![w] = t]
  BY DEF t
<1>5. InHand' = InHand \cup {t}
  BY <1>2, <1>4 DEF InHand
<1>6. t \in InQueue
  BY <1>1 DEF InQueue
<1>7. \A u, v \in Workers : work'[u] = work'[v] /\ work'[u] # NoTask => u = v
  <2>1. \A v \in Workers : work[v] # t
    BY <1>2, <1>6 DEF TasksInv, InHand
  <2> QED
    BY <1>4, <2>1 DEF TasksInv
<1>8. \A m, k \in DOMAIN queue' : queue'[m] = queue'[k] => m = k
  <2>1. \A m \in 1 .. n - 1 : m + 1 \in DOMAIN queue
    BY <1>1
  <2>2. ASSUME NEW m \in 1 .. n - 1, NEW k \in 1 .. n - 1, queue'[m] = queue'[k]
        PROVE  m = k
    <3>1. m + 1 = k + 1
      BY <1>1, <2>1, <2>2 DEF TasksInv
    <3> QED
      BY <1>1, <3>1
  <2> QED
    BY <1>1, <2>2
<1>9. Told' = Told
  BY DEF Told
<1> QED
  BY <1>3, <1>5, <1>6, <1>7, <1>8, <1>9 DEF TasksInv

\* A worker answers its task.
LEMMA TaskAnswered ==
  ASSUME TasksInv, work \in [Workers -> Task \cup {NoTask}],
         NEW w \in Workers, work[w] # NoTask, work' = [work EXCEPT ![w] = NoTask],
         NEW hop, NEW cut, answers' = answers \cup {Answer(work[w], hop, cut)},
         queue' = queue, Wanted' = Wanted
  PROVE  TasksInv'
<1> DEFINE t == work[w]
<1>1. Answer(t, hop, cut).task = t
  BY DEF Answer
<1>2. t \in InHand /\ t \notin Told
  BY DEF InHand, TasksInv
<1>3. InHand' = InHand \ {t}
  BY DEF InHand, TasksInv
<1>4. Told' = Told \cup {t} /\ InQueue' = InQueue
  BY <1>1 DEF Told, InQueue
<1>5. \A a, b \in answers' : a.task = b.task => a = b
  <2>1. \A a \in answers : a.task # t
    BY <1>2 DEF Told
  <2> QED
    BY <1>1, <2>1 DEF TasksInv
<1>6. \A u, v \in Workers : work'[u] = work'[v] /\ work'[u] # NoTask => u = v
  BY DEF TasksInv
<1>7. queue' = queue
  OBVIOUS
<1> HIDE DEF t
<1> QED
  BY <1>2, <1>3, <1>4, <1>5, <1>6, <1>7 DEF TasksInv

-----------------------------------------------------------------------------
(* The browser and how far the recorder has seen it.                       *)

\* The instance's operators are those of Browser.
LEMMA SameCardinality == \A S : B!Cardinality(S) = Cardinality(S)
  BY DEF B!Cardinality, Cardinality

LEMMA SameOccurs == \A s, b : B!Occurs(s, b) <=> Occurs(s, b)
  BY DEF B!Occurs, Occurs, B!HopOf, HopOf, B!StepOf, StepOf, B!Events, Events

LEMMA SameNextBase ==
  ASSUME NEW r
  PROVE  /\ B!Coming(r) = ComingFrom(sentBase[r], r)
         /\ B!NextBase(r) = NextFrom(sentBase[r], r)
<1>1. B!Coming(r) = ComingFrom(sentBase[r], r)
  BY SameOccurs DEF B!Coming, ComingFrom
<1> QED
  BY <1>1 DEF B!NextBase, NextFrom

LEMMA SameBaseEvent == \A r, b, late : B!BaseEvent(r, b, late) = BaseEvent(r, b, late)
  BY DEF B!BaseEvent, BaseEvent, B!HopOf, HopOf, B!StepOf, StepOf, B!Events, Events,
         B!Event, Event, B!Says, Says

LEMMA SameNextExtra ==
  ASSUME NEW r, NEW k
  PROVE  /\ B!ExtraHops(r, k) = ExtraHops(r, k)
         /\ B!NextExtra(r, k) = ExtraFrom(sentExtra[r][k], r, k)
<1>1. B!ExtraHops(r, k) = ExtraHops(r, k)
  BY DEF B!ExtraHops, ExtraHops, B!HasExtra, HasExtra
<1>2. \A S, i : B!Rank(S, i) = Rank(S, i)
  BY SameCardinality DEF B!Rank, Rank
<1>3. \A h : B!ExtraEvent(r, k, h) = ExtraEvent(r, k, h)
  BY DEF B!ExtraEvent, ExtraEvent, B!Event, Event
<1> QED
  BY <1>1, <1>2, <1>3 DEF B!NextExtra, ExtraFrom

\* An extra-info event carries no time.
LEMMA ExtraNeverLate ==
  ASSUME NEW m, NEW r, NEW k
  PROVE  ExtraFrom(m, r, k).late = FALSE
<1>1. \A h : ExtraEvent(r, k, h).late = FALSE
  BY DEF ExtraEvent, Event
<1> QED
  BY <1>1 DEF ExtraFrom

\* A position that the browser may be at, and the step with event e from one
\* to the next.
Sights ==
  {p \in [base : [Ids -> Nat], extra : [Ids -> [ExtraKinds -> Nat]], early : [Ids -> Nat]] :
     \A r \in Ids : p.early[r] <= p.base[r]}

SendsBase(p, q, e, r, late) ==
  LET b == NextFrom(p.base[r], r) IN
  /\ ComingFrom(p.base[r], r) # {}
  /\ p.early[r] < p.base[r] => late
  /\ e = BaseEvent(r, b, late)
  /\ q = [base  |-> [p.base EXCEPT ![r] = b + 1], extra |-> p.extra,
          early |-> IF late THEN p.early ELSE [p.early EXCEPT ![r] = b + 1]]
SendsExtra(p, q, e, r, k) ==
  /\ p.extra[r][k] < Cardinality(ExtraHops(r, k))
  /\ k = "response" => p.extra[r]["response"] < p.extra[r]["request"]
  /\ e = ExtraFrom(p.extra[r][k], r, k)
  /\ q = [p EXCEPT !.extra = [p.extra EXCEPT ![r][k] = @ + 1]]
Sends(p, q, e) ==
  \E r \in Ids : \/ \E late \in BOOLEAN : SendsBase(p, q, e, r, late)
                 \/ \E k \in ExtraKinds : SendsExtra(p, q, e, r, k)

\* The recorder has seen the browser at one position, and will at the others.
SightInv ==
  /\ script \in [Ids -> Scripts] /\ clockRead \in BOOLEAN /\ clock \in BOOLEAN
  /\ Seen \in Sights /\ Position \in Sights /\ ahead \in Seq(Sights)
  /\ ~failed /\ ~limitErr => Len(ahead) = Len(buffer)

LEMMA SightIsEnv ==
  ASSUME SightInv PROVE EnvInv
  BY DEF SightInv, EnvInv, Sights, Seen

LEMMA SendsType ==
  ASSUME EnvInv, NEW p \in Sights, NEW q, NEW e, Sends(p, q, e)
  PROVE  q \in Sights /\ e \in EventShape
<1>1. PICK r \in Ids : \/ \E late \in BOOLEAN : SendsBase(p, q, e, r, late)
                       \/ \E k \in ExtraKinds : SendsExtra(p, q, e, r, k)
  BY DEF Sends
<1>2. /\ p.base \in [Ids -> Nat] /\ p.early \in [Ids -> Nat]
      /\ p.extra \in [Ids -> [ExtraKinds -> Nat]]
      /\ \A s \in Ids : p.early[s] <= p.base[s] /\ p.base[s] \in Nat /\ p.early[s] \in Nat
      /\ p = [base |-> p.base, extra |-> p.extra, early |-> p.early]
  BY DEF Sights
<1>3. ASSUME NEW late \in BOOLEAN, SendsBase(p, q, e, r, late)
      PROVE  q \in Sights /\ e \in EventShape
  <2> DEFINE b == NextFrom(p.base[r], r)
             h == HopOf(b)
             n == b % 5
  <2>1. /\ b \in Nat /\ p.base[r] <= b /\ h \in 1 .. Length(r)
    BY <1>2, <1>3, NextFromIs DEF SendsBase
  <2>2. /\ e = BaseEvent(r, b, late)
        /\ q = [base  |-> [p.base EXCEPT ![r] = b + 1], extra |-> p.extra,
                early |-> IF late THEN p.early ELSE [p.early EXCEPT ![r] = b + 1]]
    BY <1>3 DEF SendsBase
  <2> HIDE DEF b
  <2>3. q \in Sights
    <3> DEFINE x == [p.base EXCEPT ![r] = b + 1]
               y == IF late THEN p.early ELSE [p.early EXCEPT ![r] = b + 1]
    <3>1. x \in [Ids -> Nat] /\ y \in [Ids -> Nat] /\ \A s \in Ids : y[s] <= x[s]
      BY <1>2, <2>1
    <3> HIDE DEF x, y
    <3>2. q = [base |-> x, extra |-> p.extra, early |-> y]
      BY <2>2 DEF x, y
    <3> QED
      BY <1>2, <3>1, <3>2 DEF Sights
  <2>4. n \in 0 .. 4 /\ b = Place(h, n)
    BY <2>1, PlaceOf
  <2> HIDE DEF h, n
  <2>5. BaseEvent(r, Place(h, n), late) \in EventShape
    BY <2>1, <2>4, BaseEventIs
  <2> QED
    BY <2>2, <2>3, <2>4, <2>5
<1>4. ASSUME NEW k \in ExtraKinds, SendsExtra(p, q, e, r, k)
      PROVE  q \in Sights /\ e \in EventShape
  <2>1. p.extra[r][k] \in Nat /\ p.extra[r][k] < Cardinality(ExtraHops(r, k))
    BY <1>2, <1>4 DEF SendsExtra
  <2>2. e \in EventShape
    BY <1>4, <2>1, ExtraFromIs DEF SendsExtra
  <2> DEFINE x == [p.extra EXCEPT ![r][k] = @ + 1]
  <2>3. x \in [Ids -> [ExtraKinds -> Nat]]
    BY <1>2
  <2> HIDE DEF x
  <2>4. q = [base |-> p.base, extra |-> x, early |-> p.early]
    BY <1>2, <1>4 DEF SendsExtra, x
  <2> QED
    BY <1>2, <2>2, <2>3, <2>4 DEF Sights
<1> QED
  BY <1>1, <1>3, <1>4

\* What the browser does, as a step from position to position.
LEMMA BrowserSends ==
  ASSUME SightInv, NEW r \in Ids
  PROVE  /\ \A late \in BOOLEAN : B!SendBase(r, late) =>
              LET e == B!BaseEvent(r, B!NextBase(r), late) IN
              /\ SendsBase(Position, Position', e, r, late)
              /\ late => clock
         /\ \A k \in ExtraKinds : B!SendExtra(r, k) =>
              SendsExtra(Position, Position', B!NextExtra(r, k), r, k)
         /\ (\E late \in BOOLEAN : B!SendBase(r, late)) \/ (\E k \in ExtraKinds : B!SendExtra(r, k))
              => script' = script /\ clock' = clock
<1>1. ASSUME NEW late \in BOOLEAN, B!SendBase(r, late)
      PROVE  LET e == B!BaseEvent(r, B!NextBase(r), late) IN
             SendsBase(Position, Position', e, r, late) /\ (late => clock)
  <2>1. /\ B!Coming(r) # {} /\ (late => clock) /\ (sentEarly[r] < sentBase[r] => late)
        /\ sentBase' = [sentBase EXCEPT ![r] = B!NextBase(r) + 1]
        /\ sentEarly' = IF late THEN sentEarly ELSE [sentEarly EXCEPT ![r] = B!NextBase(r) + 1]
        /\ sentExtra' = sentExtra
    BY <1>1 DEF B!SendBase
  <2> QED
    BY <2>1, SameNextBase, SameBaseEvent DEF SendsBase, Position
<1>2. ASSUME NEW k \in ExtraKinds, B!SendExtra(r, k)
      PROVE  SendsExtra(Position, Position', B!NextExtra(r, k), r, k)
  <2>1. /\ sentExtra[r][k] < B!Cardinality(B!ExtraHops(r, k))
        /\ k = "response" => sentExtra[r]["response"] < sentExtra[r]["request"]
        /\ sentExtra' = [sentExtra EXCEPT ![r][k] = @ + 1]
        /\ sentBase' = sentBase /\ sentEarly' = sentEarly
    BY <1>2 DEF B!SendExtra
  <2> QED
    BY <2>1, SameNextExtra, SameCardinality DEF SendsExtra, Position
<1>3. (\E late \in BOOLEAN : B!SendBase(r, late)) \/ (\E k \in ExtraKinds : B!SendExtra(r, k))
        => script' = script /\ clock' = clock
  BY DEF B!SendBase, B!SendExtra
<1> QED
  BY <1>1, <1>2, <1>3

LEMMA SeeKeeps ==
  ASSUME SightInv, NEW p \in Sights, NEW later \in Seq(Sights), Position' \in Sights,
         clock' \in BOOLEAN, See(p, later),
         ~failed' /\ ~limitErr' => Len(later) = Len(buffer')
  PROVE  SightInv'
<1>1. <<>> \in Seq(Sights)
  OBVIOUS
<1>2. Seen' = IF failed' \/ limitErr' THEN Position' ELSE p
  <2>1. p = [base |-> p.base, extra |-> p.extra, early |-> p.early]
    BY DEF Sights
  <2>2. CASE failed' \/ limitErr'
    BY <2>2 DEF See, Seen, Position
  <2>3. CASE ~(failed' \/ limitErr')
    BY <2>1, <2>3 DEF See, Seen
  <2> QED
    BY <2>2, <2>3
<1>3. /\ ahead' = IF failed' \/ limitErr' THEN <<>> ELSE later
      /\ script' = script /\ clockRead' = clockRead
  BY DEF See
<1> QED
  BY <1>1, <1>2, <1>3 DEF SightInv

LEMMA SightStill ==
  ASSUME SightInv, UNCHANGED <<seenVars, sentVars, buffer, failed, limitErr>>
  PROVE  SightInv'
  BY DEF SightInv, seenVars, sentVars, browserVars, Seen, Position

-----------------------------------------------------------------------------
(* The invariant.                                                          *)

\* Who has stopped, and what that means: the queue is closed from the wait
\* on, workers only leave an empty closed queue, and the archive is built by a
\* main goroutine that is alone and that nothing has cut short.
ControlInv ==
  /\ accept <=> pc \notin {"wait", "mark", "done", "failed"}
  /\ gone # {} => ~accept /\ queue = <<>>
  /\ \A w \in gone : work[w] = NoTask
  /\ pc \in {"mark", "done", "failed"} => gone = Workers
  /\ failed => pc \in {"stop", "wait", "failed"}
  /\ \A a \in answers : a.cut => expired
  /\ pc = "done" => ~expired /\ ~limitErr
  /\ freezing <=> pc \in {"metrics", "cutoff"}
  /\ buffer # <<>> => pc \in {"metrics", "cutoff", "replay"}

\* When the clock has been read, and when the recorder is frozen.
ClocksInv ==
  /\ clockRead = frozen
  /\ frozen => pc \notin {"run", "metrics", "cutoff"}
  /\ pc = "replay" => frozen
  /\ clock => frozen \/ pc = "cutoff" \/ failed

CaptureInv ==
  /\ CaptureTypeOK /\ buffer \in Seq(EventShape)
  /\ RecInv /\ SightInv /\ AsksInv /\ TasksInv /\ ControlInv /\ ClocksInv

LEMMA CaptureInitInv == CaptureInit => CaptureInv
<1> SUFFICES ASSUME CaptureInit
             PROVE  CaptureInv
  OBVIOUS
<1>1. /\ RecInv
      /\ pc = "run" /\ failed = FALSE /\ expired = FALSE /\ freezing = FALSE
      /\ accept = TRUE /\ buffer = <<>> /\ queue = <<>> /\ gone = {} /\ answers = {}
      /\ work = [w \in Workers |-> NoTask]
  BY InitInv DEF CaptureInit
<1>2. CaptureTypeOK
  <2>1. queue \in Seq(Task) /\ Len(queue) <= QueueSize
    BY <1>1, CaptureAssumption DEF CaptureAssumption
  <2>2. work \in [Workers -> Task \cup {NoTask}]
    BY <1>1
  <2> QED
    BY <1>1, <2>1, <2>2 DEF CaptureTypeOK
<1>3. ControlInv
  BY <1>1 DEF ControlInv
<1>4. \A r \in Ids : chains[r].entries = <<>>
  BY DEF CaptureInit, Init, RecorderInit, EmptyChain
<1>5. AsksInv
  BY <1>4 DEF AsksInv, AskInv
<1>6. TasksInv
  <2>1. Wanted = {}
    BY <1>4 DEF Wanted
  <2>2. InQueue = {} /\ InHand = {} /\ Told = {}
    BY <1>1 DEF InQueue, InHand, Told
  <2> QED
    BY <1>1, <2>1, <2>2 DEF TasksInv
<1>7. SightInv /\ ClocksInv
  <2>1. /\ script \in [Ids -> Scripts]
        /\ baseAt = [r \in Ids |-> 0] /\ earlyAt = [r \in Ids |-> 0]
        /\ extraAt = [r \in Ids |-> [k \in ExtraKinds |-> 0]] /\ clockRead = FALSE
        /\ frozen = FALSE
    BY DEF CaptureInit, Init, BrowserInit, RecorderInit
  <2>2. /\ sentBase = [r \in Ids |-> 0] /\ sentEarly = [r \in Ids |-> 0]
        /\ sentExtra = [r \in Ids |-> [k \in ExtraKinds |-> 0]] /\ clock = FALSE
        /\ ahead = <<>>
    BY DEF CaptureInit, B!BrowserInit, B!ExtraKinds, ExtraKinds
  <2> DEFINE p == [base |-> [r \in Ids |-> 0],
                   extra |-> [r \in Ids |-> [k \in ExtraKinds |-> 0]],
                   early |-> [r \in Ids |-> 0]]
  <2>3. p \in Sights
    BY DEF Sights
  <2>4. Seen = p /\ Position = p
    BY <2>1, <2>2 DEF Seen, Position
  <2>5. <<>> \in Seq(Sights)
    OBVIOUS
  <2> HIDE DEF p
  <2> QED
    BY <1>1, <2>1, <2>2, <2>3, <2>4, <2>5 DEF SightInv, ClocksInv
<1> QED
  BY <1>1, <1>2, <1>3, <1>5, <1>6, <1>7 DEF CaptureInv

\* Steps that leave the chains and the tasks alone.
LEMMA StillRec ==
  ASSUME RecInv, AsksInv, chains' = chains, limitErr' \in BOOLEAN, frozen' \in BOOLEAN,
         frozen => frozen', UNCHANGED <<frozenExtras, orphanCount, postCutoff, dropped>>
  PROVE  RecInv' /\ AsksInv' /\ Wanted' = Wanted
<1>1. Orphans' = Orphans
  BY DEF Orphans, Queued
<1>2. TypeInv' /\ StableInv'
  BY DEF RecInv, TypeInv, StableInv
<1>3. OrphanInv'
  BY <1>1 DEF RecInv, OrphanInv
<1> QED
  BY <1>2, <1>3 DEF RecInv, AsksInv, Wanted

LEMMA StillTasks ==
  ASSUME TasksInv, Wanted' = Wanted, UNCHANGED <<queue, work, answers>>
  PROVE  TasksInv'
  BY DEF TasksInv, InQueue, InHand, Told

\* An event that is handled, wherever it comes from.
LEMMA EventTasks ==
  ASSUME CaptureInv, NEW e \in EventShape, NEW b \in BOOLEAN, HandleEvent(e, b),
         ScheduleLocked, work' = work
  PROVE  /\ RecInv' /\ AsksInv' /\ TasksInv'
         /\ queue' \in Seq(Task) /\ Len(queue') <= QueueSize
         /\ \/ answers' = answers
            \/ \E t \in Task : answers' = answers \cup {Answer(t, 0, FALSE)}
         /\ frozen' = frozen
<1>1. /\ RecInv /\ TypeInv /\ AsksInv /\ TasksInv /\ queue \in Seq(Task)
      /\ Len(queue) <= QueueSize /\ Len(queue) \in Nat /\ QueueSize \in Nat
  BY CaptureAssumption DEF CaptureInv, RecInv, CaptureTypeOK, CaptureAssumption
<1>2. Outcome(e)
  BY <1>1, Outcomes
<1>3. RecInv' /\ TypeInv' /\ frozen' = frozen
  BY <1>1, <1>2, OutcomeKeepsRec, OutcomeKeepsFreeze DEF RecInv
<1>4. /\ e.id \in Ids /\ \A r \in Ids \ {e.id} : chains'[r] = chains[r]
      /\ AskInv(chains'[e.id]) /\ Asked(chains[e.id], chains'[e.id])
  <2>1. AskInv(chains[e.id])
    BY <1>1 DEF AsksInv, EventShape
  <2> QED
    BY <1>1, <1>2, <2>1, OutcomeAsks
<1>5. /\ AsksInv' /\ \A t, u \in NewTasks : t = u
      /\ NewTasks \subseteq Task /\ NewTasks \cap Wanted = {} /\ Wanted' = Wanted \cup NewTasks
  <2> DEFINE r == e.id
  <2>1. /\ r \in Ids /\ \A q \in Ids \ {r} : chains'[q] = chains[q]
        /\ AskInv(chains'[r]) /\ Asked(chains[r], chains'[r])
    BY <1>4
  <2> HIDE DEF r
  <2> QED
    BY <1>1, <1>3, <2>1, TasksOfAChain
<1>6. CASE NewTasks = {}
  <2>1. queue' = queue /\ answers' = answers /\ Wanted' = Wanted
    BY <1>5, <1>6 DEF ScheduleLocked
  <2>2. TasksInv'
    BY <1>1, <2>1, StillTasks
  <2> QED
    BY <1>1, <1>3, <1>5, <2>1, <2>2
<1>7. CASE NewTasks # {}
  <2>1. PICK t \in NewTasks :
          IF Len(queue) < QueueSize
          THEN queue' = Append(queue, t) /\ answers' = answers
          ELSE answers' = answers \cup {Answer(t, 0, FALSE)} /\ queue' = queue
    BY <1>7 DEF ScheduleLocked
  <2>2. t \in Task /\ t \notin Wanted /\ Wanted' = Wanted \cup {t}
    BY <1>5
  <2>3. TasksInv'
    BY <1>1, <2>1, <2>2, PlaceForATask
  <2>4. queue' \in Seq(Task) /\ Len(queue') <= QueueSize
    <3>1. CASE Len(queue) < QueueSize
      <4>1. queue' = Append(queue, t)
        BY <2>1, <3>1
      <4>2. Append(queue, t) \in Seq(Task) /\ Len(Append(queue, t)) = Len(queue) + 1
        BY <1>1, <2>2
      <4> QED
        BY <1>1, <3>1, <4>1, <4>2
    <3>2. CASE ~(Len(queue) < QueueSize)
      BY <1>1, <2>1, <3>2
    <3> QED
      BY <3>1, <3>2
  <2> QED
    BY <1>3, <1>5, <2>1, <2>2, <2>3, <2>4
<1> QED
  BY <1>6, <1>7

\* processEventLocked.
LEMMA ProcessStep ==
  ASSUME CaptureInv, NEW e \in EventShape, NEW b \in BOOLEAN, ProcessEventLocked(e, b),
         work' = work
  PROVE  /\ RecInv' /\ AsksInv' /\ TasksInv'
         /\ queue' \in Seq(Task) /\ Len(queue') <= QueueSize
         /\ \/ answers' = answers
            \/ \E t \in Task : answers' = answers \cup {Answer(t, 0, FALSE)}
         /\ ~accept => UNCHANGED <<queue, answers, chains>>
         /\ frozen' = frozen
<1>1. CASE accept
  BY <1>1, EventTasks DEF ProcessEventLocked
<1>2. CASE ~accept
  <2>1. UNCHANGED recorderVars /\ queue' = queue /\ answers' = answers
    BY <1>2 DEF ProcessEventLocked, Ignore
  <2>2. /\ RecInv /\ AsksInv /\ TasksInv /\ queue \in Seq(Task) /\ Len(queue) <= QueueSize
        /\ limitErr \in BOOLEAN /\ frozen \in BOOLEAN
    BY DEF CaptureInv, CaptureTypeOK, RecInv, TypeInv
  <2>3. RecInv' /\ AsksInv' /\ Wanted' = Wanted
    BY <2>1, <2>2, StillRec DEF recorderVars
  <2>4. TasksInv'
    BY <2>1, <2>2, <2>3, StillTasks
  <2> QED
    BY <2>1, <2>2, <2>3, <2>4 DEF recorderVars
<1> QED
  BY <1>1, <1>2

-----------------------------------------------------------------------------
(* The steps of the listener.                                              *)

\* Errors of a full queue are answers like the others, and not the context's.
LEMMA ErrorsAreTyped ==
  ASSUME CaptureInv, expired' = expired,
         \/ answers' = answers
         \/ \E t \in Task : answers' = answers \cup {Answer(t, 0, FALSE)}
  PROVE  \A a \in answers' : /\ a.task \in Task /\ a.hop \in Nat /\ a.cut \in BOOLEAN
                             /\ a.cut => expired'
<1>1. \A a \in answers : /\ a.task \in Task /\ a.hop \in Nat /\ a.cut \in BOOLEAN
                         /\ a.cut => expired
  BY DEF CaptureInv, CaptureTypeOK, ControlInv
<1>2. \A t \in Task : LET a == Answer(t, 0, FALSE) IN
                      a.task \in Task /\ a.hop \in Nat /\ a.cut = FALSE
  BY DEF Answer
<1> QED
  BY <1>1, <1>2

\* Whatever is delivered, the listener keeps the invariant.
LEMMA ListenStep ==
  ASSUME CaptureInv, NEW e \in EventShape, Listen(e), ~Over, pc # "replay",
         Position' \in Sights, UNCHANGED <<script, clock>>,
         UNCHANGED <<pc, failed, expired, freezing, accept, work, gone>>
  PROVE  CaptureInv'
<1>1. /\ CaptureTypeOK /\ buffer \in Seq(EventShape) /\ RecInv /\ AsksInv /\ TasksInv
      /\ SightInv /\ ControlInv /\ ClocksInv /\ limitErr \in BOOLEAN /\ frozen \in BOOLEAN
      /\ pc \notin {"done", "failed"}
  BY DEF CaptureInv, RecInv, TypeInv, Over
<1>2. CASE accept /\ freezing
  <2>1. /\ queue' = queue /\ answers' = answers
        /\ \/ Ignore /\ buffer' = Append(buffer, e)
           \/ Exceed /\ buffer' = buffer
        /\ See(Seen, Append(ahead, Position'))
    BY <1>2 DEF Listen, Buffer
  <2>2. /\ chains' = chains /\ limitErr' \in BOOLEAN /\ frozen' = frozen
        /\ UNCHANGED <<frozenExtras, orphanCount, postCutoff, dropped>>
        /\ limitErr => limitErr'
    <3>1. CASE Ignore
      BY <1>1, <3>1 DEF Ignore, recorderVars
    <3>2. CASE Exceed
      BY <3>2 DEF Exceed
    <3> QED
      BY <2>1, <3>1, <3>2
  <2>3. RecInv' /\ AsksInv' /\ Wanted' = Wanted
    BY <1>1, <2>2, StillRec
  <2>4. TasksInv'
    BY <1>1, <2>1, <2>3, StillTasks
  <2>5. buffer' \in Seq(EventShape)
    BY <1>1, <2>1
  <2>6. CaptureTypeOK'
    BY <1>1, <2>1 DEF CaptureTypeOK
  <2>7. ControlInv'
    BY <1>1, <1>2, <2>1 DEF ControlInv
  <2>8. SightInv' /\ clockRead' = clockRead
    <3>1. /\ Seen \in Sights /\ ahead \in Seq(Sights) /\ clock' \in BOOLEAN
      BY <1>1 DEF SightInv
    <3>2. /\ Append(ahead, Position') \in Seq(Sights)
          /\ Len(Append(ahead, Position')) = Len(ahead) + 1
          /\ Len(Append(buffer, e)) = Len(buffer) + 1
      BY <1>1, <3>1
    <3>3. ~failed' /\ ~limitErr' => Len(Append(ahead, Position')) = Len(buffer')
      <4>1. ASSUME ~failed, ~limitErr'
            PROVE  Len(ahead) = Len(buffer) /\ buffer' = Append(buffer, e)
        <5>1. ~limitErr
          BY <2>2, <4>1
        <5> QED
          BY <1>1, <2>1, <4>1, <5>1 DEF SightInv, Exceed
      <4> QED
        BY <3>2, <4>1
    <3> QED
      BY <1>1, <2>1, <3>1, <3>2, <3>3, SeeKeeps DEF See
  <2>9. ClocksInv'
    BY <1>1, <2>2, <2>8 DEF ClocksInv
  <2> QED
    BY <2>3, <2>4, <2>5, <2>6, <2>7, <2>8, <2>9 DEF CaptureInv
<1>3. CASE ~(accept /\ freezing)
  <2>1. ProcessEventLocked(e, FALSE) /\ buffer' = buffer /\ See(Position', <<>>)
    BY <1>3 DEF Listen
  <2>2. PICK no \in BOOLEAN : no = FALSE
    OBVIOUS
  <2>3. ProcessEventLocked(e, no)
    BY <2>1, <2>2
  <2>4. /\ RecInv' /\ AsksInv' /\ TasksInv'
        /\ queue' \in Seq(Task) /\ Len(queue') <= QueueSize
        /\ \/ answers' = answers
           \/ \E t \in Task : answers' = answers \cup {Answer(t, 0, FALSE)}
        /\ ~accept => UNCHANGED <<queue, answers, chains>>
        /\ frozen' = frozen
    BY <2>3, ProcessStep
  <2>5. \A a \in answers' : /\ a.task \in Task /\ a.hop \in Nat /\ a.cut \in BOOLEAN
                            /\ a.cut => expired'
    BY <2>4, ErrorsAreTyped
  <2>6. CaptureTypeOK'
    BY <1>1, <2>4, <2>5 DEF CaptureTypeOK
  <2>7. ControlInv'
    BY <1>1, <2>1, <2>4, <2>5 DEF ControlInv
  <2>8. SightInv' /\ clockRead' = clockRead
    <3>1. buffer = <<>>
      BY <1>1, <1>3 DEF ControlInv
    <3>2. <<>> \in Seq(Sights) /\ clock' \in BOOLEAN /\ Len(<<>>) = Len(buffer')
      BY <1>1, <2>1, <3>1 DEF SightInv
    <3> QED
      BY <1>1, <2>1, <3>2, SeeKeeps DEF See
  <2>9. ClocksInv'
    BY <1>1, <2>4, <2>8 DEF ClocksInv
  <2> QED
    BY <1>1, <2>1, <2>4, <2>6, <2>7, <2>8, <2>9 DEF CaptureInv
<1> QED
  BY <1>2, <1>3

\* An event leaves the browser and is listened to.
LEMMA Delivery ==
  ASSUME SightInv, NEW r \in Ids, Deliver(r)
  PROVE  \E e \in EventShape :
           /\ Listen(e) /\ Sends(Position, Position', e) /\ (e.late => clock)
           /\ Position' \in Sights /\ script' = script /\ clock' = clock
<1>1. EnvInv /\ Position \in Sights
  BY SightIsEnv DEF SightInv
<1>2. ASSUME NEW late \in BOOLEAN, B!SendBase(r, late),
             Listen(B!BaseEvent(r, B!NextBase(r), late))
      PROVE  \E e \in EventShape :
               /\ Listen(e) /\ Sends(Position, Position', e) /\ (e.late => clock)
               /\ Position' \in Sights /\ script' = script /\ clock' = clock
  <2> DEFINE e == B!BaseEvent(r, B!NextBase(r), late)
  <2>1. /\ SendsBase(Position, Position', e, r, late) /\ (late => clock)
        /\ script' = script /\ clock' = clock
    BY <1>2, BrowserSends
  <2>2. e.late = late
    BY SameBaseEvent DEF BaseEvent, Event
  <2>3. Listen(e)
    BY <1>2
  <2> HIDE DEF e
  <2>4. Sends(Position, Position', e)
    BY <2>1 DEF Sends
  <2>5. Position' \in Sights /\ e \in EventShape
    BY <1>1, <2>4, SendsType
  <2> QED
    BY <2>1, <2>2, <2>3, <2>4, <2>5
<1>3. ASSUME NEW k \in ExtraKinds, B!SendExtra(r, k), Listen(B!NextExtra(r, k))
      PROVE  \E e \in EventShape :
               /\ Listen(e) /\ Sends(Position, Position', e) /\ (e.late => clock)
               /\ Position' \in Sights /\ script' = script /\ clock' = clock
  <2> DEFINE e == B!NextExtra(r, k)
  <2>1. /\ SendsExtra(Position, Position', e, r, k)
        /\ script' = script /\ clock' = clock
    BY <1>3, BrowserSends
  <2>2. e.late = FALSE
    <3>1. e = ExtraFrom(sentExtra[r][k], r, k)
      BY SameNextExtra
    <3> QED
      BY <3>1, ExtraNeverLate
  <2>3. Listen(e)
    BY <1>3
  <2> HIDE DEF e
  <2>4. Sends(Position, Position', e)
    BY <2>1 DEF Sends
  <2>5. Position' \in Sights /\ e \in EventShape
    BY <1>1, <2>4, SendsType
  <2> QED
    BY <2>1, <2>2, <2>3, <2>4, <2>5
<1> QED
  BY <1>2, <1>3 DEF Deliver

LEMMA DeliverStep ==
  ASSUME CaptureInv, NEW r \in Ids, Deliver(r)
  PROVE  CaptureInv'
<1>1. /\ ~Over /\ pc # "replay"
      /\ UNCHANGED <<pc, failed, expired, freezing, accept, work, gone>>
  BY DEF Deliver
<1>2. PICK e \in EventShape :
        /\ Listen(e) /\ Position' \in Sights /\ script' = script /\ clock' = clock
  BY Delivery DEF CaptureInv
<1> QED
  BY <1>1, <1>2, ListenStep

\* The main goroutine handles what was buffered.
LEMMA ReplayStep ==
  ASSUME CaptureInv, Replay
  PROVE  CaptureInv'
<1>1. /\ CaptureTypeOK /\ buffer \in Seq(EventShape) /\ ControlInv /\ SightInv /\ ClocksInv
      /\ pc = "replay" /\ buffer # <<>> /\ buffer' = Tail(buffer)
      /\ See(IF ahead = <<>> THEN Position ELSE Head(ahead), Tail(ahead))
      /\ UNCHANGED <<sentVars, pc, failed, expired, freezing, accept, work, gone>>
  BY DEF CaptureInv, Replay
<1>2. PICK e \in EventShape : e = Head(buffer)
  BY <1>1
<1>3. PICK yes \in BOOLEAN : yes = TRUE
  OBVIOUS
<1>4. ProcessEventLocked(e, yes)
  BY <1>2, <1>3 DEF Replay
<1>5. /\ RecInv' /\ AsksInv' /\ TasksInv'
      /\ queue' \in Seq(Task) /\ Len(queue') <= QueueSize
      /\ \/ answers' = answers
         \/ \E t \in Task : answers' = answers \cup {Answer(t, 0, FALSE)}
      /\ frozen' = frozen
  BY <1>1, <1>4, ProcessStep
<1>6. \A a \in answers' : /\ a.task \in Task /\ a.hop \in Nat /\ a.cut \in BOOLEAN
                          /\ a.cut => expired'
  BY <1>1, <1>5, ErrorsAreTyped
<1>7. CaptureTypeOK'
  BY <1>1, <1>5, <1>6 DEF CaptureTypeOK
<1>8. ControlInv'
  BY <1>1, <1>5, <1>6 DEF ControlInv
<1>9. SightInv' /\ clockRead' = clockRead
  <2>1. /\ Position' = Position /\ Position \in Sights /\ clock' \in BOOLEAN
        /\ ahead \in Seq(Sights) /\ clockRead' = clockRead
    BY <1>1 DEF SightInv, Position, sentVars, See
  <2>2. CASE ahead = <<>>
    <3>1. limitErr'
      <4>1. Len(buffer) # 0 /\ Len(ahead) = 0 /\ ~failed /\ accept
        BY <1>1, <2>2 DEF ControlInv
      <4>2. limitErr
        BY <1>1, <4>1 DEF SightInv
      <4> QED
        BY <1>4, <4>1, <4>2 DEF ProcessEventLocked, HandleEvent, Ignore, recorderVars
    <3>2. See(Position, <<>>) /\ <<>> \in Seq(Sights)
      BY <1>1, <3>1 DEF See
    <3> QED
      BY <1>1, <2>1, <3>1, <3>2, SeeKeeps
  <2>3. CASE ahead # <<>>
    <3>1. /\ Head(ahead) \in Sights /\ Tail(ahead) \in Seq(Sights)
          /\ Len(Tail(ahead)) = Len(ahead) - 1 /\ Len(Tail(buffer)) = Len(buffer) - 1
      BY <1>1, <2>1, <2>3
    <3>2. See(Head(ahead), Tail(ahead))
      BY <1>1, <2>3
    <3>3. ~failed' /\ ~limitErr' => Len(Tail(ahead)) = Len(buffer')
      <4>1. limitErr => limitErr'
        BY <1>4 DEF ProcessEventLocked, HandleEvent, Ignore, recorderVars
      <4> QED
        BY <1>1, <3>1, <4>1 DEF SightInv
    <3> QED
      BY <1>1, <2>1, <3>1, <3>2, <3>3, SeeKeeps
  <2> QED
    BY <2>1, <2>2, <2>3
<1>10. buffer' \in Seq(EventShape)
  BY <1>1
<1>11. ClocksInv'
  BY <1>1, <1>5, <1>9 DEF ClocksInv, sentVars
<1> QED
  BY <1>5, <1>7, <1>8, <1>9, <1>10, <1>11 DEF CaptureInv

-----------------------------------------------------------------------------
(* The steps of the main goroutine.                                        *)

\* Its passes over the chains find nothing left to pair.
LEMMA PassIsIdle ==
  ASSUME RecInv PROVE [r \in Ids |-> Reconcile(chains[r])] = chains
<1>1. \A r \in Ids : Reconcile(chains[r]) = chains[r]
  BY StableStays DEF RecInv, TypeInv, StableInv
<1> QED
  BY <1>1 DEF RecInv, TypeInv

\* The marks are for the archive alone.
Marks(c, d) ==
  /\ DOMAIN d.entries = DOMAIN c.entries /\ LastHop(d) = LastHop(c) /\ d.pending = c.pending
  /\ \A i \in DOMAIN c.entries :
        /\ d.entries[i].incomplete = Missing(c.entries[i])
        /\ \A f \in DOMAIN c.entries[i] \ {"incomplete"} : d.entries[i][f] = c.entries[i][f]

LEMMA Marked ==
  ASSUME NEW c \in Chain, Stable(c), AskInv(c)
  PROVE  LET d == [c EXCEPT !.entries = [i \in DOMAIN c.entries |->
                     [c.entries[i] EXCEPT !.incomplete = Missing(c.entries[i])]]]
         IN /\ d \in Chain /\ Stable(d) /\ AskInv(d) /\ Marks(c, d)
<1> DEFINE x(i) == [c.entries[i] EXCEPT !.incomplete = Missing(c.entries[i])]
           s == [i \in DOMAIN c.entries |-> x(i)]
           d == [c EXCEPT !.entries = s]
<1>1. c.entries \in Seq(EntryShape) /\ DOMAIN c.entries = 1 .. LastHop(c) /\ LastHop(c) \in Nat
  BY ChainType
<1>2. ASSUME NEW i \in DOMAIN c.entries
      PROVE  /\ x(i) \in EntryShape /\ x(i).asks = c.entries[i].asks
             /\ x(i).scheduled = c.entries[i].scheduled
             /\ x(i).known = c.entries[i].known /\ x(i).expected = c.entries[i].expected
             /\ x(i).extra = c.entries[i].extra
             /\ x(i).incomplete = Missing(c.entries[i])
             /\ \A f \in DOMAIN c.entries[i] \ {"incomplete"} : x(i)[f] = c.entries[i][f]
  <2> DEFINE e == c.entries[i]
  <2>1. e \in EntryShape
    BY EntryOf
  <2>2. Missing(e) \in BOOLEAN
    BY <2>1 DEF Missing, EntryShape
  <2> HIDE DEF e
  <2>3. [e EXCEPT !.incomplete = Missing(e)] \in EntryShape
    BY <2>1, <2>2 DEF EntryShape
  <2>4. x(i) = [e EXCEPT !.incomplete = Missing(e)]
    BY DEF e
  <2> QED
    BY <2>1, <2>3, <2>4 DEF e, EntryShape
<1> HIDE DEF x
<1>3. s \in Seq(EntryShape) /\ Len(s) = LastHop(c) /\ DOMAIN s = DOMAIN c.entries
  BY <1>1, <1>2
<1>4. d = [entries |-> s, pending |-> c.pending] /\ c.pending \in [ExtraKinds -> Seq(Extras)]
  <2>1. c = [entries |-> c.entries, pending |-> c.pending] /\ c.pending \in [ExtraKinds -> Seq(Extras)]
    BY DEF Chain
  <2> HIDE DEF s
  <2> QED
    BY <2>1
<1> HIDE DEF d
<1>5. d \in Chain /\ d.entries = s /\ d.pending = c.pending
  <2> HIDE DEF s
  <2> QED
    BY <1>3, <1>4 DEF Chain
<1>6. DOMAIN d.entries = DOMAIN c.entries /\ LastHop(d) = LastHop(c)
  BY <1>3, <1>5 DEF LastHop
<1>7. \A i \in DOMAIN c.entries : /\ d.entries[i].asks = c.entries[i].asks
                                  /\ d.entries[i].scheduled = c.entries[i].scheduled
                                  /\ d.entries[i].known = c.entries[i].known
                                  /\ d.entries[i].expected = c.entries[i].expected
                                  /\ d.entries[i].extra = c.entries[i].extra
  BY <1>2, <1>5
<1>8. Stable(d)
  BY <1>5, <1>6, <1>7, SameInfo
<1>9. AskInv(d)
  BY <1>5, <1>6, <1>7, NothingAsked
<1>10. Marks(c, d)
  BY <1>2, <1>5, <1>6 DEF Marks
<1> QED
  BY <1>5, <1>8, <1>9, <1>10 DEF d, s, x

LEMMA MarkStep ==
  ASSUME RecInv, AsksInv, MarkMissingExtraInfo
  PROVE  /\ RecInv' /\ AsksInv' /\ Wanted' = Wanted /\ limitErr' = limitErr
         /\ \A r \in Ids : chains'[r] \in Chain /\ Marks(chains[r], chains'[r])
<1> DEFINE D(c) == [c EXCEPT !.entries = [i \in DOMAIN c.entries |->
                     [c.entries[i] EXCEPT !.incomplete = Missing(c.entries[i])]]]
<1>1. /\ chains' = [r \in Ids |-> D(Reconcile(chains[r]))]
      /\ UNCHANGED <<frozen, limitErr, frozenExtras, orphanCount, postCutoff, dropped>>
  BY DEF MarkMissingExtraInfo
<1>2. ASSUME NEW r \in Ids
      PROVE  LET c == chains[r]
                 d == chains'[r]
             IN d \in Chain /\ Stable(d) /\ AskInv(d) /\ Marks(c, d)
  <2> DEFINE c == chains[r]
  <2>1. c \in Chain /\ Stable(c) /\ AskInv(c)
    BY DEF RecInv, TypeInv, StableInv, AsksInv
  <2>2. chains'[r] = D(c)
    BY <1>1, <2>1, StableStays
  <2> HIDE DEF c
  <2>3. D(c) \in Chain /\ Stable(D(c)) /\ AskInv(D(c)) /\ Marks(c, D(c))
    BY <2>1, Marked
  <2> HIDE DEF D
  <2> QED
    BY <2>2, <2>3 DEF c
<1> HIDE DEF D
<1>3. chains' \in [Ids -> Chain]
  BY <1>1, <1>2
<1>4. TypeInv' /\ StableInv' /\ AsksInv'
  BY <1>1, <1>2, <1>3 DEF RecInv, TypeInv, StableInv, AsksInv
<1>5. Orphans' = Orphans
  BY <1>1 DEF Orphans, Queued
<1>6. OrphanInv'
  BY <1>1, <1>2, <1>5 DEF RecInv, OrphanInv, Marks
<1>7. Wanted' = Wanted
  <2>1. \A r \in Ids : \A i \in DOMAIN chains[r].entries : "asks" \in DOMAIN chains[r].entries[i]
    BY EntryOf DEF RecInv, TypeInv, EntryShape
  <2> QED
    BY <1>2, <2>1 DEF Wanted, Marks
<1> QED
  BY <1>1, <1>2, <1>4, <1>6, <1>7 DEF RecInv

LEMMA MainKeeps ==
  ASSUME CaptureInv, MainStep
  PROVE  CaptureInv'
<1>1. /\ CaptureTypeOK /\ buffer \in Seq(EventShape) /\ RecInv /\ SightInv /\ AsksInv
      /\ TasksInv /\ ControlInv /\ ClocksInv /\ limitErr \in BOOLEAN /\ frozen \in BOOLEAN
  BY DEF CaptureInv, RecInv, TypeInv
\* Most steps only move the goroutine on.
<1>2. ASSUME Quiet, CaptureTypeOK', ControlInv', ClocksInv', UNCHANGED <<failed, buffer>>
      PROVE  CaptureInv'
  <2>1. UNCHANGED <<seenVars, recorderVars, sentVars, queue, work, gone, answers>>
    BY <1>2 DEF Quiet
  <2>2. RecInv' /\ AsksInv' /\ Wanted' = Wanted
    BY <1>1, <2>1, StillRec DEF recorderVars
  <2>3. TasksInv'
    BY <1>1, <2>1, <2>2, StillTasks
  <2>4. SightInv'
    BY <1>1, <1>2, <2>1, SightStill DEF recorderVars
  <2> QED
    BY <1>1, <1>2, <2>2, <2>3, <2>4 DEF CaptureInv
<1>3. ASSUME BeginFreeze \/ Replayed \/ StopTasks \/ Finish
      PROVE  CaptureInv'
  <2>1. Quiet /\ UNCHANGED <<failed, buffer>>
    BY <1>3 DEF BeginFreeze, Replayed, StopTasks, Finish
  <2>2. CaptureTypeOK'
    BY <1>1, <1>3 DEF BeginFreeze, Replayed, StopTasks, Finish, Main, Quiet, CaptureTypeOK
  <2>3. ControlInv'
    BY <1>1, <1>3 DEF BeginFreeze, Replayed, StopTasks, Finish, Main, Quiet, ControlInv,
                      recorderVars, Broken
  <2>4. ClocksInv'
    BY <1>1, <1>3 DEF BeginFreeze, Replayed, StopTasks, Finish, Main, Quiet, ClocksInv,
                      recorderVars, seenVars, browserVars, sentVars
  <2> QED
    BY <1>2, <2>1, <2>2, <2>3, <2>4
<1>4. CASE RunFails
  <2>1. /\ UNCHANGED <<recorderVars, sentVars, expired, accept, queue, work, gone, answers>>
        /\ pc \in {"run", "metrics", "cutoff"} /\ pc' = "stop" /\ failed' = TRUE
        /\ freezing' = FALSE /\ buffer' = <<>> /\ See(Position, <<>>)
    BY <1>4 DEF RunFails
  <2>2. RecInv' /\ AsksInv' /\ Wanted' = Wanted
    BY <1>1, <2>1, StillRec DEF recorderVars
  <2>3. TasksInv'
    BY <1>1, <2>1, <2>2, StillTasks
  <2>4. SightInv' /\ clockRead' = clockRead
    <3>1. /\ Position' = Position /\ Position \in Sights /\ clock' \in BOOLEAN
      BY <1>1, <2>1 DEF SightInv, Position, sentVars
    <3>2. <<>> \in Seq(Sights)
      OBVIOUS
    <3> QED
      BY <1>1, <2>1, <3>1, <3>2, SeeKeeps DEF See
  <2>5. CaptureTypeOK' /\ buffer' \in Seq(EventShape)
    <3>1. <<>> \in Seq(EventShape)
      OBVIOUS
    <3> QED
      BY <1>1, <2>1, <3>1 DEF CaptureTypeOK
  <2>6. ControlInv'
    BY <1>1, <2>1 DEF ControlInv, recorderVars
  <2>7. ClocksInv'
    BY <1>1, <2>1, <2>4 DEF ClocksInv, recorderVars, sentVars
  <2> QED
    BY <2>2, <2>3, <2>4, <2>5, <2>6, <2>7 DEF CaptureInv
<1>5. CASE MetricsRead
  <2>1. /\ pc = "metrics" /\ pc' = "cutoff" /\ clock' = TRUE
        /\ UNCHANGED <<sentBase, sentExtra, sentEarly, seenVars, recorderVars, failed,
                       expired, freezing, accept, buffer, queue, work, gone, answers>>
    BY <1>5 DEF MetricsRead, Main, B!ReadClock
  <2>2. RecInv' /\ AsksInv' /\ Wanted' = Wanted
    BY <1>1, <2>1, StillRec DEF recorderVars
  <2>3. TasksInv'
    BY <1>1, <2>1, <2>2, StillTasks
  <2>4. SightInv'
    BY <1>1, <2>1 DEF SightInv, seenVars, browserVars, recorderVars, Seen, Position
  <2>5. CaptureTypeOK'
    BY <1>1, <2>1 DEF CaptureTypeOK
  <2>6. ControlInv'
    BY <1>1, <2>1 DEF ControlInv, recorderVars
  <2>7. ClocksInv'
    BY <1>1, <2>1 DEF ClocksInv, seenVars, browserVars, recorderVars
  <2> QED
    BY <1>1, <2>1, <2>2, <2>3, <2>4, <2>5, <2>6, <2>7 DEF CaptureInv
<1>6. ASSUME Cutoff \/ WaitForExtraInfo
      PROVE  CaptureInv'
  <2>1. /\ chains' = chains /\ frozen' \in BOOLEAN /\ (frozen => frozen')
        /\ UNCHANGED <<limitErr, frozenExtras, orphanCount, postCutoff, dropped>>
        /\ UNCHANGED <<script, baseAt, extraAt, earlyAt, ahead, sentVars>>
        /\ UNCHANGED <<failed, expired, accept, buffer, queue, work, gone, answers>>
        /\ freezing' \in BOOLEAN
        /\ \/ pc = "cutoff" /\ pc' = "replay" /\ freezing' = FALSE
              /\ frozen' = TRUE /\ clockRead' = TRUE
           \/ pc = "drain" /\ pc' = "stop" /\ freezing' = freezing
              /\ frozen' = frozen /\ clockRead' = clockRead
    <3>1. [r \in Ids |-> Reconcile(chains[r])] = chains
      BY <1>1, PassIsIdle
    <3>2. freezing \in BOOLEAN
      BY <1>1 DEF CaptureTypeOK
    <3> QED
      BY <1>1, <1>6, <3>1, <3>2 DEF Cutoff, WaitForExtraInfo, Main, FreezeAtMonotonic, ReadClock,
                                    seenVars, browserVars
  <2>2. RecInv' /\ AsksInv' /\ Wanted' = Wanted
    BY <1>1, <2>1, StillRec
  <2>3. TasksInv'
    BY <1>1, <2>1, <2>2, StillTasks
  <2>4. SightInv'
    <3>1. clockRead' \in BOOLEAN
      BY <1>1, <2>1 DEF SightInv
    <3> QED
      BY <1>1, <2>1, <3>1 DEF SightInv, sentVars, Seen, Position
  <2>5. CaptureTypeOK'
    BY <1>1, <2>1 DEF CaptureTypeOK
  <2>6. ControlInv'
    BY <1>1, <2>1 DEF ControlInv
  <2>7. ClocksInv'
    BY <1>1, <2>1 DEF ClocksInv, sentVars
  <2> QED
    BY <1>1, <2>1, <2>2, <2>3, <2>4, <2>5, <2>6, <2>7 DEF CaptureInv
<1>7. CASE Replay
  BY <1>7, ReplayStep
<1>8. CASE TasksStopped
  <2>1. /\ gone = Workers /\ pc = "wait"
        /\ \/ pc' = "failed" /\ UNCHANGED recorderVars
           \/ pc' = "mark" /\ ~failed /\ MarkMissingExtraInfo
        /\ UNCHANGED <<seenVars, sentVars, failed, expired, freezing, accept, buffer, queue,
                       work, gone, answers>>
    BY <1>8 DEF TasksStopped, TasksDone, Main, Mark
  <2>2. RecInv' /\ AsksInv' /\ Wanted' = Wanted /\ limitErr' = limitErr /\ frozen' = frozen
    <3>1. CASE UNCHANGED recorderVars
      BY <1>1, <3>1, StillRec DEF recorderVars
    <3>2. CASE MarkMissingExtraInfo
      BY <1>1, <3>2, MarkStep DEF MarkMissingExtraInfo
    <3> QED
      BY <2>1, <3>1, <3>2
  <2>3. TasksInv'
    BY <1>1, <2>1, <2>2, StillTasks
  <2>4. SightInv'
    BY <1>1, <2>1, <2>2, SightStill
  <2>5. CaptureTypeOK'
    BY <1>1, <2>1 DEF CaptureTypeOK
  <2>6. ControlInv'
    BY <1>1, <2>1, <2>2 DEF ControlInv
  <2>7. ClocksInv'
    BY <1>1, <2>1, <2>2 DEF ClocksInv, seenVars, browserVars, sentVars
  <2> QED
    BY <1>1, <2>1, <2>2, <2>3, <2>4, <2>5, <2>6, <2>7 DEF CaptureInv
<1> QED
  BY <1>3, <1>4, <1>5, <1>6, <1>7, <1>8 DEF MainStep

-----------------------------------------------------------------------------
(* The steps of the workers.                                               *)

LEMMA WorkerKeeps ==
  ASSUME CaptureInv, NEW w \in Workers, WorkerStep(w)
  PROVE  CaptureInv'
<1>1. /\ CaptureTypeOK /\ buffer \in Seq(EventShape) /\ RecInv /\ SightInv /\ AsksInv
      /\ TasksInv /\ ControlInv /\ ClocksInv /\ limitErr \in BOOLEAN /\ frozen \in BOOLEAN
      /\ queue \in Seq(Task) /\ work \in [Workers -> Task \cup {NoTask}]
      /\ Len(queue) <= QueueSize /\ Len(queue) \in Nat /\ QueueSize \in Nat
  BY CaptureAssumption DEF CaptureInv, RecInv, TypeInv, CaptureTypeOK, CaptureAssumption
<1>2. /\ w \notin gone
      /\ UNCHANGED <<sentVars, pc, failed, expired, freezing, accept, buffer>>
  BY DEF WorkerStep, Take, Fetch, Leave, Worker
\* Only a body that exceeds a limit is noticed by the recorder.
<1>3. ASSUME frozen' = frozen, clockRead' = clockRead
      PROVE  ClocksInv' /\ buffer' \in Seq(EventShape)
  BY <1>1, <1>2, <1>3 DEF ClocksInv, sentVars
<1>7. ASSUME UNCHANGED <<seenVars, recorderVars>>
      PROVE  SightInv' /\ ClocksInv' /\ buffer' \in Seq(EventShape)
  BY <1>1, <1>2, <1>3, <1>7, SightStill DEF recorderVars, seenVars, browserVars
<1>4. CASE Take(w)
  <2>1. /\ queue # <<>> /\ work[w] = NoTask /\ work' = [work EXCEPT ![w] = Head(queue)]
        /\ queue' = Tail(queue) /\ UNCHANGED <<seenVars, recorderVars, gone, answers>>
    BY <1>4 DEF Take, Worker
  <2>2. RecInv' /\ AsksInv' /\ Wanted' = Wanted
    BY <1>1, <2>1, StillRec DEF recorderVars
  <2>3. TasksInv'
    BY <1>1, <2>1, <2>2, TaskTaken
  <2>4. Head(queue) \in Task /\ Tail(queue) \in Seq(Task) /\ Len(Tail(queue)) = Len(queue) - 1
    BY <1>1, <2>1
  <2>5. CaptureTypeOK'
    <3>1. queue' \in Seq(Task) /\ Len(queue') <= QueueSize
      BY <1>1, <2>1, <2>4
    <3>2. work' \in [Workers -> Task \cup {NoTask}]
      BY <1>1, <2>1, <2>4
    <3> QED
      BY <1>1, <1>2, <2>1, <3>1, <3>2 DEF CaptureTypeOK
  <2>6. ControlInv'
    <3>1. gone = {}
      BY <1>1, <2>1 DEF ControlInv
    <3> QED
      BY <1>1, <1>2, <2>1, <3>1 DEF ControlInv, recorderVars
  <2> QED
    BY <1>7, <2>1, <2>2, <2>3, <2>5, <2>6 DEF CaptureInv
<1>5. CASE Fetch(w)
  <2>1. /\ work[w] # NoTask /\ work' = [work EXCEPT ![w] = NoTask]
        /\ queue' = queue /\ gone' = gone
    BY <1>5 DEF Fetch, Worker
  <2>2. PICK hop \in Nat, cut \in BOOLEAN :
          /\ answers' = answers \cup {Answer(work[w], hop, cut)}
          /\ cut => expired
    <3>1. CASE Exceed /\ answers' = answers \cup {Answer(work[w], 0, FALSE)}
      <4>1. PICK hop \in Nat : hop = 0
        OBVIOUS
      <4>2. PICK cut \in BOOLEAN : cut = FALSE
        OBVIOUS
      <4>3. answers' = answers \cup {Answer(work[w], hop, cut)}
        BY <3>1, <4>1, <4>2
      <4> QED
        BY <4>2, <4>3
    <3>2. ASSUME NEW hop \in {0} \cup B!BodyHops(work[w].id),
                 answers' = answers \cup {Answer(work[w], hop, hop = 0 /\ expired)}
          PROVE  \E h \in Nat, cut \in BOOLEAN :
                   /\ answers' = answers \cup {Answer(work[w], h, cut)}
                   /\ cut => expired
      <4>1. hop \in Nat
        <5> DEFINE r == work[w].id
        <5>1. r \in Ids
          BY <1>1, <2>1 DEF Task
        <5>2. sentBase[r] \in Nat /\ Length(r) \in Nat
          <6>1. Position.base \in [Ids -> Nat]
            BY <1>1 DEF SightInv, Sights
          <6> QED
            BY <1>1, <5>1, <6>1, SightIsEnv, ScriptOf DEF Position
        <5> HIDE DEF r
        <5>3. B!ReachedHop(r) \in Nat
          <6>1. CASE sentBase[r] = 0
            BY <6>1 DEF B!ReachedHop
          <6>2. CASE sentBase[r] # 0
            <7>1. sentBase[r] - 1 \in Nat
              BY <5>2, <6>2
            <7> QED
              BY <6>2, <7>1, PlaceOf DEF B!ReachedHop, B!HopOf, HopOf
          <6> QED
            BY <6>1, <6>2
        <5>4. B!BodyHops(r) \subseteq Nat
          BY <5>2, <5>3 DEF B!BodyHops, Length
        <5> QED
          BY <5>4 DEF r
      <4>2. (hop = 0 /\ expired) \in BOOLEAN
        OBVIOUS
      <4> QED
        BY <3>2, <4>1, <4>2
    <3> QED
      BY <1>5, <3>1, <3>2 DEF Fetch
  <2>3. /\ chains' = chains /\ frozen' = frozen /\ limitErr' \in BOOLEAN
        /\ UNCHANGED <<frozenExtras, orphanCount, postCutoff, dropped>>
        /\ limitErr => limitErr'
    <3>1. CASE Ignore
      BY <1>1, <3>1 DEF Ignore, recorderVars
    <3>2. CASE Exceed
      BY <3>2 DEF Exceed
    <3> QED
      BY <1>5, <3>1, <3>2 DEF Fetch
  <2>4. RecInv' /\ AsksInv' /\ Wanted' = Wanted
    BY <1>1, <2>3, StillRec
  <2>5. TasksInv'
    BY <1>1, <2>1, <2>2, <2>4, TaskAnswered
  <2>6. \A a \in answers' : /\ a.task \in Task /\ a.hop \in Nat /\ a.cut \in BOOLEAN
                            /\ a.cut => expired
    <3>1. LET a == Answer(work[w], hop, cut) IN
          a.task \in Task /\ a.hop \in Nat /\ a.cut \in BOOLEAN /\ (a.cut => expired)
      BY <1>1, <2>1, <2>2 DEF Answer
    <3>2. \A a \in answers : /\ a.task \in Task /\ a.hop \in Nat /\ a.cut \in BOOLEAN
                             /\ a.cut => expired
      BY <1>1 DEF CaptureTypeOK, ControlInv
    <3> QED
      BY <2>2, <3>1, <3>2
  <2>7. CaptureTypeOK'
    <3>1. work' \in [Workers -> Task \cup {NoTask}]
      BY <1>1, <2>1
    <3> QED
      BY <1>1, <1>2, <2>1, <2>6, <3>1 DEF CaptureTypeOK
  <2>8. ControlInv'
    <3>1. gone # Workers /\ pc # "done"
      BY <1>1, <1>2 DEF ControlInv
    <3>2. \A v \in gone : work'[v] = NoTask
      BY <1>1, <2>1 DEF ControlInv, CaptureTypeOK
    <3> QED
      BY <1>1, <1>2, <2>1, <2>6, <3>1, <3>2 DEF ControlInv
  <2>9. SightInv' /\ clockRead' = clockRead
    <3>1. /\ Seen \in Sights /\ ahead \in Seq(Sights) /\ clock' \in BOOLEAN
          /\ Position' \in Sights /\ See(Seen, ahead)
      BY <1>1, <1>2, <1>5 DEF SightInv, Position, sentVars, Fetch
    <3>2. ~failed' /\ ~limitErr' => Len(ahead) = Len(buffer')
      BY <1>1, <1>2, <2>3 DEF SightInv
    <3> QED
      BY <1>1, <3>1, <3>2, SeeKeeps DEF See
  <2> QED
    BY <1>3, <2>3, <2>4, <2>5, <2>7, <2>8, <2>9 DEF CaptureInv
<1>6. CASE Leave(w)
  <2>1. /\ work[w] = NoTask /\ queue = <<>> /\ ~accept
        /\ work' = [work EXCEPT ![w] = NoTask] /\ gone' = gone \cup {w}
        /\ UNCHANGED <<seenVars, recorderVars, queue, answers>>
    BY <1>6 DEF Leave, Worker
  <2>2. work' = work
    BY <1>1, <2>1
  <2>3. RecInv' /\ AsksInv' /\ Wanted' = Wanted
    BY <1>1, <2>1, StillRec DEF recorderVars
  <2>4. TasksInv'
    BY <1>1, <2>1, <2>2, <2>3, StillTasks
  <2>5. CaptureTypeOK'
    BY <1>1, <1>2, <2>1, <2>2 DEF CaptureTypeOK
  <2>6. ControlInv'
    BY <1>1, <1>2, <2>1, <2>2, <2>5 DEF ControlInv, recorderVars, CaptureTypeOK
  <2> QED
    BY <1>7, <2>1, <2>3, <2>4, <2>5, <2>6 DEF CaptureInv
<1> QED
  BY <1>4, <1>5, <1>6 DEF WorkerStep

-----------------------------------------------------------------------------
(* The theorems.                                                           *)

LEMMA CaptureStep ==
  ASSUME CaptureInv, [CaptureNext]_captureVars
  PROVE  CaptureInv'
<1>1. /\ CaptureTypeOK /\ buffer \in Seq(EventShape) /\ RecInv /\ SightInv /\ AsksInv
      /\ TasksInv /\ ControlInv /\ ClocksInv /\ limitErr \in BOOLEAN /\ frozen \in BOOLEAN
  BY DEF CaptureInv, RecInv, TypeInv
<1>2. ASSUME Expire \/ UNCHANGED captureVars
      PROVE  CaptureInv'
  <2>1. /\ UNCHANGED <<seenVars, recorderVars, sentVars, pc, failed, freezing, accept, buffer,
                       queue, work, gone, answers>>
        /\ expired' = expired \/ (expired' = TRUE /\ pc # "done")
    BY <1>2 DEF Expire, Over, Quiet, captureVars, controlVars
  <2>2. RecInv' /\ AsksInv' /\ Wanted' = Wanted
    BY <1>1, <2>1, StillRec DEF recorderVars
  <2>3. TasksInv'
    BY <1>1, <2>1, <2>2, StillTasks
  <2>4. SightInv'
    BY <1>1, <2>1, SightStill DEF recorderVars
  <2>5. CaptureTypeOK'
    BY <1>1, <2>1 DEF CaptureTypeOK
  <2>6. ControlInv'
    BY <1>1, <2>1 DEF ControlInv, recorderVars
  <2>7. ClocksInv'
    BY <1>1, <2>1 DEF ClocksInv, recorderVars, seenVars, browserVars, sentVars
  <2> QED
    BY <1>1, <2>1, <2>2, <2>3, <2>4, <2>5, <2>6, <2>7 DEF CaptureInv
<1>3. ASSUME NEW r \in Ids, Deliver(r)
      PROVE  CaptureInv'
  BY <1>3, DeliverStep
<1>4. ASSUME NEW w \in Workers, WorkerStep(w)
      PROVE  CaptureInv'
  BY <1>4, WorkerKeeps
<1>5. CASE MainStep
  BY <1>5, MainKeeps
<1> QED
  BY <1>2, <1>3, <1>4, <1>5 DEF CaptureNext

\* The invariant behind the other theorems is inductive: however the listener,
\* the main goroutine and the workers interleave.
THEOREM CaptureInductive == CaptureSpec => []CaptureInv
<1>1. CaptureInit => CaptureInv
  BY CaptureInitInv
<1>2. CaptureInv /\ [CaptureNext]_captureVars => CaptureInv'
  BY CaptureStep
<1> QED
  BY <1>1, <1>2, PTL DEF CaptureSpec

\* Every fetch task that scheduleLocked makes is in the queue, with one worker,
\* or answered once, and all are answered when the archive is built.
THEOREM TasksAreAccounted == CaptureSpec => []TasksAccounted
<1>1. ASSUME CaptureInv
      PROVE  TasksAccounted
  <2>1. /\ CaptureTypeOK /\ TasksInv /\ ControlInv /\ AsksInv /\ TypeInv
        /\ queue \in Seq(Task) /\ work \in [Workers -> Task \cup {NoTask}]
    BY <1>1 DEF CaptureInv, RecInv, CaptureTypeOK
  <2>2. ASSUME NEW r \in Ids, NEW i \in Entries(r)
        PROVE  LET t == [id |-> r, entry |-> i]
                   answered == Cardinality({a \in answers : a.task = t})
                   pending == Cardinality({n \in DOMAIN queue : queue[n] = t})
                              + Cardinality({w \in Workers : work[w] = t})
               IN /\ chains[r].entries[i].asks = answered + pending
                  /\ pc \in {"mark", "done"} => pending = 0
    <3> DEFINE t == [id |-> r, entry |-> i]
               A == {a \in answers : a.task = t}
               Q == {n \in DOMAIN queue : queue[n] = t}
               W == {w \in Workers : work[w] = t}
               n == chains[r].entries[i].asks
    <3>1. t \in Task /\ t # NoTask
      <4>1. chains[r] \in Chain /\ i \in DOMAIN chains[r].entries
        BY <2>1, <2>2 DEF TypeInv, Entries
      <4>2. i \in Nat \ {0}
        BY <4>1, ChainType
      <4>3. t \in Task
        BY <4>2 DEF Task
      <4> QED
        BY <4>3, NoTaskIsNone
    <3>2. n \in {0, 1} /\ (n = 1 <=> t \in Wanted)
      BY <2>1, <2>2, <3>1 DEF AsksInv, AskInv, Entries, Wanted
    <3> HIDE DEF t, n
    <3>3. /\ t \in InQueue <=> Q # {}
          /\ t \in InHand <=> W # {}
          /\ t \in Told <=> A # {}
      BY <3>1 DEF InQueue, InHand, Told
    <3>4. /\ \A x, y \in Q : x = y
          /\ \A x, y \in W : x = y
          /\ \A x, y \in A : x = y
      BY <2>1, <3>1 DEF TasksInv
    <3>5. \A S : (\A x, y \in S : x = y) => Cardinality(S) = IF S = {} THEN 0 ELSE 1
      <4>1. ASSUME NEW S, \A x, y \in S : x = y, S # {}
            PROVE  Cardinality(S) = 1
        <5>1. PICK x \in S : S = {x}
          BY <4>1
        <5> QED
          BY <5>1, FS_Singleton
      <4> QED
        BY <4>1, FS_EmptySet
    <3>6. /\ Cardinality(Q) = IF Q = {} THEN 0 ELSE 1
          /\ Cardinality(W) = IF W = {} THEN 0 ELSE 1
          /\ Cardinality(A) = IF A = {} THEN 0 ELSE 1
      BY <3>4, <3>5
    <3>7. n = Cardinality(A) + (Cardinality(Q) + Cardinality(W))
      BY <2>1, <3>2, <3>3, <3>6 DEF TasksInv
    <3>8. pc \in {"mark", "done"} => Q = {} /\ W = {}
      <4>1. ASSUME pc \in {"mark", "done"}
            PROVE  gone = Workers /\ gone # {}
        BY <2>1, <4>1, CaptureAssumption DEF ControlInv, CaptureAssumption
      <4> QED
        BY <2>1, <3>1, <4>1 DEF ControlInv
    <3> QED
      BY <3>6, <3>7, <3>8 DEF t, n
  <2> QED
    BY <2>1, <2>2 DEF TasksAccounted
<1> QED
  BY <1>1, CaptureInductive, PTL

\* Once stopAndWaitForTasks has closed the queue, nothing is sent on it, and
\* only the main goroutine touches the chains.
THEOREM StoppedIsStopped == CaptureSpec => NothingAfterStop
<1> DEFINE A == ~accept => /\ Len(queue') <= Len(queue)
                           /\ chains' # chains => pc = "wait"
<1>1. ASSUME CaptureInv, [CaptureNext]_captureVars
      PROVE  A
  <2>1. SUFFICES ASSUME ~accept PROVE Len(queue') <= Len(queue) /\ (chains' # chains => pc = "wait")
    OBVIOUS
  <2>2. /\ CaptureTypeOK /\ queue \in Seq(Task) /\ Len(queue) \in Nat
        /\ pc \in {"wait", "mark", "done", "failed"}
    BY <1>1, <2>1 DEF CaptureInv, CaptureTypeOK, ControlInv
  <2>3. ASSUME NEW r \in Ids, Deliver(r)
        PROVE  queue' = queue /\ chains' = chains
    BY <2>1, <2>3 DEF Deliver, Listen, ProcessEventLocked, Ignore, recorderVars
  <2>4. ASSUME NEW w \in Workers, WorkerStep(w)
        PROVE  chains' = chains /\ Len(queue') <= Len(queue)
    <3>1. chains' = chains /\ (queue' = queue \/ (queue # <<>> /\ queue' = Tail(queue)))
      BY <2>4 DEF WorkerStep, Take, Fetch, Leave, Worker, Ignore, Exceed, recorderVars
    <3> QED
      BY <2>2, <3>1
  <2>5. ASSUME MainStep
        PROVE  queue' = queue /\ (chains' # chains => pc = "wait")
    BY <2>2, <2>5 DEF MainStep, BeginFreeze, MetricsRead, Cutoff, Replay, Replayed, RunFails,
                      WaitForExtraInfo, StopTasks, TasksStopped, Finish, Main, Quiet,
                      recorderVars
  <2>6. ASSUME Expire \/ UNCHANGED captureVars
        PROVE  queue' = queue /\ chains' = chains
    BY <2>6 DEF Expire, Quiet, captureVars, controlVars, recorderVars
  <2> QED
    BY <1>1, <2>2, <2>3, <2>4, <2>5, <2>6 DEF CaptureNext
<1> QED
  BY <1>1, CaptureInductive, PTL DEF NothingAfterStop, CaptureSpec

\* No archive is written of a capture that a limit, a failure or the expired
\* context has cut short, even if it was one body that was cut.
THEOREM ArchivesAreWhole == CaptureSpec => []NoPartialArchive
<1>1. CaptureInv => NoPartialArchive
  BY DEF CaptureInv, ControlInv, NoPartialArchive
<1> QED
  BY <1>1, CaptureInductive, PTL

-----------------------------------------------------------------------------
(* The buffer and the replay, seen from the recorder.                      *)

\* May the capture still become an archive and does it still listen?
Live == accept /\ ~failed /\ ~limitErr

\* Where the recorder will have seen the browser after n buffered events.
At(n) == IF n = 0 THEN Seen ELSE ahead[n]

\* The buffer holds, in order, the events that the browser has sent since.
AheadInv ==
  /\ Len(ahead) = Len(buffer)
  /\ \A n \in DOMAIN buffer : /\ Sends(At(n - 1), At(n), buffer[n])
                              /\ buffer[n].late => clock
  /\ Position = At(Len(buffer))
  /\ \A n \in 0 .. Len(buffer), r \in Ids : At(n).base[r] <= sentBase[r]

\* What the browser sends next depends on its position and the lives alone.
LEMMA SendsStay ==
  ASSUME script' = script
  PROVE  \A p, q, e : Sends(p, q, e)' <=> Sends(p, q, e)
<1>1. \A r, m : ComingFrom(m, r)' = ComingFrom(m, r)
  BY DEF ComingFrom
<1>2. \A r, m : NextFrom(m, r)' = NextFrom(m, r)
  BY <1>1 DEF NextFrom
<1>3. \A r, b, late : BaseEvent(r, b, late)' = BaseEvent(r, b, late)
  BY DEF BaseEvent, Event, Says
<1>4. \A r, k : ExtraHops(r, k)' = ExtraHops(r, k)
  BY DEF ExtraHops
<1>5. \A m, r, k : ExtraFrom(m, r, k)' = ExtraFrom(m, r, k)
  <2>1. \A r, k, h : ExtraEvent(r, k, h)' = ExtraEvent(r, k, h)
    BY DEF ExtraEvent, Event
  <2> QED
    BY <1>4, <2>1 DEF ExtraFrom
<1>6. \A p, q, e, r, late : SendsBase(p, q, e, r, late)' <=> SendsBase(p, q, e, r, late)
  BY <1>1, <1>2, <1>3 DEF SendsBase
<1>7. \A p, q, e, r, k : SendsExtra(p, q, e, r, k)' <=> SendsExtra(p, q, e, r, k)
  BY <1>4, <1>5 DEF SendsExtra
<1> QED
  BY <1>6, <1>7 DEF Sends

\* An event that the recorder handles where it has seen the browser is one of
\* its own steps.
LEMMA ToRecorder ==
  ASSUME SightInv, NEW e, NEW b \in BOOLEAN, b => frozen, HandleEvent(e, b),
         Sends(Seen, Seen', e), e.late => clockRead, UNCHANGED <<script, clockRead>>
  PROVE  Next
<1>1. PICK r \in Ids : \/ \E late \in BOOLEAN : SendsBase(Seen, Seen', e, r, late)
                       \/ \E k \in ExtraKinds : SendsExtra(Seen, Seen', e, r, k)
  BY DEF Sends
<1>2. /\ Seen.base = baseAt /\ Seen.extra = extraAt /\ Seen.early = earlyAt
      /\ Seen'.base = baseAt' /\ Seen'.extra = extraAt' /\ Seen'.early = earlyAt'
  BY DEF Seen
<1>3. ASSUME NEW late \in BOOLEAN, SendsBase(Seen, Seen', e, r, late)
      PROVE  BaseArrives(r)
  <2>1. Coming(r) = ComingFrom(baseAt[r], r) /\ NextBase(r) = NextFrom(baseAt[r], r)
    BY DEF Coming, ComingFrom, NextBase, NextFrom
  <2>2. /\ Coming(r) # {} /\ (earlyAt[r] < baseAt[r] => late)
        /\ e = BaseEvent(r, NextBase(r), late)
        /\ Seen' = [base  |-> [baseAt EXCEPT ![r] = NextBase(r) + 1], extra |-> extraAt,
                    early |-> IF late THEN earlyAt
                              ELSE [earlyAt EXCEPT ![r] = NextBase(r) + 1]]
    BY <1>2, <1>3, <2>1 DEF SendsBase
  <2>3. late => clockRead
    <3>1. e.late = late
      BY <2>2 DEF BaseEvent, Event
    <3> QED
      BY <3>1
  <2>4. SendBase(r, late)
    BY <1>2, <2>2, <2>3 DEF SendBase
  <2> QED
    BY <2>2, <2>4 DEF BaseArrives
<1>4. ASSUME NEW k \in ExtraKinds, SendsExtra(Seen, Seen', e, r, k)
      PROVE  ExtraArrives(r)
  <2>1. /\ extraAt[r][k] < Cardinality(ExtraHops(r, k))
        /\ k = "response" => extraAt[r]["response"] < extraAt[r]["request"]
        /\ e = NextExtra(r, k)
        /\ Seen' = [Seen EXCEPT !.extra = [extraAt EXCEPT ![r][k] = @ + 1]]
    BY <1>2, <1>4 DEF SendsExtra, ExtraFrom, NextExtra
  <2>2. /\ extraAt' = [extraAt EXCEPT ![r][k] = @ + 1]
        /\ baseAt' = baseAt /\ earlyAt' = earlyAt
    BY <1>2, <2>1 DEF Seen
  <2>3. SendExtra(r, k)
    BY <2>1, <2>2 DEF SendExtra
  <2> QED
    BY <2>1, <2>3 DEF ExtraArrives
<1> QED
  BY <1>1, <1>3, <1>4 DEF Next

\* What is broken or closed stays so.
LEMMA BrokenStays ==
  ASSUME CaptureInv, [CaptureNext]_captureVars
  PROVE  /\ (failed => failed') /\ (limitErr => limitErr') /\ (~accept => ~accept')
         /\ script' = script
<1>1. ASSUME NEW e, NEW b, HandleEvent(e, b)
      PROVE  limitErr => limitErr'
  BY <1>1 DEF HandleEvent, Ignore, recorderVars
<1>2. \A e, b : ProcessEventLocked(e, b) => (limitErr => limitErr')
  BY <1>1 DEF ProcessEventLocked, Ignore, recorderVars
<1>3. \A e : Listen(e) => script' = script /\ (limitErr => limitErr')
  BY <1>2 DEF Listen, Buffer, Ignore, Exceed, See, recorderVars
<1>4. ASSUME NEW r \in Ids, Deliver(r)
      PROVE  failed' = failed /\ accept' = accept /\ script' = script /\ (limitErr => limitErr')
  BY <1>3, <1>4 DEF Deliver
<1>5. ASSUME NEW w \in Workers, WorkerStep(w)
      PROVE  failed' = failed /\ accept' = accept /\ script' = script /\ (limitErr => limitErr')
  <2>1. CASE Take(w) \/ Leave(w)
    BY <2>1 DEF Take, Leave, Worker, recorderVars, seenVars, browserVars
  <2>2. CASE Fetch(w)
    <3>1. Ignore \/ Exceed
      BY <2>2 DEF Fetch
    <3>2. UNCHANGED <<failed, accept>> /\ See(Seen, ahead)
      BY <2>2 DEF Fetch, Worker
    <3> QED
      BY <3>1, <3>2 DEF Ignore, Exceed, recorderVars, See
  <2> QED
    BY <1>5, <2>1, <2>2 DEF WorkerStep
<1>6. ASSUME MainStep
      PROVE  /\ (failed => failed') /\ (limitErr => limitErr') /\ (~accept => ~accept')
             /\ script' = script
  <2>1. CASE Replay
    BY <1>2, <2>1 DEF Replay, See
  <2>2. CASE RunFails
    BY <2>2 DEF RunFails, See, recorderVars
  <2>3. CASE BeginFreeze \/ Replayed \/ StopTasks \/ Finish
    BY <2>3 DEF BeginFreeze, Replayed, StopTasks, Finish, Quiet, seenVars, browserVars,
                recorderVars
  <2>4. CASE MetricsRead \/ Cutoff \/ WaitForExtraInfo \/ TasksStopped
    BY <2>4 DEF MetricsRead, Cutoff, WaitForExtraInfo, TasksStopped, seenVars, browserVars,
                recorderVars, ReadClock, FreezeAtMonotonic, MarkMissingExtraInfo, Mark
  <2> QED
    BY <1>6, <2>1, <2>2, <2>3, <2>4 DEF MainStep
<1>7. CASE Expire \/ UNCHANGED captureVars
  BY <1>7 DEF Expire, Quiet, captureVars, controlVars, seenVars, browserVars, recorderVars
<1> QED
  BY <1>4, <1>5, <1>6, <1>7 DEF CaptureNext

LEMMA SendsOn ==
  ASSUME EnvInv, NEW p \in Sights, NEW q, NEW e, Sends(p, q, e)
  PROVE  \A r \in Ids : p.base[r] <= q.base[r]
<1>1. PICK s \in Ids : \/ \E late \in BOOLEAN : SendsBase(p, q, e, s, late)
                       \/ \E k \in ExtraKinds : SendsExtra(p, q, e, s, k)
  BY DEF Sends
<1>2. p.base \in [Ids -> Nat] /\ q \in Sights
  BY SendsType DEF Sights
<1>3. ASSUME NEW late \in BOOLEAN, SendsBase(p, q, e, s, late)
      PROVE  \A r \in Ids : p.base[r] <= q.base[r]
  <2> DEFINE b == NextFrom(p.base[s], s)
  <2>1. b \in Nat /\ p.base[s] <= b
    BY <1>2, <1>3, NextFromIs DEF SendsBase
  <2>2. q.base = [p.base EXCEPT ![s] = b + 1]
    BY <1>3 DEF SendsBase
  <2> HIDE DEF b
  <2> QED
    BY <1>2, <2>1, <2>2
<1>4. ASSUME NEW k \in ExtraKinds, SendsExtra(p, q, e, s, k)
      PROVE  \A r \in Ids : p.base[r] <= q.base[r]
  <2>1. q.base = p.base
    BY <1>4 DEF SendsExtra, Sights
  <2> QED
    BY <1>2, <2>1
<1> QED
  BY <1>1, <1>3, <1>4

\* Steps of which the recorder sees nothing.
LEMMA AheadStays ==
  ASSUME AheadInv, UNCHANGED <<script, baseAt, extraAt, earlyAt, ahead, buffer>>,
         UNCHANGED <<sentBase, sentExtra, sentEarly>>, clock => clock'
  PROVE  AheadInv'
<1>1. Position' = Position /\ \A n : At(n)' = At(n)
  BY DEF Position, At, Seen
<1>2. ASSUME NEW n \in DOMAIN buffer
      PROVE  Sends(At(n - 1), At(n), buffer[n])'
  <2>1. Sends(At(n - 1), At(n), buffer[n])
    BY <1>2 DEF AheadInv
  <2> QED
    BY <1>1, <2>1, SendsStay
<1> QED
  BY <1>1, <1>2 DEF AheadInv

\* No more is asked for than by what an event has changed.
LEMMA EventAsks ==
  ASSUME CaptureInv, NEW e \in EventShape, NEW b \in BOOLEAN, HandleEvent(e, b)
  PROVE  \A r \in Ids : Asked(chains[r], chains'[r])
<1>1. RecInv /\ TypeInv /\ AskInv(chains[e.id])
  BY DEF CaptureInv, RecInv, AsksInv, EventShape
<1>2. Outcome(e)
  BY <1>1, Outcomes
<1>3. /\ \A r \in Ids \ {e.id} : chains'[r] = chains[r]
      /\ Asked(chains[e.id], chains'[e.id])
  BY <1>1, <1>2, OutcomeAsks
<1> QED
  BY <1>3 DEF Asked

\* The listener, and the replay, feed the recorder as the browser would.
LEMMA DeliverSim ==
  ASSUME CaptureInv, Live, AheadInv, Live', NEW r \in Ids, Deliver(r)
  PROVE  [Next]_vars /\ AheadInv' /\ \A s \in Ids : Asked(chains[s], chains'[s])
<1>1. /\ pc # "replay" /\ pc' = pc /\ accept /\ ~failed /\ ~limitErr /\ ~failed' /\ ~limitErr'
      /\ SightInv /\ EnvInv /\ ControlInv /\ ClocksInv /\ Position \in Sights
      /\ buffer \in Seq(EventShape) /\ ahead \in Seq(Sights)
  BY SightIsEnv DEF Deliver, CaptureInv, Live, SightInv
<1>2. PICK e \in EventShape :
        /\ Listen(e) /\ Sends(Position, Position', e) /\ (e.late => clock)
        /\ Position' \in Sights /\ script' = script /\ clock' = clock
  BY <1>1, Delivery
<1>3. /\ Len(ahead) = Len(buffer) /\ Position = At(Len(buffer)) /\ Len(buffer) \in Nat
      /\ \A n \in DOMAIN buffer : /\ Sends(At(n - 1), At(n), buffer[n])
                                  /\ buffer[n].late => clock
      /\ \A n \in 0 .. Len(buffer), s \in Ids : At(n).base[s] <= sentBase[s]
  BY <1>1 DEF AheadInv
<1>4. /\ \A s \in Ids : sentBase[s] \in Nat /\ sentBase[s] <= sentBase'[s]
      /\ \A s \in Ids : sentBase'[s] \in Nat
  <2>1. \A s \in Ids : Position.base[s] <= Position'.base[s]
    BY <1>1, <1>2, SendsOn
  <2> QED
    BY <1>1, <1>2, <2>1 DEF Position, Sights
<1>5. CASE freezing
  <2>1. /\ Ignore /\ buffer' = Append(buffer, e)
        /\ See(Seen, Append(ahead, Position'))
    BY <1>1, <1>2, <1>5 DEF Listen, Buffer, Exceed
  <2>2. Seen' = Seen /\ ahead' = Append(ahead, Position') /\ clockRead' = clockRead
    BY <1>1, <2>1 DEF See, Seen
  <2>3. UNCHANGED vars
    BY <1>2, <2>1, <2>2 DEF vars, browserVars, Ignore, Seen
  <2>0. PICK m \in Nat : m = Len(buffer) + 1
    BY <1>3
  <2>4. /\ m \in Nat \ {0} /\ Len(buffer') = m /\ Len(ahead') = m
        /\ DOMAIN buffer = 1 .. m - 1 /\ DOMAIN buffer' = 1 .. m
        /\ \A n \in 1 .. m - 1 : buffer'[n] = buffer[n] /\ ahead'[n] = ahead[n]
        /\ buffer'[m] = e /\ ahead'[m] = Position' /\ Len(buffer) = m - 1
    BY <1>1, <1>2, <1>3, <2>0, <2>1, <2>2
  <2>5. /\ \A n \in 0 .. m - 1 : At(n)' = At(n)
        /\ At(m)' = Position' /\ At(m - 1) = Position
    BY <1>3, <2>2, <2>4 DEF At
  <2>6. ASSUME NEW n \in DOMAIN buffer'
        PROVE  Sends(At(n - 1), At(n), buffer[n])' /\ (buffer'[n].late => clock')
    <3>1. CASE n = m
      <4>1. Sends(At(n - 1)', At(n)', buffer'[n])
        <5>1. n - 1 \in 0 .. m - 1
          BY <2>4, <3>1
        <5> QED
          BY <1>2, <2>4, <2>5, <3>1, <5>1
      <4> QED
        BY <1>2, <2>4, <3>1, <4>1, SendsStay
    <3>2. CASE n # m
      <4>1. n \in DOMAIN buffer /\ n \in 0 .. m - 1 /\ n - 1 \in 0 .. m - 1 /\ n \in 1 .. m - 1
        BY <2>4, <2>6, <3>2
      <4>2. Sends(At(n - 1)', At(n)', buffer'[n])
        BY <1>3, <2>4, <2>5, <4>1
      <4> QED
        BY <1>2, <1>3, <2>4, <4>1, <4>2, SendsStay
    <3> QED
      BY <3>1, <3>2
  <2>7. ASSUME NEW n \in 0 .. Len(buffer'), NEW s \in Ids
        PROVE  At(n)'.base[s] <= sentBase'[s]
    <3>1. CASE n = m
      BY <1>4, <2>5, <3>1 DEF Position
    <3>2. CASE n # m
      <4>1. n \in 0 .. m - 1
        BY <2>4, <2>7, <3>2
      <4>2. At(n).base[s] <= sentBase[s] /\ At(n)' = At(n)
        BY <1>3, <2>4, <2>5, <4>1
      <4>3. At(n).base[s] \in Nat
        <5>1. At(n) \in Sights
          BY <1>1, <1>3, <2>4, <4>1 DEF At, SightInv
        <5> QED
          BY <5>1 DEF Sights
      <4> QED
        BY <1>4, <4>2, <4>3
    <3> QED
      BY <3>1, <3>2
  <2>8. AheadInv'
    BY <2>4, <2>5, <2>6, <2>7 DEF AheadInv
  <2>9. \A s \in Ids : Asked(chains[s], chains'[s])
    BY <2>1 DEF Ignore, recorderVars, Asked
  <2> QED
    BY <2>3, <2>8, <2>9
<1>6. CASE ~freezing
  <2>1. buffer = <<>> /\ pc # "cutoff"
    BY <1>1, <1>6 DEF ControlInv
  <2>2. PICK no \in BOOLEAN : no = FALSE
    OBVIOUS
  <2>3. HandleEvent(e, no) /\ See(Position', <<>>) /\ buffer' = buffer
    BY <1>1, <1>2, <1>6, <2>2 DEF Listen, ProcessEventLocked
  <2>4. Seen' = Position' /\ ahead' = <<>> /\ clockRead' = clockRead
    BY <1>1, <2>3 DEF See, Seen, Position
  <2>5. Seen = Position
    BY <1>3, <2>1 DEF At
  <2>6. Sends(Seen, Seen', e)
    BY <1>2, <2>4, <2>5
  <2>7. e.late => clockRead
    BY <1>1, <1>2, <2>1 DEF ClocksInv
  <2>8. Next
    BY <1>1, <1>2, <2>2, <2>3, <2>4, <2>6, <2>7, ToRecorder
  <2>9. AheadInv'
    <3>1. /\ Len(buffer') = 0 /\ Len(ahead') = 0 /\ DOMAIN buffer' = {}
          /\ At(0)' = Position'
      BY <2>1, <2>3, <2>4 DEF At
    <3>2. \A n \in 0 .. 0, s \in Ids : At(n)'.base[s] <= sentBase'[s]
      BY <1>4, <3>1 DEF Position
    <3> QED
      BY <3>1, <3>2 DEF AheadInv
  <2>10. \A s \in Ids : Asked(chains[s], chains'[s])
    BY <2>3, EventAsks
  <2> QED
    BY <2>8, <2>9, <2>10
<1> QED
  BY <1>5, <1>6

LEMMA ReplaySim ==
  ASSUME CaptureInv, Live, AheadInv, Live', Replay
  PROVE  Next /\ AheadInv' /\ \A s \in Ids : Asked(chains[s], chains'[s])
<1>1. /\ accept /\ ~failed /\ ~limitErr /\ ~failed' /\ ~limitErr'
      /\ SightInv /\ EnvInv /\ ClocksInv /\ pc = "replay" /\ buffer # <<>>
      /\ UNCHANGED sentVars /\ buffer' = Tail(buffer)
      /\ See(IF ahead = <<>> THEN Position ELSE Head(ahead), Tail(ahead))
      /\ buffer \in Seq(EventShape) /\ ahead \in Seq(Sights)
  BY SightIsEnv DEF Replay, CaptureInv, Live, SightInv
<1>2. PICK e \in EventShape : e = Head(buffer)
  BY <1>1
<1>3. PICK yes \in BOOLEAN : yes = TRUE
  OBVIOUS
<1>4. HandleEvent(e, yes)
  BY <1>1, <1>2, <1>3 DEF Replay, ProcessEventLocked
<1>0. PICK m \in Nat : m = Len(buffer)
  BY <1>1
<1>5. /\ m \in Nat \ {0} /\ Len(ahead) = m /\ DOMAIN buffer = 1 .. m /\ e = buffer[1]
      /\ Position = At(m) /\ ahead # <<>> /\ Head(ahead) = ahead[1]
      /\ \A n \in 1 .. m : Sends(At(n - 1), At(n), buffer[n]) /\ (buffer[n].late => clock)
      /\ \A n \in 0 .. m, s \in Ids : At(n).base[s] <= sentBase[s]
  <2>1. Len(buffer) \in Nat \ {0} /\ DOMAIN buffer = 1 .. Len(buffer) /\ Head(buffer) = buffer[1]
    BY <1>1
  <2>2. Len(ahead) = Len(buffer)
    BY DEF AheadInv
  <2>3. ahead # <<>> /\ Head(ahead) = ahead[1]
    BY <1>1, <2>1, <2>2
  <2> QED
    BY <1>0, <1>2, <2>1, <2>2, <2>3 DEF AheadInv
<1>6. /\ Len(buffer') = m - 1 /\ DOMAIN buffer' = 1 .. m - 1
      /\ \A n \in 1 .. m - 1 : buffer'[n] = buffer[n + 1]
  BY <1>0, <1>1, <1>5
<1>7. /\ Len(Tail(ahead)) = m - 1 /\ Head(ahead) \in Sights
      /\ \A n \in 1 .. m - 1 : Tail(ahead)[n] = ahead[n + 1]
  BY <1>0, <1>1, <1>5
<1>8. /\ Seen' = Head(ahead) /\ ahead' = Tail(ahead) /\ script' = script
      /\ clockRead' = clockRead
  <2>1. See(Head(ahead), Tail(ahead))
    BY <1>1, <1>5
  <2>2. Head(ahead) = [base |-> Head(ahead).base, extra |-> Head(ahead).extra,
                       early |-> Head(ahead).early]
    BY <1>7 DEF Sights
  <2> QED
    BY <1>1, <2>1, <2>2 DEF See, Seen
<1>9. /\ \A n \in 0 .. m - 1 : At(n)' = At(n + 1)
      /\ At(0) = Seen /\ At(1) = ahead[1]
  <2>1. At(0) = Seen /\ At(1) = ahead[1]
    BY DEF At
  <2>2. ASSUME NEW n \in 0 .. m - 1
        PROVE  At(n)' = At(n + 1)
    <3>1. CASE n = 0
      BY <1>5, <1>8, <2>1, <3>1 DEF At
    <3>2. CASE n # 0
      <4>1. n \in 1 .. m - 1 /\ n + 1 # 0
        BY <1>5, <2>2, <3>2
      <4> QED
        BY <1>7, <1>8, <3>2, <4>1 DEF At
    <3> QED
      BY <3>1, <3>2
  <2> QED
    BY <2>1, <2>2
<1>10. Next
  <2>1. Sends(At(0), At(1), buffer[1]) /\ (buffer[1].late => clock)
    <3>1. 1 \in 1 .. m /\ 1 - 1 = 0
      BY <1>5
    <3> QED
      BY <1>5, <3>1
  <2>2. Sends(Seen, Seen', e)
    BY <1>5, <1>8, <1>9, <2>1
  <2>3. frozen /\ (e.late => clockRead)
    BY <1>1 DEF ClocksInv
  <2> QED
    BY <1>1, <1>4, <1>8, <2>2, <2>3, ToRecorder
<1>11. AheadInv'
  <2>1. UNCHANGED <<sentBase, sentExtra, sentEarly, clock>> /\ Position' = Position
    BY <1>1 DEF sentVars, Position
  <2>2. ASSUME NEW n \in 1 .. m - 1
        PROVE  Sends(At(n - 1), At(n), buffer[n])' /\ (buffer'[n].late => clock')
    <3>1. n - 1 \in 0 .. m - 1 /\ n \in 0 .. m - 1 /\ (n - 1) + 1 = n /\ n + 1 \in 1 .. m
          /\ (n + 1) - 1 = n
      BY <1>5, <2>2
    <3>2. At(n - 1)' = At(n) /\ At(n)' = At(n + 1) /\ buffer'[n] = buffer[n + 1]
      BY <1>6, <1>9, <2>2, <3>1
    <3>3. Sends(At(n), At(n + 1), buffer[n + 1]) /\ (buffer[n + 1].late => clock)
      BY <1>5, <3>1
    <3>4. Sends(At(n - 1)', At(n)', buffer'[n])
      BY <3>2, <3>3
    <3> QED
      BY <1>8, <2>1, <3>2, <3>3, <3>4, SendsStay
  <2>3. ASSUME NEW n \in 0 .. m - 1, NEW s \in Ids
        PROVE  At(n)'.base[s] <= sentBase'[s]
    <3>1. n + 1 \in 0 .. m
      BY <1>5, <2>3
    <3> QED
      BY <1>5, <1>9, <2>1, <2>3, <3>1
  <2>4. Len(ahead') = Len(buffer') /\ Position' = At(Len(buffer))'
    <3>1. m - 1 \in 0 .. m - 1 /\ (m - 1) + 1 = m
      BY <1>5
    <3>2. PICK j \in 0 .. m - 1 : j = m - 1 /\ j + 1 = m
      BY <3>1
    <3>3. At(j)' = At(m) /\ Len(buffer') = j
      BY <1>6, <1>9, <3>2
    <3>4. Position' = At(j)'
      BY <1>5, <2>1, <3>3
    <3>5. At(j)' = At(Len(buffer))'
      BY <3>3 DEF At
    <3> QED
      BY <1>6, <1>7, <1>8, <3>4, <3>5
  <2>5. DOMAIN buffer' = 1 .. m - 1 /\ Len(buffer') = m - 1
    BY <1>6
  <2> QED
    BY <2>2, <2>3, <2>4, <2>5 DEF AheadInv
<1>12. \A s \in Ids : Asked(chains[s], chains'[s])
  BY <1>4, EventAsks
<1> QED
  BY <1>10, <1>11, <1>12

\* While the capture is live, every step is one of the recorder or none.
LEMMA Simulates ==
  ASSUME CaptureInv, Live => AheadInv, [CaptureNext]_captureVars, Live'
  PROVE  Live /\ [Next]_vars /\ AheadInv' /\ \A r \in Ids : Asked(chains[r], chains'[r])
<1>1. Live /\ AheadInv /\ script' = script
  BY BrokenStays DEF Live
<1>2. /\ accept /\ ~failed /\ ~limitErr /\ accept' /\ ~failed' /\ ~limitErr'
      /\ ControlInv /\ ClocksInv /\ RecInv
  BY <1>1 DEF Live, CaptureInv
<1> DEFINE Goal == [Next]_vars /\ AheadInv' /\ \A r \in Ids : Asked(chains[r], chains'[r])
<1> SUFFICES Goal
  BY <1>1
<1>3. ASSUME chains' = chains
      PROVE  \A r \in Ids : Asked(chains[r], chains'[r])
  BY <1>3 DEF Asked
<1>4. ASSUME UNCHANGED <<browserVars, recorderVars, ahead, buffer>>,
             UNCHANGED <<sentBase, sentExtra, sentEarly>>, clock => clock'
      PROVE  Goal
  <2>1. UNCHANGED vars /\ chains' = chains
    BY <1>4 DEF vars, recorderVars
  <2>2. AheadInv'
    BY <1>1, <1>4, AheadStays DEF browserVars
  <2> QED
    BY <1>3, <2>1, <2>2
<1>5. ASSUME NEW r \in Ids, Deliver(r)
      PROVE  Goal
  BY <1>1, <1>5, DeliverSim
<1>6. ASSUME NEW w \in Workers, WorkerStep(w)
      PROVE  Goal
  <2>1. CASE Take(w) \/ Leave(w)
    <3>1. UNCHANGED <<seenVars, recorderVars, sentVars, buffer>>
      BY <2>1 DEF Take, Leave, Worker
    <3> QED
      BY <1>4, <3>1 DEF seenVars, sentVars
  <2>2. CASE Fetch(w)
    <3>1. /\ Ignore \/ Exceed
          /\ See(Seen, ahead) /\ UNCHANGED <<sentVars, buffer>>
      BY <2>2 DEF Fetch, Worker
    <3>2. UNCHANGED recorderVars
      BY <1>2, <3>1 DEF Ignore, Exceed
    <3>3. UNCHANGED <<browserVars, ahead>>
      BY <1>2, <3>1 DEF See, Seen, browserVars
    <3> QED
      BY <1>4, <3>1, <3>2, <3>3 DEF sentVars
  <2> QED
    BY <1>6, <2>1, <2>2 DEF WorkerStep
<1>7. CASE MainStep
  <2>1. CASE Replay
    BY <1>1, <2>1, ReplaySim
  <2>2. CASE RunFails \/ StopTasks
    BY <1>2, <2>2 DEF RunFails, StopTasks
  <2>3. CASE BeginFreeze \/ Replayed \/ Finish
    <3>1. UNCHANGED <<seenVars, recorderVars, sentVars, buffer>>
      BY <2>3 DEF BeginFreeze, Replayed, Finish, Quiet
    <3> QED
      BY <1>4, <3>1 DEF seenVars, sentVars
  <2>4. CASE MetricsRead
    <3>1. /\ UNCHANGED <<seenVars, recorderVars, buffer, sentBase, sentExtra, sentEarly>>
          /\ clock'
      BY <2>4 DEF MetricsRead, B!ReadClock
    <3> QED
      BY <1>4, <3>1 DEF seenVars
  <2>5. CASE Cutoff
    <3>1. /\ pc = "cutoff" /\ ReadClock /\ FreezeAtMonotonic /\ UNCHANGED <<ahead, sentVars, buffer>>
      BY <2>5 DEF Cutoff, Main
    <3>2. Next
      BY <1>2, <3>1 DEF ClocksInv, Freeze, Next
    <3>3. chains' = chains
      BY <1>2, <3>1, PassIsIdle DEF FreezeAtMonotonic
    <3>4. AheadInv'
      BY <1>1, <3>1, AheadStays DEF ReadClock, sentVars
    <3> QED
      BY <1>3, <3>2, <3>3, <3>4
  <2>6. CASE WaitForExtraInfo
    <3>1. chains' = chains
      BY <1>2, <2>6, PassIsIdle DEF WaitForExtraInfo
    <3>2. UNCHANGED <<seenVars, recorderVars, sentVars, buffer>>
      BY <2>6, <3>1 DEF WaitForExtraInfo, recorderVars
    <3> QED
      BY <1>4, <3>2 DEF seenVars, sentVars
  <2>7. CASE TasksStopped
    BY <1>2, <2>7 DEF TasksStopped, Main, ControlInv
  <2> QED
    BY <1>7, <2>1, <2>2, <2>3, <2>4, <2>5, <2>6, <2>7 DEF MainStep
<1>8. CASE Expire \/ UNCHANGED captureVars
  <2>1. UNCHANGED <<seenVars, recorderVars, sentVars, buffer>>
    BY <1>8 DEF Expire, Quiet, captureVars, controlVars
  <2> QED
    BY <1>4, <2>1 DEF seenVars, sentVars
<1> QED
  BY <1>1, <1>5, <1>6, <1>7, <1>8 DEF CaptureNext

\* A capture that no longer listens only marks its entries, unless it fails.
LEMMA NotListening ==
  ASSUME CaptureInv, [CaptureNext]_captureVars, ~accept', ~failed', ~limitErr'
  PROVE  /\ ~failed /\ ~limitErr
         /\ \/ UNCHANGED vars
            \/ ~accept /\ Ignore
            \/ ~accept /\ pc' = "mark" /\ MarkMissingExtraInfo
<1>1. ~failed /\ ~limitErr /\ ControlInv
  BY BrokenStays DEF CaptureInv
<1> DEFINE Goal == \/ UNCHANGED vars
                   \/ ~accept /\ Ignore
                   \/ ~accept /\ pc' = "mark" /\ MarkMissingExtraInfo
<1> SUFFICES Goal
  BY <1>1
<1>2. ASSUME NEW r \in Ids, Deliver(r)
      PROVE  Goal
  <2>1. ~accept /\ \E e : Listen(e)
    BY <1>2 DEF Deliver
  <2> QED
    BY <2>1 DEF Listen, ProcessEventLocked
<1>3. ASSUME NEW w \in Workers, WorkerStep(w)
      PROVE  Goal
  <2>1. CASE Take(w) \/ Leave(w)
    BY <2>1 DEF Take, Leave, seenVars, vars
  <2>2. CASE Fetch(w)
    <3>1. /\ Ignore \/ Exceed
          /\ See(Seen, ahead)
      BY <2>2 DEF Fetch
    <3>2. UNCHANGED recorderVars
      BY <3>1 DEF Ignore, Exceed
    <3>3. UNCHANGED browserVars
      BY <3>1 DEF See, Seen, browserVars
    <3> QED
      BY <3>2, <3>3 DEF vars
  <2> QED
    BY <1>3, <2>1, <2>2 DEF WorkerStep
<1>4. CASE MainStep
  <2>1. CASE BeginFreeze \/ Replayed \/ StopTasks \/ Finish
    BY <2>1 DEF BeginFreeze, Replayed, StopTasks, Finish, Quiet, seenVars, vars
  <2>2. CASE MetricsRead \/ Cutoff \/ Replay \/ WaitForExtraInfo \/ RunFails
    BY <1>1, <2>2 DEF MetricsRead, Cutoff, Replay, WaitForExtraInfo, RunFails, Main, ControlInv
  <2>3. CASE TasksStopped
    <3>1. /\ pc = "wait"
          /\ UNCHANGED recorderVars \/ (pc' = "mark" /\ MarkMissingExtraInfo)
      BY <2>3 DEF TasksStopped, Main, Mark
    <3> QED
      BY <1>1, <3>1 DEF ControlInv, Ignore
  <2> QED
    BY <1>4, <2>1, <2>2, <2>3 DEF MainStep
<1>5. CASE Expire \/ UNCHANGED captureVars
  BY <1>5 DEF Expire, Quiet, captureVars, controlVars, seenVars, vars
<1> QED
  BY <1>1, <1>2, <1>3, <1>4, <1>5 DEF CaptureNext

\* The recorder of a live capture is where it would be without the buffer.
FaithfulInv == Live => RecorderInv /\ AheadInv

LEMMA FaithfulStep ==
  ASSUME CaptureInv, FaithfulInv, [CaptureNext]_captureVars
  PROVE  FaithfulInv'
<1> SUFFICES ASSUME Live'
             PROVE  RecorderInv' /\ AheadInv'
  BY DEF FaithfulInv
<1>1. Live /\ [Next]_vars /\ AheadInv'
  BY Simulates DEF FaithfulInv
<1>2. RecorderInv'
  BY <1>1, RecorderStep DEF FaithfulInv
<1> QED
  BY <1>1, <1>2

LEMMA FaithfulInit == CaptureInit => FaithfulInv
<1> SUFFICES ASSUME CaptureInit
             PROVE  RecorderInv /\ AheadInv
  BY DEF FaithfulInv
<1>1. RecorderInv
  BY InitRecorder DEF CaptureInit
<1>2. /\ ahead = <<>> /\ buffer = <<>>
      /\ Seen = Position /\ \A r \in Ids : sentBase[r] = 0
  BY DEF CaptureInit, Init, BrowserInit, B!BrowserInit, Seen, Position, ExtraKinds, B!ExtraKinds
<1>3. AheadInv
  BY <1>2 DEF AheadInv, At, Position
<1> QED
  BY <1>1, <1>3

THEOREM FaithfulInductive == CaptureSpec => []FaithfulInv
<1>1. CaptureInv /\ FaithfulInv /\ [CaptureNext]_captureVars => FaithfulInv'
  BY FaithfulStep
<1> QED
  BY <1>1, FaithfulInit, CaptureInductive, PTL DEF CaptureSpec

\* The buffer and the replay do not show: until a run fails or a limit is
\* exceeded, every step of a capture is one of the recorder's own that the
\* browser feeds directly, or none, or marks what is missing once it has
\* stopped listening (processEvent, replayLocked).
THEOREM ActsAsRecorder == CaptureSpec => ImplementsRecorder
<1>1. ASSUME CaptureInv, FaithfulInv, [CaptureNext]_captureVars
      PROVE  [\/ failed' \/ limitErr' \/ Next
              \/ ~accept /\ (Ignore \/ MarkMissingExtraInfo)]_vars
  <2>1. CASE Live'
    BY <1>1, <2>1, Simulates DEF FaithfulInv
  <2>2. CASE ~failed' /\ ~limitErr' /\ ~accept'
    BY <1>1, <2>2, NotListening
  <2> QED
    BY <2>1, <2>2 DEF Live
<1> QED
  BY <1>1, CaptureInductive, FaithfulInductive, PTL DEF CaptureSpec, ImplementsRecorder

\* While the capture listens and nothing is buffered, the recorder has seen all
\* that the browser has sent and its chains hold what was stamped up to the
\* cutoff, on whichever side of the freeze an event reached the listener
\* (processEvent, replayLocked, handleBufferedEvent).
THEOREM CutoffIsKept == CaptureSpec => []CutoffSurvivesBuffering
<1>1. ASSUME FaithfulInv
      PROVE  CutoffSurvivesBuffering
  <2> SUFFICES ASSUME accept, buffer = <<>>, ~failed, ~limitErr
               PROVE  /\ baseAt = sentBase /\ extraAt = sentExtra /\ earlyAt = sentEarly
                      /\ IntakeIsTheCutoff
    BY DEF CutoffSurvivesBuffering
  <2>1. RecorderInv /\ AheadInv
    BY <1>1 DEF FaithfulInv, Live
  <2>2. Position = Seen
    BY <2>1 DEF AheadInv, At
  <2>3. baseAt = sentBase /\ extraAt = sentExtra /\ earlyAt = sentEarly
    BY <2>2 DEF Position, Seen
  <2>4. EntriesUpToCutoff
    BY <2>1, IntakeIs DEF RecorderInv, CoreInv, TakenInv
  <2>5. IntakeIsTheCutoff
    BY <2>1, <2>4 DEF RecorderInv, CacheInv, IntakeIsTheCutoff
  <2> QED
    BY <2>3, <2>5
<1> QED
  BY <1>1, FaithfulInductive, PTL

-----------------------------------------------------------------------------
(* What is asked for, and what the archive says of it.                     *)

LEMMA SentOnly ==
  ASSUME CaptureInv, [CaptureNext]_captureVars
  PROVE  \A r \in Ids : /\ sentBase[r] \in Nat /\ sentBase'[r] \in Nat
                        /\ sentBase[r] <= sentBase'[r]
<1>1. SightInv /\ EnvInv /\ Position \in Sights /\ \A r \in Ids : sentBase[r] \in Nat
  BY SightIsEnv DEF CaptureInv, SightInv, Sights, Position
<1>2. ASSUME NEW s \in Ids, Deliver(s)
      PROVE  \A r \in Ids : sentBase'[r] \in Nat /\ sentBase[r] <= sentBase'[r]
  <2>1. PICK e \in EventShape : Sends(Position, Position', e) /\ Position' \in Sights
    BY <1>1, <1>2, Delivery
  <2>2. \A r \in Ids : Position.base[r] <= Position'.base[r]
    BY <1>1, <2>1, SendsOn
  <2> QED
    BY <2>1, <2>2 DEF Position, Sights
<1>3. ASSUME NEW w \in Workers, WorkerStep(w)
      PROVE  sentBase' = sentBase
  BY <1>3 DEF WorkerStep, Take, Fetch, Leave, Worker, sentVars
<1>4. CASE MainStep
  <2>1. sentBase' = sentBase
    BY <1>4 DEF MainStep, BeginFreeze, MetricsRead, Cutoff, Replay, Replayed, RunFails,
                WaitForExtraInfo, StopTasks, TasksStopped, Finish, Quiet, sentVars, B!ReadClock
  <2> QED
    BY <1>1, <2>1
<1>5. CASE Expire \/ UNCHANGED captureVars
  BY <1>1, <1>5 DEF Expire, Quiet, captureVars, sentVars
<1> QED
  BY <1>1, <1>2, <1>3, <1>4, <1>5 DEF CaptureNext

\* What is finished at the end of its chain is the last hop of its life.
FinishedLast ==
  \A r \in Ids : \A i \in Entries(r) :
    i = LastHop(chains[r]) /\ chains[r].entries[i].finished => i = Length(r)
SentLast ==
  \A r \in Ids : \A i \in Entries(r) :
    i = LastHop(chains[r]) /\ chains[r].entries[i].finished => Place(i, 0) < baseAt[r]

LEMMA FinishedIs == RecorderInv /\ ~limitErr => FinishedLast /\ SentLast
<1> SUFFICES ASSUME RecorderInv, ~limitErr, NEW r \in Ids, NEW i \in DOMAIN chains[r].entries,
                    i = LastHop(chains[r]), chains[r].entries[i].finished
             PROVE  i = Length(r) /\ Place(i, 0) < baseAt[r]
  BY DEF FinishedLast, SentLast, Entries
<1>1. EnvInv /\ TakenInv /\ RecInv /\ TypeInv
  BY DEF RecorderInv, CoreInv, RecInv
<1>2. i = Length(r)
  BY <1>1, EndedLast
<1>3. <<i, 4>> \in Reached(r)
  <2>1. i \in Nat /\ ~(i < LastHop(chains[r]))
    BY <1>1, ChainType DEF TypeInv
  <2> QED
    BY <1>1, <2>1 DEF TakenInv, Taken
<1>4. /\ i \in Nat /\ earlyAt[r] > 5 * (i - 1) + 4
      /\ earlyAt[r] \in Nat /\ baseAt[r] \in Nat /\ earlyAt[r] <= baseAt[r]
  BY <1>1, <1>2, <1>3, ScriptOf DEF Reached, EarlyPast, EnvInv
<1> QED
  BY <1>2, <1>4 DEF Place

\* Who is asked for is a last hop, and the browser had got to it before.
AskedLast ==
  \A r \in Ids : \A i \in Entries(r) :
    chains[r].entries[i].asks = 1 => i = Length(r) /\ Place(i, 0) < sentBase[r]

\* In step with the hops, asked for as it should be, and missed if lost.
PairedAndFetched ==
  \A r \in Ids \ dropped :
    InPlace(r) /\ Fetched(chains[r], HopsOf(r)["response"], Bare(r), Length(r))

\* No entry is beyond the hops of the life.
WithinLife == \A r \in Ids : Entries(r) \subseteq DOMAIN script[r].hops

Kept == WithinLife /\ FinishedLast /\ PairedAndFetched /\ LostInv

\* The chains of a capture that may still become an archive, live or not.
KeptInv == ~failed /\ ~limitErr => AskedLast /\ Kept

LEMMA KeptIs == RecorderInv /\ ~limitErr => Kept
<1> SUFFICES ASSUME RecorderInv, ~limitErr
             PROVE  Kept
  OBVIOUS
<1>1. FinishedLast /\ LostInv /\ PairInv /\ BodyInv /\ TakenInv
  BY FinishedIs DEF RecorderInv, CoreInv
<1>2. WithinLife
  BY <1>1 DEF TakenInv, Taken, WithinLife, Entries
<1> QED
  BY <1>1, <1>2 DEF Kept, PairedAndFetched, PairInv, BodyInv, BodyIn

\* The marks change nothing of that.
LEMMA KeptByMark ==
  ASSUME CaptureInv, Kept, MarkMissingExtraInfo, script' = script
  PROVE  Kept'
<1>1. /\ RecInv /\ AsksInv /\ UNCHANGED <<dropped, frozenExtras>>
      /\ chains \in [Ids -> Chain] /\ frozenExtras \in [Ids -> Tails]
  BY DEF CaptureInv, RecInv, TypeInv, MarkMissingExtraInfo
<1>2. \A r \in Ids : chains'[r] \in Chain /\ Marks(chains[r], chains'[r])
  BY <1>1, MarkStep
<1>3. \A q \in Ids : HopsOf(q)' = HopsOf(q) /\ Length(q)' = Length(q) /\ Bare(q)' = Bare(q)
  BY DEF HopsOf, ExtraHops, Length, Bare
<1>4. ASSUME NEW r \in Ids
      PROVE  LET c == chains[r]
                 d == chains'[r]
             IN /\ DOMAIN d.entries = DOMAIN c.entries /\ LastHop(d) = LastHop(c)
                /\ d.pending = c.pending
                /\ \A i \in DOMAIN c.entries :
                     /\ d.entries[i].extra = c.entries[i].extra
                     /\ d.entries[i].known = c.entries[i].known
                     /\ d.entries[i].expected = c.entries[i].expected
                     /\ d.entries[i].response = c.entries[i].response
                     /\ d.entries[i].noBody = c.entries[i].noBody
                     /\ d.entries[i].finished = c.entries[i].finished
                     /\ d.entries[i].scheduled = c.entries[i].scheduled
                     /\ d.entries[i].asks = c.entries[i].asks
                     /\ d.entries[i].bodyError = c.entries[i].bodyError
  <2>1. \A i \in DOMAIN chains[r].entries : chains[r].entries[i] \in EntryShape
    BY <1>1, EntryOf
  <2> QED
    BY <1>2, <2>1 DEF Marks, EntryShape
<1>5. FinishedLast' /\ WithinLife'
  BY <1>3, <1>4 DEF Kept, FinishedLast, WithinLife, Entries
<1>6. LostInv'
  BY <1>1, <1>3, <1>4 DEF Kept, LostInv, Entries
<1>7. ASSUME NEW r \in Ids \ dropped
      PROVE  /\ InStep(chains'[r], HopsOf(r), Length(r), frozenExtras[r])
             /\ Fetched(chains'[r], HopsOf(r)["response"], Bare(r), Length(r))
  <2> DEFINE c == chains[r]
             d == chains'[r]
  <2>1. /\ InStep(c, HopsOf(r), Length(r), frozenExtras[r])
        /\ Fetched(c, HopsOf(r)["response"], Bare(r), Length(r))
    BY DEF Kept, PairedAndFetched, InPlace
  <2>2. Fetched(d, HopsOf(r)["response"], Bare(r), Length(r))
    <3>1. \A i \in DOMAIN c.entries : Ready(d.entries[i]) <=> Ready(c.entries[i])
      BY <1>4 DEF Ready
    <3>2. Minded(d, HopsOf(r)["response"], Bare(r), Length(r))
      BY <1>4, <2>1 DEF Fetched, Minded
    <3> QED
      BY <1>4, <2>1, <3>1, <3>2 DEF Fetched
  <2>3. InStep(d, HopsOf(r), Length(r), frozenExtras[r])
    <3>1. Informed(d, HopsOf(r)["request"], Length(r))
      BY <1>4, <2>1 DEF InStep, Informed
    <3>2. \A k : Assigned(d, k) = Assigned(c, k)
      BY <1>4 DEF Assigned
    <3>3. \A k \in ExtraKinds : Paired(d, k, HopsOf(r)[k], frozenExtras[r][k])
      <4> SUFFICES ASSUME NEW k \in ExtraKinds
                   PROVE  Paired(d, k, HopsOf(r)[k], frozenExtras[r][k])
        OBVIOUS
      <4>1. Paired(c, k, HopsOf(r)[k], frozenExtras[r][k])
        BY <2>1 DEF InStep
      <4>2. d.pending = c.pending /\ \A i \in Assigned(c, k) : d.entries[i].extra = c.entries[i].extra
        BY <1>4 DEF Assigned
      <4> QED
        BY <3>2, <4>1, <4>2 DEF Paired
    <3> QED
      BY <3>1, <3>3 DEF InStep
  <2> QED
    BY <2>2, <2>3
<1>8. PairedAndFetched'
  BY <1>1, <1>3, <1>7 DEF PairedAndFetched, InPlace
<1> QED
  BY <1>5, <1>6, <1>8 DEF Kept

LEMMA KeptStep ==
  ASSUME CaptureInv, FaithfulInv, KeptInv, [CaptureNext]_captureVars
  PROVE  KeptInv'
<1> SUFFICES ASSUME ~failed', ~limitErr'
             PROVE  AskedLast' /\ Kept'
  BY DEF KeptInv
<1>1. /\ ~failed /\ ~limitErr /\ script' = script /\ AskedLast /\ Kept
      /\ \A r \in Ids : Length(r)' = Length(r)
  BY BrokenStays DEF KeptInv, Length
<1>2. \A r \in Ids : /\ sentBase[r] \in Nat /\ sentBase'[r] \in Nat
                     /\ sentBase[r] <= sentBase'[r]
  BY SentOnly
\* No entry is newly asked for.
<1>3. ASSUME \A r \in Ids : /\ Entries(r)' = Entries(r)
                            /\ \A i \in Entries(r) : chains'[r].entries[i].asks = chains[r].entries[i].asks
      PROVE  AskedLast'
  <2> SUFFICES ASSUME NEW r \in Ids, NEW i \in Entries(r)', chains'[r].entries[i].asks = 1
               PROVE  i = Length(r) /\ Place(i, 0) < sentBase'[r]
    BY <1>1 DEF AskedLast
  <2>1. i = Length(r) /\ Place(i, 0) < sentBase[r]
    BY <1>1, <1>3 DEF AskedLast
  <2>2. Place(i, 0) \in Int
    <3>1. EnvInv
      BY SightIsEnv DEF CaptureInv
    <3> QED
      BY <2>1, <3>1, ScriptOf DEF Place
  <2> QED
    BY <1>2, <2>1, <2>2
<1>4. CASE Live'
  <2>1. /\ Live /\ [Next]_vars /\ AheadInv'
        /\ \A r \in Ids : Asked(chains[r], chains'[r])
    BY <1>4, Simulates DEF FaithfulInv
  <2>2. RecorderInv'
    BY <2>1, RecorderStep DEF FaithfulInv
  <2>3. Kept' /\ FinishedLast' /\ SentLast'
    <3>1. RecorderInv' /\ ~limitErr' => Kept'
      BY KeptIs, PTL
    <3>2. RecorderInv' /\ ~limitErr' => FinishedLast' /\ SentLast'
      BY FinishedIs, PTL
    <3> QED
      BY <2>2, <3>1, <3>2
  <2>4. \A r \in Ids : baseAt'[r] \in Nat /\ baseAt'[r] <= sentBase'[r]
    <3>1. EnvInv'
      BY <2>2 DEF RecorderInv, CoreInv
    <3>2. At(0)'.base = baseAt' /\ Len(buffer') \in Nat
      <4>1. CaptureInv'
        BY CaptureStep
      <4> QED
        BY <4>1 DEF At, Seen, CaptureInv
    <3>3. 0 \in 0 .. Len(buffer')
      BY <3>2
    <3>4. \A r \in Ids : At(0)'.base[r] <= sentBase'[r]
      BY <2>1, <3>3 DEF AheadInv
    <3> QED
      BY <3>1, <3>2, <3>4 DEF EnvInv
  <2>5. ASSUME NEW r \in Ids, NEW i \in Entries(r)', chains'[r].entries[i].asks = 1
        PROVE  i = Length(r) /\ Place(i, 0) < sentBase'[r]
    <3>1. i \in DOMAIN chains'[r].entries
      BY <2>5 DEF Entries
    <3>2. \/ i \in Entries(r) /\ chains[r].entries[i].asks = 1
          \/ i = LastHop(chains'[r]) /\ chains'[r].entries[i].finished
      BY <2>1, <2>5, <3>1 DEF Asked, Entries
    <3>3. CASE i \in Entries(r) /\ chains[r].entries[i].asks = 1
      <4>1. i = Length(r) /\ Place(i, 0) < sentBase[r]
        BY <1>1, <3>3 DEF AskedLast
      <4>2. Place(i, 0) \in Int
        <5>1. EnvInv
          BY SightIsEnv DEF CaptureInv
        <5> QED
          BY <4>1, <5>1, ScriptOf DEF Place
      <4> QED
        BY <1>2, <4>1, <4>2
    <3>4. CASE i = LastHop(chains'[r]) /\ chains'[r].entries[i].finished
      <4>1. i = Length(r)' /\ Place(i, 0) < baseAt'[r]
        BY <2>3, <2>5, <3>4 DEF FinishedLast, SentLast
      <4>2. Place(i, 0) \in Int
        <5>1. EnvInv
          BY SightIsEnv DEF CaptureInv
        <5> QED
          BY <1>1, <4>1, <5>1, ScriptOf DEF Place
      <4> QED
        BY <1>1, <1>2, <2>4, <4>1, <4>2
    <3> QED
      BY <3>2, <3>3, <3>4
  <2>6. AskedLast'
    BY <1>1, <2>5 DEF AskedLast
  <2> QED
    BY <2>3, <2>6
<1>5. CASE ~accept'
  <2>1. \/ UNCHANGED <<chains, frozenExtras, dropped>>
        \/ MarkMissingExtraInfo
    BY <1>5, NotListening DEF vars, Ignore, recorderVars
  <2>2. CASE UNCHANGED <<chains, frozenExtras, dropped>>
    <3>1. AskedLast'
      BY <1>3, <2>2 DEF Entries
    <3>2. \A q \in Ids : HopsOf(q)' = HopsOf(q) /\ Length(q)' = Length(q) /\ Bare(q)' = Bare(q)
      BY <1>1 DEF HopsOf, ExtraHops, Length, Bare
    <3>3. FinishedLast' /\ LostInv' /\ WithinLife'
      BY <1>1, <2>2, <3>2 DEF Kept, FinishedLast, LostInv, WithinLife, Entries
    <3>4. PairedAndFetched'
      BY <1>1, <2>2, <3>2 DEF Kept, PairedAndFetched, InPlace
    <3> QED
      BY <3>1, <3>3, <3>4 DEF Kept
  <2>3. CASE MarkMissingExtraInfo
    <3>1. Kept'
      BY <1>1, <2>3, KeptByMark
    <3>2. RecInv /\ AsksInv /\ TypeInv
      BY DEF CaptureInv, RecInv
    <3>3. \A r \in Ids : Marks(chains[r], chains'[r])
      BY <2>3, <3>2, MarkStep
    <3>4. \A r \in Ids : \A i \in Entries(r) : "asks" \in DOMAIN chains[r].entries[i]
      BY <3>2, EntryOf DEF TypeInv, EntryShape, Entries
    <3>5. AskedLast'
      BY <1>3, <3>3, <3>4 DEF Marks, Entries
    <3> QED
      BY <3>1, <3>5
  <2> QED
    BY <2>1, <2>2, <2>3
<1> QED
  BY <1>4, <1>5 DEF Live

LEMMA KeptInit == CaptureInit => KeptInv
<1> SUFFICES ASSUME CaptureInit
             PROVE  AskedLast /\ Kept
  BY DEF KeptInv
<1>1. RecorderInv /\ ~limitErr
  BY InitRecorder DEF CaptureInit, Init, RecorderInit
<1>2. \A r \in Ids : Entries(r) = {}
  BY DEF CaptureInit, Init, RecorderInit, EmptyChain, Entries
<1> QED
  BY <1>1, <1>2, KeptIs DEF AskedLast

THEOREM KeptInductive == CaptureSpec => []KeptInv
<1>1. CaptureInv /\ FaithfulInv /\ KeptInv /\ [CaptureNext]_captureVars => KeptInv'
  BY KeptStep
<1> QED
  BY <1>1, KeptInit, CaptureInductive, FaithfulInductive, PTL DEF CaptureSpec

\* Of a task that a worker fetches, the browser can only give one body.
LEMMA OneBody ==
  ASSUME CaptureInv, KeptInv, ~failed, ~limitErr, NEW w \in Workers, work[w] # NoTask,
         NEW hop \in B!BodyHops(work[w].id)
  PROVE  hop = work[w].entry
<1> DEFINE t == work[w]
<1>1. t \in Wanted
  BY DEF CaptureInv, TasksInv, InHand
<1>2. t.id \in Ids /\ t.entry \in Entries(t.id) /\ chains[t.id].entries[t.entry].asks = 1
  BY <1>1 DEF Wanted, Entries
<1> HIDE DEF t
<1>3. t.entry = Length(t.id) /\ Place(t.entry, 0) < sentBase[t.id]
  BY <1>2 DEF KeptInv, AskedLast
<1>4. Length(t.id) \in Nat \ {0} /\ sentBase[t.id] \in Nat
  <2>1. EnvInv /\ Position \in Sights
    BY SightIsEnv DEF CaptureInv, SightInv
  <2> QED
    BY <1>2, <2>1, ScriptOf DEF Sights, Position
<1> DEFINE m == sentBase[t.id] - 1
           n == Length(t.id)
<1>5. m \in Nat /\ 5 * (n - 1) <= m /\ n \in Nat \ {0} /\ sentBase[t.id] # 0
  BY <1>3, <1>4 DEF Place
<1>6. B!ReachedHop(t.id) = (m \div 5) + 1
  BY <1>5 DEF B!ReachedHop, B!HopOf
<1> HIDE DEF m, n
<1>7. n <= (m \div 5) + 1 /\ (m \div 5) + 1 \in Nat
  BY <1>5
<1>8. hop \in ((m \div 5) + 1) .. n
  BY <1>6 DEF B!BodyHops, n, Length, t
<1> QED
  BY <1>3, <1>5, <1>7, <1>8 DEF n, t

\* Where new answers come from: errors, and bodies that a worker was given.
LEMMA NewAnswers ==
  ASSUME CaptureInv, [CaptureNext]_captureVars, NEW a \in answers', a \notin answers
  PROVE  \/ a.hop = 0
         \/ ~limitErr /\ \E w \in Workers : /\ work[w] # NoTask /\ a.task = work[w]
                                            /\ a.hop \in B!BodyHops(work[w].id)
<1> DEFINE Goal == \/ a.hop = 0
                   \/ ~limitErr /\ \E w \in Workers : /\ work[w] # NoTask /\ a.task = work[w]
                                                      /\ a.hop \in B!BodyHops(work[w].id)
<1>1. ASSUME \/ answers' = answers
             \/ \E t \in Task : answers' = answers \cup {Answer(t, 0, FALSE)}
      PROVE  Goal
  BY <1>1 DEF Answer
<1>2. ASSUME NEW e \in EventShape, NEW b \in BOOLEAN, ProcessEventLocked(e, b), work' = work
      PROVE  Goal
  BY <1>1, <1>2, ProcessStep
<1>3. ASSUME NEW r \in Ids, Deliver(r)
      PROVE  Goal
  <2>1. PICK e \in EventShape : Listen(e)
    BY <1>3, Delivery DEF CaptureInv
  <2>2. work' = work
    BY <1>3 DEF Deliver
  <2>3. CASE accept /\ freezing
    BY <2>1, <2>3 DEF Listen, Buffer
  <2>4. CASE ~(accept /\ freezing)
    <3>1. PICK no \in BOOLEAN : no = FALSE
      OBVIOUS
    <3>2. ProcessEventLocked(e, no)
      BY <2>1, <2>4, <3>1 DEF Listen
    <3> QED
      BY <1>2, <2>2, <3>2
  <2> QED
    BY <2>3, <2>4
<1>4. ASSUME NEW w \in Workers, WorkerStep(w)
      PROVE  Goal
  <2>1. CASE Take(w) \/ Leave(w)
    BY <2>1 DEF Take, Leave
  <2>2. CASE Fetch(w)
    <3>1. /\ work[w] # NoTask
          /\ \/ \E hop \in {0} \cup B!BodyHops(work[w].id) :
                  /\ hop # 0 => ~limitErr
                  /\ answers' = answers \cup {Answer(work[w], hop, hop = 0 /\ expired)}
             \/ answers' = answers \cup {Answer(work[w], 0, FALSE)}
      BY <2>2 DEF Fetch
    <3> QED
      BY <3>1 DEF Answer
  <2> QED
    BY <1>4, <2>1, <2>2 DEF WorkerStep
<1>5. CASE MainStep
  <2>1. CASE Replay
    <3>1. /\ ProcessEventLocked(Head(buffer), TRUE) /\ work' = work /\ buffer # <<>>
      BY <2>1 DEF Replay
    <3>2. PICK e \in EventShape : e = Head(buffer)
      BY <3>1 DEF CaptureInv
    <3>3. PICK yes \in BOOLEAN : yes = TRUE
      OBVIOUS
    <3>4. ProcessEventLocked(e, yes)
      BY <3>1, <3>2, <3>3
    <3> QED
      BY <1>2, <3>1, <3>4
  <2>2. CASE ~Replay
    <3>1. answers' = answers
      BY <1>5, <2>2 DEF MainStep, BeginFreeze, MetricsRead, Cutoff, Replayed, RunFails,
                        WaitForExtraInfo, StopTasks, TasksStopped, Finish, Quiet
    <3> QED
      BY <3>1
  <2> QED
    BY <2>1, <2>2
<1>6. CASE Expire \/ UNCHANGED captureVars
  BY <1>6 DEF Expire, Quiet, captureVars, controlVars
<1> QED
  BY <1>3, <1>4, <1>5, <1>6 DEF CaptureNext

\* GetResponseBody only takes the request ID, and is answered when a worker
\* gets to it; still each body is that of the hop it is stored with, as only
\* the last hop is asked for and the browser had got to it (readyBodyFetchTasks,
\* runFetchTask, setResponseBody).
THEOREM EachBodyItsHop == CaptureSpec => []BodyBelongsToHop
<1>1. CaptureInit => BodyBelongsToHop
  BY DEF CaptureInit, BodyBelongsToHop
<1>2. ASSUME CaptureInv, KeptInv, BodyBelongsToHop, [CaptureNext]_captureVars
      PROVE  BodyBelongsToHop'
  <2> SUFFICES ASSUME ~failed', NEW a \in answers'
               PROVE  a.hop \in {0, a.task.entry}
    BY DEF BodyBelongsToHop
  <2>1. ~failed
    BY <1>2, BrokenStays
  <2>2. CASE a \in answers
    BY <1>2, <2>1, <2>2 DEF BodyBelongsToHop
  <2>3. CASE a \notin answers
    BY <1>2, <2>1, <2>3, NewAnswers, OneBody
  <2> QED
    BY <2>2, <2>3
<1> QED
  BY <1>1, <1>2, CaptureInductive, KeptInductive, PTL DEF CaptureSpec

\* From the marks on, an entry is marked as incomplete just if it is.
MarkedInv ==
  pc \in {"mark", "done"} =>
    \A r \in Ids : \A i \in Entries(r) :
      chains[r].entries[i].incomplete = Missing(chains[r].entries[i])

\* The main goroutine gets there by marking, and nothing moves after that.
LEMMA MarkedOnce ==
  ASSUME CaptureInv, [CaptureNext]_captureVars, pc' \in {"mark", "done"}
  PROVE  (pc \in {"mark", "done"} /\ chains' = chains) \/ MarkMissingExtraInfo
<1> DEFINE Goal == (pc \in {"mark", "done"} /\ chains' = chains) \/ MarkMissingExtraInfo
<1>1. pc \in {"mark", "done"} => ~accept
  BY DEF CaptureInv, ControlInv
<1>2. ASSUME NEW r \in Ids, Deliver(r)
      PROVE  Goal
  <2>1. pc' = pc /\ \E e : Listen(e)
    BY <1>2 DEF Deliver
  <2> QED
    BY <1>1, <2>1 DEF Listen, ProcessEventLocked, Ignore, recorderVars
<1>3. ASSUME NEW w \in Workers, WorkerStep(w)
      PROVE  Goal
  BY <1>3 DEF WorkerStep, Take, Fetch, Leave, Worker, Ignore, Exceed, recorderVars
<1>4. CASE MainStep
  <2>1. CASE TasksStopped \/ Finish
    BY <2>1 DEF TasksStopped, Finish, Main, Mark, Quiet, recorderVars
  <2>2. CASE BeginFreeze \/ MetricsRead \/ Cutoff \/ Replay \/ Replayed \/ RunFails
             \/ WaitForExtraInfo \/ StopTasks
    BY <2>2 DEF BeginFreeze, MetricsRead, Cutoff, Replay, Replayed, RunFails,
                WaitForExtraInfo, StopTasks, Main
  <2> QED
    BY <1>4, <2>1, <2>2 DEF MainStep
<1>5. CASE Expire \/ UNCHANGED captureVars
  BY <1>5 DEF Expire, Quiet, captureVars, controlVars, recorderVars
<1> QED
  BY <1>2, <1>3, <1>4, <1>5 DEF CaptureNext

LEMMA MarkedStep ==
  ASSUME CaptureInv, MarkedInv, [CaptureNext]_captureVars
  PROVE  MarkedInv'
<1> SUFFICES ASSUME pc' \in {"mark", "done"}, NEW r \in Ids, NEW i \in Entries(r)'
             PROVE  chains'[r].entries[i].incomplete = Missing(chains'[r].entries[i])
  BY DEF MarkedInv
<1>1. CASE pc \in {"mark", "done"} /\ chains' = chains
  BY <1>1 DEF MarkedInv, Entries
<1>2. CASE MarkMissingExtraInfo
  <2>1. Marks(chains[r], chains'[r])
    BY <1>2, MarkStep DEF CaptureInv
  <2>2. i \in DOMAIN chains[r].entries
    BY <2>1 DEF Marks, Entries
  <2>3. chains[r].entries[i] \in EntryShape
    BY <2>2, EntryOf DEF CaptureInv, RecInv, TypeInv
  <2>4. LET e == chains[r].entries[i]
            d == chains'[r].entries[i]
        IN d.incomplete = Missing(e) /\ d.known = e.known /\ d.expected = e.expected
           /\ d.extra = e.extra
    BY <2>1, <2>2, <2>3 DEF Marks, EntryShape
  <2> QED
    BY <2>4 DEF Missing
<1> QED
  BY <1>1, <1>2, MarkedOnce

THEOREM MarkedInductive == CaptureSpec => []MarkedInv
<1>1. CaptureInit => MarkedInv
  BY DEF CaptureInit, MarkedInv
<1>2. CaptureInv /\ MarkedInv /\ [CaptureNext]_captureVars => MarkedInv'
  BY MarkedStep
<1> QED
  BY <1>1, <1>2, CaptureInductive, PTL DEF CaptureSpec

\* What an archive does not mark as incomplete has all the extra info that the
\* browser had for it, each from its own hop.
THEOREM HonestArchive == CaptureSpec => []ArchiveIsHonest
<1>1. ASSUME CaptureInv, KeptInv, MarkedInv
      PROVE  ArchiveIsHonest
  <2> SUFFICES ASSUME pc = "done", NEW r \in Ids \ dropped, NEW i \in Entries(r),
                      NEW k \in ExtraKinds, ~chains[r].entries[i].incomplete,
                      HasExtra(script[r], i, k)
               PROVE  chains[r].entries[i].extra[k].hop = i
    BY DEF ArchiveIsHonest
  <2> DEFINE e == chains[r].entries[i]
             H == HopsOf(r)
  <2>1. ~failed /\ ~limitErr /\ EnvInv
    BY <1>1, SightIsEnv DEF CaptureInv, ControlInv
  <2>2. InStep(chains[r], H, Length(r), frozenExtras[r]) /\ i \in DOMAIN chains[r].entries
    BY <1>1, <2>1 DEF KeptInv, Kept, PairedAndFetched, InPlace, Entries
  <2>3. e.known /\ (e.expected => e.extra[k] # NoExtra)
    BY <1>1 DEF MarkedInv, Missing
  <2>4. i \in H["request"]
    <3>1. i \in DOMAIN script[r].hops
      BY <1>1, <2>1 DEF KeptInv, Kept, WithinLife
    <3>2. i \in H[k] /\ H \in HopSets(Length(r))
      <4>1. i \in ExtraHops(r, k)
        BY <3>1 DEF ExtraHops
      <4> QED
        BY <2>1, <4>1, HopsOfIs
    <3> QED
      BY <3>2 DEF HopSets, ExtraKinds
  <2>5. e.extra[k] # NoExtra
    BY <2>2, <2>3, <2>4 DEF InStep, Informed
  <2>6. i \in Assigned(chains[r], k)
    BY <2>2, <2>5 DEF Assigned
  <2> QED
    BY <2>2, <2>6 DEF InStep, Paired
<1> QED
  BY <1>1, CaptureInductive, KeptInductive, MarkedInductive, PTL

\* Every response in an archive that had a body has it, or says that it lacks
\* it: the queues are empty when the archive is written, and a body that was
\* never asked for belongs to an entry that an error or the mark betrays.
THEOREM NoBodySilentlyMissing == CaptureSpec => []NoSilentlyMissingBody
<1>1. ASSUME CaptureInv, KeptInv, MarkedInv
      PROVE  NoSilentlyMissingBody
  <2> SUFFICES ASSUME pc = "done", IncludeBodies, NEW r \in Ids \ dropped, NEW i \in Entries(r),
                      chains[r].entries[i].finished, chains[r].entries[i].response,
                      ~script[r].hops[i].noBody
               PROVE  \/ chains[r].entries[i].bodyError \/ chains[r].entries[i].incomplete
                      \/ \E a \in answers : a.task = [id |-> r, entry |-> i]
    BY DEF NoSilentlyMissingBody
  <2> DEFINE c == chains[r]
             e == c.entries[i]
             t == [id |-> r, entry |-> i]
  <2>1. ~failed /\ ~limitErr /\ Kept /\ i \in DOMAIN c.entries
    BY <1>1 DEF CaptureInv, ControlInv, KeptInv, Entries
  <2>2. i \notin Bare(r)
    BY DEF Bare
  <2>3. CASE i # LastHop(c)
    BY <2>1, <2>2, <2>3 DEF Kept, LostInv
  <2>4. CASE i = LastHop(c)
    <3>1. i = Length(r)
      BY <2>1, <2>4 DEF Kept, FinishedLast
    <3>2. Fetched(c, HopsOf(r)["response"], Bare(r), Length(r))
      BY <2>1 DEF Kept, PairedAndFetched
    <3>3. CASE e.scheduled
      <4>1. e.asks = 1
        BY <2>1, <2>2, <3>1, <3>2, <3>3 DEF Fetched, Minded
      <4>2. t \in Wanted
        <5>1. i \in Nat \ {0}
          <6>1. c \in Chain
            BY <1>1 DEF CaptureInv, RecInv, TypeInv
          <6> QED
            BY <2>1, <6>1, ChainType
        <5> QED
          BY <2>1, <4>1, <5>1 DEF Wanted, Task
      <4>3. InQueue = {} /\ InHand = {}
        <5>1. gone = Workers /\ Workers # {} /\ ControlInv
          BY <1>1, CaptureAssumption DEF CaptureInv, ControlInv, CaptureAssumption
        <5> QED
          BY <5>1 DEF ControlInv, InQueue, InHand
      <4>4. t \in Told
        BY <1>1, <4>2, <4>3 DEF CaptureInv, TasksInv
      <4> QED
        BY <4>4 DEF Told
    <3>4. CASE ~e.scheduled
      <4>1. e.expected /\ e.extra["response"] = NoExtra
        BY <2>1, <3>2, <3>4 DEF Fetched, Ready
      <4>2. Missing(e)
        BY <4>1 DEF Missing, ExtraKinds
      <4> QED
        BY <1>1, <4>2 DEF MarkedInv
    <3> QED
      BY <3>3, <3>4
  <2> QED
    BY <2>3, <2>4
<1> QED
  BY <1>1, CaptureInductive, KeptInductive, MarkedInductive, PTL
================================================================================

----------------------------- MODULE SearchProofs -----------------------------
(***************************************************************************)
(* Proofs about SearchLocations, for every sequence of commands and        *)
(* locations, every site, every boundary and every retry budget, and with  *)
(* no use of MaxCommands; and about the waits of Retry and the exchanges   *)
(* of HttpExchange that its requests go through, for all their inputs.     *)
(***************************************************************************)
EXTENDS SearchLocations, RecursionLemmas, FiniteSetTheorems

-----------------------------------------------------------------------------
(* The invariant.                                                          *)

Stages == {"next", "fetch", "backoff", "report", "ended"}

\* The command at hand and its place in it.
PlaceInv ==
    /\ command \in Commands /\ at \in 1 .. Len(command.locations)
    /\ stage \in Stages
    /\ stage = "ended" <=> exitStatus # "running"

\* The answer at hand is never more than the site holds, and all of it unless
\* it is marked partial.
AnswerInv ==
    /\ stage = "fetch" /\ command.discovery => parts = Parts /\ covered \subseteq Parts
    /\ partial => stage = "report"
    /\ stage = "report" => /\ answer \subseteq WholeAnswer(command, Location)
                           /\ ~partial => answer = WholeAnswer(command, Location)

Failed == {"no slug", "fetch failed", "outside the state", "incomplete discovery"}

AllLocations == UNION {ToSet(c.locations) : c \in Commands}
AllListings == UNION {UNION {WholeAnswer(c, l) : l \in ToSet(c.locations)} : c \in Commands}

AreasInv ==
    areas \in Seq([location : AllLocations, error : {"none"} \cup Failed,
                   listings : SUBSET AllListings])

\* What one try may cost and how many tries there may be.
CostInv ==
    /\ attempt \in Nat /\ spent \in Nat /\ asked \in Nat
    /\ attempt <= LocationRetries(command.discovery, command.retries)
    /\ stage = "next" => attempt = 0 /\ spent = 0
    /\ stage = "fetch" => /\ budget = FetchBudget(command, Location)
                          /\ asked <= budget /\ spent <= attempt + asked
    /\ stage = "backoff" => ~command.discovery /\ spent <= attempt
    /\ stage = "report" => spent <= attempt + FetchBudget(command, Location)

IInv ==
    /\ PlaceInv /\ AnswerInv /\ AreasInv /\ CostInv
    /\ CacheHoldsWholeAnswers /\ LossIsReported

-----------------------------------------------------------------------------
\* A command's locations are a sequence with at least one element.
LEMMA LocationsAreASequence ==
  ASSUME NEW c \in Commands
  PROVE  /\ Len(c.locations) \in Nat /\ Len(c.locations) >= 1
         /\ DOMAIN c.locations = 1 .. Len(c.locations)
         /\ \A i \in 1 .. Len(c.locations) : /\ c.locations[i] \in ToSet(c.locations)
                                            /\ c.locations[i] \in AllLocations
<1> DEFINE S == ToSet(c.locations)
<1>1. c.locations \in Seq(S) /\ c.locations # <<>>
  BY SearchAssumption DEF SearchAssumption
<1> HIDE DEF S
<1>2. Len(c.locations) \in Nat /\ DOMAIN c.locations = 1 .. Len(c.locations)
      /\ Len(c.locations) # 0
  BY <1>1
<1>3. \A i \in 1 .. Len(c.locations) : c.locations[i] \in ToSet(c.locations)
  BY <1>2 DEF ToSet
<1> QED
  BY <1>2, <1>3 DEF AllLocations

\* Entries are only shared by commands and spellings with the same answer.
LEMMA KeyDecidesAnswer ==
  ASSUME NEW c \in Commands, NEW l, NEW d \in Commands, NEW m,
         CacheKey(c, l) = CacheKey(d, m)
  PROVE  WholeAnswer(c, l) = WholeAnswer(d, m)
<1>1. Target(l) = Target(m) /\ c.discovery = d.discovery
  BY DEF CacheKey
<1>2. c.discovery => PagesFor(c, l) = PagesFor(d, m)
  BY <1>1 DEF CacheKey
<1> QED
  BY <1>1, <1>2 DEF WholeAnswer

\* The cost of a try, without its arithmetic.
LEMMA BudgetIsNatural ==
  ASSUME NEW c \in Commands, NEW l
  PROVE  /\ FetchBudget(c, l) \in Nat
         /\ c.retries \in Nat
         /\ ~c.discovery => FetchBudget(c, l) = 1
<1> DEFINE pages == PagesFor(c, l)
           routes == Cardinality(Parts)
<1>1. pages \in Nat /\ routes \in Nat /\ c.retries \in Nat
  BY SearchAssumption, FS_CardinalityType DEF SearchAssumption, PagesFor
<1> HIDE DEF pages, routes
<1>2. \A r \in Nat : (r + 1) * (1 + pages * routes) \in Nat
  BY <1>1
<1>3. FetchBudget(c, l) = IF c.discovery THEN (c.retries + 1) * (1 + pages * routes) ELSE 1
  BY DEF FetchBudget, pages, routes
<1> QED
  BY <1>1, <1>2, <1>3

LEMMA IInvInit == Init => IInv
<1> SUFFICES ASSUME Init PROVE IInv
  OBVIOUS
<1>1. command \in Commands /\ stage = "next" /\ exitStatus = "running" /\ at = 1
  BY DEF Init
<1>2. PlaceInv
  <2>1. Len(command.locations) \in Nat /\ Len(command.locations) >= 1
    BY <1>1, LocationsAreASequence
  <2>2. at \in 1 .. Len(command.locations)
    BY <1>1, <2>1
  <2> QED
    BY <1>1, <2>2 DEF PlaceInv, Stages
<1>3. AnswerInv
  BY DEF Init, AnswerInv
<1>4. AreasInv
  <2>1. \A S : <<>> \in Seq(S)
    OBVIOUS
  <2> QED
    BY <2>1 DEF Init, AreasInv
<1>5. CostInv
  <2>1. command.retries \in Nat
    BY <1>1, BudgetIsNatural
  <2>2. attempt = 0 /\ spent = 0 /\ asked = 0
    BY DEF Init, FetchInit
  <2> QED
    BY <1>1, <2>1, <2>2 DEF CostInv, LocationRetries
<1>6. CacheHoldsWholeAnswers
  BY DEF Init, CacheHoldsWholeAnswers
<1>7. LossIsReported
  <2>1. areas = <<>> /\ Len(areas) = 0 /\ DOMAIN areas = {}
    BY DEF Init
  <2> QED
    BY <1>1, <2>1 DEF LossIsReported
<1> QED
  BY <1>2, <1>3, <1>4, <1>5, <1>6, <1>7 DEF IInv

-----------------------------------------------------------------------------
(* The cache.                                                              *)

LEMMA CacheStep ==
  ASSUME IInv, [Next]_vars PROVE CacheHoldsWholeAnswers'
<1>1. CASE cache' = cache
  BY <1>1 DEF IInv, CacheHoldsWholeAnswers
<1>2. CASE Expire
  BY <1>2 DEF Expire, IInv, CacheHoldsWholeAnswers
<1>3. CASE FetchedWhole /\ cache' # cache
  <2> DEFINE K == CacheKey(command, Location)
             W == WholeAnswer(command, Location)
  <2>1. cache' = [k \in DOMAIN cache \cup {K} |-> IF k = K THEN W ELSE cache[k]]
    BY <1>3 DEF FetchedWhole, Save
  <2>2. command \in Commands
    BY DEF IInv, PlaceInv
  <2>3. ASSUME NEW c \in Commands, NEW l \in ToSet(c.locations),
               CacheKey(c, l) \in DOMAIN cache'
        PROVE  cache'[CacheKey(c, l)] = WholeAnswer(c, l)
    <3>1. CASE CacheKey(c, l) = K
      <4>1. WholeAnswer(c, l) = W
        BY <2>2, <3>1, KeyDecidesAnswer
      <4> QED
        BY <2>1, <3>1, <4>1
    <3>2. CASE CacheKey(c, l) # K
      BY <2>1, <2>3, <3>2 DEF IInv, CacheHoldsWholeAnswers
    <3> QED
      BY <3>1, <3>2
  <2> QED
    BY <2>3 DEF CacheHoldsWholeAnswers
<1>4. \/ cache' = cache \/ Expire \/ FetchedWhole
  BY DEF Next, vars, loopVars, Start, NoSuchPlace, CacheHit, CacheMiss, Fetching,
         FetchedPart, BackOff, FetchAgain, FetchLost, ReportArea, Over
<1> QED
  BY <1>1, <1>2, <1>3, <1>4

-----------------------------------------------------------------------------
(* Reports.                                                                *)

\* Adding an area that is true of its location keeps the report true.
LEMMA ReportStep ==
  ASSUME IInv, stage # "ended", command' = command,
         NEW error \in {"none"} \cup Failed, NEW listings \in SUBSET AllListings,
         Report(error, listings),
         error = "none" => listings = {l \in WholeAnswer(command, Location) : Inside(Location, l)}
  PROVE  PlaceInv' /\ AreasInv' /\ LossIsReported'
<1> DEFINE area == [location |-> Location, error |-> error, listings |-> listings]
           n == Len(command.locations)
           Area == [location : AllLocations, error : {"none"} \cup Failed,
                    listings : SUBSET AllListings]
<1>1. command \in Commands /\ at \in 1 .. n /\ n \in Nat /\ exitStatus = "running"
      /\ at \in Nat /\ 1 <= at /\ at <= n
  <2>1. command \in Commands /\ at \in 1 .. n /\ exitStatus = "running"
    BY DEF IInv, PlaceInv
  <2>2. n \in Nat
    BY <2>1, LocationsAreASequence
  <2> QED
    BY <2>1, <2>2
<1>2. Location = command.locations[at] /\ Location \in AllLocations
  BY <1>1, LocationsAreASequence DEF Location
<1>3. areas \in Seq(Area) /\ area \in Area /\ areas' = Append(areas, area)
  BY <1>2 DEF IInv, AreasInv, Report
<1>4. Len(areas) = at - 1
  BY <1>1 DEF IInv, LossIsReported
<1>5. /\ area.location = command.locations[at] /\ area.error = error
      /\ area.listings = listings
  BY <1>2
<1> HIDE DEF area, Area, n
<1>6. /\ areas' \in Seq(Area) /\ Len(areas') = at /\ areas'[at] = area
      /\ DOMAIN areas' = 1 .. at
      /\ \A i \in 1 .. at - 1 : areas'[i] = areas[i] /\ i \in DOMAIN areas
  <2>1. at \in Nat /\ at - 1 \in Nat /\ (at - 1) + 1 = at
    BY <1>1
  <2>2. areas' \in Seq(Area) /\ Len(areas') = at
    BY <1>3, <1>4, <2>1
  <2>3. DOMAIN areas' = 1 .. at /\ DOMAIN areas = 1 .. at - 1
    BY <1>3, <1>4, <2>2
  <2>4. areas'[at] = area
    BY <1>3, <1>4, <2>1
  <2>5. \A i \in 1 .. at - 1 : areas'[i] = areas[i]
    BY <1>3, <1>4, <2>1
  <2> QED
    BY <2>2, <2>3, <2>4, <2>5
<1>7. /\ at < n => at' = at + 1 /\ stage' = "next" /\ exitStatus' = "running"
      /\ ~(at < n) => /\ at' = at /\ stage' = "ended"
                      /\ exitStatus' = IF Single /\ error # "none" THEN "error" ELSE "ok"
  BY <1>1 DEF Report, n
<1>8. PlaceInv'
  <2>1. at' \in 1 .. n
    BY <1>1, <1>7
  <2>2. stage' \in Stages /\ (stage' = "ended" <=> exitStatus' # "running")
    BY <1>7 DEF Stages
  <2> QED
    BY <1>1, <2>1, <2>2 DEF PlaceInv, n
<1>9. AreasInv'
  BY <1>6 DEF AreasInv, Area
<1>10. ASSUME NEW i \in DOMAIN areas'
       PROVE  /\ areas'[i].location = command.locations[i]
              /\ areas'[i].error = "none" =>
                   areas'[i].listings =
                      {l \in WholeAnswer(command, areas'[i].location) :
                          Inside(areas'[i].location, l)}
  <2>1. CASE i = at
    BY <1>2, <1>5, <1>6, <2>1
  <2>2. CASE i # at
    <3>1. i \in 1 .. at - 1
      <4>1. i \in 1 .. at /\ at \in Nat
        BY <1>1, <1>6
      <4> QED
        BY <2>2, <4>1
    <3> QED
      BY <1>6, <3>1 DEF IInv, LossIsReported
  <2> QED
    BY <2>1, <2>2
<1>11. /\ exitStatus' = "running" => Len(areas') = at' - 1
       /\ exitStatus' = "ok" => Len(areas') = n
       /\ exitStatus' = "ok" /\ Single => areas'[1].error = "none"
  <2>1. CASE at < n
    <3>1. Len(areas') = at' - 1 /\ exitStatus' = "running"
      BY <1>1, <1>6, <1>7, <2>1
    <3> QED
      BY <3>1
  <2>2. CASE ~(at < n)
    <3>1. at = n
      BY <1>1, <2>2
    <3>2. exitStatus' = "ok" /\ Single => error = "none" /\ at = 1
      BY <1>7, <2>2, <3>1 DEF Single, n
    <3> QED
      BY <1>1, <1>5, <1>6, <1>7, <2>2, <3>1, <3>2
  <2> QED
    BY <2>1, <2>2
<1>12. Single' = Single
  BY DEF Single
<1> QED
  BY <1>8, <1>9, <1>10, <1>11, <1>12 DEF LossIsReported, n

\* A lost location is reported, or ends the command with its error.
LEMMA FailStep ==
  ASSUME IInv, stage # "ended", command' = command,
         NEW error \in Failed, Fail(error)
  PROVE  PlaceInv' /\ AreasInv' /\ LossIsReported'
<1>1. CASE Single /\ stage' = "ended"
           /\ exitStatus' = "error" /\ UNCHANGED <<at, areas>>
  <2>1. PlaceInv' /\ AreasInv'
    BY <1>1 DEF IInv, PlaceInv, AreasInv, Stages
  <2>2. LossIsReported'
    BY <1>1 DEF IInv, LossIsReported, Single
  <2> QED
    BY <2>1, <2>2
<1>2. CASE Report(error, {})
  <2>1. error # "none" /\ error \in {"none"} \cup Failed
    BY DEF Failed
  <2> QED
    BY <1>2, <2>1, ReportStep
<1> QED
  BY <1>1, <1>2 DEF Fail

\* While a location is being answered nothing is reported.
LEMMA AnsweringStep ==
  ASSUME IInv, stage # "ended", stage' \in Stages \ {"ended"},
         UNCHANGED <<command, at, areas, exitStatus>>
  PROVE  PlaceInv' /\ AreasInv' /\ LossIsReported'
<1>1. exitStatus = "running"
  BY DEF IInv, PlaceInv
<1>2. PlaceInv' /\ AreasInv'
  BY <1>1 DEF IInv, PlaceInv, AreasInv
<1>3. LossIsReported'
  BY DEF IInv, LossIsReported, Single
<1> QED
  BY <1>2, <1>3

\* Nothing is listed that the site does not hold for some location.
LEMMA AnswersAreListings ==
  ASSUME PlaceInv
  PROVE  /\ Location \in ToSet(command.locations)
         /\ WholeAnswer(command, Location) \subseteq AllListings
<1>1. command \in Commands /\ at \in 1 .. Len(command.locations)
  BY DEF PlaceInv
<1>2. Location \in ToSet(command.locations)
  BY <1>1, LocationsAreASequence DEF Location
<1> QED
  BY <1>1, <1>2 DEF AllListings

LEMMA PlaceStep ==
  ASSUME IInv, [Next]_vars PROVE PlaceInv' /\ AreasInv' /\ LossIsReported'
<1>1. CASE Start
  <2>1. command' \in Commands /\ at' = 1 /\ stage' = "next" /\ exitStatus' = "running"
        /\ areas' = <<>>
    BY <1>1 DEF Start
  <2>2. Len(command'.locations) \in Nat /\ Len(command'.locations) >= 1
    BY <2>1, LocationsAreASequence
  <2>3. at' \in 1 .. Len(command'.locations)
    BY <2>1, <2>2
  <2>4. PlaceInv'
    BY <2>1, <2>3 DEF PlaceInv, Stages
  <2>5. AreasInv'
    <3>1. \A S : <<>> \in Seq(S)
      OBVIOUS
    <3> QED
      BY <2>1, <3>1 DEF AreasInv
  <2>6. LossIsReported'
    <3>1. Len(areas') = 0 /\ DOMAIN areas' = {}
      BY <2>1
    <3> QED
      BY <2>1, <3>1 DEF LossIsReported
  <2> QED
    BY <2>4, <2>5, <2>6
<1>2. CASE NoSuchPlace
  BY <1>2, FailStep DEF NoSuchPlace, Failed
<1>3. CASE CacheHit \/ CacheMiss \/ Fetching \/ FetchedWhole \/ FetchedPart
           \/ BackOff \/ FetchAgain
  <2>1. /\ stage # "ended" /\ stage' \in Stages \ {"ended"}
        /\ UNCHANGED <<command, at, areas, exitStatus>>
    BY <1>3 DEF CacheHit, CacheMiss, Fetching, FetchedWhole, FetchedPart, BackOff,
                FetchAgain, Stages
  <2> QED
    BY <2>1, AnsweringStep
<1>4. CASE FetchLost
  BY <1>4, FailStep DEF FetchLost, Failed
<1>5. CASE ReportArea
  <2> DEFINE kept == {l \in answer : Inside(Location, l)}
             error == IF partial THEN "incomplete discovery" ELSE "none"
  <2>1. stage = "report" /\ command' = command
    BY <1>5 DEF ReportArea
  <2>2. CASE Fail("outside the state")
    BY <2>1, <2>2, FailStep DEF Failed
  <2>3. CASE Report(error, kept)
    <3>1. error \in {"none"} \cup Failed
      BY DEF Failed
    <3>2. kept \in SUBSET AllListings
      <4>1. answer \subseteq WholeAnswer(command, Location)
        BY <2>1 DEF IInv, AnswerInv
      <4> QED
        BY <4>1, AnswersAreListings DEF IInv
    <3>3. error = "none" =>
            kept = {l \in WholeAnswer(command, Location) : Inside(Location, l)}
      BY <2>1 DEF IInv, AnswerInv
    <3> HIDE DEF kept, error
    <3> QED
      BY <2>1, <2>3, <3>1, <3>2, <3>3, ReportStep
  <2> QED
    BY <1>5, <2>2, <2>3 DEF ReportArea
<1>6. CASE Expire \/ Over \/ UNCHANGED vars
  <2>1. UNCHANGED <<command, at, stage, areas, exitStatus>>
    BY <1>6 DEF Expire, Over, vars, loopVars
  <2> QED
    BY <2>1 DEF IInv, PlaceInv, AreasInv, LossIsReported, Single
<1> QED
  BY <1>1, <1>2, <1>3, <1>4, <1>5, <1>6 DEF Next

-----------------------------------------------------------------------------
(* Answers.                                                                *)

LEMMA AnswerStep ==
  ASSUME IInv, [Next]_vars PROVE AnswerInv'
<1>1. CASE CacheHit
  <2> DEFINE key == CacheKey(command, Location)
  <2>1. command \in Commands /\ Location \in ToSet(command.locations)
    BY AnswersAreListings DEF IInv, PlaceInv
  <2>2. /\ key \in DOMAIN cache /\ answer' = cache[key]
        /\ stage' = "report" /\ UNCHANGED <<command, at, partial>>
    BY <1>1 DEF CacheHit
  <2>3. cache[key] = WholeAnswer(command, Location)
    BY <2>1, <2>2 DEF IInv, CacheHoldsWholeAnswers
  <2>4. Location' = Location
    BY <2>2 DEF Location
  <2>5. WholeAnswer(command, Location)' = WholeAnswer(command, Location)
    BY <2>2, <2>4 DEF WholeAnswer, PagesFor
  <2> QED
    BY <2>2, <2>3, <2>5 DEF AnswerInv
<1>2. CASE CacheMiss \/ FetchAgain
  <2>1. stage' = "fetch" /\ BeginFetch /\ stage # "report"
        /\ UNCHANGED <<command, partial>>
    BY <1>2 DEF CacheMiss, FetchAgain
  <2> QED
    BY <2>1 DEF BeginFetch, IInv, AnswerInv
<1>3. CASE Fetching
  <2>1. stage = "fetch" /\ stage' = "fetch" /\ UNCHANGED <<command, partial>>
        /\ (Ask \/ GiveUp)
    BY <1>3 DEF Fetching
  <2>2. parts' = parts /\ (covered \subseteq parts => covered' \subseteq parts')
    BY <2>1 DEF Ask, GiveUp
  <2> QED
    BY <2>1, <2>2 DEF IInv, AnswerInv
<1>4. CASE FetchedWhole
  <2>1. /\ answer' = WholeAnswer(command, Location) /\ stage = "fetch"
        /\ stage' = "report" /\ UNCHANGED <<command, at, partial>>
    BY <1>4 DEF FetchedWhole
  <2>2. Location' = Location
    BY <2>1 DEF Location
  <2>3. WholeAnswer(command, Location)' = WholeAnswer(command, Location)
    BY <2>1, <2>2 DEF WholeAnswer, PagesFor
  <2> QED
    BY <2>1, <2>3 DEF AnswerInv
<1>5. CASE FetchedPart
  <2>1. /\ stage = "fetch" /\ command.discovery /\ partial' = TRUE
        /\ stage' = "report" /\ UNCHANGED <<command, at>>
    BY <1>5 DEF FetchedPart
  <2>2. covered \subseteq Parts
    BY <2>1 DEF IInv, AnswerInv
  <2>3. UNION {Held(Target(Location), r, PagesFor(command, Location)) : r \in covered}
          \subseteq WholeAnswer(command, Location)
    BY <2>1, <2>2 DEF WholeAnswer
  <2>4. answer' \subseteq WholeAnswer(command, Location)
    BY <1>5, <2>3 DEF FetchedPart
  <2>5. Location' = Location
    BY <2>1 DEF Location
  <2>6. WholeAnswer(command, Location)' = WholeAnswer(command, Location)
    BY <2>1, <2>5 DEF WholeAnswer, PagesFor
  <2> QED
    BY <2>1, <2>4, <2>6 DEF AnswerInv
<1>6. CASE BackOff
  BY <1>6 DEF BackOff, IInv, AnswerInv
<1>7. CASE Start \/ NoSuchPlace \/ FetchLost \/ ReportArea
  <2>1. stage' \in {"next", "ended"} /\ partial' = FALSE
    BY <1>7 DEF Start, NoSuchPlace, FetchLost, ReportArea, Fail, Report
  <2> QED
    BY <2>1 DEF AnswerInv
<1>8. CASE Expire \/ Over \/ UNCHANGED vars
  <2>1. /\ UNCHANGED <<command, at, stage, answer, partial>>
        /\ UNCHANGED <<parts, covered>>
    BY <1>8 DEF Expire, Over, vars, loopVars, fetchVars
  <2>2. Location' = Location
    BY <2>1 DEF Location
  <2>3. WholeAnswer(command, Location)' = WholeAnswer(command, Location)
    BY <2>1, <2>2 DEF WholeAnswer, PagesFor
  <2> QED
    BY <2>1, <2>3 DEF IInv, AnswerInv
<1> QED
  BY <1>1, <1>2, <1>3, <1>4, <1>5, <1>6, <1>7, <1>8 DEF Next

-----------------------------------------------------------------------------
(* Costs.                                                                  *)

LEMMA CostStep ==
  ASSUME IInv, [Next]_vars PROVE CostInv'
<1> DEFINE b == FetchBudget(command, Location)
           r == LocationRetries(command.discovery, command.retries)
<1>1. command \in Commands /\ command.discovery \in BOOLEAN
  BY SearchAssumption DEF IInv, PlaceInv, SearchAssumption
<1>2. b \in Nat /\ r \in Nat /\ (~command.discovery => b = 1)
      /\ (command.discovery => r = 0)
  BY <1>1, BudgetIsNatural DEF LocationRetries
<1>3. /\ attempt \in Nat /\ spent \in Nat /\ asked \in Nat /\ attempt <= r
      /\ stage = "next" => attempt = 0 /\ spent = 0
      /\ stage = "fetch" => budget = b /\ asked <= b /\ spent <= attempt + asked
      /\ stage = "backoff" => ~command.discovery /\ spent <= attempt
      /\ stage = "report" => spent <= attempt + b
  BY DEF IInv, CostInv
<1>4. command' = command /\ at' = at => b' = b /\ r' = r
  BY DEF Location, FetchBudget, PagesFor
<1>5. ASSUME command' = command, at' = at, attempt' \in Nat, spent' \in Nat,
             asked' \in Nat, attempt' <= r,
             stage' = "next" => attempt' = 0 /\ spent' = 0,
             stage' = "fetch" => budget' = b /\ asked' <= b /\ spent' <= attempt' + asked',
             stage' = "backoff" => ~command.discovery /\ spent' <= attempt',
             stage' = "report" => spent' <= attempt' + b
      PROVE  CostInv'
  BY <1>4, <1>5 DEF CostInv
<1> HIDE DEF b, r
<1>6. CASE Start \/ NoSuchPlace \/ FetchLost \/ ReportArea
  <2>1. /\ command' \in Commands /\ stage' \in {"next", "ended"}
        /\ attempt' = 0 /\ spent' = 0 /\ asked' = asked
    BY <1>1, <1>6 DEF Start, NoSuchPlace, FetchLost, ReportArea, Fail, Report, fetchVars
  <2>2. LocationRetries(command'.discovery, command'.retries) \in Nat
    BY <2>1, BudgetIsNatural DEF LocationRetries
  <2> QED
    BY <1>3, <2>1, <2>2 DEF CostInv
<1>7. CASE CacheHit
  <2>1. /\ stage = "next" /\ stage' = "report"
        /\ UNCHANGED <<command, at, attempt, spent, asked>>
    BY <1>7 DEF CacheHit, fetchVars
  <2> QED
    BY <1>2, <1>3, <1>5, <2>1
<1>8. CASE CacheMiss \/ FetchAgain
  <2>1. /\ stage \in {"next", "backoff"} /\ stage' = "fetch" /\ asked' = 0 /\ budget' = b
        /\ UNCHANGED <<command, at, attempt, spent>>
    BY <1>8 DEF CacheMiss, FetchAgain, BeginFetch, b
  <2>2. spent <= attempt + 0
    BY <1>3, <2>1
  <2> QED
    BY <1>2, <1>3, <1>5, <2>1, <2>2
<1>9. CASE Fetching
  <2>1. /\ stage = "fetch" /\ stage' = "fetch" /\ budget' = budget
        /\ spent' = spent + (asked' - asked)
        /\ UNCHANGED <<command, at, attempt>>
        /\ \/ asked < budget /\ asked' = asked + 1
           \/ asked' = asked
    BY <1>9 DEF Fetching, Ask, GiveUp
  <2>2. budget = b /\ asked <= b /\ spent <= attempt + asked
    BY <1>3, <2>1
  <2>3. asked' \in Nat /\ asked' <= b /\ spent' \in Nat /\ spent' <= attempt + asked'
    BY <1>2, <1>3, <2>1, <2>2
  <2> QED
    BY <1>3, <1>5, <2>1, <2>2, <2>3
<1>10. CASE FetchedWhole \/ FetchedPart
  <2>1. /\ stage = "fetch" /\ stage' = "report"
        /\ UNCHANGED <<command, at, attempt, spent, asked>>
    BY <1>10 DEF FetchedWhole, FetchedPart, fetchVars
  <2>2. spent <= attempt + b
    BY <1>2, <1>3, <2>1
  <2> QED
    BY <1>3, <1>5, <2>1, <2>2
<1>11. CASE BackOff
  <2>1. /\ stage = "fetch" /\ stage' = "backoff" /\ attempt < r /\ attempt' = attempt + 1
        /\ UNCHANGED <<command, at, spent, asked>>
    BY <1>11 DEF BackOff, fetchVars, r
  <2>2. ~command.discovery
    BY <1>2, <1>3, <2>1
  <2>3. b = 1
    BY <1>2, <2>2
  <2>4. attempt' \in Nat /\ attempt' <= r /\ spent <= attempt'
    BY <1>2, <1>3, <2>1, <2>3
  <2> QED
    BY <1>3, <1>5, <2>1, <2>2, <2>4
<1>12. CASE Expire \/ Over \/ UNCHANGED vars
  <2>1. UNCHANGED <<command, at, stage, attempt, spent, asked, budget>>
    BY <1>12 DEF Expire, Over, vars, loopVars, fetchVars
  <2> QED
    BY <1>3, <1>5, <2>1
<1> QED
  BY <1>6, <1>7, <1>8, <1>9, <1>10, <1>11, <1>12 DEF Next

-----------------------------------------------------------------------------
(* The theorems.                                                           *)

\* The invariant holds of every run of commands.
THEOREM Inductive == Spec => []IInv
<1>1. IInv /\ [Next]_vars => IInv'
  BY PlaceStep, AnswerStep, CostStep, CacheStep DEF IInv
<1> QED
  BY IInvInit, <1>1, PTL DEF Spec

\* CacheHoldsWholeAnswers: no loss, cap or boundary of the command that wrote
\* an entry shows in it (saved at search.go:525, filtered from search.go:541).
THEOREM CacheIsWhole == Spec => []CacheHoldsWholeAnswers
<1>1. IInv => CacheHoldsWholeAnswers
  BY DEF IInv
<1> QED
  BY Inductive, <1>1, PTL

\* LossIsReported: an area without an error is complete within its boundary,
\* the areas follow the locations, and a single search that lost a page does
\* not succeed.
THEOREM ReportIsTrue == Spec => []LossIsReported
<1>1. IInv => LossIsReported
  BY DEF IInv
<1> QED
  BY Inductive, <1>1, PTL

\* RequestsStayLinear: pages and whole locations never multiply the retries.
THEOREM RetriesAreSpentOnce == Spec => []RequestsStayLinear
<1>1. ASSUME IInv PROVE RequestsStayLinear
  <2> DEFINE cost == 1 + PagesFor(command, Location) * Cardinality(Parts)
             b == FetchBudget(command, Location)
  <2>1. command \in Commands /\ command.discovery \in BOOLEAN /\ stage \in Stages
    BY <1>1, SearchAssumption DEF IInv, PlaceInv, SearchAssumption
  <2>2. b \in Nat /\ command.retries \in Nat /\ (~command.discovery => b = 1)
    BY <2>1, BudgetIsNatural
  <2>3. command.discovery => b = (command.retries + 1) * cost
    BY DEF FetchBudget
  <2>4. attempt \in Nat /\ spent \in Nat /\ asked \in Nat
        /\ attempt <= LocationRetries(command.discovery, command.retries)
    BY <1>1 DEF IInv, CostInv
  <2>5. stage # "ended" => spent <= attempt + b
    <3>1. CASE stage = "fetch"
      <4>1. asked <= b /\ spent <= attempt + asked
        BY <1>1, <3>1 DEF IInv, CostInv
      <4> HIDE DEF b
      <4> QED
        BY <2>2, <2>4, <4>1
    <3>2. CASE stage = "next"
      <4>1. spent = 0
        BY <1>1, <3>2 DEF IInv, CostInv
      <4> HIDE DEF b
      <4> QED
        BY <2>2, <2>4, <4>1
    <3>3. CASE stage = "backoff"
      <4>1. spent <= attempt
        BY <1>1, <3>3 DEF IInv, CostInv
      <4> HIDE DEF b
      <4> QED
        BY <2>2, <2>4, <4>1
    <3>4. CASE stage = "report"
      BY <1>1, <3>4 DEF IInv, CostInv
    <3> QED
      BY <2>1, <3>1, <3>2, <3>3, <3>4 DEF Stages
  <2>6. ASSUME command.discovery, stage # "ended"
        PROVE  spent <= (command.retries + 1) * cost
    <3>1. attempt = 0
      BY <2>4, <2>6 DEF LocationRetries
    <3>2. spent <= b
      <4> HIDE DEF b
      <4> QED
        BY <2>2, <2>4, <2>5, <2>6, <3>1
    <3> QED
      BY <2>3, <2>6, <3>2
  <2>7. ASSUME ~command.discovery, stage # "ended"
        PROVE  spent <= (command.retries + 1) * 1
    <3>1. attempt <= command.retries /\ b = 1
      BY <2>2, <2>4, <2>7 DEF LocationRetries
    <3> HIDE DEF b
    <3>2. spent <= attempt + 1
      BY <2>5, <2>7, <3>1
    <3>3. spent <= command.retries + 1
      BY <2>2, <2>4, <3>1, <3>2
    <3> QED
      BY <2>2, <3>3
  <2> QED
    BY <2>1, <2>6, <2>7 DEF RequestsStayLinear
<1> QED
  BY Inductive, <1>1, PTL

-----------------------------------------------------------------------------
(* The waits.                                                              *)

USE RetryAssumption DEF RetryAssumption

\* A duration that fits is not wrapped.
LEMMA WrapFits ==
  ASSUME NEW n \in Int, -Half <= n, n < Half
  PROVE  Wrap(n) = n
<1>1. 2 * Half \in Nat /\ 2 * Half > 0 /\ n + Half \in 0 .. 2 * Half - 1
  OBVIOUS
<1>2. \A m \in Nat \ {0} : \A k \in 0 .. m - 1 : k % m = k
  OBVIOUS
<1>3. (n + Half) % (2 * Half) = n + Half
  BY <1>1, <1>2
<1> QED
  BY <1>3 DEF Wrap

LEMMA WrapIsInt ==
  ASSUME NEW n \in Int
  PROVE  Wrap(n) \in Int
<1>1. 2 * Half \in Nat /\ 2 * Half > 0 /\ n + Half \in Int
  OBVIOUS
<1>2. \A m \in Nat \ {0} : \A k \in Int : k % m \in Int
  OBVIOUS
<1>3. (n + Half) % (2 * Half) \in Int
  BY <1>1, <1>2
<1> QED
  BY <1>3 DEF Wrap

LEMMA PowerOfTwoIs ==
  /\ PowerOfTwo[0] = 1
  /\ \A n \in Nat : PowerOfTwo[n] \in Nat \ {0} /\ PowerOfTwo[n + 1] = 2 * PowerOfTwo[n]
<1> DEFINE step == [x \in (Nat \ {0}) \X Int |-> 2 * x[2]]
           Is(f) == f = [n \in Nat |-> IF n = 0 THEN 1 ELSE 2 * f[n - 1]]
<1>1. step \in [(Nat \ {0}) \X Int -> Int]
  OBVIOUS
<1>2. \E f \in [Nat -> Int] : RecursiveOnNat(f, 1, step)
  <2> HIDE DEF step
  <2> QED
    BY <1>1, RecursionOnNat
<1>3. PICK f \in [Nat -> Int] : RecursiveOnNat(f, 1, step)
  BY <1>2
<1>4. Is(f)
  <2>1. \A n \in Nat : n # 0 => step[<<n, f[n - 1]>>] = 2 * f[n - 1]
    OBVIOUS
  <2> HIDE DEF step
  <2> QED
    BY <1>3, <2>1 DEF RecursiveOnNat
<1>5. Is(PowerOfTwo)
  BY <1>4 DEF PowerOfTwo
<1>6. PowerOfTwo[0] = 1
  BY <1>5
<1>7. \A n \in Nat : PowerOfTwo[n + 1] = 2 * PowerOfTwo[n]
  <2> SUFFICES ASSUME NEW n \in Nat PROVE PowerOfTwo[n + 1] = 2 * PowerOfTwo[n]
    OBVIOUS
  <2>1. n + 1 \in Nat /\ n + 1 # 0 /\ (n + 1) - 1 = n
    OBVIOUS
  <2> QED
    BY <1>5, <2>1
<1> HIDE DEF Is
<1> DEFINE S == {n \in Nat : PowerOfTwo[n] \in Nat \ {0}}
<1>8. 0 \in S /\ \A n \in Nat : n \in S => n + 1 \in S
  BY <1>6, <1>7
<1> HIDE DEF S
<1>9. Nat \subseteq S
  BY <1>8, SetInduction
<1> QED
  BY <1>6, <1>7, <1>9 DEF S

\* The delays of the code, one doubling after the other.
LEMMA DoublingIs ==
  ASSUME NEW base \in Nat
  PROVE  /\ Doubling(base)[0] = base
         /\ \A n \in Nat :
              /\ Doubling(base)[n] \in Int
              /\ Doubling(base)[n + 1] =
                   IF 2 * Doubling(base)[n] >= Ceiling THEN Ceiling
                   ELSE Wrap(2 * Doubling(base)[n])
<1> DEFINE Longer(d) == IF 2 * d >= Ceiling THEN Ceiling ELSE Wrap(2 * d)
           step == [x \in (Nat \ {0}) \X Int |-> Longer(x[2])]
           Is(f) == f = [n \in Nat |-> IF n = 0 THEN base ELSE Longer(f[n - 1])]
           D == Doubling(base)
<1>1. \A d \in Int : Longer(d) \in Int
  BY WrapIsInt
<1>2. D = CHOOSE f : Is(f)
  BY DEF Doubling
<1> HIDE DEF Longer, D
<1>3. step \in [(Nat \ {0}) \X Int -> Int]
  BY <1>1
<1>4. \E f \in [Nat -> Int] : RecursiveOnNat(f, base, step)
  <2>1. base \in Int
    OBVIOUS
  <2> HIDE DEF step
  <2> QED
    BY <1>3, <2>1, RecursionOnNat
<1>5. PICK f \in [Nat -> Int] : RecursiveOnNat(f, base, step)
  BY <1>4
<1>6. Is(f)
  <2>1. \A n \in Nat : n # 0 => step[<<n, f[n - 1]>>] = Longer(f[n - 1])
    OBVIOUS
  <2> HIDE DEF step
  <2> QED
    BY <1>5, <2>1 DEF RecursiveOnNat
<1>7. Is(D)
  BY <1>2, <1>6
<1>8. D[0] = base
  BY <1>7
<1>9. \A n \in Nat : D[n + 1] = Longer(D[n])
  <2> SUFFICES ASSUME NEW n \in Nat PROVE D[n + 1] = Longer(D[n])
    OBVIOUS
  <2>1. n + 1 \in Nat /\ n + 1 # 0 /\ (n + 1) - 1 = n
    OBVIOUS
  <2> QED
    BY <1>7, <2>1
<1> HIDE DEF Is
<1> DEFINE S == {n \in Nat : D[n] \in Int}
<1>10. 0 \in S /\ \A n \in Nat : n \in S => n + 1 \in S
  BY <1>1, <1>8, <1>9
<1> HIDE DEF S
<1>11. Nat \subseteq S
  BY <1>10, SetInduction
<1> QED
  BY <1>8, <1>9, <1>11 DEF S, D, Longer

Capped(n) == IF n > Ceiling THEN Ceiling ELSE n

\* The backoff doubles exactly until the ceiling: it never wraps on its way.
LEMMA BackoffDoubles ==
  ASSUME NEW base \in Nat, NEW tries \in Nat
  PROVE  /\ base * PowerOfTwo[tries] \in Nat
         /\ base * PowerOfTwo[tries + 1] = 2 * (base * PowerOfTwo[tries])
         /\ Backoff(base, tries) = Capped(base * PowerOfTwo[tries])
<1> DEFINE E(n) == base * PowerOfTwo[n]
           D(n) == Doubling(base)[n]
<1>1. E(0) = base /\ \A n \in Nat : E(n) \in Nat /\ E(n + 1) = 2 * E(n)
  <2>1. PowerOfTwo[0] = 1 /\ \A n \in Nat : PowerOfTwo[n] \in Nat /\ PowerOfTwo[n + 1] = 2 * PowerOfTwo[n]
    BY PowerOfTwoIs
  <2>2. \A p \in Nat : base * p \in Nat /\ base * (2 * p) = 2 * (base * p)
    OBVIOUS
  <2> QED
    BY <2>1, <2>2
<1>2. D(0) = base /\ \A n \in Nat : /\ D(n) \in Int
                                    /\ D(n + 1) = IF 2 * D(n) >= Ceiling THEN Ceiling ELSE Wrap(2 * D(n))
  BY DoublingIs
<1> HIDE DEF E, D
<1> DEFINE S == {n \in Nat : D(n) >= 0 /\ Capped(D(n)) = Capped(E(n))}
<1>3. 0 \in S
  BY <1>1, <1>2
<1>4. ASSUME NEW n \in Nat, n \in S PROVE n + 1 \in S
  <2>1. D(n) \in Nat /\ E(n) \in Nat /\ Capped(D(n)) = Capped(E(n)) /\ E(n + 1) = 2 * E(n)
    BY <1>1, <1>2, <1>4
  <2>2. CASE 2 * D(n) >= Ceiling
    <3>1. D(n + 1) = Ceiling
      BY <1>2, <2>2
    <3> QED
      BY <2>1, <2>2, <3>1 DEF Capped
  <2>3. CASE ~(2 * D(n) >= Ceiling)
    <3>1. Wrap(2 * D(n)) = 2 * D(n)
      BY <2>1, <2>3, WrapFits
    <3>2. D(n + 1) = 2 * D(n)
      BY <1>2, <2>3, <3>1
    <3> QED
      BY <2>1, <2>3, <3>2 DEF Capped
  <2> QED
    BY <2>2, <2>3
<1> HIDE DEF S
<1>5. tries \in S
  BY <1>3, <1>4, SetInduction
<1>6. Backoff(base, tries) = Capped(E(tries))
  <2>1. CASE base = 0
    <3>1. E(tries) = 0
      <4>1. \A p \in Nat : 0 * p = 0
        OBVIOUS
      <4> QED
        BY <2>1, <4>1, PowerOfTwoIs DEF E
    <3> QED
      BY <2>1, <3>1 DEF Backoff, Capped
  <2>2. CASE base > 0
    BY <1>5, <2>2 DEF S, D, Backoff, Capped
  <2> QED
    BY <2>1, <2>2
<1> QED
  BY <1>1, <1>6 DEF E

\* Every wait of a refused request, for every base, every tries and every
\* count of seconds in a Retry-After header, however it overflows.
THEOREM EveryWaitIsSound ==
  ASSUME NEW base \in Nat, NEW tries \in Nat, NEW seconds \in Int
  PROVE  WaitIsSound(base, tries, seconds)
<1> DEFINE e == base * PowerOfTwo[tries]
           header == RetryAfter(seconds)
<1>1. e \in Nat /\ Backoff(base, tries) = Capped(e)
      /\ Backoff(base, tries + 1) = Capped(2 * e)
  <2>1. tries + 1 \in Nat
    OBVIOUS
  <2> QED
    BY <2>1, BackoffDoubles
<1>2. header \in Int
  BY WrapIsInt DEF RetryAfter
<1>3. seconds >= 0 /\ seconds * Second < Half => header = seconds * Second
  <2> SUFFICES ASSUME seconds >= 0, seconds * Second < Half
               PROVE  header = seconds * Second
    OBVIOUS
  <2>1. seconds * Second \in Int /\ seconds * Second >= 0
    OBVIOUS
  <2> QED
    BY <2>1, WrapFits DEF RetryAfter
<1> HIDE DEF e, header
<1>4. /\ Wait(base, tries, seconds) = IF header > Capped(e) THEN header ELSE Capped(e)
      /\ Wait(base, tries + 1, seconds) = IF header > Capped(2 * e) THEN header ELSE Capped(2 * e)
  BY <1>1 DEF Wait, header
<1>5. Capped(e) \in Int /\ Capped(2 * e) \in Int /\ Capped(e) <= Capped(2 * e)
  BY <1>1 DEF Capped
<1>6. seconds * Second \in Int
  OBVIOUS
<1>7. Wait(base, tries, seconds) \in {Capped(e), header}
      /\ Wait(base, tries, seconds) >= Capped(e)
      /\ Wait(base, tries, seconds) >= header
      /\ Wait(base, tries, seconds) <= Wait(base, tries + 1, seconds)
  BY <1>2, <1>4, <1>5
<1> QED
  BY <1>3, <1>7 DEF WaitIsSound, Capped, e, header

-----------------------------------------------------------------------------
(* The requests.                                                           *)

HIDE RetryAssumption DEF RetryAssumption

Http == INSTANCE HttpExchange

\* What a server may answer: a status, the URLs of its Location header, the
\* headers and the body that execute looks at.
WebURLs == [scheme : STRING, user : BOOLEAN, port : BOOLEAN, host : STRING]
Bodies  == [size : Nat, shape : STRING, next : BOOLEAN, marker : BOOLEAN]
Answers == [status : Nat, location : Seq(WebURLs), blocked : STRING, type : STRING,
            body : Bodies]

\* A chain of redirects has a last answer, after at most ten requests.
LEMMA ChainEnds ==
  ASSUME NEW answers \in Seq(Answers), answers # <<>>
  PROVE  LET n == Http!LastAnswer(answers) IN
         /\ n \in DOMAIN answers
         /\ \A j \in 1 .. n - 1 : Http!Follows(answers[j], j)
<1> DEFINE Goes(j) == Http!Redirects(answers[j]) /\ Http!Follows(answers[j], j)
           Ends(i) == /\ ~Http!Redirects(answers[i]) \/ ~Http!Follows(answers[i], i) \/ i = Len(answers)
                      /\ \A j \in 1 .. i - 1 : Goes(j)
           S == {n \in Nat : n <= Len(answers) =>
                   (\E i \in DOMAIN answers : Ends(i)) \/ \A j \in 1 .. n : Goes(j)}
<1>1. Len(answers) \in Nat \ {0} /\ DOMAIN answers = 1 .. Len(answers)
  OBVIOUS
<1>2. 0 \in S
  OBVIOUS
<1>3. ASSUME NEW n \in Nat, n \in S PROVE n + 1 \in S
  <2> HIDE DEF Goes
  <2> SUFFICES ASSUME n + 1 <= Len(answers), ~\E i \in DOMAIN answers : Ends(i)
               PROVE  \A j \in 1 .. n + 1 : Goes(j)
    BY <1>1
  <2>1. \A j \in 1 .. n : Goes(j)
    BY <1>1, <1>3
  <2>2. n + 1 \in DOMAIN answers /\ (n + 1) - 1 = n
    BY <1>1
  <2>3. Goes(n + 1)
    BY <2>1, <2>2 DEF Goes
  <2>4. \A j \in 1 .. n + 1 : j \in 1 .. n \/ j = n + 1
    OBVIOUS
  <2> QED
    BY <2>1, <2>3, <2>4
<1>4. \E i \in DOMAIN answers : Ends(i)
  <2> HIDE DEF Goes, S
  <2>1. Len(answers) \in S
    BY <1>1, <1>2, <1>3, SetInduction
  <2>2. CASE \A j \in 1 .. Len(answers) : Goes(j)
    <3>1. \A j \in 1 .. Len(answers) - 1 : j \in 1 .. Len(answers)
      BY <1>1
    <3>2. Len(answers) \in DOMAIN answers
      BY <1>1
    <3> QED
      BY <2>2, <3>1, <3>2
  <2> QED
    BY <1>1, <2>1, <2>2 DEF S
<1> DEFINE n == Http!LastAnswer(answers)
<1>5. n \in DOMAIN answers /\ Ends(n)
  BY <1>4 DEF Http!LastAnswer
<1> QED
  BY <1>5

\* An answer that the client has read is taken for what it is.
LEMMA AnswerIsTakenRight ==
  ASSUME NEW kind \in {"html", "json"}, NEW r \in Answers, NEW limit \in Nat
  PROVE  LET taken == Http!Outcome(kind, r, limit) IN
         /\ r.status # 0 /\ r.body.size <= limit /\ Http!Declines(kind, r)
              => taken \in {"challenge", "rate limit"}
         /\ r.status # 0 /\ r.body.size <= limit /\ Http!Serves(kind, r)
              => taken = "data"
         /\ taken = "data" => r.status # 0 /\ r.body.size <= limit /\ Http!Success(r)
<1> DEFINE taken == Http!Outcome(kind, r, limit)
<1>1. CASE r.status = 0
  BY <1>1 DEF Http!Outcome, Http!Success, Answers, Bodies
<1>2. CASE r.status # 0 /\ ~(r.body.size <= limit)
  <2>1. r.body.size \in Nat /\ r.body.size > limit
    BY <1>2 DEF Answers, Bodies
  <2>2. taken = "too large"
    BY <1>2, <2>1 DEF Http!Outcome
  <2> QED
    BY <1>2, <2>2
<1>3. CASE r.status # 0 /\ r.body.size <= limit
  <2>0. /\ r.status \in Nat /\ r.body.size \in Nat
        /\ r.body.next \in BOOLEAN /\ r.body.marker \in BOOLEAN
    BY DEF Answers, Bodies
  <2> DEFINE class == IF Http!Blocked(r) THEN "challenge"
                      ELSE IF r.status = 429 THEN "rate limit"
                      ELSE IF Http!Challenge(kind, r) THEN "challenge"
                      ELSE IF ~Http!Success(r) THEN "status"
                      ELSE IF kind = "json" /\ ~Http!IsJSON(r) THEN "drift"
                      ELSE "data"
  <2>1. taken = class
    <3>1. taken = CASE r.status = 0 -> "failed"
                    [] r.status # 0 /\ r.body.size > limit -> "too large"
                    [] OTHER -> class
      BY DEF Http!Outcome
    <3>2. ~(r.status = 0) /\ ~(r.body.size > limit)
      BY <1>3, <2>0
    <3> HIDE DEF class, taken
    <3> QED
      BY <3>1, <3>2
  <2> HIDE DEF taken
  <2>2. Http!Declines(kind, r) => Http!Blocked(r) \/ r.status = 429 \/ Http!Challenge(kind, r)
    BY <2>0 DEF Http!Declines, Http!Challenge, Http!ChallengeShaped, Http!Rendered, Http!Success,
           Http!IsHTML
  <2>3. Http!Serves(kind, r) =>
          /\ ~Http!Blocked(r) /\ r.status # 429 /\ ~Http!Challenge(kind, r) /\ Http!Success(r)
          /\ kind = "json" => Http!IsJSON(r)
    BY <2>0 DEF Http!Serves, Http!Challenge, Http!ChallengeShaped, Http!Rendered, Http!Success,
           Http!IsJSON, Http!IsHTML
  <2>4. taken = "data" => Http!Success(r)
    BY <2>1
  <2> QED
    BY <1>3, <2>1, <2>2, <2>3, <2>4 DEF taken
<1> QED
  BY <1>1, <1>2, <1>3

\* Whatever a server answers, however often it redirects: what declines to serve
\* is retried and never becomes data, what serves is data, and no request leaves
\* the site, exceeds ten hops or carries a header the client owns for others.
THEOREM EveryExchangeIsSound ==
  ASSUME NEW options, options.limit \in Int,
         NEW spec, spec.kind \in {"html", "json"},
         NEW answers \in Seq(Answers), answers # <<>>
  PROVE  Http!ExchangeIsSound(options, spec, answers)
<1> DEFINE c == Http!ClientOf(options)
           x == Http!Exchange(spec, answers, c.limit)
           n == Http!LastAnswer(answers)
           r == answers[n]
           read == /\ x.asked # <<>> /\ ~Http!Redirects(r) /\ r.status # 0
                   /\ r.body.size <= c.limit
<1> DEFINE Sound ==
                    /\ \A u \in Http!ToSet(x.asked) : Http!AllowedURL(u)
                    /\ Len(x.asked) <= Http!MaxHops
                    /\ read /\ Http!Declines(spec.kind, r) => x.outcome \in {"challenge", "rate limit"}
                    /\ read /\ Http!Serves(spec.kind, r) => x.outcome = "data"
                    /\ x.outcome = "data" => read /\ Http!Success(r)
                    /\ "cookie" \notin Http!Headers(c, spec)
<1> SUFFICES ASSUME Http!ValidClient(options) PROVE Sound
  BY Zenon DEF Http!ExchangeIsSound
<1>1. c.limit \in Nat
  BY DEF Http!ClientOf, Http!DefaultMaxResponse, Http!ValidClient
<1>2. n \in DOMAIN answers /\ \A j \in 1 .. n - 1 : Http!Follows(answers[j], j)
  BY ChainEnds
<1>3. r \in Answers /\ n \in Nat \ {0}
  BY <1>2
<1>4. "cookie" \notin Http!Headers(c, spec)
  <2>1. c.headers = options.headers
    BY DEF Http!ClientOf
  <2>2. \A f \in options.headers : f.name \in Http!AllowedBrowserHeaders
    BY DEF Http!ValidClient, Http!ValidBrowserHeaders
  <2>3. "cookie" \notin Http!AllowedBrowserHeaders
    BY DEF Http!AllowedBrowserHeaders
  <2> QED
    BY <2>1, <2>2, <2>3 DEF Http!Headers
<1> HIDE DEF c, n
<1>5. CASE ~Http!AllowedURL(spec.url)
  <2>1. x.asked = <<>> /\ x.outcome = "refused"
    BY <1>5 DEF Http!Exchange
  <2> HIDE DEF x
  <2>2. Http!ToSet(x.asked) = {} /\ Len(x.asked) = 0
    BY <2>1 DEF Http!ToSet
  <2> QED
    BY <1>4, <2>1, <2>2 DEF Http!MaxHops
<1>6. CASE Http!AllowedURL(spec.url)
  <2> DEFINE followed == [i \in 1 .. n - 1 |-> answers[i].location[1]]
  <2>1. /\ x.asked = <<spec.url>> \o followed
        /\ x.outcome = IF Http!Redirects(r) THEN "failed" ELSE Http!Outcome(spec.kind, r, c.limit)
    BY <1>6 DEF Http!Exchange, n
  <2> HIDE DEF x
  <2>2. /\ Len(x.asked) = n /\ DOMAIN x.asked = 1 .. n
        /\ \A i \in 1 .. n : Http!AllowedURL(x.asked[i])
    <3>1. \A i \in 1 .. n - 1 : Http!AllowedURL(answers[i].location[1])
      BY <1>2 DEF Http!Follows
    <3> DEFINE Hops == {answers[i].location[1] : i \in 1 .. n - 1} \cup {spec.url}
    <3>2. followed \in Seq(Hops) /\ Len(followed) = n - 1
      BY <1>3
    <3>3. <<spec.url>> \in Seq(Hops) /\ Len(<<spec.url>>) = 1 /\ <<spec.url>>[1] = spec.url
      OBVIOUS
    <3>4. \A i \in 1 .. n - 1 : followed[i] = answers[i].location[1]
      OBVIOUS
    <3> HIDE DEF followed, Hops
    <3>5. Len(x.asked) = n /\ DOMAIN x.asked = 1 .. n
      BY <1>3, <2>1, <3>2, <3>3
    <3>6. ASSUME NEW i \in 1 .. n
          PROVE  x.asked[i] = IF i = 1 THEN spec.url ELSE followed[i - 1]
      BY <1>3, <2>1, <3>2, <3>3
    <3>7. \A i \in 1 .. n : i # 1 => i - 1 \in 1 .. n - 1
      BY <1>3
    <3> QED
      BY <1>6, <3>1, <3>4, <3>5, <3>6, <3>7
  <2>3. n <= Http!MaxHops
    <3>1. n - 1 \in 1 .. n - 1 => n - 1 < 10
      BY <1>2, <1>3 DEF Http!Follows, Http!MaxHops
    <3> QED
      BY <1>3, <3>1 DEF Http!MaxHops
  <2>4. \A u \in Http!ToSet(x.asked) : Http!AllowedURL(u)
    BY <2>2 DEF Http!ToSet
  <2>5. x.asked # <<>>
    BY <1>3, <2>2
  <2> DEFINE fits == r.status # 0 /\ r.body.size <= c.limit
             taken == Http!Outcome(spec.kind, r, c.limit)
  <2>6. /\ fits /\ Http!Declines(spec.kind, r) => taken \in {"challenge", "rate limit"}
        /\ fits /\ Http!Serves(spec.kind, r) => taken = "data"
        /\ taken = "data" => fits /\ Http!Success(r)
    <3> HIDE DEF r
    <3> QED
      BY <1>1, <1>3, AnswerIsTakenRight
  <2>7. x.outcome = IF Http!Redirects(r) THEN "failed" ELSE taken
    BY <2>1
  <2> HIDE DEF taken, fits, r
  <2>8. /\ read <=> ~Http!Redirects(r) /\ fits
    BY <2>5 DEF fits
  <2> HIDE DEF read
  <2>9. /\ read /\ Http!Declines(spec.kind, r) => x.outcome \in {"challenge", "rate limit"}
        /\ read /\ Http!Serves(spec.kind, r) => x.outcome = "data"
        /\ x.outcome = "data" => read /\ Http!Success(r)
    BY <2>6, <2>7, <2>8
  <2> QED
    BY <1>4, <2>2, <2>3, <2>4, <2>9
<1> QED
  BY <1>5, <1>6
=============================================================================

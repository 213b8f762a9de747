---------------------------- MODULE DiscoveryProofs ----------------------------
(***************************************************************************)
(* Proofs about Discovery, for every plan that DiscoverLocation accepts,   *)
(* every site that shows what it has, and every retry budget.              *)
(***************************************************************************)
EXTENDS Discovery, RecursionLemmas, FiniteSetTheorems

-----------------------------------------------------------------------------
(* Adding the listings of a page.                                          *)

\* AddNew keeps what is known, adds each other key once, and nothing else.
LEMMA AddNewAddsEachOnce ==
  ASSUME NEW K, NEW known \in Seq(K), NEW keys \in Seq(K), IsInjective(known)
  PROVE  /\ AddNew(known, keys) \in Seq(K)
         /\ IsInjective(AddNew(known, keys))
         /\ ToSet(AddNew(known, keys)) = ToSet(known) \cup ToSet(keys)
<1> DEFINE N == Len(keys)
           V == Seq(K)
           add(acc, k) == IF k \in ToSet(acc) THEN acc ELSE Append(acc, k)
           step == [p \in (1 .. N) \X V |-> add(p[2], keys[p[1]])]
<1>1. N \in Nat /\ DOMAIN keys = 1 .. N /\ \A n \in 1 .. N : keys[n] \in K
  OBVIOUS
<1>2. step \in [(1 .. N) \X V -> V]
  <2>1. \A acc \in V, k \in K : add(acc, k) \in V
    OBVIOUS
  <2> HIDE DEF add, V
  <2> QED
    BY <1>1, <2>1
<1> DEFINE Iter(f) == f = [s \in SUBSET (1 .. N) |->
                             IF s = {} THEN known
                             ELSE add(f[s \ {Max(s)}], keys[Max(s)])]
           iter == CHOOSE f : Iter(f)
<1>3. AddNew(known, keys) = iter[1 .. N]
  BY <1>1, Zenon DEF AddNew, FoldLeft, MapThenFoldSet
<1>4. \E f : Iter(f)
  <2>1. known \in V
    OBVIOUS
  <2> HIDE DEF N, V, add, step
  <2>2. N \in Nat
    BY <1>1
  <2>3. PICK f \in [SUBSET (1 .. N) -> V] : Folding(f, N, known, step)
    BY <1>2, <2>1, <2>2, FoldingExists
  <2>4. ASSUME NEW s \in SUBSET (1 .. N), s # {}
        PROVE  step[<<Max(s), f[s \ {Max(s)}]>>] = add(f[s \ {Max(s)}], keys[Max(s)])
    <3>1. Max(s) \in 1 .. N /\ s \ {Max(s)} \in SUBSET (1 .. N)
      BY <2>2, <2>4, MaxIsMember
    <3>2. f[s \ {Max(s)}] \in V
      BY <2>3, <3>1
    <3> QED
      BY <3>1, <3>2 DEF step
  <2>5. Iter(f)
    BY <2>3, <2>4 DEF Folding
  <2> QED
    BY <2>5
<1>5. Iter(iter)
  BY <1>4
<1> DEFINE part(n) == iter[1 .. n]
           Good(n) == /\ part(n) \in V /\ IsInjective(part(n))
                      /\ ToSet(part(n)) = ToSet(known) \cup {keys[i] : i \in 1 .. n}
           S == {n \in Nat : n <= N => Good(n)}
<1>6. part(0) = known /\ \A n \in 1 .. N : part(n) = add(part(n - 1), keys[n])
  <2> HIDE DEF N, V, add, step, iter
  <2>1. part(0) = known
    BY <1>1, <1>5, Positions
  <2>2. ASSUME NEW n \in 1 .. N PROVE part(n) = add(part(n - 1), keys[n])
    <3>1. /\ 1 .. n \in SUBSET (1 .. N) /\ 1 .. n # {}
          /\ Max(1 .. n) = n /\ (1 .. n) \ {n} = 1 .. n - 1
      BY <1>1, Positions
    <3>2. iter[1 .. n] = add(iter[(1 .. n) \ {Max(1 .. n)}], keys[Max(1 .. n)])
      BY <1>5, <3>1, Zenon
    <3> QED
      BY <3>1, <3>2
  <2> QED
    BY <2>1, <2>2
<1>7. ASSUME NEW acc \in V, IsInjective(acc), NEW k \in K
      PROVE  /\ add(acc, k) \in V /\ IsInjective(add(acc, k))
             /\ ToSet(add(acc, k)) = ToSet(acc) \cup {k}
  <2>1. CASE k \in ToSet(acc)
    BY <1>7, <2>1
  <2>2. CASE k \notin ToSet(acc)
    <3> DEFINE new == Append(acc, k)
    <3>1. /\ new \in V /\ Len(new) = Len(acc) + 1 /\ Len(acc) \in Nat
          /\ DOMAIN new = 1 .. Len(acc) + 1 /\ DOMAIN acc = 1 .. Len(acc)
      OBVIOUS
    <3>2. new[Len(acc) + 1] = k /\ \A i \in 1 .. Len(acc) : new[i] = acc[i]
      OBVIOUS
    <3> HIDE DEF new
    <3>3. \A i \in 1 .. Len(acc) + 1 : i \in 1 .. Len(acc) \/ i = Len(acc) + 1
      BY <3>1
    <3>4. \A i \in 1 .. Len(acc) : i \in 1 .. Len(acc) + 1 /\ i # Len(acc) + 1
      BY <3>1
    <3>5. ToSet(new) = ToSet(acc) \cup {k}
      BY <3>1, <3>2, <3>3, <3>4 DEF ToSet
    <3>6. IsInjective(new)
      BY <1>7, <2>2, <3>1, <3>2, <3>3, <3>4 DEF IsInjective, ToSet
    <3> QED
      BY <2>2, <3>1, <3>5, <3>6 DEF new
  <2> QED
    BY <2>1, <2>2
<1> HIDE DEF part, add, step, iter, N, V
<1>8. 0 \in S
  <2>1. known \in V
    BY DEF V
  <2>2. {keys[i] : i \in 1 .. 0} = {}
    OBVIOUS
  <2> QED
    BY <1>6, <2>1, <2>2
<1>9. ASSUME NEW n \in Nat, n \in S PROVE n + 1 \in S
  <2>1. n + 1 \in Nat
    OBVIOUS
  <2>2. ASSUME n + 1 <= N PROVE Good(n + 1)
    <3>1. Good(n)
      BY <1>1, <1>9, <2>2
    <3>2. n + 1 \in 1 .. N /\ (n + 1) - 1 = n
      BY <1>1, <2>2
    <3>3. part(n + 1) = add(part(n), keys[n + 1]) /\ keys[n + 1] \in K
      BY <1>1, <1>6, <3>2
    <3>4. {keys[i] : i \in 1 .. n + 1} = {keys[i] : i \in 1 .. n} \cup {keys[n + 1]}
      <4>1. \A i \in 1 .. n + 1 : i \in 1 .. n \/ i = n + 1
        OBVIOUS
      <4>2. n + 1 \in 1 .. n + 1 /\ \A i \in 1 .. n : i \in 1 .. n + 1
        OBVIOUS
      <4> QED
        BY <4>1, <4>2
    <3>5. /\ part(n) \in V /\ IsInjective(part(n))
          /\ ToSet(part(n)) = ToSet(known) \cup {keys[i] : i \in 1 .. n}
      BY <3>1
    <3>6. /\ part(n + 1) \in V /\ IsInjective(part(n + 1))
          /\ ToSet(part(n + 1)) = ToSet(part(n)) \cup {keys[n + 1]}
      BY <1>7, <3>3, <3>5
    <3> HIDE DEF part
    <3> QED
      BY <3>4, <3>5, <3>6
  <2> HIDE DEF Good
  <2> QED
    BY <2>1, <2>2
<1> HIDE DEF Good
<1>10. N \in S
  <2> HIDE DEF S
  <2> QED
    BY <1>1, <1>8, <1>9, SetInduction
<1>11. Good(N)
  BY <1>1, <1>10
<1>12. {keys[i] : i \in 1 .. N} = ToSet(keys)
  BY <1>1 DEF ToSet
<1> QED
  BY <1>3, <1>11, <1>12 DEF Good, part, V

-----------------------------------------------------------------------------
(* The invariant.                                                          *)

Phases == {"start", "bootstrap", "pages", "done", "failed"}

\* What the coverage of a route says.
RouteCoverage == [route : Nat, fetched : Nat, total : Nat, unique : Nat,
                  complete : BOOLEAN]

\* The options at hand, accepted before anything is requested.
PlanInv ==
    /\ plan \in Plans /\ site \in Sites /\ phase \in Phases
    /\ phase \in {"bootstrap", "pages", "done"} => ValidPlan(plan)
    /\ phase = "start" => attempt = 0 /\ requests = 0
    /\ phase \in {"start", "bootstrap"} => route = 1 /\ page = 1 /\ ~refused
    /\ phase = "pages" => ~refused
    /\ phase = "done" => page = 1
    /\ route \in 1 .. Len(Routes(plan))
    /\ phase \in {"start", "done", "failed"} => ~waiting

\* The route at hand has been read up to the page before this one.
RouteInv ==
    /\ page \in Nat \ {0}
    /\ routeSeen = KeysUpTo(route, page - 1) /\ IsFiniteSet(routeSeen)
    /\ current \in RouteCoverage
    /\ current.route = route /\ current.fetched = page - 1
    /\ current.unique = Cardinality(routeSeen) /\ ~current.complete

\* What is known of a route that has been left.
IsTrueOf(c) ==
    /\ c.unique = Cardinality(KeysUpTo(c.route, c.fetched))
    /\ c.complete => KeysUpTo(c.route, Len(site[c.route].pages))
                        \subseteq KeysUpTo(c.route, c.fetched)

CoverageInv ==
    /\ coverage \in Seq(RouteCoverage)
    /\ Len(coverage) = IF phase = "done" THEN route ELSE route - 1
    /\ \A i \in DOMAIN coverage : coverage[i].route = i /\ IsTrueOf(coverage[i])

ListingsInv ==
    /\ listings \in Seq(ToSet(listings)) /\ IsInjective(listings)
    /\ ToSet(listings) = KeysRead(ToSet(coverage)) \cup routeSeen

\* Exactly the routes that were lost before their end or page limit have an
\* issue.
IssuesInv ==
    /\ issues = <<>> <=> \A c \in ToSet(coverage) : IsRead(c)
    /\ phase = "pages" => page <= PageLimit(route)
    /\ phase = "done" /\ issues = <<>> => route = Len(Routes(plan))

\* Every page asked for so far, this one included, has cost no more than the
\* retry budget.
CostInv ==
    /\ attempt \in 0 .. Retries /\ requests \in Nat
    /\ phase = "bootstrap" => requests <= attempt
    /\ phase = "pages" =>
          requests <= (Retries + 1) * (LimitsUpTo[route - 1] + page) + attempt

IInv == PlanInv /\ RouteInv /\ CoverageInv /\ ListingsInv

FetchInv == IInv /\ IssuesInv /\ CostInv

-----------------------------------------------------------------------------
(* Plans and sites.                                                        *)

LEMMA RoutesOfAPlan ==
  ASSUME NEW p \in Plans
  PROVE  /\ Len(Routes(p)) \in Nat /\ Len(Routes(p)) >= 1
         /\ DOMAIN Routes(p) = 1 .. Len(Routes(p))
<1>1. CASE p.routes = <<>>
  BY <1>1 DEF Routes
<1>2. CASE p.routes # <<>>
  <2> DEFINE S == ToSet(p.routes)
  <2>1. p.routes \in Seq(S) /\ Routes(p) = p.routes
    BY <1>2, DiscoveryAssumption DEF DiscoveryAssumption, Routes
  <2> HIDE DEF S
  <2> QED
    BY <1>2, <2>1
<1> QED
  BY <1>1, <1>2

LEMMA SiteShowsAll ==
  ASSUME NEW p \in Plans, NEW s \in Sites, ValidPlan(p), NEW r \in 1 .. Len(Routes(p))
  PROVE  ShowsAll(s[r], r)
<1>1. r \in DOMAIN s
  BY RoutesOfAPlan, DiscoveryAssumption DEF DiscoveryAssumption
<1> QED
  BY <1>1, DiscoveryAssumption DEF DiscoveryAssumption

LEMMA NothingReadYet == \A r : KeysUpTo(r, 0) = {}
<1>1. 1 .. 0 = {}
  OBVIOUS
<1> QED
  BY <1>1 DEF KeysUpTo

\* The keys of a page, and of the pages up to it.
LEMMA KeysOfAPage ==
  ASSUME NEW r, ShowsAll(site[r], r), NEW p \in Nat \ {0}
  PROVE  /\ KeysOf(r, p) \in Seq(ToSet(KeysOf(r, p)))
         /\ IsFiniteSet(ToSet(KeysOf(r, p)))
         /\ KeysUpTo(r, p) = KeysUpTo(r, p - 1) \cup ToSet(KeysOf(r, p))
<1>1. PICK n \in Nat : DOMAIN Answer(r, p) = 1 .. n
  <2>1. CASE p <= Len(site[r].pages)
    <3> DEFINE P == ToSet(site[r].pages)
    <3>1. site[r].pages \in Seq(P) /\ \A shown \in P : shown \in Seq(ToSet(shown))
      BY DEF ShowsAll
    <3> HIDE DEF P
    <3>2. site[r].pages[p] \in P
      BY <2>1, <3>1
    <3>3. Answer(r, p) = site[r].pages[p]
      BY <2>1 DEF Answer
    <3> DEFINE A == ToSet(Answer(r, p))
    <3>4. Answer(r, p) \in Seq(A)
      BY <3>1, <3>2, <3>3
    <3> HIDE DEF A
    <3> QED
      BY <3>4
  <2>2. CASE ~(p <= Len(site[r].pages))
    <3>1. Answer(r, p) = <<>>
      BY <2>2 DEF Answer
    <3>2. DOMAIN Answer(r, p) = 1 .. 0
      BY <3>1
    <3> QED
      BY <3>2
  <2> QED
    BY <2>1, <2>2
<1> DEFINE keys == KeysOf(r, p)
           K == ToSet(keys)
<1>2. keys = [i \in 1 .. n |-> Key(Answer(r, p)[i], r, p, i)]
  BY <1>1 DEF KeysOf, PageKeys
<1>3. DOMAIN keys = 1 .. n /\ keys = [i \in 1 .. n |-> keys[i]]
  BY <1>2
<1>4. K = {keys[i] : i \in 1 .. n}
  BY <1>3 DEF ToSet
<1> HIDE DEF keys, K
<1>5. keys \in Seq(K)
  <2>1. \A i \in 1 .. n : keys[i] \in K
    BY <1>4
  <2>2. keys \in [1 .. n -> K]
    BY <1>3, <2>1
  <2> QED
    BY <2>2
<1>6. IsFiniteSet(K)
  <2>1. Len(keys) = n
    BY <1>3, <1>5
  <2> QED
    BY <1>4, <1>5, <2>1 DEF IsFiniteSet
<1>7. KeysUpTo(r, p) = KeysUpTo(r, p - 1) \cup K
  <2>1. \A q : q \in 1 .. p <=> q \in 1 .. p - 1 \/ q = p
    OBVIOUS
  <2> QED
    BY <2>1 DEF KeysUpTo, K, keys
<1> QED
  BY <1>5, <1>6, <1>7 DEF K, keys

\* The page loop takes no page for the last one that another page follows.
LEMMA EndIsTheEnd ==
  ASSUME NEW r, ShowsAll(site[r], r), NEW p \in Nat \ {0},
         EndsRoute(p, site[r].total, KeysOf(r, p), ToSet(KeysOf(r, p)) \ KeysUpTo(r, p - 1))
  PROVE  p >= Len(site[r].pages)
<1> DEFINE P == ToSet(site[r].pages)
           n == Len(site[r].pages)
<1>1. site[r].pages \in Seq(P) /\ \A shown \in P : shown \in Seq(ToSet(shown)) \ {<<>>}
  BY DEF ShowsAll
<1> HIDE DEF P
<1>2. n \in Nat
  BY <1>1
<1> SUFFICES ASSUME p < n PROVE FALSE
  BY <1>2
<1>3. p \in 1 .. n
  BY <1>2
<1>4. Answer(r, p) = site[r].pages[p] /\ Answer(r, p) \in P
  BY <1>1, <1>2, <1>3 DEF Answer
<1>5. DOMAIN Answer(r, p) # {}
  <2> DEFINE A == ToSet(Answer(r, p))
  <2>1. Answer(r, p) \in Seq(A) /\ Answer(r, p) # <<>>
    BY <1>1, <1>4
  <2> HIDE DEF A
  <2>2. \A T : \A t \in Seq(T) : t # <<>> => Len(t) # 0 /\ Len(t) \in Nat /\ DOMAIN t = 1 .. Len(t)
    OBVIOUS
  <2>3. 1 \in 1 .. Len(Answer(r, p)) /\ DOMAIN Answer(r, p) = 1 .. Len(Answer(r, p))
    BY <2>1, <2>2
  <2> QED
    BY <2>3
<1>6. KeysOf(r, p) # <<>> /\ ToSet(KeysOf(r, p)) # {}
  <2>1. DOMAIN KeysOf(r, p) = DOMAIN Answer(r, p)
    BY DEF KeysOf, PageKeys
  <2> QED
    BY <1>5, <2>1 DEF ToSet
<1>7. site[r].total = n \/ site[r].total = 0
  BY DEF ShowsAll
<1>8. site[r].total = 0 /\ ToSet(KeysOf(r, p)) \subseteq KeysUpTo(r, p - 1)
  BY <1>2, <1>6, <1>7 DEF EndsRoute
<1>9. p # 1
  <2>1. p = 1 => KeysUpTo(r, p - 1) = {}
    BY NothingReadYet
  <2> QED
    BY <1>6, <1>8, <2>1
<1>10. p \in 2 .. n
  BY <1>2, <1>3, <1>9
<1>11. KeysUpTo(r, p - 1) = UNION {ToSet(PageKeys(site[r].pages[q], r, q)) : q \in 1 .. p - 1}
  <2>1. ASSUME NEW q \in 1 .. p - 1 PROVE KeysOf(r, q) = PageKeys(site[r].pages[q], r, q)
    <3>1. q <= n
      BY <1>2, <1>3
    <3> QED
      BY <3>1 DEF KeysOf, Answer
  <2> QED
    BY <2>1 DEF KeysUpTo
<1>12. KeysOf(r, p) = PageKeys(site[r].pages[p], r, p)
  BY <1>4 DEF KeysOf
<1> QED
  BY <1>2, <1>3, <1>8, <1>10, <1>11, <1>12 DEF ShowsAll

LEMMA AllPagesRead ==
  ASSUME NEW r, ShowsAll(site[r], r), NEW p \in Nat, p >= Len(site[r].pages)
  PROVE  KeysUpTo(r, Len(site[r].pages)) \subseteq KeysUpTo(r, p)
<1> DEFINE P == ToSet(site[r].pages)
           n == Len(site[r].pages)
<1>1. site[r].pages \in Seq(P)
  BY DEF ShowsAll
<1> HIDE DEF P
<1>2. n \in Nat
  BY <1>1
<1> HIDE DEF n
<1>3. 1 .. n \subseteq 1 .. p
  BY <1>2 DEF n
<1> QED
  BY <1>3 DEF KeysUpTo, n

LEMMA TotalIsNatural ==
  ASSUME NEW r, ShowsAll(site[r], r) PROVE site[r].total \in Nat
<1> DEFINE P == ToSet(site[r].pages)
<1>1. site[r].pages \in Seq(P)
  BY DEF ShowsAll
<1> HIDE DEF P
<1>2. Len(site[r].pages) \in Nat
  BY <1>1
<1> QED
  BY <1>2 DEF ShowsAll

-----------------------------------------------------------------------------
(* The steps.                                                              *)

LEMMA IInvInit == Init => IInv
<1> SUFFICES ASSUME Init PROVE IInv
  OBVIOUS
<1>1. plan \in Plans /\ site \in Sites
  BY DEF Init
<1>2. PlanInv
  <2>1. 1 \in 1 .. Len(Routes(plan))
    BY <1>1, RoutesOfAPlan
  <2> QED
    BY <2>1 DEF Init, PlanInv, Phases
<1>3. RouteInv
  <2>1. page = 1 /\ routeSeen = {} /\ page - 1 = 0 /\ route = 1 /\ current = Fresh(1)
    BY DEF Init
  <2>2. KeysUpTo(route, page - 1) = {}
    BY <2>1, NothingReadYet
  <2>3. current \in RouteCoverage
    BY <2>1 DEF Fresh, RouteCoverage
  <2> QED
    BY <2>1, <2>2, <2>3, FS_EmptySet DEF RouteInv, Fresh
<1>4. CoverageInv
  <2>1. coverage = <<>> /\ Len(coverage) = 0 /\ DOMAIN coverage = {} /\ route - 1 = 0
        /\ phase = "start"
    BY DEF Init
  <2>2. <<>> \in Seq(RouteCoverage)
    OBVIOUS
  <2> QED
    BY <2>1, <2>2 DEF CoverageInv
<1>5. ListingsInv
  <2>1. listings = <<>> /\ coverage = <<>> /\ routeSeen = {}
    BY DEF Init
  <2>2. ToSet(<<>>) = {}
    BY DEF ToSet
  <2>3. \A S : <<>> \in Seq(S)
    OBVIOUS
  <2>4. IsInjective(listings)
    BY <2>1 DEF IsInjective
  <2>5. KeysRead(ToSet(coverage)) = {}
    BY <2>1, <2>2 DEF KeysRead
  <2> QED
    BY <2>1, <2>2, <2>3, <2>4, <2>5 DEF ListingsInv
<1> QED
  BY <1>2, <1>3, <1>4, <1>5 DEF IInv

\* The site does not change.
LEMMA SameSite ==
  ASSUME site' = site
  PROVE  /\ \A r, p : KeysUpTo(r, p)' = KeysUpTo(r, p)
         /\ \A c : IsTrueOf(c)' <=> IsTrueOf(c)
         /\ KeysRead(ToSet(coverage))' = KeysRead(ToSet(coverage'))
<1>1. \A r, p : KeysUpTo(r, p)' = KeysUpTo(r, p)
  BY DEF KeysUpTo, KeysOf, Answer
<1>2. \A c : IsTrueOf(c)' <=> IsTrueOf(c)
  BY <1>1 DEF IsTrueOf
<1>3. KeysRead(ToSet(coverage))' = KeysRead(ToSet(coverage'))
  BY <1>1 DEF KeysRead
<1> QED
  BY <1>1, <1>2, <1>3

\* One more coverage, one more route read.
LEMMA OneMoreRoute ==
  ASSUME NEW S, NEW c
  PROVE  KeysRead(S \cup {c}) = KeysRead(S) \cup KeysUpTo(c.route, c.fetched)
<1>1. \A T, k : k \in KeysRead(T) <=> \E d \in T : k \in KeysUpTo(d.route, d.fetched)
  BY DEF KeysRead
<1> QED
  BY <1>1

\* A route that is left keeps what is true of it.
LEMMA EndRouteStep ==
  ASSUME IInv, phase = "pages", UNCHANGED <<plan, site>>,
         NEW c \in RouteCoverage, c.route = route, IsTrueOf(c),
         NEW stop \in BOOLEAN, EndRoute(c, stop), refused' => stop
  PROVE  /\ PlanInv' /\ RouteInv' /\ CoverageInv' /\ routeSeen' = {}
         /\ ToSet(coverage') = ToSet(coverage) \cup {c}
<1> DEFINE n == Len(Routes(plan))
           last == stop \/ route = n
<1>1. n \in Nat /\ route \in 1 .. n /\ ValidPlan(plan) /\ n' = n
      /\ plan \in Plans /\ site \in Sites
  BY RoutesOfAPlan DEF IInv, PlanInv
<1>2. /\ coverage' = Append(coverage, c) /\ attempt' = 0 /\ page' = 1 /\ routeSeen' = {}
      /\ phase' = IF last THEN "done" ELSE "pages"
      /\ route' = IF last THEN route ELSE route + 1
      /\ waiting' = (Paced /\ ~last)
      /\ current' = Fresh(route')
  BY DEF EndRoute
<1> HIDE DEF n
<1>3. route' \in 1 .. n
  BY <1>1, <1>2
<1>4. PlanInv'
  <2>1. phase' \in {"done", "pages"} /\ (phase' = "done" => ~waiting')
        /\ (phase' = "pages" => ~refused') /\ page' = 1
    BY <1>2
  <2> QED
    BY <1>1, <1>3, <2>1 DEF PlanInv, Phases, n
<1>5. RouteInv'
  <2>1. page' - 1 = 0
    BY <1>2
  <2>2. KeysUpTo(route, page - 1)' = {}
    BY <2>1, NothingReadYet DEF KeysUpTo
  <2>3. current' \in RouteCoverage /\ current'.route = route' /\ current'.fetched = 0
        /\ current'.unique = 0 /\ ~current'.complete
    BY <1>1, <1>2, <1>3 DEF Fresh, RouteCoverage
  <2> QED
    BY <1>2, <2>1, <2>2, <2>3, FS_EmptySet DEF RouteInv
<1>6. /\ coverage \in Seq(RouteCoverage) /\ Len(coverage) = route - 1
      /\ \A i \in DOMAIN coverage : coverage[i].route = i /\ IsTrueOf(coverage[i])
  BY DEF IInv, CoverageInv
<1> DEFINE m == Len(coverage)
<1>7. /\ coverage' \in Seq(RouteCoverage) /\ Len(coverage') = route /\ m = route - 1
      /\ DOMAIN coverage = 1 .. m /\ DOMAIN coverage' = 1 .. m + 1 /\ m + 1 = route
      /\ coverage'[m + 1] = c /\ \A i \in 1 .. m : coverage'[i] = coverage[i]
      /\ m \in Nat
  <2>1. m \in Nat /\ m = route - 1 /\ m + 1 = route /\ DOMAIN coverage = 1 .. m
    BY <1>1, <1>6
  <2>2. coverage' \in Seq(RouteCoverage) /\ Len(coverage') = m + 1
        /\ coverage'[m + 1] = c
    BY <1>2, <1>6
  <2>3. \A i \in 1 .. m : coverage'[i] = coverage[i]
    BY <1>2, <1>6
  <2>4. DOMAIN coverage' = 1 .. m + 1
    BY <2>2
  <2> QED
    BY <2>1, <2>2, <2>3, <2>4
<1> HIDE DEF m
<1>8. \A i : i \in 1 .. m + 1 <=> i \in 1 .. m \/ i = m + 1
  BY <1>7
<1>9. \A d : IsTrueOf(d)' <=> IsTrueOf(d)
  BY SameSite
<1>10. CoverageInv'
  <2>1. Len(coverage') = IF phase' = "done" THEN route' ELSE route' - 1
    BY <1>1, <1>2, <1>7
  <2>2. ASSUME NEW i \in DOMAIN coverage'
        PROVE  coverage'[i].route = i /\ IsTrueOf(coverage'[i])
    <3>1. CASE i \in 1 .. m
      BY <1>6, <1>7, <3>1
    <3>2. CASE i = m + 1
      BY <1>7, <3>2
    <3> QED
      BY <1>7, <1>8, <3>1, <3>2
  <2> QED
    BY <1>7, <1>9, <2>1, <2>2 DEF CoverageInv
<1>11. ToSet(coverage') = ToSet(coverage) \cup {c}
  BY <1>7, <1>8 DEF ToSet
<1> QED
  BY <1>2, <1>4, <1>5, <1>10, <1>11

\* As long as no page is read or given up, nothing said of the site changes.
LEMMA WaitingStep ==
  ASSUME IInv, PlanInv', (phase' = "done") <=> (phase = "done"),
         UNCHANGED <<plan, site, route, page, routeSeen, current, listings, coverage>>
  PROVE  IInv'
<1>1. RouteInv'
  BY DEF IInv, RouteInv, KeysUpTo, KeysOf, Answer
<1>2. CoverageInv'
  BY SameSite DEF IInv, CoverageInv
<1>3. ListingsInv'
  BY SameSite DEF IInv, ListingsInv
<1> QED
  BY <1>1, <1>2, <1>3 DEF IInv

\* A page that stays lost leaves the coverage of its route as it was.
LEMMA LosingStep ==
  ASSUME IInv, phase = "pages", UNCHANGED <<plan, site, listings>>,
         NEW stop \in BOOLEAN, EndRoute(current, stop), refused' => stop
  PROVE  IInv'
<1>1. current \in RouteCoverage /\ current.route = route /\ current.fetched = page - 1
      /\ current.unique = Cardinality(routeSeen) /\ ~current.complete
      /\ routeSeen = KeysUpTo(route, page - 1)
  BY DEF IInv, RouteInv
<1>2. IsTrueOf(current)
  BY <1>1 DEF IsTrueOf
<1>3. /\ PlanInv' /\ RouteInv' /\ CoverageInv' /\ routeSeen' = {}
      /\ ToSet(coverage') = ToSet(coverage) \cup {current}
  BY <1>1, <1>2, EndRouteStep
<1>4. KeysRead(ToSet(coverage')) =
         KeysRead(ToSet(coverage)) \cup routeSeen
  BY <1>1, <1>3, OneMoreRoute
<1>5. ListingsInv'
  BY <1>3, <1>4, SameSite DEF IInv, ListingsInv
<1> QED
  BY <1>3, <1>5 DEF IInv

\* The listings and the coverage of the route with one more page, which is
\* the last one or not.
ReadOn(read) ==
    /\ read.route = route /\ read.fetched = page /\ IsTrueOf(read)
    /\ read.unique = Cardinality(KeysUpTo(route, page))
    /\ \/ EndRoute(read, FALSE) /\ IsRead(read)
       \/ /\ page # PageLimit(route) /\ ~read.complete
          /\ current' = read /\ page' = page + 1 /\ attempt' = 0
          /\ routeSeen' = KeysUpTo(route, page)
          /\ UNCHANGED <<phase, route, coverage>>

LEMMA ReadOnePage ==
  ASSUME IInv, PageRead
  PROVE  /\ \E read \in RouteCoverage : ReadOn(read)
         /\ IsFiniteSet(KeysUpTo(route, page))
         /\ listings' \in Seq(ToSet(listings')) /\ IsInjective(listings')
         /\ ToSet(listings') = KeysRead(ToSet(coverage)) \cup KeysUpTo(route, page)
<1> DEFINE keys == KeysOf(route, page)
           new == ToSet(keys) \ routeSeen
           total == site[route].total
           ends == EndsRoute(page, total, keys, new)
           read == [current EXCEPT !.fetched = @ + 1, !.total = total,
                                   !.unique = @ + Cardinality(new), !.complete = ends]
<1>1. /\ plan \in Plans /\ site \in Sites /\ phase = "pages" /\ ValidPlan(plan)
      /\ route \in 1 .. Len(Routes(plan)) /\ ~refused
  BY DEF PageRead, IInv, PlanInv
<1>2. ShowsAll(site[route], route)
  BY <1>1, SiteShowsAll
<1>3. /\ page \in Nat \ {0} /\ page \in Nat /\ (page + 1) - 1 = page /\ (page - 1) + 1 = page
      /\ page + 1 \in Nat \ {0}
      /\ routeSeen = KeysUpTo(route, page - 1) /\ IsFiniteSet(routeSeen)
      /\ current \in RouteCoverage /\ current.route = route /\ current.fetched = page - 1
      /\ current.unique = Cardinality(routeSeen) /\ ~current.complete
  BY DEF IInv, RouteInv
<1>4. /\ keys \in Seq(ToSet(keys)) /\ IsFiniteSet(ToSet(keys))
      /\ KeysUpTo(route, page) = routeSeen \cup ToSet(keys)
  BY <1>2, <1>3, KeysOfAPage
<1>5. ends => KeysUpTo(route, Len(site[route].pages)) \subseteq KeysUpTo(route, page)
  BY <1>2, <1>3, EndIsTheEnd, AllPagesRead
<1>6. total \in Nat /\ ends \in BOOLEAN
  BY <1>2, TotalIsNatural DEF EndsRoute
<1>7. UNCHANGED <<plan, site, refused>> /\ listings' = AddNew(listings, keys)
  BY DEF PageRead
<1>8. \/ EndRoute(read, FALSE) /\ (ends \/ page = PageLimit(route))
      \/ /\ current' = read /\ page' = page + 1 /\ routeSeen' = routeSeen \cup new
         /\ attempt' = 0 /\ page # PageLimit(route)
         /\ ~ends /\ UNCHANGED <<phase, route, coverage>>
  BY DEF PageRead
<1> HIDE DEF keys, total, ends
<1>9. /\ IsFiniteSet(routeSeen \cup new) /\ routeSeen \cup new = KeysUpTo(route, page)
      /\ Cardinality(routeSeen \cup new) = Cardinality(routeSeen) + Cardinality(new)
      /\ Cardinality(routeSeen) \in Nat /\ Cardinality(new) \in Nat
  <2>1. IsFiniteSet(new)
    BY <1>4, FS_Difference
  <2>2. routeSeen \cap new = {}
    OBVIOUS
  <2>3. /\ IsFiniteSet(routeSeen \cup new)
        /\ Cardinality(routeSeen \cup new)
             = Cardinality(routeSeen) + Cardinality(new) - Cardinality(routeSeen \cap new)
    BY <1>3, <2>1, FS_Union
  <2>4. Cardinality(routeSeen) \in Nat /\ Cardinality(new) \in Nat
    BY <1>3, <2>1, FS_CardinalityType
  <2>5. Cardinality(routeSeen \cap new) = 0
    BY <2>2, FS_EmptySet
  <2>6. routeSeen \cup new = routeSeen \cup ToSet(keys)
    OBVIOUS
  <2> QED
    BY <1>4, <2>3, <2>4, <2>5, <2>6
<1> HIDE DEF new
<1>10. /\ read \in RouteCoverage /\ read.route = route /\ read.fetched = page
       /\ read.unique = Cardinality(routeSeen \cup new) /\ read.complete = ends
  <2>1. PICK t \in Nat :
          current = [route |-> route, fetched |-> page - 1, total |-> t,
                     unique |-> Cardinality(routeSeen), complete |-> FALSE]
    BY <1>3 DEF RouteCoverage
  <2>2. read = [route |-> route, fetched |-> page, total |-> total,
                unique |-> Cardinality(routeSeen \cup new), complete |-> ends]
    <3>1. current.fetched + 1 = page
          /\ current.unique + Cardinality(new) = Cardinality(routeSeen \cup new)
      BY <1>3, <1>9
    <3>2. read = [current EXCEPT !.fetched = page, !.total = total,
                    !.unique = Cardinality(routeSeen \cup new), !.complete = ends]
      BY <3>1
    <3> HIDE DEF read
    <3> QED
      BY <2>1, <3>2
  <2>3. route \in Nat /\ Cardinality(routeSeen \cup new) \in Nat
    BY <1>3, <1>9 DEF RouteCoverage
  <2> HIDE DEF read
  <2> QED
    BY <1>3, <1>6, <2>2, <2>3 DEF RouteCoverage
<1> HIDE DEF read
<1>11. IsTrueOf(read)
  BY <1>5, <1>9, <1>10 DEF IsTrueOf
<1>12. ReadOn(read)
  BY <1>8, <1>9, <1>10, <1>11 DEF ReadOn, IsRead
<1>13. /\ listings' \in Seq(ToSet(listings')) /\ IsInjective(listings')
       /\ ToSet(listings') = KeysRead(ToSet(coverage))
                               \cup KeysUpTo(route, page)
  <2> DEFINE K == ToSet(listings) \cup ToSet(keys)
             A == ToSet(listings)
             B == ToSet(keys)
  <2>1. listings \in Seq(A) /\ IsInjective(listings) /\ keys \in Seq(B)
    BY <1>4 DEF IInv, ListingsInv
  <2>2. listings \in Seq(K) /\ keys \in Seq(K)
    <3>1. \A S, T : S \subseteq T => Seq(S) \subseteq Seq(T)
      OBVIOUS
    <3>2. A \subseteq K /\ B \subseteq K
      OBVIOUS
    <3> HIDE DEF A, B, K
    <3> QED
      BY <2>1, <3>1, <3>2
  <2>3. /\ listings' \in Seq(K) /\ IsInjective(listings')
        /\ ToSet(listings') = ToSet(listings) \cup ToSet(keys)
    BY <1>7, <2>1, <2>2, AddNewAddsEachOnce
  <2>4. A = KeysRead(ToSet(coverage)) \cup routeSeen
    BY DEF IInv, ListingsInv
  <2>5. ToSet(listings') = K /\ listings' \in Seq(ToSet(listings'))
    BY <2>3
  <2>6. K = KeysRead(ToSet(coverage)) \cup KeysUpTo(route, page)
    BY <1>4, <2>4
  <2> HIDE DEF K
  <2> QED
    BY <2>3, <2>5, <2>6
<1> QED
  BY <1>9, <1>10, <1>12, <1>13

LEMMA ReadingStep ==
  ASSUME IInv, PageRead PROVE IInv'
<1>1. PICK read \in RouteCoverage : ReadOn(read)
  BY ReadOnePage
<1>2. /\ IsFiniteSet(KeysUpTo(route, page))
      /\ listings' \in Seq(ToSet(listings')) /\ IsInjective(listings')
      /\ ToSet(listings') = KeysRead(ToSet(coverage)) \cup KeysUpTo(route, page)
  BY ReadOnePage
<1>3. /\ phase = "pages" /\ ~refused /\ UNCHANGED <<plan, site, refused>>
      /\ page \in Nat \ {0}
  BY DEF PageRead, IInv, PlanInv, RouteInv
<1>4. /\ read.route = route /\ read.fetched = page /\ IsTrueOf(read)
      /\ read.unique = Cardinality(KeysUpTo(route, page))
  BY <1>1 DEF ReadOn
<1>5. CASE EndRoute(read, FALSE)
  <2>1. /\ PlanInv' /\ RouteInv' /\ CoverageInv' /\ routeSeen' = {}
        /\ ToSet(coverage') = ToSet(coverage) \cup {read}
    BY <1>3, <1>4, <1>5, EndRouteStep
  <2>2. KeysRead(ToSet(coverage')) = KeysRead(ToSet(coverage)) \cup KeysUpTo(route, page)
    BY <1>4, <2>1, OneMoreRoute
  <2>3. ListingsInv'
    BY <1>2, <1>3, <2>1, <2>2, SameSite DEF ListingsInv
  <2> QED
    BY <2>1, <2>3 DEF IInv
<1>6. CASE /\ ~read.complete /\ current' = read /\ page' = page + 1
           /\ routeSeen' = KeysUpTo(route, page) /\ UNCHANGED <<phase, route, coverage>>
  <2>1. PlanInv'
    BY <1>3, <1>6 DEF IInv, PlanInv
  <2>2. RouteInv'
    <3>1. page' - 1 = page /\ page' \in Nat \ {0}
      BY <1>3, <1>6
    <3>2. KeysUpTo(route, page - 1)' = KeysUpTo(route, page)
      BY <1>3, <1>6, <3>1 DEF KeysUpTo, KeysOf, Answer
    <3> QED
      BY <1>2, <1>4, <1>6, <3>1, <3>2 DEF RouteInv
  <2>3. CoverageInv'
    BY <1>3, <1>6, SameSite DEF IInv, CoverageInv
  <2>4. ListingsInv'
    BY <1>2, <1>3, <1>6, SameSite DEF ListingsInv
  <2> QED
    BY <2>1, <2>2, <2>3, <2>4 DEF IInv
<1> QED
  BY <1>1, <1>5, <1>6 DEF ReadOn

LEMMA IInvStep == IInv /\ [Next]_vars => IInv'
<1> SUFFICES ASSUME IInv, [Next]_vars PROVE IInv'
  OBVIOUS
<1>1. CASE Begin
  <2>1. /\ phase = "start" /\ phase' = IF ValidPlan(plan) THEN "bootstrap" ELSE "failed"
        /\ UNCHANGED <<plan, site, route, page, routeSeen, current, listings, coverage>>
        /\ UNCHANGED <<attempt, waiting, requests, refused>>
    BY <1>1 DEF Begin
  <2>2. PlanInv'
    BY <2>1 DEF IInv, PlanInv, Phases
  <2> QED
    BY <2>1, <2>2, WaitingStep
<1>2. CASE TryAgain \/ Wake \/ Cancel \/ BootstrapRead
           \/ \E challenged \in BOOLEAN : BootstrapLost(challenged)
  <2>1. UNCHANGED <<plan, site, route, page, routeSeen, current, listings, coverage>>
    BY <1>2 DEF TryAgain, Wake, Cancel, BootstrapRead, BootstrapLost
  <2>2. phase # "done" /\ phase' # "done" /\ PlanInv'
    <3>1. CASE TryAgain
      BY <2>1, <3>1 DEF TryAgain, Requesting, IInv, PlanInv
    <3>2. CASE Wake
      BY <2>1, <3>2 DEF Wake, IInv, PlanInv
    <3>3. CASE Cancel
      BY <2>1, <3>3 DEF Cancel, IInv, PlanInv, Phases
    <3>4. CASE BootstrapRead
      BY <2>1, <3>4 DEF BootstrapRead, IInv, PlanInv, Phases
    <3>5. CASE \E challenged \in BOOLEAN : BootstrapLost(challenged)
      BY <2>1, <3>5 DEF BootstrapLost, Requesting, IInv, PlanInv, Phases
    <3> QED
      BY <1>2, <3>1, <3>2, <3>3, <3>4, <3>5
  <2> QED
    BY <2>1, <2>2, WaitingStep
<1>3. CASE PageRead
  BY <1>3, ReadingStep
<1>4. CASE \E challenged \in BOOLEAN : PageLost(challenged)
  <2>1. PICK challenged \in BOOLEAN : PageLost(challenged)
    BY <1>4
  <2> QED
    BY <2>1, LosingStep DEF PageLost
<1>5. CASE CancelRetry
  <2>1. phase = "pages" /\ ~refused
    BY <1>5 DEF CancelRetry, IInv, PlanInv
  <2> QED
    BY <1>5, <2>1, LosingStep DEF CancelRetry
<1>6. CASE Over \/ UNCHANGED vars
  <2>1. UNCHANGED vars
    BY <1>6 DEF Over
  <2>2. PlanInv'
    BY <2>1 DEF vars, IInv, PlanInv
  <2> QED
    BY <2>1, <2>2, WaitingStep DEF vars
<1> QED
  BY <1>1, <1>2, <1>3, <1>4, <1>5, <1>6 DEF Next

-----------------------------------------------------------------------------
(* The theorems.                                                           *)

\* The invariant holds of every discovery.
THEOREM Inductive == Spec => []IInv
  BY IInvInit, IInvStep, PTL DEF Spec

\* CoverageIsTrue: whatever is retried, lost or cancelled, the counts, the
\* routes called complete and the listings are those of the pages read, each
\* listing once.
THEOREM CountsAreTrue == Spec => []CoverageIsTrue
<1>1. ASSUME IInv PROVE CoverageIsTrue
  <2>1. ASSUME NEW c \in ToSet(coverage)
        PROVE  /\ IsTrueOf(c)
               /\ KeysUpTo(c.route, c.fetched) \subseteq ToSet(listings)
    <3>1. PICK i \in DOMAIN coverage : c = coverage[i]
      BY DEF ToSet
    <3>2. KeysUpTo(c.route, c.fetched) \subseteq KeysRead(ToSet(coverage))
      BY DEF KeysRead
    <3> QED
      BY <1>1, <3>1, <3>2 DEF IInv, CoverageInv, ListingsInv
  <2>2. phase = "done" => ToSet(listings) = KeysRead(ToSet(coverage))
    <3>1. phase = "done" => page - 1 = 0 /\ routeSeen = KeysUpTo(route, page - 1)
      BY <1>1 DEF IInv, PlanInv, RouteInv
    <3>2. phase = "done" => routeSeen = {}
      BY <3>1, NothingReadYet
    <3> QED
      BY <1>1, <3>2 DEF IInv, ListingsInv
  <2>3. IsInjective(listings)
    BY <1>1 DEF IInv, ListingsInv
  <2> QED
    BY <2>1, <2>2, <2>3 DEF CoverageIsTrue, IsTrueOf
<1> QED
  BY Inductive, <1>1, PTL

\* NothingAfterRefusal: a refusal that outlasts its retries ends the discovery
\* or finds it over.
THEOREM RefusalIsFinal == Spec => NothingAfterRefusal
<1>1. IInv /\ [Next]_vars => [refused => requests' = requests]_vars
  <2> SUFFICES ASSUME IInv, [Next]_vars, refused, ~UNCHANGED vars
               PROVE  requests' = requests
    OBVIOUS
  <2>1. phase \in {"done", "failed"} /\ ~waiting
    BY DEF IInv, PlanInv, Phases
  <2> QED
    BY <2>1 DEF Next, Begin, TryAgain, Wake, Cancel, CancelRetry, BootstrapRead, PageRead,
                BootstrapLost, PageLost, Requesting, Over
<1> QED
  BY Inductive, <1>1, PTL DEF Spec, NothingAfterRefusal

-----------------------------------------------------------------------------
(* A discovery is a location fetch.                                        *)

LEMMA LimitsArePositive ==
  ASSUME NEW p \in Plans, ValidPlan(p), NEW r \in 1 .. Len(Routes(p))
  PROVE  LimitOf(p, Routes(p)[r]) \in Nat \ {0}
<1>1. Pages(p) \in Nat \ {0}
  <2>1. Pages(p) \in 1 .. MaxDiscoveryPages /\ MaxDiscoveryPages \in Nat
    BY DEF ValidPlan, MaxDiscoveryPages
  <2> QED
    BY <2>1
<1>2. Routes(p)[r].maxPages \in Int
  <2>1. CASE p.routes = <<>>
    <3>1. Len(Routes(p)) = 1
      BY <2>1 DEF Routes
    <3>2. r = 1
      BY <3>1
    <3> QED
      BY <2>1, <3>2 DEF Routes, NoLimit
  <2>2. CASE p.routes # <<>>
    <3> DEFINE S == ToSet(p.routes)
    <3>1. Routes(p) = p.routes /\ p.routes \in Seq(S) /\ \A x \in S : x.maxPages \in Int
      BY <2>2, DiscoveryAssumption DEF Routes, DiscoveryAssumption
    <3> HIDE DEF S
    <3> QED
      BY <3>1
  <2> QED
    BY <2>1, <2>2
<1> QED
  BY <1>1, <1>2 DEF LimitOf

\* The limits of the first routes add up.
LEMMA LimitsAddUp ==
  ASSUME plan \in Plans, ValidPlan(plan)
  PROVE  LET n == Len(Routes(plan)) IN
         /\ LimitsUpTo \in [0 .. n -> Nat] /\ LimitsUpTo[0] = 0
         /\ \A r \in 1 .. n : /\ PageLimit(r) \in Nat \ {0}
                             /\ LimitsUpTo[r] = PageLimit(r) + LimitsUpTo[r - 1]
         /\ \A r \in 0 .. n : LimitsUpTo[r] <= LimitsUpTo[n]
<1> DEFINE n == Len(Routes(plan))
           step == [p \in (1 .. n) \X Nat |-> PageLimit(p[1]) + p[2]]
           Sums(f) == f = [r \in 0 .. n |-> IF r = 0 THEN 0 ELSE PageLimit(r) + f[r - 1]]
           L == LimitsUpTo
<1>1. n \in Nat /\ n >= 1
  BY RoutesOfAPlan
<1>2. \A r \in 1 .. n : PageLimit(r) \in Nat \ {0}
  BY LimitsArePositive DEF PageLimit
<1>3. L = CHOOSE f : Sums(f)
  BY Zenon DEF LimitsUpTo
<1> HIDE DEF n
<1>4. \E f : Sums(f)
  <2>1. step \in [(1 .. n) \X Nat -> Nat]
    BY <1>2
  <2> HIDE DEF step
  <2>2. PICK f \in [0 .. n -> Nat] : Recursive(f, n, 0, step)
    BY <1>1, <2>1, RecursionExists
  <2>3. ASSUME NEW r \in 0 .. n, r # 0 PROVE step[<<r, f[r - 1]>>] = PageLimit(r) + f[r - 1]
    <3>1. r \in 1 .. n /\ r - 1 \in 0 .. n
      BY <1>1, <2>3
    <3>2. f[r - 1] \in Nat
      BY <2>2, <3>1
    <3> QED
      BY <3>1, <3>2 DEF step
  <2>4. Sums(f)
    BY <2>2, <2>3 DEF Recursive
  <2> QED
    BY <2>4
<1> HIDE DEF L
<1>5. Sums(L)
  BY <1>3, <1>4
<1>6. L[0] = 0 /\ \A r \in 1 .. n : L[r] = PageLimit(r) + L[r - 1]
  <2>1. 0 \in 0 .. n /\ \A r \in 1 .. n : r \in 0 .. n /\ r # 0
    BY <1>1
  <2> QED
    BY <1>5, <2>1
<1>7. \A r \in 0 .. n : L[r] \in Nat
  <2> DEFINE S == {r \in Nat : r <= n => L[r] \in Nat}
  <2>1. 0 \in S
    BY <1>6
  <2>2. ASSUME NEW r \in Nat, r \in S PROVE r + 1 \in S
    <3>1. r + 1 \in Nat /\ (r + 1) - 1 = r
      OBVIOUS
    <3>2. ASSUME r + 1 <= n PROVE L[r + 1] \in Nat
      <4>1. r + 1 \in 1 .. n /\ r <= n
        BY <1>1, <3>2
      <4>2. L[r] \in Nat
        BY <2>2, <4>1
      <4>3. PageLimit(r + 1) \in Nat /\ L[r + 1] = PageLimit(r + 1) + L[r]
        BY <1>2, <1>6, <3>1, <4>1
      <4> QED
        BY <4>2, <4>3
    <3> QED
      BY <3>1, <3>2
  <2> HIDE DEF S
  <2>3. Nat \subseteq S
    BY <2>1, <2>2, SetInduction
  <2> QED
    BY <1>1, <2>3 DEF S
<1>8. L \in [0 .. n -> Nat]
  BY <1>5, <1>7
<1>9. \A r \in 0 .. n : L[r] <= L[n]
  <2> DEFINE S == {k \in Nat : k <= n => L[n - k] <= L[n]}
  <2>1. 0 \in S
    BY <1>1, <1>7
  <2>2. ASSUME NEW k \in Nat, k \in S PROVE k + 1 \in S
    <3>1. k + 1 \in Nat
      OBVIOUS
    <3>2. ASSUME k + 1 <= n PROVE L[n - (k + 1)] <= L[n]
      <4>1. k <= n /\ n - k \in 1 .. n /\ (n - k) - 1 = n - (k + 1) /\ n - (k + 1) \in 0 .. n
            /\ n \in 0 .. n
        BY <1>1, <3>2
      <4>2. L[n - k] <= L[n]
        BY <2>2, <4>1
      <4>3. L[n - k] = PageLimit(n - k) + L[n - (k + 1)] /\ PageLimit(n - k) \in Nat
        BY <1>2, <1>6, <4>1
      <4>4. L[n - (k + 1)] \in Nat /\ L[n] \in Nat
        BY <1>7, <4>1
      <4> QED
        BY <4>2, <4>3, <4>4
    <3> QED
      BY <3>1, <3>2
  <2> HIDE DEF S
  <2>3. Nat \subseteq S
    BY <2>1, <2>2, SetInduction
  <2>4. ASSUME NEW r \in 0 .. n PROVE L[r] <= L[n]
    <3>1. n - r \in Nat /\ n - r <= n /\ n - (n - r) = r
      BY <1>1
    <3> QED
      BY <2>3, <3>1 DEF S
  <2> QED
    BY <2>4
<1> QED
  BY <1>2, <1>6, <1>8, <1>9 DEF L, n

\* One more page within the budget, whatever its retries cost.
LEMMA OnePageMore ==
  ASSUME NEW k \in Nat, NEW a \in Nat, NEW b \in Nat, a < b
  PROVE  (k + 1) * a + k + 1 <= (k + 1) * b
<1>1. PICK d \in Nat : b = a + 1 + d
  <2>1. b - (a + 1) \in Nat /\ b = a + 1 + (b - (a + 1))
    OBVIOUS
  <2> QED
    BY <2>1
<1>2. (k + 1) * (a + 1 + d) = (k + 1) * a + (k + 1) + (k + 1) * d
  OBVIOUS
<1>3. (k + 1) * d \in Nat /\ (k + 1) * a \in Nat
  OBVIOUS
<1> QED
  BY <1>1, <1>2, <1>3

\* The request at hand is within the budget of the plan, and so is what comes
\* after it, on this route or the next.
LEMMA RequestFits ==
  ASSUME FetchInv, phase \in {"bootstrap", "pages"}
  PROVE  /\ requests \in Nat /\ attempt \in Nat /\ attempt <= Retries /\ Retries \in Nat
         /\ requests < RequestBudget
         /\ phase = "pages" =>
              /\ requests + 1 <= (Retries + 1) * (LimitsUpTo[route - 1] + page + 1)
              /\ requests + 1 <= (Retries + 1) * (LimitsUpTo[route] + 1)
<1> DEFINE n == Len(Routes(plan))
           L == LimitsUpTo
           R == Retries
<1>1. /\ plan \in Plans /\ ValidPlan(plan) /\ route \in 1 .. n /\ n \in Nat /\ n >= 1
      /\ page \in Nat \ {0}
  BY RoutesOfAPlan DEF FetchInv, IInv, PlanInv, RouteInv
<1>2. /\ L \in [0 .. n -> Nat] /\ L[0] = 0
      /\ \A r \in 1 .. n : PageLimit(r) \in Nat \ {0} /\ L[r] = PageLimit(r) + L[r - 1]
      /\ \A r \in 0 .. n : L[r] <= L[n]
  BY <1>1, LimitsAddUp
<1>3. RequestBudget = (R + 1) * (1 + L[n])
  BY DEF RequestBudget
<1>4. /\ R \in Nat /\ attempt \in Nat /\ attempt <= R /\ requests \in Nat
      /\ phase = "bootstrap" => requests <= attempt
      /\ phase = "pages" => /\ requests <= (R + 1) * (L[route - 1] + page) + attempt
                            /\ page <= PageLimit(route)
  BY DiscoveryAssumption DEF FetchInv, CostInv, IssuesInv, DiscoveryAssumption
<1> HIDE DEF n, L, R
<1>5. /\ route \in 0 .. n /\ route - 1 \in 0 .. n /\ n \in 0 .. n
      /\ L[route] \in Nat /\ L[route - 1] \in Nat /\ L[n] \in Nat /\ L[route] <= L[n]
  <2>1. route \in 0 .. n /\ route - 1 \in 0 .. n /\ n \in 0 .. n
    BY <1>1
  <2> QED
    BY <1>2, <2>1
<1>6. CASE phase = "bootstrap"
  <2>1. (R + 1) * 0 + R + 1 <= (R + 1) * (1 + L[n])
    <3>1. 0 \in Nat /\ 1 + L[n] \in Nat /\ 0 < 1 + L[n]
      BY <1>5
    <3> QED
      BY <1>4, <3>1, OnePageMore
  <2>2. requests + 1 <= R + 1 /\ (R + 1) * 0 = 0
    BY <1>4, <1>6
  <2>3. requests < (R + 1) * (1 + L[n])
    <3>1. (R + 1) * (1 + L[n]) \in Nat
      BY <1>4, <1>5
    <3> QED
      BY <1>4, <2>1, <2>2, <3>1
  <2> QED
    BY <1>3, <1>4, <1>6, <2>3 DEF R
<1>7. CASE phase = "pages"
  <2> DEFINE a == L[route - 1] + page
             c == L[route] + 1
             d == 1 + L[n]
  <2>1. a \in Nat /\ a + 1 \in Nat /\ c \in Nat /\ d \in Nat /\ a < a + 1 /\ a < c /\ a < d
    <3>1. L[route] = PageLimit(route) + L[route - 1] /\ PageLimit(route) \in Nat
      BY <1>1, <1>2
    <3> QED
      BY <1>1, <1>4, <1>5, <1>7, <3>1
  <2>2. requests <= (R + 1) * a + attempt
    BY <1>4, <1>7
  <2> HIDE DEF a, c, d
  <2>3. /\ (R + 1) * a + R + 1 <= (R + 1) * (a + 1)
        /\ (R + 1) * a + R + 1 <= (R + 1) * c
        /\ (R + 1) * a + R + 1 <= (R + 1) * d
    BY <1>4, <2>1, OnePageMore
  <2>4. \A x \in Nat : (R + 1) * x \in Nat
    BY <1>4
  <2>5. /\ requests + 1 <= (R + 1) * (a + 1) /\ requests + 1 <= (R + 1) * c
        /\ requests < (R + 1) * d
    <3> DEFINE A == (R + 1) * a
               B == (R + 1) * (a + 1)
               C == (R + 1) * c
               D == (R + 1) * d
    <3>1. A \in Nat /\ B \in Nat /\ C \in Nat /\ D \in Nat
      BY <2>1, <2>4
    <3>2. A + R + 1 <= B /\ A + R + 1 <= C /\ A + R + 1 <= D /\ requests <= A + attempt
      BY <2>2, <2>3
    <3> HIDE DEF A, B, C, D
    <3>3. requests + 1 <= B /\ requests + 1 <= C /\ requests < D
      BY <1>4, <3>1, <3>2
    <3> QED
      BY <3>3 DEF B, C, D
  <2> QED
    BY <1>3, <1>4, <2>5 DEF a, c, d, L, R
<1> QED
  BY <1>6, <1>7

\* A route that is left is not covered before, and afterwards if it was read.
LEMMA RouteIsNew ==
  ASSUME IInv, phase = "pages" PROVE route \notin Covered
<1>1. ASSUME NEW c \in ToSet(coverage) PROVE c.route # route
  <2>1. PICK i \in DOMAIN coverage : c = coverage[i]
    BY DEF ToSet
  <2>2. coverage \in Seq(RouteCoverage) /\ Len(coverage) = route - 1 /\ coverage[i].route = i
    BY <2>1 DEF IInv, CoverageInv
  <2>3. i \in 1 .. route - 1 /\ route \in Nat
    BY <2>1, <2>2 DEF IInv, PlanInv
  <2> QED
    BY <2>1, <2>2, <2>3
<1> QED
  BY <1>1 DEF Covered

\* At the end, no issue means that every route was covered, and one that some
\* route was not.
LEMMA DoneIsWhole ==
  IInv /\ IssuesInv /\ phase = "done" => (issues = <<>> <=> Covered = DOMAIN Routes(plan))
<1> SUFFICES ASSUME IInv, IssuesInv, phase = "done"
             PROVE  issues = <<>> <=> Covered = DOMAIN Routes(plan)
  OBVIOUS
<1> DEFINE n == Len(Routes(plan))
<1>1. n \in Nat /\ route \in 1 .. n /\ DOMAIN Routes(plan) = 1 .. n
  BY RoutesOfAPlan DEF IInv, PlanInv
<1>2. DOMAIN coverage = 1 .. route /\ \A i \in DOMAIN coverage : coverage[i].route = i
  BY <1>1 DEF IInv, CoverageInv
<1> HIDE DEF n
<1>3. \A i \in 1 .. route : i \in 1 .. n
  BY <1>1
<1>4. \A r : r \in Covered <=> r \in 1 .. route /\ IsRead(coverage[r])
  <2>1. \A r : r \in Covered <=> \E i \in DOMAIN coverage : IsRead(coverage[i]) /\ coverage[i].route = r
    BY DEF Covered, ToSet
  <2> QED
    BY <1>2, <2>1
<1>5. issues = <<>> <=> \A i \in 1 .. route : IsRead(coverage[i])
  BY <1>2 DEF IssuesInv, ToSet
<1>6. ASSUME issues = <<>> PROVE Covered = 1 .. n
  <2>1. route = n
    BY <1>6 DEF IssuesInv, n
  <2> QED
    BY <1>4, <1>5, <1>6, <2>1
<1>7. ASSUME Covered = 1 .. n PROVE issues = <<>>
  BY <1>3, <1>4, <1>5, <1>7
<1> QED
  BY <1>1, <1>6, <1>7

\* What a route that is left does to the issues, the cost and the cover: it
\* has an issue unless it was read.
LEMMA LeavingStep ==
  ASSUME FetchInv, phase = "pages", UNCHANGED <<plan, site>>, CoverageInv',
         NEW c \in RouteCoverage, c.route = route,
         NEW stop \in BOOLEAN, EndRoute(c, stop), stop => ~IsRead(c),
         ToSet(coverage') = ToSet(coverage) \cup {c},
         issues' = <<>> <=> issues = <<>> /\ IsRead(c),
         requests' \in {requests, requests + 1}
  PROVE  /\ IssuesInv' /\ CostInv'
         /\ Covered' = Covered \cup (IF IsRead(c) THEN {route} ELSE {})
<1> DEFINE n == Len(Routes(plan))
           last == stop \/ route = n
<1>1. /\ plan \in Plans /\ ValidPlan(plan) /\ route \in 1 .. n /\ n \in Nat
  BY RoutesOfAPlan DEF FetchInv, IInv, PlanInv
<1>2. /\ attempt' = 0 /\ page' = 1
      /\ phase' = IF last THEN "done" ELSE "pages"
      /\ route' = IF last THEN route ELSE route + 1
  BY DEF EndRoute
<1>3. /\ \A d : IsRead(d)' <=> IsRead(d)
      /\ \A r : PageLimit(r)' = PageLimit(r)
      /\ LimitsUpTo' = LimitsUpTo /\ n' = n
  BY DEF IsRead, PageLimit, LimitsUpTo
<1> HIDE DEF n
<1>4. route' \in 1 .. n
  BY <1>1, <1>2
<1>5. IssuesInv'
  <2>1. issues' = <<>> <=> \A d \in ToSet(coverage') : IsRead(d)
    BY DEF FetchInv, IssuesInv
  <2>2. phase' = "pages" => page' <= PageLimit(route')
    <3>1. PageLimit(route') \in Nat \ {0}
      BY <1>1, <1>4, LimitsAddUp DEF n
    <3> QED
      BY <1>2, <3>1
  <2>3. phase' = "done" /\ issues' = <<>> => route' = n
    BY <1>2
  <2> QED
    BY <1>3, <2>1, <2>2, <2>3 DEF IssuesInv, n
<1>6. CostInv'
  <2> DEFINE B == (Retries + 1) * (LimitsUpTo[route] + 1)
  <2>1. /\ requests \in Nat /\ Retries \in Nat /\ requests + 1 <= B
    BY RequestFits
  <2>2. LimitsUpTo[route] \in Nat /\ B \in Nat
    <3>1. route \in 0 .. n
      BY <1>1
    <3>2. LimitsUpTo[route] \in Nat
      BY <1>1, <3>1, LimitsAddUp DEF n
    <3> QED
      BY <2>1, <3>2
  <2>3. phase' = "pages" => route' - 1 = route /\ page' = 1
    BY <1>1, <1>2
  <2>4. phase' = "pages" =>
          (Retries + 1) * (LimitsUpTo[route' - 1] + page') = B
    BY <2>3
  <2> HIDE DEF B
  <2>5. requests' \in Nat /\ requests' <= B + 0 /\ 0 \in 0 .. Retries /\ phase' # "bootstrap"
    BY <1>2, <2>1, <2>2
  <2> QED
    BY <1>2, <1>3, <2>4, <2>5 DEF CostInv
<1>7. Covered' = Covered \cup (IF IsRead(c) THEN {route} ELSE {})
  <2>1. Covered' = {d.route : d \in {e \in ToSet(coverage') : IsRead(e)}}
    BY <1>3 DEF Covered
  <2> QED
    BY <2>1 DEF Covered
<1> QED
  BY <1>5, <1>6, <1>7

LEMMA LimitsBefore ==
  ASSUME IInv, phase = "pages"
  PROVE  /\ LimitsUpTo[route - 1] \in Nat
         /\ (Retries + 1) * (LimitsUpTo[route - 1] + page) \in Nat
         /\ (Retries + 1) * (LimitsUpTo[route - 1] + page + 1) \in Nat
<1> DEFINE l == LimitsUpTo[route - 1]
<1>1. /\ plan \in Plans /\ ValidPlan(plan) /\ page \in Nat /\ Retries \in Nat
      /\ route - 1 \in 0 .. Len(Routes(plan))
  BY RoutesOfAPlan, DiscoveryAssumption DEF IInv, PlanInv, RouteInv, DiscoveryAssumption
<1>2. l \in Nat
  BY <1>1, LimitsAddUp
<1> HIDE DEF l
<1>3. (Retries + 1) * (l + page) \in Nat /\ (Retries + 1) * (l + page + 1) \in Nat
  BY <1>1, <1>2
<1> QED
  BY <1>2, <1>3 DEF l

LEMMA FetchInvInit == Init => FetchInv
<1> SUFFICES ASSUME Init PROVE FetchInv
  OBVIOUS
<1>1. IInv
  BY IInvInit
<1>2. IssuesInv
  BY DEF Init, IssuesInv, ToSet
<1>3. CostInv
  BY DiscoveryAssumption DEF Init, CostInv, DiscoveryAssumption
<1> QED
  BY <1>1, <1>2, <1>3 DEF FetchInv

\* A step that leaves the coverage, the issues and the pages alone keeps what
\* the issues say.
LEMMA IssuesStay ==
  ASSUME IssuesInv, UNCHANGED <<plan, route, page, coverage, issues>>,
         phase' = phase \/ (phase = "bootstrap" /\ phase' = "pages" /\ page <= PageLimit(route))
         \/ phase' \in {"bootstrap", "failed"}
  PROVE  IssuesInv'
<1>1. \A d : (IsRead(d)' <=> IsRead(d)) /\ PageLimit(d)' = PageLimit(d)
  BY DEF IsRead, PageLimit
<1> QED
  BY <1>1 DEF IssuesInv

\* What one step does to the fetch: nothing, one request, or giving up.
LEMMA FetchStep ==
  ASSUME FetchInv, Next
  PROVE  /\ IssuesInv' /\ CostInv'
         /\ \/ /\ Outcome' = Outcome /\ Covered' = Covered /\ requests' = requests
            \/ /\ phase \in {"bootstrap", "pages"} /\ requests' = requests + 1
               /\ \/ Covered' = Covered
                  \/ route \notin Covered /\ Covered' = Covered \cup {route}
            \/ /\ phase \in {"start", "bootstrap", "pages"} /\ requests' = requests
               /\ Covered' = Covered
               /\ Outcome' \in {"failed", "partial"} \/ Outcome' = Outcome
<1> USE DEF Requesting
<1>1. /\ PlanInv /\ RouteInv /\ CoverageInv /\ IssuesInv /\ CostInv /\ IInv /\ IInv' /\ CoverageInv'
      /\ Retries \in Nat
  BY IInvStep, DiscoveryAssumption DEF FetchInv, IInv, DiscoveryAssumption
<1>2. UNCHANGED <<plan, site>>
  BY DEF Next, Begin, TryAgain, Wake, Cancel, CancelRetry, BootstrapRead, PageRead,
         BootstrapLost, PageLost, Over, vars
<1>3. plan' = plan => /\ LimitsUpTo' = LimitsUpTo
                      /\ \A d : (IsRead(d)' <=> IsRead(d)) /\ PageLimit(d)' = PageLimit(d)
  BY DEF IsRead, PageLimit, LimitsUpTo
<1>4. plan' = plan /\ coverage' = coverage => Covered' = Covered
  BY <1>3 DEF Covered
<1>5. CASE Begin
  <2>1. /\ phase = "start" /\ phase' \in {"bootstrap", "failed"}
        /\ UNCHANGED <<plan, route, page, coverage, issues, attempt, requests>>
    BY <1>5 DEF Begin
  <2>2. IssuesInv'
    BY <1>1, <2>1, IssuesStay
  <2>3. CostInv'
    BY <1>1, <2>1 DEF CostInv, PlanInv
  <2>4. Outcome' = "failed" \/ Outcome' = Outcome
    BY <2>1 DEF Outcome
  <2> QED
    BY <1>4, <2>1, <2>2, <2>3, <2>4
<1>6. CASE TryAgain
  <2>1. /\ phase \in {"bootstrap", "pages"} /\ attempt < Retries /\ phase' = phase
        /\ requests' = requests + 1 /\ attempt' = attempt + 1
        /\ UNCHANGED <<plan, route, page, coverage, issues>>
    BY <1>6 DEF TryAgain
  <2>2. IssuesInv'
    BY <1>1, <2>1, IssuesStay
  <2>3. CostInv'
    <3>1. attempt' \in 0 .. Retries /\ requests' \in Nat
          /\ (phase = "bootstrap" => requests' <= attempt')
      BY <1>1, <2>1 DEF CostInv
    <3>2. ASSUME phase = "pages"
          PROVE  requests' <= (Retries + 1) * (LimitsUpTo[route - 1] + page) + attempt'
      <4> DEFINE B == (Retries + 1) * (LimitsUpTo[route - 1] + page)
      <4>1. B \in Nat
        BY <1>1, <3>2, LimitsBefore
      <4>2. requests \in Nat /\ attempt \in Nat /\ requests <= B + attempt
        BY <1>1, <3>2 DEF CostInv
      <4> HIDE DEF B
      <4>3. requests' <= B + attempt'
        BY <2>1, <4>1, <4>2
      <4> QED
        BY <4>3 DEF B
    <3> QED
      BY <1>3, <2>1, <3>1, <3>2 DEF CostInv
  <2> QED
    BY <1>4, <2>1, <2>2, <2>3
<1>7. CASE Wake \/ Over
  <2>1. UNCHANGED <<plan, route, page, coverage, issues, phase, attempt, requests>>
    BY <1>7 DEF Wake, Over, vars
  <2>2. IssuesInv' /\ CostInv'
    BY <1>1, <1>3, <2>1, IssuesStay DEF CostInv
  <2>3. Outcome' = Outcome
    BY <2>1 DEF Outcome
  <2> QED
    BY <1>4, <2>1, <2>2, <2>3
<1>8. CASE Cancel
  <2>1. /\ phase \in {"bootstrap", "pages"} /\ phase' = "failed"
        /\ UNCHANGED <<plan, route, page, coverage, issues, attempt, requests>>
    BY <1>1, <1>8 DEF Cancel, PlanInv, Phases
  <2>2. IssuesInv' /\ CostInv'
    BY <1>1, <1>3, <2>1, IssuesStay DEF CostInv
  <2>3. Outcome' = "failed"
    BY <2>1 DEF Outcome
  <2> QED
    BY <1>4, <2>1, <2>2, <2>3
<1>9. CASE BootstrapRead \/ \E challenged \in BOOLEAN : BootstrapLost(challenged)
  <2>1. /\ phase = "bootstrap" /\ requests' = requests + 1 /\ attempt' \in {0, attempt}
        /\ (phase' = "pages" /\ attempt' = 0) \/ phase' = "failed"
        /\ UNCHANGED <<plan, route, page, coverage, issues>>
    BY <1>9 DEF BootstrapRead, BootstrapLost
  <2>2. /\ plan \in Plans /\ ValidPlan(plan) /\ route = 1 /\ page = 1 /\ 1 \in 1 .. Len(Routes(plan))
        /\ attempt \in 0 .. Retries /\ requests \in Nat /\ requests <= attempt
    BY <1>1, <2>1 DEF PlanInv, CostInv
  <2>3. LimitsUpTo[0] = 0 /\ PageLimit(1) \in Nat \ {0}
    BY <2>2, LimitsAddUp
  <2>4. IssuesInv'
    BY <1>1, <2>1, <2>2, <2>3, IssuesStay
  <2>5. /\ requests' \in Nat /\ attempt' \in 0 .. Retries
        /\ requests' <= (Retries + 1) * (0 + 1) + 0
    BY <1>1, <2>1, <2>2
  <2>6. route - 1 = 0
    BY <2>2
  <2>7. CostInv'
    BY <1>3, <2>1, <2>2, <2>3, <2>5, <2>6 DEF CostInv
  <2> QED
    BY <1>4, <2>1, <2>4, <2>7
<1>10. CASE PageRead
  <2>1. PICK read \in RouteCoverage : ReadOn(read)
    BY <1>1, <1>10, ReadOnePage
  <2>2. /\ phase = "pages" /\ requests' = requests + 1 /\ issues' = issues
        /\ read.route = route /\ IsTrueOf(read) /\ page \in Nat \ {0} /\ ~refused /\ ~refused'
    BY <1>1, <1>10, <2>1 DEF PageRead, ReadOn, PlanInv, RouteInv
  <2>3. CASE EndRoute(read, FALSE) /\ IsRead(read)
    <3>1. ToSet(coverage') = ToSet(coverage) \cup {read}
      BY <1>1, <1>2, <2>2, <2>3, EndRouteStep
    <3>2. IssuesInv' /\ CostInv' /\ Covered' = Covered \cup {route}
      BY <1>1, <1>2, <2>2, <2>3, <3>1, LeavingStep
    <3> QED
      BY <1>1, <2>2, <3>2, RouteIsNew
  <2>4. CASE /\ page # PageLimit(route) /\ ~read.complete
             /\ current' = read /\ page' = page + 1 /\ attempt' = 0
             /\ routeSeen' = KeysUpTo(route, page)
             /\ UNCHANGED <<phase, route, coverage>>
    <3>1. PageLimit(route) \in Nat /\ page <= PageLimit(route)
      BY <1>1, <2>2, LimitsAddUp DEF PlanInv, IssuesInv
    <3>2. page + 1 <= PageLimit(route)
      BY <2>2, <2>4, <3>1
    <3>3. IssuesInv'
      BY <1>1, <1>2, <1>3, <2>2, <2>4, <3>2 DEF IssuesInv
    <3>4. requests \in Nat /\ requests + 1 <= (Retries + 1) * (LimitsUpTo[route - 1] + page + 1)
      BY <2>2, RequestFits
    <3>5. (Retries + 1) * (LimitsUpTo[route - 1] + page + 1) \in Nat
      BY <1>1, <2>2, LimitsBefore
    <3> DEFINE B == (Retries + 1) * (LimitsUpTo[route - 1] + page + 1)
    <3> HIDE DEF B
    <3>6. requests' \in Nat /\ attempt' \in 0 .. Retries /\ requests' <= B + attempt'
      BY <1>1, <2>2, <2>4, <3>4, <3>5 DEF B
    <3>7. CostInv'
      <4>1. LimitsUpTo[route - 1] \in Nat
        BY <1>1, <2>2, LimitsBefore
      <4>2. LimitsUpTo[route - 1] + (page + 1) = LimitsUpTo[route - 1] + page + 1
        BY <2>2, <4>1
      <4> QED
        BY <1>2, <1>3, <2>2, <2>4, <3>6, <4>2 DEF CostInv, B
    <3> QED
      BY <1>2, <1>4, <2>2, <2>4, <3>3, <3>7
  <2> QED
    BY <2>1, <2>3, <2>4 DEF ReadOn
<1>11. CASE CancelRetry \/ \E challenged \in BOOLEAN : PageLost(challenged)
  <2>1. PICK stop \in BOOLEAN :
           /\ EndRoute(current, stop) /\ requests' \in {requests, requests + 1}
           /\ phase = "pages"
           /\ refused' => stop
           /\ requests' = requests => ~stop
           /\ issues' = Append(issues, [route |-> route, page |-> page])
    <3>1. CASE CancelRetry
      BY <1>1, <3>1 DEF CancelRetry, PlanInv
    <3>2. ASSUME NEW challenged \in BOOLEAN, PageLost(challenged)
          PROVE  requests' # requests
      BY <1>1, <3>2 DEF PageLost, CostInv
    <3> QED
      BY <1>11, <3>1, <3>2 DEF PageLost
  <2>2. /\ current \in RouteCoverage /\ current.route = route /\ IsTrueOf(current)
        /\ ~IsRead(current)
    <3>1. PageLimit(route) \in Nat /\ page <= PageLimit(route)
      BY <1>1, <2>1, LimitsAddUp DEF PlanInv, IssuesInv
    <3> QED
      BY <1>1, <3>1 DEF RouteInv, IsTrueOf, IsRead
  <2>3. issues' # <<>>
    BY <2>1
  <2>4. ToSet(coverage') = ToSet(coverage) \cup {current}
    BY <1>1, <1>2, <2>1, <2>2, EndRouteStep
  <2>5. IssuesInv' /\ CostInv' /\ Covered' = Covered
    BY <1>1, <1>2, <2>1, <2>2, <2>3, <2>4, LeavingStep
  <2>6. Outcome' \in {"partial", "running"} /\ Outcome = "running"
    BY <2>1, <2>3 DEF Outcome, EndRoute
  <2> QED
    BY <2>1, <2>5, <2>6
<1> QED
  BY <1>5, <1>6, <1>7, <1>8, <1>9, <1>10, <1>11 DEF Next

LEMMA FetchInvStep == FetchInv /\ [Next]_vars => FetchInv'
<1>1. ASSUME FetchInv, UNCHANGED vars PROVE IssuesInv' /\ CostInv'
  <2>1. /\ LimitsUpTo' = LimitsUpTo
        /\ \A d : (IsRead(d)' <=> IsRead(d)) /\ PageLimit(d)' = PageLimit(d)
    BY <1>1 DEF vars, IsRead, PageLimit, LimitsUpTo
  <2> QED
    BY <1>1, <2>1 DEF vars, FetchInv, IssuesInv, CostInv
<1> QED
  BY <1>1, IInvStep, FetchStep DEF FetchInv

\* What the refinement needs of a discovery is inductive: its issues, its
\* requests and its coverage at every step.
THEOREM FetchInductive == Spec => []FetchInv
  BY FetchInvInit, FetchInvStep, PTL DEF Spec

\* A discovery is a location fetch: retries, lost pages and a cancelled
\* context stay within the budget of the plan, and a discovery without an
\* issue has read every route to its end or page limit.
THEOREM DiscoveryIsAFetch == Spec => ImplementsFetch
<1> DEFINE Whole == phase = "done" => (issues = <<>> <=> Covered = DOMAIN Routes(plan))
<1>1. Init => Fetch!FetchInit
  BY DEF Init, Fetch!FetchInit, Outcome, Covered, ToSet
<1>2. FetchInv => Whole
  BY DoneIsWhole DEF FetchInv
<1>3. FetchInv /\ [Next]_vars /\ Whole' => [Fetch!FetchNext]_(Fetch!fetchVars)
  <2> SUFFICES ASSUME FetchInv, [Next]_vars, Whole'
               PROVE  [Fetch!FetchNext]_(Fetch!fetchVars)
    OBVIOUS
  <2>1. plan' = plan
    BY DEF Next, Begin, TryAgain, Wake, Cancel, CancelRetry, BootstrapRead, PageRead,
           BootstrapLost, PageLost, Over, vars
  <2>2. (DOMAIN Routes(plan))' = DOMAIN Routes(plan) /\ RequestBudget' = RequestBudget
    BY <2>1 DEF RequestBudget, LimitsUpTo, PageLimit
  <2>3. CASE UNCHANGED vars
    <3>1. Outcome' = Outcome /\ Covered' = Covered /\ requests' = requests
      BY <2>3 DEF vars, Outcome, Covered, IsRead, PageLimit
    <3> QED
      BY <2>2, <3>1 DEF Fetch!fetchVars
  <2>4. CASE Next
    <3>1. CASE Outcome' = Outcome /\ Covered' = Covered /\ requests' = requests
      BY <2>2, <3>1 DEF Fetch!fetchVars
    <3>2. CASE /\ phase \in {"bootstrap", "pages"} /\ requests' = requests + 1
               /\ \/ Covered' = Covered
                  \/ route \notin Covered /\ Covered' = Covered \cup {route}
      <4>1. Outcome = "running" /\ requests < RequestBudget
        BY <3>2, RequestFits DEF Outcome
      <4>2. Outcome' \in {"running"} \cup Fetch!Outcomes
        BY DEF Outcome, Fetch!Outcomes
      <4>3. /\ Outcome' = "whole" => Covered' = DOMAIN Routes(plan)
            /\ Outcome' = "partial" => Covered' # DOMAIN Routes(plan)
        BY <2>2 DEF Outcome
      <4>4. \/ Covered' = Covered
            \/ \E part \in DOMAIN Routes(plan) \ Covered : Covered' = Covered \cup {part}
        BY <3>2, RoutesOfAPlan DEF FetchInv, IInv, PlanInv
      <4>5. Fetch!Ask
        BY <2>2, <3>2, <4>1, <4>2, <4>3, <4>4 DEF Fetch!Ask
      <4> QED
        BY <4>5 DEF Fetch!FetchNext
    <3>3. CASE /\ phase \in {"start", "bootstrap", "pages"} /\ requests' = requests
               /\ Covered' = Covered /\ Outcome' \in {"failed", "partial"}
      <4>1. Outcome = "running"
        BY <3>3 DEF Outcome
      <4>2. Outcome' = "partial" => Covered # DOMAIN Routes(plan)
        BY <2>2, <3>3 DEF Outcome
      <4>3. Fetch!GiveUp
        BY <2>2, <3>3, <4>1, <4>2 DEF Fetch!GiveUp
      <4> QED
        BY <4>3 DEF Fetch!FetchNext
    <3> QED
      BY <2>4, <3>1, <3>2, <3>3, FetchStep
  <2> QED
    BY <2>3, <2>4
<1> QED
  BY <1>1, <1>2, <1>3, FetchInductive, PTL
     DEF Spec, ImplementsFetch, Fetch!FetchSpec
================================================================================

# Verification of gozillo

gozillo is a command-line client that reads rental and sale listings from
Zillow.  It searches one or more locations, optionally enriches every listing
with its property page, keeps disk caches, and can record a browser session
through the Chrome DevTools Protocol (CDP) to derive search profiles and
cookies from it.  This directory holds TLA+ models of the parts of the program
where the order of events matters, the configurations that check them with TLC
and proofs of their main properties that TLAPS checks.

## 1. Inventory

| Component | Source | State | What makes it correct | Modules |
|---|---|---|---|---|
| Listing detail enricher | `internal/cli/search_details.go` | in-memory cache, breaker `blocked`, pacing clock `nextStart`, progress counters; worker goroutines | one request per URL, every URL gets a result, breaker stops requests and never closes early, skips are reported, requests are paced | `DetailPass`, `DetailEnricher`, `EnricherProofs`, `SearchPipeline` |
| Search command | `internal/cli/search.go`, `search_progress.go` | location loop, both disk caches, previous results | a location's failure is its own, partial results are never cached, the answer of a key is the answer of its options | `SearchLocations`, `SearchProofs`, `SearchPipeline` |
| CDP HAR recorder | `internal/cdphar/recorder.go` | chains of redirect hops per request ID, queues of extra-info events, freeze flag and cutoff, retention budget | extra info reaches the hop it belongs to, nothing after the cutoff is recorded, limits end the capture | `RequestChain`, `Recorder`, `ChainProofs`, `RecorderProofs` |
| CDP capture | `internal/cdphar/capture.go` | task queue, eight body-fetch workers, freeze buffer | no send on a closed queue, buffered events replayed in order, the archive is built after all workers stopped | `Capture`, `CaptureProofs`, `Browser` |
| Paged discovery | `internal/zillow/search_discovery.go`, `internal/cli/search_discovery.go` | routes, page cursor, found listings, issues | coverage is claimed only for what was read, a lost page is an issue, a refusal ends the discovery | `RoutePlan`, `LocationFetch`, `Discovery`, `DiscoveryProofs` |
| Retry policy | `internal/cli/search_retry.go` | attempt counter | attempts are bounded and never multiplied, waits saturate | `Retry` |
| Disk cache | `internal/cli/disk_cache.go` | one file per key, temporary files | a reader sees a whole entry or none, whatever is killed | `NamedRegister`, `FileStore`, `FileStoreProofs` |
| Zillow HTTP client | `internal/zillow/client.go`, `errors.go` | none between calls | a refusal is retried and data is data, a redirect never leaves the site | `HttpExchange` |
| TLS adapter | `internal/httpclient/tls.go` | none between calls | no header or body is lost, no error mistaken | `TlsAdapter` |
| Session store | `internal/session/session.go` | session files | a session is replaced atomically, the cookies are the browser's last | `FileStore`, `FileStoreProofs`, `SessionImport` |
| HAR archive tools | `internal/har` | none | sanitizing removes every secret, and the template survives it | `HarSanitizer`, `HarTemplate` |
| Parsing, classification | `internal/zillow/property.go`, `rental_*.go`, `search.go`, `search_snapshot.go` | none | the home asked for or none, every listing once, no fact the page denies | `PageValue`, `ListingDecode`, `PropertyDecode`, `CommunityPage`, `RentalFacts` |
| History | `internal/zillow/history.go`, `internal/cli/search_history.go` | none | a listing is new exactly when no earlier one is its own | `ListingHistory` |
| Filters, sort | `internal/cli/search_location_filter.go`, `sort.go`, and stages of `search.go`, `search_details.go` | none | no stage loses a listing that qualifies | `SearchPipeline` |
| Command line, output | `internal/cli/root.go`, `internal/output` | none | wording only | - |

How they interact: the search command calls discovery (or one page fetch)
through the retry policy for every location, filters what comes back, hands it
to the enricher, which calls the HTTP client from its workers and reads and
writes the property disk cache, and finally annotates the history and prints.
The capture command owns a recorder; CDP events reach it from a listener
callback, body fetches from a worker pool, the freeze from the main goroutine.
Its archive feeds the sanitizer, the template deriver and the session import.

PROJECT.json lists every hazard with the line where it bites.

## 2. Modules

### DetailEnricher (the core)

`DetailEnricher.tla` models `listingDetailEnricher` and the search command's
use of it.  One action is one critical section, one request or one timer of
the code:

| Action | Code |
|---|---|
| `BeginDetails` | a location starts: `resetPause`, then `Enrich` |
| `Examine` | one turn of the loop over the listings: `cached`, `loadPersistent`, or a job |
| `Launch` | the worker goroutines start (`EnrichRecency`: the caller itself is the one worker) |
| `Take` | `url := <-jobs` |
| `CheckPause` | either call of `activePause`, and the skip it leads to |
| `ReserveTurn`, `Wake` | `waitForTurn`: reserving the slot, sleeping until it |
| `StartFetch`, `FetchReturns` | `FetchRentalPage` leaves, comes back and is classified |
| `SavePersistent`, `Store`, `Trip`, `Announce`, `Record` | the calls that follow, each one critical section |
| `JobsDone`, `Merge` | `workers.Wait()`, reading the results back |
| `BeginRecency`, `EndLocation` | `enrichRecencyAfterDetailFilters` |
| `Tick` | time passes |

Variables carry the code's names where it has them (`cache`, `blocked`,
`nextStart`, `total`, `fetched`, `skipped`, `pauseReported`); `todo` and `jobs`
are the two halves of the loop over `uniqueURLs`; `wpc`, `wurl`, `slot`, `wres`
are a worker's program counter and locals.  `late`, `cleared` and `longest` are
history variables: they record which starts happened under an open circuit and
the longest cooldown asked for, and no guard reads them.

Left out: the context's cancellation (the search command passes
`context.Background()`, so `waitForTurn` never fails), the opening look at the
breaker in `Enrich` (it follows `resetPause`, so it always finds the circuit
closed), progress wording, and what a page adds to a listing.

`DetailPass.tla` is the promise of a pass without pool, pacing, cache or
breaker: each URL is resolved once, asked at most once, at most as many
requests as workers are outstanding, and a pass that opens closes.
`DetailEnricher!ImplementsPass` states the refinement, with the mapping
`StandingOf`.

`EnricherProofs.tla` holds the proofs, `MCDetailEnricher.tla` the constants of
the runs.

### Browser, RequestChain, Recorder, Capture

`Browser.tla` is the environment: what `internal/cdphar` sees of the browser
through the DevTools protocol, modelled from how the code uses it.  A request
has a life (`Scripts`): its hops, which of them have extra info, a body, a cache
hit, a duplicated event, and how it ends.  Base events come in the order of the
life and are stamped; extra-info events name neither hop nor time and come, in
the order of the hops, at any point between, before or after them.  A stamp is
abstracted to being after the cutoff or not; an event stamped before it may be
delivered long after.

The extras of a kind that a life sends are those of a set of hops
(`ExtraHops`), and the next one is that of the first hop of the set still due
(`NextExtra`).

`RequestChain.tla` holds the operators on one chain of redirect hops.
`Reconcile` is the closed form of the two loops of `reconcileExtraInfo`: the
n-th hop that waits for an extra (`Needy`, `Rank`) gets the n-th pending one.

`Recorder.tla` models the recorder.  Each handler of `handleEvent` is an
operator with the handler's name; `HandleEvent(e, buffered)` is `handleEvent`
and `handleBufferedEvent`.  `OrphansAccounted` compares the counter with the
set of the queued extras (`Orphans`).  Its own `Spec` feeds it straight from the browser.

| Variable | Code |
|---|---|
| `chains[r].entries`, `.pending` | `chains`, `requestChain` |
| `frozen`, `limitErr` | the same |
| `frozenExtras`, `orphanCount` | `frozenRequestExtras` and `frozenResponseExtras`, `frozenOrphanCount` |
| `postCutoff` | `postCutoffRequestIDs` |
| `dropped`, `asks`, `Extra.hop`, `earlyAt` | history: who lost an orphan, tasks made, the hop an extra is about, events up to the cutoff |

`Capture.tla` extends it with the rest of `Capture`: the main goroutine's
program counter `pc`, the listener (`Deliver`, `Listen`, `Buffer`), the cutoff
(`BeginFreeze`, `MetricsRead`, `Cutoff`, `Replay`), the drain, the stop and the
archive, and the workers (`Take`, `Fetch`, `Leave`).  `Replay` handles one
buffered event per step; the lock held over the whole loop is modelled by
`Deliver` waiting while `pc = "replay"`, and the workers, which do not take
that lock, run in between.

In `Capture` there are two views of the browser.  `sentBase`, `sentExtra`,
`sentEarly` and `clock` say how far the browser itself is (`B`, the same
`Browser.tla` under other names); `baseAt`, `extraAt`, `earlyAt` and `clockRead`
say how far the recorder has seen it.  While the buffer fills the first runs
ahead of the second; the history variable `ahead` keeps, for each buffered
event, the position after it, and `See` moves the recorder's view on when the
event is handled.  No guard of the code's steps reads any of them.  With this
mapping `ImplementsRecorder` says that a capture is a recorder: until something
fails, each of its steps is one of `Recorder!Next`, or none.

Left out: headers, sizes, timings, data-received and page events, request
bodies, requests that are not HTTP (ignored by the code), and the rendering of
the archive.  A retention limit may be found exceeded wherever the code
reserves bytes or validates a size (`Exceed`); the chain that is half-updated
then is never archived, so the model leaves it as it was.

### RoutePlan, LocationFetch, Discovery, Retry

`RoutePlan.tla` turns the flags of a paged search into routes
(`buildLocationDiscoveryOptions`, `applyLocationPageOverride`), says which
options `validateDiscoveryOptions` accepts and counts the requests the command
announces.

`Discovery.tla` models `DiscoverLocation` request by request: the bootstrap
page, then each route's pages, every request with its retries (`TryAgain`,
`Wake`), its losses (`PageLost`, `BootstrapLost`) and the two ways a context
ends it: while it waits for a page (`Cancel`, an error) or for another attempt
at one (`CancelRetry`, an issue like any lost page).

`LocationFetch.tla` is the abstract specification of one fetch: requests within
a budget, and an answer that is called whole only when every part was read.
`Discovery!ImplementsFetch` is the refinement (proved in `DiscoveryProofs`), and `SearchLocations` is written
against it, so the two compose without being multiplied.

`Retry.tla` holds the waits as functions of the attempt on wrapped integers
(`Wrap`): the doubling that saturates, the site's Retry-After that is not
checked for overflow, and which of the two is waited for.

### SearchLocations, SearchPipeline

`SearchLocations.tla` is the loop over the locations of one command, and the
commands that follow it and share its cache: cache lookup, fetch, backoff,
partial answers, lost ones, the boundary and the exit code.

| Action | Code |
|---|---|
| `NoSuchPlace`, `CacheHit`, `CacheMiss` | the start of a location, `searchResultCacheKey`, `Load` |
| `Fetching` | a step of the `LocationFetch` under way |
| `FetchedWhole`, `FetchedPart`, `FetchLost` | what `DiscoverLocation` returned, `Save` |
| `BackOff`, `FetchAgain` | `fetchWithRetry` |
| `ReportArea` | boundary filter and the area's result or error |

`SearchPipeline.tla` is `processListings`: each filter of a listing is a
predicate, each stage an operator, in the order of the code, with the merges of
a property page or of a community's units, the recency pass, the sort and the
limit.  `Qualifying` says which listings qualify, each on its own; the property
is that the stages together give just these.  The boundary of a place has two
passes: `BoundaryOfCards` keeps a card that does not tell its place, and the last
one, in `Finalize`, judges what is known after details.  In between a unit of a
community has taken the address of its page (`UnitOf`, if the page gives one).
`Qualifying` has neither the first pass nor the merge to lean on: it judges a
place once, and a unit by its own address (`Whereabouts`), so a first pass that
drops what is unknown, or a unit that keeps its building's address, breaks the
property.

### NamedRegister, FileStore

`FileStore.tla` models the files of the disk caches and of the session store,
which share their way of writing: temporary file, sync, rename.  The directory
as processes see it and as the disk has it are two functions; `Kill`,
`PowerLoss` and `Loosen` are the faults.  `NamedRegister.tla` promises that a
name holds nothing or a whole value and changes in one step, back to an older
one only when the machine stops.

### HttpExchange, TlsAdapter, HarSanitizer, HarTemplate, SessionImport

`HttpExchange.tla` is `Client.execute` with net/http's redirects under
`safeRedirectPolicy`, its limits, and the class of every answer.
`TlsAdapter.tla` is `TLSRoundTripper` beneath it.  `HarSanitizer.tla` works on
documents whose texts are what the code takes them for, nested in each other;
`HarTemplate.tla` adds ranking and derivation; `SessionImport.tla` is the
import of cookies and the jar a client makes of them.

### PageValue, ListingDecode, PropertyDecode, CommunityPage, RentalFacts, ListingHistory

`PageValue.tla` says how one field of a decoded page is read; the modules over
it how a search answer, a property page and a community's page become listings.
`RentalFacts.tla` classifies what a page says, on sets of terms, and dates a
rental by its price history.  `ListingHistory.tla` reads earlier output and
says what changed.

None of these parts keeps state between calls.  `MCValues.tla`, with
`MCArchives.tla` and `MCPages.tla`, gives each its inputs: a step of its
specification picks one case, and an invariant per group states what the parts
promise as a whole.  Most of their definitions use recursion or folds where the
code does, so they stay with TLC; the waits and the exchanges are also proved.

## 3. Runs

| Run | Instance | Question |
|---|---|---|
| `enricher_pool` | 2 URLs, 2 workers, 2 locations, delay 1, cooldowns 1 and 2, TTL 2, clock to 3 | safety invariants, the inductive invariant, `PagesAreKept` |
| `enricher_pass` | 2 URLs, 2 workers, 1 location with recency, fair | refinement of `DetailPass`, with liveness |
| `enricher_fresh_circuit` | 1 worker, 2 locations | the divergence of section 6 |
| `recorder_lives` | 1 request, all lives of 1 or 2 hops and plain ones of 3, 2 orphan slots, limits may be exceeded | pairing, intake and fetch scheduling under every order |
| `recorder_orphans` | 2 requests, 1 orphan slot | the orphan counter |
| `recorder_orphan_shift` | the same | the divergence of section 6 |
| `capture_chain` | 1 request (redirects, an empty body told by extra info alone, a blocked hop), 1 worker, queue of 1, limits, failures and expiry, fair | a capture from navigation to archive, that the buffer does not show (refinement of `Recorder`), and that it ends |
| `capture_queue` | 3 requests with one hop, 1 worker, queue of 1 | tasks at the queue's limit |
| `discovery` | 8 plans (one refused three ways, one overridden), routes of up to 2 pages of listings a, b and one without identity, 1 retry, paced | coverage, refusals, refinement of `LocationFetch` |
| `search_locations` | 3 commands in a row out of 6, two spellings of a place, one outside its state, one without slug, page overrides, 1 retry | what the cache answers, what a loss looks like, how many requests |
| `file_store` | 2 processes, 2 names, 2 values, 2 faults | refinement of `NamedRegister`, readers beside writers |
| `values` | some 227,000 cases | the parts without state |

Beside some definitions stands a variant that no specification uses
(`NeedyWhatever` beside `Needy`, say): the definition with a plausible bug.
PROJECT.json lists, for each property, a variant that must break it when it
takes the definition's place.

Bounds of the enricher.  Two workers are enough for one to be between its second look and its
request while the other opens the circuit; two URLs let one be skipped while
the other is asked; two locations let a cache entry, a skip and a reserved slot
outlive the location that made them; two cooldowns let a shorter one arrive
after a longer one; `MaxTime` 3 lets both end.  The clock may go past `MaxTime`
as far as a sleeping worker needs.  Three URLs in one location were checked too
(2.8 million states) and show nothing else.  Symmetry over URLs and workers is
used only where no liveness is checked.

Bounds of the recorder.  Chains are independent but for the orphan slots, so one
request shows all of the pairing; three hops let a hop without extra info lie
between two with it.  A second request is needed only to fill the orphan slots,
and three fill a worker and a queue of one and overflow it.  The capture's
instances use a selection of lives, as the runs of the recorder cover them all.

Bounds of discovery and search.  Two routes let the second repeat, extend or
miss what the first found; two pages and limits of one to three let a route end
before, at and after its limit; one retry is enough for a request that
succeeds the second time and one that does not.  The site answers the same
page the same way throughout one discovery, and a route without a reported
total shows something new on every page but the last: on a site that repeats a
page and goes on, the code takes the repetition for the end, as it says
(`MCShowsNews`).  Three commands let an entry be written, used and used again
by a command with other options.

Bounds of the file store.  Two processes and two names let a List meet a Save
and a Remove; the second fault lets a process die and the machine stop after
it.  A rename is atomic and a synced file survives, which is what POSIX file
systems promise; the directory is not synced by the code, so a name may fall
back.  The symmetry is sound since the properties treat processes, names and
values alike.

Bounds of the values.  Up to three of five cards: a plain one, one of which
only the page knows beds and size, one whose page is lost, a building of which
only the page tells the place, with a named and an unnamed unit, and a building
whose page gives no address.  Six places (anywhere, a state, a strict city with
and without an alias, two allowed cities, a postal code) keep, drop and leave
open each of them.  Two bed
ranges and two sorts, ten doublings and every count of seconds around a wrap of
a small integer, chains of up to ten redirects, archives of up to two requests
with secrets two documents deep, property caches of up to three homes, communities
of a plan or two, and histories of up to three events.  No page contradicts what its card
says (`SearchPipeline` states it where it matters): when one does, the order of
stages decides, and nothing in the documentation says how.

Fairness.  `FairSpec` of the enricher assumes that the orchestrating goroutine and every worker
that can take a step does, which Go's scheduler provides: the mutexes are held
for a few instructions and never across a request; that a request returns,
which the client's timeout guarantees; and that time passes.  Nothing is
assumed about which locations are searched or how requests end.  `FairSpec` of
the capture assumes that its main goroutine and its workers run: every request
to the browser returns by the context's deadline, and the drain has a timer.
Nothing is assumed of the browser's events.

## 4. Proofs

A theorem here holds for every value of the constants that satisfies the named
assumption of the module that declares them; TLC evaluates the assumptions in
the runs.  Every invariant was checked by TLC as an invariant of a run's
instance before it was proved.

### Detail enricher

`EnricherProofs` proves, for every finite set of URLs and workers, every delay,
set of cooldowns and lifetime, and with no use of `MaxTime`, the invariants of
`enricher_pool` and `PagesAreKept`.

None of the invariants is inductive alone.  `IInv` strengthens them:
`OnePlace` says a URL is in exactly one of `todo`, `jobs` or a worker's hands,
which makes two workers on one URL impossible; `Unanswered` adds that what is
still to be asked has no answer in either cache, which needs that only the
holder of a URL writes its entries and that an expired disk record never comes
back to life; `Accounted` and `Counted` say that every URL is somewhere and
that the counters plus what is left make the total; `ClearedBefore` says that a
worker about to start under an open circuit had its look before it opened and
has not used it; `SlotsReserved` that each slot was paid for in `nextStart`;
`SkipsFollowReports` that a details pass opens with the circuit closed, so that
whoever skips does so after a trip that is reported or about to be.  The proof
is a lemma per conjunct group with one step per action; `Inductive` puts them
together and the other theorems follow.

`PassesAreHonest` proves that the enricher implements the safety part of
`DetailPass`: each step of a pass resolves, asks for or answers one URL as
`DetailPass` allows, or moves none.  Where a URL stands (`StandingOf`) follows
from the step of the worker that holds it (`StandingAt`, `StandingHeld`), which is
where `OnePlace` is needed, and from one more invariant: a worker has no skip
in hand before its request or after it (`SkipsAreEarly`), so what was asked is never
taken back to pending.  `AskedAreHeld` bounds the requests by the workers.


### Files

`FileStoreProofs` proves, for every set of processes, names and values and any
number of faults, that readers see a whole value or none (`WritersAreInvisible`)
and that the store implements `NamedRegister` (`ImplementsRegister`).  The
invariant says that every file a name leads to, in the directory as processes
see it or as the disk has it, is synced and holds a value; that a process about
to rename has written and synced such a file (`SaveInv`), which is what the
order write, sync, rename is for; and that a reader not disturbed by a removal
or a crash still has its name in place (`ReadInv`).  `RegisterStep` then takes
the steps one by one: a rename writes the register, a removal clears it, a
power loss takes it back to an older value, and every other step is a stutter.

### Search command

`SearchProofs` proves, for every sequence of commands and every behaviour of
the fetches, that the cache holds only whole answers of its key's options
(`CacheHoldsWholeAnswers`), that what was lost is reported (`LossIsReported`)
and that retries are not multiplied (`RequestsStayLinear`).  `AnswerInv` ties
the answer at hand to the location and to the mark "incomplete": it is the
place's whole answer or it is marked, whatever way the fetch ended; `CostInv` ties the requests of a location to the attempt number and to
the budget of the fetch under way, so that the bound holds in the middle of
an attempt too.  The fetch is `LocationFetch`, so these theorems are about
discovery as well, by the next ones.

### Discovery

`DiscoveryProofs` proves, for every plan, valid or not, and every site that
shows what it has, that claimed coverage is real (`CoverageIsTrue`), that a refusal
is the last request (`NothingAfterRefusal`) and that discovery implements
`LocationFetch` (`ImplementsFetch`): within its budget, and whole only when it
read every part.  `RouteInv` says what has been read of the route under way,
`ListingsInv` that the listings found are those of the pages read, each once:
`AddNewAddsEachOnce` proves of the fold that merges a page that it keeps what is
known and adds each other key once.  `EndIsTheEnd` is the heart of it: where the
code takes a page for the last one, none follows.  For the
budget, `CostInv` bounds the requests so far by those of the routes before
(`LimitsUpTo`, a sum by recursion, handled by the lemmas below) and the pages
of this one.

Assumed of the site (`DiscoveryAssumption`, `ShowsAll`): it answers the same
page the same way during one discovery; a route without a reported total
shows something new on every page but the last, and a reported total of pages is the
true one.  Without it the claim is false, as
the code says itself: it takes a page with nothing new for the end.

### Recorder

`ChainProofs` is about `RequestChain`, for any chain: `RankType`, `RankGrows`
and `RanksAreAll` count the hops that wait; `Reconciliation` and `AfterPass` say
what one pass does; `PassLeavesNothing` that a second pass changes nothing; and
`PassPairs` that a pass gives every hop its own extra as long as the extras
wait in the order of the hops (`Paired`).

`RecorderProofs` proves all seven invariants of the recorder's runs, for any
finite set of requests, any lives and any number of orphan slots.
`Outcomes` first splits `HandleEvent` into what it may amount to for the
request's chain (starting, redirecting, answering, finishing, breaking, caching,
pairing, queueing, dropping, failing), so that each invariant has one lemma per
outcome.  Then, in layers, together `RecorderInv`:

- `CoreInv` = `RecInv` (types; the orphan counter equals the queued extras, and
  extras are queued only after the freeze for requests without entry; no chain
  has both waiting hops and pending extras), `EnvInv` and `ClockInv` (the browser's
  stamps; its clock is read when the recorder freezes) and `TakenInv` (each chain holds exactly what the base events up to
  the cutoff say, field by field).  From it `OrphansAccounted`, `Reconciled`
  and, but for the cache marks, `IntakeIsTheCutoff`.
- `PairInv` adds, for requests that lost no orphan, that each chain is in step
  with the browser (`InStep`): entries with an extra have their own, pending
  and queued extras are the next hops' in order, and an entry that another hop
  follows knows whether an extra is to come (`Informed`).  None of
  `ExtrasBelongToHop` and `NoExtraLost` can do without the other: an extra lost
  shifts the next, one shifted is lost to its hop.  Counting (`Come`) turns
  "in order" into "all there".
- `BodyInv` adds what each entry knows of its body: what extra info and response
  say of it is true (`Frank`, `Honest`), a hop that a redirect follows is never
  asked for, and nobody who is ready to be asked for has not been
  (`Minded`, `Fetched`).  From it `NoNeedlessFetch` and `NoBodyForgotten`.
- `CacheInv` is about the one base event without a timestamp: a request of which
  something came after the cutoff is known as such before its next cache event
  (`PostInv`), so that no hop is marked as served from the cache that was not.
- `LostInv`: the body that a redirect put out of reach has an error, if there
  was one.

The requests excluded (`dropped`) are those of the finding in section 6.

### Capture

`CaptureProofs` is about the whole capture: any number of workers, any queue
size, and every interleaving of the listener, the main goroutine, the workers
and an expiring context.  It proves every safety property of the capture's runs.

`CaptureInv`, beside the types and the recorder's `RecInv`:

- `AsksInv`: each entry was asked for at most once, and every entry but the
  last of a chain is settled.  `OutcomeAsks` takes the outcomes of an event one
  by one and concludes that an event asks for one body at most, which is why
  one send per event is all of `scheduleLocked`.
- `TasksInv`: the bodies asked for are those in the queue, in a worker's hand
  or answered, each in exactly one place and once there.  That the places are
  disjoint is what makes it inductive: a worker's `Take` and `Fetch` move a task.
- `ControlInv`: what the main goroutine's place says of `accept`, of the failed
  run, of the workers that left and of the expired context.  A worker leaves only a
  closed, empty queue, so at the archive nothing is under way.
- `ClocksInv` and `SightInv`: when the clocks have been read, and that both
  views of the browser are positions in its lives.

From it `TasksAccounted`, `NothingAfterStop` and `NoPartialArchive`.  The others
need to know that the buffer does not show:

- `AheadInv`, for a live capture (nothing failed, still listening): the buffer
  holds, in order, exactly the events that lead from what the recorder has
  seen to where the browser is, and none of them is stamped after the cutoff unless
  the browser's clock has been read.  `Simulates` shows step by step that such a
  capture takes a step of `Recorder` or none: a replayed event is one the
  browser could have sent just then.  So the recorder's own invariant carries over
  (`FaithfulInv`), and with it `ImplementsRecorder` and
  `CutoffSurvivesBuffering`, the cache marks included.
- `KeptInv` is what stays true when the capture no longer listens: each chain
  is within its life, has its extras paired and its bodies asked for
  (`PairedAndFetched`), an entry that finished is the browser's last hop
  (`FinishedLast`), and what is still asked for is the last hop (`AskedLast`).
  Hence `BodyBelongsToHop`: when a worker gets to a task, the body that the
  browser has under that request ID is that of the hop it was made for.
- `MarkedInv`: from the marking on, an entry is marked as incomplete just if
  something is missing.  With `KeptInv` it gives `ArchiveIsHonest` and
  `NoSilentlyMissingBody`; neither says anything of requests that lost an orphan.

### Recursion

The induction theorems of the library take an operator as a parameter, which
the provers at hand cannot instantiate.  `RecursionLemmas` states induction
over the naturals, the existence of functions by recursion on them or on a bounded range
and the meaning of `FoldLeft` with sets and functions instead, so that the
other proofs can cite them.

### Waits and requests

`SearchProofs` also proves what its requests rest on, for all inputs instead of
those of `MCValues`.  `EveryWaitIsSound`: for every base, attempt, header and
width of a duration, a wait is the base doubled exactly or the ceiling, or the
longer time the site asks for; `BackoffDoubles` shows by induction that the
loop leaves before a doubling could wrap, and `WrapFits` that a header that
fits is waited for in full.  `EveryExchangeIsSound`: for every chain of answers,
of any length, the client stays on the site, follows at most ten hops, retries
what declines to serve and takes for data only what serves; `ChainEnds` shows
that the chain has a last answer.

### Only model-checked

- What rests on fairness: that a pass of the enricher closes (the liveness
  in `ImplementsPass`; its steps are proved, see `PassesAreHonest`) and that a
  capture ends (`Termination`).
- The properties of `MCValues`: each is about one case of its specification.  Of
  the parts behind them the waits and the exchanges are proved for all inputs;
  the others are built on recursive operators, or on folds and sorts that take an
  operator as a parameter, which the provers at hand cannot instantiate.
- The two findings, which are counterexamples.

## 5. What is not modelled

- Command line, tables, help texts, progress wording, version: text only.
- TLS handshakes, HTTP/2, connection reuse and certificate pinning: inside the
  libraries the adapter calls.
- Finding and launching a browser, the DevTools connection, timings and sizes
  of an archive, the rendering of HAR files.
- `housing_type.go`: a list of phrases; `profile.go`: the filters it writes
  into a captured query, field by field, and the check of a profile file.
- Percent-encoding in URLs: `HarSanitizer` works on decoded parts.  Its
  archives have the content type their bodies have, and the redaction text is
  the default one.
- Words in free text: a term of `RentalFacts` stands for all phrases of one
  rule.  Price histories have up to twelve events, for which `sort.Slice` keeps
  the order of equals.
- The change of method after a 302, which no property depends on, and the
  conversion of response headers in the TLS adapter: the three that the client
  reads (`client.go:351`) are inputs of `HttpExchange`, taken to pass the
  adapter unchanged.
- The error of a location whose listings all lie outside its state is in
  `SearchLocations`; `SearchPipeline` shows the empty list.
- The syntax of session names and stored JSON, and the request's trace hooks.

## 6. Findings

`enricher_fresh_circuit`: `docs/search-guide.md:132` promises that later
locations start with a fresh detail circuit.  `resetPause` closes the circuit,
but the skips it caused were stored in the in-memory cache with the pause's
retry time, and `cached` answers with them until that time: a later location
that lists the same URL skips it without a request.

`recorder_orphan_shift`: `TestRecorderDoesNotShiftExtraInfoAcrossRedirects`
(`internal/cdphar/recorder_test.go:276`) says that extra info does not shift
across redirects.  After the freeze an extra whose request has no entry yet is
dropped when `maxFrozenOrphanExtras` others are queued
(`internal/cdphar/recorder.go:495`); when the request's base event arrives
later, the next hop's extra is taken as usual, and pairing by order gives it to
the first hop.  The run has one slot instead of 32; `ExtrasBelongToHop` holds
for all requests that lost no orphan.

## 7. Observations

Met while modelling; none contradicts a line of the documentation strongly
enough for a finding, and each is modelled as the code has it.

- The announced "up to N requests" (`search_progress.go:75`) leaves retries
  out; `PlanHolds` therefore compares it with the requests of a discovery that
  is refused nothing.
- `days:2,days:5` is accepted as two sorts, and refused by discovery as a
  duplicate route before the first request (`TwoLimits`).
- Merging a captured search's price bounds with the filters' is checked for
  inverted bounds, merging bed bounds is not (`profile.go:323`).
- A context that ends while a page waits for another attempt makes that page an
  issue, not an error of the discovery; `CancelRetry` allows more after it than
  the code can do.
- `Sanitize` refuses some archives whose sanitized form is clean, never the
  other way round.  A referer with a fragment or user information becomes
  usable by being sanitized, so a copy can derive a template where the
  original could not.
- A removal and a new listing on the same day count in page order.
- "Dishwasher" contains "washer": with a dryer among a community's amenities
  it makes in-unit laundry.  "Leasing office" among a community's
  amenities counts as an office, which `docs/request-discovery.md:367` rules out
  for generic text.
- A page's address reaches the listing only for units (`search_details.go:689`):
  a plain card whose city is unknown passes the first boundary, and the second
  drops it also when its page told the city.  A unit with a number on a page
  without an address replaces a known address by that number
  (`rental_page.go:206`).  No line of the documentation says otherwise.
- A cookie that expired under one spelling of its domain, with or without the
  dot, can be imported from an older request under the other.
- A community's units without an ID share its URL and are compared with the
  first earlier listing of that URL.
- An earlier search that found nothing cannot be read back as history.

## 8. Plan

Modelling: every module of the plan is written.  Still to come, should the code
grow there: the orphan count the archive reports, resolving the browser's
endpoint, the filters of `profile.go` and the proxy URLs of the transport.

Proofs.  Every safety property of a run with state is proved.  What is left for
the provers, should they learn operators as parameters: the stages of
`SearchPipeline` and the jar of `SessionImport`, whose sorts are
`SetToSortSeq`, and the sanitizer, by induction over documents.

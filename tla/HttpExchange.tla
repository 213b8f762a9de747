---------------------------- MODULE HttpExchange ----------------------------
(***************************************************************************)
(* Client.execute (zillow/client.go): one request of the client, the       *)
(* redirects net/http follows for it under safeRedirectPolicy, and what    *)
(* the answer is taken for.  A body is [size, shape, next, marker]: how it *)
(* begins, whether it holds the application data of a rendered page, and   *)
(* whether it holds one of the challenge markers.                          *)
(***************************************************************************)
EXTENDS Integers, Sequences, FiniteSets, SequencesExt, FiniteSetsExt

-----------------------------------------------------------------------------
(* The options of a client.                                                *)

MaxHeaderFields == 32
MaxHeaderValues == 8
MaxHeaderValue == 4096
MaxHeaderBytes == 16384
DefaultMaxResponse == 8388608
DefaultTimeout == 20    \* seconds

AllowedBrowserHeaders ==
    {"accept", "accept-language", "cache-control", "dnt", "pragma", "priority",
     "sec-ch-ua", "sec-ch-ua-arch", "sec-ch-ua-bitness",
     "sec-ch-ua-full-version", "sec-ch-ua-full-version-list",
     "sec-ch-ua-mobile", "sec-ch-ua-model", "sec-ch-ua-platform",
     "sec-ch-ua-platform-version", "sec-fetch-dest", "sec-fetch-mode",
     "sec-fetch-site", "sec-fetch-user", "sec-gpc", "upgrade-insecure-requests"}

\* WithBrowserHeaders: a field is [name, bytes, values], the values by length.
ValidBrowserHeaders(fields) ==
    /\ Cardinality(fields) <= MaxHeaderFields
    /\ \A f \in fields :
          /\ f.name \in AllowedBrowserHeaders
          /\ Len(f.values) \in 1 .. MaxHeaderValues
          /\ \A n \in ToSet(f.values) : n \in 1 .. MaxHeaderValue
    /\ MapThenSumSet(LAMBDA f : FoldLeft(LAMBDA acc, n : acc + f.bytes + n, 0, f.values),
                     fields) <= MaxHeaderBytes

\* NewClientWithOptions: what is not set has its default.
ClientOf(o) ==
    [timeout |-> IF o.timeout = 0 THEN DefaultTimeout ELSE o.timeout,
     limit |-> IF o.limit = 0 THEN DefaultMaxResponse ELSE o.limit,
     agent |-> IF o.agent = "" THEN "gozillo" ELSE o.agent,
     headers |-> o.headers]

ValidClient(o) ==
    o.timeout >= 0 /\ o.limit >= 0 /\ ValidBrowserHeaders(o.headers)

-----------------------------------------------------------------------------
(* The request.                                                            *)

\* parseAllowedZillowURL
AllowedURL(u) ==
    /\ u.scheme = "https" /\ ~u.user /\ ~u.port
    /\ u.host \in {"zillow.com", "www.zillow.com"}

\* Browser headers go with pages only, and never replace the client's own.
Headers(c, spec) ==
    (IF spec.kind = "html" THEN {f.name : f \in c.headers} ELSE {})
    \cup {"accept", "user-agent"}
    \cup (IF spec.body THEN {"content-type", "origin"} ELSE {})
    \cup (IF spec.referer THEN {"referer"} ELSE {})

-----------------------------------------------------------------------------
(* The answer: [status, location, blocked, type, body]; status 0 is a      *)
(* connection that broke, location <<>> no redirect.                       *)

IsJSON(r) == r.type = "json" \/ r.body.shape = "json"
IsHTML(r) == r.type = "html" \/ r.body.shape = "html"
Success(r) == r.status \in 200 .. 299

\* X-Px-Blocked
Blocked(r) == r.blocked \notin {"", "false", "0"}

Rendered(kind, r) == kind = "html" /\ Success(r) /\ IsHTML(r) /\ r.body.next

ChallengeShaped(kind, r) ==
    \/ r.status >= 400
    \/ kind = "json" /\ (IsHTML(r) \/ r.body.shape # "json")
    \/ kind = "html" /\ IsHTML(r) /\ ~r.body.next

ChallengeByMarker(kind, r) ==
    \/ r.body.marker
    \/ kind = "json" /\ IsHTML(r)
    \/ kind = "html" /\ r.status = 403 /\ IsHTML(r)

\* detectChallenge: a rendered page may well mention a CAPTCHA.
Challenge(kind, r) ==
    /\ ~Rendered(kind, r)
    /\ \/ ChallengeShaped(kind, r) /\ r.body.marker
       \/ kind = "json" /\ IsHTML(r)
       \/ kind = "html" /\ r.status = 403 /\ IsHTML(r)

\* The classification of execute, in its order.
Outcome(kind, r, limit) ==
    CASE r.status = 0 -> "failed"
      [] r.status # 0 /\ r.body.size > limit -> "too large"
      [] OTHER ->
            IF Blocked(r) THEN "challenge"
            ELSE IF r.status = 429 THEN "rate limit"
            ELSE IF Challenge(kind, r) THEN "challenge"
            ELSE IF ~Success(r) THEN "status"
            ELSE IF kind = "json" /\ ~IsJSON(r) THEN "drift"
            ELSE "data"

-----------------------------------------------------------------------------
(* The exchange: the answers a server would give one after the other.      *)

Redirects(r) == r.status \in {301, 302, 303, 307, 308} /\ r.location # <<>>

MaxHops == 10

\* safeRedirectPolicy, asked before the request after answer i.
Follows(r, i) == AllowedURL(r.location[1]) /\ i < MaxHops

\* The answer at which the chain ends.
LastAnswer(answers) ==
    CHOOSE i \in DOMAIN answers :
        /\ ~Redirects(answers[i]) \/ ~Follows(answers[i], i) \/ i = Len(answers)
        /\ \A j \in 1 .. i - 1 : Redirects(answers[j]) /\ Follows(answers[j], j)

\* The URLs asked for, and what became of it.
Exchange(spec, answers, limit) ==
    IF ~AllowedURL(spec.url) THEN [asked |-> <<>>, outcome |-> "refused"]
    ELSE LET n == LastAnswer(answers) IN
         [asked |-> <<spec.url>> \o [i \in 1 .. n - 1 |-> answers[i].location[1]],
          outcome |-> IF Redirects(answers[n]) THEN "failed"
                      ELSE Outcome(spec.kind, answers[n], limit)]

-----------------------------------------------------------------------------
\* The site declines to serve: a block, a limit, or a page put in the place of
\* the answer.
Declines(kind, r) ==
    \/ r.status = 429 \/ Blocked(r)
    \/ r.status >= 400 /\ r.body.marker
    \/ kind = "json" /\ IsHTML(r)
    \/ kind = "html" /\ IsHTML(r) /\ ~Rendered(kind, r)
          /\ (r.status = 403 \/ (r.body.marker /\ ~r.body.next))

\* It serves a rendered page or a JSON document.
Serves(kind, r) ==
    /\ Success(r) /\ ~Blocked(r)
    /\ Rendered(kind, r) \/ (kind = "json" /\ ~IsHTML(r) /\ r.body.shape = "json")

\* What callers rely on, the retries most of all: whatever declines is retried
\* (a challenge or a rate limit) and never becomes data, a page without
\* listings or a schema drift; whatever serves is data, also with the words of
\* a challenge in a description; data is a whole answer within the limit; and
\* no request of the exchange, first or redirected, leaves the site or exceeds
\* ten hops or carries a header the client owns for others.
ExchangeIsSound(options, spec, answers) ==
    ValidClient(options) =>
    LET c == ClientOf(options)
        x == Exchange(spec, answers, c.limit)
        r == answers[LastAnswer(answers)]
        read == x.asked # <<>> /\ ~Redirects(r) /\ r.status # 0
                    /\ r.body.size <= c.limit
    IN  /\ \A u \in ToSet(x.asked) : AllowedURL(u)
        /\ Len(x.asked) <= MaxHops
        /\ read /\ Declines(spec.kind, r) => x.outcome \in {"challenge", "rate limit"}
        /\ read /\ Serves(spec.kind, r) => x.outcome = "data"
        /\ x.outcome = "data" => read /\ Success(r)
        /\ "cookie" \notin Headers(c, spec)
=============================================================================

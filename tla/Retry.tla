------------------------------- MODULE Retry -------------------------------
(***************************************************************************)
(* When a refused request is tried again and how long that waits.  The     *)
(* page requests of a discovery (search_discovery.go) and the requests of  *)
(* a whole location (search_retry.go) use the same rules, written twice in *)
(* the code.  Durations are 64-bit nanosecond counts there; here they are  *)
(* integers that wrap at Half, and Ceiling stands for five minutes.        *)
(***************************************************************************)
EXTENDS Integers

CONSTANTS Ceiling,  \* the longest backoff
          Second,   \* one second, the unit of a Retry-After header
          Half      \* durations live in -Half .. Half - 1

ASSUME RetryAssumption ==
    /\ Ceiling \in Nat \ {0} /\ Second \in Nat \ {0} /\ Half \in Nat
    /\ 2 * Ceiling < Half

Wrap(n) == ((n + Half) % (2 * Half)) - Half

\* errors.Is(err, ErrChallenge) || errors.Is(err, ErrRateLimited)
Retryable(err) == err \in {"challenge", "rate limit"}

\* A backoff that does not stop doubling in time.
EagerDoubling(base) ==
    LET delay[n \in Nat] == IF n = 0 THEN base ELSE Wrap(2 * delay[n - 1])
    IN  delay

\* The delay after n doublings: the loop leaves with the ceiling before a
\* doubling could reach it.
Doubling(base) ==
    LET delay[n \in Nat] ==
            IF n = 0 THEN base
            ELSE IF 2 * delay[n - 1] >= Ceiling THEN Ceiling
                 ELSE Wrap(2 * delay[n - 1])
    IN  delay

Backoff(base, attempt) ==
    IF base <= 0 THEN 0
    ELSE LET delay == Doubling(base)[attempt]
         IN  IF delay > Ceiling THEN Ceiling ELSE delay

\* parseRetryAfter with a count of seconds; the product is not checked.
RetryAfter(seconds) == IF seconds >= 0 THEN Wrap(seconds * Second) ELSE 0

\* A rate limit's own delay replaces the backoff only when it is longer.
Wait(base, attempt, seconds) ==
    LET backoff == Backoff(base, attempt)
        asked == RetryAfter(seconds)
    IN  IF asked > backoff THEN asked ELSE backoff

\* wholeLocationRetryPolicy: a discovery spends the budget on its own
\* requests, so the location around it is not tried again.
NestedLocationRetries(discovery, retries) == retries
LocationRetries(discovery, retries) == IF discovery THEN 0 ELSE retries

-----------------------------------------------------------------------------
\* How many times a base has grown after n doublings that nothing stops.
PowerOfTwo[n \in Nat] == IF n = 0 THEN 1 ELSE 2 * PowerOfTwo[n - 1]

\* The waits of one request: never negative, never below the backoff however
\* the header's seconds overflow, never shorter than the wait before as long
\* as the site does not say so, exactly double until the ceiling, and what the
\* site asks for is waited for whenever a duration can hold it.
WaitIsSound(base, attempt, seconds) ==
    LET wait == Wait(base, attempt, seconds)
        doubled == base * PowerOfTwo[attempt]
        ideal == IF doubled > Ceiling THEN Ceiling ELSE doubled
    IN  /\ wait >= ideal
        /\ seconds >= 0 /\ seconds * Second < Half => wait >= seconds * Second
        /\ wait \in {ideal, RetryAfter(seconds)}
        /\ wait <= Wait(base, attempt + 1, seconds)
=============================================================================

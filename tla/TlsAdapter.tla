----------------------------- MODULE TlsAdapter -----------------------------
(***************************************************************************)
(* TLSRoundTripper (httpclient/tls.go) between net/http and tls-client.  A *)
(* header name is [name, lower]; times are nanoseconds.                    *)
(***************************************************************************)
EXTENDS Integers, Sequences, FiniteSets, SequencesExt

Millisecond == 1000000

\* validateTLSTimeout; 0 would mean no timeout to tls-client.
ValidTimeout(t) == t >= Millisecond
TimeoutMilliseconds(t) == t \div Millisecond

-----------------------------------------------------------------------------
(* Headers.                                                                *)

OrderKeys == {"header-order:", "pheader-order:"}

PreferredOrder ==
    <<"cache-control", "pragma", "sec-ch-ua", "sec-ch-ua-mobile",
      "sec-ch-ua-platform", "sec-ch-ua-platform-version", "sec-ch-ua-arch",
      "sec-ch-ua-bitness", "sec-ch-ua-full-version",
      "sec-ch-ua-full-version-list", "upgrade-insecure-requests",
      "user-agent", "dnt", "sec-gpc", "accept", "sec-fetch-site",
      "sec-fetch-mode", "sec-fetch-user", "sec-fetch-dest",
      "accept-encoding", "accept-language", "priority", "cookie">>

Sent(names) == {n \in names : n.lower \notin OrderKeys}

\* As often as the request spells it.
Repeated(lower, names) ==
    [i \in 1 .. Cardinality({n \in names : n.lower = lower}) |-> lower]

OrderOfPreferred(names) ==
    FlattenSeq([i \in DOMAIN PreferredOrder |-> Repeated(PreferredOrder[i], names)])

\* orderedHeaderNames: a browser's order first, the rest by name; rank gives
\* the alphabetical order.
HeaderOrder(names, rank) ==
    LET rest == {n.lower : n \in names} \ ToSet(PreferredOrder)
        sorted == SetToSortSeq(rest, LAMBDA x, y : rank[x] < rank[y])
    IN  OrderOfPreferred(names)
        \o FlattenSeq([i \in DOMAIN sorted |-> Repeated(sorted[i], names)])

-----------------------------------------------------------------------------
(* RoundTrip: what tls-client did becomes what net/http sees.  The backend *)
(* gives [error, response], the response "none", "empty" (without a body)  *)
(* or "body"; a body is "open" until somebody closes it.                   *)

RoundTrip(backend, cancelled) ==
    IF backend.error
    THEN [error |-> IF cancelled THEN "context" ELSE "backend",
          body |-> IF backend.response = "body" THEN "closed" ELSE "none"]
    ELSE IF backend.response = "none" THEN [error |-> "no response", body |-> "none"]
    ELSE [error |-> "none",
          body |-> IF backend.response = "body" THEN "open" ELSE "NoBody"]

\* net/http and execute close the body of a response they get, and only that.
Closed(trip) ==
    IF trip.error = "none" THEN [trip EXCEPT !.body = "closed"] ELSE trip

-----------------------------------------------------------------------------
\* The adapter is invisible: every header arrives once in the order a browser
\* uses, nothing of the library's own leaks either way, no body stays open
\* whatever fails, a cancelled request is known as such, and a valid timeout
\* is never rounded to none or beyond the client's own.
AdapterIsTransparent(names, rank, backend, cancelled, timeout) ==
    LET order == HeaderOrder(Sent(names), rank)
        trip == RoundTrip(backend, cancelled)
        place(x) == SelectInSeq(PreferredOrder, LAMBDA p : p = x)
    IN  /\ ToSet(order) = {n.lower : n \in names} \ OrderKeys
        /\ Len(order) = Cardinality(Sent(names))
        /\ \A i, j \in DOMAIN order : i < j =>
              \/ place(order[i]) # 0 /\ place(order[j]) = 0
              \/ place(order[i]) # 0 /\ place(order[i]) <= place(order[j])
              \/ place(order[i]) = 0 /\ place(order[j]) = 0
                     /\ rank[order[i]] <= rank[order[j]]
        /\ Closed(trip).body # "open"
        /\ trip.error = "none" => trip.body # "none"
        /\ backend.error /\ cancelled => trip.error = "context"
        /\ ValidTimeout(timeout) =>
              TimeoutMilliseconds(timeout) * Millisecond \in 1 .. timeout
=============================================================================

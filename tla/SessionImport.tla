---------------------------- MODULE SessionImport ----------------------------
(***************************************************************************)
(* session.ImportHAR and what a client makes of its result.  A request is  *)
(* [zillow, status, cookies, header]: the cookies the browser listed and   *)
(* the ones of its Cookie header.  A cookie is [name, host, dot, path,     *)
(* value, expired, valid]: dot if its domain was written with one, host    *)
(* and path empty if the browser gave none.                                *)
(***************************************************************************)
EXTENDS Integers, Sequences, SequencesExt

CONSTANT MaxCookies     \* 256, Session.Validate

Qualifies(request) == request.zillow /\ request.status \in 200 .. 399

\* cookieKey, which does not read a leading dot away.
CookieKey(c) == <<c.host, c.dot, c.path, c.name>>

\* cookieFromHAR, and the cookies read from a header.
FromHAR(c, request) ==
    [c EXCEPT !.host = IF @ = "" THEN request.host ELSE @,
              !.path = IF @ = "" THEN "/" ELSE @]
FromHeader(c, request) ==
    [c EXCEPT !.host = request.host, !.dot = FALSE, !.path = "/", !.expired = FALSE]

SentWith(request) ==
    LET all == IF request.cookies # <<>>
               THEN [i \in DOMAIN request.cookies |-> FromHAR(request.cookies[i], request)]
               ELSE [i \in DOMAIN request.header |-> FromHeader(request.header[i], request)]
    IN  SelectSeq(all, LAMBDA c : c.valid)

\* All valid cookies of the archive, each with the number of its request.
Captured(archive) ==
    FlattenSeq([i \in DOMAIN archive |->
        IF Qualifies(archive[i])
        THEN LET sent == SentWith(archive[i])
             IN  [j \in DOMAIN sent |-> [cookie |-> sent[j], order |-> i]]
        ELSE <<>>])

\* The map by key: what is written last stays.
LastStays(captured) ==
    {i \in DOMAIN captured :
        \A j \in i + 1 .. Len(captured) :
            CookieKey(captured[j].cookie) # CookieKey(captured[i].cookie)}

\* The cookies of the session, the earliest request first (ties by the key,
\* where a domain with a dot comes first), or none where the import fails.
ImportHAR(archive) ==
    LET captured == Captured(archive)
        before(i, j) ==
            \/ captured[i].order < captured[j].order
            \/ captured[i].order = captured[j].order /\ captured[i].cookie.dot
                  /\ ~captured[j].cookie.dot
        kept == SetToSortSeq({i \in LastStays(captured) : ~captured[i].cookie.expired},
                             LAMBDA i, j : before(i, j) \/ (~before(j, i) /\ i < j))
    IN  IF Len(kept) > MaxCookies THEN <<>>
        ELSE [n \in DOMAIN kept |-> captured[kept[n]]]

\* NewClientWithOptions and the cookie jar: what it gets last stays, and a dot
\* makes no difference to it.
JarKey(c) == <<c.host, c.path, c.name>>
Jar(session) ==
    {session[i] : i \in {n \in DOMAIN session :
        \A m \in n + 1 .. Len(session) :
            JarKey(session[m].cookie) # JarKey(session[n].cookie)}}

\* A client sends what the browser sent last: no cookie of its jar was sent
\* with another value by a later request that succeeded, under any spelling of
\* its domain.  One that expired since is brought back from an older one only
\* where it expired under the other spelling, with or without the dot, which
\* the import keeps apart.
JarIsTheBrowsers(archive) ==
    LET jar == Jar(ImportHAR(archive))
        captured == Captured(archive)
    IN  /\ \A held \in jar : \A i \in DOMAIN captured :
              LET later == captured[i].cookie IN
              captured[i].order > held.order /\ JarKey(later) = JarKey(held.cookie)
              => /\ later.expired
                 /\ later.dot # held.cookie.dot
        /\ Len(ImportHAR(archive)) \in 1 .. MaxCookies =>
              \A i \in DOMAIN captured :
                  \/ \E held \in jar : JarKey(held.cookie) = JarKey(captured[i].cookie)
                  \/ \E j \in DOMAIN captured :
                        /\ captured[j].cookie.expired
                        /\ captured[j].order >= captured[i].order
                        /\ JarKey(captured[j].cookie) = JarKey(captured[i].cookie)
=============================================================================

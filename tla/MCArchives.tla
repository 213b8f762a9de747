------------------------------ MODULE MCArchives ------------------------------
(***************************************************************************)
(* Browser captures for MCValues: archives of one or two requests around a *)
(* usable search request, with secrets wherever a browser leaves them, and *)
(* requests that send cookies.                                             *)
(***************************************************************************)
EXTENDS Integers, Sequences, SequencesExt, TLC

MCPlain(id) == [k |-> "plain", id |-> id]
MCSecret == [k |-> "secret"]
MCCredential == [k |-> "credential"]
MCNothing == [k |-> "empty"]
MCNoValue == [k |-> "none"]
MCObject(fields) == [k |-> "object", fields |-> fields]
MCArray(items) == [k |-> "array", items |-> items]
MCText(json) == [k |-> "json", json |-> json]

MCSegment(name, value) == [name |-> name, value |-> value, matrix |-> <<>>]
MCAddress(place, path, query) ==
    [k |-> "url", url |-> [place |-> place, user |-> MCNothing, fragment |-> MCNothing,
                           path |-> path, query |-> query]]
MCQueryItem(name, value) == [name |-> name, value |-> value]

\* A page whose query carries a token, and one that has it behind its #.
MCPage == MCAddress("page", <<>>, <<MCQueryItem("token", MCSecret)>>)
MCMarked == [MCPage EXCEPT !.url.fragment = MCSecret, !.url.query = <<>>]

MCAddresses ==
    {MCAddress("search", <<>>, <<>>), MCPage, MCMarked, MCNothing, [k |-> "badurl"],
     [MCAddress("search", <<>>, <<>>) EXCEPT !.url.user = MCSecret],
     MCAddress("telemetry", <<>>, <<MCQueryItem("q", MCText(MCObject([code |-> MCPlain("x")])))>>),
     MCAddress("elsewhere",
         <<MCSegment("token", MCNoValue), MCSegment("s3cret", MCNoValue),
           MCSegment("csrfthing", MCNoValue), MCSegment("s3cret", MCNoValue),
           [MCSegment("home", MCNoValue) EXCEPT !.matrix =
               <<MCQueryItem("code", MCSecret), MCQueryItem("csrfthing", MCNoValue),
                 MCQueryItem("to", MCPage)>>]>>,
         <<MCQueryItem("csrfthing", MCSecret), MCQueryItem("next", MCMarked),
           MCQueryItem("who", MCCredential)>>),
     MCAddress("static", <<>>, <<[name |-> "%", value |-> MCNoValue]>>)}

MCState ==
    MCObject([token |-> MCSecret, code |-> MCPlain("x"),
              deep |-> MCArray(<<MCText(MCObject([token |-> MCSecret, a |-> MCPlain("x")])),
                                 MCMarked, MCCredential, [k |-> "badjson"]>>)])
MCWants == MCObject([cat1 |-> MCArray(<<MCPlain("listResults")>>)])
MCBody(state, wants) ==
    [mime |-> "json", params |-> <<>>, text |-> MCText(MCObject(
        [searchQueryState |-> state, wants |-> wants, token |-> MCSecret, extra |-> MCCredential]))]

MCNoPost == [mime |-> "", params |-> <<>>, text |-> MCNothing]
MCPosts ==
    {MCBody(MCState, MCWants),
     MCBody(MCObject([deep |-> MCText(MCObject([csrf |-> MCSecret]))]), MCWants), MCBody(MCPlain("x"), MCWants),
     MCBody(MCState, MCObject([cat1 |-> MCArray(<<MCCredential>>), token |-> MCArray(<<>>)])),
     MCNoPost, [MCNoPost EXCEPT !.text = [k |-> "badjson"]], [MCNoPost EXCEPT !.text = MCSecret],
     [MCNoPost EXCEPT !.text = MCText(MCArray(<<MCSecret>>))],
     [mime |-> "form", text |-> MCSecret,
      params |-> <<MCQueryItem("q", MCSecret), MCQueryItem("csrf", MCNothing)>>]}

MCHeaders(referer) ==
    <<MCQueryItem("cookie", MCSecret), MCQueryItem("accept", MCPlain("x")),
      MCQueryItem("token", MCSecret), MCQueryItem("referer", referer)>>
MCEntry(url, referer, post, query) ==
    [url |-> url, redirect |-> MCNothing, method |-> "PUT", type |-> "fetch",
     responseType |-> "json", status |-> 200, notes |-> MCSecret,
     requestHeaders |-> MCHeaders(referer), responseHeaders |-> <<>>,
     queryString |-> query, post |-> post, content |-> MCSecret]

MCQueries ==
    {<<>>, <<MCQueryItem("token", MCSecret), MCQueryItem("code", MCSecret)>>,
     <<MCQueryItem("csrfthing", MCSecret), MCQueryItem("next", MCMarked),
       MCQueryItem("who", MCCredential)>>,
     <<MCQueryItem("q", MCText(MCArray(<<MCCredential, MCPage>>)))>>}

MCSearch == MCEntry(MCAddress("search", <<>>, <<>>), MCPage, MCBody(MCState, MCWants), <<>>)
MCOther == [MCSearch EXCEPT !.post = MCBody(MCObject([other |-> MCPlain("x")]), MCWants)]
MCFailed == [MCOther EXCEPT !.status = 500]
MCGet == [MCSearch EXCEPT !.method = "GET", !.type = "document", !.url = MCPage]
MCMoved ==
    [MCGet EXCEPT !.redirect = MCMarked, !.status = 302,
                  !.responseHeaders = <<MCQueryItem("location", MCMarked),
                                        MCQueryItem("set-cookie", MCSecret)>>]
MCUnusable == [MCSearch EXCEPT !.post = MCBody(MCPlain("x"), MCWants), !.type = "xhr"]
MCLabeled == [MCSearch EXCEPT !.requestHeaders = MCHeaders(MCMarked)]

MCEntries == {MCEntry(u, r, p, q) : u \in MCAddresses,
                  r \in {MCPage, MCMarked, MCNothing, MCAddress("elsewhere", <<>>, <<>>)},
                  p \in MCPosts, q \in MCQueries}

MCArchiveCases ==
    [kind : {"archive"}, keep : BOOLEAN,
     archive : {<<e>> : e \in MCEntries} \cup
               TupleOf({MCSearch, MCOther, MCFailed, MCGet, MCMoved, MCUnusable, MCLabeled}, 2)]

-----------------------------------------------------------------------------
MCCookie(host, dot, value, expired, valid) ==
    [name |-> "zguid", host |-> host, dot |-> dot, path |-> "", value |-> value,
     expired |-> expired, valid |-> valid]
MCCookieLists ==
    {<<>>, <<MCCookie("", FALSE, 1, FALSE, TRUE)>>,
     <<MCCookie("zillow", TRUE, 1, FALSE, TRUE), MCCookie("zillow", FALSE, 2, FALSE, TRUE)>>,
     <<MCCookie("zillow", TRUE, 3, FALSE, FALSE), MCCookie("zillow", TRUE, 4, TRUE, TRUE)>>,
     <<[MCCookie("www", FALSE, 5, FALSE, TRUE) EXCEPT !.path = "/"],
       [MCCookie("zillow", TRUE, 5, FALSE, TRUE) EXCEPT !.name = "search"]>>}

MCRequests ==
    [zillow : BOOLEAN, status : {200, 403}, host : {"www"}, cookies : MCCookieLists,
     header : {<<>>, <<MCCookie("", FALSE, 6, FALSE, TRUE)>>}]

MCCookieCases ==
    [kind : {"cookies"},
     requests : SeqOf(MCRequests, 2) \cup
                TupleOf({r \in MCRequests : r.zillow /\ r.status = 200}, 3)]
=============================================================================

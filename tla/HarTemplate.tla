----------------------------- MODULE HarTemplate -----------------------------
(***************************************************************************)
(* har/rank.go and har/derive.go: which request of an archive is taken for *)
(* the search request, and the search template made of it.                 *)
(***************************************************************************)
EXTENDS HarSanitizer

-----------------------------------------------------------------------------
(* Ranking.                                                                *)

FirstParty == {"search", "page", "telemetry", "static"}
StaticTypes == {"document", "font", "image", "media", "script", "stylesheet"}

\* The points scoreCandidate gives, by the place of the clean URL.
Place(e) == IF e.url.k = "url" THEN e.url.url.place ELSE "malformed"

Points(e) ==
    LET if(condition, n) == IF condition THEN n ELSE 0
    IN  if(Place(e) = "malformed", -30)
        + if(Place(e) # "malformed", IF Place(e) \in FirstParty THEN 40 ELSE -60)
        + if(Place(e) = "search" /\ SanitizeLink(e.url).url.path = <<>>, 140)
        + if(Place(e) = "telemetry", -120)
        + if(Place(e) # "malformed" /\ (Place(e) = "static" \/ e.type \in StaticTypes), -90)
        + if(e.type \in {"fetch", "xhr"}, 35) + if(e.type \in {"beacon", "ping"}, -80)
        + if(e.responseType = "json", 30) + if(e.post.mime = "json", 15)
        + if(e.method = "PUT", 12) + if(e.method = "GET", 4)
        + if(e.status \in 200 .. 299, 5) + if(e.status >= 400, -25)

\* RankCandidates: the best first, ties in the order of the archive.
Ranked(archive) ==
    SetToSortSeq(DOMAIN archive, LAMBDA i, j :
        \/ Points(archive[i]) > Points(archive[j])
        \/ Points(archive[i]) = Points(archive[j]) /\ i < j)

-----------------------------------------------------------------------------
(* Templates.                                                              *)

RefererOf(e) ==
    LET referers == SelectSeq(e.requestHeaders, LAMBDA h : h.name = "referer")
    IN  IF referers = <<>> THEN Empty ELSE referers[1].value

\* parseSearchTemplateReferer
ValidReferer(t) ==
    t.k = "url" /\ t.url.place \in {"search", "page"}
    /\ t.url.user = Empty /\ t.url.fragment = Empty

\* validateSearchEntry
ValidSearchEntry(e) ==
    IsSearchState(e) /\ ValidReferer(RefererOf(e)) /\ e.post.text # Empty

\* decodeWants and SearchTemplate.Validate
ValidWants(w) ==
    /\ w.k = "object" /\ "cat1" \in DOMAIN w.fields
    /\ \A g \in DOMAIN w.fields :
          /\ w.fields[g].k = "array" /\ w.fields[g].items # <<>>
          /\ \A t \in ToSet(w.fields[g].items) : t.k \notin {"object", "array", "empty"}
    /\ [k |-> "plain", id |-> "listResults"] \in ToSet(w.fields["cat1"].items)

Refused == [k |-> "refused"]

\* deriveSearchTemplateFromEntry, from the body without its secrets.
TemplateOf(body, referer) ==
    IF /\ {"searchQueryState", "wants"} \subseteq DOMAIN body
       /\ body["searchQueryState"].k = "object" /\ ValidWants(body["wants"])
       /\ ValidReferer(referer)
    THEN [k |-> "template", state |-> body["searchQueryState"],
          wants |-> body["wants"], referer |-> referer]
    ELSE Refused

DeriveFrom(e) ==
    IF ValidSearchEntry(e) /\ e.post.text.k = "json" /\ e.post.text.json.k = "object"
    THEN TemplateOf(RedactJSON(e.post.text.json).fields, SanitizeLink(RefererOf(e)))
    ELSE Refused

\* selectSearchEntry without an index: only a valid request is chosen, but its
\* body is not read before.
Selected(archive) ==
    LET valid == SelectSeq(Ranked(archive), LAMBDA i : ValidSearchEntry(archive[i]))
    IN  IF valid = <<>> THEN 0 ELSE valid[1]

Derive(archive) ==
    IF Selected(archive) = 0 THEN Refused ELSE DeriveFrom(archive[Selected(archive)])

-----------------------------------------------------------------------------
RECURSIVE Exposes(_)
Exposes(v) ==
    \/ v.k \in {"secret", "credential"} \/ "s3cret" \in NamesIn(v)
    \/ \E inner \in Inner(v) : Exposes(inner)

\* A copy holds no secret in any depth of any field.
HoldsNoSecret(e, keepBodies) ==
    /\ ~Exposes(e.notes) /\ ~Exposes(e.url) /\ ~Exposes(e.redirect)
    /\ ~Exposes(e.post.text) /\ (keepBodies \/ ~Exposes(e.content))
    /\ \A p \in ToSet(e.queryString) \cup ToSet(e.post.params)
                  \cup ToSet(e.requestHeaders) \cup ToSet(e.responseHeaders) :
          ~Exposes(p.value)

\* It is as good as the original: every request a template can be derived
\* from gives the same template, and the choice among them falls on the same
\* one, unless the copy made a better ranked request usable.
GivesTheTemplate(archive, clean) ==
    /\ \A i \in DOMAIN archive :
          /\ Points(clean[i]) = Points(archive[i])
          /\ DeriveFrom(archive[i]) \in {Refused, DeriveFrom(clean[i])}
    /\ \/ Derive(archive) \in {Refused, Derive(clean)}
       \/ ~ValidSearchEntry(archive[Selected(clean)])

\* A sanitized archive, if there is one, is clean and usable.
SanitizedIsCleanAndUsable(archive, keepBodies) ==
    SanitizeSucceeds(archive, keepBodies) =>
    \E clean \in {Sanitized(archive, keepBodies)} :
        /\ \A e \in ToSet(clean) : HoldsNoSecret(e, keepBodies)
        /\ GivesTheTemplate(archive, clean)
=============================================================================

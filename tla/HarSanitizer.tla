---------------------------- MODULE HarSanitizer ----------------------------
(***************************************************************************)
(* har/sanitize.go.  A text is a record whose field k says what it is      *)
(* taken for: "empty", "plain", "credential" (what credentialLikeString    *)
(* matches), "secret" (a secret by its place alone), "redaction", "json"   *)
(* and "url", which hold a document, and "badjson" and "badurl", which     *)
(* only begin like one.  A document is a text, an "object" of named        *)
(* documents or an "array".  Names are members of the sets below.          *)
(***************************************************************************)
EXTENDS Integers, Sequences, SequencesExt

CONSTANTS SensitiveNames,    \* isSensitiveKey, without additional keys
          OpaqueNames,       \* only sensitive as a name in a URL
          CredentialNames    \* names credentialLikeString matches

Redacted == "[REDACTED]"     \* as a name
Redaction == [k |-> "redaction"]
Empty == [k |-> "empty"]
None == [k |-> "none"]       \* a name without a value

SensitiveInURL(name) == name \in SensitiveNames \cup OpaqueNames

RECURSIVE RedactJSON(_), SanitizeValue(_), SanitizeURL(_)

-----------------------------------------------------------------------------
(* Values.                                                                 *)

\* redactJSON
RedactJSON(v) ==
    CASE v.k = "object" ->
            [v EXCEPT !.fields = [n \in DOMAIN v.fields |->
                IF n \in SensitiveNames THEN Redaction
                ELSE SanitizeValue(v.fields[n])]]
      [] v.k = "array" ->
            [v EXCEPT !.items = [i \in DOMAIN v.items |-> SanitizeValue(v.items[i])]]
      [] OTHER -> v

\* sanitizeJSONValue: documents and URLs hidden in texts are cleaned in place.
SanitizeValue(v) ==
    CASE v.k \in {"object", "array"} -> RedactJSON(v)
      [] v.k = "json" -> [v EXCEPT !.json = RedactJSON(@)]
      [] v.k = "url" -> [v EXCEPT !.url = SanitizeURL(@)]
      [] v.k \in {"badjson", "badurl", "credential"} -> Redaction
      [] OTHER -> v

\* A parameter [name, value] of a query, of a path or of its matrix part.
SanitizeParameter(p) ==
    CASE SensitiveInURL(p.name) -> [p EXCEPT !.value = Redaction]
      [] p.name \in CredentialNames \ (SensitiveNames \cup OpaqueNames) ->
            [p EXCEPT !.name = Redacted, !.value = IF @ = None THEN None ELSE Redaction]
      [] OTHER -> IF p.value = None THEN p
                  ELSE [p EXCEPT !.value = SanitizeValue(@)]

-----------------------------------------------------------------------------
(* URLs: [place, user, fragment, path, query].  The place is the host and  *)
(* the beginning of the path; a path segment is a parameter with matrix    *)
(* parameters; query is a sequence, or badly escaped.                      *)

BadQuery == <<[name |-> "%", value |-> None]>>

\* sanitizeURLPath: what follows a sensitive segment is its value.
SanitizeSegment(s, afterSensitive) ==
    [IF afterSensitive /\ (s.name # "" \/ s.value # None)
     THEN [s EXCEPT !.name = Redacted, !.value = None]
     ELSE IF s.value # None \/ ~SensitiveInURL(s.name) THEN SanitizeParameter(s)
     ELSE s
     EXCEPT !.matrix = [i \in DOMAIN @ |-> SanitizeParameter(@[i])]]

Announces(s, afterSensitive) ==
    /\ ~(afterSensitive /\ (s.name # "" \/ s.value # None))
    /\ s.value = None
    /\ SensitiveInURL(s.name) \/ s.name \in CredentialNames

SanitizePath(path) ==
    FoldLeft(LAMBDA acc, s :
                 [done |-> Append(acc.done, SanitizeSegment(s, acc.sensitive)),
                  sensitive |-> Announces(s, acc.sensitive)],
             [done |-> <<>>, sensitive |-> FALSE], path).done

SanitizeURLKeepingFragment(u) ==
    [u EXCEPT !.user = Empty, !.path = SanitizePath(@),
              !.query = IF @ = BadQuery THEN <<>>
                        ELSE [i \in DOMAIN @ |-> SanitizeParameter(@[i])]]

\* sanitizeURL: a query that cannot be read is dropped.
SanitizeURL(u) ==
    [u EXCEPT !.user = Empty, !.fragment = Empty, !.path = SanitizePath(@),
              !.query = IF @ = BadQuery THEN <<>>
                        ELSE [i \in DOMAIN @ |-> SanitizeParameter(@[i])]]

\* A field that holds a URL, or nothing.
SanitizeLink(t) == IF t.k = "url" THEN [t EXCEPT !.url = SanitizeURL(@)] ELSE t
LinkFails(t) == t.k = "badurl"

-----------------------------------------------------------------------------
(* Entries.                                                                *)

RetainedRequestHeaders == {"accept", "content-type", "origin", "referer"}
RetainedResponseHeaders == {"content-type", "location"}
LinkHeaders == {"referer", "origin", "location"}

\* sanitizeHeaders, and the headers that hold a URL.
SanitizeHeaders(headers, retained) ==
    LET kept == SelectSeq(headers, LAMBDA h : h.name \in retained \ SensitiveNames)
    IN  [i \in DOMAIN kept |->
            IF kept[i].name \in LinkHeaders THEN [kept[i] EXCEPT !.value = SanitizeLink(@)]
            ELSE kept[i]]

\* sanitizeNameValues
SanitizeQueryString(values) ==
    [i \in DOMAIN values |->
        CASE values[i].name \in CredentialNames ->
                [name |-> Redacted,
                 value |-> IF values[i].value = Empty THEN Empty ELSE Redaction]
          [] values[i].name \notin CredentialNames /\ SensitiveInURL(values[i].name) ->
                [values[i] EXCEPT !.value = Redaction]
          [] OTHER -> [values[i] EXCEPT !.value = SanitizeValue(@)]]

\* parseSearchTemplateEndpoint
IsEndpoint(t) ==
    t.k = "url" /\ t.url.place = "search" /\ t.url.user = Empty
    /\ t.url.fragment = Empty /\ t.url.path = <<>> /\ t.url.query = <<>>

IsSearchState(e) == e.method = "PUT" /\ IsEndpoint(e.url)

\* The body a search-state request must have for its minimal form to be kept.
SearchBody(t) ==
    /\ t.k = "json" /\ t.json.k = "object"
    /\ {"searchQueryState", "wants"} \subseteq DOMAIN t.json.fields
    /\ t.json.fields["searchQueryState"].k = "object"
    /\ t.json.fields["wants"].k = "object"

Minimal(t) ==
    [t EXCEPT !.json.fields =
        [n \in {"searchQueryState", "wants"} |-> t.json.fields[n]]]

\* sanitizePostData; a body that is no JSON is dropped unless it says it is.
BodyFails(post, preserve) ==
    LET says == post.mime = "json"
    IN  \/ post.text.k # "json" /\ post.text.k # "empty"
              /\ (says \/ (preserve /\ post.text.k = "badjson"))
        \/ post.text.k = "json" /\ preserve /\ ~SearchBody(post.text)

SanitizeBody(text, preserve) ==
    IF text.k = "json" /\ preserve
    THEN [Minimal(text) EXCEPT !.json = RedactJSON(@)] ELSE Empty

SanitizePost(post, preserve) ==
    [mime |-> post.mime,
     params |-> [i \in DOMAIN post.params |->
         [name |-> IF post.params[i].name \in CredentialNames THEN Redacted
                   ELSE post.params[i].name,
          value |-> IF post.params[i].value = Empty THEN Empty ELSE Redaction]],
     text |-> SanitizeBody(post.text, preserve)]

\* The loop body of Sanitize; notes are comments, cookies, caches, addresses
\* and initiators, the content the response body.
SanitizeEntry(e, keepBodies) ==
    [e EXCEPT !.notes = Empty,
              !.requestHeaders = SanitizeHeaders(@, RetainedRequestHeaders),
              !.responseHeaders = SanitizeHeaders(@, RetainedResponseHeaders),
              !.queryString = SanitizeQueryString(@),
              !.url = SanitizeLink(@), !.redirect = SanitizeLink(@),
              !.post = SanitizePost(@, IsSearchState(e)),
              !.content = IF keepBodies THEN @ ELSE Empty]

EntryFails(e) ==
    \/ LinkFails(e.url) \/ LinkFails(e.redirect)
    \/ BodyFails(e.post, IsSearchState(e))
    \/ \E h \in ToSet(SanitizeHeaders(e.requestHeaders, RetainedRequestHeaders))
                \cup ToSet(SanitizeHeaders(e.responseHeaders, RetainedResponseHeaders)) :
          h.name \in LinkHeaders /\ LinkFails(h.value)

-----------------------------------------------------------------------------
(* verifySanitized.  A credential is looked for in the whole text, so also *)
(* in the names and values of the document or URL it holds.                *)

\* The parameters of a URL, and the names and documents directly in a text.
Parameters(u) ==
    ToSet(u.query) \cup UNION {{s} \cup ToSet(s.matrix) : s \in ToSet(u.path)}

NamesIn(v) ==
    CASE v.k = "object" -> DOMAIN v.fields
      [] v.k = "url" -> {p.name : p \in Parameters(v.url)}
      [] OTHER -> {}

Inner(v) ==
    CASE v.k = "json" -> {v.json}
      [] v.k = "object" -> {v.fields[n] : n \in DOMAIN v.fields}
      [] v.k = "array" -> ToSet(v.items)
      [] v.k = "url" -> {v.url.user, v.url.fragment} \cup {p.value : p \in Parameters(v.url)}
      [] OTHER -> {}

RECURSIVE Mentions(_)
Mentions(v) ==
    \/ v.k = "credential"
    \/ NamesIn(v) \cap CredentialNames # {}
    \/ \E inner \in Inner(v) : Mentions(inner)

RECURSIVE VerifiedJSON(_)
VerifiedJSON(v) ==
    CASE v.k = "object" -> \A n \in DOMAIN v.fields :
            IF n \in SensitiveNames THEN v.fields[n] = Redaction
            ELSE VerifiedJSON(v.fields[n])
      [] v.k = "array" -> \A x \in ToSet(v.items) : VerifiedJSON(x)
      [] v.k = "json" -> VerifiedJSON(v.json) /\ ~Mentions(v)
      [] OTHER -> ~Mentions(v)

VerifiedLink(t) == t.k = "url" => SanitizeURL(t.url) = t.url

VerifiedEntry(e, keepBodies) ==
    /\ e.notes = Empty /\ VerifiedLink(e.url) /\ VerifiedLink(e.redirect)
    /\ \A q \in ToSet(e.queryString) :
          /\ q.name \notin CredentialNames
          /\ SensitiveInURL(q.name) \/ Mentions(q.value) => q.value = Redaction
    /\ \A h \in ToSet(e.requestHeaders) \cup ToSet(e.responseHeaders) :
          h.name \notin SensitiveNames /\ (h.name \in LinkHeaders => VerifiedLink(h.value))
    /\ ~keepBodies => e.content = Empty
    /\ \A p \in ToSet(e.post.params) :
          p.name \notin CredentialNames /\ p.value \in {Empty, Redaction}
    /\ e.post.text.k = "json" => VerifiedJSON(e.post.text.json)

Sanitized(archive, keepBodies) ==
    [i \in DOMAIN archive |-> SanitizeEntry(archive[i], keepBodies)]

\* Sanitize either returns this copy or fails as a whole.
SanitizeSucceeds(archive, keepBodies) ==
    /\ \A e \in ToSet(archive) : ~EntryFails(e)
    /\ \A e \in ToSet(Sanitized(archive, keepBodies)) : VerifiedEntry(e, keepBodies)
=============================================================================

---------------------------- MODULE PropertyDecode ----------------------------
(***************************************************************************)
(* zillow/property.go: which of the property objects in a page's cache is  *)
(* the home the page is about.  The cache of a page often holds other      *)
(* homes too, and several views of one home.  A URL field is [is |-> "url",*)
(* url, zpid]: zpid is the identifier zpidFromPath finds in it, or "".     *)
(***************************************************************************)
EXTENDS PageValue

Drift == [is |-> "drift"]

\* normalizeZPID of any field.
ZpidIn(v) == UNION {ZpidOf(text) : text \in StringOf(v)}

\* expectedPropertyZPID: what the address of the page asks for and all the
\* places where the page names its home must agree.
ExpectedZpid(requested, authorities) ==
    LET named == {v \in ToSet(authorities) : v # Nothing}
        all == requested \cup UNION {ZpidIn(v) : v \in named}
    IN  IF (\E v \in named : ZpidIn(v) = {}) \/ \E a, b \in all : a # b
        THEN {Drift} ELSE {[is |-> "zpid", zpid |-> z] : z \in all}

\* inspectPropertyIdentity
IdKeys == {"zpid", "id"}
UrlKeys == <<"url", "hdpUrl", "detailUrl">>
NamedUrls(raw) ==
    LET named == SelectSeq(UrlKeys, LAMBDA k : At(raw, k) \notin {Nothing, [is |-> "text", text |-> ""]})
    IN  [i \in DOMAIN named |-> raw[named[i]]]
ZpidsOf(raw) ==
    UNION {ZpidIn(At(raw, k)) : k \in IdKeys}
    \cup {u.zpid : u \in {v \in ToSet(NamedUrls(raw)) : v.is = "url" /\ v.zpid # ""}}

NoIdentity == <<"none">>
BadIdentity == <<"bad">>
Identity(raw) ==
    LET urls == NamedUrls(raw)
        zpid == At(raw, "zpid")
    IN  CASE \/ zpid # Nothing /\ ZpidIn(zpid) = {}
             \/ \E u \in ToSet(urls) : u.is # "url"
             \/ \E a, b \in ZpidsOf(raw) : a # b -> BadIdentity
          [] OTHER -> IF ZpidsOf(raw) # {} THEN <<"zpid", ZpidsOf(raw)>>
                      ELSE IF urls # <<>> THEN <<"url", urls[1].url>> ELSE NoIdentity

\* validatePropertyValues
ValidProperty(raw) ==
    /\ AllReadable(raw, {"price", "unformattedPrice"},
                   LAMBDA v : IntOf(v) # {} \/ (v.is = "amount" /\ ParseMoney(v) # {}))
    /\ AllReadable(raw, {"beds", "bedrooms", "baths", "bathrooms", "lotSize"}, IsNumeric)
    /\ AllReadable(raw, {"livingArea", "area", "yearBuilt"}, IsIntegral)
    /\ AllReadable(raw, {"homeType", "homeStatus", "description"}, IsText)
    /\ AllReadable(raw, {"zipcode"}, IsTextOrNumber)
    /\ AllReadable(raw, {"address"}, LAMBDA v : IsText(v) \/ v.is = "object")
    /\ AllReadable(raw, {"latLong"}, LAMBDA v : v.is = "object")

\* normalizeProperty, of an object with an identity.
Property(raw) ==
    LET key == Identity(raw)
        price == First(raw, PriceKeys, MoneyOf)
        urls == IF NamedUrls(raw) = <<>> THEN {} ELSE {NamedUrls(raw)[1].url}
    IN  [id |-> IF key[1] = "zpid" THEN key[2] ELSE First(raw, <<"zpid", "id">>, StringOf),
         url |-> urls, price |-> price,
         cost |-> TotalMonthlyCost(price,
                      First(raw, <<"totalRequiredMonthlyMinFee">>, MoneyOf),
                      First(raw, <<"listPriceIncludesRequiredMonthlyFees">>, BoolOf)),
         beds |-> First(raw, <<"bedrooms", "beds">>, FloatOf),
         baths |-> First(raw, <<"bathrooms", "baths">>, FloatOf),
         sqft |-> First(raw, <<"livingArea", "area">>, IntOf),
         address |-> First(raw, <<"address">>, StringOf)]

\* propertyScore, of the fields kept here
Score(p) ==
    LET points(field, n) == IF field # {} THEN n ELSE 0
    IN  points(p.id, 8) + points(p.url, 4) + points(p.address, 4) + points(p.price, 3)
        + points(p.beds, 2) + points(p.baths, 2) + points(p.sqft, 2)

\* bestPropertyCandidate: the best valid one, the first path among equals.
Best(cache, group) ==
    LET valid == {i \in group : ValidProperty(cache[i])}
        better(i, j) == \/ Score(Property(cache[i])) > Score(Property(cache[j]))
                        \/ Score(Property(cache[i])) = Score(Property(cache[j])) /\ i <= j
    IN  {Property(cache[i]) : i \in {k \in valid : \A j \in valid : better(k, j)}}

\* Taking the richest object whatever it describes.
SelectBest(cache, expected) ==
    Best(cache, {i \in DOMAIN cache : Identity(cache[i]) \notin {BadIdentity, NoIdentity}})

\* selectPropertyCandidate; cache is the sequence of the objects
\* collectPropertyObjects finds, in the order of their paths.
Select(cache, expected) ==
    LET keys == {Identity(cache[i]) : i \in DOMAIN cache}
        with(key) == {i \in DOMAIN cache : Identity(cache[i]) = key}
    IN  IF expected # {} THEN Best(cache, with(<<"zpid", expected>>))
        ELSE IF BadIdentity \in keys \/ NoIdentity \in keys \/ Cardinality(keys) > 1
        THEN {} ELSE UNION {Best(cache, with(key)) : key \in keys}

\* parsePropertyDocumentForZPID; decodeCache reads a cache that was encoded
\* up to twice.
Parse(page) ==
    LET expected == ExpectedZpid(page.requested, page.authorities)
    IN  IF ~page.readable \/ page.encoded > 2 \/ Drift \in expected THEN {}
        ELSE Select(page.cache, {e.zpid : e \in expected})

-----------------------------------------------------------------------------
(* The home read from a page is the one the page was opened for, whatever  *)
(* else its cache holds; it comes from one object, a richest one of that   *)
(* home that can be read; and where nothing says which home is meant, the  *)
(* page is refused rather than guessed.  No page is refused that asks for  *)
(* a home it describes well.                                               *)
HomeIsTheOneAsked(page) ==
    LET homes == Parse(page)
        asked == page.requested \cup UNION {ZpidIn(v) : v \in ToSet(page.authorities)}
        described == {i \in DOMAIN page.cache : ZpidsOf(page.cache[i]) = asked}
    IN  /\ Cardinality(homes) <= 1
        /\ \A home \in homes :
              /\ asked # {} => home.id = asked
              /\ Cardinality(asked) <= 1
              /\ home.id # {} \/ home.url # {}
              /\ \E i \in DOMAIN page.cache : Property(page.cache[i]) = home
              /\ asked = {} => \A i, j \in DOMAIN page.cache :
                    Identity(page.cache[i]) = Identity(page.cache[j])
              /\ \A i \in described : ValidProperty(page.cache[i])
                    /\ Identity(page.cache[i]) # BadIdentity /\ asked # {}
                    => Score(Property(page.cache[i])) <= Score(home)
        /\ (/\ page.readable /\ page.encoded <= 2 /\ Cardinality(asked) = 1
            /\ \A v \in ToSet(page.authorities) : v # Nothing => ZpidIn(v) # {}
            /\ \E i \in described :
                  ValidProperty(page.cache[i]) /\ Identity(page.cache[i]) # BadIdentity)
           => homes # {}
=============================================================================

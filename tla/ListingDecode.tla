---------------------------- MODULE ListingDecode ----------------------------
(***************************************************************************)
(* zillow/search.go, decodeSearchResponse, as the API, search pages and    *)
(* snapshots share it.  A response is what lies at the places a result is  *)
(* looked for: list and map are functions from these places to a field.    *)
(***************************************************************************)
EXTENDS PageValue

Drift == [is |-> "drift"]

\* findListResults looks everywhere else ("deep") in the end;
\* findOptionalResultArray does not, and takes null for no map results.
Places == <<"cat1", "searchPageState", "data">>
FindAt(places, order) ==
    LET present == SelectSeq(order, LAMBDA p : p \in DOMAIN places)
    IN  IF present = <<>> THEN [is |-> "absent"] ELSE places[present[1]]
ListResults(response) == FindAt(response.list, Append(Places, "deep"))
MapResults(response) == FindAt(response.map, Places)

-----------------------------------------------------------------------------
(* Listings.                                                               *)

\* validateListingFields
ValidListing(raw) ==
    /\ AllReadable(raw, {"zpid", "id", "zipcode"}, IsTextOrNumber)
    /\ AllReadable(raw, {"detailUrl", "hdpUrl", "url", "homeType", "statusType",
                         "availabilityDate"}, IsText)
    /\ AllReadable(raw, {"beds", "bedrooms", "baths", "bathrooms", "latitude"}, IsNumeric)
    /\ AllReadable(raw, {"area", "livingArea", "daysOnZillow"}, IsIntegral)
    /\ AllReadable(raw, {"unformattedPrice"}, IsMoney)
    /\ AllReadable(raw, {"price"}, IsTextOrNumber)
    /\ AllReadable(raw, {"address"}, LAMBDA v : IsText(v) \/ v.is = "object")
    /\ AllReadable(raw, {"latLong"}, LAMBDA v : v.is = "object")

\* maximumUnitBedrooms
MostBedrooms(units) ==
    LET beds == UNION {FloatOf(At(units.items[i], "beds")) : i \in DOMAIN units.items}
    IN  {b \in beds : \A other \in beds : other <= b}

\* normalizeListing; derived is the age rentalHistoryRecency gives.
Listing(raw) ==
    LET building == First(raw, <<"isBuilding">>, BoolOf) = {TRUE}
        price == First(raw, PriceKeys, MoneyOf)
        fees == First(raw, <<"totalRequiredMonthlyMinFee">>, MoneyOf)
        included == First(raw, <<"listPriceIncludesRequiredMonthlyFees">>, BoolOf)
        units == At(raw, "units")
        most == IF building /\ units.is = "list" THEN MostBedrooms(units) ELSE {}
    IN  [id |-> First(raw, <<"zpid", "id">>, StringOf),
         url |-> First(raw, <<"detailUrl", "hdpUrl", "url">>, StringOf),
         address |-> First(raw, <<"address">>, StringOf),
         building |-> building, price |-> price,
         cost |-> TotalMonthlyCost(price, fees, included),
         beds |-> IF most # {} THEN most ELSE First(raw, <<"beds", "bedrooms">>, FloatOf),
         baths |-> First(raw, <<"baths", "bathrooms">>, FloatOf),
         sqft |-> First(raw, <<"area", "livingArea">>, IntOf),
         days |-> First(raw, <<"daysOnZillow", "derived", "homeInfo">>, IntOf)]

HasIdentity(listing) == listing.id # {} \/ listing.url # {} \/ listing.address # {}

\* listingDiscoveryKey
KeyOf(listing) ==
    CASE listing.id # {} -> <<"id", listing.id>>
      [] listing.id = {} /\ listing.url # {} -> <<"url", listing.url>>
      [] OTHER -> <<"address", listing.address>>

-----------------------------------------------------------------------------
(* Responses.                                                              *)

WellFormed(item) ==
    item.is = "object" /\ ValidListing(item.fields) /\ HasIdentity(Listing(item.fields))

\* A listing of the map often has no link of its own.
OfMap(listing) ==
    [listing EXCEPT !.url = IF @ = {} THEN PageOf(listing.id, {}) ELSE @]

FromList(items) == [i \in DOMAIN items |-> Listing(items[i].fields)]
FromMap(items) == [i \in DOMAIN items |-> OfMap(Listing(items[i].fields))]

\* seenListings: the first of a key stays, and the list comes first.
Once(listings, maps) ==
    LET s == listings \o maps
        first == SelectSeq([i \in DOMAIN s |-> i],
                     LAMBDA i : \A j \in 1 .. i - 1 : KeyOf(s[j]) # KeyOf(s[i]))
    IN  [n \in DOMAIN first |-> s[first[n]]]

\* intFromAny of the first path present; what cannot be read counts as 0.
TotalPages(response) ==
    LET v == FindAt(response.pages, <<"cat1", "searchPageState">>)
    IN  IF IntOf(v) = {} THEN 0 ELSE CHOOSE n \in IntOf(v) : TRUE

Decode(response) ==
    LET list == ListResults(response)
        map == MapResults(response)
        mapped == IF map.is = "list" THEN map.items ELSE <<>>
    IN  IF /\ response.object /\ list.is = "list"
           /\ map.is \in {"list", "nothing", "absent"}
           /\ \A item \in ToSet(list.items) \cup ToSet(mapped) : WellFormed(item)
        THEN [is |-> "result", pages |-> TotalPages(response),
              listings |-> Once(FromList(list.items), FromMap(mapped))]
        ELSE Drift

\* ReadSearchSnapshotWithOptions: where no results can be read from a page, it
\* is a challenge if anything in it looks like one, else drift.
Snapshot(page) ==
    LET result == IF page.state.is = "object" THEN Decode(page.response) ELSE Drift
    IN  CASE page.empty -> Drift
          [] ~page.empty /\ result = Drift /\ page.html /\ page.challenged ->
                [is |-> "challenge"]
          [] OTHER -> result

-----------------------------------------------------------------------------
(* A read result stands for every item of the response, list and map, with *)
(* one listing each: none is dropped, none appears twice, the list's own   *)
(* version and order win over the map's, and no cost wraps around.  A home *)
(* the map knows by its ID only can be opened.                             *)
ShowsAll(shown, listed, mapped) ==
    /\ \A i, j \in DOMAIN shown : i < j => KeyOf(shown[i]) # KeyOf(shown[j])
    /\ {KeyOf(l) : l \in ToSet(shown)} = {KeyOf(l) : l \in listed \cup mapped}
    /\ \A l \in listed : \E i \in DOMAIN shown :
          /\ KeyOf(shown[i]) = KeyOf(l) /\ shown[i] \in listed
          /\ \A j \in 1 .. i - 1 : shown[j] \in listed
    /\ \A l \in ToSet(shown) :
          /\ \A c \in l.cost : c >= 0 /\ c <= MaxInt /\ \E p \in l.price : c >= p
          /\ l \notin listed /\ (\E id \in l.id : ZpidOf(id) # {}) => l.url # {}

ResultsAreWhole(page) ==
    LET items(v) == IF v.is = "list" THEN v.items ELSE <<>>
    IN  \A result \in {Snapshot(page)} : result.is = "result" =>
            /\ ~page.empty
            /\ ShowsAll(result.listings, ToSet(FromList(items(ListResults(page.response)))),
                        ToSet(FromMap(items(MapResults(page.response)))))
=============================================================================

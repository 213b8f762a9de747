------------------------------- MODULE MCPages -------------------------------
(***************************************************************************)
(* Pages of the site for MCValues: search responses, property pages,       *)
(* communities, facts, price histories and earlier output.                 *)
(***************************************************************************)
EXTENDS Integers, Sequences, FiniteSets, SequencesExt, TLC

MCMaxInt == 100
MCZpidOf(text) ==
    CASE text \in {"7", "07"} -> {"7"} [] text = "8" -> {"8"} [] text = "9" -> {"9"} [] OTHER -> {}

MCString(text) == [is |-> "text", text |-> text]
MCNumeral(n) == [is |-> "numeral", n |-> n]
MCNumber(n) == [is |-> "number", n |-> n, whole |-> TRUE]
MCHalf(n) == [is |-> "number", n |-> n, whole |-> FALSE]
MCTruth(b) == [is |-> "truth", b |-> b, quoted |-> FALSE]
MCMoney(n, scale, numbers) ==
    [is |-> "amount", n |-> n, scale |-> scale, numbers |-> numbers, negative |-> FALSE]
MCList(items) == [is |-> "list", items |-> items]
MCNull == [is |-> "nothing"]

-----------------------------------------------------------------------------
(* Search responses.  A home with fees, its double on the map, one too     *)
(* dear to add its fees, a building, two without identifiers, one whose    *)
(* price is two numbers, and what is no listing.                           *)

MCItem(fields) == [is |-> "object", fields |-> fields]
MCFees == "totalRequiredMonthlyMinFee" :> MCNumber(20)
MCItems ==
    {MCItem(("zpid" :> MCString("7")) @@ ("price" :> MCMoney(5, 10, 1)) @@ MCFees),
     MCItem(("id" :> MCNumber(7)) @@ ("price" :> MCHalf(3)) @@ ("baseRent" :> MCNumber(40))),
     MCItem(("zpid" :> MCString("8")) @@ ("unformattedPrice" :> MCNumber(90)) @@ MCFees
            @@ ("detailUrl" :> MCString("u"))),
     MCItem(("detailUrl" :> MCString("u")) @@ ("isBuilding" :> MCTruth(TRUE))
            @@ ("beds" :> MCNumber(1)) @@ ("units" :> MCList(<<"beds" :> MCNumber(1),
                                                                "beds" :> MCHalf(3)>>))),
     MCItem(("address" :> MCString("a")) @@ ("price" :> MCMoney(2, 90, 1))),
     MCItem(("zpid" :> MCString("")) @@ ("beds" :> MCNumber(2))),
     MCItem(("zpid" :> MCString("7")) @@ ("unformattedPrice" :> MCNumeral(-5))),
     [is |-> "other"]}
MCGoodItems == {i \in MCItems : i.is = "object" /\ "unformattedPrice" \notin DOMAIN i.fields}

MCAt(place, items) == place :> MCList(items)
MCResponses ==
    {[object |-> TRUE, list |-> MCAt("cat1", l), map |-> MCAt("searchPageState", m),
      pages |-> "cat1" :> MCNumber(3)] : l \in SeqOf(MCItems, 2), m \in SeqOf(MCItems, 2)}
    \cup
    {[object |-> o, list |-> l, map |-> m, pages |-> <<>>] : o \in BOOLEAN,
        l \in {<<>>, MCAt("deep", <<>>), "data" :> MCNull}
              \cup {MCAt("data", <<i>>) @@ MCAt("deep", <<>>) : i \in MCGoodItems},
        m \in {<<>>, "cat1" :> MCNull, "cat1" :> MCString("x")}}

MCSearchPageCases ==
    {[kind |-> "results", page |-> [empty |-> FALSE, html |-> TRUE, challenged |-> FALSE,
                                    state |-> [is |-> "object"], response |-> r]] :
        r \in MCResponses}
    \cup
    {[kind |-> "results", page |-> [empty |-> e, html |-> h, challenged |-> c, state |-> s,
         response |-> [object |-> TRUE, list |-> l, map |-> <<>>, pages |-> <<>>]]] :
        e \in BOOLEAN, h \in BOOLEAN, c \in BOOLEAN, s \in {[is |-> "object"], MCNull},
        l \in {<<>>, MCAt("cat1", <<>>)}}

-----------------------------------------------------------------------------
(* Property pages: rich and poor views of two homes, one told by its page, *)
(* one that contradicts itself, one that cannot be read, one of no         *)
(* identity.                                                               *)

MCLink(url, zpid) == [is |-> "url", url |-> url, zpid |-> zpid]
MCHomes ==
    {("zpid" :> MCString("7")) @@ ("price" :> MCNumber(50)) @@ ("beds" :> MCNumber(2)),
     ("zpid" :> MCNumber(7)) @@ ("price" :> MCNumber(51)) @@ ("url" :> MCLink("u7", "7")),
     ("zpid" :> MCString("8")) @@ ("price" :> MCNumber(60)) @@ ("address" :> MCString("a"))
        @@ ("bedrooms" :> MCNumber(3)) @@ ("url" :> MCLink("u8", "8")),
     ("id" :> MCString("graph")) @@ ("url" :> MCLink("u7", "7")),
     ("url" :> MCLink("plain", "")) @@ ("baths" :> MCNumber(1)),
     ("zpid" :> MCString("7")) @@ ("hdpUrl" :> MCLink("u8", "8")),
     ("zpid" :> MCString("7")) @@ ("beds" :> MCString("many")) @@ ("price" :> MCNumber(9))
        @@ ("address" :> MCString("a")) @@ ("url" :> MCLink("u7", "7")),
     "beds" :> MCNumber(1)}

MCAuthorities ==
    {<<>>, <<MCNull, MCNumber(7)>>, <<MCString("7"), MCString("8")>>,
     <<MCString("07"), MCNumber(7)>>, <<MCString("graph")>>}

MCPropertyCases ==
    {[kind |-> "home", page |-> [requested |-> r, authorities |-> a, readable |-> TRUE,
                                 encoded |-> 1, cache |-> c]] :
        r \in {{}, {"7"}, {"8"}}, a \in MCAuthorities, c \in SeqOf(MCHomes, 3)}
    \cup
    {[kind |-> "home", page |-> [requested |-> {"8"}, authorities |-> <<>>, readable |-> r,
                                 encoded |-> n, cache |-> c]] :
        r \in BOOLEAN, n \in {2, 3}, c \in SeqOf(MCHomes, 1)}

-----------------------------------------------------------------------------
(* Communities.                                                            *)

MCUnits ==
    {MCItem(("zpid" :> MCString("7")) @@ ("price" :> MCNumber(60))),
     MCItem(("zpid" :> MCString("07")) @@ ("availableFrom" :> MCString("may"))),
     MCItem(("baseRent" :> MCNumber(90)) @@ ("beds" :> MCNumber(1))),
     MCItem(("zpid" :> MCString("graph")) @@ ("minPrice" :> MCMoney(1, 30, 1))),
     MCItem("beds" :> MCNumber(3)), [is |-> "other"]}
MCPlanFields ==
    {("zpid" :> MCString("9")) @@ ("baseRent" :> MCNumber(40)) @@ MCFees @@ ("beds" :> MCNumber(2)),
     "sqft" :> MCNumber(12)}
MCFloorPlans == [is : {"object"}, fields : MCPlanFields, units : SeqOf(MCUnits, 2)]
MCFewPlans ==
    [is : {"object"}, fields : MCPlanFields, units : {<<>>, <<[is |-> "other"]>>}]
    \cup [is : {"other"}, fields : {<<>>}, units : {<<>>}]

MCCommunityCases ==
    [kind : {"community"},
     building : [plans : {<<>>} \cup {<<p>> : p \in MCFloorPlans}
                         \cup {<<p, q>> : p \in MCFloorPlans, q \in MCFewPlans},
                 ungrouped : SeqOf(MCUnits, 1), source : {{<<"building">>}}]]

-----------------------------------------------------------------------------
(* Facts and recency.                                                      *)

MCReso(laundry, appliances, parking, attached, pets, rooms) ==
    [laundry |-> laundry, appliances |-> appliances, parking |-> parking,
     attached |-> attached, garage |-> attached, open |-> TRUE, pets |-> pets,
     petsAllowed |-> pets # {}, rooms |-> rooms]

MCFactsCases ==
    {[kind |-> "facts", reso |-> MCReso(l, a, {}, FALSE, {}, {}), description |-> d] :
        l \in SUBSET {{"hookups"}, {"in unit"}, {"washer"}},
        a \in SUBSET {{"dishwasher"}, {"dryer"}, {"washer", "dryer"}, {"oven"}},
        d \in SUBSET {"shared laundry", "no laundry", "laundry in unit"}}
    \cup
    {[kind |-> "facts", reso |-> MCReso({}, {}, p, at, c, r), description |-> d] :
        p \in SUBSET {{"garage"}, {"private garage"}, {"shared garage"}}, at \in BOOLEAN,
        d \in SUBSET {"no parking", "shared garage", "private garage", "office", "den"},
        c \in SUBSET {{"cats"}, {"no pets", "pets allowed"}, {"restricted"}},
        r \in {{}, {"office"}}}

MCEvent(date, event, rental) == [date |-> date, event |-> event, rental |-> rental]
MCEvents(date) ==
    {MCEvent(date, "listed for rent", TRUE), MCEvent(date, "removed", FALSE),
     MCEvent(date, "price change", TRUE), MCEvent(date, "price change", FALSE)}

MCRecencyCases ==
    {[kind |-> "recency", history |-> h] : h \in SeqOf(UNION {MCEvents(d) : d \in {0, 1, 3}}, 3)}
    \cup
    {[kind |-> "recency", history |-> [i \in 1 .. 4 |-> f[order[i]]]] :
        f \in {g \in [1 .. 4 -> UNION {MCEvents(d) : d \in 1 .. 4}] :
                  \A d \in 1 .. 4 : g[d].date = d},
        order \in {o \in [1 .. 4 -> 1 .. 4] : IsInjective(o)}}

-----------------------------------------------------------------------------
(* Earlier output: two units of one building, the building itself, a home  *)
(* without a page, and a home of its own.                                  *)

MCKnown(id, url, address, price) == [id |-> id, url |-> url, address |-> address, price |-> price]
MCKnownHomes ==
    UNION {{MCKnown("1", "b", "a", p), MCKnown("2", "b", "a", p), MCKnown("", "b", "a", p),
            MCKnown("", "", "a", p), MCKnown("3", "h", "e", p)} : p \in {1, 2}}
MCArea(listings, error) == [listings |-> listings, error |-> error]

MCHistoryCases ==
    {[kind |-> "history", areas |-> a, mode |-> m, now |-> <<l>>] :
        a \in {<<MCArea(s, FALSE)>> : s \in SeqOf(MCKnownHomes, 2)}
              \cup {<<MCArea(s, TRUE), MCArea(t, e)>> :
                        s \in SeqOf(MCKnownHomes, 1), t \in SeqOf(MCKnownHomes, 1), e \in BOOLEAN},
        m \in {"json", "jsonl"}, l \in MCKnownHomes}
=============================================================================

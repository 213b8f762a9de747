---------------------------- MODULE MCDiscovery ----------------------------
EXTENDS Discovery

CONSTANTS a, b, none

MCPlan(max, routes) == [maxPages |-> max, routes |-> routes]
MCRoute(name, max) == [name |-> <<name>>, maxPages |-> max]

\* The plan of --max-pages with some server sorts.
MCSorted(max, sorts) ==
    Plan([maxPages |-> max, supplementalPages |-> 1, beds |-> <<>>,
          sorts |-> sorts, types |-> <<>>, keywords |-> <<>>,
          noLaundry |-> FALSE, laundry |-> FALSE, rent |-> TRUE,
          base |-> [min |-> 0, max |-> 0, sort |-> "", keyword |-> ""]])

MCSort(value, pages) == [value |-> value, pages |-> pages]

\* The default route, two routes with different limits, with equal limits and
\* cut to a location's own limit; and options that validateDiscoveryOptions
\* refuses (one sort with two limits, a limit above the maximum, too many
\* pages).
MCPlans ==
    { MCPlan(0, <<>>), MCPlan(3, <<>>),
      MCSorted(2, <<MCSort("days", 0), MCSort("price", 1)>>),
      MCSorted(2, <<MCSort("days", 2), MCSort("price", 2)>>),
      Overridden(MCSorted(2, <<MCSort("days", 2), MCSort("price", 0)>>), "here",
                 <<[location |-> "here", pages |-> 1]>>),
      MCSorted(2, <<MCSort("days", 0), MCSort("days", 1)>>),
      MCPlan(1, <<MCRoute("r", 2)>>), MCPlan(21, <<>>) }

MCPages == {<<a>>, <<b>>, <<a, b>>, <<b, a>>, <<none, a>>, <<none>>}

MCStored == UNION {[1 .. n -> MCPages] : n \in 0 .. 2}

\* With a total the site reports it on every page.  Without one, every page
\* shows something the pages before it did not: the code takes a page with
\* nothing new for the end.
MCShowsNews(pages) ==
    \A i \in 2 .. Len(pages) :
        none \in ToSet(pages[i])
        \/ ~(ToSet(pages[i]) \subseteq UNION {ToSet(pages[j]) : j \in 1 .. i - 1})

MCRouteSites ==
    {[pages |-> p, total |-> Len(p)] : p \in MCStored}
    \cup {[pages |-> p, total |-> 0] : p \in {q \in MCStored : MCShowsNews(q)}}

\* The second route overlaps the first in part, in whole or not at all.
MCSecond == {s \in MCRouteSites : Len(s.pages) = 2 => s.pages[1] = <<a>>
                                                    /\ s.pages[2] \in {<<a, b>>, <<none>>}}
MCSites == {<<f, s>> : f \in MCRouteSites, s \in MCSecond}
=============================================================================

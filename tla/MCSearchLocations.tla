------------------------- MODULE MCSearchLocations -------------------------
EXTENDS SearchLocations, TLC

\* "austin" and "Austin!" have one slug; "reno NV" names a state.
MCTarget(loc) ==
    CASE loc \in {"austin", "Austin!"} -> "austin"
      [] loc = "reno NV" -> "reno"
      [] OTHER -> "none"

\* The second page of one route holds a listing the first page does not, the
\* routes overlap, and all that the site shows for Reno lies elsewhere.
MCHeld(target, route, pages) ==
    CASE target = "reno" -> IF route = "newest" THEN {"far"} ELSE {}
      [] route = "newest" -> {"near"}
      [] pages = 1 -> {"near"}
      [] OTHER -> {"near", "far"}

\* The state qualifier of Reno, and the stricter of the two Austin spellings.
MCInside(loc, listing) == loc \in {"reno NV", "Austin!"} => listing = "near"

MCCommand(locs, discovery, pages, caps, strict) ==
    [locations |-> locs, discovery |-> discovery, maxPages |-> pages,
     caps |-> caps, retries |-> 1, strict |-> strict]

MCNoCaps == [l \in {} |-> 0]

\* One place and several, paged and not, a place given fewer pages than the
\* rest, a place that has no slug, and one place spelled twice.
MCCommands ==
    { MCCommand(<<"austin">>, TRUE, 2, MCNoCaps, FALSE),
      MCCommand(<<"austin">>, FALSE, 1, MCNoCaps, FALSE),
      MCCommand(<<"reno NV">>, FALSE, 1, MCNoCaps, FALSE),
      MCCommand(<<"?">>, FALSE, 1, MCNoCaps, FALSE),
      MCCommand(<<"Austin!", "reno NV", "austin">>, TRUE, 2,
                "austin" :> 1, FALSE),
      MCCommand(<<"?", "Austin!", "reno NV">>, TRUE, 2, MCNoCaps, TRUE) }
=============================================================================

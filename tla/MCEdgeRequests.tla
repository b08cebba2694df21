------------------------- MODULE MCEdgeRequests -------------------------
(***************************************************************************)
(* Every route with every credential, in a world where all is well or one  *)
(* thing is not, that changes twice during the request; and the paths of   *)
(* up to three segments from here, elsewhere, inside and above.             *)
(***************************************************************************)
EXTENDS EdgeRequests

AllRoutes == DOMAIN Stages
AllCredentials == CookieCredentials \cup Bearers

(* A device that is not paired has no live session, and a site that is not *)
(* approved has no capability approved.                                    *)
Reachable(w) == ("holds" \in w => "approved" \in w) /\ ("live" \in w => "paired" \in w)
SomeWorlds ==
    {w \in SUBSET Facts : Reachable(w) /\ Cardinality(Facts \ w) <= 2}

SomePaths ==
    {p \in UNION {[1..n -> {"site", "other", "internal", ".."}] : n \in 1..3} :
        Cardinality({i \in 1..Len(p) : p[i] = ".."}) >= Len(p) - 2}

=============================================================================

---------------------------- MODULE MCSignIn ----------------------------
(* SignIn with two manifests that have different hostnames, and the        *)
(* symmetry of the requests.                                               *)
EXTENDS SignIn, TLC

CONSTANTS r1, r2
TwoRequests == {r1, r2}
RequestSymmetry == Permutations(TwoRequests)
TwoManifests == {"old", "new"}
Hostnames == [m \in TwoManifests |-> m]
=============================================================================

------------------------ MODULE MCDeviceSessions ------------------------
(* DeviceSessions with the symmetry of the requests, which differ in       *)
(* nothing but their name.                                                 *)
EXTENDS DeviceSessions, TLC

RequestSymmetry == Permutations(Requests)
=============================================================================

------------------------- MODULE MCEdgeProcess -------------------------
(***************************************************************************)
(* Two requests against a bound of one, one connection in the pool, and a  *)
(* database that goes away once.                                           *)
(***************************************************************************)
EXTENDS EdgeProcess
=============================================================================

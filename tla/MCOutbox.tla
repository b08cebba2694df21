------------------------------ MODULE MCOutbox ------------------------------
(* A small instance of Outbox: two messages, and the publishers of two Edge
   processes, an old one that may go away at any time and its successor. *)
EXTENDS Outbox

CONSTANTS m1, m2, old, new

Two == {m1, m2}
Both == {old, new}

MCSpec == Spec /\ FairTo(new)
=============================================================================

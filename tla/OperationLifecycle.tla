------------------------- MODULE OperationLifecycle -------------------------
(***************************************************************************)
(* What the public operation API promises a client about one operation     *)
(* (ADR-0002, DOMAIN.md "Operation"): it appears as `accepted', it only    *)
(* ever climbs the lifecycle ranks, the first terminal outcome is the last *)
(* one, and an outcome a client was shown never changes.  No worker, bus,  *)
(* reaper or database appears here; module Operations implements it.       *)
(***************************************************************************)
EXTENDS Naturals

CONSTANT Ops                    \* the operation identifiers

VARIABLES
  phase,                        \* phase[o]: the status of o, or "absent"
  shown                         \* shown[o]: the outcome a client was shown

LiveStatus == {"accepted", "queued", "running"}
TerminalStatus == {"succeeded", "partially_succeeded", "failed", "cancelled"}
Status == LiveStatus \union TerminalStatus

\* transition.rs `rank': the four outcomes share the top rank.
Rank(s) == CASE s = "accepted" -> 0
             [] s = "queued"   -> 1
             [] s = "running"  -> 2
             [] OTHER          -> 3

Init ==
  /\ phase = [o \in Ops |-> "absent"]
  /\ shown = [o \in Ops |-> "nothing"]

\* The 202 answer: the work is durably accepted.
Accept(o) ==
  /\ phase[o] = "absent"
  /\ phase' = [phase EXCEPT ![o] = "accepted"]
  /\ UNCHANGED shown

\* Skips are legal, steps back and steps out of an outcome are not.
Advance(o, s) ==
  /\ phase[o] \in LiveStatus
  /\ Rank(s) > Rank(phase[o])
  /\ phase' = [phase EXCEPT ![o] = s]
  /\ UNCHANGED shown

\* A client reads the operation after it ended.
Show(o) ==
  /\ phase[o] \in TerminalStatus
  /\ shown' = [shown EXCEPT ![o] = phase[o]]
  /\ UNCHANGED phase

Next == \E o \in Ops : \/ Accept(o)
                       \/ \E s \in Status : Advance(o, s)
                       \/ Show(o)

Spec == Init /\ [][Next]_<<phase, shown>>
=============================================================================

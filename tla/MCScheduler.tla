---------------------------- MODULE MCScheduler -----------------------------
(* Small instances of Scheduler: a schedule whose command cannot be built and
   one that works, an old process that drains and the new one. *)
EXTENDS Scheduler

CONSTANTS digest, sync, old, new, hers, his

TwoSchedules == {digest, sync}
One == {sync}
NoneBroken == {}
Hers == {hers}
HersOrHis == {hers, his}
DigestBroken == {digest}
Both == {old, new}
Alone == {new}
EveryTick == {1}
EverySecond == {1, 2}
Sent ==
  ({sync} \X EverySecond \X BOOLEAN \X {hers}) \union ({sync} \X EverySecond \X {TRUE} \X {his})
  \union ({digest} \X EverySecond \X {TRUE} \X {hers})

MCSpec == Spec /\ Fairness({new})
=============================================================================

-------------------------- MODULE EdgeProofs --------------------------
(***************************************************************************)
(* What an Edge process promises.  First EdgeProcess, of its requests, for *)
(* any number of requests, connections and dependencies and any limit.     *)
(* Then ProgressStream, of the streams of an operation, for any clients,   *)
(* pages and faults, and whichever processes record the progress: nothing  *)
(* comes twice, below what a client has there is no gap, and a stream that *)
(* ended told the outcome.                                                 *)
(***************************************************************************)
EXTENDS EdgeProcess, ProgressStream, FiniteSetTheorems, TLAPS

-----------------------------------------------------------------------------
(* The concurrency bound.                                                  *)

States == {"out", "in", "running", "refused", "body", "done", "denied", "left", "cut"}

(* The counter is the number of guards, and whoever runs came in when the  *)
(* counter was below the limit.                                            *)
CounterInv ==
    /\ req \in [Requests -> States]
    /\ phase # "exited" => shed = Cardinality(Guarded)
    /\ Cardinality({r \in Requests : Serving(r)}) <= Limit

(* A set of requests is finite, and its size is a natural number.          *)
LEMMA RequestSetsAreFinite ==
    ASSUME NEW S \in SUBSET Requests
    PROVE  IsFiniteSet(S) /\ Cardinality(S) \in Nat
  BY FS_Subset, FS_CardinalityType, EdgeProcessAssumption

(* A step that leaves the counter and the requests alone keeps the bound.  *)
LEMMA CounterUntouched ==
    ASSUME CounterInv, UNCHANGED requests, phase = "exited" => phase' = "exited"
    PROVE  CounterInv'
  BY DEF CounterInv, requests, Guarded, Serving

(* A guard that is dropped lowers the counter by one, whatever becomes of  *)
(* its request afterwards.                                                 *)
LEMMA DroppingAGuard ==
    ASSUME CounterInv, NEW r \in Requests, NEW rest \in States \ {"running", "refused"},
           phase # "exited",
           req' = [req EXCEPT ![r] = rest], shed' = Dropped(r), phase' = phase
    PROVE  CounterInv'
  <1> DEFINE Running == {q \in Requests : Serving(q)}
  <1>1. req' \in [Requests -> States]
    BY DEF CounterInv
  <1>2. /\ Guarded' = Guarded \ {r}
        /\ Running' = Running \ {r}
    BY DEF CounterInv, Guarded, Serving
  <1>3. /\ IsFiniteSet(Guarded) /\ Cardinality(Guarded) \in Nat
        /\ IsFiniteSet(Running) /\ Cardinality(Running) \in Nat
    BY RequestSetsAreFinite, Guarded \subseteq Requests, Running \subseteq Requests
       DEF Guarded
  <1>4. shed' = Cardinality(Guarded')
    <2>1. CASE r \in Guarded
      BY <1>2, <1>3, <2>1, FS_RemoveElement DEF CounterInv, Dropped
    <2>2. CASE r \notin Guarded
      BY <1>2, <2>2, Guarded \ {r} = Guarded DEF CounterInv, Dropped
    <2> QED BY <2>1, <2>2
  <1>5. Cardinality(Running') <= Limit
    <2>1. Cardinality(Running') <= Cardinality(Running) /\ Cardinality(Running') \in Nat
      BY <1>2, <1>3, FS_Subset, FS_CardinalityType, Running \ {r} \subseteq Running
    <2> QED BY <2>1, <1>3, EdgeProcessAssumption DEF CounterInv
  <1> QED BY <1>1, <1>4, <1>5 DEF CounterInv

(* A request that comes past the counter raises it by one: it runs when    *)
(* the counter was below the limit, and else it is about to be refused.    *)
LEMMA EnteringCounts ==
    ASSUME CounterInv, NEW r \in Requests, Enter(r)
    PROVE  CounterInv'
  <1> DEFINE Running == {q \in Requests : Serving(q)}
  <1>1. req' \in [Requests -> States]
    BY DEF CounterInv, Enter, States
  <1>2. Guarded' = Guarded \cup {r} /\ r \notin Guarded
    BY DEF CounterInv, Guarded, Enter
  <1>3. /\ IsFiniteSet(Guarded) /\ Cardinality(Guarded) \in Nat
        /\ IsFiniteSet(Running) /\ Cardinality(Running) \in Nat
    BY RequestSetsAreFinite, Guarded \subseteq Requests, Running \subseteq Requests
       DEF Guarded
  <1>4. shed = Cardinality(Guarded) /\ shed' = shed + 1 /\ phase' = phase
    BY DEF CounterInv, Enter, Alive, process
  <1>5. shed' = Cardinality(Guarded')
    BY <1>2, <1>3, <1>4, FS_AddElement
  <1>6. Cardinality(Running') <= Limit
    <2>1. CASE shed >= Limit
      BY <2>1, Running' = Running DEF CounterInv, Enter, Serving
    <2>2. CASE ~(shed >= Limit)
      <3>1. Running' = Running \cup {r} /\ r \notin Running
        BY <2>2 DEF CounterInv, Enter, Serving
      <3>2. Cardinality(Running) <= shed
        BY <1>3, <1>4, FS_Subset, Running \subseteq Guarded DEF Guarded, Serving
      <3>3. Cardinality(Running') = Cardinality(Running) + 1
        BY <3>1, <1>3, FS_AddElement
      <3> QED BY <3>2, <3>3, <2>2, <1>3, <1>4, EdgeProcessAssumption
    <2> QED BY <2>1, <2>2
  <1> QED BY <1>1, <1>4, <1>5, <1>6 DEF CounterInv

(* The counter holds for every request step, one by one.                   *)
LEMMA RequestsKeepTheCounter ==
    ASSUME CounterInv, NEW r \in Requests, RequestStep(r)
    PROVE  CounterInv'
  <1>1. CASE Arrive(r)
    <2>1. /\ req' = [req EXCEPT ![r] = "in"] /\ req[r] = "out"
          /\ shed' = shed /\ phase' = phase
      BY <1>1 DEF Arrive, process
    <2>2. req' \in [Requests -> States]
      BY <2>1 DEF CounterInv, States
    <2>3. Guarded' = Guarded /\ {q \in Requests : Serving(q)}' = {q \in Requests : Serving(q)}
      BY <2>1 DEF CounterInv, Guarded, Serving
    <2> QED BY <2>1, <2>2, <2>3 DEF CounterInv
  <1>2. CASE Enter(r)
    BY <1>2, EnteringCounts
  <1>3. CASE Acquire(r) \/ Release(r)
    BY <1>3, CounterUntouched DEF Acquire, Release, process
  <1>4. CASE Complete(r) \/ Refuse(r) \/ Abort(r) \/ PoolRefuses(r)
    <2>1. PICK rest \in {"done", "body", "denied"} : Answer(r, rest) /\ phase # "exited"
      BY <1>4 DEF Complete, Refuse, Abort, PoolRefuses, Alive
    <2> QED BY <2>1, DroppingAGuard DEF Answer, process, States
  <1>5. CASE BodyEnds(r)
    <2>1. Dropped(r) = shed
      BY <1>5 DEF BodyEnds, Dropped, Guarded
    <2> QED BY <1>5, <2>1, DroppingAGuard DEF BodyEnds, Alive, process, States
  <1>6. CASE Disconnect(r)
    BY <1>6, DroppingAGuard DEF Disconnect, Alive, process, States
  <1> QED BY <1>1, <1>2, <1>3, <1>4, <1>5, <1>6 DEF RequestStep

(* An exit cuts off what is open, and nothing runs after it.               *)
LEMMA ExitKeepsTheBound ==
    ASSUME CounterInv, Exit
    PROVE  CounterInv'
  <1> DEFINE Running == {q \in Requests : Serving(q)}
  <1>1. req' \in [Requests -> States]
    BY DEF CounterInv, Exit, States
  <1>2. Running' = {}
    BY DEF CounterInv, Exit, Serving, Open, Inside
  <1>3. Cardinality(Running') = 0
    BY <1>2, FS_EmptySet
  <1> QED BY <1>1, <1>3, EdgeProcessAssumption DEF CounterInv, Exit

LEMMA CounterInductive == CounterInv /\ [Next]_vars => CounterInv'
  <1> SUFFICES ASSUME CounterInv, [Next]_vars PROVE CounterInv'
    OBVIOUS
  <1>1. CASE Start \/ Signal \/ Interrupt \/ PassBegins \/ PassEnds
    BY <1>1, CounterUntouched
       DEF Start, Build, FirstProbe, BindFails, Bind, Signal, Interrupt, InterruptDrain,
           CloseListeners, InterruptGrace, PassBegins, PassEnds, process
  <1>2. CASE DrainElapses \/ ServersFinish \/ GraceExpires \/ AbortTasks
    BY <1>2, CounterUntouched
       DEF DrainElapses, CloseListeners, ServersFinish, GraceExpires, AbortTasks
  <1>3. CASE Exit
    BY <1>3, ExitKeepsTheBound
  <1>4. ASSUME NEW d \in Dependencies, Flap(d) \/ Probe(d) PROVE CounterInv'
    BY <1>4, CounterUntouched DEF Flap, Probe, process
  <1>5. ASSUME NEW w \in Writers, Compute(w) \/ SetGauge(w) PROVE CounterInv'
    BY <1>5, CounterUntouched DEF Compute, SetGauge, process
  <1>6. ASSUME NEW r \in Requests, RequestStep(r) PROVE CounterInv'
    BY <1>6, RequestsKeepTheCounter
  <1>7. CASE UNCHANGED vars
    BY <1>7, CounterUntouched DEF vars, requests
  <1> QED BY <1>1, <1>2, <1>3, <1>4, <1>5, <1>6, <1>7 DEF Next, Stop

LEMMA CounterInitially == Init => CounterInv
  <1> SUFFICES ASSUME Init PROVE CounterInv
    OBVIOUS
  <1>1. Guarded = {} /\ {r \in Requests : Serving(r)} = {}
    BY DEF Init, Guarded, Serving
  <1> QED BY <1>1, FS_EmptySet, EdgeProcessAssumption DEF Init, CounterInv, States

(* The concurrency bound, however requests end (limit.rs, the guard that   *)
(* releases on Drop).                                                      *)
THEOREM ConcurrencyAlwaysBounded == Spec => []ConcurrencyIsBounded
  <1>1. CounterInv => ConcurrencyIsBounded
    BY DEF CounterInv, ConcurrencyIsBounded, Alive
  <1> QED BY <1>1, CounterInitially, CounterInductive, PTL DEF Spec

-----------------------------------------------------------------------------
(* Types.  The counter of observe is lowered by requests that are answered *)
(* only, so it stays a number because it counts at least those inside.     *)

InsideCounted ==
    phase # "exited" => Cardinality({r \in Requests : Inside(r)}) <= inFlight
TypeInv == TypeOK /\ CounterInv /\ InsideCounted

LEMMA InsideUntouched ==
    ASSUME InsideCounted, UNCHANGED requests, phase = "exited" => phase' = "exited"
    PROVE  InsideCounted'
  BY DEF InsideCounted, requests, Inside

(* Requests that are not inside afterwards only make the set smaller.      *)
LEMMA InsideShrinks ==
    ASSUME TypeOK, InsideCounted, NEW r \in Requests,
           NEW rest \in States \ {"in", "running", "refused"},
           req' = [req EXCEPT ![r] = rest], phase' = phase, phase # "exited",
           \/ inFlight' = inFlight
           \/ Inside(r) /\ inFlight' = inFlight - 1
    PROVE  InsideCounted' /\ inFlight' \in Nat
  <1> DEFINE In == {q \in Requests : Inside(q)}
  <1>1. In' = In \ {r}
    BY DEF TypeOK, Inside
  <1>2. IsFiniteSet(In) /\ Cardinality(In) \in Nat /\ Cardinality(In) <= inFlight
    BY RequestSetsAreFinite, In \subseteq Requests DEF InsideCounted
  <1>3. CASE ~Inside(r)
    BY <1>1, <1>2, <1>3, In \ {r} = In DEF InsideCounted, TypeOK
  <1>4. CASE Inside(r)
    <2>1. Cardinality(In') = Cardinality(In) - 1
      BY <1>1, <1>2, <1>4, FS_RemoveElement
    <2>2. Cardinality(In') \in Nat
      BY <1>1, RequestSetsAreFinite, In \ {r} \subseteq Requests
    <2> QED BY <2>1, <2>2, <1>2 DEF InsideCounted, TypeOK
  <1> QED BY <1>3, <1>4

LEMMA ArrivingIsCounted ==
    ASSUME TypeOK, InsideCounted, NEW r \in Requests, Arrive(r)
    PROVE  InsideCounted'
  <1> DEFINE In == {q \in Requests : Inside(q)}
  <1>1. In' = In \cup {r} /\ r \notin In
    BY DEF TypeOK, Inside, Arrive
  <1>2. IsFiniteSet(In) /\ Cardinality(In) \in Nat /\ Cardinality(In) <= inFlight
    BY RequestSetsAreFinite, In \subseteq Requests DEF InsideCounted, Arrive, Admitting
  <1>3. Cardinality(In') = Cardinality(In) + 1
    BY <1>1, <1>2, FS_AddElement
  <1> QED BY <1>2, <1>3 DEF InsideCounted, Arrive, TypeOK

LEMMA EnteringStaysInside ==
    ASSUME TypeOK, InsideCounted, NEW r \in Requests, Enter(r)
    PROVE  InsideCounted'
  <1>1. {q \in Requests : Inside(q)}' = {q \in Requests : Inside(q)}
    BY DEF TypeOK, Inside, Enter
  <1> QED BY <1>1 DEF InsideCounted, Enter, process

LEMMA RequestsKeepTypes ==
    ASSUME TypeInv, NEW r \in Requests, RequestStep(r)
    PROVE  TypeOK' /\ InsideCounted'
  <1>1. CounterInv' /\ (shed' \in Nat \/ phase = "exited")
    <2>1. CounterInv'
      BY RequestsKeepTheCounter DEF TypeInv
    <2>2. Cardinality(Guarded)' \in Nat
      BY RequestSetsAreFinite, Guarded' \subseteq Requests DEF Guarded
    <2>3. phase' = phase
      BY DEF RequestStep, Arrive, Enter, Acquire, Release, Complete, Refuse, Abort,
             PoolRefuses, BodyEnds, Disconnect, Answer, process
    <2> QED BY <2>1, <2>2, <2>3 DEF CounterInv
  <1>2. CASE Arrive(r)
    <2>1. /\ req' = [req EXCEPT ![r] = "in"] /\ inFlight' = inFlight + 1
          /\ UNCHANGED <<phase, up, flaps, seen, publishing, shed, held, pool, ended>>
          /\ UNCHANGED <<started, draining, gauge>>
      BY <1>2 DEF Arrive, readiness, process
    <2>2. TypeOK'
      BY <2>1 DEF TypeInv, TypeOK
    <2> QED BY <1>2, <2>2, ArrivingIsCounted DEF TypeInv
  <1>3. CASE Enter(r)
    <2>1. InsideCounted'
      BY <1>3, EnteringStaysInside DEF TypeInv
    <2>2. shed' \in Nat
      BY <1>1, <1>3 DEF Enter, Alive
    <2>3. /\ \E state \in {"refused", "running"} : req' = [req EXCEPT ![r] = state]
          /\ UNCHANGED <<readiness, inFlight, held, process>>
      BY <1>3 DEF Enter
    <2> QED BY <2>1, <2>2, <2>3 DEF TypeInv, TypeOK, readiness, process
  <1>4. CASE Acquire(r) \/ Release(r)
    BY <1>4, InsideUntouched
       DEF TypeInv, TypeOK, Acquire, Release, readiness, requests, process
  <1>5. CASE Complete(r) \/ Refuse(r) \/ Abort(r) \/ PoolRefuses(r)
    <2>1. PICK rest \in {"done", "body", "denied"} :
            Answer(r, rest) /\ phase # "exited" /\ Inside(r)
      BY <1>5 DEF Complete, Refuse, Abort, PoolRefuses, Alive, Inside, Serving
    <2>2. InsideCounted' /\ inFlight' \in Nat
      BY <2>1, InsideShrinks DEF TypeInv, Answer, process, States
    <2> QED BY <1>1, <2>1, <2>2 DEF TypeInv, TypeOK, Answer, readiness, process
  <1>6. CASE BodyEnds(r)
    <2>1. InsideCounted'
      BY <1>6, InsideShrinks DEF TypeInv, BodyEnds, Alive, process, States
    <2> QED BY <1>6, <2>1 DEF TypeInv, TypeOK, BodyEnds, readiness, process
  <1>7. CASE Disconnect(r)
    <2>1. InsideCounted'
      BY <1>7, InsideShrinks DEF TypeInv, Disconnect, Alive, process, States
    <2> QED BY <1>1, <1>7, <2>1 DEF TypeInv, TypeOK, Disconnect, Alive, readiness, process
  <1> QED BY <1>2, <1>3, <1>4, <1>5, <1>6, <1>7 DEF RequestStep

LEMMA TypesInductive == TypeInv /\ [Next]_vars => TypeInv'
  <1> SUFFICES ASSUME TypeInv, [Next]_vars PROVE TypeOK' /\ InsideCounted'
    BY CounterInductive DEF TypeInv
  <1> USE EdgeProcessAssumption
  <1>1. CASE Build \/ BindFails
    BY <1>1, InsideUntouched DEF TypeInv, TypeOK, Build, BindFails, readiness, requests
  <1>9. CASE FirstProbe
    BY <1>9, InsideUntouched
       DEF TypeInv, TypeOK, FirstProbe, Stored, Writers, Found, requests
  <1>10. CASE Bind
    BY <1>10, InsideUntouched DEF TypeInv, TypeOK, Bind, Stored, Writers, requests
  <1>11. CASE Signal
    BY <1>11, InsideUntouched DEF TypeInv, TypeOK, Signal, Stored, Writers, requests
  <1>2. CASE Interrupt \/ DrainElapses \/ ServersFinish \/ GraceExpires
    <2>1. /\ UNCHANGED requests /\ phase # "exited" /\ phase' \in {"closing", "stopping"}
          /\ UNCHANGED <<up, flaps, seen, started, draining, gauge, publishing, held, pool>>
      BY <1>2 DEF Interrupt, InterruptDrain, CloseListeners, InterruptGrace,
                  DrainElapses, ServersFinish, GraceExpires, readiness
    <2>2. ended' \in [graceful : BOOLEAN, interrupted : BOOLEAN, atClose : Nat]
      BY <1>2 DEF TypeInv, TypeOK, Interrupt, InterruptDrain, CloseListeners,
                  InterruptGrace, DrainElapses, ServersFinish, GraceExpires
    <2> QED BY <2>1, <2>2, InsideUntouched DEF TypeInv, TypeOK, requests
  <1>3. CASE PassBegins \/ PassEnds \/ AbortTasks
    <2>1. /\ UNCHANGED requests /\ phase' = phase
          /\ UNCHANGED <<up, flaps, seen, started, draining, gauge, publishing, ended>>
          /\ held' \subseteq held \cup {Publisher}
          /\ pool' \in {pool, "closing"}
      BY <1>3 DEF PassBegins, PassEnds, AbortTasks, Aborted, readiness, process
    <2> QED BY <2>1, InsideUntouched DEF TypeInv, TypeOK, requests
  <1>4. CASE Exit
    BY <1>4 DEF TypeInv, TypeOK, InsideCounted, Exit, readiness
  <1>5. ASSUME NEW d \in Dependencies, Flap(d) \/ Probe(d) PROVE TypeOK' /\ InsideCounted'
    BY <1>5, InsideUntouched
       DEF TypeInv, TypeOK, Flap, Probe, Stored, Writers, Found, requests, process
  <1>6. ASSUME NEW w \in Writers, Compute(w) \/ SetGauge(w) PROVE TypeOK' /\ InsideCounted'
    <2>1. /\ UNCHANGED <<up, flaps, seen, started, draining, requests, held, process>>
          /\ \E stage \in {"idle", "ready", "unready"} :
                publishing' = [publishing EXCEPT ![w] = stage]
      BY <1>6 DEF Compute, SetGauge
    <2>2. gauge' \in BOOLEAN
      BY <1>6 DEF Compute, SetGauge, TypeInv, TypeOK
    <2>3. InsideCounted'
      BY <2>1, InsideUntouched DEF TypeInv, process
    <2> QED BY <2>1, <2>2, <2>3 DEF TypeInv, TypeOK, requests, process
  <1>7. ASSUME NEW r \in Requests, RequestStep(r) PROVE TypeOK' /\ InsideCounted'
    BY <1>7, RequestsKeepTypes
  <1>8. CASE UNCHANGED vars
    BY <1>8, InsideUntouched DEF TypeInv, TypeOK, vars, requests
  <1> QED BY <1>1, <1>2, <1>3, <1>4, <1>5, <1>6, <1>7, <1>8, <1>9, <1>10, <1>11
       DEF Next, Start, Stop

LEMMA TypesInitially == Init => TypeInv
  <1> SUFFICES ASSUME Init PROVE TypeOK /\ InsideCounted
    BY CounterInitially DEF TypeInv
  <1>1. {r \in Requests : Inside(r)} = {}
    BY DEF Init, Inside
  <1>2. up \subseteq Dependencies
    BY DEF Init
  <1>3. InsideCounted
    BY <1>1, FS_EmptySet DEF Init, InsideCounted
  <1>4. publishing \in [Writers -> {"idle", "compute", "ready", "unready"}]
    BY DEF Init
  <1>5. ended \in [graceful : BOOLEAN, interrupted : BOOLEAN, atClose : Nat]
    BY DEF Init
  <1>6. started \in BOOLEAN /\ draining \in BOOLEAN /\ gauge \in BOOLEAN
    BY DEF Init
  <1>7. flaps \in 0..MaxFlaps
    BY EdgeProcessAssumption DEF Init
  <1> QED BY <1>2, <1>3, <1>4, <1>5, <1>6, <1>7 DEF Init, TypeOK

(* Every variable keeps its type: no counter goes below zero.              *)
THEOREM TypeCorrect == Spec => []TypeOK
  BY TypesInitially, TypesInductive, PTL DEF Spec, TypeInv

-----------------------------------------------------------------------------
(* The shutdown.  The pool closes after the listeners have ended, so while *)
(* they wait for their connections no handler is denied the database; and  *)
(* once they have reported a graceful end nothing is open that could be.   *)

GracefulInv ==
    /\ pool # "open" => phase \in {"stopping", "exited"}
    /\ \A r \in Requests :
         /\ req[r] = "denied" => pool # "open"
         /\ req[r] = "cut" => phase = "exited"
    /\ ended.graceful =>
         /\ phase \in {"stopping", "exited"}
         /\ \A r \in Requests : ~Open(r) /\ req[r] \notin {"denied", "cut"}

(* A request changes only itself; after a graceful end none is open.       *)
LEMMA RequestsKeepGrace ==
    ASSUME TypeOK, GracefulInv, NEW r \in Requests, RequestStep(r)
    PROVE  GracefulInv'
  <1>1. /\ UNCHANGED <<phase, pool, ended>>
        /\ UNCHANGED req \/ \E state \in States \ {"cut"} :
                               /\ req' = [req EXCEPT ![r] = state]
                               /\ state = "denied" => pool # "open"
                               /\ Open(r) \/ phase \in {"serving", "draining"}
    <2>1. CASE Arrive(r) \/ Enter(r)
      BY <2>1 DEF Arrive, Enter, Admitting, process, States, Open, Inside
    <2>2. CASE Acquire(r) \/ Release(r)
      BY <2>2 DEF Acquire, Release, requests, process
    <2>3. CASE Complete(r) \/ Refuse(r) \/ Abort(r) \/ PoolRefuses(r)
      BY <2>3 DEF Complete, Refuse, Abort, PoolRefuses, Answer, process, States, Open,
                  Inside, Serving
    <2>4. CASE BodyEnds(r) \/ Disconnect(r)
      BY <2>4 DEF BodyEnds, Disconnect, process, States, Open
    <2> QED BY <2>1, <2>2, <2>3, <2>4 DEF RequestStep
  <1>2. CASE UNCHANGED req
    BY <1>1, <1>2 DEF GracefulInv, Open, Inside
  <1>3. CASE ~ UNCHANGED req
    <2>1. PICK state \in States \ {"cut"} :
            /\ req' = [req EXCEPT ![r] = state]
            /\ state = "denied" => pool # "open"
            /\ Open(r) \/ phase \in {"serving", "draining"}
      BY <1>1, <1>3
    <2>2. ~ ended.graceful
      BY <2>1 DEF GracefulInv
    <2> QED BY <1>1, <2>1, <2>2 DEF GracefulInv, TypeOK
  <1> QED BY <1>2, <1>3

LEMMA GracefulInductive == TypeOK /\ GracefulInv /\ [Next]_vars => GracefulInv'
  <1> SUFFICES ASSUME TypeOK, GracefulInv, [Next]_vars PROVE GracefulInv'
    OBVIOUS
  <1>1. CASE Start \/ Signal \/ PassBegins \/ PassEnds
    <2>1. UNCHANGED <<req, pool, ended>> /\ (UNCHANGED phase \/ phase \in {"build", "probe", "bind", "serving"})
      BY <1>1 DEF Start, Build, FirstProbe, BindFails, Bind, Signal, PassBegins, PassEnds,
                  requests, process
    <2> QED BY <2>1 DEF GracefulInv, Open, Inside
  <1>2. CASE Interrupt \/ DrainElapses \/ GraceExpires
    <2>1. /\ UNCHANGED <<req, pool>> /\ ended'.graceful = ended.graceful
          /\ phase \in {"draining", "closing"} /\ phase' \in {"closing", "stopping"}
      BY <1>2 DEF Interrupt, InterruptDrain, CloseListeners, InterruptGrace, DrainElapses,
                  GraceExpires, requests, TypeOK
    <2> QED BY <2>1 DEF GracefulInv, Open, Inside
  <1>3. CASE ServersFinish
    BY <1>3 DEF GracefulInv, ServersFinish, AllServed, Open, Inside, requests, TypeOK
  <1>4. CASE AbortTasks
    BY <1>4 DEF GracefulInv, AbortTasks, Open, Inside, requests
  <1>5. CASE Exit
    BY <1>5 DEF GracefulInv, Exit, Open, Inside, TypeOK
  <1>6. ASSUME NEW d \in Dependencies, Flap(d) \/ Probe(d) PROVE GracefulInv'
    BY <1>6 DEF GracefulInv, Flap, Probe, Open, Inside, requests, process
  <1>7. ASSUME NEW w \in Writers, Compute(w) \/ SetGauge(w) PROVE GracefulInv'
    BY <1>7 DEF GracefulInv, Compute, SetGauge, Open, Inside, requests, process
  <1>8. ASSUME NEW r \in Requests, RequestStep(r) PROVE GracefulInv'
    BY <1>8, RequestsKeepGrace
  <1>9. CASE UNCHANGED vars
    BY <1>9 DEF GracefulInv, vars, Open, Inside
  <1> QED BY <1>1, <1>2, <1>3, <1>4, <1>5, <1>6, <1>7, <1>8, <1>9 DEF Next, Stop

(* A shutdown that reports itself graceful cut no answer and denied no     *)
(* handler the database (shutdown.rs, steps 4 and 5; lib.rs, the end of    *)
(* run), whatever signals, timeouts and clients do.                        *)
THEOREM GracefulAlwaysServesAll == Spec => []GracefulServesAll
  <1>1. Init => GracefulInv
    BY DEF Init, GracefulInv
  <1>2. GracefulInv => GracefulServesAll
    BY DEF GracefulInv, GracefulServesAll
  <1> QED BY <1>1, <1>2, TypesInitially, TypesInductive, GracefulInductive, PTL
      DEF Spec, TypeInv

-----------------------------------------------------------------------------
(* The streams of one operation: type correctness                         *)

LEMMA StatusRanks ==
  /\ "accepted" \in Lifecycle!Status
  /\ Lifecycle!TerminalStatus \subseteq Lifecycle!Status
BY DEF Lifecycle!Status, Lifecycle!LiveStatus, Lifecycle!TerminalStatus

LEMMA ClosedTypes ==
  /\ Closed \in [pc : {"closed", "poll", "frames", "sleep", "ended"},
                 cursor : Nat, page : Seq(Entry)]
  /\ Closed.pc = "closed"
  /\ Idle \in [by : Edges \union {NoOne}, id : Nat, status : Lifecycle!Status]
<1>1. <<>> \in Seq(Entry) /\ Closed.page = <<>>
  BY DEF Closed
<1> HIDE DEF Entry
<1> QED BY <1>1, StatusRanks DEF Closed, Idle

LEMMA InitStreamTypes == StreamInit => StreamTypeOK
<1> SUFFICES ASSUME StreamInit PROVE StreamTypeOK
  OBVIOUS
<1>1. <<>> \in Seq(Entry)
  OBVIOUS
<1> HIDE DEF Entry
<1> QED BY <1>1, ClosedTypes, StatusRanks, StreamAssumption DEF StreamInit, StreamTypeOK

\* The head of a list and what is left of it.
LEMMA HeadAndTail ==
  ASSUME NEW list \in Seq(Entry), list # <<>>
  PROVE  /\ Head(list) \in Entry /\ Head(list) = list[1]
         /\ Tail(list) \in Seq(Entry)
         /\ Len(list) \in Nat /\ Len(list) > 0
         /\ Len(Tail(list)) = Len(list) - 1
         /\ \A i \in 1..Len(list) - 1 : Tail(list)[i] = list[i + 1]
<1> HIDE DEF Entry
<1> QED OBVIOUS

\* What a list holds when one entry is put last.
LEMMA LongerByOne ==
  ASSUME NEW list \in Seq(Entry), NEW x \in Entry
  PROVE  /\ Append(list, x) \in Seq(Entry)
         /\ Len(list) \in Nat
         /\ Len(Append(list, x)) = Len(list) + 1
         /\ Append(list, x)[Len(list) + 1] = x
         /\ \A i \in 1..Len(list) : Append(list, x)[i] = list[i]
         /\ DOMAIN list = 1..Len(list)
         /\ DOMAIN Append(list, x) = 1..Len(list) + 1
<1> HIDE DEF Entry
<1> QED OBVIOUS

\* A page that is read is one of entries.
Paged(c) == ProgressSince(stream[c].cursor) \in Seq(Entry)

LEMMA StreamTypes ==
  ASSUME StreamTypeOK, NEW c \in Clients,
         Poll(c) => Paged(c),
         stream[c].pc = "frames" => stream[c].page # <<>>,
         \/ Streaming(c) \/ ReadFails(c) \/ Connect(c) \/ Receive(c) \/ Lose(c) \/ Reload(c)
  PROVE  StreamTypeOK'
<1> DEFINE Generator == [pc : {"closed", "poll", "frames", "sleep", "ended"},
                         cursor : Nat, page : Seq(Entry)]
<1>1. /\ stream \in [Clients -> Generator]
      /\ wire \in [Clients -> Seq(Entry)] /\ received \in [Clients -> Seq(Entry)]
      /\ stream[c] \in Generator /\ wire[c] \in Seq(Entry) /\ received[c] \in Seq(Entry)
      /\ stream[c].cursor \in Nat /\ stream[c].page \in Seq(Entry)
      /\ faults \in Nat /\ faults <= MaxFaults
  BY StreamAssumption DEF StreamTypeOK
<1>2. Closed \in Generator /\ <<>> \in Seq(Entry)
  BY ClosedTypes
<1>3. ASSUME NEW g \in Generator, stream' = [stream EXCEPT ![c] = g],
             UNCHANGED <<clock, recording, wire, received, faults>>
      PROVE  StreamTypeOK'
  <2>1. stream' \in [Clients -> Generator]
    <3> HIDE DEF Generator
    <3> QED BY <1>1, <1>3
  <2> QED BY <1>3, <2>1 DEF StreamTypeOK, recording
<1>4. ASSUME faults < MaxFaults, faults' = faults + 1 PROVE faults' \in 0..MaxFaults
  BY <1>1, <1>4, StreamAssumption
<1>5. CASE Poll(c)
  <2> DEFINE page == ProgressSince(stream[c].cursor)
             g == [stream[c] EXCEPT !.page = page,
                                    !.pc = IF page = <<>> THEN "sleep" ELSE "frames"]
  <2>1. page \in Seq(Entry)
    BY <1>5 DEF Paged
  <2>2. stream' = [stream EXCEPT ![c] = g]
    BY <1>5 DEF Poll
  <2>3. g \in Generator
    <3> HIDE DEF page, Entry
    <3> QED BY <1>1, <2>1
  <2>4. UNCHANGED <<clock, recording, wire, received, faults>>
    BY <1>5 DEF Poll
  <2> HIDE DEF g, page, Generator
  <2> QED BY <1>3, <2>2, <2>3, <2>4
<1>6. CASE Frame(c)
  <2>1. PICK entry \in Entry, rest \in Seq(Entry) :
          entry = Head(stream[c].page) /\ rest = Tail(stream[c].page)
    BY <1>1, <1>6, HeadAndTail DEF Frame
  <2>2. PICK g \in Generator : g = [pc |-> After(entry, rest), cursor |-> entry.id, page |-> rest]
    <3>1. entry.id \in Nat
      BY DEF Entry
    <3>2. PICK pc \in {"frames", "ended", "sleep"} : pc = After(entry, rest)
      BY DEF After
    <3> HIDE DEF Entry
    <3>3. [pc |-> pc, cursor |-> entry.id, page |-> rest] \in Generator
      BY <3>1
    <3> QED BY <3>2, <3>3
  <2>3. stream' = [stream EXCEPT ![c] = g] /\ wire' = [wire EXCEPT ![c] = Append(@, entry)]
    BY <1>6, <2>1, <2>2 DEF Frame
  <2>4. Append(wire[c], entry) \in Seq(Entry)
    BY <1>1, LongerByOne
  <2>5. stream' \in [Clients -> Generator] /\ wire' \in [Clients -> Seq(Entry)]
    <3> HIDE DEF Generator, Entry
    <3> QED BY <1>1, <2>3, <2>4
  <2> QED BY <1>6, <2>5 DEF Frame, StreamTypeOK, recording
<1>7. CASE Wake(c)
  <2> DEFINE g == [stream[c] EXCEPT !.pc = "poll"]
  <2>1. g \in Generator
    <3> HIDE DEF Entry
    <3> QED BY <1>1
  <2>2. stream' = [stream EXCEPT ![c] = g] /\ UNCHANGED <<clock, recording, wire, received, faults>>
    BY <1>7 DEF Wake
  <2> HIDE DEF g, Generator
  <2> QED BY <1>3, <2>1, <2>2
<1>8. CASE ReadFails(c)
  <2>1. stream' \in [Clients -> Generator]
    <3> HIDE DEF Generator
    <3> QED BY <1>1, <1>2, <1>8 DEF ReadFails
  <2> QED BY <1>4, <1>8, <2>1 DEF ReadFails, StreamTypeOK, recording
<1>9. CASE Connect(c)
  <2>1. LastEventId(c) \in Nat
    <3>1. CASE received[c] = <<>>
      BY <3>1 DEF LastEventId
    <3>2. CASE received[c] # <<>>
      <4>1. received[c][Len(received[c])] \in Entry
        <5> HIDE DEF Entry
        <5> QED BY <1>1, <3>2
      <4> QED BY <3>2, <4>1 DEF LastEventId, Last, Entry
    <3> QED BY <3>1, <3>2
  <2> DEFINE g == [pc |-> "poll", cursor |-> LastEventId(c), page |-> <<>>]
  <2>2. g \in Generator
    <3> HIDE DEF Entry
    <3> QED BY <1>2, <2>1
  <2>3. stream' = [stream EXCEPT ![c] = g] /\ UNCHANGED <<clock, recording, wire, received, faults>>
    BY <1>9 DEF Connect
  <2> HIDE DEF g, Generator
  <2> QED BY <1>3, <2>2, <2>3
<1>10. CASE Receive(c)
  <2>1. /\ Append(received[c], Head(wire[c])) \in Seq(Entry)
        /\ Tail(wire[c]) \in Seq(Entry)
    BY <1>1, <1>10, HeadAndTail, LongerByOne DEF Receive
  <2>2. received' \in [Clients -> Seq(Entry)] /\ wire' \in [Clients -> Seq(Entry)]
    <3> HIDE DEF Entry
    <3> QED BY <1>1, <1>10, <2>1 DEF Receive
  <2> QED BY <1>10, <2>2 DEF Receive, StreamTypeOK, recording
<1>11. CASE Lose(c)
  <2>1. stream' \in [Clients -> Generator] /\ wire' \in [Clients -> Seq(Entry)]
    <3> HIDE DEF Generator, Entry
    <3> QED BY <1>1, <1>2, <1>11 DEF Lose
  <2> QED BY <1>4, <1>11, <2>1 DEF Lose, StreamTypeOK, recording
<1>12. CASE Reload(c)
  <2> DEFINE g == [Closed EXCEPT !.pc = "poll"]
  <2>1. g \in Generator
    <3> HIDE DEF Entry
    <3> QED BY <1>2
  <2>2. /\ stream' = [stream EXCEPT ![c] = g]
        /\ wire' = [wire EXCEPT ![c] = <<>>] /\ received' = [received EXCEPT ![c] = <<>>]
    BY <1>12 DEF Reload
  <2> HIDE DEF g
  <2>3. /\ stream' \in [Clients -> Generator]
        /\ wire' \in [Clients -> Seq(Entry)] /\ received' \in [Clients -> Seq(Entry)]
    <3> HIDE DEF Generator, Entry
    <3> QED BY <1>1, <1>2, <2>1, <2>2
  <2> QED BY <1>4, <1>12, <2>3 DEF Reload, StreamTypeOK, recording
<1> QED
  BY <1>5, <1>6, <1>7, <1>8, <1>9, <1>10, <1>11, <1>12 DEF Streaming

LEMMA RecordTypes ==
  ASSUME StreamTypeOK,
         \/ Tick \/ Commit \/ Rollback
         \/ \E e \in Edges, s \in Lifecycle!Status : \E id \in NowV7(e) : Record(e, s, id)
  PROVE  StreamTypeOK'
<1>1. CASE Tick
  BY <1>1, StreamAssumption DEF Tick, StreamTypeOK, recording, following
<1>2. CASE Rollback
  BY <1>2, ClosedTypes DEF Rollback, StreamTypeOK, following
<1>3. CASE Commit
  <2>1. PICK x \in Entry : x = [id |-> writer.id, status |-> writer.status]
    BY DEF StreamTypeOK, Entry
  <2>2. Append(progress, x) \in Seq(Entry)
    BY LongerByOne DEF StreamTypeOK
  <2>3. progress' \in Seq(Entry) /\ status' \in Lifecycle!Status
    BY <1>3, <2>1, <2>2 DEF Commit, StreamTypeOK
  <2> QED BY <1>3, <2>3, ClosedTypes DEF Commit, StreamTypeOK, following
<1>4. ASSUME NEW e \in Edges, NEW s \in Lifecycle!Status, NEW id \in NowV7(e), Record(e, s, id)
      PROVE  StreamTypeOK'
  <2>1. id \in Nat
    BY StreamAssumption DEF NowV7, StreamTypeOK
  <2> QED BY <1>4, <2>1 DEF Record, StreamTypeOK, following
<1> QED BY <1>1, <1>2, <1>3, <1>4

-----------------------------------------------------------------------------
(* Whoever records: nothing comes twice                                    *)

\* Each entry has an id of its own.
OwnIds(entries) == \A x, y \in entries : x.id = y.id => x = y

Ordered(list) == \A i, j \in DOMAIN list : i < j => list[i].id < list[j].id

\* In a finite set of such entries every place is taken: the number of smaller
\* ids is different for each entry and less than the number of entries.
LEMMA EveryPlaceIsTaken ==
  ASSUME NEW entries \in SUBSET Entry, IsFiniteSet(entries), OwnIds(entries),
         NEW n \in 0 .. Cardinality(entries) - 1
  PROVE  \E e \in entries : Cardinality({x \in entries : x.id < e.id}) = n
<1> DEFINE Before(e) == {x \in entries : x.id < e.id}
           size == Cardinality(entries)
           places == 0 .. size - 1
           place == [e \in entries |-> Cardinality(Before(e))]
<1>1. size \in Nat
  BY FS_CardinalityType
<1>2. ASSUME NEW e \in entries, NEW S \in SUBSET entries, Before(e) \subseteq S, e \in S
      PROVE  /\ IsFiniteSet(S) /\ Cardinality(Before(e)) \in Nat
             /\ Cardinality(S) \in Nat /\ Cardinality(S) <= size
             /\ Cardinality(Before(e)) < Cardinality(S)
  <2>1. e.id \in Nat
    BY DEF Entry
  <2>2. e \notin Before(e)
    BY <2>1
  <2> HIDE DEF Before
  <2>3. IsFiniteSet(S) /\ Cardinality(S) <= size
    BY FS_Subset
  <2>4. IsFiniteSet(Before(e)) /\ Cardinality(Before(e)) <= Cardinality(S)
        /\ (Cardinality(Before(e)) = Cardinality(S) => Before(e) = S)
    BY <1>2, <2>3, FS_Subset
  <2>5. Cardinality(S) \in Nat /\ Cardinality(Before(e)) \in Nat
    BY <2>3, <2>4, FS_CardinalityType
  <2> QED BY <1>2, <2>2, <2>3, <2>4, <2>5
<1>3. place \in [entries -> places]
  <2>1. ASSUME NEW e \in entries PROVE Cardinality(Before(e)) \in places
    <3>1. Cardinality(Before(e)) \in Nat /\ Cardinality(Before(e)) < size
      BY <1>2
    <3> HIDE DEF Before, size
    <3> QED BY <1>1, <3>1
  <2> HIDE DEF Before, places
  <2> QED BY <2>1
<1>4. ASSUME NEW e \in entries, NEW f \in entries, e.id < f.id
      PROVE  Cardinality(Before(e)) < Cardinality(Before(f))
  <2>1. e.id \in Nat /\ f.id \in Nat /\ \A x \in entries : x.id \in Nat
    BY DEF Entry
  <2>2. Before(f) \in SUBSET entries /\ Before(e) \subseteq Before(f) /\ e \in Before(f)
    BY <1>4, <2>1
  <2> HIDE DEF Before, size
  <2> QED BY <1>2, <2>2
<1>5. ASSUME NEW e \in entries, NEW f \in entries, place[e] = place[f] PROVE e = f
  <2>1. e.id \in Nat /\ f.id \in Nat
    BY DEF Entry
  <2>2. /\ Cardinality(Before(e)) = Cardinality(Before(f))
        /\ Cardinality(Before(e)) \in Nat
    BY <1>2, <1>5
  <2> HIDE DEF Before
  <2>3. ~ (e.id < f.id) /\ ~ (f.id < e.id)
    BY <1>4, <2>2
  <2> QED BY <2>1, <2>3 DEF OwnIds
<1>6. IsFiniteSet(places) /\ Cardinality(places) = size
  BY <1>1, FS_Interval
<1> HIDE DEF size, place, places
<1>7. place \in Injection(entries, places)
  BY <1>3, <1>5 DEF Injection, IsInjective
<1>8. place \in Surjection(entries, places)
  BY <1>6, <1>7, FS_Injection DEF size
<1>9. \E e \in entries : place[e] = n
  BY <1>8 DEF Surjection, places, size
<1> QED BY <1>9 DEF place

\* What a read answers is some of the entries, in the order of their ids.
LEMMA PageIsOrdered ==
  ASSUME NEW entries \in SUBSET Entry, IsFiniteSet(entries), OwnIds(entries)
  PROVE  /\ FirstPage(entries) \in Seq(Entry)
         /\ \A i \in DOMAIN FirstPage(entries) : FirstPage(entries)[i] \in entries
         /\ Ordered(FirstPage(entries))
<1> DEFINE Before(e) == {x \in entries : x.id < e.id}
           size == Cardinality(entries)
           most == IF size < Page THEN size ELSE Page
           page == FirstPage(entries)
<1>1. size \in Nat /\ most \in Nat /\ most <= size
  BY FS_CardinalityType, StreamAssumption
<1>2. page = [i \in 1..most |-> CHOOSE e \in entries : Cardinality(Before(e)) = i - 1]
  BY DEF FirstPage
<1>3. ASSUME NEW i \in 1..most
      PROVE  page[i] \in entries /\ Cardinality(Before(page[i])) = i - 1
  <2>1. i - 1 \in 0 .. size - 1
    BY <1>1
  <2>2. \E e \in entries : Cardinality(Before(e)) = i - 1
    BY <2>1, EveryPlaceIsTaken
  <2>3. page[i] = CHOOSE e \in entries : Cardinality(Before(e)) = i - 1
    BY <1>2
  <2> HIDE DEF page, Before
  <2> QED BY <2>2, <2>3
<1>4. ASSUME NEW e \in entries, NEW f \in entries, e.id <= f.id
      PROVE  Cardinality(Before(e)) <= Cardinality(Before(f))
  <2>1. e.id \in Nat /\ f.id \in Nat /\ \A x \in entries : x.id \in Nat
    BY DEF Entry
  <2>2. Before(e) \in SUBSET Before(f) /\ Before(f) \in SUBSET entries
    BY <1>4, <2>1
  <2> HIDE DEF Before
  <2> QED BY <2>2, FS_Subset
<1> HIDE DEF page, most, size, Before
<1>5. DOMAIN page = 1..most /\ page \in [1..most -> Entry]
  BY <1>2, <1>3
<1>6. ASSUME NEW i \in 1..most, NEW j \in 1..most, i < j PROVE page[i].id < page[j].id
  <2>1. page[i].id \in Nat /\ page[j].id \in Nat
    BY <1>3 DEF Entry
  <2>2. ~ (page[j].id <= page[i].id)
    BY <1>3, <1>4, <1>6
  <2> QED BY <2>1, <2>2
<1>7. page \in Seq(Entry)
  BY <1>1, <1>5
<1> QED BY <1>3, <1>5, <1>6, <1>7 DEF Ordered, page

\* Entries of the history, and those that one more entry makes of it.
LEMMA MoreHistory ==
  ASSUME NEW list \in Seq(Entry), NEW x \in Entry
  PROVE  ToSet(Append(list, x)) = ToSet(list) \union {x}
<1>1. /\ DOMAIN list = 1..Len(list) /\ Len(list) \in Nat
      /\ DOMAIN Append(list, x) = 1..Len(list) + 1
      /\ Append(list, x)[Len(list) + 1] = x
      /\ \A i \in 1..Len(list) : Append(list, x)[i] = list[i]
  BY LongerByOne
<1> DEFINE longer == Append(list, x)
<1> HIDE DEF longer, Entry
<1>2. \A i \in 1..Len(list) + 1 : i \in 1..Len(list) \/ i = Len(list) + 1
  BY <1>1
<1>3. Len(list) + 1 \in 1..Len(list) + 1 /\ \A i \in 1..Len(list) : i \in 1..Len(list) + 1
  BY <1>1
<1>4. ToSet(longer) = {longer[i] : i \in 1..Len(list) + 1} /\ ToSet(list) = {list[i] : i \in 1..Len(list)}
  BY <1>1 DEF ToSet, longer
<1> QED BY <1>1, <1>2, <1>3, <1>4 DEF longer

\* Each entry of the history has an id of its own, and so has the one in hand.
HistoryInv ==
  /\ OwnIds(ToSet(progress))
  /\ writer # Idle => \A x \in ToSet(progress) : x.id # writer.id

Committed(list) == \A i \in DOMAIN list : list[i] \in ToSet(progress)

UpTo(list, cursor) == \A i \in DOMAIN list : list[i].id <= cursor

\* Received, on the wire and in hand are committed entries, each list in order
\* and above the one before it; the cursor lies between what was sent and what
\* was not.
Feeds(c) ==
  /\ Committed(received[c]) /\ Ordered(received[c])
  /\ Committed(wire[c]) /\ Ordered(wire[c])
  /\ Committed(stream[c].page) /\ Ordered(stream[c].page)
  /\ \A i \in DOMAIN received[c], j \in DOMAIN wire[c] : received[c][i].id < wire[c][j].id
  /\ Connected(c) => /\ UpTo(received[c], stream[c].cursor)
                     /\ UpTo(wire[c], stream[c].cursor)
                     /\ \A i \in DOMAIN stream[c].page :
                          stream[c].page[i].id > stream[c].cursor
  /\ stream[c].pc = "frames" => stream[c].page # <<>>

FeedInv == StreamTypeOK /\ HistoryInv /\ \A c \in Clients : Feeds(c)

LEMMA InitFeeds == StreamInit => FeedInv
<1> SUFFICES ASSUME StreamInit PROVE FeedInv
  OBVIOUS
<1>1. progress = <<>> /\ writer = Idle
  BY DEF StreamInit
<1>2. ToSet(progress) = {}
  BY <1>1 DEF ToSet
<1>3. ASSUME NEW c \in Clients PROVE Feeds(c)
  <2>1. received[c] = <<>> /\ wire[c] = <<>> /\ stream[c].page = <<>> /\ stream[c].pc = "closed"
    BY DEF StreamInit, Closed
  <2> QED BY <2>1 DEF Feeds, Committed, Ordered, UpTo, Connected
<1> QED BY <1>1, <1>2, <1>3, InitStreamTypes DEF FeedInv, HistoryInv, OwnIds

\* A list of committed entries stays one when an entry is put last that is
\* above them all, and when its head is taken.
LEMMA PutLast ==
  ASSUME NEW list \in Seq(Entry), Committed(list), Ordered(list),
         NEW x \in Entry, x \in ToSet(progress), \A i \in DOMAIN list : list[i].id < x.id
  PROVE  /\ Committed(Append(list, x)) /\ Ordered(Append(list, x))
         /\ \A i \in DOMAIN Append(list, x) :
              \/ i \in DOMAIN list /\ Append(list, x)[i] = list[i]
              \/ Append(list, x)[i] = x
<1> DEFINE longer == Append(list, x)
<1>1. /\ DOMAIN list = 1..Len(list) /\ Len(list) \in Nat
      /\ DOMAIN longer = 1..Len(list) + 1
      /\ longer[Len(list) + 1] = x
      /\ \A i \in 1..Len(list) : longer[i] = list[i]
  BY LongerByOne
<1> HIDE DEF longer, Entry
<1>2. ASSUME NEW i \in DOMAIN longer
      PROVE  \/ i \in DOMAIN list /\ longer[i] = list[i]
             \/ i = Len(list) + 1 /\ longer[i] = x
  BY <1>1
<1>3. Committed(longer)
  BY <1>2 DEF Committed
<1>4. ASSUME NEW i \in DOMAIN longer, NEW j \in DOMAIN longer, i < j
      PROVE  longer[i].id < longer[j].id
  <2>1. i \in DOMAIN list /\ longer[i] = list[i]
    BY <1>1, <1>2, <1>4
  <2>2. CASE j \in DOMAIN list
    BY <1>2, <1>1, <1>4, <2>1, <2>2 DEF Ordered
  <2>3. CASE j = Len(list) + 1
    BY <1>1, <2>1, <2>3
  <2> QED BY <1>2, <2>2, <2>3
<1> QED BY <1>2, <1>3, <1>4 DEF Ordered, longer

LEMMA TakeHead ==
  ASSUME NEW list \in Seq(Entry), list # <<>>, Committed(list), Ordered(list)
  PROVE  /\ Head(list) \in Entry /\ Head(list) \in ToSet(progress)
         /\ Tail(list) \in Seq(Entry) /\ Committed(Tail(list)) /\ Ordered(Tail(list))
         /\ 1 \in DOMAIN list /\ Head(list) = list[1]
         /\ \A i \in DOMAIN Tail(list) : /\ Head(list).id < Tail(list)[i].id
                                         /\ i + 1 \in DOMAIN list
                                         /\ Tail(list)[i] = list[i + 1]
<1> DEFINE rest == Tail(list)
<1>1. /\ Head(list) \in Entry /\ Head(list) = list[1]
      /\ rest \in Seq(Entry) /\ Len(list) \in Nat /\ Len(list) > 0
      /\ Len(rest) = Len(list) - 1
      /\ \A i \in 1..Len(list) - 1 : rest[i] = list[i + 1]
  BY HeadAndTail
<1>2. DOMAIN list = 1..Len(list) /\ DOMAIN rest = 1..Len(list) - 1
  <2> HIDE DEF rest, Entry
  <2> QED BY <1>1
<1> HIDE DEF rest, Entry
<1>3. 1 \in DOMAIN list
  BY <1>1, <1>2
<1>4. ASSUME NEW i \in DOMAIN rest PROVE i + 1 \in DOMAIN list /\ rest[i] = list[i + 1] /\ 1 < i + 1
  BY <1>1, <1>2
<1>5. \A i \in DOMAIN rest : list[1].id < rest[i].id
  BY <1>3, <1>4 DEF Ordered
<1>6. Committed(rest)
  BY <1>4 DEF Committed
<1>7. ASSUME NEW i \in DOMAIN rest, NEW j \in DOMAIN rest, i < j PROVE rest[i].id < rest[j].id
  <2>1. i + 1 < j + 1
    BY <1>2, <1>7, <1>1
  <2> QED BY <1>4, <2>1 DEF Ordered
<1> QED BY <1>1, <1>3, <1>4, <1>5, <1>6, <1>7 DEF Ordered, Committed, rest

\* The committed entries above a cursor are finitely many, each with its own id.
LEMMA HistoryAbove ==
  ASSUME StreamTypeOK, HistoryInv, NEW cursor \in Nat,
         NEW above, above = {x \in ToSet(progress) : x.id > cursor}
  PROVE  above \in SUBSET Entry /\ IsFiniteSet(above) /\ OwnIds(above)
<1>1. PICK list \in Seq(Entry) : list = progress
  BY DEF StreamTypeOK
<1>2. /\ list \in Surjection(1..Len(list), ToSet(list)) /\ Len(list) \in Nat
      /\ ToSet(list) \subseteq Entry
  <2>1. list \in [1..Len(list) -> Entry] /\ Len(list) \in Nat /\ DOMAIN list = 1..Len(list)
    <3> HIDE DEF Entry
    <3> QED OBVIOUS
  <2>2. ToSet(list) = {list[i] : i \in 1..Len(list)}
    BY <2>1 DEF ToSet
  <2> HIDE DEF Entry
  <2> QED BY <2>1, <2>2 DEF Surjection
<1>3. IsFiniteSet(ToSet(progress)) /\ ToSet(progress) \subseteq Entry
  <2>1. IsFiniteSet(1..Len(list))
    BY <1>2, FS_Interval
  <2> HIDE DEF Entry
  <2> QED BY <1>1, <1>2, <2>1, FS_Surjection
<1>4. above \in SUBSET ToSet(progress)
  OBVIOUS
<1>5. OwnIds(above)
  BY DEF HistoryInv, OwnIds
<1> HIDE DEF Entry
<1> QED BY <1>3, <1>4, <1>5, FS_Subset

\* The committed entries above a cursor make an ordered page.
LEMMA PageAbove ==
  ASSUME StreamTypeOK, HistoryInv, NEW cursor \in Nat
  PROVE  /\ ProgressSince(cursor) \in Seq(Entry)
         /\ Committed(ProgressSince(cursor)) /\ Ordered(ProgressSince(cursor))
         /\ \A i \in DOMAIN ProgressSince(cursor) : ProgressSince(cursor)[i].id > cursor
<1>1. PICK above : above = {x \in ToSet(progress) : x.id > cursor}
  OBVIOUS
<1>2. above \in SUBSET Entry /\ IsFiniteSet(above) /\ OwnIds(above)
  BY <1>1, HistoryAbove
<1>3. ProgressSince(cursor) = FirstPage(above)
  BY <1>1 DEF ProgressSince
<1>4. \A x \in above : x \in ToSet(progress) /\ x.id > cursor
  BY <1>1
<1> HIDE DEF Entry
<1> QED BY <1>2, <1>3, <1>4, PageIsOrdered DEF Committed

\* What has to be said of the lists a step leaves.
LEMMA FeedsAgain ==
  ASSUME NEW c \in Clients, UNCHANGED progress,
         NEW got, NEW sent, NEW page, NEW cursor, NEW pc,
         received'[c] = got, wire'[c] = sent, stream'[c].page = page,
         stream'[c].cursor = cursor, stream'[c].pc = pc,
         Committed(got), Ordered(got), Committed(sent), Ordered(sent),
         Committed(page), Ordered(page),
         \A i \in DOMAIN got, j \in DOMAIN sent : got[i].id < sent[j].id,
         pc \in {"poll", "frames", "sleep"} =>
           /\ UpTo(got, cursor) /\ UpTo(sent, cursor)
           /\ \A i \in DOMAIN page : page[i].id > cursor,
         pc = "frames" => page # <<>>
  PROVE  Feeds(c)'
BY DEF Feeds, Connected, Committed, Ordered, UpTo

\* A step of the stream or of the client leaves its lists in order.
LEMMA StreamFeeds ==
  ASSUME FeedInv, NEW c \in Clients,
         \/ Streaming(c) \/ ReadFails(c) \/ Connect(c) \/ Receive(c) \/ Lose(c) \/ Reload(c)
  PROVE  StreamTypeOK' /\ Feeds(c)'
<1>1. StreamTypeOK /\ HistoryInv /\ Feeds(c)
  BY DEF FeedInv
<1>2. /\ stream \in [Clients -> [pc : {"closed", "poll", "frames", "sleep", "ended"},
                                 cursor : Nat, page : Seq(Entry)]]
      /\ wire \in [Clients -> Seq(Entry)] /\ received \in [Clients -> Seq(Entry)]
      /\ stream[c].cursor \in Nat /\ stream[c].page \in Seq(Entry)
      /\ wire[c] \in Seq(Entry) /\ received[c] \in Seq(Entry)
  BY <1>1 DEF StreamTypeOK
<1>3. StreamTypeOK'
  <2>1. Poll(c) => Paged(c)
    BY <1>1, <1>2, PageAbove DEF Paged
  <2> QED BY <1>1, <2>1, StreamTypes DEF Feeds
<1> SUFFICES Feeds(c)'
  BY <1>3
<1>4. UNCHANGED progress
  BY DEF Streaming, Poll, Frame, Wake, ReadFails, Connect, Receive, Lose, Reload, recording
<1>5. /\ DOMAIN <<>> = {}
      /\ Committed(<<>>) /\ Ordered(<<>>) /\ \A cursor : UpTo(<<>>, cursor)
  BY DEF Committed, Ordered, UpTo
<1>6. CASE Poll(c)
  <2> DEFINE page == ProgressSince(stream[c].cursor)
  <2>1. /\ stream[c].pc = "poll"
        /\ stream' = [stream EXCEPT ![c].page = page,
                                    ![c].pc = IF page = <<>> THEN "sleep" ELSE "frames"]
        /\ UNCHANGED <<wire, received>>
    BY <1>6 DEF Poll
  <2>2. /\ Committed(page) /\ Ordered(page)
        /\ \A i \in DOMAIN page : page[i].id > stream[c].cursor
    BY <1>1, <1>2, PageAbove
  <2> HIDE DEF page
  <2>3. /\ stream'[c].page = page /\ stream'[c].cursor = stream[c].cursor
        /\ stream'[c].pc = "frames" => page # <<>>
    BY <1>2, <2>1
  <2>4. Connected(c)
    BY <2>1 DEF Connected
  <2>5. received'[c] = received[c] /\ wire'[c] = wire[c]
    BY <2>1
  <2> QED BY <1>1, <1>4, <2>2, <2>3, <2>4, <2>5, FeedsAgain DEF Feeds
<1>7. CASE Frame(c)
  <2> DEFINE entry == Head(stream[c].page) rest == Tail(stream[c].page)
  <2>1. /\ stream[c].pc = "frames" /\ stream[c].page # <<>> /\ Connected(c)
    BY <1>1, <1>7 DEF Frame, Feeds, Connected
  <2>2. /\ stream' = [stream EXCEPT ![c] = [pc |-> After(entry, rest),
                                            cursor |-> entry.id, page |-> rest]]
        /\ wire' = [wire EXCEPT ![c] = Append(@, entry)]
        /\ UNCHANGED received
    BY <1>7 DEF Frame
  <2>3. /\ entry \in Entry /\ entry \in ToSet(progress)
        /\ Committed(rest) /\ Ordered(rest)
        /\ 1 \in DOMAIN stream[c].page /\ entry = stream[c].page[1]
        /\ \A i \in DOMAIN rest : entry.id < rest[i].id
    BY <1>1, <1>2, <2>1, TakeHead DEF Feeds
  <2> HIDE DEF entry, rest
  <2>4. /\ stream'[c].pc = After(entry, rest) /\ stream'[c].cursor = entry.id
        /\ stream'[c].page = rest /\ wire'[c] = Append(wire[c], entry)
        /\ received'[c] = received[c]
    BY <1>2, <2>2
  <2>5. /\ \A i \in DOMAIN received[c] : received[c][i].id < entry.id
        /\ \A i \in DOMAIN wire[c] : wire[c][i].id < entry.id
    <3>1. entry.id > stream[c].cursor /\ entry.id \in Nat
      BY <1>1, <2>1, <2>3 DEF Feeds, Entry
    <3>2. ASSUME NEW list \in Seq(Entry), UpTo(list, stream[c].cursor), NEW i \in DOMAIN list
          PROVE  list[i].id < entry.id
      <4>1. list[i] \in Entry
        <5> HIDE DEF Entry
        <5> QED OBVIOUS
      <4>2. list[i].id \in Nat
        BY <4>1 DEF Entry
      <4> QED BY <1>2, <3>1, <3>2, <4>2 DEF UpTo
    <3> QED BY <1>1, <1>2, <2>1, <3>2 DEF Feeds
  <2> DEFINE longer == Append(wire[c], entry)
  <2>6. /\ Committed(longer) /\ Ordered(longer)
        /\ \A i \in DOMAIN longer :
             \/ i \in DOMAIN wire[c] /\ longer[i] = wire[c][i]
             \/ longer[i] = entry
    BY <1>1, <1>2, <2>3, <2>5, PutLast DEF Feeds
  <2> HIDE DEF longer
  <2>7. wire'[c] = longer
    BY <2>4 DEF longer
  <2>8. \A i \in DOMAIN received[c], j \in DOMAIN longer : received[c][i].id < longer[j].id
    BY <1>1, <2>5, <2>6 DEF Feeds
  <2>9. UpTo(received[c], entry.id) /\ UpTo(longer, entry.id)
    <3>1. entry.id \in Nat
      BY <2>3 DEF Entry
    <3>2. \A i \in DOMAIN received[c] : received[c][i] \in Entry
      <4> HIDE DEF Entry
      <4> QED BY <1>2
    <3>3. \A i \in DOMAIN wire[c] : wire[c][i] \in Entry
      <4> HIDE DEF Entry
      <4> QED BY <1>2
    <3>4. \A x \in Entry : x.id < entry.id => x.id <= entry.id
      BY <3>1 DEF Entry
    <3>5. entry.id <= entry.id
      BY <3>1
    <3> HIDE DEF Entry
    <3>6. UpTo(received[c], entry.id)
      BY <2>5, <3>2, <3>4 DEF UpTo
    <3>7. UpTo(longer, entry.id)
      BY <2>5, <2>6, <3>3, <3>4, <3>5 DEF UpTo
    <3> QED BY <3>6, <3>7
  <2>10. After(entry, rest) = "frames" => rest # <<>>
    BY DEF After
  <2>11. \A i \in DOMAIN rest : rest[i].id > entry.id
    BY <2>3
  <2>12. Committed(received[c]) /\ Ordered(received[c])
    BY <1>1 DEF Feeds
  <2> QED BY <1>4, <2>3, <2>4, <2>6, <2>7, <2>8, <2>9, <2>10, <2>11, <2>12, FeedsAgain
<1>8. CASE Wake(c)
  <2>1. /\ stream'[c].page = stream[c].page /\ stream'[c].cursor = stream[c].cursor
        /\ stream'[c].pc = "poll" /\ Connected(c)
        /\ wire'[c] = wire[c] /\ received'[c] = received[c]
    BY <1>2, <1>8 DEF Wake, Connected
  <2> QED BY <1>1, <1>4, <2>1, FeedsAgain DEF Feeds
<1>9. ASSUME stream'[c] = Closed, UNCHANGED received, wire'[c] \in {wire[c], <<>>}
      PROVE  Feeds(c)'
  <2>1. stream'[c].pc = "closed" /\ stream'[c].page = <<>> /\ stream'[c].cursor = 0
    BY <1>9 DEF Closed
  <2>2. received'[c] = received[c]
    BY <1>9
  <2>3. CASE wire'[c] = wire[c]
    BY <1>1, <1>4, <1>5, <2>1, <2>2, <2>3, FeedsAgain DEF Feeds
  <2>4. CASE wire'[c] = <<>>
    BY <1>1, <1>4, <1>5, <2>1, <2>2, <2>4, FeedsAgain DEF Feeds
  <2> QED BY <1>9, <2>3, <2>4
<1>10. CASE ReadFails(c) \/ Lose(c)
  <2>1. CASE ReadFails(c)
    BY <1>2, <1>9, <2>1 DEF ReadFails
  <2>2. CASE Lose(c)
    BY <1>2, <1>9, <2>2 DEF Lose
  <2> QED BY <1>10, <2>1, <2>2
<1>11. CASE Connect(c)
  <2>1. /\ stream'[c] = [pc |-> "poll", cursor |-> LastEventId(c), page |-> <<>>]
        /\ wire[c] = <<>> /\ UNCHANGED <<wire, received>>
    BY <1>2, <1>11 DEF Connect
  <2>2. stream'[c].pc = "poll" /\ stream'[c].cursor = LastEventId(c) /\ stream'[c].page = <<>>
    BY <2>1
  <2>3. UpTo(received[c], LastEventId(c))
    <3> SUFFICES ASSUME NEW i \in DOMAIN received[c] PROVE received[c][i].id <= LastEventId(c)
      BY DEF UpTo
    <3>1. PICK list \in Seq(Entry) : list = received[c]
      BY <1>2
    <3>2. /\ i \in 1..Len(list) /\ Len(list) \in Nat /\ Len(list) \in DOMAIN list
          /\ list # <<>> /\ list[i] \in Entry /\ DOMAIN list = 1..Len(list)
      <4> HIDE DEF Entry
      <4> QED BY <3>1
    <3>3. LastEventId(c) = list[Len(list)].id
      BY <3>1, <3>2 DEF LastEventId, Last
    <3>4. list[i].id \in Nat
      BY <3>2 DEF Entry
    <3>5. i < Len(list) \/ i = Len(list)
      BY <3>2
    <3>6. list[Len(list)] \in Entry
      <4> HIDE DEF Entry
      <4> QED BY <3>2
    <3>7. list[Len(list)].id \in Nat
      BY <3>6 DEF Entry
    <3>8. i < Len(list) => list[i].id < list[Len(list)].id
      BY <1>1, <3>1, <3>2 DEF Feeds, Ordered
    <3> QED BY <3>1, <3>3, <3>4, <3>5, <3>7, <3>8
  <2>4. wire'[c] = <<>> /\ received'[c] = received[c]
    BY <2>1
  <2> QED BY <1>1, <1>4, <1>5, <2>2, <2>3, <2>4, FeedsAgain DEF Feeds
<1>12. CASE Receive(c)
  <2> DEFINE x == Head(wire[c]) rest == Tail(wire[c]) longer == Append(received[c], x)
  <2>1. /\ wire[c] # <<>> /\ UNCHANGED stream
        /\ received'[c] = longer /\ wire'[c] = rest
    BY <1>2, <1>12 DEF Receive
  <2>2. /\ x \in Entry /\ x \in ToSet(progress)
        /\ Committed(rest) /\ Ordered(rest)
        /\ 1 \in DOMAIN wire[c] /\ x = wire[c][1]
        /\ \A i \in DOMAIN rest : /\ x.id < rest[i].id
                                  /\ i + 1 \in DOMAIN wire[c] /\ rest[i] = wire[c][i + 1]
    BY <1>1, <1>2, <2>1, TakeHead DEF Feeds
  <2> HIDE DEF x, rest
  <2>3. \A i \in DOMAIN received[c] : received[c][i].id < x.id
    BY <1>1, <2>2 DEF Feeds
  <2>4. /\ Committed(longer) /\ Ordered(longer)
        /\ \A i \in DOMAIN longer :
             \/ i \in DOMAIN received[c] /\ longer[i] = received[c][i]
             \/ longer[i] = x
    BY <1>1, <1>2, <2>2, <2>3, PutLast DEF Feeds
  <2> HIDE DEF longer
  <2>5. \A i \in DOMAIN longer, j \in DOMAIN rest : longer[i].id < rest[j].id
    BY <1>1, <2>2, <2>4 DEF Feeds
  <2>6. Connected(c) => /\ UpTo(longer, stream[c].cursor) /\ UpTo(rest, stream[c].cursor)
    BY <1>1, <2>2, <2>4 DEF Feeds, UpTo
  <2>7. /\ Committed(stream[c].page) /\ Ordered(stream[c].page)
        /\ stream[c].pc = "frames" => stream[c].page # <<>>
        /\ Connected(c) => \A i \in DOMAIN stream[c].page :
                             stream[c].page[i].id > stream[c].cursor
    BY <1>1 DEF Feeds
  <2>8. /\ stream'[c].page = stream[c].page /\ stream'[c].cursor = stream[c].cursor
        /\ stream'[c].pc = stream[c].pc
    BY <2>1
  <2> QED BY <1>4, <2>1, <2>2, <2>4, <2>5, <2>6, <2>7, <2>8, FeedsAgain DEF Connected
<1>13. CASE Reload(c)
  <2>1. /\ stream'[c].pc = "poll" /\ stream'[c].page = <<>>
        /\ wire'[c] = <<>> /\ received'[c] = <<>>
    BY <1>2, <1>13 DEF Reload, Closed
  <2> QED BY <1>4, <1>5, <2>1, FeedsAgain
<1> QED
  BY <1>6, <1>7, <1>8, <1>10, <1>11, <1>12, <1>13 DEF Streaming

\* A step of one client's is none of another's.
LEMMA OtherClients ==
  ASSUME StreamTypeOK, NEW c \in Clients, NEW b \in Clients, b # c,
         \/ Streaming(c) \/ ReadFails(c) \/ Connect(c) \/ Receive(c) \/ Lose(c) \/ Reload(c)
  PROVE  UNCHANGED <<stream[b], wire[b], received[b]>>
<1>1. ASSUME Streaming(c) PROVE UNCHANGED <<stream[b], wire[b], received[b]>>
  BY <1>1 DEF Streaming, Poll, Frame, Wake, StreamTypeOK
<1>2. ASSUME ReadFails(c) \/ Connect(c) PROVE UNCHANGED <<stream[b], wire[b], received[b]>>
  BY <1>2 DEF ReadFails, Connect, StreamTypeOK
<1>3. ASSUME Receive(c) \/ Lose(c) \/ Reload(c)
      PROVE  UNCHANGED <<stream[b], wire[b], received[b]>>
  BY <1>3 DEF Receive, Lose, Reload, StreamTypeOK
<1> QED BY <1>1, <1>2, <1>3

\* A client whose lists are left alone keeps them in order as the history grows.
LEMMA StillFeeds ==
  ASSUME NEW c \in Clients, Feeds(c), ToSet(progress) \subseteq ToSet(progress'),
         stream'[c] = stream[c], wire'[c] = wire[c], received'[c] = received[c]
  PROVE  Feeds(c)'
BY DEF Feeds, Connected, Committed, Ordered, UpTo

LEMMA RecordingFeeds ==
  ASSUME FeedInv,
         \/ Tick \/ Commit \/ Rollback
         \/ \E e \in Edges, s \in Lifecycle!Status : \E id \in NowV7(e) : Record(e, s, id)
  PROVE  FeedInv'
<1>1. StreamTypeOK' /\ HistoryInv /\ progress \in Seq(Entry)
  BY RecordTypes DEF FeedInv, StreamTypeOK
<1>2. UNCHANGED following
  BY DEF Tick, Commit, Rollback, Record
<1>3. CASE Tick \/ Rollback
  <2>1. UNCHANGED progress /\ (writer' = writer \/ writer' = Idle)
    BY <1>3 DEF Tick, Rollback, recording
  <2>2. HistoryInv'
    BY <1>1, <2>1 DEF HistoryInv
  <2> QED BY <1>1, <1>2, <2>1, <2>2, StillFeeds DEF FeedInv, following
<1>4. CASE Commit
  <2>1. PICK x \in Entry : x = [id |-> writer.id, status |-> writer.status]
    BY DEF FeedInv, StreamTypeOK, Entry
  <2>2. /\ progress' = Append(progress, x) /\ writer' = Idle /\ writer # Idle
        /\ x.id = writer.id
    BY <1>4, <2>1 DEF Commit
  <2>3. ToSet(progress') = ToSet(progress) \union {x}
    BY <1>1, <2>2, MoreHistory
  <2>4. HistoryInv'
    BY <1>1, <2>2, <2>3 DEF HistoryInv, OwnIds
  <2> QED BY <1>1, <1>2, <2>3, <2>4, StillFeeds DEF FeedInv, following
<1>5. ASSUME NEW e \in Edges, NEW s \in Lifecycle!Status, NEW id \in NowV7(e), Record(e, s, id)
      PROVE  FeedInv'
  <2>1. /\ \A i \in DOMAIN progress : progress[i].id # id
        /\ writer'.id = id /\ UNCHANGED progress
    BY <1>5 DEF NowV7, Record
  <2>2. \A x \in ToSet(progress) : x.id # id
    BY <2>1 DEF ToSet
  <2>3. HistoryInv'
    BY <1>1, <2>1, <2>2 DEF HistoryInv
  <2> QED BY <1>1, <1>2, <2>1, <2>3, StillFeeds DEF FeedInv, following
<1> QED BY <1>3, <1>4, <1>5

LEMMA NextFeeds == FeedInv /\ [StreamNext]_streamVars => FeedInv'
<1> SUFFICES ASSUME FeedInv, [StreamNext]_streamVars PROVE FeedInv'
  OBVIOUS
<1>1. ASSUME NEW c \in Clients,
             \/ Streaming(c) \/ ReadFails(c) \/ Connect(c) \/ Receive(c) \/ Lose(c) \/ Reload(c)
      PROVE  FeedInv'
  <2>1. StreamTypeOK' /\ Feeds(c)'
    BY <1>1, StreamFeeds
  <2>2. UNCHANGED recording
    BY <1>1 DEF Streaming, Poll, Frame, Wake, ReadFails, Connect, Receive, Lose, Reload
  <2>3. HistoryInv' /\ ToSet(progress) \subseteq ToSet(progress')
    BY <2>2 DEF FeedInv, HistoryInv, recording
  <2>4. ASSUME NEW b \in Clients, b # c PROVE Feeds(b)'
    <3>1. stream'[b] = stream[b] /\ wire'[b] = wire[b] /\ received'[b] = received[b]
      BY <1>1, <2>4, OtherClients DEF FeedInv
    <3> QED BY <2>3, <3>1, StillFeeds DEF FeedInv
  <2> QED BY <2>1, <2>3, <2>4 DEF FeedInv
<1>2. ASSUME UNCHANGED streamVars PROVE FeedInv'
  <2>1. UNCHANGED <<progress, writer, stream, wire, received>> /\ StreamTypeOK'
    BY <1>2 DEF streamVars, recording, following, FeedInv, StreamTypeOK
  <2> QED BY <2>1, StillFeeds DEF FeedInv, HistoryInv
<1> QED BY <1>1, <1>2, RecordingFeeds DEF StreamNext

\* The streams' variables stay of their kind, for any processes, clients, page
\* size and faults (crate public-api, stream.rs).
THEOREM StreamTypeCorrect == StreamSpec => []StreamTypeOK
<1>1. FeedInv => StreamTypeOK
  BY DEF FeedInv
<1> QED BY <1>1, InitFeeds, NextFeeds, PTL DEF StreamSpec

\* However many processes record, and whatever order their ids are committed
\* in, a client is never sent an entry twice, one that was rolled back, or one
\* below what it has (stream.rs, `progress_since').
THEOREM NothingEverTwice == StreamSpec => []NothingTwice
<1>1. FeedInv => NothingTwice
  <2> SUFFICES ASSUME FeedInv, NEW c \in Clients
               PROVE  /\ ToSet(received[c]) \subseteq ToSet(progress)
                      /\ Ordered(received[c])
    BY DEF NothingTwice, Ordered
  <2> QED BY DEF FeedInv, Feeds, Committed, ToSet
<1> QED BY <1>1, InitFeeds, NextFeeds, PTL DEF StreamSpec

-----------------------------------------------------------------------------
(* Whoever records: below what a client holds there is no gap              *)

\* A page has every entry there was below one of its own.
LEMMA PageIsComplete ==
  ASSUME NEW entries \in SUBSET Entry, IsFiniteSet(entries), OwnIds(entries),
         NEW i \in DOMAIN FirstPage(entries), NEW e \in entries,
         e.id <= FirstPage(entries)[i].id
  PROVE  e \in ToSet(FirstPage(entries))
<1> DEFINE Before(f) == {x \in entries : x.id < f.id}
           size == Cardinality(entries)
           most == IF size < Page THEN size ELSE Page
           page == FirstPage(entries)
<1>1. size \in Nat /\ most \in Nat /\ most <= size
  BY FS_CardinalityType, StreamAssumption
<1>2. page = [k \in 1..most |-> CHOOSE f \in entries : Cardinality(Before(f)) = k - 1]
  BY DEF FirstPage
<1>3. ASSUME NEW k \in 1..most
      PROVE  page[k] \in entries /\ Cardinality(Before(page[k])) = k - 1
  <2>1. k - 1 \in 0 .. size - 1
    BY <1>1
  <2>2. \E f \in entries : Cardinality(Before(f)) = k - 1
    BY <2>1, EveryPlaceIsTaken
  <2>3. page[k] = CHOOSE f \in entries : Cardinality(Before(f)) = k - 1
    BY <1>2
  <2> HIDE DEF page, Before
  <2> QED BY <2>2, <2>3
<1>4. ASSUME NEW f \in entries, NEW g \in entries, f.id <= g.id
      PROVE  /\ Cardinality(Before(f)) \in Nat
             /\ Cardinality(Before(f)) <= Cardinality(Before(g))
  <2>1. f.id \in Nat /\ g.id \in Nat /\ \A x \in entries : x.id \in Nat
    BY DEF Entry
  <2>2. Before(f) \in SUBSET Before(g) /\ Before(g) \in SUBSET entries
    BY <1>4, <2>1
  <2> HIDE DEF Before
  <2> QED BY <2>2, FS_Subset, FS_CardinalityType
<1>5. ASSUME NEW f \in entries, NEW g \in entries, f.id < g.id
      PROVE  Cardinality(Before(f)) < Cardinality(Before(g))
  <2>1. f.id \in Nat /\ g.id \in Nat /\ \A x \in entries : x.id \in Nat
    BY DEF Entry
  <2>2. Before(f) \in SUBSET Before(g) /\ Before(g) \in SUBSET entries
        /\ f \in Before(g) /\ f \notin Before(f)
    BY <1>5, <2>1
  <2> HIDE DEF Before
  <2>3. IsFiniteSet(Before(g)) /\ IsFiniteSet(Before(f))
    BY <2>2, FS_Subset
  <2>4. /\ Cardinality(Before(f)) <= Cardinality(Before(g))
        /\ Cardinality(Before(f)) = Cardinality(Before(g)) => Before(f) = Before(g)
    BY <2>2, <2>3, FS_Subset
  <2> QED BY <2>2, <2>3, <2>4, FS_CardinalityType
<1> HIDE DEF page, most, size, Before
<1>6. DOMAIN page = 1..most
  BY <1>2
<1>7. PICK k \in 1..most : k = Cardinality(Before(e)) + 1
  <2>1. i \in 1..most /\ e.id <= page[i].id
    BY <1>6 DEF page
  <2>2. Cardinality(Before(e)) \in Nat /\ Cardinality(Before(e)) <= i - 1
    BY <1>3, <1>4, <2>1
  <2> QED BY <1>1, <2>1, <2>2
<1>8. page[k] \in entries /\ Cardinality(Before(page[k])) = Cardinality(Before(e))
  <2>1. Cardinality(Before(page[k])) = k - 1
    BY <1>3
  <2>2. Cardinality(Before(e)) \in Nat
    <3>1. e.id <= e.id
      BY DEF Entry
    <3> QED BY <1>4, <3>1
  <2> QED BY <1>3, <1>7, <2>1, <2>2
<1>9. page[k] = e
  <2>1. page[k].id \in Nat /\ e.id \in Nat
    BY <1>8 DEF Entry
  <2>2. Cardinality(Before(e)) \in Nat
    <3>1. e.id <= e.id
      BY <2>1
    <3> QED BY <1>4, <3>1
  <2>3. ~ (page[k].id < e.id) /\ ~ (e.id < page[k].id)
    BY <1>5, <1>8, <2>2
  <2> QED BY <1>8, <2>1, <2>3 DEF OwnIds
<1> QED BY <1>6, <1>9 DEF ToSet, page

\* The committed entries that were not overtaken: whoever reads past one of
\* them after it was committed has read it.
InTurn == {progress[i] : i \in {j \in DOMAIN progress : ~Overtaken(j)}}

Below(n) == {x \in InTurn : x.id <= n}

\* What was sent to a client holds all that lies below any of it; so does what
\* the stream has in hand, from its cursor on.  An id in use is one of the
\* history.
Gapless(c) ==
  /\ \A x \in ToSet(received[c]) : Below(x.id) \subseteq ToSet(received[c])
  /\ \A x \in ToSet(wire[c]) :
       Below(x.id) \subseteq ToSet(received[c]) \union ToSet(wire[c])
  /\ Connected(c) =>
       /\ Below(stream[c].cursor) \subseteq ToSet(received[c]) \union ToSet(wire[c])
       /\ stream[c].cursor = 0 \/ \E x \in ToSet(progress) : x.id = stream[c].cursor
  /\ stream[c].pc = "frames" => \A x \in ToSet(stream[c].page) :
       {y \in Below(x.id) : y.id > stream[c].cursor} \subseteq ToSet(stream[c].page)

\* Ids are counted from 1.
Counted ==
  /\ \A x \in ToSet(progress) : x.id > 0
  /\ writer # Idle => writer.id > 0

GaplessInv == FeedInv /\ Counted /\ \A c \in Clients : Gapless(c)

LEMMA InTurnIsCommitted == InTurn \subseteq ToSet(progress)
BY DEF InTurn, ToSet

\* What has to be said of the lists a step leaves.
LEMMA GaplessAgain ==
  ASSUME NEW c \in Clients, UNCHANGED progress,
         NEW got, NEW sent, NEW page, NEW cursor, NEW pc,
         received'[c] = got, wire'[c] = sent, stream'[c].page = page,
         stream'[c].cursor = cursor, stream'[c].pc = pc,
         \A x \in ToSet(got) : Below(x.id) \subseteq ToSet(got),
         \A x \in ToSet(sent) : Below(x.id) \subseteq ToSet(got) \union ToSet(sent),
         pc \in {"poll", "frames", "sleep"} =>
           /\ Below(cursor) \subseteq ToSet(got) \union ToSet(sent)
           /\ cursor = 0 \/ \E x \in ToSet(progress) : x.id = cursor,
         pc = "frames" => \A x \in ToSet(page) :
           {y \in Below(x.id) : y.id > cursor} \subseteq ToSet(page)
  PROVE  Gapless(c)'
<1>1. InTurn' = InTurn
  BY DEF InTurn, Overtaken
<1>2. \A n : Below(n)' = Below(n)
  BY <1>1 DEF Below
<1> QED BY <1>2 DEF Gapless, Connected

\* A list in order: its head, and what is above it.
LEMMA HeadIsLeast ==
  ASSUME NEW list \in Seq(Entry), list # <<>>, Committed(list), Ordered(list)
  PROVE  /\ ToSet(list) = {Head(list)} \union ToSet(Tail(list))
         /\ \A x \in ToSet(Tail(list)) : Head(list).id < x.id
         /\ \A x \in ToSet(list) : x.id <= Head(list).id => x = Head(list)
<1> DEFINE rest == Tail(list)
<1>1. /\ Head(list) \in Entry /\ Head(list) = list[1]
      /\ Len(list) \in Nat /\ Len(list) > 0
      /\ Len(rest) = Len(list) - 1 /\ rest \in Seq(Entry)
      /\ \A i \in 1..Len(list) - 1 : rest[i] = list[i + 1]
  BY HeadAndTail
<1>2. \A i \in DOMAIN rest : Head(list).id < rest[i].id
  BY TakeHead
<1>3. DOMAIN list = 1..Len(list) /\ DOMAIN rest = 1..Len(list) - 1
  <2> HIDE DEF rest, Entry
  <2> QED BY <1>1
<1> HIDE DEF rest
<1>4. \A i \in 1..Len(list) : i = 1 \/ (i - 1 \in 1..Len(list) - 1 /\ i - 1 + 1 = i)
  BY <1>1
<1>5. \A i \in 1..Len(list) - 1 : i + 1 \in 1..Len(list)
  BY <1>1
<1>6. 1 \in 1..Len(list)
  BY <1>1
<1>7. ToSet(list) = {list[i] : i \in 1..Len(list)} /\ ToSet(rest) = {rest[i] : i \in 1..Len(list) - 1}
  BY <1>3 DEF ToSet
<1>8. ToSet(list) = {Head(list)} \union ToSet(rest)
  <2>1. ASSUME NEW x \in ToSet(list) PROVE x \in {Head(list)} \union ToSet(rest)
    <3>1. PICK i \in 1..Len(list) : x = list[i]
      BY <1>7
    <3>2. CASE i = 1
      BY <1>1, <3>1, <3>2
    <3>3. CASE i # 1
      <4>1. i - 1 \in 1..Len(list) - 1 /\ rest[i - 1] = list[i]
        BY <1>1, <1>4, <3>3
      <4> QED BY <1>7, <3>1, <4>1
    <3> QED BY <3>2, <3>3
  <2>2. Head(list) \in ToSet(list)
    BY <1>1, <1>6, <1>7
  <2>3. ToSet(rest) \subseteq ToSet(list)
    BY <1>1, <1>5, <1>7
  <2> QED BY <2>1, <2>2, <2>3
<1>9. \A x \in ToSet(rest) : Head(list).id < x.id
  BY <1>2, <1>3, <1>7
<1>10. \A x \in ToSet(list) : x.id <= Head(list).id => x = Head(list)
  <2> SUFFICES ASSUME NEW x \in ToSet(rest), x.id <= Head(list).id PROVE FALSE
    BY <1>8
  <2>1. x.id \in Nat /\ Head(list).id \in Nat
    <3>1. PICK i \in 1..Len(list) - 1 : x = rest[i]
      BY <1>7
    <3>2. i + 1 \in 1..Len(list) /\ x = list[i + 1]
      BY <1>1, <1>5, <3>1
    <3>3. x \in Entry
      <4> HIDE DEF Entry
      <4> QED BY <1>3, <3>2
    <3> QED BY <1>1, <3>3 DEF Entry
  <2> QED BY <1>9, <2>1
<1> QED BY <1>8, <1>9, <1>10 DEF rest

LEMMA InitGapless == StreamInit => GaplessInv
<1> SUFFICES ASSUME StreamInit PROVE GaplessInv
  OBVIOUS
<1>1. progress = <<>> /\ writer = Idle /\ ToSet(<<>>) = {}
  BY DEF StreamInit, ToSet
<1>2. ASSUME NEW c \in Clients PROVE Gapless(c)
  <2>1. received[c] = <<>> /\ wire[c] = <<>> /\ stream[c].pc = "closed"
    BY DEF StreamInit, Closed
  <2> QED BY <1>1, <2>1 DEF Gapless, Connected
<1> QED BY <1>1, <1>2, InitFeeds DEF GaplessInv, Counted

\* Nothing lies below the first id.
LEMMA NothingBelowZero == ASSUME StreamTypeOK, Counted PROVE Below(0) = {}
<1> SUFFICES ASSUME NEW x \in Below(0) PROVE FALSE
  OBVIOUS
<1>1. x \in ToSet(progress) /\ x.id <= 0
  BY InTurnIsCommitted DEF Below
<1>2. PICK list \in Seq(Entry) : list = progress
  BY DEF StreamTypeOK
<1>3. x \in Entry
  <2> HIDE DEF Entry
  <2> QED BY <1>1, <1>2 DEF ToSet
<1> QED BY <1>1, <1>3 DEF Counted, Entry
LEMMA StreamGapless ==
  ASSUME GaplessInv, NEW c \in Clients,
         \/ Streaming(c) \/ ReadFails(c) \/ Connect(c) \/ Receive(c) \/ Lose(c) \/ Reload(c)
  PROVE  Gapless(c)'
<1>1. StreamTypeOK /\ HistoryInv /\ Feeds(c) /\ Gapless(c) /\ Counted
  BY DEF GaplessInv, FeedInv
<1>2. /\ stream \in [Clients -> [pc : {"closed", "poll", "frames", "sleep", "ended"},
                                 cursor : Nat, page : Seq(Entry)]]
      /\ wire \in [Clients -> Seq(Entry)] /\ received \in [Clients -> Seq(Entry)]
      /\ stream[c].cursor \in Nat /\ stream[c].page \in Seq(Entry)
      /\ wire[c] \in Seq(Entry) /\ received[c] \in Seq(Entry)
  BY <1>1 DEF StreamTypeOK
<1>3. UNCHANGED progress
  BY DEF Streaming, Poll, Frame, Wake, ReadFails, Connect, Receive, Lose, Reload, recording
<1>4. ToSet(<<>>) = {} /\ Below(0) = {}
  BY <1>1, NothingBelowZero DEF ToSet
<1>5. CASE Poll(c)
  <2> DEFINE page == ProgressSince(stream[c].cursor)
  <2>1. /\ stream[c].pc = "poll" /\ stream'[c].page = page
        /\ stream'[c].cursor = stream[c].cursor
        /\ wire'[c] = wire[c] /\ received'[c] = received[c]
    BY <1>2, <1>5 DEF Poll
  <2>2. ASSUME NEW x \in ToSet(page), NEW y \in Below(x.id), y.id > stream[c].cursor
        PROVE  y \in ToSet(page)
    <3>1. PICK above : above = {z \in ToSet(progress) : z.id > stream[c].cursor}
      OBVIOUS
    <3>2. above \in SUBSET Entry /\ IsFiniteSet(above) /\ OwnIds(above)
      BY <1>1, <1>2, <3>1, HistoryAbove
    <3>3. page = FirstPage(above)
      BY <3>1 DEF ProgressSince
    <3>4. y \in above /\ y.id <= x.id
      BY <2>2, <3>1, InTurnIsCommitted DEF Below
    <3>5. PICK i \in DOMAIN page : x = page[i]
      BY <2>2 DEF ToSet
    <3> HIDE DEF page, Entry
    <3> QED BY <3>2, <3>3, <3>4, <3>5, PageIsComplete
  <2> HIDE DEF page
  <2>3. Connected(c)
    BY <2>1 DEF Connected
  <2> QED BY <1>1, <1>3, <2>1, <2>2, <2>3, GaplessAgain DEF Gapless
<1>6. CASE Frame(c)
  <2> DEFINE entry == Head(stream[c].page) rest == Tail(stream[c].page)
  <2>1. stream[c].pc = "frames" /\ stream[c].page # <<>> /\ Connected(c)
    BY <1>1, <1>6 DEF Frame, Feeds, Connected
  <2>2. /\ stream'[c].pc = After(entry, rest) /\ stream'[c].cursor = entry.id
        /\ stream'[c].page = rest /\ wire'[c] = Append(wire[c], entry)
        /\ received'[c] = received[c]
    BY <1>2, <1>6 DEF Frame
  <2>3. /\ entry \in Entry /\ entry \in ToSet(progress)
        /\ 1 \in DOMAIN stream[c].page /\ entry = stream[c].page[1]
    BY <1>1, <1>2, <2>1, TakeHead DEF Feeds
  <2>4. /\ ToSet(stream[c].page) = {entry} \union ToSet(rest)
        /\ \A x \in ToSet(rest) : entry.id < x.id
        /\ \A x \in ToSet(stream[c].page) : x.id <= entry.id => x = entry
    BY <1>1, <1>2, <2>1, HeadIsLeast DEF Feeds
  <2> HIDE DEF entry, rest
  <2>5. PICK sent : sent = wire'[c] /\ ToSet(sent) = ToSet(wire[c]) \union {entry}
    BY <1>2, <2>2, <2>3, MoreHistory
  <2>6. entry.id > stream[c].cursor
    BY <1>1, <2>1, <2>3 DEF Feeds
  <2>7. \A y \in InTurn : y.id \in Nat
    <3>1. InTurn \subseteq ToSet(progress) /\ progress \in Seq(Entry)
      BY <1>1, InTurnIsCommitted DEF StreamTypeOK
    <3>2. ToSet(progress) \subseteq Entry
      <4> HIDE DEF Entry
      <4> QED BY <3>1 DEF ToSet
    <3> QED BY <3>1, <3>2 DEF Entry
  <2>8. ASSUME NEW y \in Below(entry.id)
        PROVE  y \in ToSet(received[c]) \union ToSet(sent)
    <3>1. y \in InTurn /\ y.id <= entry.id /\ y.id \in Nat
      BY <2>7 DEF Below
    <3>2. CASE y.id <= stream[c].cursor
      BY <1>1, <2>1, <2>5, <3>1, <3>2 DEF Gapless, Below
    <3>3. CASE y.id > stream[c].cursor
      <4>1. y \in ToSet(stream[c].page)
        BY <1>1, <2>1, <2>4, <3>3 DEF Gapless
      <4> QED BY <2>4, <2>5, <3>1, <4>1
    <3> QED BY <1>2, <3>1, <3>2, <3>3
  <2>9. \A x \in ToSet(sent) : Below(x.id) \subseteq ToSet(received[c]) \union ToSet(sent)
    BY <1>1, <2>5, <2>8 DEF Gapless
  <2>10. ASSUME NEW x \in ToSet(rest), NEW y \in Below(x.id), y.id > entry.id
         PROVE  y \in ToSet(rest)
    <3>1. y \in InTurn /\ y.id \in Nat
      BY <2>7 DEF Below
    <3>2. entry.id \in Nat
      BY <2>3 DEF Entry
    <3>3. y.id > stream[c].cursor /\ y # entry
      BY <1>2, <2>6, <2>10, <3>1, <3>2
    <3> QED BY <1>1, <2>1, <2>4, <3>3 DEF Gapless
  <2>11. \A x \in ToSet(received[c]) : Below(x.id) \subseteq ToSet(received[c])
    BY <1>1 DEF Gapless
  <2>12. Below(entry.id) \subseteq ToSet(received[c]) \union ToSet(sent)
    BY <2>8
  <2>13. \A x \in ToSet(rest) : {y \in Below(x.id) : y.id > entry.id} \subseteq ToSet(rest)
    BY <2>10
  <2>14. PICK pc : stream'[c].pc = pc
    OBVIOUS
  <2>15. /\ received'[c] = received[c] /\ wire'[c] = sent
         /\ stream'[c].page = rest /\ stream'[c].cursor = entry.id
    BY <2>2, <2>5
  <2>16. \E x \in ToSet(progress) : x.id = entry.id
    BY <2>3
  <2> HIDE DEF Below
  <2> QED BY <1>3, <2>9, <2>11, <2>12, <2>13, <2>14, <2>15, <2>16, GaplessAgain
<1>7. CASE Wake(c)
  <2>1. /\ stream'[c].page = stream[c].page /\ stream'[c].cursor = stream[c].cursor
        /\ stream'[c].pc = "poll" /\ Connected(c)
        /\ wire'[c] = wire[c] /\ received'[c] = received[c]
    BY <1>2, <1>7 DEF Wake, Connected
  <2> QED BY <1>1, <1>3, <2>1, GaplessAgain DEF Gapless
<1>8. ASSUME stream'[c] = Closed, received'[c] = received[c], wire'[c] \in {wire[c], <<>>}
      PROVE  Gapless(c)'
  <2>1. stream'[c].pc = "closed"
    BY <1>8 DEF Closed
  <2>2. /\ \A x \in ToSet(received[c]) : Below(x.id) \subseteq ToSet(received[c])
        /\ \A x \in ToSet(wire'[c]) :
             Below(x.id) \subseteq ToSet(received[c]) \union ToSet(wire'[c])
    BY <1>1, <1>4, <1>8 DEF Gapless
  <2> QED BY <1>3, <1>8, <2>1, <2>2, GaplessAgain
<1>9. CASE ReadFails(c) \/ Lose(c)
  <2>1. CASE ReadFails(c)
    BY <1>2, <1>8, <2>1 DEF ReadFails
  <2>2. CASE Lose(c)
    BY <1>2, <1>8, <2>2 DEF Lose
  <2> QED BY <1>9, <2>1, <2>2
<1>10. CASE Connect(c)
  <2>1. /\ stream'[c] = [pc |-> "poll", cursor |-> LastEventId(c), page |-> <<>>]
        /\ wire[c] = <<>> /\ wire'[c] = <<>> /\ received'[c] = received[c]
    BY <1>2, <1>10 DEF Connect
  <2>2. stream'[c].pc = "poll" /\ stream'[c].cursor = LastEventId(c)
    BY <2>1
  <2>3. /\ Below(LastEventId(c)) \subseteq ToSet(received[c])
        /\ LastEventId(c) = 0 \/ \E x \in ToSet(progress) : x.id = LastEventId(c)
    <3>1. CASE received[c] = <<>>
      BY <1>4, <3>1 DEF LastEventId
    <3>2. CASE received[c] # <<>>
      <4>1. PICK list \in Seq(Entry) : list = received[c] /\ list # <<>>
        BY <1>2, <3>2
      <4>2. Len(list) \in DOMAIN list
        <5> HIDE DEF Entry
        <5> QED BY <4>1
      <4>3. list[Len(list)] \in ToSet(list) /\ list[Len(list)] \in ToSet(progress)
        BY <1>1, <4>1, <4>2 DEF Feeds, Committed, ToSet
      <4>4. LastEventId(c) = list[Len(list)].id
        BY <4>1 DEF LastEventId, Last
      <4> QED BY <1>1, <4>1, <4>3, <4>4 DEF Gapless
    <3> QED BY <3>1, <3>2
  <2>4. \A x \in ToSet(received[c]) : Below(x.id) \subseteq ToSet(received[c])
    BY <1>1 DEF Gapless
  <2> QED BY <1>3, <1>4, <2>1, <2>2, <2>3, <2>4, GaplessAgain
<1>11. CASE Receive(c)
  <2> DEFINE x == Head(wire[c]) rest == Tail(wire[c])
  <2>1. /\ wire[c] # <<>> /\ UNCHANGED stream
        /\ received'[c] = Append(received[c], x) /\ wire'[c] = rest
    BY <1>2, <1>11 DEF Receive
  <2>2. x \in Entry
    BY <1>2, <2>1, HeadAndTail
  <2>3. /\ ToSet(wire[c]) = {x} \union ToSet(rest)
        /\ \A y \in ToSet(wire[c]) : y.id <= x.id => y = x
    BY <1>1, <1>2, <2>1, HeadIsLeast DEF Feeds
  <2> HIDE DEF x, rest
  <2>4. PICK got : got = received'[c] /\ ToSet(got) = ToSet(received[c]) \union {x}
    BY <1>2, <2>1, <2>2, MoreHistory
  <2>5. Below(x.id) \subseteq ToSet(received[c]) \union {x}
    <3> SUFFICES ASSUME NEW y \in Below(x.id), y \notin ToSet(received[c]) PROVE y = x
      OBVIOUS
    <3>1. y \in ToSet(wire[c])
      BY <1>1, <2>3 DEF Gapless
    <3> QED BY <2>3, <3>1 DEF Below
  <2>6. \A z \in ToSet(got) : Below(z.id) \subseteq ToSet(got)
    BY <1>1, <2>4, <2>5 DEF Gapless
  <2>7. ToSet(got) \union ToSet(rest) = ToSet(received[c]) \union ToSet(wire[c])
    BY <2>3, <2>4
  <2>8. \A z \in ToSet(rest) : Below(z.id) \subseteq ToSet(got) \union ToSet(rest)
    BY <1>1, <2>3, <2>7 DEF Gapless
  <2>9. stream'[c].pc = stream[c].pc /\ stream'[c].cursor = stream[c].cursor
        /\ stream'[c].page = stream[c].page
    BY <2>1
  <2>10. /\ stream[c].pc \in {"poll", "frames", "sleep"} =>
              /\ Below(stream[c].cursor) \subseteq ToSet(got) \union ToSet(rest)
              /\ stream[c].cursor = 0 \/ \E z \in ToSet(progress) : z.id = stream[c].cursor
         /\ stream[c].pc = "frames" => \A z \in ToSet(stream[c].page) :
              {y \in Below(z.id) : y.id > stream[c].cursor} \subseteq ToSet(stream[c].page)
    BY <1>1, <2>7 DEF Gapless, Connected
  <2>11. received'[c] = got /\ wire'[c] = rest
    BY <2>1, <2>4
  <2> QED BY <1>3, <2>6, <2>8, <2>9, <2>10, <2>11, GaplessAgain
<1>12. CASE Reload(c)
  <2>1. /\ stream'[c].pc = "poll" /\ stream'[c].cursor = 0
        /\ wire'[c] = <<>> /\ received'[c] = <<>>
    BY <1>2, <1>12 DEF Reload, Closed
  <2> QED BY <1>3, <1>4, <2>1, GaplessAgain
<1> QED
  BY <1>5, <1>6, <1>7, <1>9, <1>10, <1>11, <1>12 DEF Streaming

\* A client whose lists are left alone has no gap either, when nothing appears
\* below an id in use.
LEMMA StillGapless ==
  ASSUME NEW c \in Clients, Feeds(c), Gapless(c), ToSet(progress) \subseteq ToSet(progress'),
         \A n : n = 0 \/ (\E z \in ToSet(progress) : z.id = n) => Below(n)' \subseteq Below(n),
         stream'[c] = stream[c], wire'[c] = wire[c], received'[c] = received[c]
  PROVE  Gapless(c)'
<1>1. /\ ToSet(received[c]) \subseteq ToSet(progress)
      /\ ToSet(wire[c]) \subseteq ToSet(progress)
      /\ ToSet(stream[c].page) \subseteq ToSet(progress)
  BY DEF Feeds, Committed, ToSet
<1>2. \A x \in ToSet(progress) : Below(x.id)' \subseteq Below(x.id)
  OBVIOUS
<1>3. \A x \in ToSet(received[c]) : Below(x.id)' \subseteq ToSet(received[c])
  BY <1>1, <1>2 DEF Gapless
<1>4. \A x \in ToSet(wire[c]) : Below(x.id)' \subseteq ToSet(received[c]) \union ToSet(wire[c])
  BY <1>1, <1>2 DEF Gapless
<1>5. Connected(c) =>
        /\ Below(stream[c].cursor)' \subseteq ToSet(received[c]) \union ToSet(wire[c])
        /\ stream[c].cursor = 0 \/ \E x \in ToSet(progress)' : x.id = stream[c].cursor
  BY DEF Gapless
<1>6. stream[c].pc = "frames" => \A x \in ToSet(stream[c].page) :
        {y \in Below(x.id)' : y.id > stream[c].cursor} \subseteq ToSet(stream[c].page)
  BY <1>1, <1>2 DEF Gapless
<1> QED BY <1>3, <1>4, <1>5, <1>6 DEF Gapless, Connected
\* An entry that is put last is not below an id in use: either it was overtaken,
\* or it is above them all.
LEMMA NewEntryIsAbove ==
  ASSUME StreamTypeOK, HistoryInv, Counted, NEW x \in Entry, x.id > 0,
         \A z \in ToSet(progress) : z.id # x.id,
         progress' = Append(progress, x),
         NEW n, n = 0 \/ \E z \in ToSet(progress) : z.id = n
  PROVE  Below(n)' \subseteq Below(n)
<1>1. PICK list \in Seq(Entry) : list = progress
  BY DEF StreamTypeOK
<1>2. PICK longer : longer = Append(list, x)
  OBVIOUS
<1>3. /\ Len(list) \in Nat /\ DOMAIN list = 1..Len(list)
      /\ DOMAIN longer = 1..Len(list) + 1
      /\ longer[Len(list) + 1] = x
      /\ \A i \in 1..Len(list) : longer[i] = list[i]
  BY <1>2, LongerByOne
<1>4. \A i \in 1..Len(list) : i \in 1..Len(list) + 1 /\ i < Len(list) + 1
  BY <1>3
<1>5. \A z \in ToSet(list) : z.id \in Nat
  <2>1. \A z \in ToSet(list) : z \in Entry
    <3> HIDE DEF Entry
    <3> QED BY DEF ToSet
  <2> QED BY <2>1 DEF Entry
<1>6. x.id \in Nat
  BY DEF Entry
<1> SUFFICES ASSUME NEW y \in Below(n)' PROVE y \in Below(n)
  OBVIOUS
<1>7. y \in InTurn' /\ y.id <= n
  BY DEF Below
<1>8. PICK i \in DOMAIN longer :
        /\ y = longer[i]
        /\ \A j \in DOMAIN longer : j < i => ~ (longer[j].id > longer[i].id)
  BY <1>1, <1>2, <1>7 DEF InTurn, Overtaken
<1>9. CASE i \in 1..Len(list)
  <2>1. y = list[i]
    BY <1>3, <1>8, <1>9
  <2>2. ASSUME NEW j \in 1..Len(list), j < i PROVE ~ (list[j].id > list[i].id)
    BY <1>3, <1>4, <1>8, <1>9, <2>2
  <2>3. y \in InTurn
    BY <1>1, <1>3, <1>9, <2>1, <2>2 DEF InTurn, Overtaken
  <2> QED BY <1>7, <2>3 DEF Below
<1>10. CASE i = Len(list) + 1
  <2>1. y = x
    BY <1>3, <1>8, <1>10
  <2>2. ASSUME NEW z \in ToSet(list), z.id = n PROVE FALSE
    <3>1. PICK j \in 1..Len(list) : z = list[j]
      BY <1>3 DEF ToSet
    <3>2. ~ (z.id > x.id)
      BY <1>3, <1>4, <1>8, <1>10, <2>1, <3>1
    <3> QED BY <1>1, <1>5, <1>6, <1>7, <2>1, <2>2, <3>2
  <2>3. n = 0
    BY <1>1, <2>2
  <2> QED BY <1>6, <1>7, <2>1, <2>3
<1> QED BY <1>3, <1>8, <1>9, <1>10

LEMMA RecordingGapless ==
  ASSUME GaplessInv,
         \/ Tick \/ Commit \/ Rollback
         \/ \E e \in Edges, s \in Lifecycle!Status : \E id \in NowV7(e) : Record(e, s, id)
  PROVE  GaplessInv'
<1>1. FeedInv' /\ FeedInv /\ StreamTypeOK /\ HistoryInv /\ Counted
  BY RecordingFeeds DEF GaplessInv, FeedInv
<1>2. UNCHANGED following
  BY DEF Tick, Commit, Rollback, Record
<1>3. ASSUME UNCHANGED progress, writer' # Idle => writer'.id > 0 PROVE GaplessInv'
  <2>1. \A n : Below(n)' = Below(n)
    BY <1>3 DEF Below, InTurn, Overtaken
  <2>2. \A c \in Clients : Gapless(c)'
    BY <1>1, <1>2, <1>3, <2>1, StillGapless DEF GaplessInv, FeedInv, following
  <2> QED BY <1>1, <1>3, <2>2 DEF GaplessInv, Counted
<1>4. CASE Tick \/ Rollback
  <2>1. UNCHANGED progress /\ (writer' = writer \/ writer' = Idle)
    BY <1>4 DEF Tick, Rollback, recording
  <2> QED BY <1>1, <1>3, <2>1 DEF Counted
<1>5. CASE Commit
  <2>1. PICK x \in Entry : x = [id |-> writer.id, status |-> writer.status]
    BY <1>1 DEF StreamTypeOK, Entry
  <2>2. /\ progress' = Append(progress, x) /\ writer' = Idle /\ writer # Idle
        /\ x.id = writer.id
    BY <1>5, <2>1 DEF Commit
  <2>3. x.id > 0 /\ \A z \in ToSet(progress) : z.id # x.id
    BY <1>1, <2>2 DEF Counted, HistoryInv
  <2>4. ToSet(progress') = ToSet(progress) \union {x}
    BY <1>1, <2>2, MoreHistory DEF StreamTypeOK
  <2>5. Counted'
    BY <1>1, <2>2, <2>3, <2>4 DEF Counted
  <2>6. \A n : n = 0 \/ (\E z \in ToSet(progress) : z.id = n) => Below(n)' \subseteq Below(n)
    BY <1>1, <2>2, <2>3, NewEntryIsAbove
  <2>7. \A c \in Clients : Gapless(c)'
    BY <1>1, <1>2, <2>4, <2>6, StillGapless DEF GaplessInv, FeedInv, following
  <2> QED BY <1>1, <2>5, <2>7 DEF GaplessInv
<1>6. ASSUME NEW e \in Edges, NEW s \in Lifecycle!Status, NEW id \in NowV7(e), Record(e, s, id)
      PROVE  GaplessInv'
  <2>1. UNCHANGED progress /\ writer'.id = id
    BY <1>6 DEF Record
  <2>2. id > 0
    <3>1. clock \in Nat /\ Ties \in Nat /\ clock * Ties \in Nat
      BY <1>1, StreamAssumption DEF StreamTypeOK
    <3> QED BY <3>1 DEF NowV7
  <2> QED BY <1>3, <2>1, <2>2
<1> QED BY <1>4, <1>5, <1>6

LEMMA NextGapless == GaplessInv /\ [StreamNext]_streamVars => GaplessInv'
<1> SUFFICES ASSUME GaplessInv, [StreamNext]_streamVars PROVE GaplessInv'
  OBVIOUS
<1>0. FeedInv'
  BY NextFeeds DEF GaplessInv
<1>1. ASSUME UNCHANGED recording PROVE Counted' /\ \A n : Below(n)' = Below(n)
  BY <1>1 DEF GaplessInv, Counted, recording, Below, InTurn, Overtaken
<1>2. ASSUME NEW c \in Clients,
             \/ Streaming(c) \/ ReadFails(c) \/ Connect(c) \/ Receive(c) \/ Lose(c) \/ Reload(c)
      PROVE  GaplessInv'
  <2>1. Gapless(c)'
    BY <1>2, StreamGapless
  <2>2. UNCHANGED recording
    BY <1>2 DEF Streaming, Poll, Frame, Wake, ReadFails, Connect, Receive, Lose, Reload
  <2>3. Counted' /\ \A n : Below(n)' = Below(n)
    BY <1>1, <2>2
  <2>4. ASSUME NEW b \in Clients, b # c PROVE Gapless(b)'
    <3>1. stream'[b] = stream[b] /\ wire'[b] = wire[b] /\ received'[b] = received[b]
      BY <1>2, <2>4, OtherClients DEF GaplessInv, FeedInv
    <3> QED BY <2>2, <2>3, <3>1, StillGapless DEF GaplessInv, FeedInv, recording
  <2> QED BY <1>0, <2>1, <2>3, <2>4 DEF GaplessInv
<1>3. ASSUME UNCHANGED streamVars PROVE GaplessInv'
  <2>1. UNCHANGED <<recording, stream, wire, received>>
    BY <1>3 DEF streamVars, following
  <2>2. Counted' /\ \A n : Below(n)' = Below(n)
    BY <1>1, <2>1
  <2>3. \A c \in Clients : Gapless(c)'
    BY <2>1, <2>2, StillGapless DEF GaplessInv, FeedInv, recording
  <2> QED BY <1>0, <2>2, <2>3 DEF GaplessInv
<1> QED BY <1>2, <1>3, RecordingGapless DEF StreamNext

\* Whichever processes record, whatever connections break and pages are
\* reloaded: a client has every committed entry below one it has, but for those
\* that were committed after one with a larger id (stream.rs, `progress_since').
THEOREM NothingIsMissed == StreamSpec => []NothingMissed
<1>1. GaplessInv => NothingMissed
  <2> SUFFICES ASSUME GaplessInv, NEW c \in Clients, NEW i \in DOMAIN progress,
                      NEW later \in ToSet(received[c]),
                      progress[i].id < later.id, ~Overtaken(i)
               PROVE  progress[i] \in ToSet(received[c])
    BY DEF NothingMissed
  <2>1. progress[i] \in InTurn /\ progress[i].id \in Nat /\ later.id \in Nat
    <3>1. progress \in Seq(Entry) /\ received[c] \in Seq(Entry)
      BY DEF GaplessInv, FeedInv, StreamTypeOK
    <3>2. progress[i] \in Entry /\ later \in Entry
      <4> HIDE DEF Entry
      <4> QED BY <3>1 DEF ToSet
    <3> QED BY <3>2 DEF InTurn, Entry
  <2>2. progress[i] \in Below(later.id)
    BY <2>1 DEF Below
  <2> QED BY <2>2 DEF GaplessInv, Gapless
<1> QED BY <1>1, InitGapless, NextGapless, PTL DEF StreamSpec

-----------------------------------------------------------------------------
(* The outcome is the last entry, and a stream ends when it has sent it.   *)

\* No entry follows the outcome, and nobody is about to record one.
OutcomeIsLast ==
  /\ \A i \in DOMAIN progress : Terminal(progress[i].status) => i = Len(progress)
  /\ progress # <<>> => progress[Len(progress)].status = status
  /\ writer # Idle => ~Terminal(status)

\* Of the frames the client has and those on their way to it, the last one.
LastSent(c) == IF wire[c] # <<>> THEN wire[c] ELSE received[c]

\* A stream that ended of itself sent the outcome last.
SentLast(c) ==
  stream[c].pc = "ended" =>
    LastSent(c) # <<>> /\ Last(LastSent(c)).status = status /\ Terminal(status)

OutcomeInv == FeedInv /\ OutcomeIsLast /\ \A c \in Clients : SentLast(c)

LEMMA RecordingTells ==
  ASSUME OutcomeInv,
         \/ Tick \/ Commit \/ Rollback
         \/ \E e \in Edges, s \in Lifecycle!Status : \E id \in NowV7(e) : Record(e, s, id)
  PROVE  OutcomeIsLast' /\ \A c \in Clients : SentLast(c)'
<1>1. CASE Tick \/ Rollback
  <2>1. UNCHANGED <<progress, status, stream, wire, received>>
        /\ (writer' # Idle => writer # Idle)
    BY <1>1 DEF Tick, Rollback, recording, following
  <2> QED BY <2>1 DEF OutcomeInv, OutcomeIsLast, SentLast, LastSent, Terminal
<1>2. CASE Commit
  <2>1. PICK x \in Entry : x = [id |-> writer.id, status |-> writer.status]
    BY DEF OutcomeInv, FeedInv, StreamTypeOK, Entry
  <2>2. /\ progress' = Append(progress, x) /\ writer' = Idle /\ status' = x.status
        /\ stream' = stream /\ ~Terminal(status)
    BY <1>2, <2>1 DEF Commit, following, OutcomeInv, OutcomeIsLast
  <2>3. /\ Len(progress) \in Nat /\ Len(progress') = Len(progress) + 1
        /\ progress'[Len(progress) + 1] = x
        /\ \A i \in DOMAIN progress : progress'[i] = progress[i]
        /\ DOMAIN progress = 1..Len(progress)
        /\ DOMAIN progress' = 1..Len(progress) + 1
    BY <2>2, LongerByOne DEF OutcomeInv, FeedInv, StreamTypeOK
  <2>4. ASSUME NEW i \in DOMAIN progress PROVE ~Terminal(progress[i].status)
    <3>1. progress # <<>>
      BY <2>4
    <3> QED BY <2>2, <2>4, <3>1 DEF OutcomeInv, OutcomeIsLast
  <2>5. ASSUME NEW i \in DOMAIN progress', Terminal(progress'[i].status)
        PROVE  i = Len(progress')
    <3>1. CASE i \in DOMAIN progress
      BY <2>3, <2>4, <2>5, <3>1
    <3>2. CASE i \notin DOMAIN progress
      BY <2>3, <3>2
    <3> QED BY <3>1, <3>2
  <2>6. OutcomeIsLast'
    BY <2>2, <2>3, <2>5 DEF OutcomeIsLast, Terminal
  <2>7. \A c \in Clients : SentLast(c)'
    BY <2>2 DEF OutcomeInv, SentLast
  <2> QED BY <2>6, <2>7
<1>3. ASSUME NEW e \in Edges, NEW s \in Lifecycle!Status, NEW id \in NowV7(e), Record(e, s, id)
      PROVE  OutcomeIsLast' /\ \A c \in Clients : SentLast(c)'
  <2>1. UNCHANGED <<progress, status, stream, wire, received>> /\ ~Terminal(status)
    BY <1>3 DEF Record, following
  <2> QED BY <2>1 DEF OutcomeInv, OutcomeIsLast, SentLast, LastSent, Terminal
<1> QED BY <1>1, <1>2, <1>3

LEMMA StreamTells ==
  ASSUME OutcomeInv, NEW c \in Clients,
         \/ Streaming(c) \/ ReadFails(c) \/ Connect(c) \/ Receive(c) \/ Lose(c) \/ Reload(c)
  PROVE  SentLast(c)'
<1>1. /\ StreamTypeOK /\ Feeds(c)
      /\ received[c] \in Seq(Entry) /\ wire[c] \in Seq(Entry)
      /\ stream[c].page \in Seq(Entry) /\ progress \in Seq(Entry)
      /\ DOMAIN stream = Clients /\ DOMAIN wire = Clients /\ DOMAIN received = Clients
  BY DEF OutcomeInv, FeedInv, StreamTypeOK
<1>2. UNCHANGED <<progress, status>>
  BY DEF Streaming, Poll, Frame, Wake, ReadFails, Connect, Receive, Lose, Reload, recording
<1>3. ASSUME NEW list \in Seq(Entry), NEW x \in Entry
      PROVE  Append(list, x) # <<>> /\ Last(Append(list, x)) = x
  <2>1. /\ Len(list) \in Nat /\ Len(Append(list, x)) = Len(list) + 1
        /\ Append(list, x)[Len(list) + 1] = x
        /\ Append(list, x) \in Seq(Entry)
    BY LongerByOne
  <2>2. Append(list, x) # <<>>
    <3> HIDE DEF Entry
    <3> QED BY <2>1
  <2> QED BY <2>1, <2>2 DEF Last
<1>4. CASE Frame(c)
  <2>1. PICK entry \in Entry, rest \in Seq(Entry) :
          /\ entry = Head(stream[c].page) /\ rest = Tail(stream[c].page)
          /\ entry \in ToSet(progress)
    BY <1>1, <1>4, TakeHead DEF Frame, Feeds
  <2>2. /\ stream'[c].pc = After(entry, rest)
        /\ wire'[c] = Append(wire[c], entry)
    BY <1>1, <1>4, <2>1 DEF Frame
  <2>3. LastSent(c)' # <<>> /\ Last(LastSent(c)') = entry
    BY <1>1, <1>3, <2>2 DEF LastSent
  <2>4. ASSUME After(entry, rest) = "ended" PROVE entry.status = status /\ Terminal(status)
    <3>1. Terminal(entry.status)
      BY <2>4 DEF After
    <3>2. PICK i \in DOMAIN progress : entry = progress[i]
      BY <2>1 DEF ToSet
    <3>3. i = Len(progress) /\ progress # <<>>
      BY <3>1, <3>2 DEF OutcomeInv, OutcomeIsLast
    <3> QED BY <3>1, <3>2, <3>3 DEF OutcomeInv, OutcomeIsLast
  <2> QED BY <1>2, <2>2, <2>3, <2>4 DEF SentLast, Terminal
<1>5. CASE Receive(c)
  <2>1. PICK list \in Seq(Entry) : list = wire[c] /\ list # <<>>
    BY <1>1, <1>5 DEF Receive
  <2>2. /\ wire'[c] = Tail(list) /\ received'[c] = Append(received[c], Head(list))
        /\ stream' = stream
    BY <1>1, <1>5, <2>1 DEF Receive
  <2>3. /\ Head(list) \in Entry /\ Head(list) = list[1] /\ Tail(list) \in Seq(Entry)
        /\ Len(list) \in Nat /\ Len(list) > 0 /\ Len(Tail(list)) = Len(list) - 1
        /\ \A i \in 1..Len(list) - 1 : Tail(list)[i] = list[i + 1]
    BY <2>1, HeadAndTail
  <2>4. CASE Tail(list) = <<>>
    <3>1. Len(list) = 1
      <4>1. PICK rest : rest = Tail(list)
        OBVIOUS
      <4>2. Len(rest) = Len(list) - 1 /\ Len(list) \in Nat
        BY <2>3, <4>1
      <4>3. rest = <<>>
        BY <2>4, <4>1
      <4>4. Len(rest) = 0
        BY <4>3
      <4> QED BY <4>2, <4>4
    <3>2. Last(list) = Head(list)
      BY <2>3, <3>1 DEF Last
    <3>3. received'[c] # <<>> /\ Last(received'[c]) = Head(list)
      BY <1>1, <1>3, <2>2, <2>3
    <3> QED BY <1>2, <2>1, <2>2, <2>4, <3>2, <3>3
        DEF OutcomeInv, SentLast, LastSent, Terminal
  <2>5. CASE Tail(list) # <<>>
    <3>1. Len(Tail(list)) \in Nat /\ Len(Tail(list)) # 0
      <4>1. PICK rest \in Seq(Entry) : rest = Tail(list) /\ rest # <<>>
        BY <2>3, <2>5
      <4>2. Len(rest) \in Nat /\ Len(rest) # 0
        <5> HIDE DEF Entry
        <5> QED BY <4>1
      <4> QED BY <4>1, <4>2
    <3>2. Tail(list)[Len(list) - 1] = list[Len(list)]
      <4>1. Len(list) - 1 \in 1..Len(list) - 1
        BY <2>3, <3>1
      <4>2. Len(list) - 1 + 1 = Len(list)
        BY <2>3
      <4> QED BY <2>3, <4>1, <4>2
    <3>3. Last(Tail(list)) = Last(list)
      BY <2>3, <3>2 DEF Last
    <3> QED BY <1>2, <2>1, <2>2, <2>5, <3>3 DEF OutcomeInv, SentLast, LastSent, Terminal
  <2> QED BY <2>4, <2>5
<1>6. CASE Poll(c) \/ Wake(c) \/ ReadFails(c) \/ Connect(c) \/ Lose(c) \/ Reload(c)
  <2>1. stream'[c].pc # "ended"
    BY <1>1, <1>6 DEF StreamTypeOK, Poll, Wake, ReadFails, Connect, Lose, Reload, Closed
  <2> QED BY <2>1 DEF SentLast
<1> QED BY <1>4, <1>5, <1>6 DEF Streaming

LEMMA NextTells == OutcomeInv /\ [StreamNext]_streamVars => OutcomeInv'
<1> SUFFICES ASSUME OutcomeInv, [StreamNext]_streamVars PROVE OutcomeInv'
  OBVIOUS
<1>0. FeedInv'
  BY NextFeeds DEF OutcomeInv
<1>1. ASSUME NEW c \in Clients,
             \/ Streaming(c) \/ ReadFails(c) \/ Connect(c) \/ Receive(c) \/ Lose(c) \/ Reload(c)
      PROVE  OutcomeInv'
  <2>1. UNCHANGED recording
    BY <1>1 DEF Streaming, Poll, Frame, Wake, ReadFails, Connect, Receive, Lose, Reload
  <2>2. SentLast(c)'
    BY <1>1, StreamTells
  <2>3. ASSUME NEW b \in Clients, b # c PROVE SentLast(b)'
    <3>1. UNCHANGED <<stream[b], wire[b], received[b], status>>
      BY <1>1, <2>1, <2>3, OtherClients DEF OutcomeInv, FeedInv, recording
    <3> QED BY <3>1 DEF OutcomeInv, SentLast, LastSent, Terminal
  <2>4. OutcomeIsLast'
    BY <2>1 DEF recording, OutcomeInv, OutcomeIsLast, Terminal
  <2> QED BY <1>0, <2>2, <2>3, <2>4 DEF OutcomeInv
<1>2. ASSUME UNCHANGED streamVars PROVE OutcomeInv'
  <2>1. UNCHANGED <<progress, status, writer, stream, wire, received>>
    BY <1>2 DEF streamVars, recording, following
  <2> QED BY <1>0, <2>1 DEF OutcomeInv, OutcomeIsLast, SentLast, LastSent, Terminal
<1> QED BY <1>0, <1>1, <1>2, RecordingTells DEF StreamNext, OutcomeInv

\* A stream that ended of itself has sent the outcome, and it is the
\* operation's (stream.rs `events'), whichever processes record.
THEOREM EndAlwaysTells == StreamSpec => []EndTellsOutcome
<1>1. StreamInit => OutcomeInv
  <2> SUFFICES ASSUME StreamInit PROVE OutcomeInv
    OBVIOUS
  <2>1. progress = <<>> /\ writer = Idle /\ \A c \in Clients : stream[c].pc = "closed"
    BY DEF StreamInit, Closed
  <2> QED BY <2>1, InitFeeds DEF OutcomeInv, OutcomeIsLast, SentLast
<1>2. OutcomeInv => EndTellsOutcome
  BY DEF OutcomeInv, SentLast, LastSent, EndTellsOutcome
<1> QED BY <1>1, <1>2, NextTells, PTL DEF StreamSpec

=========================================================================

-------------------------- MODULE EdgeProcess --------------------------
(***************************************************************************)
(* The life of one process of the platform and the requests inside it:     *)
(* start, readiness, the middleware every request passes, the database     *)
(* pool, and the shutdown sequence (crates/http/src/{lib,lifecycle,        *)
(* observe,limit,shutdown}.rs, crates/persistence/src/lib.rs,              *)
(* services/edge/src/main.rs).                                             *)
(*                                                                         *)
(* The main task, the probers, the background publisher and the requests   *)
(* interleave.  A setter of readiness stores its flag, computes the        *)
(* aggregate and sets the gauge in three steps; what one computation reads *)
(* is read in one of them.  Drain, grace and request timeouts are steps    *)
(* that may come at any moment: nothing here depends on their lengths.     *)
(***************************************************************************)
EXTENDS Naturals, FiniteSets

CONSTANTS
    Dependencies,  \* what probers watch, the database among them
    Gating,        \* those whose failing check makes the process unready
    Requests,      \* the requests, each of them made once
    Limit,         \* max_concurrent_requests of the public listener
    Connections,   \* max_connections of the pool
    MaxFlaps       \* BOUND: how often dependencies change

ASSUME EdgeProcessAssumption ==
    /\ "database" \in Gating /\ Gating \subseteq Dependencies
    /\ IsFiniteSet(Requests)
    /\ Limit \in Nat \ {0} /\ Connections \in Nat \ {0} /\ MaxFlaps \in Nat

VARIABLES
    phase,      \* how far `run` is
    up,         \* the dependencies that answer
    flaps,      \* how often that changed
    seen,       \* RuntimeState: what the latest probe of each found
    started,    \* RuntimeState.startup_complete
    draining,   \* RuntimeState.draining
    gauge,      \* platform_readiness
    publishing, \* where the main task and each prober are in a setter
    req,        \* where each request is
    shed,       \* Concurrency.in_flight
    inFlight,   \* HttpState.in_flight
    held,       \* who holds a connection of the pool
    pool,       \* open, closing or closed
    ended       \* the shutdown outcome, once the listeners closed

readiness == <<up, flaps, seen, started, draining, gauge, publishing>>
requests == <<req, shed, inFlight>>
process == <<phase, pool, ended>>
vars == <<phase, up, flaps, seen, started, draining, gauge, publishing, req,
          shed, inFlight, held, pool, ended>>

Publisher == "publisher"      \* the outbox publisher, a background task
Writers == Dependencies \cup {"main"}
Alive == phase \notin {"exited", "failed"}
Probing == phase \in {"bind", "serving", "draining", "closing"}

Serving(r) == req[r] = "running"
Guarded == {r \in Requests : req[r] \in {"running", "refused"}}
Inside(r) == req[r] \in {"in", "running", "refused"}
Open(r) == Inside(r) \/ req[r] = "body"

(* RuntimeState::is_ready.                                                 *)
IsReady == started /\ ~draining /\ \A d \in Gating : seen[d] # "down"

Init ==
    /\ phase = "build"
    /\ up \in {Dependencies} \cup {Dependencies \ {d} : d \in Dependencies}
    /\ flaps = 0
    /\ seen = [d \in Dependencies |-> "absent"]
    /\ started = FALSE /\ draining = FALSE /\ gauge = FALSE
    /\ publishing = [w \in Writers |-> "idle"]
    /\ req = [r \in Requests |-> "out"]
    /\ shed = 0 /\ inFlight = 0 /\ held = {} /\ pool = "open"
    /\ ended = [graceful |-> FALSE, interrupted |-> FALSE, atClose |-> 0]

-----------------------------------------------------------------------------
(* Readiness.                                                              *)

(* A dependency stops answering, or answers again.                         *)
Flap(d) ==
    /\ Alive /\ flaps < MaxFlaps
    /\ flaps' = flaps + 1
    /\ up' = IF d \in up THEN up \ {d} ELSE up \cup {d}
    /\ UNCHANGED <<seen, started, draining, gauge, publishing, requests, held,
                   process>>

(* A setter by writer w has stored its flag and goes on to publish.        *)
Stored(w) == publishing' = [publishing EXCEPT ![w] = "compute"]

(* One tick of a prober: what the dependency answers is stored.            *)
Found(d) == IF d \in up THEN "up" ELSE "down"

ProbeOnChange(d) ==
    /\ Probing /\ publishing[d] = "idle"
    /\ seen[d] # Found(d)
    /\ seen' = [seen EXCEPT ![d] = Found(d)]
    /\ Stored(d)
    /\ UNCHANGED <<up, flaps, started, draining, gauge, requests, held, process>>

Probe(d) ==
    /\ Probing /\ publishing[d] = "idle"
    /\ seen' = [seen EXCEPT ![d] = Found(d)]
    /\ Stored(d)
    /\ UNCHANGED <<up, flaps, started, draining, gauge, requests, held, process>>

(* publish_readiness: compute the aggregate, then set the gauge to it.     *)
Compute(w) ==
    /\ Alive /\ publishing[w] = "compute"
    /\ publishing' = [publishing EXCEPT ![w] = IF IsReady THEN "ready" ELSE "unready"]
    /\ UNCHANGED <<up, flaps, seen, started, draining, gauge, requests, held, process>>

SetGauge(w) ==
    /\ Alive /\ publishing[w] \in {"ready", "unready"}
    /\ gauge' = (publishing[w] = "ready")
    /\ publishing' = [publishing EXCEPT ![w] = "idle"]
    /\ UNCHANGED <<up, flaps, seen, started, draining, requests, held, process>>

-----------------------------------------------------------------------------
(* The start, in the order of `run`.  A step that cannot succeed ends the  *)
(* process.                                                                *)

MainIdle == publishing["main"] = "idle"

(* Serving::build: without its database and its bus Edge does not start.   *)
Build ==
    /\ phase = "build"
    /\ phase' = IF {"database", "bus"} \cap Dependencies \subseteq up
              THEN "probe" ELSE "failed"
    /\ UNCHANGED <<readiness, requests, held, pool, ended>>

(* The first probe comes before the listeners open.                        *)
FirstProbe ==
    /\ phase = "probe"
    /\ seen' = [seen EXCEPT !["database"] = Found("database")]
    /\ Stored("main")
    /\ phase' = "bind"
    /\ UNCHANGED <<up, flaps, started, draining, gauge, requests, held, pool, ended>>

BindFails ==
    /\ phase = "bind" /\ MainIdle
    /\ phase' = "failed"
    /\ UNCHANGED <<readiness, requests, held, pool, ended>>

(* The listeners are bound: mark_startup_complete.                         *)
Bind ==
    /\ phase = "bind" /\ MainIdle
    /\ phase' = "serving"
    /\ started' = TRUE
    /\ Stored("main")
    /\ UNCHANGED <<up, flaps, seen, draining, gauge, requests, held, pool, ended>>

-----------------------------------------------------------------------------
(* A request, from the accepting listener through observe, the timeout and *)
(* the concurrency bound to its handler, and the body of its answer.       *)

Admitting == phase \in {"serving", "draining"}

Arrive(r) ==
    /\ Admitting /\ req[r] = "out"
    /\ req' = [req EXCEPT ![r] = "in"]
    /\ inFlight' = inFlight + 1
    /\ UNCHANGED <<readiness, shed, held, process>>

(* shed: the counter is raised first, and the guard lowers it.             *)
Enter(r) ==
    /\ Alive /\ req[r] = "in"
    /\ shed' = shed + 1
    /\ req' = [req EXCEPT ![r] = IF shed >= Limit THEN "refused" ELSE "running"]
    /\ UNCHANGED <<readiness, inFlight, held, process>>

(* What dropping the guard of a request does to the counter.               *)
DroppedIfServed(r) == IF Serving(r) THEN shed - 1 ELSE shed
Dropped(r) == IF r \in Guarded THEN shed - 1 ELSE shed

Acquire(r) ==
    /\ Alive /\ pool = "open" /\ r \notin held
    /\ Serving(r) \/ req[r] = "body"
    /\ Cardinality(held) < Connections
    /\ held' = held \cup {r}
    /\ UNCHANGED <<readiness, requests, process>>

Release(r) ==
    /\ Alive /\ r \in held
    /\ held' = held \ {r}
    /\ UNCHANGED <<readiness, requests, process>>

(* The handler or the bound answers: the guard goes, observe lowers its    *)
(* counter, and the rest of the answer is a body or nothing.               *)
Answer(r, rest) ==
    /\ req' = [req EXCEPT ![r] = rest]
    /\ shed' = Dropped(r)
    /\ inFlight' = inFlight - 1
    /\ held' = held \ {r}
    /\ UNCHANGED <<readiness, process>>

Complete(r) ==
    /\ Alive /\ Serving(r) /\ r \notin held
    /\ \/ Answer(r, "done")
       \/ Answer(r, "body")

Refuse(r) == Alive /\ req[r] = "refused" /\ Answer(r, "done")

(* A panic or the request timeout: the handler is dropped where it is.     *)
Abort(r) == Alive /\ Serving(r) /\ Answer(r, "done")

(* A handler asks for a connection of a pool that is closing.              *)
PoolRefuses(r) ==
    /\ Alive /\ Serving(r) /\ r \notin held
    /\ pool # "open"
    /\ Answer(r, "denied")

BodyEnds(r) ==
    /\ Alive /\ req[r] = "body" /\ r \notin held
    /\ req' = [req EXCEPT ![r] = "done"]
    /\ UNCHANGED <<readiness, shed, inFlight, held, process>>

(* The client leaves.  Everything the request owns is dropped, and no code *)
(* of observe runs after its await: its counter stays raised.              *)
Disconnect(r) ==
    /\ Alive /\ Open(r)
    /\ req' = [req EXCEPT ![r] = "left"]
    /\ shed' = Dropped(r)
    /\ held' = held \ {r}
    /\ UNCHANGED <<readiness, inFlight, process>>

(* A pass of the outbox publisher begins and ends.                         *)
PassBegins ==
    /\ Probing /\ Publisher \notin held
    /\ Cardinality(held) < Connections
    /\ held' = held \cup {Publisher}
    /\ UNCHANGED <<readiness, requests, process>>

PassEnds ==
    /\ Alive /\ Publisher \in held
    /\ held' = held \ {Publisher}
    /\ UNCHANGED <<readiness, requests, process>>

-----------------------------------------------------------------------------
(* The end: drain_and_close, then what `run` does after it.                *)

(* The first signal.  A second one that comes before the main task waits   *)
(* for it again is lost.                                                   *)
Signal ==
    /\ phase = "serving" /\ MainIdle
    /\ phase' = "draining"
    /\ draining' = TRUE
    /\ Stored("main")
    /\ UNCHANGED <<up, flaps, seen, started, gauge, requests, held, pool, ended>>

(* The listeners stop accepting, and the count is read for the log.        *)
CloseListeners(interrupted) ==
    /\ phase = "draining" /\ MainIdle
    /\ ended' = [ended EXCEPT !.atClose = inFlight, !.interrupted = interrupted]
    /\ phase' = IF interrupted THEN "stopping" ELSE "closing"
    /\ UNCHANGED <<readiness, requests, held, pool>>

DrainElapses == CloseListeners(FALSE)
InterruptDrain == CloseListeners(TRUE)

(* wait_for_all: every connection of the servers is done.                  *)
AllAnswered == \A r \in Requests : ~Inside(r)
AllServed == \A r \in Requests : ~Open(r)

ServersFinish ==
    /\ phase = "closing" /\ AllServed
    /\ ended' = [ended EXCEPT !.graceful = TRUE]
    /\ phase' = "stopping"
    /\ UNCHANGED <<readiness, requests, held, pool>>

GraceExpires ==
    /\ phase = "closing"
    /\ phase' = "stopping"
    /\ UNCHANGED <<readiness, requests, held, pool, ended>>

InterruptGrace ==
    /\ phase = "closing"
    /\ ended' = [ended EXCEPT !.interrupted = TRUE]
    /\ phase' = "stopping"
    /\ UNCHANGED <<readiness, requests, held, pool>>

(* The prober and the tasks are aborted: a task gives its connection up.   *)
NothingAborted == held
Aborted == held \ {Publisher}

AbortTasks ==
    /\ phase = "stopping" /\ pool = "open"
    /\ held' = Aborted
    /\ pool' = "closing"
    /\ UNCHANGED <<readiness, requests, phase, ended>>

(* Database::close waits for the connections that are out, then the        *)
(* process exits and what still runs in it is cut off.                     *)
Drained == held = {}

Exit ==
    /\ phase = "stopping" /\ pool = "closing" /\ Drained
    /\ pool' = "closed"
    /\ phase' = "exited"
    /\ req' = [r \in Requests |-> IF Open(r) THEN "cut" ELSE req[r]]
    /\ UNCHANGED <<readiness, shed, inFlight, held, ended>>

-----------------------------------------------------------------------------
Start == Build \/ FirstProbe \/ BindFails \/ Bind
Stop == DrainElapses \/ ServersFinish \/ GraceExpires \/ AbortTasks \/ Exit
Interrupt == InterruptDrain \/ InterruptGrace

RequestStep(r) ==
    \/ Arrive(r) \/ Enter(r) \/ Acquire(r) \/ Release(r) \/ Complete(r)
    \/ Refuse(r) \/ Abort(r) \/ PoolRefuses(r) \/ BodyEnds(r) \/ Disconnect(r)

Next ==
    \/ Start \/ Signal \/ Stop \/ Interrupt \/ PassBegins \/ PassEnds
    \/ \E d \in Dependencies : Flap(d) \/ Probe(d)
    \/ \E w \in Writers : Compute(w) \/ SetGauge(w)
    \/ \E r \in Requests : RequestStep(r)

(* Tasks are scheduled, tickers tick and timers fire.  A handler may be    *)
(* stuck for ever, and only the request timeout ends it; a query that a    *)
(* body polls for is answered, for no timeout covers a body.               *)
Fairness ==
    /\ WF_vars(Build \/ FirstProbe \/ Bind) /\ WF_vars(Stop)
    /\ \A d \in Dependencies : WF_vars(Probe(d))
    /\ \A w \in Writers : WF_vars(Compute(w)) /\ WF_vars(SetGauge(w))
    /\ \A r \in Requests :
         WF_vars(Abort(r)) /\ WF_vars(Enter(r)) /\ WF_vars(req[r] = "body" /\ Release(r))

Spec == Init /\ [][Next]_vars /\ Fairness

-----------------------------------------------------------------------------
(* Every variable has its type.                                            *)
TypeOK ==
    /\ phase \in {"build", "probe", "bind", "serving", "draining", "closing",
                  "stopping", "exited", "failed"}
    /\ up \subseteq Dependencies /\ flaps \in 0..MaxFlaps
    /\ seen \in [Dependencies -> {"absent", "up", "down"}]
    /\ started \in BOOLEAN /\ draining \in BOOLEAN /\ gauge \in BOOLEAN
    /\ publishing \in [Writers -> {"idle", "compute", "ready", "unready"}]
    /\ req \in [Requests -> {"out", "in", "running", "refused", "body", "done",
                             "denied", "left", "cut"}]
    /\ shed \in Nat /\ inFlight \in Nat
    /\ held \subseteq Requests \cup {Publisher}
    /\ pool \in {"open", "closing", "closed"}
    /\ ended \in [graceful : BOOLEAN, interrupted : BOOLEAN, atClose : Nat]

(* The concurrency counter is exact however a request ends - answer,       *)
(* panic, timeout or a client that leaves - so never more handlers run     *)
(* than the listener admits, and the bound does not wear down (limit.rs,   *)
(* the guard that releases on Drop).                                       *)
ConcurrencyIsBounded ==
    /\ Cardinality({r \in Requests : Serving(r)}) <= Limit
    /\ Alive => shed = Cardinality(Guarded)

(* A shutdown that reports itself graceful cut no answer short and denied  *)
(* no handler its database: the pool outlives every request (shutdown.rs,  *)
(* steps 4 and 5; lib.rs, the order at the end of run).                    *)
GracefulServesAll ==
    ended.graceful => \A r \in Requests : req[r] \notin {"denied", "cut"}

(* When dependencies stop changing, platform_readiness settles on what     *)
(* /health/ready answers, however the setters interleaved (lifecycle.rs,   *)
(* publish_readiness).                                                     *)
GaugeSettles == <>[](Probing => gauge = IsReady)

(* A process that got its signal exits, with handlers that never return,   *)
(* bodies that never end, and a pool that waits for its connections        *)
(* (shutdown.rs, step 5; Database::close).                                 *)
ShutdownEnds == draining ~> (phase = "exited")

=============================================================================

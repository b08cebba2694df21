----------------------------- MODULE Operations -----------------------------
(***************************************************************************)
(* The operation projection of ratatoskr-edge: one row of                  *)
(* operations.operations per accepted request, its progress history, its   *)
(* results and diagnostics, and everything that writes them concurrently:  *)
(*                                                                         *)
(*   - the bus consumers, which apply worker reports delivered at least    *)
(*     once and in any order (projection.rs, consumer.rs, inbox.rs);       *)
(*   - the failure paths of Edge's own forwards (notes.rs, archive.rs);    *)
(*   - the stale-operation reaper (reconcile.rs);                          *)
(*   - cancellation by the owner (cancel.rs, public-api operations.rs).    *)
(*                                                                         *)
(* A transaction that locks the row of the operation is one step.  What is *)
(* not under that lock is a step of its own: the instant a writer reads    *)
(* before it waits for the lock, the unlocked selection of the reaper, the *)
(* delivery and the acknowledgement of a message.                          *)
(***************************************************************************)
EXTENDS Naturals, Sequences, FiniteSets, ReportAuthority

CONSTANTS
  Ops,            \* operation identifiers
  Operation,      \* Operation[o]: kind, owner, reporter, provider of o
  Msgs,           \* message identities of worker reports
  Report,         \* Report[m]: the envelope and the body of message m
  StaleAfter,     \* the reaper's window, in clock ticks
  Batch,          \* how many operations one reaper pass examines
  Horizon,        \* bound: nothing new happens after this instant
  MaxClock        \* bound: the last instant

LiveStatus == {"accepted", "queued", "running"}
TerminalStatus == {"succeeded", "partially_succeeded", "failed", "cancelled"}
Status == LiveStatus \union TerminalStatus

Time == 0..MaxClock
Kinds == DOMAIN Authority

\* What the programs that mint operations may accept, and what is on the bus.
OperationRecord ==
  [kind : Kinds, owner : STRING, reporter : STRING \union {NoOne},
   provider : DOMAIN ArchiveSubject \union {NoOne}]

\* `error': none, or an error that does or does not let the client resubmit.
ReportRecord(Targets) ==
  [op : Targets, status : Status, subject : ArchiveSubjects \union {SharedSubject},
   producer : STRING, tenant : STRING \union {NoOne},
   error : {"none", "retryable", "final"}, warning : BOOLEAN, result : BOOLEAN]

Stranger == "an operation of somebody else"

ASSUME OperationAssumption ==
  /\ NoOne \notin STRING
  /\ Stranger \notin Ops
  /\ \A o \in Ops :
       /\ Operation[o] \in OperationRecord
       \* an archive import is minted with its acceptance record, and only it
       /\ (Operation[o].provider # NoOne) <=> (Operation[o].kind \in ProviderBound)
       \* accept refuses a reporter the kind does not list
       /\ Operation[o].reporter # NoOne =>
            Allows(Operation[o].kind, Operation[o].reporter)

ASSUME ReportAssumption ==
  \A m \in Msgs :
    /\ Report[m] \in ReportRecord(Ops \union {Stranger})
    \* no message bears a name under which Edge itself writes
    /\ m \notin {"edge", "reaper"}

ASSUME BoundAssumption ==
  /\ StaleAfter \in Nat \ {0}
  /\ Batch \in Nat \ {0}
  /\ Horizon \in Nat /\ MaxClock \in Nat
  /\ Horizon + StaleAfter < MaxClock

VARIABLES
  clock,
  \* operations.operations, by column
  status, status_changed_at, terminated_at, retryable, cancellation_requested,
  progress,         \* operations.operation_progress, in progress_id order
  diagnostics,      \* operations.operation_errors, oldest first
  results,          \* operations.operation_results: the message each came from
  inbox,            \* operations.inbox: outcome and instant per message
  cancelCommands,   \* operations.outbox: stop commands enqueued per operation
  bus,              \* the events stream, as the durables see it
  consumer,         \* the task of each durable
  forward,          \* Edge's forward of a request to its service
  reaper,           \* the pass of the reaper
  shown             \* the outcome a client read

row == <<status, status_changed_at, terminated_at, retryable,
         cancellation_requested, progress, diagnostics, results>>
vars == <<clock, row, inbox, cancelCommands, bus, consumer, forward, reaper, shown>>

Subjects == ArchiveSubjects \union {SharedSubject}

Never == MaxClock + 1               \* a null timestamp
NoMessage == "no message"
IdleConsumer == [pc |-> "idle", msg |-> NoMessage, now |-> 0]
IdleReaper == [now |-> 0, batch |-> {}]

-----------------------------------------------------------------------------
(* transition.rs *)

\* Variant: the outcome `partially_succeeded' left out of the terminal arm.
RankPartialIsLive(s) == CASE s = "accepted" -> 0
                          [] s = "queued"   -> 1
                          [] s \in {"running", "partially_succeeded"} -> 2
                          [] OTHER          -> 3

Rank(s) == CASE s = "accepted" -> 0
             [] s = "queued"   -> 1
             [] s = "running"  -> 2
             [] OTHER          -> 3

Terminal(s) == Rank(s) = 3

Transition(current, incoming) ==
  CASE incoming = current             -> "duplicate"
    [] Rank(incoming) > Rank(current) -> "advance"
    [] Rank(incoming) < Rank(current) -> "stale"
    [] OTHER                          -> "conflict"

\* Variant: the guard without the comparison of the two instants.
GuardAllowsAnyInstant(o, s, now) ==
  /\ ~ Terminal(status[o])
  /\ Rank(s) > Rank(status[o])

(* schema.sql `guard_status_transition', for an update that changes status *)
GuardAllows(o, s, now) ==
  /\ ~ Terminal(status[o])
  /\ Rank(s) > Rank(status[o])
  /\ now >= status_changed_at[o]

(* lib.rs `record_status', the writes of an `Advance' *)
RecordStatus(o, s, now) ==
  /\ status' = [status EXCEPT ![o] = s]
  /\ status_changed_at' = [status_changed_at EXCEPT ![o] = now]
  /\ terminated_at' = [terminated_at EXCEPT ![o] = IF Terminal(s) THEN now ELSE Never]
  /\ progress' = [progress EXCEPT ![o] = Append(@, [status |-> s, observed_at |-> now])]

Diagnostic(severity, source, may) ==
  [severity |-> severity, source |-> source, retryable |-> may]

(* lib.rs `record_error' by a platform path *)
RecordError(o, source, may) ==
  /\ retryable' = [retryable EXCEPT ![o] = may]
  /\ diagnostics' = [diagnostics EXCEPT ![o] = Append(@, Diagnostic("error", source, may))]

-----------------------------------------------------------------------------
Init ==
  /\ clock = 0
  /\ status = [o \in Ops |-> "absent"]
  /\ status_changed_at = [o \in Ops |-> 0]
  /\ terminated_at = [o \in Ops |-> Never]
  /\ retryable = [o \in Ops |-> FALSE]
  /\ cancellation_requested = [o \in Ops |-> FALSE]
  /\ progress = [o \in Ops |-> <<>>]
  /\ diagnostics = [o \in Ops |-> <<>>]
  /\ results = [o \in Ops |-> <<>>]
  /\ inbox = [m \in Msgs |-> [outcome |-> "unseen", at |-> 0]]
  /\ cancelCommands = [o \in Ops |-> 0]
  /\ bus = [m \in Msgs |-> "unpublished"]
  /\ consumer = [d \in Subjects |-> IdleConsumer]
  /\ forward = [o \in Ops |-> [pc |-> "open", now |-> 0]]
  /\ reaper = IdleReaper
  /\ shown = [o \in Ops |-> "nothing"]

Tick ==
  /\ clock < MaxClock
  /\ clock' = clock + 1
  /\ UNCHANGED <<row, inbox, cancelCommands, bus, consumer, forward, reaper, shown>>

(* lib.rs `accept': the row of a new operation, in the transaction of the
   request that asks for it.  A reporter that the kind does not list refuses it. *)
Accept(o) ==
  /\ clock <= Horizon
  /\ status[o] = "absent"
  /\ Operation[o].reporter # NoOne => Allows(Operation[o].kind, Operation[o].reporter)
  /\ status' = [status EXCEPT ![o] = "accepted"]
  /\ status_changed_at' = [status_changed_at EXCEPT ![o] = clock]
  /\ UNCHANGED <<clock, terminated_at, retryable, cancellation_requested, progress,
                 diagnostics, results, inbox, cancelCommands, bus, consumer,
                 forward, reaper, shown>>

-----------------------------------------------------------------------------
(* The bus.  A worker that knows of the operation publishes a report; the
   broker delivers a message that was not acknowledged again and again. *)

Publish(m) ==
  /\ clock <= Horizon
  /\ bus[m] = "unpublished"
  /\ Report[m].op \in Ops => status[Report[m].op] # "absent"
  /\ bus' = [bus EXCEPT ![m] = "pending"]
  /\ UNCHANGED <<clock, row, inbox, cancelCommands, consumer, forward, reaper, shown>>

(* consumer.rs `run': the next message, and the instant the delivery is given *)
Fetch(d, m) ==
  /\ clock <= Horizon
  /\ consumer[d].pc = "idle"
  /\ bus[m] = "pending"
  /\ Report[m].subject = d
  /\ consumer' = [consumer EXCEPT ![d] = [pc |-> "deliver", msg |-> m, now |-> clock]]
  /\ UNCHANGED <<clock, row, inbox, cancelCommands, bus, forward, reaper, shown>>

\* The message is settled in the database and is to be acknowledged.
Settle(d) == consumer' = [consumer EXCEPT ![d].pc = "ack"]

(* projection.rs `ProgressReport::read': a report that contradicts itself *)
Contradicts(report) ==
  \/ report.status = "failed" /\ report.error = "none"
  \/ report.status = "succeeded" /\ report.error # "none"
  \/ report.status = "partially_succeeded" /\ report.error = "none" /\ ~ report.warning

(* projection.rs `handle': anything else is recorded as rejected *)
Taken(report) ==
  /\ ~ Contradicts(report)
  /\ report.op \in Ops
  /\ status[report.op] # "absent"
  /\ Bound(Operation[report.op], report)
  /\ Transition(status[report.op], report.status) # "conflict"

(* projection.rs `handle', after the transition: the results, the error and
   the warnings of the report are appended whatever the transition was *)
Annotate(o, m) ==
  LET errors == IF Report[m].error = "none" THEN <<>>
                ELSE <<Diagnostic("error", m, Report[m].error = "retryable")>>
      warnings == IF Report[m].warning THEN <<Diagnostic("warning", m, FALSE)>> ELSE <<>>
  IN /\ results' = IF Report[m].result
                   THEN [results EXCEPT ![o] = Append(@, m)] ELSE results
     /\ diagnostics' = [diagnostics EXCEPT ![o] = (@ \o errors) \o warnings]
     /\ retryable' = IF Report[m].error = "none" THEN retryable
                     ELSE [retryable EXCEPT ![o] = (Report[m].error = "retryable")]

\* Variant: the record of the message lost, as if it were written outside the
\* transaction.
InboxFinishLost(m, outcome, now) == UNCHANGED inbox

InboxFinish(m, outcome, now) ==
  inbox' = [inbox EXCEPT ![m] = [outcome |-> outcome, at |-> now]]

(* inbox.rs `begin' conflicts: the message was processed before *)
DeliverAgain(d) ==
  /\ consumer[d].pc = "deliver"
  /\ inbox[consumer[d].msg].outcome # "unseen"
  /\ Settle(d)
  /\ UNCHANGED <<clock, row, inbox, cancelCommands, bus, forward, reaper, shown>>

DeliverRefused(d) ==
  LET m == consumer[d].msg IN
  /\ consumer[d].pc = "deliver"
  /\ inbox[m].outcome = "unseen"
  /\ ~ Taken(Report[m])
  /\ InboxFinish(m, "rejected", consumer[d].now)
  /\ Settle(d)
  /\ UNCHANGED <<clock, row, cancelCommands, bus, forward, reaper, shown>>

DeliverAdvance(d) ==
  LET m == consumer[d].msg
      o == Report[m].op
  IN
  /\ consumer[d].pc = "deliver"
  /\ inbox[m].outcome = "unseen"
  /\ Taken(Report[m])
  /\ Transition(status[o], Report[m].status) = "advance"
  /\ GuardAllows(o, Report[m].status, consumer[d].now)
  /\ RecordStatus(o, Report[m].status, consumer[d].now)
  /\ Annotate(o, m)
  /\ InboxFinish(m, "applied", consumer[d].now)
  /\ Settle(d)
  /\ UNCHANGED <<clock, cancellation_requested, cancelCommands, bus, forward, reaper, shown>>

DeliverNoAdvance(d) ==
  LET m == consumer[d].msg
      o == Report[m].op
  IN
  /\ consumer[d].pc = "deliver"
  /\ inbox[m].outcome = "unseen"
  /\ Taken(Report[m])
  /\ Transition(status[o], Report[m].status) \in {"duplicate", "stale"}
  /\ Annotate(o, m)
  /\ InboxFinish(m, Transition(status[o], Report[m].status), consumer[d].now)
  /\ Settle(d)
  /\ UNCHANGED <<clock, status, status_changed_at, terminated_at, cancellation_requested,
                 progress, cancelCommands, bus, forward, reaper, shown>>

(* A statement fails, or the trigger refuses an instant read before another
   writer of the row committed a later one: rolled back and Nak'd *)
DeliverFails(d) ==
  /\ consumer[d].pc = "deliver"
  /\ consumer' = [consumer EXCEPT ![d] = IdleConsumer]
  /\ UNCHANGED <<clock, row, inbox, cancelCommands, bus, forward, reaper, shown>>

Ack(d) ==
  /\ consumer[d].pc = "ack"
  /\ bus' = [bus EXCEPT ![consumer[d].msg] = "acked"]
  /\ consumer' = [consumer EXCEPT ![d] = IdleConsumer]
  /\ UNCHANGED <<clock, row, inbox, cancelCommands, forward, reaper, shown>>

(* the acknowledgement fails and is only logged *)
AckLost(d) ==
  /\ consumer[d].pc = "ack"
  /\ consumer' = [consumer EXCEPT ![d] = IdleConsumer]
  /\ UNCHANGED <<clock, row, inbox, cancelCommands, bus, forward, reaper, shown>>

-----------------------------------------------------------------------------
(* Edge forwards some requests to the service itself.  When the service
   refuses, Edge ends the operation: notes.rs `fail_notes_forward', archive.rs
   `fail_ai_archive_delivery'. *)

ForwardedKinds ==
  {"ai_archive.import", "notes.connection.connect", "notes.connection.write_mode"}

ForwardRefused(o) ==
  /\ clock <= Horizon
  /\ Operation[o].kind \in ForwardedKinds
  /\ status[o] # "absent"
  /\ forward[o].pc = "open"
  /\ forward' = [forward EXCEPT ![o] = [pc |-> "failing", now |-> clock]]
  /\ UNCHANGED <<clock, row, inbox, cancelCommands, bus, consumer, reaper, shown>>

CloseForward(o) == forward' = [forward EXCEPT ![o] = [pc |-> "over", now |-> 0]]

FailForward(o) ==
  /\ forward[o].pc = "failing"
  /\ Transition(status[o], "failed") = "advance"
  /\ GuardAllows(o, "failed", forward[o].now)
  /\ RecordStatus(o, "failed", forward[o].now)
  /\ \E may \in IF Operation[o].kind \in ProviderBound THEN {TRUE} ELSE BOOLEAN :
       RecordError(o, "edge", may)
  /\ CloseForward(o)
  /\ UNCHANGED <<clock, cancellation_requested, results, inbox, cancelCommands, bus,
                 consumer, reaper, shown>>

(* The operation ended first (Duplicate or ConflictingOutcome), or a statement
   or the trigger fails and is only logged: nothing is written. *)
LeaveForward(o) ==
  /\ forward[o].pc = "failing"
  /\ CloseForward(o)
  /\ UNCHANGED <<clock, row, inbox, cancelCommands, bus, consumer, reaper, shown>>

-----------------------------------------------------------------------------
(* public-api operations.rs `cancel' over cancel.rs `request_cancellation':
   one command for the owner's first request while the operation lives.  The
   other two answers, and the request of somebody else, write nothing. *)
RequestCancellation(o) ==
  /\ status[o] # "absent"
  /\ ~ Terminal(status[o])
  /\ ~ cancellation_requested[o]
  /\ cancellation_requested' = [cancellation_requested EXCEPT ![o] = TRUE]
  /\ cancelCommands' = [cancelCommands EXCEPT ![o] = @ + 1]
  /\ UNCHANGED <<clock, status, status_changed_at, terminated_at, retryable, progress,
                 diagnostics, results, inbox, bus, consumer, forward, reaper, shown>>

Count(o, severity) ==
  {i \in DOMAIN diagnostics[o] : diagnostics[o][i].severity = severity}

(* lib.rs `snapshot': the cross-field rules of the public contract *)
SnapshotValid(o) ==
  /\ status[o] = "failed" => Count(o, "error") # {}
  /\ status[o] = "succeeded" => Count(o, "error") = {}
  /\ status[o] = "partially_succeeded" => DOMAIN diagnostics[o] # {}

(* A client polls, or reads the answer `truth' of its cancellation: the
   snapshot, which a row that violates the contract does not have. *)
Show(o) ==
  /\ status[o] # "absent"
  /\ Terminal(status[o])
  /\ SnapshotValid(o)
  /\ shown' = [shown EXCEPT ![o] = status[o]]
  /\ UNCHANGED <<clock, row, inbox, cancelCommands, bus, consumer, forward, reaper>>

-----------------------------------------------------------------------------
(* reconcile.rs *)

\* Variant: only work that was seen running can go stale.
StaleOnceRunning(o, now) ==
  /\ status[o] = "running"
  /\ terminated_at[o] = Never
  /\ status_changed_at[o] + StaleAfter < now

(* greatest(status_changed_at, max(observed_at)) < now - stale_after *)
Stale(o, now) ==
  /\ status[o] \in LiveStatus
  /\ terminated_at[o] = Never
  /\ status_changed_at[o] + StaleAfter < now
  /\ \A i \in DOMAIN progress[o] : progress[o][i].observed_at + StaleAfter < now

(* `run_once': the oldest stale operations, selected without a lock.  The
   order inside one pass is left open. *)
SelectStale ==
  /\ reaper.batch = {}
  /\ \E chosen \in SUBSET {o \in Ops : Stale(o, clock)} :
       LET left == {o \in Ops : Stale(o, clock)} \ chosen IN
       /\ chosen # {}
       /\ Cardinality(chosen) <= Batch
       /\ left # {} => Cardinality(chosen) = Batch
       /\ \A o \in chosen, p \in left : status_changed_at[o] <= status_changed_at[p]
       /\ reaper' = [now |-> clock, batch |-> chosen]
  /\ UNCHANGED <<clock, row, inbox, cancelCommands, bus, consumer, forward, shown>>

Examined(o) ==
  reaper' = IF reaper.batch = {o} THEN IdleReaper
            ELSE [reaper EXCEPT !.batch = @ \ {o}]

\* Variant: the selection is trusted, the row is not looked at again.
ReconcileOneUnchecked(o) ==
  /\ o \in reaper.batch
  /\ GuardAllows(o, "failed", reaper.now)
  /\ RecordStatus(o, "failed", reaper.now)
  /\ RecordError(o, "reaper", TRUE)
  /\ Examined(o)
  /\ UNCHANGED <<clock, cancellation_requested, results, inbox, cancelCommands, bus,
                 consumer, forward, shown>>

(* `reconcile_one': the predicate again under the lock, then the end *)
ReconcileOne(o) ==
  /\ o \in reaper.batch
  /\ Stale(o, reaper.now)
  /\ GuardAllows(o, "failed", reaper.now)
  /\ RecordStatus(o, "failed", reaper.now)
  /\ RecordError(o, "reaper", TRUE)
  /\ Examined(o)
  /\ UNCHANGED <<clock, cancellation_requested, results, inbox, cancelCommands, bus,
                 consumer, forward, shown>>

SkipOne(o) ==
  /\ o \in reaper.batch
  /\ ~ Stale(o, reaper.now)
  /\ Examined(o)
  /\ UNCHANGED <<clock, row, inbox, cancelCommands, bus, consumer, forward, shown>>

(* a statement fails and the rest of the pass is left for the next tick *)
AbortPass ==
  /\ reaper.batch # {}
  /\ reaper' = IdleReaper
  /\ UNCHANGED <<clock, row, inbox, cancelCommands, bus, consumer, forward, shown>>

(* ratatoskr-edge dies: what is committed stays, what it was doing is lost *)
Crash ==
  /\ consumer' = [d \in Subjects |-> IdleConsumer]
  /\ forward' = [o \in Ops |-> IF forward[o].pc = "failing"
                               THEN [pc |-> "over", now |-> 0] ELSE forward[o]]
  /\ reaper' = IdleReaper
  /\ <<consumer, forward, reaper>>' # <<consumer, forward, reaper>>
  /\ UNCHANGED <<clock, row, inbox, cancelCommands, bus, shown>>

-----------------------------------------------------------------------------
Deliver(d) ==
  \/ DeliverAgain(d) \/ DeliverRefused(d) \/ DeliverAdvance(d)
  \/ DeliverNoAdvance(d) \/ DeliverFails(d)

(* what callers and services bring ... *)
Arrival == (\E o \in Ops : Accept(o)) \/ (\E m \in Msgs : Publish(m))

(* ... and what the platform does with it *)
Handling ==
  \/ Tick
  \/ \E d \in Subjects : \/ \E m \in Msgs : Fetch(d, m)
                         \/ Deliver(d) \/ Ack(d) \/ AckLost(d)
  \/ \E o \in Ops : \/ RequestCancellation(o) \/ Show(o)
                    \/ ForwardRefused(o) \/ FailForward(o) \/ LeaveForward(o)
                    \/ ReconcileOne(o) \/ SkipOne(o)
  \/ SelectStale \/ AbortPass \/ Crash

Next == Arrival \/ Handling

Spec == Init /\ [][Next]_vars

(* Time passes and the reaper's ticker fires.  A statement of the pass may
   fail, and Edge may die, but not in every pass from some instant on: the
   step that a pass keeps reaching is one day taken. *)
Fairness ==
  /\ WF_vars(Tick)
  /\ WF_vars(SelectStale)
  /\ \A o \in Ops : SF_vars(ReconcileOne(o)) /\ WF_vars(SkipOne(o))

FairSpec == Spec /\ Fairness

-----------------------------------------------------------------------------
(* Properties *)

\* Every column, history and task holds a value of its kind (schema.sql, the
\* CHECK constraints of operations.operations and operations.inbox).
TypeOK ==
  /\ clock \in Time
  /\ status \in [Ops -> Status \union {"absent"}]
  /\ status_changed_at \in [Ops -> Time]
  /\ terminated_at \in [Ops -> Time \union {Never}]
  /\ retryable \in [Ops -> BOOLEAN]
  /\ cancellation_requested \in [Ops -> BOOLEAN]
  /\ progress \in [Ops -> Seq([status : Status, observed_at : Time])]
  /\ diagnostics \in
       [Ops -> Seq([severity : {"error", "warning"},
                    source : Msgs \union {"edge", "reaper"}, retryable : BOOLEAN])]
  /\ results \in [Ops -> Seq(Msgs)]
  /\ inbox \in
       [Msgs -> [outcome : {"unseen", "applied", "duplicate", "stale", "rejected"}, at : Time]]
  /\ cancelCommands \in [Ops -> Nat]
  /\ bus \in [Msgs -> {"unpublished", "pending", "acked"}]
  /\ consumer \in
       [Subjects -> [pc : {"idle", "deliver", "ack"}, msg : Msgs \union {NoMessage}, now : Time]]
  /\ forward \in [Ops -> [pc : {"open", "failing", "over"}, now : Time]]
  /\ reaper \in [now : Time, batch : SUBSET Ops]
  /\ shown \in [Ops -> TerminalStatus \union {"nothing"}]

\* The history a client replays tells the story of the row it polls: it climbs
\* the ranks, never goes back in time, ends at the stored status and instant,
\* and the row has ended exactly when its status is an outcome.  Five writers
\* append to it, each with an instant it read before it had the lock (lib.rs
\* `record_status' and the trigger behind it).
HistoryTellsTheStatus ==
  \A o \in Ops :
    /\ (progress[o] = <<>>) <=> (status[o] \in {"absent", "accepted"})
    /\ \A i \in DOMAIN progress[o] :
         i > 1 => /\ Rank(progress[o][i - 1].status) < Rank(progress[o][i].status)
                  /\ progress[o][i - 1].observed_at <= progress[o][i].observed_at
    /\ progress[o] # <<>> =>
         progress[o][Len(progress[o])] =
           [status |-> status[o], observed_at |-> status_changed_at[o]]
    /\ terminated_at[o] =
         IF status[o] \in TerminalStatus THEN status_changed_at[o] ELSE Never

\* projection.rs:184 says why a report that contradicts itself is rejected: it
\* would store what the snapshot cannot represent, and every read of the
\* operation would fail.  A report of work that continues may bring an error,
\* and a success after it does the same.
EveryOperationProjects ==
  \A o \in Ops : status[o] # "absent" => SnapshotValid(o)

\* Nothing but that makes an operation unreadable: neither an order of valid
\* reports, nor a late one, nor a failed forward, nor the reaper (projection.rs
\* `handle', lib.rs `snapshot').
OnlyEarlyErrorsHide ==
  \A o \in Ops : status[o] # "absent" /\ ~ SnapshotValid(o) =>
    /\ status[o] = "succeeded"
    /\ \A i \in Count(o, "error") :
         LET source == diagnostics[o][i].source IN
         source \in Msgs /\ Report[source].status \in LiveStatus

\* A report adds its result, its error and its warning to at most one history,
\* once, and only if the inbox says it was not refused, however often the bus
\* delivers it and wherever the process dies (consumer.rs `deliver').
EachReportCountsOnce ==
  \A o \in Ops :
    /\ \A i, j \in DOMAIN results[o] : results[o][i] = results[o][j] => i = j
    /\ \A i, j \in DOMAIN diagnostics[o] :
         /\ diagnostics[o][i].severity = diagnostics[o][j].severity
         /\ diagnostics[o][i].source = diagnostics[o][j].source
         => i = j
    /\ \A m \in Msgs :
         \/ \E i \in DOMAIN results[o] : results[o][i] = m
         \/ \E i \in DOMAIN diagnostics[o] : diagnostics[o][i].source = m
         => inbox[m].outcome \notin {"unseen", "rejected"} /\ Report[m].op = o

\* A message leaves the bus only after the inbox holds what became of it: no
\* crash between the commit and the acknowledgement loses a report.
AcknowledgedIsRecorded ==
  \A m \in Msgs : bus[m] = "acked" => inbox[m].outcome # "unseen"

\* The service that the operation was handed to: the importer of the archive's
\* provider, or the reporter recorded at acceptance.
DispatchedTo(o) ==
  IF Operation[o].provider # NoOne THEN Operation[o].provider ELSE Operation[o].reporter

\* No report of another service, and none in the name of another user, is ever
\* taken into an operation, although they all share one subject (authority.rs).
OnlyItsServiceIsBelieved ==
  \A m \in Msgs :
    inbox[m].outcome \notin {"unseen", "rejected"} =>
      LET o == Report[m].op IN
      /\ o \in Ops
      /\ Report[m].producer = DispatchedTo(o)
      /\ Report[m].tenant \in {NoOne, Operation[o].owner}
      /\ Report[m].tenant = NoOne => Operation[o].provider # NoOne

\* However many requests to stop race, the service is sent one stop command
\* per operation, and exactly when the request is on record (operations.rs
\* `cancel': the marker and the command commit together).
OneStopCommandPerRequest ==
  \A o \in Ops : cancelCommands[o] = IF cancellation_requested[o] THEN 1 ELSE 0

\* The reaper never ends an operation that advanced inside the window it
\* measures, although it selects without a lock and acts later: the fact a
\* worker committed in between wins (reconcile.rs `reconcile_one').
FreshFactWins ==
  [][\A o \in Ops :
       (status[o] # status'[o] /\ o \in reaper.batch /\ reaper' # reaper) =>
         status_changed_at[o] + StaleAfter < reaper.now]_vars

\* An outcome, once stored, is never rewritten, and a request to stop or the
\* instant of the end is never taken back: lib.rs `record_status' is the only
\* writer, whoever calls it and in whatever order.
EndIsFinal ==
  [][\A o \in Ops :
       /\ terminated_at[o] # Never =>
            UNCHANGED <<status[o], status_changed_at[o], terminated_at[o], progress[o]>>
       /\ cancellation_requested[o] => cancellation_requested'[o]]_vars

\* The abstract life of an operation: an outcome shown to a client is final.
Lifecycle == INSTANCE OperationLifecycle WITH phase <- status
ImplementsLifecycle == Lifecycle!Spec

\* An operation that was accepted ends, whatever its service does: reports,
\* dies, or never receives the command (ADR-0014, the reason of the reaper).
EveryOperationEnds ==
  \A o \in Ops : (status[o] # "absent") ~> (status[o] \in TerminalStatus)

\* reconcile.rs:8-13 and ADR-0014 say it: an operation whose worker reports
\* inside the window is alive and is not harvested.  A report is heard when the
\* inbox records it as anything but rejected.
Heard(o, since) ==
  \E m \in Msgs :
    /\ Report[m].op = o
    /\ inbox[m].outcome \notin {"unseen", "rejected"}
    /\ inbox[m].at >= since
ReportingIsNeverHarvested ==
  [][\A o \in Ops :
       (status[o] # status'[o] /\ o \in reaper.batch /\ reaper' # reaper) =>
         ~ Heard(o, reaper.now - StaleAfter)]_vars
=============================================================================

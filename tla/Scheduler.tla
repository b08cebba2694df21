----------------------------- MODULE Scheduler ------------------------------
(***************************************************************************)
(* Periodic commands (crate scheduling: lib.rs, registration.rs).  A pass  *)
(* reads which schedules are due, without a lock, and handles each in a    *)
(* transaction of its own: lock the row and read it again, publish its     *)
(* occurrence unless it is on record, move the schedule to the next due    *)
(* time.  A restart overlaps a drain, so passes overlap; registrations     *)
(* edit the rows meanwhile, an operator may rewind one, and the retention  *)
(* sweep forgets old occurrences.  A cron expression is a period.  Whom a  *)
(* schedule's operations are accepted for, and as what kind, is its        *)
(* principal: an idempotency key is unique under it, and an edit may       *)
(* change it.                                                              *)
(***************************************************************************)
EXTENDS Integers, FiniteSets

CONSTANTS
  Schedules,      \* schedule identities: (service, name)
  Broken,         \* those whose command cannot be built (`digest_occurrence')
  Principals,     \* pairs of owner_user_id and operation_kind
  Schedulers,     \* the processes of the role
  Periods,        \* the cron expressions
  Registrations,  \* what services send: <<schedule, period, enabled, principal>>
  Batch,          \* TICK_BATCH
  Window,         \* schedule_occurrence_days
  Horizon,        \* bound on the clock
  MaxEdits,       \* bound on registrations
  MaxRewinds      \* bound on what operators do

ASSUME SchedulerAssumption ==
  /\ Broken \subseteq Schedules
  /\ Periods \subseteq Nat \ {0} /\ \E p \in Periods : \A q \in Periods : q <= p
  /\ Batch \in Nat \ {0} /\ {Window, Horizon, MaxEdits, MaxRewinds} \subseteq Nat

VARIABLES
  clock,
  schedule,       \* operations.schedules
  occurrences,    \* operations.schedule_occurrences
  operations,     \* the keys of the operations under their principals, never deleted
  commands,       \* how often a due time's command was enqueued for a principal
  forgotten,      \* the occurrences the sweep deleted (history, read by no step)
  pass,           \* the pass of each scheduler
  edit,           \* the registration under way, its instant read
  edits, rewinds  \* how many there were

rows == <<schedule, occurrences, operations, commands, forgotten>>
vars == <<clock, rows, pass, edit, edits, rewinds>>

Times == 0..(Horizon + CHOOSE p \in Periods : \A q \in Periods : q <= p)

\* registration.rs `next_after': the first point of the grid after `t'.
NextAfter(period, t) == ((t \div period) + 1) * period

Unregistered == [next |-> 0, period |-> 0, enabled |-> FALSE, principal |-> "none"]
Resting == [pc |-> "idle", now |-> 0, todo |-> {}, id |-> "none"]
NoEdit == [under |-> FALSE, now |-> 0]

Init ==
  /\ clock = 0
  /\ schedule = [s \in Schedules |-> Unregistered]
  /\ occurrences = {} /\ operations = {} /\ forgotten = {}
  /\ commands = [s \in Schedules |-> [d \in Times |-> [u \in Principals |-> 0]]]
  /\ pass = [p \in Schedulers |-> Resting]
  /\ edit = NoEdit
  /\ edits = 0 /\ rewinds = 0

Tick ==
  /\ clock < Horizon
  /\ clock' = clock + 1
  /\ UNCHANGED <<rows, pass, edit, edits, rewinds>>

Due(s, now) == schedule[s].enabled /\ schedule[s].next <= now
Locked(s) == \E p \in Schedulers : pass[p].pc = "locked" /\ pass[p].id = s

\* `due_schedules': the longest due first, up to the batch.
StartPass(p) ==
  /\ pass[p].pc = "idle"
  /\ \E todo \in SUBSET Schedules :
       LET left == {s \in Schedules : Due(s, clock)} \ todo IN
       /\ \A s \in todo : Due(s, clock)
       /\ Cardinality(todo) <= Batch
       /\ left # {} => Cardinality(todo) = Batch
       /\ \A s \in todo, t \in left : schedule[s].next <= schedule[t].next
       /\ pass' = [pass EXCEPT ![p] =
                      [Resting EXCEPT !.pc = "pass", !.now = clock,
                                      !.todo = {<<s, schedule[s].next>> : s \in todo}]]
  /\ UNCHANGED <<clock, rows, edit, edits, rewinds>>

\* `run_once' takes the schedules in the order of the query.
Foremost(p, s, due) ==
  <<s, due>> \in pass[p].todo /\ \A other \in pass[p].todo : due <= other[2]

\* `claim': lock the row and read it again.  Taken by another, disabled or
\* rescheduled meanwhile, there is nothing to do and nothing wrong.
Claim(p, s) ==
  /\ pass[p].pc = "pass"
  /\ \E due \in Times :
       /\ Foremost(p, s, due)
       /\ LET rest == [pass[p] EXCEPT !.todo = @ \ {<<s, due>>}] IN
          pass' = [pass EXCEPT ![p] = IF Locked(s) \/ ~ Due(s, pass[p].now) THEN rest
                                      ELSE [rest EXCEPT !.pc = "locked", !.id = s]]
  /\ UNCHANGED <<clock, rows, edit, edits, rewinds>>

Holds(p, s) == pass[p].pc = "locked" /\ pass[p].id = s
Release(p) == pass' = [pass EXCEPT ![p].pc = "pass", ![p].id = "none"]

\* Variant: the identity is that of the publication.
OccurrenceOfNow(s, due, now) == <<s, due, now>>
\* `occurrence_id': that of the schedule and its due time.
OccurrenceId(s, due, now) == <<s, due>>
Recorded(s, due, now) == \E o \in occurrences : o.id = OccurrenceId(s, due, now)

\* Variant: what was missed is not made up for.
FollowingNow(row, now) == NextAfter(row.period, now)
\* `handle': the next due time after the one that was handled.
Following(row, now) == NextAfter(row.period, row.next)

\* What schema.sql operations_idempotency_key_scope_key compares.
KeyOf(s, due, now) == <<schedule[s].principal, OccurrenceId(s, due, now)>>

\* `publish' refuses: the command cannot be built, or an operation of the
\* schedule's principal holds the occurrence's idempotency key.
Refused(s, due, now) == s \in Broken \/ KeyOf(s, due, now) \in operations

Reschedule(s, now) == schedule' = [schedule EXCEPT ![s].next = Following(schedule[s], now)]

\* `publish' and `reschedule', and the commit of both: operation, occurrence,
\* command and the next due time appear together.  The command counts as
\* enqueued even if an outbox row could still have absorbed it.
Publish(p, s) ==
  LET due == schedule[s].next
      now == pass[p].now IN
  /\ Holds(p, s)
  /\ ~ Recorded(s, due, now) /\ ~ Refused(s, due, now)
  /\ occurrences' = occurrences \union {[id |-> OccurrenceId(s, due, now), at |-> now]}
  /\ operations' = operations \union {KeyOf(s, due, now)}
  /\ commands' = [commands EXCEPT ![s][due][schedule[s].principal] = @ + 1]
  /\ Reschedule(s, now)
  /\ Release(p)
  /\ UNCHANGED <<clock, forgotten, edit, edits, rewinds>>

\* On record: suppressed, and the schedule still moves on.
Suppress(p, s) ==
  /\ Holds(p, s)
  /\ Recorded(s, schedule[s].next, pass[p].now)
  /\ Reschedule(s, pass[p].now)
  /\ Release(p)
  /\ UNCHANGED <<clock, occurrences, operations, commands, forgotten, edit, edits, rewinds>>

\* Variant: one failure ends the pass.
FailEndsPass(p, s) ==
  /\ Holds(p, s)
  /\ ~ Recorded(s, schedule[s].next, pass[p].now) /\ Refused(s, schedule[s].next, pass[p].now)
  /\ pass' = [pass EXCEPT ![p] = Resting]
  /\ UNCHANGED <<clock, rows, edit, edits, rewinds>>

\* The transaction of one schedule fails; its row is untouched and the pass
\* goes on (`run_once').
Fail(p, s) ==
  /\ Holds(p, s)
  /\ ~ Recorded(s, schedule[s].next, pass[p].now) /\ Refused(s, schedule[s].next, pass[p].now)
  /\ Release(p)
  /\ UNCHANGED <<clock, rows, edit, edits, rewinds>>

EndPass(p) ==
  /\ pass[p].pc = "pass" /\ pass[p].todo = {}
  /\ pass' = [pass EXCEPT ![p] = Resting]
  /\ UNCHANGED <<clock, rows, edit, edits, rewinds>>

\* The database or the process fails in the middle of a pass.
CutOff(p) ==
  /\ pass[p].pc # "idle"
  /\ pass' = [pass EXCEPT ![p] = Resting]
  /\ UNCHANGED <<clock, rows, edit, edits, rewinds>>

\* A registration command is delivered and its handler reads its instant ...
BeginEdit ==
  /\ ~ edit.under /\ edits < MaxEdits
  /\ edit' = [under |-> TRUE, now |-> clock]
  /\ edits' = edits + 1
  /\ UNCHANGED <<clock, rows, pass, rewinds>>

\* Variant: the edit starts the schedule afresh.
RetainedNot(row, period, now) == NextAfter(period, now)
\* registration.rs `apply': an occurrence that is due stays due.
Retained(row, period, now) ==
  IF row # Unregistered /\ row.next <= now THEN row.next ELSE NextAfter(period, now)

\* ... and upserts the row, behind whoever has it locked.  Its owner and its
\* kind are rewritten with the rest.
ApplyEdit(s, period, enabled, principal) ==
  /\ <<s, period, enabled, principal>> \in Registrations
  /\ edit.under
  /\ ~ Locked(s)
  /\ schedule' = [schedule EXCEPT ![s] = [next |-> Retained(@, period, edit.now),
                                          period |-> period, enabled |-> enabled,
                                          principal |-> principal]]
  /\ edit' = NoEdit
  /\ UNCHANGED <<clock, occurrences, operations, commands, forgotten, pass, edits, rewinds>>

\* An operator moves next_due_at back.
Rewind(s, t) ==
  /\ rewinds < MaxRewinds
  /\ ~ Locked(s) /\ t < schedule[s].next
  /\ t > 0 /\ t % schedule[s].period = 0
  /\ schedule' = [schedule EXCEPT ![s].next = t]
  /\ rewinds' = rewinds + 1
  /\ UNCHANGED <<clock, occurrences, operations, commands, forgotten, pass, edit, edits>>

\* `collect_occurrences_before'
CollectOccurrences ==
  /\ \E o \in occurrences : o.at < clock - Window
  /\ occurrences' = {o \in occurrences : o.at >= clock - Window}
  /\ forgotten' = forgotten \union {o.id : o \in occurrences \ occurrences'}
  /\ UNCHANGED <<clock, schedule, operations, commands, pass, edit, edits, rewinds>>

Next ==
  \/ Tick \/ BeginEdit \/ CollectOccurrences
  \/ \E s \in Schedules :
       \/ \E period \in Periods, enabled \in BOOLEAN, principal \in Principals :
            ApplyEdit(s, period, enabled, principal)
       \/ \E t \in Times : Rewind(s, t)
  \/ \E p \in Schedulers :
       \/ StartPass(p) \/ EndPass(p) \/ CutOff(p)
       \/ \E s \in Schedules : Claim(p, s) \/ Publish(p, s) \/ Suppress(p, s) \/ Fail(p, s)

Spec == Init /\ [][Next]_vars

Handle(p, s) == Publish(p, s) \/ Suppress(p, s) \/ Fail(p, s)

\* The clock goes on.  A process that stays has its loop tick, and a schedule
\* that it could handle again and again it handles some time, though passes may
\* be cut off.  A process that is draining has ended at last.
Stays(p) ==
  /\ SF_vars(StartPass(p)) /\ SF_vars(EndPass(p))
  /\ \A s \in Schedules : SF_vars(Claim(p, s)) /\ SF_vars(Handle(p, s))

Fairness(staying) ==
  /\ WF_vars(Tick)
  /\ \A p \in staying : Stays(p)
  /\ \A p \in Schedulers \ staying : <>[](pass[p].pc = "idle")

-----------------------------------------------------------------------------
(* Properties *)

\* Rows, passes and counters are of their kind; a row moves on to a due time
\* of the calendar (schema.sql schedules).
TypeOK ==
  /\ clock \in 0..Horizon
  /\ \A s \in Schedules :
       \/ schedule[s] = Unregistered
       \/ schedule[s] \in [next : Times \ {0}, period : Periods, enabled : BOOLEAN,
                           principal : Principals]
  /\ \A o \in occurrences : o.id[1] \in Schedules /\ o.at \in 0..clock
  /\ \A key \in operations : key[1] \in Principals /\ key[2][1] \in Schedules
  /\ \A id \in forgotten : id[1] \in Schedules
  /\ commands \in [Schedules -> [Times -> [Principals -> Nat]]]
  /\ pass \in [Schedulers -> [pc : {"idle", "pass", "locked"}, now : 0..Horizon,
                              todo : SUBSET (Schedules \X Times), id : Schedules \union {"none"}]]
  /\ edit \in [under : BOOLEAN, now : 0..clock]
  /\ edits \in 0..MaxEdits /\ rewinds \in 0..MaxRewinds

Published(s, d) == \E u \in Principals : commands[s][d][u] > 0

\* A due time is published once.  While its record stands, neither an
\* overlapping process, nor an edit (one that read its instant before the
\* occurrence was handled and so moves the schedule back, one that hands the
\* schedule to another owner), nor a rewind makes it twice; and for one owner
\* and kind it is never twice, sweep or no sweep (lib.rs `handle', `publish';
\* lib.rs:485, schema.sql operations_idempotency_key_scope_key).
PublishedOnce ==
  \A s \in Schedules, d \in Times, u, v \in Principals :
    /\ commands[s][d][u] <= 1
    /\ commands[s][d][u] > 0 /\ commands[s][d][v] > 0 => u = v \/ <<s, d>> \in forgotten

\* A point that is on every calendar is never left out: between the first
\* occurrence and the next due time it is published, however late a pass comes
\* and however often the schedule is registered again (lib.rs `handle').
GridIsCovered ==
  \A s \in Schedules, first, d \in Times :
    /\ Published(s, first) /\ first < d /\ d < schedule[s].next
    /\ \A period \in Periods : d % period = 0
    => Published(s, d)

\* A due occurrence is given up by nobody: the schedule moves past it only once
\* it is published, or by an edit whose instant lies before it (registration.rs
\* `apply', `next_due_at <= $10').
DueIsNotSkipped ==
  [][\A s \in Schedules : Due(s, clock) /\ schedule'[s].next > schedule[s].next =>
       \/ \E u \in Principals : commands'[s][schedule[s].next][u] > 0
       \/ edit.under /\ ~ edit'.under /\ edit.now < schedule[s].next]_vars

\* A schedule that fails on every pass does not keep another, later one from
\* its turn: a due time that was never published is handled (lib.rs `run_once',
\* one transaction per schedule).  With as many broken schedules as a pass takes
\* (Batch), the longest due, it does.
OthersAreHandled ==
  \A s \in Schedules \ Broken, d \in Times :
    (Due(s, clock) /\ schedule[s].next = d /\ \A u \in Principals : <<u, <<s, d>>>> \notin operations)
    ~> ~ (Due(s, clock) /\ schedule[s].next = d)

\* lib.rs:336 says it of the occurrence identifier: three independent refusals
\* of a duplicate.  The operation's is one of its owner and kind, and an edit
\* that changes either leaves the record alone to refuse.
NeverTwice ==
  \A s \in Schedules, d \in Times, u, v \in Principals :
    commands[s][d][u] > 0 /\ commands[s][d][v] > 0 => u = v

\* lib.rs:487 says it of the occurrence window: moved back further than that, a
\* schedule republishes rather than being suppressed.  For the same owner and
\* kind the operation still refuses it.
RewindRepublishes ==
  \A s \in Schedules, d \in Times :
    (/\ Due(s, clock) /\ schedule[s].next = d /\ rewinds > 0
     /\ \A o \in occurrences : o.id # <<s, d>>)
    ~> (schedule[s].next # d \/ ~ schedule[s].enabled)
=============================================================================

------------------------------- MODULE Outbox -------------------------------
(***************************************************************************)
(* The transactional outbox and its publishers (eventing: outbox.rs,       *)
(* pump.rs, publisher.rs; schema.sql operations.outbox).  A pass of the    *)
(* pump claims due rows under a lease, sends each to the broker, and marks *)
(* it published, backed off or dead-lettered.  Nothing but the lease keeps *)
(* two publishers apart, and no mark asks who holds the row.               *)
(*                                                                         *)
(* An instant is kept as its distance from the present, so that time may   *)
(* pass for ever: `wait' is next_attempt_at, `lease' is claimed_until and  *)
(* `age' is how long ago a pass read its `now'.                            *)
(***************************************************************************)
EXTENDS Integers, FiniteSets

CONSTANTS
  Msgs,           \* message identities
  Publishers,     \* the tasks that run the pump
  Lease,          \* CLAIM_LEASE_SECONDS, in ticks
  MaxBackoff,     \* MAX_BACKOFF_SECONDS, in ticks
  MaxAttempts,    \* MAX_ATTEMPTS
  Batch,          \* PUMP_BATCH
  Longest         \* bound: instants further back than this are one

ASSUME OutboxAssumption ==
  /\ Lease \in Nat \ {0} /\ MaxBackoff \in Nat \ {0}
  /\ MaxAttempts \in Nat \ {0} /\ Batch \in Nat \ {0}
  /\ Longest \in Nat /\ Lease <= Longest /\ MaxBackoff <= Longest

VARIABLES
  stored,         \* the messages that have a row in operations.outbox
  collected,      \* the messages whose row the retention sweep deleted
  wait, lease, attempts, published, dead,   \* the columns of the row
  bus,            \* the messages the broker stored
  publisher       \* the pass of each publisher

columns == <<wait, lease, attempts, published, dead>>
vars == <<stored, collected, columns, bus, publisher>>

NoMessage == "no message"
Idle == [pc |-> "idle", age |-> 0, held |-> {}, msg |-> NoMessage]

Since(n) == IF n < -Longest THEN -Longest ELSE n
Null == -Longest - 1            \* no lease

-----------------------------------------------------------------------------
Init ==
  /\ stored = {} /\ collected = {} /\ bus = {}
  /\ wait = [m \in Msgs |-> 0]
  /\ lease = [m \in Msgs |-> Null]
  /\ attempts = [m \in Msgs |-> 0]
  /\ published = [m \in Msgs |-> FALSE]
  /\ dead = [m \in Msgs |-> FALSE]
  /\ publisher = [p \in Publishers |-> Idle]

Tick ==
  /\ wait' = [m \in Msgs |-> IF m \in stored THEN Since(wait[m] - 1) ELSE wait[m]]
  /\ lease' = [m \in Msgs |-> IF lease[m] = Null THEN Null ELSE Since(lease[m] - 1)]
  /\ publisher' = [p \in Publishers |->
       IF publisher[p].pc = "idle" \/ publisher[p].age = Longest THEN publisher[p]
       ELSE [publisher[p] EXCEPT !.age = @ + 1]]
  /\ UNCHANGED <<stored, collected, attempts, published, dead, bus>>

\* outbox.rs `enqueue', in the transaction of the change that it tells about
Enqueue(m) ==
  /\ m \notin stored \union collected
  /\ stored' = stored \union {m}
  /\ UNCHANGED <<collected, columns, bus, publisher>>

Live(m) == m \in stored /\ ~ published[m] /\ ~ dead[m]

\* Variant: the claim is a flag, that only a mark takes down.
UnflaggedAt(m, age) == lease[m] = Null
Unclaimed(m, age) == lease[m] = Null \/ lease[m] + age <= 0

\* What outbox.rs `claim' may take at an instant `age' ago.
Due(m, age) ==
  /\ Live(m)
  /\ wait[m] + age <= 0
  /\ Unclaimed(m, age)

\* outbox.rs `claim': the longest due first, up to the batch, for a pass that
\* read its `now' `age' before the statement ran.
Claim(p) ==
  /\ publisher[p].pc = "idle"
  /\ \E age \in 0..Longest, taken \in SUBSET Msgs :
       LET left == {m \in Msgs : Due(m, age)} \ taken IN
       /\ taken # {}
       /\ \A m \in taken : Due(m, age)
       /\ Cardinality(taken) <= Batch
       /\ left # {} => Cardinality(taken) = Batch
       /\ \A m \in taken, n \in left : wait[m] <= wait[n]
       /\ lease' = [m \in Msgs |-> IF m \in taken THEN Since(Lease - age) ELSE lease[m]]
       /\ publisher' = [publisher EXCEPT ![p] =
                          [Idle EXCEPT !.pc = "send", !.age = age, !.held = taken]]
  /\ UNCHANGED <<stored, collected, wait, attempts, published, dead, bus>>

\* The pass sends the next row that it holds and learns `answer'.
Answered(p, m, answer) ==
  /\ publisher[p].pc = "send"
  /\ m \in publisher[p].held
  /\ publisher' = [publisher EXCEPT ![p].pc = answer, ![p].msg = m]
  /\ UNCHANGED <<stored, collected, columns>>

\* publisher.rs `publish': the broker stored it and its acknowledgement came
Acknowledged(p, m) ==
  /\ Answered(p, m, "acked")
  /\ bus' = bus \union {m}

\* Variant: sent is taken for stored.
RefusedForgotten(p, m) ==
  \/ Answered(p, m, "acked") /\ UNCHANGED bus
  \/ Answered(p, m, "failed") /\ bus' = bus \union {m}

\* It did not come: the broker refused, was not there, or stored the message
\* and the answer was lost.  The publisher cannot tell one from another.
Refused(p, m) ==
  /\ Answered(p, m, "failed")
  /\ \/ UNCHANGED bus
     \/ bus' = bus \union {m}

\* The row that the pass just sent is marked; the pass goes on with the rest.
Marked(p) ==
  LET rest == publisher[p].held \ {publisher[p].msg} IN
  publisher' = [publisher EXCEPT ![p] =
    IF rest = {} THEN Idle ELSE [@ EXCEPT !.pc = "send", !.held = rest, !.msg = NoMessage]]

Backoff(n) == IF 2^n < MaxBackoff THEN 2^n ELSE MaxBackoff

\* Variant: the last attempt is told by equality.
ExhaustedExactly(n) == n + 1 = MaxAttempts
Exhausted(n) == n + 1 >= MaxAttempts

\* CHECK outbox_is_not_both_published_and_dead_lettered refuses the mark.
CheckRefuses(p) ==
  LET m == publisher[p].msg IN
  /\ m \in stored
  /\ \/ publisher[p].pc = "acked" /\ dead[m]
     \/ publisher[p].pc = "failed" /\ published[m] /\ Exhausted(attempts[m])

\* outbox.rs `mark_published', which asks nothing but that the row exists.
MarkPublished(p) ==
  LET m == publisher[p].msg IN
  /\ publisher[p].pc = "acked"
  /\ ~ CheckRefuses(p)
  /\ IF m \in stored
     THEN /\ published' = [published EXCEPT ![m] = TRUE]
          /\ lease' = [lease EXCEPT ![m] = Null]
     ELSE UNCHANGED <<published, lease>>
  /\ Marked(p)
  /\ UNCHANGED <<stored, collected, wait, attempts, dead, bus>>

\* outbox.rs `mark_failed': back off, or dead-letter.  The assignment is made
\* whatever the row was.
MarkFailed(p) ==
  LET m == publisher[p].msg IN
  /\ publisher[p].pc = "failed"
  /\ ~ CheckRefuses(p)
  /\ IF m \in stored
     THEN /\ attempts' = [attempts EXCEPT ![m] = @ + 1]
          /\ dead' = [dead EXCEPT ![m] = Exhausted(attempts[m])]
          /\ wait' = [wait EXCEPT ![m] = Since(Backoff(attempts[m]) - publisher[p].age)]
          /\ lease' = [lease EXCEPT ![m] = Null]
     ELSE UNCHANGED <<attempts, dead, wait, lease>>
  /\ Marked(p)
  /\ UNCHANGED <<stored, collected, published, bus>>

\* The mark fails, for the CHECK or for the database, and with it the pass
\* (`?' in pump.rs); or the process dies.  Its leases have to run out.
EndPass(p) ==
  /\ publisher[p].pc # "idle"
  /\ publisher' = [publisher EXCEPT ![p] = Idle]
  /\ UNCHANGED <<stored, collected, columns, bus>>

\* outbox.rs `collect_published', some time later
Collect(m) ==
  /\ m \in stored
  /\ published[m]
  /\ stored' = stored \ {m}
  /\ collected' = collected \union {m}
  /\ UNCHANGED <<columns, bus, publisher>>

Mark(p) == MarkPublished(p) \/ MarkFailed(p)

Next ==
  \/ Tick
  \/ \E m \in Msgs : Enqueue(m) \/ Collect(m)
  \/ \E p \in Publishers :
       \/ Claim(p) \/ MarkPublished(p) \/ MarkFailed(p) \/ EndPass(p)
       \/ \E m \in Msgs : Acknowledged(p, m) \/ Refused(p, m)

Spec == Init /\ [][Next]_vars

\* Time passes and the loop of the pump never stops ticking.  A pass may be cut
\* off, but not at the same point every time from some instant on; one whose
\* mark is refused ends, and its loop goes on.  Nothing is
\* assumed of the broker: it may refuse for ever.  Of a process that is going
\* away nothing is assumed either: one publisher that lasts is enough.
Lasts(p) ==
  /\ SF_vars(Claim(p))
  /\ SF_vars(Mark(p))
  /\ WF_vars(EndPass(p) /\ CheckRefuses(p))
  /\ \A m \in Msgs : SF_vars(Acknowledged(p, m) \/ Refused(p, m))

FairTo(p) == WF_vars(Tick) /\ Lasts(p)

-----------------------------------------------------------------------------
(* Properties *)

\* The columns, the broker and the passes hold values of their kind; a lease
\* never reaches further than CLAIM_LEASE_SECONDS (schema.sql).
TypeOK ==
  /\ stored \subseteq Msgs /\ collected \subseteq Msgs /\ bus \subseteq Msgs
  /\ wait \in [Msgs -> -Longest..MaxBackoff]
  /\ lease \in [Msgs -> Null..Lease]
  /\ attempts \in [Msgs -> Nat]
  /\ published \in [Msgs -> BOOLEAN]
  /\ dead \in [Msgs -> BOOLEAN]
  /\ publisher \in [Publishers -> [pc : {"idle", "send", "acked", "failed"},
                                   age : 0..Longest, held : SUBSET Msgs,
                                   msg : Msgs \union {NoMessage}]]

\* A row that says published, or that the sweep took away, is a message that
\* the broker has: no lost answer and no second publisher turns at-least-once
\* into at-most-once (publisher.rs `publish', outbox.rs `collect_published').
NothingIsLost ==
  \A m \in Msgs : published[m] \/ m \in collected => m \in bus

\* Once a message is dead-lettered it stays so, in the table, for a person to
\* resolve: a slow publisher that still holds it neither revives it nor marks
\* it delivered, and no sweep takes it (outbox.rs `mark_failed').
DeadLetterStays ==
  [][\A m \in Msgs : dead[m] => dead'[m] /\ m \in stored' /\ ~ published'[m]]_vars

\* Every enqueued message reaches the broker or the dead letters, however often
\* passes are cut off while they hold it (outbox.rs, `CLAIM_LEASE_SECONDS').
EveryMessageIsSettled ==
  \A m \in Msgs : (m \in stored) ~> (published[m] \/ dead[m])
=============================================================================

------------------------------- MODULE Intake -------------------------------
(***************************************************************************)
(* One transaction accepts a request durably: it reserves the idempotency  *)
(* key, creates the operation, enqueues the command or binds the archive,  *)
(* completes the reservation and audits (public-api intake.rs `admit',     *)
(* archives.rs `accept', ingest webhook.rs `accept', idempotency lib.rs).  *)
(*                                                                         *)
(* The statements of concurrent transactions interleave under READ         *)
(* COMMITTED: an insert waits for the uncommitted row it would collide     *)
(* with, and a locking read may find that the row it waited for is gone.   *)
(* One owner is modelled; every scope is keyed by it.  Instants are kept   *)
(* as their distance from the present.                                     *)
(***************************************************************************)
EXTENDS Integers, FiniteSets

CONSTANTS
  Doors,          \* where requests come in: [route, kind, source, work]
  Keys,           \* the keys, or delivery identifiers, that callers choose
  Bodies,         \* the payloads
  Attempts,       \* the requests that may be under way at once
  Ids,            \* identities of operations
  TTL,            \* the idempotency window, in ticks
  Longest         \* bound: instants further back than this are one

ASSUME IntakeAssumption ==
  /\ Longest \in Nat /\ TTL \in 1..Longest
  /\ Ids \subseteq Nat \ {0}
  /\ Doors # {} /\ Keys # {} /\ Bodies # {}
  /\ \A d, e \in Doors : <<d.route, d.kind, d.source>> = <<e.route, e.kind, e.source>> => d = e

VARIABLES
  ledger,         \* operations.idempotency_records that are committed
  operations,     \* operations.operations that are committed
  outbox, acceptances, audit,   \* whose command, binding, record is committed
  attempt,        \* the transaction of each request under way
  told            \* the 202 answers sent

tables == <<ledger, operations, outbox, acceptances, audit>>
vars == <<tables, attempt, told>>

Requests == [door : Doors, key : Keys, body : Bodies]
NoId == 0

\* Variant of webhook.rs `qualify': the sender's identifier as it came.
QualifyNot(r) == r.key
\* webhook.rs `qualify': a source owns its identifiers.
Qualify(r) == <<r.door.source, r.key>>

\* The scope of the ledger, and of the unique index on the operations.
Scope(r) == <<r.door.route, r.door.kind, Qualify(r)>>
OpScope(r) == <<r.door.kind, Qualify(r)>>
Scopes == {Scope(r) : r \in Requests}

NoRow == [id |-> NoId, expires |-> 0]
Nothing == CHOOSE r \in Requests : TRUE     \* what an idle attempt holds
Idle == [pc |-> "idle", req |-> Nothing, age |-> 0, wiped |-> FALSE,
         took |-> FALSE, seen |-> NoId, id |-> NoId]

Since(n) == IF n < -Longest THEN -Longest ELSE n
Under(id) == CHOOSE o \in operations : o.id = id
Used == {o.id : o \in operations} \union {attempt[a].id : a \in Attempts}

Init ==
  /\ ledger = [s \in Scopes |-> NoRow]
  /\ operations = {} /\ outbox = {} /\ acceptances = {} /\ audit = {}
  /\ attempt = [a \in Attempts |-> Idle]
  /\ told = {}

At(a, pc) == attempt[a].pc = pc
To(a, pc) == attempt' = [attempt EXCEPT ![a].pc = pc]
MyScope(a) == Scope(attempt[a].req)

\* A transaction other than that of `a' has written the ledger row of `s' and
\* has not ended.
Written(a, s) ==
  \E b \in Attempts \ {a} :
    attempt[b].pc # "idle" /\ MyScope(b) = s /\ (attempt[b].wiped \/ attempt[b].took)

Tick ==
  /\ ledger' = [s \in Scopes |-> IF ledger[s] = NoRow THEN NoRow
                                 ELSE [ledger[s] EXCEPT !.expires = Since(@ - 1)]]
  /\ attempt' = [a \in Attempts |-> IF At(a, "idle") \/ attempt[a].age = Longest THEN attempt[a]
                                    ELSE [attempt[a] EXCEPT !.age = @ + 1]]
  /\ UNCHANGED <<operations, outbox, acceptances, audit, told>>

\* The handler reads its `now' and begins its transaction.
Begin(a, r) ==
  /\ At(a, "idle")
  /\ attempt' = [attempt EXCEPT ![a] = [Idle EXCEPT !.pc = "wipe", !.req = r]]
  /\ UNCHANGED <<tables, told>>

\* idempotency `decide': an expired reservation is not a reservation.
Wipe(a) ==
  LET row == ledger[MyScope(a)]
      expired == row # NoRow /\ row.expires + attempt[a].age <= 0 IN
  /\ At(a, "wipe")
  /\ expired => ~ Written(a, MyScope(a))
  /\ attempt' = [attempt EXCEPT ![a].pc = "insert", ![a].wiped = expired]
  /\ UNCHANGED <<tables, told>>

\* `decide': insert, on conflict do nothing.  It waits for whoever has written
\* the row, and then conflicts with a committed one that `a' has not deleted.
Insert(a) ==
  /\ At(a, "insert")
  /\ ~ Written(a, MyScope(a))
  /\ IF ledger[MyScope(a)] = NoRow \/ attempt[a].wiped
     THEN attempt' = [attempt EXCEPT ![a].pc = "accept", ![a].took = TRUE]
     ELSE To(a, "select")
  /\ UNCHANGED <<tables, told>>

\* `decide': the locking read takes its snapshot ...
Select(a) ==
  /\ At(a, "select")
  /\ attempt' = [attempt EXCEPT ![a].pc = "decide", ![a].seen = ledger[MyScope(a)].id]
  /\ UNCHANGED <<tables, told>>

End(a) == attempt' = [attempt EXCEPT ![a] = Idle]
Answer(a, id) == told' = told \union {[req |-> attempt[a].req, id |-> id]}

\* Variant: whatever the payload, the first answer is replayed.
SameRequestAnyBody(r, q) == Scope(r) = Scope(q)
\* The fingerprint of `q', that the row of `r' holds, is that of `r'.
SameRequest(r, q) == Scope(r) = Scope(q) /\ r.body = q.body

\* ... and waits for the row that it saw.  Gone, it is an error (`fetch_one');
\* there, it is the original operation for the same payload, which is answered,
\* or a conflict, which is refused.  A committed row is always complete.
Decide(a) ==
  LET id == attempt[a].seen IN
  /\ At(a, "decide")
  /\ ~ Written(a, MyScope(a))
  /\ IF id # NoId /\ ledger[MyScope(a)].id = id /\ SameRequest(Under(id).req, attempt[a].req)
     THEN Answer(a, id)
     ELSE UNCHANGED told
  /\ End(a)
  /\ UNCHANGED tables

\* operations `accept': the insert waits for an uncommitted operation of the
\* same owner, kind and key, and fails on a committed one.
Colliding(a) == {o \in operations : OpScope(o.req) = OpScope(attempt[a].req)}

Unhindered(a) ==
  \A b \in Attempts \ {a} :
    At(b, "commit") => OpScope(attempt[b].req) # OpScope(attempt[a].req)

\* A new identity; the bound is that Ids has one left.
Create(a) ==
  /\ Ids \ Used # {}
  /\ attempt' = [attempt EXCEPT ![a].pc = "commit",
                                ![a].id = CHOOSE id \in Ids \ Used : TRUE]

\* Variant: it waits for the committed one too.
AcceptWaits(a) ==
  /\ At(a, "accept")
  /\ Unhindered(a) /\ Colliding(a) = {}
  /\ Create(a)
  /\ UNCHANGED <<tables, told>>

\* Variant: the command is on its way before the transaction ends.
AcceptSends(a) ==
  /\ At(a, "accept")
  /\ Unhindered(a) /\ Colliding(a) = {}
  /\ Create(a)
  /\ outbox' = outbox \union {attempt'[a].id}
  /\ UNCHANGED <<ledger, operations, acceptances, audit, told>>

Accept(a) ==
  /\ At(a, "accept")
  /\ Unhindered(a)
  /\ IF Colliding(a) = {} THEN Create(a) ELSE End(a)
  /\ UNCHANGED <<tables, told>>

Emits(door) == door.work = "command"      \* a capture, a signal
Binds(door) == door.work = "acceptance"   \* an archive import

\* `now + ttl', seen from the present.
Window(a) == Since(TTL - attempt[a].age)

\* Everything that the transaction wrote appears at once.
Committed(a) ==
  LET r == attempt[a].req
      id == attempt[a].id
      If(table, does) == IF does THEN table \union {id} ELSE table IN
  /\ At(a, "commit")
  /\ ledger' = [ledger EXCEPT ![Scope(r)] = [id |-> id, expires |-> Window(a)]]
  /\ operations' = operations \union {[id |-> id, req |-> r]}
  /\ outbox' = If(outbox, Emits(r.door))
  /\ acceptances' = If(acceptances, Binds(r.door))
  /\ audit' = audit \union {id}
  /\ End(a)

Commit(a) == Committed(a) /\ Answer(a, attempt[a].id)

\* It committed, and the caller never learns: the connection to the database
\* or to the caller broke.
CommitUnheard(a) == Committed(a) /\ UNCHANGED told

\* A statement fails, the commit fails, the process dies: nothing was written.
Rollback(a) ==
  /\ ~ At(a, "idle")
  /\ End(a)
  /\ UNCHANGED <<tables, told>>

\* idempotency `collect_expired', of the hourly sweep; it waits for a row that
\* a transaction holds.
Expired == {s \in Scopes : ledger[s] # NoRow /\ ledger[s].expires <= 0}
CollectExpired ==
  /\ Expired # {}
  /\ \A a \in Attempts : attempt[a].wiped => MyScope(a) \notin Expired
  /\ ledger' = [s \in Scopes |-> IF s \in Expired THEN NoRow ELSE ledger[s]]
  /\ UNCHANGED <<operations, outbox, acceptances, audit, attempt, told>>

Step(a) ==
  Wipe(a) \/ Insert(a) \/ Select(a) \/ Decide(a) \/ Accept(a) \/ Commit(a) \/ CommitUnheard(a)

Arrival == \E a \in Attempts, r \in Requests : Begin(a, r)

Handling ==
  \/ Tick
  \/ CollectExpired
  \/ \E a \in Attempts :
       \/ Wipe(a) \/ Insert(a) \/ Select(a) \/ Decide(a) \/ Accept(a)
       \/ Commit(a) \/ CommitUnheard(a) \/ Rollback(a)

Next == Arrival \/ Handling

Spec == Init /\ [][Next]_vars

\* A statement that can run is run, and a wait ends in the order of arrival.
\* Callers need not retry, and nothing has to fail.
Fairness == \A a \in Attempts : SF_vars(Step(a))

-----------------------------------------------------------------------------
(* Properties *)

\* Rows, transactions and answers are of their kind.
TypeOK ==
  /\ ledger \in [Scopes -> [id : Ids \union {NoId}, expires : -Longest..TTL]]
  /\ operations \subseteq [id : Ids, req : Requests]
  /\ outbox \subseteq Ids /\ acceptances \subseteq Ids /\ audit \subseteq Ids
  /\ attempt \in [Attempts -> [pc : {"idle", "wipe", "insert", "select", "decide", "accept", "commit"},
                               req : Requests, age : 0..Longest,
                               wiped : BOOLEAN, took : BOOLEAN,
                               seen : Ids \union {NoId}, id : Ids \union {NoId}]]
  /\ told \subseteq [req : Requests, id : Ids]

\* One key means one request and one operation at its door, for ever: whatever
\* retries race, and whether or not the window has closed, two 202 answers name
\* one operation exactly when door, key and payload are one (idempotency
\* lib.rs `Reservation', webhook.rs `qualify').
OneMeaningPerKey ==
  \A x, y \in told :
    /\ x.req.door = y.req.door /\ x.req.key = y.req.key => x = y
    /\ x.id = y.id => x.req = y.req

\* An operation, its command or its binding, and its audit record are there
\* together or not at all, and every 202 names such an operation (intake.rs
\* `admit': "so a crash at any point leaves all four or none").
AcceptedWhole ==
  LET ids == {o.id : o \in operations} IN
  /\ \A o \in operations : Cardinality({q \in operations : q.id = o.id}) = 1
  /\ audit = ids
  /\ outbox = {o.id : o \in {q \in operations : Emits(q.req.door)}}
  /\ acceptances = {o.id : o \in {q \in operations : Binds(q.req.door)}}
  /\ \A x \in told : x.id \in ids
  /\ \A s \in Scopes : ledger[s] # NoRow => ledger[s].id \in ids

\* Whatever statements interleave, rows lapse and answers are lost, a caller
\* sees a store that accepts the first request of a key in one step and repeats
\* its answer (idempotency lib.rs `Reservation', operations lib.rs `accept').
Store == INSTANCE IdempotentStore WITH stored <- operations, answered <- told
ImplementsStore == Store!Spec

\* No two requests wait for one another for ever: each one under way is
\* answered or refused (idempotency lib.rs `decide', the locking read).
EveryAttemptEnds == \A a \in Attempts : ~ At(a, "idle") ~> At(a, "idle")

\* schema.sql:1356 says it of the scope of a key: the same client on two
\* routes never collides.
TwoRoutesNeverCollide ==
  \A a \in Attempts : At(a, "accept") =>
    \A o \in Colliding(a) : o.req.door.route = attempt[a].req.door.route
=============================================================================

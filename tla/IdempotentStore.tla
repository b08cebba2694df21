--------------------------- MODULE IdempotentStore ---------------------------
(***************************************************************************)
(* What a caller is promised of retries (idempotency lib.rs `Reservation'; *)
(* ARCHITECTURE.md section 8): under one key at one door the first request *)
(* that is accepted becomes an operation, in one step; whoever repeats it  *)
(* is answered with that operation, and nothing else is ever accepted      *)
(* under the key.  No ledger, window, lock, sweep or transaction appears   *)
(* here; module Intake implements it.                                      *)
(***************************************************************************)

CONSTANTS
  Requests,       \* [door, key, body]
  Ids             \* identities of operations

VARIABLES
  stored,         \* the operations, each with its request
  answered        \* what callers were told: a request and its operation

Entries == [id : Ids, req : Requests]

SameKey(r, q) == r.door = q.door /\ r.key = q.key

Init == stored = {} /\ answered = {}

\* The caller may never learn of it, and then asks again.
Store(e) ==
  /\ \A s \in stored : s.id # e.id /\ ~ SameKey(s.req, e.req)
  /\ stored' = stored \union {e}
  /\ answered' \in {answered, answered \union {e}}

Replay(e) ==
  /\ e \in stored
  /\ answered' = answered \union {e}
  /\ UNCHANGED stored

Next == \E e \in Entries : Store(e) \/ Replay(e)

Spec == Init /\ [][Next]_<<stored, answered>>
=============================================================================

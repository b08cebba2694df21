---------------------------- MODULE IntakeProofs ----------------------------
(***************************************************************************)
(* What Intake promises of keys and operations, for any number of attempts *)
(* under way, any doors, keys and payloads and any window.                 *)
(***************************************************************************)
EXTENDS Intake, FiniteSetTheorems, TLAPS

-----------------------------------------------------------------------------
(* The invariant.                                                          *)

Row == [id : Ids \union {NoId}, expires : -Longest..TTL]
Task == [pc : {"idle", "wipe", "insert", "select", "decide", "accept", "commit"},
         req : Requests, age : 0..Longest, wiped : BOOLEAN, took : BOOLEAN,
         seen : Ids \union {NoId}, id : Ids \union {NoId}]

(* Who is about to commit has an identity and a key of its own, that no    *)
(* operation has and nobody else who is about to commit.                   *)
OneOfAKind ==
  /\ \A o, p \in operations : o.id = p.id \/ OpScope(o.req) = OpScope(p.req) => o = p
  /\ \A a \in Attempts : At(a, "commit") =>
       /\ attempt[a].id \in Ids
       /\ \A o \in operations : o.id # attempt[a].id /\ OpScope(o.req) # OpScope(attempt[a].req)
       /\ \A b \in Attempts \ {a} : At(b, "commit") =>
            attempt[b].id # attempt[a].id /\ OpScope(attempt[b].req) # OpScope(attempt[a].req)

(* What is derived from the operations.                                    *)
Derived ==
  /\ \A id \in audit : \E o \in operations : o.id = id
  /\ \A o \in operations : o.id \in audit
  /\ \A id \in outbox : \E o \in operations : o.id = id /\ Emits(o.req.door)
  /\ \A o \in operations : Emits(o.req.door) => o.id \in outbox
  /\ \A id \in acceptances : \E o \in operations : o.id = id /\ Binds(o.req.door)
  /\ \A o \in operations : Binds(o.req.door) => o.id \in acceptances
  /\ \A s \in Scopes : ledger[s] # NoRow => \E o \in operations : o.id = ledger[s].id
  /\ told \subseteq operations

IntakeInv == TypeOK /\ OneOfAKind /\ Derived

LEMMA TypeOKExpanded ==
    TypeOK <=> /\ ledger \in [Scopes -> Row]
               /\ operations \subseteq [id : Ids, req : Requests]
               /\ outbox \subseteq Ids /\ acceptances \subseteq Ids /\ audit \subseteq Ids
               /\ attempt \in [Attempts -> Task]
               /\ told \subseteq [req : Requests, id : Ids]
  BY DEF TypeOK, Row, Task

(* There is a request for an idle attempt to hold.                         *)
LEMMA IdleIsATask == Nothing \in Requests /\ Idle \in Task
  <1>1. PICK d \in Doors, k \in Keys, b \in Bodies : TRUE
    BY IntakeAssumption
  <1>2. [door |-> d, key |-> k, body |-> b] \in Requests
    BY DEF Requests
  <1>3. Nothing \in Requests
    BY <1>2 DEF Nothing
  <1> QED BY <1>3, IntakeAssumption DEF Idle, Task, NoId

LEMMA ScopesOfRequests ==
    ASSUME NEW r \in Requests
    PROVE  Scope(r) \in Scopes
  BY DEF Scopes

(* The same scope and payload is the same request: the route, the kind and *)
(* the source are the door.                                                *)
LEMMA SameRequestIsEqual ==
    ASSUME NEW r \in Requests, NEW q \in Requests, SameRequest(r, q)
    PROVE  r = q
  <1>1. /\ r.door.route = q.door.route /\ r.door.kind = q.door.kind
        /\ r.door.source = q.door.source /\ r.key = q.key /\ r.body = q.body
    BY DEF SameRequest, Scope, Qualify
  <1>2. r.door = q.door
    BY <1>1, IntakeAssumption DEF Requests
  <1> QED BY <1>1, <1>2 DEF Requests

(* A step that writes no row and answers nobody keeps the invariant, if    *)
(* nobody comes to the commit by it.                                       *)
LEMMA QuietKeeps ==
    ASSUME IntakeInv, UNCHANGED <<operations, outbox, acceptances, audit, told>>,
           ledger' \in [Scopes -> Row],
           \A s \in Scopes : ledger'[s] = NoRow \/ (ledger[s] # NoRow /\ ledger'[s].id = ledger[s].id),
           attempt' \in [Attempts -> Task],
           \A a \in Attempts : attempt'[a].pc = "commit" =>
               attempt[a].pc = "commit" /\ attempt'[a].req = attempt[a].req
                 /\ attempt'[a].id = attempt[a].id
    PROVE  IntakeInv'
  <1>1. TypeOK'
    BY TypeOKExpanded DEF IntakeInv, TypeOK, Row, Task
  <1>2. OneOfAKind'
    BY DEF IntakeInv, OneOfAKind, At
  <1>3. Derived'
    BY DEF IntakeInv, Derived
  <1> QED BY <1>1, <1>2, <1>3 DEF IntakeInv

(* The attempt of one request goes on, and does not come to the commit.    *)
LEMMA OneAttemptQuiet ==
    ASSUME IntakeInv, UNCHANGED <<tables, told>>, NEW a \in Attempts, NEW task \in Task,
           task.pc # "commit", attempt' = [attempt EXCEPT ![a] = task]
    PROVE  IntakeInv'
  <1>1. attempt' \in [Attempts -> Task]
    BY TypeOKExpanded DEF IntakeInv
  <1>2. \A b \in Attempts : attempt'[b].pc = "commit" => attempt'[b] = attempt[b]
    BY TypeOKExpanded DEF IntakeInv
  <1>3. ledger' \in [Scopes -> Row] /\ ledger' = ledger
    BY TypeOKExpanded DEF IntakeInv, tables
  <1> QED BY <1>1, <1>2, <1>3, QuietKeeps DEF tables

-----------------------------------------------------------------------------
(* The steps.                                                              *)

LEMMA TimeKeeps == IntakeInv /\ (Tick \/ CollectExpired) => IntakeInv'
  <1>1. ASSUME IntakeInv, Tick PROVE IntakeInv'
    <2>1. /\ ledger' \in [Scopes -> Row]
          /\ \A s \in Scopes : ledger'[s] = NoRow \/ (ledger[s] # NoRow /\ ledger'[s].id = ledger[s].id)
      <3>1. ledger \in [Scopes -> Row]
        BY <1>1, TypeOKExpanded DEF IntakeInv
      <3>2. \A n \in -Longest..TTL : Since(n - 1) \in -Longest..TTL
        BY IntakeAssumption DEF Since
      <3>3. NoRow \in Row
        BY IntakeAssumption DEF NoRow, Row
      <3> QED BY <1>1, <3>1, <3>2, <3>3 DEF Tick, Row
    <2>2. /\ attempt' \in [Attempts -> Task]
          /\ \A a \in Attempts : /\ attempt'[a].pc = attempt[a].pc
                                 /\ attempt'[a].req = attempt[a].req
                                 /\ attempt'[a].id = attempt[a].id
      <3>1. attempt \in [Attempts -> Task]
        BY <1>1, TypeOKExpanded DEF IntakeInv
      <3>2. \A n \in 0..Longest : n # Longest => n + 1 \in 0..Longest
        BY IntakeAssumption
      <3>3. ASSUME NEW a \in Attempts
            PROVE  /\ attempt'[a] \in Task /\ attempt'[a].pc = attempt[a].pc
                   /\ attempt'[a].req = attempt[a].req /\ attempt'[a].id = attempt[a].id
        <4>1. attempt[a] \in Task
          BY <3>1
        <4>2. CASE attempt'[a] = attempt[a]
          BY <4>1, <4>2
        <4>3. CASE /\ attempt[a].age # Longest
                   /\ attempt'[a] = [attempt[a] EXCEPT !.age = attempt[a].age + 1]
          BY <3>2, <4>1, <4>3 DEF Task
        <4> QED BY <1>1, <4>2, <4>3 DEF Tick
      <3> QED BY <1>1, <3>3 DEF Tick
    <2> QED BY <1>1, <2>1, <2>2, QuietKeeps DEF Tick
  <1>2. ASSUME IntakeInv, CollectExpired PROVE IntakeInv'
    <2>1. ledger \in [Scopes -> Row] /\ attempt \in [Attempts -> Task]
      BY <1>2, TypeOKExpanded DEF IntakeInv
    <2>2. /\ ledger' \in [Scopes -> Row]
          /\ \A s \in Scopes : ledger'[s] = NoRow \/ (ledger[s] # NoRow /\ ledger'[s].id = ledger[s].id)
      BY <1>2, <2>1, IntakeAssumption DEF CollectExpired, NoRow, Row
    <2> QED BY <1>2, <2>1, <2>2, QuietKeeps DEF CollectExpired
  <1> QED BY <1>1, <1>2

(* The statements up to the conflict, and an end without a commit.         *)
LEMMA WaitingKeeps ==
    ASSUME IntakeInv, NEW a \in Attempts, NEW r \in Requests,
           Begin(a, r) \/ Wipe(a) \/ Insert(a) \/ Select(a) \/ Rollback(a)
    PROVE  IntakeInv'
  <1>0. attempt \in [Attempts -> Task] /\ ledger \in [Scopes -> Row]
    BY TypeOKExpanded DEF IntakeInv
  <1>1. MyScope(a) \in Scopes
    BY <1>0, ScopesOfRequests DEF MyScope, Task
  <1>2. CASE Begin(a, r)
    BY <1>2, IdleIsATask, OneAttemptQuiet,
       [Idle EXCEPT !.pc = "wipe", !.req = r] \in Task DEF Begin, Task
  <1>3. CASE Wipe(a)
    <2> DEFINE task == [attempt[a] EXCEPT !.pc = "insert",
          !.wiped = (ledger[MyScope(a)] # NoRow
                       /\ ledger[MyScope(a)].expires + attempt[a].age <= 0)]
    <2>1. task \in Task /\ task.pc # "commit"
      BY <1>0 DEF Task
    <2>2. attempt' = [attempt EXCEPT ![a] = task]
      BY <1>0, <1>3, Zenon DEF Wipe
    <2> QED BY <1>3, <2>1, <2>2, OneAttemptQuiet DEF Wipe
  <1>4. CASE Insert(a)
    <2>1. PICK task \in Task : task.pc # "commit" /\ attempt' = [attempt EXCEPT ![a] = task]
      <3>1. [attempt[a] EXCEPT !.pc = "accept", !.took = TRUE] \in Task
        BY <1>0 DEF Task
      <3>2. [attempt[a] EXCEPT !.pc = "select"] \in Task
        BY <1>0 DEF Task
      <3> QED BY <1>0, <1>4, <3>1, <3>2 DEF Insert, To, Task
    <2> QED BY <1>4, <2>1, OneAttemptQuiet DEF Insert
  <1>5. CASE Select(a)
    <2> DEFINE task == [attempt[a] EXCEPT !.pc = "decide", !.seen = ledger[MyScope(a)].id]
    <2>1. task \in Task /\ task.pc # "commit"
      BY <1>0, <1>1 DEF Task, Row
    <2>2. attempt' = [attempt EXCEPT ![a] = task]
      BY <1>0, <1>5 DEF Select
    <2> QED BY <1>5, <2>1, <2>2, OneAttemptQuiet DEF Select
  <1>6. CASE Rollback(a)
    BY <1>6, IdleIsATask, OneAttemptQuiet, Idle.pc # "commit" DEF Rollback, End, Idle
  <1> QED BY <1>2, <1>3, <1>4, <1>5, <1>6

(* A replay names the operation on record, which is that of the request.   *)
LEMMA ReplayIsOnRecord ==
    ASSUME IntakeInv, NEW a \in Attempts, Decide(a), told' # told
    PROVE  \E o \in operations : told' = told \union {o}
  <1> DEFINE id == attempt[a].seen
             req == attempt[a].req
  <1>0. attempt \in [Attempts -> Task] /\ operations \subseteq [id : Ids, req : Requests]
    BY TypeOKExpanded DEF IntakeInv
  <1>1. /\ id # NoId /\ ledger[MyScope(a)].id = id /\ SameRequest(Under(id).req, req)
        /\ told' = told \union {[req |-> req, id |-> id]}
    BY DEF Decide, Answer
  <1>2. MyScope(a) \in Scopes /\ req \in Requests /\ ledger[MyScope(a)] # NoRow
    BY <1>0, <1>1, ScopesOfRequests DEF MyScope, Task, NoRow, NoId
  <1>3. \E o \in operations : o.id = id
    BY <1>1, <1>2 DEF IntakeInv, Derived
  <1>4. Under(id) \in operations /\ Under(id).id = id
    BY <1>3 DEF Under
  <1>5. Under(id).req = req
    BY <1>0, <1>1, <1>2, <1>4, SameRequestIsEqual
  <1>6. Under(id) = [req |-> req, id |-> id]
    BY <1>0, <1>4, <1>5
  <1> QED BY <1>1, <1>4, <1>6

LEMMA DecideKeeps ==
    ASSUME IntakeInv, NEW a \in Attempts, Decide(a)
    PROVE  IntakeInv'
  <1>0. attempt \in [Attempts -> Task] /\ operations \subseteq [id : Ids, req : Requests]
    BY TypeOKExpanded DEF IntakeInv
  <1>1. told' \subseteq operations
    BY ReplayIsOnRecord DEF IntakeInv, Derived
  <1>2. /\ attempt' \in [Attempts -> Task]
        /\ \A b \in Attempts : attempt'[b].pc = "commit" => attempt'[b] = attempt[b]
    BY <1>0, IdleIsATask DEF Decide, End, Idle
  <1>3. TypeOK'
    BY <1>0, <1>1, <1>2, TypeOKExpanded DEF Decide, tables, IntakeInv, TypeOK, Task
  <1>4. OneOfAKind'
    BY <1>2 DEF Decide, tables, IntakeInv, OneOfAKind, At
  <1>5. Derived'
    BY <1>1 DEF Decide, tables, IntakeInv, Derived
  <1> QED BY <1>3, <1>4, <1>5 DEF IntakeInv

(* The insert of the operation finds nobody with its key.                  *)
LEMMA AcceptKeeps ==
    ASSUME IntakeInv, NEW a \in Attempts, Accept(a)
    PROVE  IntakeInv'
  <1>0. attempt \in [Attempts -> Task] /\ operations \subseteq [id : Ids, req : Requests]
    BY TypeOKExpanded DEF IntakeInv
  <1>1. CASE Colliding(a) = {}
    <2> DEFINE fresh == CHOOSE id \in Ids \ Used : TRUE
    <2>1. fresh \in Ids /\ fresh \notin Used
      BY <1>1 DEF Accept, Create
    <2>2. attempt' = [attempt EXCEPT ![a].pc = "commit", ![a].id = fresh]
      BY <1>1, Zenon DEF Accept, Create
    <2>3. attempt' \in [Attempts -> Task]
      <3>1. [attempt[a] EXCEPT !.pc = "commit", !.id = fresh] \in Task
        <4> HIDE DEF fresh
        <4> QED BY <1>0, <2>1 DEF Task
      <3>2. attempt' = [attempt EXCEPT ![a] = [attempt[a] EXCEPT !.pc = "commit", !.id = fresh]]
        <4> HIDE DEF fresh
        <4> QED BY <1>0, <2>2
      <3> QED BY <1>0, <3>1, <3>2, Zenon
    <2>4. /\ attempt'[a].pc = "commit" /\ attempt'[a].id = fresh /\ attempt'[a].req = attempt[a].req
          /\ \A b \in Attempts \ {a} : attempt'[b] = attempt[b]
      BY <1>0, <2>2 DEF Task
    <2>5. /\ \A o \in operations : o.id # fresh /\ OpScope(o.req) # OpScope(attempt[a].req)
          /\ \A b \in Attempts \ {a} : attempt[b].id # fresh
          /\ \A b \in Attempts \ {a} : At(b, "commit") =>
               OpScope(attempt[b].req) # OpScope(attempt[a].req)
      BY <1>1, <2>1 DEF Used, Accept, Unhindered, Colliding
    <2>6. OneOfAKind'
      BY <2>1, <2>4, <2>5 DEF Accept, tables, IntakeInv, OneOfAKind, At
    <2>7. TypeOK'
      <3>1. UNCHANGED <<ledger, operations, outbox, acceptances, audit, told>>
        BY DEF Accept, tables
      <3> QED BY <2>3, <3>1, TypeOKExpanded DEF IntakeInv, TypeOK, Row, Task
    <2>8. Derived'
      BY DEF Accept, tables, IntakeInv, Derived
    <2> QED BY <2>6, <2>7, <2>8 DEF IntakeInv
  <1>2. CASE Colliding(a) # {}
    BY <1>2, IdleIsATask, OneAttemptQuiet, Idle.pc # "commit" DEF Accept, End, Idle
  <1> QED BY <1>1, <1>2

(* Everything that belongs to the operation appears with it.               *)
LEMMA CommitKeeps ==
    ASSUME IntakeInv, NEW a \in Attempts, Commit(a) \/ CommitUnheard(a)
    PROVE  IntakeInv'
  <1> DEFINE id == attempt[a].id
             r == attempt[a].req
             op == [id |-> id, req |-> r]
  <1>0. /\ attempt \in [Attempts -> Task] /\ operations \subseteq [id : Ids, req : Requests]
        /\ ledger \in [Scopes -> Row]
    BY TypeOKExpanded DEF IntakeInv
  <1>1. /\ At(a, "commit") /\ id \in Ids /\ r \in Requests /\ Scope(r) \in Scopes
        /\ op \in [id : Ids, req : Requests] /\ op.id = id /\ op.req = r
    BY <1>0, ScopesOfRequests DEF Commit, CommitUnheard, Committed, IntakeInv, OneOfAKind, Task
  <1>2. /\ operations' = operations \union {op}
        /\ audit' = audit \union {id}
        /\ outbox' = IF Emits(r.door) THEN outbox \union {id} ELSE outbox
        /\ acceptances' = IF Binds(r.door) THEN acceptances \union {id} ELSE acceptances
        /\ ledger' = [ledger EXCEPT ![Scope(r)] = [id |-> id, expires |-> Window(a)]]
        /\ attempt' = [attempt EXCEPT ![a] = Idle]
    BY DEF Commit, CommitUnheard, Committed, End
  <1>3. told' = told \/ told' = told \union {op}
    BY DEF Commit, CommitUnheard, Answer
  <1>4. /\ attempt' \in [Attempts -> Task]
        /\ attempt'[a].pc # "commit"
        /\ \A b \in Attempts \ {a} : attempt'[b] = attempt[b]
    BY <1>0, <1>2, IdleIsATask DEF Idle
  <1>5. Window(a) \in -Longest..TTL
    BY <1>0, IntakeAssumption DEF Window, Since, Task
  <1>6. ledger' \in [Scopes -> Row]
    BY <1>0, <1>1, <1>2, <1>5 DEF Row
  <1>7. TypeOK'
    <2>1. operations' \subseteq [id : Ids, req : Requests] /\ told' \subseteq [req : Requests, id : Ids]
      BY <1>0, <1>1, <1>2, <1>3, TypeOKExpanded DEF IntakeInv
    <2>2. outbox' \subseteq Ids /\ acceptances' \subseteq Ids /\ audit' \subseteq Ids
      BY <1>1, <1>2, TypeOKExpanded DEF IntakeInv
    <2> QED BY <1>4, <1>6, <2>1, <2>2 DEF TypeOK, Row, Task
  <1>8. OneOfAKind'
    <2>1. \A o \in operations : o.id # id /\ OpScope(o.req) # OpScope(r)
      BY <1>1 DEF IntakeInv, OneOfAKind
    <2>2. \A o, p \in operations' : o.id = p.id \/ OpScope(o.req) = OpScope(p.req) => o = p
      BY <1>1, <1>2, <2>1 DEF IntakeInv, OneOfAKind
    <2>3. \A b \in Attempts \ {a} : At(b, "commit") =>
            attempt[b].id # id /\ OpScope(attempt[b].req) # OpScope(r)
      BY <1>1 DEF IntakeInv, OneOfAKind
    <2>4. \A b \in Attempts : At(b, "commit")' =>
            /\ b # a /\ At(b, "commit") /\ attempt'[b] = attempt[b]
      BY <1>4 DEF At
    <2>5. ASSUME NEW b \in Attempts, At(b, "commit")'
          PROVE  /\ attempt'[b].id \in Ids
                 /\ \A o \in operations' : o.id # attempt'[b].id
                                             /\ OpScope(o.req) # OpScope(attempt'[b].req)
                 /\ \A c \in Attempts \ {b} : At(c, "commit")' =>
                      attempt'[c].id # attempt'[b].id
                        /\ OpScope(attempt'[c].req) # OpScope(attempt'[b].req)
      BY <1>1, <1>2, <2>3, <2>4, <2>5 DEF IntakeInv, OneOfAKind
    <2> QED BY <2>2, <2>5 DEF OneOfAKind, At
  <1>9. Derived'
    <2>1. /\ \A i \in audit' : \E o \in operations' : o.id = i
          /\ \A o \in operations' : o.id \in audit'
      BY <1>1, <1>2 DEF IntakeInv, Derived
    <2>2. /\ \A i \in outbox' : \E o \in operations' : o.id = i /\ Emits(o.req.door)
          /\ \A o \in operations' : Emits(o.req.door) => o.id \in outbox'
      <3>1. /\ \A i \in outbox : \E o \in operations : o.id = i /\ Emits(o.req.door)
            /\ \A o \in operations : Emits(o.req.door) => o.id \in outbox
        BY DEF IntakeInv, Derived
      <3>2. \A i \in outbox' : i \in outbox \/ (i = id /\ Emits(r.door))
        BY <1>2
      <3>3. outbox \subseteq outbox' /\ (Emits(r.door) => id \in outbox')
        BY <1>2
      <3>4. op \in operations' /\ \A o \in operations' : o \in operations \/ o = op
        BY <1>2
      <3>5. \A o \in operations : o \in operations'
        BY <1>2
      <3> HIDE DEF id, r, op
      <3>6. \A i \in outbox' : \E o \in operations' : o.id = i /\ Emits(o.req.door)
        BY <1>1, <3>1, <3>2, <3>4, <3>5, Zenon
      <3>7. \A o \in operations' : Emits(o.req.door) => o.id \in outbox'
        BY <1>1, <3>1, <3>3, <3>4, Zenon
      <3> QED BY <3>6, <3>7
    <2>3. /\ \A i \in acceptances' : \E o \in operations' : o.id = i /\ Binds(o.req.door)
          /\ \A o \in operations' : Binds(o.req.door) => o.id \in acceptances'
      <3>1. /\ \A i \in acceptances : \E o \in operations : o.id = i /\ Binds(o.req.door)
            /\ \A o \in operations : Binds(o.req.door) => o.id \in acceptances
        BY DEF IntakeInv, Derived
      <3>2. \A i \in acceptances' : i \in acceptances \/ (i = id /\ Binds(r.door))
        BY <1>2
      <3>3. acceptances \subseteq acceptances' /\ (Binds(r.door) => id \in acceptances')
        BY <1>2
      <3>4. op \in operations' /\ \A o \in operations' : o \in operations \/ o = op
        BY <1>2
      <3>5. \A o \in operations : o \in operations'
        BY <1>2
      <3> HIDE DEF id, r, op
      <3>6. \A i \in acceptances' : \E o \in operations' : o.id = i /\ Binds(o.req.door)
        BY <1>1, <3>1, <3>2, <3>4, <3>5, Zenon
      <3>7. \A o \in operations' : Binds(o.req.door) => o.id \in acceptances'
        BY <1>1, <3>1, <3>3, <3>4, Zenon
      <3> QED BY <3>6, <3>7
    <2>4. \A s \in Scopes : ledger'[s] # NoRow => \E o \in operations' : o.id = ledger'[s].id
      BY <1>0, <1>1, <1>2 DEF IntakeInv, Derived
    <2>5. told' \subseteq operations'
      BY <1>2, <1>3 DEF IntakeInv, Derived
    <2> QED BY <2>1, <2>2, <2>3, <2>4, <2>5 DEF Derived
  <1> QED BY <1>7, <1>8, <1>9 DEF IntakeInv

LEMMA IntakeInductive == IntakeInv /\ [Next]_vars => IntakeInv'
  <1> SUFFICES ASSUME IntakeInv, [Next]_vars PROVE IntakeInv'
    OBVIOUS
  <1>1. CASE Arrival
    BY <1>1, WaitingKeeps DEF Arrival
  <1>2. CASE Handling
    <2>1. ASSUME NEW a \in Attempts, Wipe(a) \/ Insert(a) \/ Select(a) \/ Rollback(a)
          PROVE  IntakeInv'
      BY <2>1, WaitingKeeps, IdleIsATask
    <2> QED BY <1>2, <2>1, TimeKeeps, DecideKeeps, AcceptKeeps, CommitKeeps DEF Handling
  <1>3. CASE UNCHANGED vars
    BY <1>3 DEF vars, tables, IntakeInv, TypeOK, OneOfAKind, Derived, At
  <1> QED BY <1>1, <1>2, <1>3 DEF Next

LEMMA IntakeInitially == Init => IntakeInv
  <1> SUFFICES ASSUME Init PROVE IntakeInv
    OBVIOUS
  <1>1. NoRow \in Row
    BY IntakeAssumption DEF NoRow, Row
  <1>2. TypeOK
    BY <1>1, IdleIsATask, TypeOKExpanded DEF Init
  <1>3. OneOfAKind /\ Derived
    BY DEF Init, OneOfAKind, Derived, At, Idle
  <1> QED BY <1>2, <1>3 DEF IntakeInv

LEMMA IntakeAlways == Spec => []IntakeInv
  BY IntakeInitially, IntakeInductive, PTL DEF Spec

-----------------------------------------------------------------------------
(* The refinement.                                                         *)

(* What the tables and the answers show of one step: nothing, a replay, or *)
(* the one operation that appears.                                         *)
LEMMA DecideImplements ==
    ASSUME IntakeInv, NEW a \in Attempts, Decide(a)
    PROVE  Store!Next \/ UNCHANGED <<operations, told>>
  <1>1. operations' = operations
    BY DEF Decide, tables
  <1>2. ASSUME told' # told PROVE Store!Next
    <2>1. PICK o \in operations : told' = told \union {o}
      BY <1>2, ReplayIsOnRecord
    <2>2. o \in Store!Entries
      BY TypeOKExpanded DEF IntakeInv, Store!Entries
    <2> QED BY <1>1, <2>1, <2>2 DEF Store!Next, Store!Replay
  <1> QED BY <1>1, <1>2

LEMMA CommitImplements ==
    ASSUME IntakeInv, NEW a \in Attempts, Commit(a) \/ CommitUnheard(a)
    PROVE  Store!Next
  <1> DEFINE op == [id |-> attempt[a].id, req |-> attempt[a].req]
  <1>1. At(a, "commit") /\ operations' = operations \union {op}
    BY DEF Commit, CommitUnheard, Committed
  <1>2. attempt[a].id \in Ids /\ attempt[a].req \in Requests
    BY <1>1, TypeOKExpanded DEF IntakeInv, OneOfAKind, Task
  <1>3. op \in Store!Entries
    BY <1>2 DEF Store!Entries
  <1>4. \A o \in operations : o.id # op.id /\ OpScope(o.req) # OpScope(op.req)
    BY <1>1 DEF IntakeInv, OneOfAKind
  <1>5. \A o \in operations : o.id # op.id /\ ~ Store!SameKey(o.req, op.req)
    BY <1>4 DEF Store!SameKey, OpScope, Qualify
  <1>6. told' \in {told, told \union {op}}
    BY DEF Commit, CommitUnheard, Answer
  <1>7. Store!Store(op)
    BY <1>1, <1>5, <1>6 DEF Store!Store
  <1> QED BY <1>3, <1>7 DEF Store!Next

LEMMA NextImplements == IntakeInv /\ [Next]_vars => [Store!Next]_<<operations, told>>
  <1> SUFFICES ASSUME IntakeInv, [Next]_vars PROVE [Store!Next]_<<operations, told>>
    OBVIOUS
  <1>1. CASE Arrival
    BY <1>1 DEF Arrival, Begin, tables
  <1>2. CASE Tick \/ CollectExpired
    BY <1>2 DEF Tick, CollectExpired
  <1>3. ASSUME NEW a \in Attempts, Wipe(a) \/ Insert(a) \/ Select(a) \/ Accept(a) \/ Rollback(a)
        PROVE  UNCHANGED <<operations, told>>
    BY <1>3 DEF Wipe, Insert, Select, Accept, Rollback, tables
  <1>4. CASE Handling
    BY <1>2, <1>3, <1>4, DecideImplements, CommitImplements DEF Handling
  <1>5. CASE UNCHANGED vars
    BY <1>5 DEF vars, tables
  <1> QED BY <1>1, <1>4, <1>5 DEF Next

-----------------------------------------------------------------------------
(* The theorems.                                                           *)

(* Rows, transactions and answers are of their kind (idempotency lib.rs,   *)
(* the ledger; intake.rs `admit').                                         *)
THEOREM TypeCorrect == Spec => []TypeOK
  BY IntakeAlways, PTL DEF IntakeInv

(* For ever, two 202 answers name one operation exactly when door, key and *)
(* payload are one, however many retries race and whenever the window      *)
(* closes (idempotency lib.rs `decide', operations lib.rs `accept').       *)
THEOREM OneMeaningAlways == Spec => []OneMeaningPerKey
  <1>1. IntakeInv => OneMeaningPerKey
    <2> SUFFICES ASSUME IntakeInv, NEW x \in told, NEW y \in told
                 PROVE  /\ x.req.door = y.req.door /\ x.req.key = y.req.key => x = y
                        /\ x.id = y.id => x.req = y.req
      BY DEF OneMeaningPerKey
    <2>1. x \in operations /\ y \in operations
      BY DEF IntakeInv, Derived
    <2>2. x.req.door = y.req.door /\ x.req.key = y.req.key => OpScope(x.req) = OpScope(y.req)
      BY DEF OpScope, Qualify
    <2> QED BY <2>1, <2>2 DEF IntakeInv, OneOfAKind
  <1> QED BY <1>1, IntakeAlways, PTL

(* An operation and all that belongs to it appear together, and every 202  *)
(* and every row of the ledger names an operation (intake.rs `admit').     *)
THEOREM AlwaysAcceptedWhole == Spec => []AcceptedWhole
  <1>1. IntakeInv => AcceptedWhole
    <2> SUFFICES ASSUME IntakeInv PROVE AcceptedWhole
      OBVIOUS
    <2> DEFINE ids == {o.id : o \in operations}
    <2>1. \A o \in operations : Cardinality({q \in operations : q.id = o.id}) = 1
      <3> SUFFICES ASSUME NEW o \in operations
                   PROVE  Cardinality({q \in operations : q.id = o.id}) = 1
        OBVIOUS
      <3>1. {q \in operations : q.id = o.id} = {o}
        BY DEF IntakeInv, OneOfAKind
      <3> QED BY <3>1, FS_Singleton
    <2>2. audit = ids
      BY DEF IntakeInv, Derived
    <2>3. outbox = {o.id : o \in {q \in operations : Emits(q.req.door)}}
      BY DEF IntakeInv, Derived
    <2>4. acceptances = {o.id : o \in {q \in operations : Binds(q.req.door)}}
      BY DEF IntakeInv, Derived
    <2>5. \A x \in told : x.id \in ids
      BY DEF IntakeInv, Derived
    <2>6. \A s \in Scopes : ledger[s] # NoRow => ledger[s].id \in ids
      BY DEF IntakeInv, Derived
    <2> QED BY <2>1, <2>2, <2>3, <2>4, <2>5, <2>6 DEF AcceptedWhole
  <1> QED BY <1>1, IntakeAlways, PTL

(* Behind the statements of transactions that interleave, windows that     *)
(* lapse, the sweep, rollbacks and lost answers, callers meet a store that *)
(* accepts the first request of a key in one step and from then on only    *)
(* repeats its answer (idempotency lib.rs `decide', `Reservation';         *)
(* operations lib.rs `accept').                                            *)
THEOREM IntakeImplementsStore == Spec => ImplementsStore
  <1>1. Init => Store!Init
    BY DEF Init, Store!Init
  <1> QED
    BY <1>1, IntakeAlways, NextImplements, PTL DEF Spec, ImplementsStore, Store!Spec

=============================================================================

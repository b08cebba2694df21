-------------------------- MODULE SchedulerProofs ---------------------------
(***************************************************************************)
(* What Scheduler promises of its due times, for any calendars, any number *)
(* of processes, registrations and rewinds, and any occurrence window.     *)
(***************************************************************************)
EXTENDS Scheduler, TLAPS

-----------------------------------------------------------------------------
(* The calendar.                                                           *)

LEMMA Division ==
  ASSUME NEW t \in Nat, NEW p \in Nat \ {0}
  PROVE  t \div p \in Nat /\ t = p * (t \div p) + (t % p) /\ t % p \in 0..(p - 1)
  OBVIOUS

LEMMA Products ==
  ASSUME NEW a \in Nat, NEW b \in Nat, NEW p \in Nat \ {0}, p * a < p * b
  PROVE  (a + 1) * p <= p * b
  <1>1. a < b
    <2> SUFFICES ASSUME b <= a PROVE FALSE
      OBVIOUS
    <2>1. p * b <= p * a
      OBVIOUS
    <2> QED BY <2>1
  <1>2. a + 1 <= b
    BY <1>1
  <1>3. p * (a + 1) <= p * b
    BY <1>2
  <1>4. (a + 1) * p = p * (a + 1)
    OBVIOUS
  <1> QED BY <1>3, <1>4

\* The next point of a calendar is no further than its period, and than any
\* later point of it.
LEMMA NextPoint ==
  ASSUME NEW p \in Nat \ {0}, NEW t \in Nat
  PROVE  /\ NextAfter(p, t) \in Nat /\ t < NextAfter(p, t) /\ NextAfter(p, t) <= t + p
         /\ \A d \in Nat : d % p = 0 /\ t < d => NextAfter(p, t) <= d
  <1> DEFINE a == t \div p
  <1>1. a \in Nat /\ t = p * a + (t % p) /\ t % p \in 0..(p - 1)
    BY Division
  <1>2. NextAfter(p, t) = p * a + p
    BY <1>1 DEF NextAfter
  <1>3. p * a \in Nat
    BY <1>1
  <1>4. NextAfter(p, t) \in Nat /\ t < NextAfter(p, t) /\ NextAfter(p, t) <= t + p
    BY <1>1, <1>2, <1>3
  <1>5. ASSUME NEW d \in Nat, d % p = 0, t < d
        PROVE  NextAfter(p, t) <= d
    <2>1. d \div p \in Nat /\ d = p * (d \div p)
      BY <1>5, Division
    <2>2. p * a <= t
      BY <1>1, <1>3
    <2>3. p * a < p * (d \div p)
      BY <1>3, <1>5, <2>1, <2>2
    <2>4. (a + 1) * p <= p * (d \div p)
      BY <1>1, <2>1, <2>3, Products
    <2> QED BY <2>1, <2>4 DEF NextAfter
  <1> QED BY <1>4, <1>5

LEMMA TimesAreEnough ==
  /\ Times \subseteq Nat /\ Horizon \in Nat /\ Window \in Nat
  /\ \A t \in Times : t \in Nat
  /\ \A t \in 0..Horizon : t \in Times
  /\ \A t \in 0..Horizon, p \in Periods : /\ t \in Times /\ p \in Nat \ {0}
                                         /\ NextAfter(p, t) \in Times \ {0}
  <1> DEFINE longest == CHOOSE p \in Periods : \A q \in Periods : q <= p
  <1>1. /\ longest \in Periods /\ \A q \in Periods : q <= longest
        /\ Horizon \in Nat /\ Window \in Nat /\ Periods \subseteq Nat \ {0}
    BY SchedulerAssumption
  <1>2. Times = 0..(Horizon + longest)
    BY DEF Times
  <1> HIDE DEF longest
  <1>3. ASSUME NEW t \in 0..Horizon, NEW p \in Periods
        PROVE  t \in Times /\ p \in Nat \ {0} /\ NextAfter(p, t) \in Times \ {0}
    <2>1. p \in Nat \ {0} /\ t \in Nat /\ p <= longest /\ longest \in Nat
      BY <1>1
    <2>2. NextAfter(p, t) \in Nat /\ t < NextAfter(p, t) /\ NextAfter(p, t) <= t + p
      BY <2>1, NextPoint
    <2> QED BY <1>1, <1>2, <2>1, <2>2
  <1>4. \A t \in 0..Horizon : t \in Times
    BY <1>1, <1>3
  <1> QED BY <1>1, <1>2, <1>3, <1>4

-----------------------------------------------------------------------------
(* The invariant.                                                          *)

Row == [next : Times \ {0}, period : Periods, enabled : BOOLEAN, principal : Principals]
PassEntry == [pc : {"idle", "pass", "locked"}, now : 0..Horizon,
              todo : SUBSET (Schedules \X Times), id : Schedules \union {"none"}]

Rows ==
  /\ schedule \in [Schedules -> Row \union {Unregistered}]
  /\ commands \in [Schedules -> [Times -> [Principals -> {0, 1}]]]
Clocks ==
  /\ clock \in 0..Horizon
  /\ edit \in [under : BOOLEAN, now : 0..clock]
  /\ edits \in 0..MaxEdits /\ rewinds \in 0..MaxRewinds
Passes ==
  /\ pass \in [Schedulers -> PassEntry]
  /\ \A p \in Schedulers : pass[p].now <= clock

\* Whoever is handling a schedule has it alone, and it is still due.
Locks ==
  \A p \in Schedulers : pass[p].pc = "locked" =>
    /\ pass[p].id \in Schedules
    /\ Due(pass[p].id, pass[p].now)
    /\ \A q \in Schedulers : pass[q].pc = "locked" /\ pass[q].id = pass[p].id => q = p

\* An occurrence has an operation, and an operation its command.
OnRecord ==
  /\ \A o \in occurrences : o.at \in 0..clock /\ \E u \in Principals : <<u, o.id>> \in operations
  /\ \A key \in operations : key \in Principals \X (Schedules \X Times)
  /\ forgotten \subseteq Schedules \X Times
  /\ \A s \in Schedules, d \in Times, u \in Principals :
       <<u, <<s, d>>>> \in operations <=> commands[s][d][u] = 1

\* What was published is on record, or the sweep has forgotten it.
Accounted ==
  \A s \in Schedules, d \in Times :
    Published(s, d) => <<s, d>> \in forgotten \/ \E o \in occurrences : o.id = <<s, d>>

\* Nothing is published of a schedule that was never registered.
Registered ==
  \A s \in Schedules : schedule[s] = Unregistered => \A d \in Times : ~ Published(s, d)

SchedulerInv ==
  /\ Rows /\ Clocks /\ Passes /\ Locks
  /\ OnRecord /\ Accounted /\ Registered /\ PublishedOnce /\ GridIsCovered

LEMMA DueIsRegistered ==
  ASSUME Rows, NEW s \in Schedules, NEW now \in 0..Horizon, Due(s, now)
  PROVE  schedule[s] \in Row /\ schedule[s].next \in 0..Horizon
  <1>1. schedule[s] \in Row
    BY DEF Rows, Due, Unregistered
  <1>2. schedule[s].next \in Times /\ schedule[s].next <= now
    BY <1>1 DEF Row, Due
  <1>3. schedule[s].next \in Nat /\ now \in 0..Horizon /\ Horizon \in Nat
    BY <1>2, TimesAreEnough
  <1>4. \A t \in Nat : t <= now => t \in 0..Horizon
    BY <1>3
  <1> QED BY <1>1, <1>2, <1>3, <1>4

\* What a row of the calendar is after it was handled.
LEMMA HandledRow ==
  ASSUME Rows, NEW s \in Schedules, NEW now \in 0..Horizon, Due(s, now), Reschedule(s, now)
  PROVE  /\ schedule' \in [Schedules -> Row \union {Unregistered}]
         /\ \A t \in Schedules \ {s} : schedule'[t] = schedule[t]
         /\ schedule'[s] \in Row
         /\ \A d \in Times : (/\ schedule[s].next < d
                              /\ \A period \in Periods : d % period = 0) => schedule'[s].next <= d
  <1>1. schedule[s] \in Row /\ schedule[s].next \in 0..Horizon
    BY DueIsRegistered
  <1>2. PICK next \in 0..Horizon, period \in Periods : next = schedule[s].next /\ period = schedule[s].period
    BY <1>1 DEF Row
  <1>3. schedule' = [schedule EXCEPT ![s].next = NextAfter(period, next)]
    BY <1>2 DEF Reschedule, Following
  <1>4. NextAfter(period, next) \in Times \ {0}
    BY TimesAreEnough
  <1>5. /\ schedule' \in [Schedules -> Row \union {Unregistered}]
        /\ \A t \in Schedules \ {s} : schedule'[t] = schedule[t]
        /\ schedule'[s] \in Row /\ schedule'[s].next = NextAfter(period, next)
    BY <1>1, <1>3, <1>4 DEF Rows, Row
  <1>6. \A d \in Times : next < d /\ d % period = 0 => NextAfter(period, next) <= d
    <2>1. period \in Nat \ {0} /\ next \in Nat /\ Times \subseteq Nat
      BY TimesAreEnough
    <2> QED BY <2>1, NextPoint
  <1> QED BY <1>2, <1>5, <1>6

\* What the other steps leave of it.
LEMMA NotHandled ==
  ASSUME SchedulerInv, Clocks', Passes', Locks', UNCHANGED <<schedule, operations, commands>>,
         occurrences' \subseteq occurrences, clock <= clock',
         \A o \in occurrences : o \in occurrences' \/ o.id \in forgotten',
         forgotten \subseteq forgotten',
         \A id \in forgotten' : id \in forgotten \/ \E o \in occurrences : o.id = id
  PROVE  SchedulerInv'
  <1>0. \A s \in Schedules, d \in Times : Published(s, d)' <=> Published(s, d)
    BY DEF Published
  <1>1. Rows' /\ Registered' /\ GridIsCovered'
    BY <1>0 DEF SchedulerInv, Rows, Registered, GridIsCovered
  <1>2. clock \in Nat /\ clock' \in Nat
    BY SchedulerAssumption DEF SchedulerInv, Clocks
  <1>3. 0..clock \subseteq 0..clock'
    BY <1>2
  <1>4. OnRecord'
    <2>1. \A o \in occurrences : o.id \in Schedules \X Times
      BY DEF SchedulerInv, OnRecord
    <2>2. forgotten' \subseteq Schedules \X Times
      BY <2>1 DEF SchedulerInv, OnRecord
    <2> QED BY <1>3, <2>2 DEF SchedulerInv, OnRecord
  <1>5. Accounted'
    <2> SUFFICES ASSUME NEW s \in Schedules, NEW d \in Times, Published(s, d)
                 PROVE  <<s, d>> \in forgotten' \/ \E o \in occurrences' : o.id = <<s, d>>
      BY <1>0 DEF Accounted
    <2> QED BY DEF SchedulerInv, Accounted
  <1>6. PublishedOnce'
    BY DEF SchedulerInv, PublishedOnce
  <1> QED BY <1>1, <1>4, <1>5, <1>6 DEF SchedulerInv

\* A step that leaves what was published alone.
LEMMA RecordsStay ==
  ASSUME OnRecord, Accounted, PublishedOnce,
         UNCHANGED <<clock, occurrences, operations, commands, forgotten>>
  PROVE  OnRecord' /\ Accounted' /\ PublishedOnce'
  <1>1. OnRecord'
    BY DEF OnRecord
  <1>2. Accounted'
    BY DEF Accounted, Published
  <1> QED BY <1>1, <1>2 DEF PublishedOnce

\* A pass goes on and locks nothing that it had not locked.
PassGoesOn(p) ==
  \E e \in PassEntry :
    /\ pass' = [pass EXCEPT ![p] = e]
    /\ e.now <= clock /\ e.pc # "locked"

LEMMA PassesGoOn ==
  ASSUME SchedulerInv, NEW p \in Schedulers, PassGoesOn(p),
         UNCHANGED <<clock, edit, edits, rewinds>>
  PROVE  /\ Clocks' /\ Passes'
         /\ UNCHANGED schedule => Locks'
  <1>1. Clocks'
    BY DEF SchedulerInv, Clocks
  <1>2. PICK e \in PassEntry :
          /\ pass' = [pass EXCEPT ![p] = e]
          /\ e.now <= clock /\ e.pc # "locked"
    BY DEF PassGoesOn
  <1>3. /\ pass' \in [Schedulers -> PassEntry] /\ pass'[p] = e
        /\ \A q \in Schedulers \ {p} : pass'[q] = pass[q]
    BY <1>2 DEF SchedulerInv, Passes
  <1>4. Passes'
    BY <1>2, <1>3 DEF SchedulerInv, Passes
  <1>5. ASSUME UNCHANGED schedule PROVE Locks'
    BY <1>2, <1>3, <1>5 DEF SchedulerInv, Locks, Due
  <1> QED BY <1>1, <1>4, <1>5

LEMMA ReleaseGoesOn ==
  ASSUME SchedulerInv, NEW p \in Schedulers, Release(p)
  PROVE  PassGoesOn(p)
  <1> DEFINE e == [pass[p] EXCEPT !.pc = "pass", !.id = "none"]
  <1>1. e \in PassEntry /\ e.now = pass[p].now /\ e.pc = "pass"
    BY DEF SchedulerInv, Passes, PassEntry
  <1>2. pass' = [pass EXCEPT ![p] = e]
    BY DEF Release, SchedulerInv, Passes
  <1>3. pass[p].now <= clock
    BY DEF SchedulerInv, Passes
  <1> HIDE DEF e
  <1> QED BY <1>1, <1>2, <1>3 DEF PassGoesOn

LEMMA RestingGoesOn ==
  ASSUME SchedulerInv, NEW p \in Schedulers, pass' = [pass EXCEPT ![p] = Resting]
  PROVE  PassGoesOn(p)
  <1>1. Resting \in PassEntry /\ Resting.now = 0 /\ Resting.pc = "idle" /\ 0 <= clock
    BY SchedulerAssumption DEF Resting, PassEntry, SchedulerInv, Clocks
  <1> QED BY <1>1 DEF PassGoesOn

-----------------------------------------------------------------------------
(* The steps.                                                              *)

LEMMA TickKeeps ==
  ASSUME SchedulerInv, Tick \/ BeginEdit
  PROVE  SchedulerInv'
  <1>1. clock \in Nat /\ Horizon \in Nat /\ clock <= clock' /\ clock' \in 0..Horizon
    BY SchedulerAssumption DEF Tick, BeginEdit, SchedulerInv, Clocks
  <1>2. UNCHANGED rows /\ UNCHANGED pass
    BY DEF Tick, BeginEdit
  <1>3. Clocks'
    <2>1. CASE Tick
      BY <1>1, <2>1 DEF Tick, SchedulerInv, Clocks
    <2>2. CASE BeginEdit
      BY <1>1, <2>2, SchedulerAssumption DEF BeginEdit, SchedulerInv, Clocks
    <2> QED BY <2>1, <2>2
  <1>4. Passes'
    BY <1>1, <1>2 DEF SchedulerInv, Passes, PassEntry
  <1>5. Locks'
    BY <1>2 DEF SchedulerInv, Locks, Due, rows
  <1> QED BY <1>1, <1>2, <1>3, <1>4, <1>5, NotHandled DEF rows

LEMMA PassKeeps ==
  ASSUME SchedulerInv, NEW p \in Schedulers,
         StartPass(p) \/ EndPass(p) \/ CutOff(p) \/ \E s \in Schedules : Fail(p, s)
  PROVE  SchedulerInv'
  <1>1. UNCHANGED <<clock, edit, edits, rewinds>> /\ UNCHANGED rows
    BY DEF StartPass, EndPass, CutOff, Fail
  <1>2. PassGoesOn(p)
    <2>1. CASE StartPass(p)
      <3>1. PICK todo \in SUBSET Schedules :
              /\ \A s \in todo : Due(s, clock)
              /\ pass' = [pass EXCEPT ![p] =
                           [Resting EXCEPT !.pc = "pass", !.now = clock,
                                           !.todo = {<<s, schedule[s].next>> : s \in todo}]]
        BY <2>1 DEF StartPass
      <3> DEFINE e == [Resting EXCEPT !.pc = "pass", !.now = clock,
                                      !.todo = {<<s, schedule[s].next>> : s \in todo}]
      <3>2. clock \in 0..Horizon /\ Rows
        BY DEF SchedulerInv, Clocks
      <3>3. \A s \in todo : schedule[s].next \in Times
        BY <3>1, <3>2, DueIsRegistered, TimesAreEnough
      <3>4. e \in PassEntry /\ e.now = clock /\ e.pc = "pass"
        <4>1. {<<s, schedule[s].next>> : s \in todo} \in SUBSET (Schedules \X Times)
          BY <3>3
        <4> QED BY <3>2, <4>1 DEF Resting, PassEntry
      <3>5. pass' = [pass EXCEPT ![p] = e] /\ e.now <= clock
        BY <3>1, <3>2, <3>4, SchedulerAssumption
      <3> HIDE DEF e
      <3> QED BY <3>4, <3>5 DEF PassGoesOn
    <2>2. CASE EndPass(p) \/ CutOff(p)
      BY <2>2, RestingGoesOn DEF EndPass, CutOff
    <2>3. CASE \E s \in Schedules : Fail(p, s)
      BY <2>3, ReleaseGoesOn DEF Fail
    <2> QED BY <2>1, <2>2, <2>3
  <1>3. Clocks' /\ Passes' /\ Locks'
    BY <1>1, <1>2, PassesGoOn DEF rows
  <1>4. clock <= clock'
    BY <1>1, SchedulerAssumption DEF SchedulerInv, Clocks
  <1> QED BY <1>1, <1>3, <1>4, NotHandled DEF rows

LEMMA ClaimKeeps ==
  ASSUME SchedulerInv, NEW p \in Schedulers, NEW s \in Schedules, Claim(p, s)
  PROVE  SchedulerInv'
  <1>1. /\ UNCHANGED <<clock, edit, edits, rewinds>> /\ UNCHANGED rows
        /\ pass[p] \in PassEntry /\ pass[p].pc = "pass" /\ pass[p].now <= clock
    BY DEF Claim, SchedulerInv, Passes
  <1>2. PICK due \in Times :
          LET rest == [pass[p] EXCEPT !.todo = @ \ {<<s, due>>}] IN
          pass' = [pass EXCEPT ![p] = IF Locked(s) \/ ~ Due(s, pass[p].now) THEN rest
                                      ELSE [rest EXCEPT !.pc = "locked", !.id = s]]
    BY DEF Claim
  <1> DEFINE rest == [pass[p] EXCEPT !.todo = @ \ {<<s, due>>}]
  <1>3. rest \in PassEntry /\ rest.now = pass[p].now /\ rest.pc = "pass"
    BY <1>1 DEF PassEntry
  <1>4. CASE Locked(s) \/ ~ Due(s, pass[p].now)
    <2>1. pass' = [pass EXCEPT ![p] = rest]
      BY <1>2, <1>4
    <2> HIDE DEF rest
    <2>2. PassGoesOn(p)
      BY <1>1, <1>3, <2>1 DEF PassGoesOn
    <2>3. Clocks' /\ Passes' /\ Locks'
      BY <1>1, <2>2, PassesGoOn DEF rows
    <2>4. clock <= clock'
      BY <1>1, SchedulerAssumption DEF SchedulerInv, Clocks
    <2> QED BY <1>1, <2>3, <2>4, NotHandled DEF rows
  <1>5. CASE ~ Locked(s) /\ Due(s, pass[p].now)
    <2> DEFINE e == [rest EXCEPT !.pc = "locked", !.id = s]
    <2>1. pass' = [pass EXCEPT ![p] = e]
      BY <1>2, <1>5
    <2>2. e \in PassEntry /\ e.now = pass[p].now /\ e.pc = "locked" /\ e.id = s
      <3> HIDE DEF rest
      <3> QED BY <1>3 DEF PassEntry
    <2> HIDE DEF e
    <2>3. /\ pass' \in [Schedulers -> PassEntry] /\ pass'[p] = e
          /\ \A q \in Schedulers \ {p} : pass'[q] = pass[q]
      BY <2>1, <2>2 DEF SchedulerInv, Passes
    <2>4. Clocks' /\ Passes'
      BY <1>1, <2>2, <2>3 DEF SchedulerInv, Clocks, Passes
    <2>5. Locks'
      BY <1>1, <1>5, <2>2, <2>3 DEF SchedulerInv, Locks, Locked, Due, rows
    <2>6. clock <= clock'
      BY <1>1, SchedulerAssumption DEF SchedulerInv, Clocks
    <2> QED BY <1>1, <2>4, <2>5, <2>6, NotHandled DEF rows
  <1> QED BY <1>4, <1>5

\* A publication is on record under the schedule's principal.  Another
\* principal's stays what it was: without a record it was forgotten.
LEMMA PublishRecords ==
  ASSUME Rows, OnRecord, Accounted, PublishedOnce, NEW p \in Schedulers, NEW s \in Schedules,
         schedule[s] \in Row, NEW now \in 0..clock, now = pass[p].now,
         NEW due \in Times, due = schedule[s].next, Publish(p, s)
  PROVE  /\ commands' \in [Schedules -> [Times -> [Principals -> {0, 1}]]]
         /\ \E u \in Principals : commands'[s][due][u] = 1
         /\ \A t \in Schedules, d \in Times :
              (t # s \/ d # due) => commands'[t][d] = commands[t][d]
         /\ OnRecord' /\ Accounted' /\ PublishedOnce'
  <1>1. PICK own \in Principals : own = schedule[s].principal
    BY DEF Row
  <1>2. /\ \A o \in occurrences : o.id # <<s, due>>
        /\ <<own, <<s, due>>>> \notin operations
        /\ occurrences' = occurrences \union {[id |-> <<s, due>>, at |-> now]}
        /\ operations' = operations \union {<<own, <<s, due>>>>}
        /\ commands' = [commands EXCEPT ![s][due][own] = @ + 1]
        /\ UNCHANGED <<clock, forgotten>>
    BY <1>1 DEF Publish, Refused, Recorded, OccurrenceId, KeyOf
  <1>3. commands \in [Schedules -> [Times -> [Principals -> {0, 1}]]] /\ commands[s][due][own] = 0
    BY <1>2 DEF Rows, OnRecord
  <1>4. /\ commands' \in [Schedules -> [Times -> [Principals -> {0, 1}]]]
        /\ commands'[s][due][own] = 1
        /\ \A u \in Principals \ {own} : commands'[s][due][u] = commands[s][due][u]
        /\ \A t \in Schedules, d \in Times :
             (t # s \/ d # due) => commands'[t][d] = commands[t][d]
    BY <1>2, <1>3
  <1>5. OnRecord'
    <2>1. \A o \in occurrences' : o.at \in 0..clock' /\ \E u \in Principals : <<u, o.id>> \in operations'
      BY <1>2 DEF OnRecord
    <2>2. /\ \A key \in operations' : key \in Principals \X (Schedules \X Times)
          /\ forgotten' \subseteq Schedules \X Times
      BY <1>2 DEF OnRecord
    <2>3. ASSUME NEW t \in Schedules, NEW d \in Times, NEW u \in Principals
          PROVE  <<u, <<t, d>>>> \in operations' <=> commands'[t][d][u] = 1
      <3>1. CASE t = s /\ d = due /\ u = own
        BY <1>2, <1>4, <3>1
      <3>2. CASE t # s \/ d # due \/ u # own
        <4>1. <<u, <<t, d>>>> # <<own, <<s, due>>>> /\ commands'[t][d][u] = commands[t][d][u]
          BY <1>4, <3>2
        <4> QED BY <1>2, <4>1 DEF OnRecord
      <3> QED BY <3>1, <3>2
    <2> QED BY <2>1, <2>2, <2>3 DEF OnRecord
  <1>6. Accounted'
    <2> SUFFICES ASSUME NEW t \in Schedules, NEW d \in Times, Published(t, d)'
                 PROVE  <<t, d>> \in forgotten' \/ \E o \in occurrences' : o.id = <<t, d>>
      BY DEF Accounted
    <2>1. CASE t = s /\ d = due
      <3>1. [id |-> <<s, due>>, at |-> now] \in occurrences'
        BY <1>2
      <3> QED BY <2>1, <3>1
    <2>2. CASE t # s \/ d # due
      <3>1. Published(t, d)
        BY <1>4, <2>2 DEF Published
      <3> QED BY <1>2, <3>1 DEF Accounted
    <2> QED BY <2>1, <2>2
  <1>7. PublishedOnce'
    <2> SUFFICES ASSUME NEW t \in Schedules, NEW d \in Times, NEW u \in Principals, NEW v \in Principals
                 PROVE  /\ commands'[t][d][u] <= 1
                        /\ commands'[t][d][u] > 0 /\ commands'[t][d][v] > 0
                             => u = v \/ <<t, d>> \in forgotten'
      BY DEF PublishedOnce
    <2>1. commands'[t][d][u] <= 1
      BY <1>4
    <2>2. CASE t # s \/ d # due
      BY <1>2, <1>4, <2>1, <2>2 DEF PublishedOnce
    <2>3. CASE t = s /\ d = due
      <3> SUFFICES ASSUME u # v, commands'[s][due][u] > 0, commands'[s][due][v] > 0
                   PROVE  <<s, due>> \in forgotten
        BY <1>2, <2>1, <2>3
      <3>1. PICK w \in Principals : w # own /\ commands'[s][due][w] > 0
        OBVIOUS
      <3>2. commands[s][due][w] > 0
        BY <1>4, <3>1
      <3>3. Published(s, due)
        BY <3>2 DEF Published
      <3> QED BY <1>2, <3>3 DEF Accounted
    <2> QED BY <2>2, <2>3
  <1> QED BY <1>4, <1>5, <1>6, <1>7

\* A schedule is handled: its due time is on record by then.
LEMMA HandleKeeps ==
  ASSUME SchedulerInv, NEW p \in Schedulers, NEW s \in Schedules, Publish(p, s) \/ Suppress(p, s)
  PROVE  SchedulerInv' /\ \E u \in Principals : commands'[s][schedule[s].next][u] > 0
  <1>0. /\ Rows /\ Clocks /\ Passes /\ Locks
        /\ OnRecord /\ Accounted /\ Registered /\ PublishedOnce /\ GridIsCovered
    BY DEF SchedulerInv
  <1>1. /\ pass[p].pc = "locked" /\ pass[p].id = s
        /\ Reschedule(s, pass[p].now) /\ Release(p)
        /\ UNCHANGED <<clock, edit, edits, rewinds>>
    BY DEF Publish, Suppress, Holds
  <1>2. PICK now \in 0..Horizon : now = pass[p].now /\ now <= clock /\ Due(s, now)
    BY <1>0, <1>1 DEF Passes, PassEntry, Locks
  <1>3. schedule[s] \in Row /\ schedule[s].next \in 0..Horizon
    BY <1>0, <1>2, DueIsRegistered
  <1>4. PICK due \in Times : due = schedule[s].next
    BY <1>3, TimesAreEnough
  <1>5. /\ schedule' \in [Schedules -> Row \union {Unregistered}]
        /\ \A t \in Schedules \ {s} : schedule'[t] = schedule[t]
        /\ schedule'[s] \in Row
        /\ \A d \in Times : (/\ due < d
                             /\ \A period \in Periods : d % period = 0) => schedule'[s].next <= d
    BY <1>0, <1>1, <1>2, <1>4, HandledRow
  <1>6. PassGoesOn(p)
    BY <1>1, ReleaseGoesOn
  <1>7. Clocks' /\ Passes'
    BY <1>1, <1>6, PassesGoOn
  <1>8. Locks'
    <2>1. PICK e \in PassEntry :
            /\ pass' = [pass EXCEPT ![p] = e]
            /\ e.now <= clock /\ e.pc # "locked"
      BY <1>6 DEF PassGoesOn
    <2>2. pass'[p].pc # "locked" /\ \A q \in Schedulers \ {p} : pass'[q] = pass[q]
      BY <1>0, <2>1 DEF Passes
    <2>3. \A q \in Schedulers \ {p} : pass[q].pc = "locked" => pass[q].id # s
      BY <1>0, <1>1 DEF Locks
    <2> QED BY <1>0, <1>5, <2>2, <2>3 DEF Locks, Due
  <1>9. /\ commands' \in [Schedules -> [Times -> [Principals -> {0, 1}]]]
        /\ \E u \in Principals : commands'[s][due][u] = 1
        /\ \A t \in Schedules, d \in Times :
             (t # s \/ d # due) => commands'[t][d] = commands[t][d]
        /\ OnRecord' /\ Accounted' /\ PublishedOnce'
    <2>1. CASE Publish(p, s)
      BY <1>0, <1>2, <1>3, <1>4, <2>1, PublishRecords
    <2>2. CASE Suppress(p, s)
      <3>1. /\ UNCHANGED <<occurrences, operations, commands, forgotten>>
            /\ \E o \in occurrences : o.id = <<s, due>>
        BY <1>4, <2>2 DEF Suppress, Recorded, OccurrenceId
      <3>2. \E u \in Principals : commands[s][due][u] = 1
        BY <1>0, <3>1 DEF OnRecord
      <3>3. Accounted' /\ PublishedOnce'
        BY <1>0, <3>1 DEF Accounted, PublishedOnce, Published
      <3> QED BY <1>0, <1>1, <3>1, <3>2, <3>3 DEF OnRecord, Rows
    <2> QED BY <2>1, <2>2
  <1>a. /\ Published(s, due)'
        /\ \A t \in Schedules, d \in Times : (t # s \/ d # due) => (Published(t, d)' <=> Published(t, d))
    BY <1>9 DEF Published
  <1>10. Registered'
    <2>1. schedule'[s] # Unregistered
      BY <1>5, TimesAreEnough DEF Row, Unregistered
    <2> QED BY <1>0, <1>5, <1>a, <2>1 DEF Registered
  <1>11. GridIsCovered'
    <2> SUFFICES ASSUME NEW t \in Schedules, NEW first \in Times, NEW d \in Times,
                        Published(t, first)', first < d, d < schedule'[t].next,
                        \A period \in Periods : d % period = 0
                 PROVE  Published(t, d)'
      BY DEF GridIsCovered
    <2>1. CASE t # s
      BY <1>0, <1>5, <1>a, <2>1 DEF GridIsCovered
    <2>2. CASE t = s
      <3>1. d \in Nat /\ due \in Nat /\ first \in Nat /\ schedule'[s].next \in Nat
        BY <1>5, TimesAreEnough DEF Row
      <3>2. ~ (due < d)
        BY <1>5, <2>2, <3>1
      <3>3. CASE d = due
        BY <1>a, <2>2, <3>3
      <3>4. CASE d < due
        <4>1. first # due
          BY <3>1, <3>4
        <4>2. Published(s, first)
          BY <1>a, <2>2, <4>1
        <4>3. Published(s, d)
          BY <1>0, <1>4, <3>4, <4>2 DEF GridIsCovered
        <4> QED BY <1>a, <2>2, <3>4, <4>3
      <3> QED BY <3>1, <3>2, <3>3, <3>4
    <2> QED BY <2>1, <2>2
  <1> QED BY <1>4, <1>5, <1>7, <1>8, <1>9, <1>10, <1>11 DEF SchedulerInv, Rows

\* A registration keeps what is due, and a point of every calendar that is
\* still to come stays to come.
LEMMA EditKeeps ==
  ASSUME SchedulerInv, NEW s \in Schedules, NEW period \in Periods, NEW enabled \in BOOLEAN,
         NEW principal \in Principals, ApplyEdit(s, period, enabled, principal)
  PROVE  SchedulerInv'
  <1>0. /\ Rows /\ Clocks /\ Passes /\ Locks
        /\ OnRecord /\ Accounted /\ Registered /\ PublishedOnce /\ GridIsCovered
    BY DEF SchedulerInv
  <1>1. /\ ~ Locked(s)
        /\ schedule' = [schedule EXCEPT ![s] = [next |-> Retained(schedule[s], period, edit.now),
                                                period |-> period, enabled |-> enabled,
                                                principal |-> principal]]
        /\ edit' = NoEdit
        /\ UNCHANGED <<clock, occurrences, operations, commands, forgotten, pass, edits, rewinds>>
    BY <1>0 DEF ApplyEdit, Rows
  <1>2. PICK now \in 0..Horizon : now = edit.now
    BY <1>0, SchedulerAssumption DEF Clocks
  <1>3. PICK next : next = Retained(schedule[s], period, now)
    OBVIOUS
  <1>4. /\ NextAfter(period, now) \in Times \ {0}
        /\ \A d \in Times : now < d /\ d % period = 0 => NextAfter(period, now) <= d
    <2>1. period \in Nat \ {0} /\ now \in Nat /\ \A d \in Times : d \in Nat
      BY TimesAreEnough
    <2> QED BY <2>1, NextPoint, TimesAreEnough
  <1>5. \/ next = NextAfter(period, now) /\ (schedule[s] = Unregistered \/ ~ (schedule[s].next <= now))
        \/ schedule[s] # Unregistered /\ next = schedule[s].next
    BY <1>3 DEF Retained
  <1>6. schedule[s] # Unregistered => schedule[s] \in Row /\ schedule[s].next \in Times \ {0}
    BY <1>0 DEF Rows, Row
  <1>7. next \in Times \ {0}
    BY <1>4, <1>5, <1>6
  <1>8. /\ schedule' \in [Schedules -> Row \union {Unregistered}]
        /\ \A t \in Schedules \ {s} : schedule'[t] = schedule[t]
        /\ schedule'[s] \in Row /\ schedule'[s].next = next
    BY <1>0, <1>1, <1>2, <1>3, <1>7 DEF Rows, Row
  <1>9. Clocks' /\ Passes'
    BY <1>0, <1>1, SchedulerAssumption DEF Clocks, Passes, NoEdit
  <1>10. Locks'
    BY <1>0, <1>1, <1>8 DEF Locks, Locked, Due
  <1>11. schedule'[s] # Unregistered
    BY <1>8 DEF Row, Unregistered
  <1>12. OnRecord' /\ Accounted' /\ Registered' /\ PublishedOnce' /\ Rows'
    <2>1. OnRecord' /\ Accounted' /\ PublishedOnce'
      BY <1>0, <1>1, RecordsStay
    <2>2. Registered'
      BY <1>0, <1>1, <1>8, <1>11 DEF Registered, Published
    <2> QED BY <1>0, <1>1, <1>8, <2>1, <2>2 DEF Rows
  <1>13. GridIsCovered'
    <2> SUFFICES ASSUME NEW t \in Schedules, NEW first \in Times, NEW d \in Times,
                        Published(t, first), first < d, d < schedule'[t].next,
                        \A q \in Periods : d % q = 0
                 PROVE  Published(t, d)
      BY <1>1 DEF GridIsCovered, Published
    <2>1. CASE t # s
      BY <1>0, <1>8, <2>1 DEF GridIsCovered
    <2>2. CASE t = s
      <3>1. schedule[s] # Unregistered
        BY <1>0, <2>2 DEF Registered
      <3>2. /\ d \in Nat /\ next \in Nat /\ schedule[s].next \in Nat /\ now \in Nat
            /\ NextAfter(period, now) \in Nat
        BY <1>4, <1>6, <1>7, <3>1, TimesAreEnough
      <3>3. d < schedule[s].next
        <4>1. CASE next = schedule[s].next
          BY <1>8, <2>2, <4>1
        <4>2. CASE next = NextAfter(period, now) /\ ~ (schedule[s].next <= now)
          <5>1. ~ (now < d)
            BY <1>4, <1>8, <2>2, <3>2, <4>2
          <5> QED BY <3>2, <4>2, <5>1
        <4> QED BY <1>5, <3>1, <4>1, <4>2
      <3> QED BY <1>0, <2>2, <3>3 DEF GridIsCovered
    <2> QED BY <2>1, <2>2
  <1> QED BY <1>9, <1>10, <1>12, <1>13 DEF SchedulerInv

LEMMA RewindKeeps ==
  ASSUME SchedulerInv, NEW s \in Schedules, NEW t \in Times, Rewind(s, t)
  PROVE  SchedulerInv'
  <1>0. /\ Rows /\ Clocks /\ Passes /\ Locks
        /\ OnRecord /\ Accounted /\ Registered /\ PublishedOnce /\ GridIsCovered
    BY DEF SchedulerInv
  <1>1. /\ ~ Locked(s) /\ t < schedule[s].next /\ t > 0
        /\ schedule' = [schedule EXCEPT ![s].next = t]
        /\ rewinds < MaxRewinds /\ rewinds' = rewinds + 1
        /\ UNCHANGED <<clock, occurrences, operations, commands, forgotten, pass, edit, edits>>
    BY DEF Rewind
  <1>2. schedule[s] \in Row /\ t \in Nat
    BY <1>0, <1>1, TimesAreEnough DEF Rows, Unregistered
  <1>3. /\ schedule' \in [Schedules -> Row \union {Unregistered}]
        /\ \A u \in Schedules \ {s} : schedule'[u] = schedule[u]
        /\ schedule'[s] \in Row /\ schedule'[s].next = t
    BY <1>0, <1>1, <1>2 DEF Rows, Row
  <1>4. Clocks' /\ Passes'
    BY <1>0, <1>1, SchedulerAssumption DEF Clocks, Passes
  <1>5. Locks'
    BY <1>0, <1>1, <1>3 DEF Locks, Locked, Due
  <1>6. schedule'[s] # Unregistered
    BY <1>3 DEF Row, Unregistered
  <1>7. OnRecord' /\ Accounted' /\ Registered' /\ PublishedOnce' /\ Rows'
    <2>1. OnRecord' /\ Accounted' /\ PublishedOnce'
      BY <1>0, <1>1, RecordsStay
    <2>2. Registered'
      BY <1>0, <1>1, <1>3, <1>6 DEF Registered, Published
    <2> QED BY <1>0, <1>1, <1>3, <2>1, <2>2 DEF Rows
  <1>8. GridIsCovered'
    <2>1. schedule[s].next \in Nat /\ \A d \in Times : d \in Nat
      BY <1>2, TimesAreEnough DEF Row
    <2>2. \A u \in Schedules, d \in Times : d < schedule'[u].next => d < schedule[u].next
      BY <1>1, <1>2, <1>3, <2>1
    <2> QED BY <1>0, <1>1, <2>2 DEF GridIsCovered, Published
  <1> QED BY <1>4, <1>5, <1>7, <1>8 DEF SchedulerInv

LEMMA CollectKeeps ==
  ASSUME SchedulerInv, CollectOccurrences
  PROVE  SchedulerInv'
  <1>1. /\ UNCHANGED <<clock, schedule, operations, commands, pass, edit, edits, rewinds>>
        /\ occurrences' \subseteq occurrences
        /\ forgotten' = forgotten \union {o.id : o \in occurrences \ occurrences'}
    BY DEF CollectOccurrences
  <1>2. Clocks' /\ Passes' /\ Locks' /\ clock <= clock'
    BY <1>1, SchedulerAssumption DEF SchedulerInv, Clocks, Passes, Locks, Due
  <1> QED BY <1>1, <1>2, NotHandled

LEMMA InitHolds == Init => SchedulerInv
  <1> SUFFICES ASSUME Init PROVE SchedulerInv
    OBVIOUS
  <1>1. Rows /\ Registered
    BY DEF Init, Rows, Registered, Published
  <1>2. Clocks
    BY SchedulerAssumption DEF Init, Clocks, NoEdit
  <1>3. Passes
    BY SchedulerAssumption DEF Init, Passes, PassEntry, Resting
  <1>4. Locks
    BY DEF Init, Locks, Resting
  <1>5. OnRecord /\ Accounted /\ PublishedOnce /\ GridIsCovered
    BY DEF Init, OnRecord, Accounted, PublishedOnce, GridIsCovered, Published
  <1> QED BY <1>1, <1>2, <1>3, <1>4, <1>5 DEF SchedulerInv

LEMMA StepHolds == SchedulerInv /\ [Next]_vars => SchedulerInv'
  <1> SUFFICES ASSUME SchedulerInv, [Next]_vars PROVE SchedulerInv'
    OBVIOUS
  <1>1. CASE Next
    BY <1>1, TickKeeps, PassKeeps, ClaimKeeps, HandleKeeps, EditKeeps, RewindKeeps, CollectKeeps
       DEF Next
  <1>2. CASE UNCHANGED vars
    <2>1. UNCHANGED <<clock, pass, edit, edits, rewinds>> /\ UNCHANGED rows
      BY <1>2 DEF vars
    <2>2. Clocks' /\ Passes' /\ Locks' /\ clock <= clock'
      BY <2>1, SchedulerAssumption DEF rows, SchedulerInv, Clocks, Passes, Locks, Due
    <2> QED BY <2>1, <2>2, NotHandled DEF rows
  <1> QED BY <1>1, <1>2

LEMMA InvHolds == Spec => []SchedulerInv
  BY InitHolds, StepHolds, PTL DEF Spec

-----------------------------------------------------------------------------
(* The theorems.                                                           *)

\* Rows stay on the calendar, records and passes of their kind.
THEOREM TypeCorrect == Spec => []TypeOK
  <1>1. SchedulerInv => TypeOK
    <2> SUFFICES ASSUME SchedulerInv PROVE TypeOK
      OBVIOUS
    <2>1. Rows /\ Clocks /\ Passes /\ OnRecord
      BY DEF SchedulerInv
    <2>2. commands \in [Schedules -> [Times -> [Principals -> Nat]]]
      BY <2>1 DEF Rows
    <2>3. \A o \in occurrences : o.id[1] \in Schedules /\ o.at \in 0..clock
      BY <2>1 DEF OnRecord
    <2>4. /\ \A key \in operations : key[1] \in Principals /\ key[2][1] \in Schedules
          /\ \A id \in forgotten : id[1] \in Schedules
      BY <2>1 DEF OnRecord
    <2> QED BY <2>1, <2>2, <2>3, <2>4 DEF TypeOK, Rows, Clocks, Passes, Row, PassEntry
  <1> QED BY <1>1, InvHolds, PTL

\* A due time is published once for an owner and kind, ever, and for another
\* only after its record was swept, whatever overlaps, edits, rewinds and sweeps
\* (lib.rs `handle', `publish', schema.sql operations_idempotency_key_scope_key).
THEOREM AlwaysPublishedOnce == Spec => []PublishedOnce
  <1>1. SchedulerInv => PublishedOnce
    BY DEF SchedulerInv
  <1> QED BY <1>1, InvHolds, PTL

\* A point of every calendar is never left out (lib.rs `handle', registration.rs
\* `apply').
THEOREM GridAlwaysCovered == Spec => []GridIsCovered
  <1>1. SchedulerInv => GridIsCovered
    BY DEF SchedulerInv
  <1> QED BY <1>1, InvHolds, PTL

\* Nobody moves a schedule past a due time that was not published, but an edit
\* whose instant lies before it (registration.rs `apply').
THEOREM DueNeverSkipped == Spec => DueIsNotSkipped
  <1> DEFINE Moves(s) ==
        Due(s, clock) /\ schedule'[s].next > schedule[s].next =>
          \/ \E u \in Principals : commands'[s][schedule[s].next][u] > 0
          \/ edit.under /\ ~ edit'.under /\ edit.now < schedule[s].next
  <1>1. SchedulerInv /\ [Next]_vars => [\A s \in Schedules : Moves(s)]_vars
    <2> SUFFICES ASSUME SchedulerInv, Next, NEW s \in Schedules, Due(s, clock),
                        schedule'[s].next > schedule[s].next
                 PROVE  \/ \E u \in Principals : commands'[s][schedule[s].next][u] > 0
                        \/ edit.under /\ ~ edit'.under /\ edit.now < schedule[s].next
      BY DEF Moves
    <2>1. /\ schedule[s] # Unregistered /\ schedule[s].next \in Nat
          /\ edit.now \in Nat /\ Rows
      <3>1. clock \in 0..Horizon /\ Rows /\ edit.now \in 0..clock
        BY DEF SchedulerInv, Clocks
      <3>2. schedule[s] \in Row
        BY <3>1, DueIsRegistered
      <3>3. schedule[s].next \in Times \ {0}
        BY <3>2 DEF Row
      <3>4. schedule[s] # Unregistered
        BY <3>3 DEF Unregistered
      <3>5. edit.now \in Nat
        BY <3>1
      <3> QED BY <3>1, <3>3, <3>4, <3>5, TimesAreEnough
    <2>2. ~ UNCHANGED schedule
      BY <2>1
    <2>3. CASE \E p \in Schedulers, t \in Schedules : Publish(p, t) \/ Suppress(p, t)
      <3>1. PICK p \in Schedulers, t \in Schedules : Publish(p, t) \/ Suppress(p, t)
        BY <2>3
      <3>2. t = s
        BY <2>1, <3>1 DEF Publish, Suppress, Reschedule, Rows
      <3> QED BY <3>1, <3>2, HandleKeeps
    <2>4. CASE \E t \in Schedules, period \in Periods, enabled \in BOOLEAN, principal \in Principals :
                 ApplyEdit(t, period, enabled, principal)
      <3>1. PICK t \in Schedules, period \in Periods, enabled \in BOOLEAN, principal \in Principals :
              ApplyEdit(t, period, enabled, principal)
        BY <2>4
      <3>2. t = s /\ schedule'[s].next = Retained(schedule[s], period, edit.now)
        BY <2>1, <3>1 DEF ApplyEdit, Rows
      <3>3. ~ (schedule[s].next <= edit.now)
        BY <2>1, <3>2 DEF Retained
      <3> QED BY <2>1, <3>1, <3>3 DEF ApplyEdit, NoEdit
    <2>5. CASE \E t \in Schedules, u \in Times : Rewind(t, u)
      <3>1. PICK t \in Schedules, u \in Times : Rewind(t, u)
        BY <2>5
      <3>2. u \in Nat /\ u < schedule[t].next /\ schedule' = [schedule EXCEPT ![t].next = u]
        BY <3>1, TimesAreEnough DEF Rewind
      <3>3. t = s
        BY <2>1, <3>2 DEF Rows
      <3>4. schedule[s] \in Row
        BY <2>1 DEF Rows
      <3>5. schedule'[s].next = u
        BY <2>1, <3>2, <3>3, <3>4 DEF Rows, Row
      <3> QED BY <2>1, <3>2, <3>3, <3>5
    <2> QED BY <2>2, <2>3, <2>4, <2>5
            DEF Next, Tick, BeginEdit, CollectOccurrences, StartPass, EndPass, CutOff, Claim, Fail, rows
  <1>2. [][\A s \in Schedules : Moves(s)]_vars <=> DueIsNotSkipped
    BY DEF DueIsNotSkipped, Moves
  <1> HIDE DEF Moves
  <1> QED BY <1>1, <1>2, InvHolds, PTL DEF Spec

=============================================================================

-------------------------- MODULE OperationsProofs --------------------------
(***************************************************************************)
(* What holds of Operations for every set of operations, every set of      *)
(* reports, every window and every bound of the clock.                     *)
(***************************************************************************)
EXTENDS Operations, SequenceTheorems, TLAPS

\* A task that works on a message works on a message of the bus.
HandlesAMessage ==
  \A d \in Subjects : consumer[d].pc # "idle" => consumer[d].msg \in Msgs

TypeInv == TypeOK /\ HandlesAMessage

-----------------------------------------------------------------------------
(* transition.rs *)

LEMMA RankIsNat ==
  ASSUME NEW s
  PROVE  /\ Rank(s) \in 0..3
         /\ (s \in Status) => (Terminal(s) <=> s \in TerminalStatus)
         /\ (s \in LiveStatus) => Rank(s) < 3
BY DEF Rank, Terminal, Status, LiveStatus, TerminalStatus

\* A report that is taken names an operation of this Platform.
LEMMA TakenIsOurs ==
  ASSUME NEW m \in Msgs, Taken(Report[m])
  PROVE  /\ Report[m].op \in Ops
         /\ Report[m].status \in Status
         /\ Report[m] \in ReportRecord(Ops \union {Stranger})
BY ReportAssumption DEF Taken, ReportRecord

\* Annotate appends diagnostics and results of the right kind.
LEMMA AnnotateTypes ==
  ASSUME TypeOK, NEW m \in Msgs, NEW o \in Ops, Annotate(o, m)
  PROVE  /\ retryable' \in [Ops -> BOOLEAN]
         /\ diagnostics' \in
              [Ops -> Seq([severity : {"error", "warning"},
                           source : Msgs \union {"edge", "reaper"}, retryable : BOOLEAN])]
         /\ results' \in [Ops -> Seq(Msgs)]
<1> DEFINE D == [severity : {"error", "warning"},
                 source : Msgs \union {"edge", "reaper"}, retryable : BOOLEAN]
           errors == IF Report[m].error = "none" THEN <<>>
                     ELSE <<Diagnostic("error", m, Report[m].error = "retryable")>>
           warnings == IF Report[m].warning
                       THEN <<Diagnostic("warning", m, FALSE)>> ELSE <<>>
<1>1. Diagnostic("error", m, Report[m].error = "retryable") \in D
  BY DEF Diagnostic
<1>2. Diagnostic("warning", m, FALSE) \in D
  BY DEF Diagnostic
<1>3. errors \in Seq(D) /\ warnings \in Seq(D)
  <2> HIDE DEF D
  <2>1. \A x \in D : <<x>> \in Seq(D)
    OBVIOUS
  <2>2. <<>> \in Seq(D)
    OBVIOUS
  <2> QED BY <1>1, <1>2, <2>1, <2>2
<1>4. diagnostics \in [Ops -> Seq(D)]
  BY DEF TypeOK
<1>5. diagnostics' = [diagnostics EXCEPT ![o] = (@ \o errors) \o warnings]
  BY DEF Annotate
<1>6. diagnostics' \in [Ops -> Seq(D)]
  <2> HIDE DEF D, errors, warnings
  <2> QED BY <1>3, <1>4, <1>5
<1>7. retryable' \in [Ops -> BOOLEAN]
  BY DEF Annotate, TypeOK
<1>8. results' \in [Ops -> Seq(Msgs)]
  BY DEF Annotate, TypeOK
<1> QED BY <1>6, <1>7, <1>8

\* RecordStatus stores and logs a status of the right kind.
LEMMA RecordStatusTypes ==
  ASSUME TypeOK, NEW o \in Ops, NEW s \in Status, NEW now \in Time, RecordStatus(o, s, now)
  PROVE  /\ status' \in [Ops -> Status \union {"absent"}]
         /\ status_changed_at' \in [Ops -> Time]
         /\ terminated_at' \in [Ops -> Time \union {Never}]
         /\ progress' \in [Ops -> Seq([status : Status, observed_at : Time])]
<1> DEFINE P == [status : Status, observed_at : Time]
<1>1. [status |-> s, observed_at |-> now] \in P
  OBVIOUS
<1>2. progress \in [Ops -> Seq(P)]
  BY DEF TypeOK
<1>3. progress' = [progress EXCEPT ![o] = Append(@, [status |-> s, observed_at |-> now])]
  BY DEF RecordStatus
<1>4. progress' \in [Ops -> Seq(P)]
  <2> HIDE DEF P
  <2> QED BY <1>1, <1>2, <1>3
<1>5. status' \in [Ops -> Status \union {"absent"}] /\ status_changed_at' \in [Ops -> Time]
  BY DEF RecordStatus, TypeOK
<1>6. terminated_at' \in [Ops -> Time \union {Never}]
  BY DEF RecordStatus, TypeOK
<1> QED BY <1>4, <1>5, <1>6

LEMMA RecordErrorTypes ==
  ASSUME TypeOK, NEW o \in Ops, NEW source \in {"edge", "reaper"}, NEW may \in BOOLEAN,
         RecordError(o, source, may)
  PROVE  /\ retryable' \in [Ops -> BOOLEAN]
         /\ diagnostics' \in
              [Ops -> Seq([severity : {"error", "warning"},
                           source : Msgs \union {"edge", "reaper"}, retryable : BOOLEAN])]
<1> DEFINE D == [severity : {"error", "warning"},
                 source : Msgs \union {"edge", "reaper"}, retryable : BOOLEAN]
<1>1. Diagnostic("error", source, may) \in D
  BY DEF Diagnostic
<1>2. diagnostics \in [Ops -> Seq(D)]
  BY DEF TypeOK
<1>3. diagnostics' = [diagnostics EXCEPT ![o] = Append(@, Diagnostic("error", source, may))]
  BY DEF RecordError
<1>4. diagnostics' \in [Ops -> Seq(D)]
  <2> HIDE DEF D
  <2> QED BY <1>1, <1>2, <1>3
<1>5. retryable' \in [Ops -> BOOLEAN]
  BY DEF RecordError, TypeOK
<1> QED BY <1>4, <1>5

-----------------------------------------------------------------------------
(* Type correctness *)

ConsumerType(c) ==
  c \in [Subjects -> [pc : {"idle", "deliver", "ack"}, msg : Msgs \union {NoMessage}, now : Time]]
InboxType(i) ==
  i \in [Msgs -> [outcome : {"unseen", "applied", "duplicate", "stale", "rejected"}, at : Time]]

LEMMA IdleTypes ==
  /\ 0 \in Time
  /\ IdleConsumer \in [pc : {"idle", "deliver", "ack"}, msg : Msgs \union {NoMessage}, now : Time]
  /\ IdleConsumer.pc = "idle"
  /\ IdleReaper \in [now : Time, batch : SUBSET Ops]
BY BoundAssumption DEF Time, IdleConsumer, IdleReaper

LEMMA InitTypes == Init => TypeInv
<1> SUFFICES ASSUME Init PROVE TypeInv
  OBVIOUS
<1>1. clock \in Time /\ consumer \in [Subjects -> [pc : {"idle", "deliver", "ack"},
                                         msg : Msgs \union {NoMessage}, now : Time]]
  BY IdleTypes DEF Init
<1>2. /\ progress \in [Ops -> Seq([status : Status, observed_at : Time])]
      /\ diagnostics \in
           [Ops -> Seq([severity : {"error", "warning"},
                        source : Msgs \union {"edge", "reaper"}, retryable : BOOLEAN])]
      /\ results \in [Ops -> Seq(Msgs)]
  BY DEF Init
<1>3. HandlesAMessage
  BY IdleTypes DEF Init, HandlesAMessage
<1>4. /\ status \in [Ops -> Status \union {"absent"}]
      /\ status_changed_at \in [Ops -> Time]
      /\ terminated_at \in [Ops -> Time \union {Never}]
      /\ retryable \in [Ops -> BOOLEAN]
      /\ cancellation_requested \in [Ops -> BOOLEAN]
      /\ cancelCommands \in [Ops -> Nat]
  BY IdleTypes DEF Init
<1>5. /\ inbox \in
           [Msgs -> [outcome : {"unseen", "applied", "duplicate", "stale", "rejected"}, at : Time]]
      /\ bus \in [Msgs -> {"unpublished", "pending", "acked"}]
  BY IdleTypes DEF Init
<1>6. /\ forward \in [Ops -> [pc : {"open", "failing", "over"}, now : Time]]
      /\ reaper \in [now : Time, batch : SUBSET Ops]
      /\ shown \in [Ops -> TerminalStatus \union {"nothing"}]
  BY IdleTypes DEF Init
<1>7. TypeOK
  BY <1>1, <1>2, <1>4, <1>5, <1>6 DEF TypeOK
<1> QED
  BY <1>3, <1>7 DEF TypeInv

\* A delivery that settles keeps its message, and an outcome is recorded of it.
LEMMA SettleTypes ==
  ASSUME TypeInv, NEW d \in Subjects, consumer[d].pc = "deliver", Settle(d)
  PROVE  ConsumerType(consumer') /\ HandlesAMessage' /\ consumer[d].msg \in Msgs
<1> DEFINE e == [consumer[d] EXCEPT !.pc = "ack"]
<1>1. /\ consumer \in [Subjects -> [pc : {"idle", "deliver", "ack"},
                                   msg : Msgs \union {NoMessage}, now : Time]]
      /\ consumer[d].msg \in Msgs
  BY DEF TypeInv, TypeOK, HandlesAMessage
<1>2. /\ e \in [pc : {"idle", "deliver", "ack"}, msg : Msgs \union {NoMessage}, now : Time]
      /\ e.msg = consumer[d].msg
  BY <1>1
<1>3. consumer' = [consumer EXCEPT ![d] = e]
  BY DEF Settle
<1> HIDE DEF e
<1>4. consumer'[d] = e /\ \A b \in Subjects \ {d} : consumer'[b] = consumer[b]
  BY <1>1, <1>3
<1>5. HandlesAMessage'
  BY <1>1, <1>2, <1>4 DEF TypeInv, HandlesAMessage
<1> QED BY <1>1, <1>2, <1>3, <1>5 DEF ConsumerType

LEMMA FinishTypes ==
  ASSUME TypeOK, NEW m \in Msgs, NEW now \in Time,
         NEW outcome \in {"applied", "duplicate", "stale", "rejected"},
         InboxFinish(m, outcome, now)
  PROVE  InboxType(inbox')
BY DEF TypeOK, InboxFinish, InboxType

LEMMA NextTypes == TypeInv /\ [Next]_vars => TypeInv'
<1> SUFFICES ASSUME TypeInv, [Next]_vars PROVE TypeInv'
  OBVIOUS
<1> USE DEF TypeInv, HandlesAMessage
<1>1. ASSUME Tick PROVE TypeInv'
  <2>1. clock' \in Time
    BY <1>1, BoundAssumption DEF Tick, TypeOK, Time
  <2> QED BY <1>1, <2>1 DEF Tick, TypeOK, row
<1>2. ASSUME NEW m \in Msgs, Publish(m) PROVE TypeInv'
  BY <1>2 DEF Publish, TypeOK, row
<1>3. ASSUME NEW d \in Subjects, NEW m \in Msgs, Fetch(d, m) PROVE TypeInv'
  BY <1>3 DEF Fetch, TypeOK, row
<1>4. ASSUME NEW d \in Subjects, DeliverAgain(d) PROVE TypeInv'
  <2>1. ConsumerType(consumer') /\ HandlesAMessage'
    BY <1>4, SettleTypes DEF DeliverAgain
  <2> QED BY <1>4, <2>1 DEF DeliverAgain, TypeOK, row, ConsumerType
<1>5. ASSUME NEW d \in Subjects, DeliverRefused(d) PROVE TypeInv'
  <2>1. ConsumerType(consumer') /\ HandlesAMessage' /\ consumer[d].msg \in Msgs
    BY <1>5, SettleTypes DEF DeliverRefused
  <2>2. InboxType(inbox')
    <3>1. consumer[d].now \in Time
      BY DEF TypeOK
    <3> QED BY <1>5, <2>1, <3>1, FinishTypes DEF DeliverRefused
  <2> QED BY <1>5, <2>1, <2>2 DEF DeliverRefused, TypeOK, row, ConsumerType, InboxType
<1>6. ASSUME NEW d \in Subjects, DeliverAdvance(d) PROVE TypeInv'
  <2> DEFINE m == consumer[d].msg
             o == Report[m].op
  <2>1. m \in Msgs /\ consumer[d].now \in Time
    BY <1>6 DEF DeliverAdvance, TypeOK
  <2>2. o \in Ops /\ Report[m].status \in Status
    BY <1>6, <2>1, TakenIsOurs DEF DeliverAdvance
  <2>3. RecordStatus(o, Report[m].status, consumer[d].now) /\ Annotate(o, m)
    BY <1>6 DEF DeliverAdvance
  <2>4. ConsumerType(consumer') /\ HandlesAMessage'
    BY <1>6, SettleTypes DEF DeliverAdvance
  <2>5. InboxType(inbox')
    BY <1>6, <2>1 DEF DeliverAdvance, InboxFinish, Transition, TypeOK, InboxType
  <2>6. /\ status' \in [Ops -> Status \union {"absent"}]
        /\ status_changed_at' \in [Ops -> Time]
        /\ terminated_at' \in [Ops -> Time \union {Never}]
        /\ progress' \in [Ops -> Seq([status : Status, observed_at : Time])]
    <3> HIDE DEF m, o
    <3> QED BY <2>1, <2>2, <2>3, RecordStatusTypes
  <2>7. /\ retryable' \in [Ops -> BOOLEAN]
        /\ diagnostics' \in
              [Ops -> Seq([severity : {"error", "warning"},
                           source : Msgs \union {"edge", "reaper"}, retryable : BOOLEAN])]
        /\ results' \in [Ops -> Seq(Msgs)]
    <3> HIDE DEF m, o
    <3> QED BY <2>1, <2>2, <2>3, AnnotateTypes
  <2> QED
    BY <1>6, <2>4, <2>5, <2>6, <2>7 DEF DeliverAdvance, TypeOK, ConsumerType, InboxType
<1>7. ASSUME NEW d \in Subjects, DeliverNoAdvance(d) PROVE TypeInv'
  <2> DEFINE m == consumer[d].msg
             o == Report[m].op
  <2>1. m \in Msgs /\ consumer[d].now \in Time
    BY <1>7 DEF DeliverNoAdvance, TypeOK
  <2>2. o \in Ops
    BY <1>7, <2>1, TakenIsOurs DEF DeliverNoAdvance
  <2>3. Annotate(o, m)
    BY <1>7 DEF DeliverNoAdvance
  <2>4. ConsumerType(consumer') /\ HandlesAMessage'
    BY <1>7, SettleTypes DEF DeliverNoAdvance
  <2>5. InboxType(inbox')
    BY <1>7, <2>1 DEF DeliverNoAdvance, InboxFinish, Transition, TypeOK, InboxType
  <2>7. /\ retryable' \in [Ops -> BOOLEAN]
        /\ diagnostics' \in
              [Ops -> Seq([severity : {"error", "warning"},
                           source : Msgs \union {"edge", "reaper"}, retryable : BOOLEAN])]
        /\ results' \in [Ops -> Seq(Msgs)]
    <3> HIDE DEF m, o
    <3> QED BY <2>1, <2>2, <2>3, AnnotateTypes
  <2> QED
    BY <1>7, <2>4, <2>5, <2>7 DEF DeliverNoAdvance, TypeOK, ConsumerType, InboxType
<1>8. ASSUME NEW d \in Subjects, DeliverFails(d) PROVE TypeInv'
  BY <1>8, IdleTypes DEF DeliverFails, TypeOK, row
<1>9. ASSUME NEW d \in Subjects, Ack(d) PROVE TypeInv'
  BY <1>9, IdleTypes DEF Ack, TypeOK, row
<1>10. ASSUME NEW d \in Subjects, AckLost(d) PROVE TypeInv'
  BY <1>10, IdleTypes DEF AckLost, TypeOK, row
<1>11. ASSUME NEW o \in Ops, Accept(o) PROVE TypeInv'
  BY <1>11 DEF Accept, TypeOK, Status, LiveStatus
<1>12. ASSUME NEW o \in Ops, RequestCancellation(o) PROVE TypeInv'
  <2>1. cancelCommands' \in [Ops -> Nat] /\ cancellation_requested' \in [Ops -> BOOLEAN]
    BY <1>12 DEF RequestCancellation, TypeOK
  <2> QED BY <1>12, <2>1 DEF RequestCancellation, TypeOK
<1>13. ASSUME NEW o \in Ops, Show(o) PROVE TypeInv'
  BY <1>13, RankIsNat DEF Show, TypeOK, row
<1>14. ASSUME NEW o \in Ops, ForwardRefused(o) PROVE TypeInv'
  BY <1>14 DEF ForwardRefused, TypeOK, row
<1>15. ASSUME NEW o \in Ops, FailForward(o) PROVE TypeInv'
  <2>1. forward[o].now \in Time /\ "failed" \in Status
    BY DEF TypeOK, Status, TerminalStatus
  <2>2. RecordStatus(o, "failed", forward[o].now)
    BY <1>15 DEF FailForward
  <2>3. PICK may \in BOOLEAN : RecordError(o, "edge", may)
    BY <1>15 DEF FailForward
  <2>4. forward' \in [Ops -> [pc : {"open", "failing", "over"}, now : Time]]
    BY <1>15, IdleTypes DEF FailForward, CloseForward, TypeOK
  <2>5. /\ status' \in [Ops -> Status \union {"absent"}]
        /\ status_changed_at' \in [Ops -> Time]
        /\ terminated_at' \in [Ops -> Time \union {Never}]
        /\ progress' \in [Ops -> Seq([status : Status, observed_at : Time])]
    BY <2>1, <2>2, RecordStatusTypes
  <2>6. /\ retryable' \in [Ops -> BOOLEAN]
        /\ diagnostics' \in
              [Ops -> Seq([severity : {"error", "warning"},
                           source : Msgs \union {"edge", "reaper"}, retryable : BOOLEAN])]
    BY <2>3, RecordErrorTypes
  <2> QED
    BY <1>15, <2>4, <2>5, <2>6 DEF FailForward, TypeOK
<1>16. ASSUME NEW o \in Ops, LeaveForward(o) PROVE TypeInv'
  BY <1>16, IdleTypes DEF LeaveForward, CloseForward, TypeOK, row
<1>17. ASSUME NEW o \in Ops, ReconcileOne(o) PROVE TypeInv'
  <2>1. reaper.now \in Time /\ "failed" \in Status
    BY DEF TypeOK, Status, TerminalStatus
  <2>2. RecordStatus(o, "failed", reaper.now) /\ RecordError(o, "reaper", TRUE)
    BY <1>17 DEF ReconcileOne
  <2> QED
    BY <1>17, <2>1, <2>2, RecordStatusTypes, RecordErrorTypes, IdleTypes
       DEF ReconcileOne, Examined, TypeOK
<1>18. ASSUME NEW o \in Ops, SkipOne(o) PROVE TypeInv'
  BY <1>18, IdleTypes DEF SkipOne, Examined, TypeOK, row
<1>19. ASSUME SelectStale PROVE TypeInv'
  <2>1. reaper' \in [now : Time, batch : SUBSET Ops]
    BY <1>19 DEF SelectStale, TypeOK
  <2> QED BY <1>19, <2>1 DEF SelectStale, TypeOK, row
<1>20. ASSUME AbortPass PROVE TypeInv'
  BY <1>20, IdleTypes DEF AbortPass, TypeOK, row
<1>21. ASSUME Crash PROVE TypeInv'
  BY <1>21, IdleTypes DEF Crash, TypeOK, row
<1>22. ASSUME UNCHANGED vars PROVE TypeInv'
  BY <1>22 DEF vars, row, TypeOK
<1> QED
  BY <1>1, <1>2, <1>3, <1>4, <1>5, <1>6, <1>7, <1>8, <1>9, <1>10, <1>11, <1>12, <1>13,
     <1>14, <1>15, <1>16, <1>17, <1>18, <1>19, <1>20, <1>21, <1>22
     DEF Next, Arrival, Handling, Deliver

\* Every column, history and task always holds a value of its kind, whatever
\* the reports say and however the writers interleave (schema.sql CHECKs).
THEOREM TypeCorrect == Spec => []TypeOK
<1>1. Spec => []TypeInv
  BY InitTypes, NextTypes, PTL DEF Spec
<1> QED BY <1>1, PTL DEF TypeInv

-----------------------------------------------------------------------------
(* Who writes what: the steps that touch the row of an operation, the inbox
   and the bus.  Every other step leaves them alone. *)

LEMMA RowWriters ==
  ASSUME [Next]_vars
  PROVE  \/ UNCHANGED row
         \/ \E d \in Subjects : DeliverAdvance(d) \/ DeliverNoAdvance(d)
         \/ \E o \in Ops : \/ Accept(o) \/ RequestCancellation(o)
                           \/ FailForward(o) \/ ReconcileOne(o)
<1>1. ASSUME NEW d \in Subjects,
             DeliverAgain(d) \/ DeliverRefused(d) \/ DeliverFails(d) \/ Ack(d) \/ AckLost(d)
      PROVE  UNCHANGED row
  BY <1>1 DEF DeliverAgain, DeliverRefused, DeliverFails, Ack, AckLost
<1>2. ASSUME NEW o \in Ops, Show(o) \/ ForwardRefused(o) \/ LeaveForward(o) \/ SkipOne(o)
      PROVE  UNCHANGED row
  BY <1>2 DEF Show, ForwardRefused, LeaveForward, SkipOne
<1>3. ASSUME NEW m \in Msgs, Publish(m) \/ \E d \in Subjects : Fetch(d, m)
      PROVE  UNCHANGED row
  BY <1>3 DEF Publish, Fetch
<1>4. ASSUME Tick \/ SelectStale \/ AbortPass \/ Crash \/ UNCHANGED vars
      PROVE  UNCHANGED row
  BY <1>4 DEF Tick, SelectStale, AbortPass, Crash, vars
<1> QED
  BY <1>1, <1>2, <1>3, <1>4 DEF Next, Arrival, Handling, Deliver

LEMMA InboxWriters ==
  ASSUME [Next]_vars
  PROVE  \/ UNCHANGED inbox
         \/ \E d \in Subjects : DeliverRefused(d) \/ DeliverAdvance(d) \/ DeliverNoAdvance(d)
<1>1. ASSUME NEW d \in Subjects, DeliverAgain(d) \/ DeliverFails(d) \/ Ack(d) \/ AckLost(d)
      PROVE  UNCHANGED inbox
  BY <1>1 DEF DeliverAgain, DeliverFails, Ack, AckLost
<1>2. ASSUME NEW o \in Ops, \/ Show(o) \/ ForwardRefused(o) \/ LeaveForward(o) \/ SkipOne(o)
                            \/ Accept(o) \/ RequestCancellation(o)
                            \/ FailForward(o) \/ ReconcileOne(o)
      PROVE  UNCHANGED inbox
  BY <1>2 DEF Show, ForwardRefused, LeaveForward, SkipOne, Accept, RequestCancellation,
              FailForward, ReconcileOne
<1>3. ASSUME NEW m \in Msgs, Publish(m) \/ \E d \in Subjects : Fetch(d, m)
      PROVE  UNCHANGED inbox
  BY <1>3 DEF Publish, Fetch
<1>4. ASSUME Tick \/ SelectStale \/ AbortPass \/ Crash \/ UNCHANGED vars
      PROVE  UNCHANGED inbox
  BY <1>4 DEF Tick, SelectStale, AbortPass, Crash, vars
<1> QED
  BY <1>1, <1>2, <1>3, <1>4 DEF Next, Arrival, Handling, Deliver

-----------------------------------------------------------------------------
(* Only the service an operation was handed to is believed *)

\* Bound is exactly the binding of the report to the service and to the owner.
LEMMA BoundBinds ==
  ASSUME NEW m \in Msgs, Report[m].op \in Ops, Bound(Operation[Report[m].op], Report[m])
  PROVE  /\ Report[m].producer = DispatchedTo(Report[m].op)
         /\ Report[m].tenant \in {NoOne, Operation[Report[m].op].owner}
         /\ Report[m].tenant = NoOne => Operation[Report[m].op].provider # NoOne
<1> DEFINE o == Report[m].op
<1>1. /\ Operation[o] \in OperationRecord
      /\ (Operation[o].provider # NoOne) <=> (Operation[o].kind \in ProviderBound)
      /\ Report[m].tenant \in STRING \union {NoOne}
      /\ NoOne \notin STRING
  BY OperationAssumption, ReportAssumption DEF ReportRecord
<1>2. CASE Operation[o].provider # NoOne
  <2>1. ~ Listed(Operation[o].kind)
    BY <1>1, <1>2 DEF Listed
  <2> QED
    BY <1>1, <1>2, <2>1 DEF Bound, Authorize, DispatchedTo
<1>3. CASE Operation[o].provider = NoOne
  <2>1. /\ Report[m].tenant = Operation[o].owner
        /\ Operation[o].reporter = Report[m].producer
    BY <1>1, <1>3 DEF Bound, Authorize
  <2> QED
    BY <1>1, <1>3, <2>1 DEF DispatchedTo, OperationRecord
<1> QED BY <1>2, <1>3

LEMMA NextBelieves ==
  TypeInv /\ OnlyItsServiceIsBelieved /\ [Next]_vars => OnlyItsServiceIsBelieved'
<1> SUFFICES ASSUME TypeInv, OnlyItsServiceIsBelieved, [Next]_vars
             PROVE  OnlyItsServiceIsBelieved'
  OBVIOUS
<1>1. ASSUME NEW d \in Subjects, DeliverRefused(d) PROVE OnlyItsServiceIsBelieved'
  BY <1>1 DEF DeliverRefused, InboxFinish, TypeInv, TypeOK, OnlyItsServiceIsBelieved,
              DispatchedTo
<1>2. ASSUME NEW d \in Subjects, DeliverAdvance(d) \/ DeliverNoAdvance(d)
      PROVE  OnlyItsServiceIsBelieved'
  <2> DEFINE n == consumer[d].msg
  <2>1. n \in Msgs /\ Taken(Report[n])
    BY <1>2 DEF DeliverAdvance, DeliverNoAdvance, TypeInv, HandlesAMessage
  <2>2. Report[n].op \in Ops /\ Bound(Operation[Report[n].op], Report[n])
    BY <2>1 DEF Taken
  <2>3. \A m \in Msgs : m # n => inbox'[m] = inbox[m]
    BY <1>2 DEF DeliverAdvance, DeliverNoAdvance, InboxFinish, TypeInv, TypeOK
  <2> QED
    BY <2>1, <2>2, <2>3, BoundBinds DEF OnlyItsServiceIsBelieved, DispatchedTo
<1>3. CASE UNCHANGED inbox
  BY <1>3 DEF OnlyItsServiceIsBelieved, DispatchedTo
<1> QED BY <1>1, <1>2, <1>3, InboxWriters

\* No report of another service, and none in the name of another user, is taken
\* into an operation, whatever the operations and the reports are (authority.rs).
THEOREM OnlyItsServiceIsAlwaysBelieved == Spec => []OnlyItsServiceIsBelieved
<1>1. Init => OnlyItsServiceIsBelieved
  BY DEF Init, OnlyItsServiceIsBelieved
<1> QED
  BY <1>1, InitTypes, NextTypes, NextBelieves, PTL DEF Spec

-----------------------------------------------------------------------------
(* No crash between the commit and the acknowledgement loses a report *)

\* A task that is about to acknowledge has the record of its message.
AboutToAckIsRecorded ==
  \A d \in Subjects : consumer[d].pc = "ack" => inbox[consumer[d].msg].outcome # "unseen"

AckInv == AcknowledgedIsRecorded /\ AboutToAckIsRecorded

LEMMA NextRecords == TypeInv /\ AckInv /\ [Next]_vars => AckInv'
<1> SUFFICES ASSUME TypeInv, AckInv, [Next]_vars PROVE AckInv'
  OBVIOUS
<1> USE DEF AckInv, AcknowledgedIsRecorded, AboutToAckIsRecorded
<1>1. ASSUME NEW m \in Msgs, Publish(m) PROVE AckInv'
  BY <1>1 DEF Publish, TypeInv, TypeOK
<1>2. ASSUME NEW d \in Subjects, NEW m \in Msgs, Fetch(d, m) PROVE AckInv'
  BY <1>2 DEF Fetch, TypeInv, TypeOK
<1>3. ASSUME NEW d \in Subjects, DeliverAgain(d) PROVE AckInv'
  BY <1>3 DEF DeliverAgain, Settle, TypeInv, TypeOK
<1>4. ASSUME NEW d \in Subjects,
             DeliverRefused(d) \/ DeliverAdvance(d) \/ DeliverNoAdvance(d)
      PROVE  AckInv'
  <2> DEFINE n == consumer[d].msg
  <2>1. n \in Msgs
    BY <1>4 DEF DeliverRefused, DeliverAdvance, DeliverNoAdvance, TypeInv, HandlesAMessage
  <2>2. PICK outcome \in {"rejected", "applied", "duplicate", "stale"} :
          inbox' = [inbox EXCEPT ![n] = [outcome |-> outcome, at |-> consumer[d].now]]
    BY <1>4 DEF DeliverRefused, DeliverAdvance, DeliverNoAdvance, InboxFinish, Transition
  <2>3. inbox'[n].outcome # "unseen" /\ \A m \in Msgs : m # n => inbox'[m] = inbox[m]
    BY <2>1, <2>2 DEF TypeInv, TypeOK
  <2>4. bus' = bus /\ consumer' = [consumer EXCEPT ![d].pc = "ack"]
    BY <1>4 DEF DeliverRefused, DeliverAdvance, DeliverNoAdvance, Settle
  <2>5. ASSUME NEW c \in Subjects, consumer'[c].pc = "ack"
        PROVE  inbox'[consumer'[c].msg].outcome # "unseen"
    <3>1. consumer'[c].msg = consumer[c].msg /\ consumer[c].pc # "idle"
      BY <1>4, <2>4, <2>5 DEF TypeInv, TypeOK, DeliverRefused, DeliverAdvance, DeliverNoAdvance
    <3>2. CASE c = d
      BY <2>3, <3>1, <3>2
    <3>3. CASE c # d
      BY <2>3, <2>4, <2>5, <3>1, <3>3 DEF TypeInv, TypeOK, HandlesAMessage
    <3> QED BY <3>2, <3>3
  <2> QED BY <2>3, <2>4, <2>5
<1>5. ASSUME NEW d \in Subjects, DeliverFails(d) \/ AckLost(d) PROVE AckInv'
  BY <1>5, IdleTypes DEF DeliverFails, AckLost, TypeInv, TypeOK
<1>6. ASSUME NEW d \in Subjects, Ack(d) PROVE AckInv'
  BY <1>6, IdleTypes DEF Ack, TypeInv, TypeOK, HandlesAMessage
<1>7. ASSUME NEW o \in Ops, \/ Show(o) \/ ForwardRefused(o) \/ LeaveForward(o) \/ SkipOne(o)
                            \/ Accept(o) \/ RequestCancellation(o)
                            \/ FailForward(o) \/ ReconcileOne(o)
      PROVE  UNCHANGED <<inbox, bus, consumer>>
  BY <1>7 DEF Show, ForwardRefused, LeaveForward, SkipOne, Accept, RequestCancellation,
              FailForward, ReconcileOne
<1>8. ASSUME Tick \/ SelectStale \/ AbortPass \/ UNCHANGED vars
      PROVE  UNCHANGED <<inbox, bus, consumer>>
  BY <1>8 DEF Tick, SelectStale, AbortPass, vars
<1>9. ASSUME Crash PROVE AckInv'
  BY <1>9, IdleTypes DEF Crash, TypeInv, TypeOK
<1>10. CASE UNCHANGED <<inbox, bus, consumer>>
  BY <1>10
<1> QED
  BY <1>1, <1>2, <1>3, <1>4, <1>5, <1>6, <1>7, <1>8, <1>9, <1>10 DEF Next, Arrival, Handling, Deliver

\* A message leaves the bus only after the inbox holds what became of it, wherever
\* the process dies (consumer.rs `run_filters' acknowledges after the commit).
THEOREM AcknowledgedIsAlwaysRecorded == Spec => []AcknowledgedIsRecorded
<1>1. Init => AckInv
  BY IdleTypes DEF Init, AckInv, AcknowledgedIsRecorded, AboutToAckIsRecorded
<1>2. AckInv => AcknowledgedIsRecorded
  BY DEF AckInv
<1> QED
  BY <1>1, <1>2, InitTypes, NextTypes, NextRecords, PTL DEF Spec

-----------------------------------------------------------------------------
(* One stop command per request *)

LEMMA NextStops ==
  TypeInv /\ OneStopCommandPerRequest /\ [Next]_vars => OneStopCommandPerRequest'
<1> SUFFICES ASSUME TypeInv, OneStopCommandPerRequest, [Next]_vars
             PROVE  OneStopCommandPerRequest'
  OBVIOUS
<1>1. ASSUME NEW o \in Ops, RequestCancellation(o) PROVE OneStopCommandPerRequest'
  BY <1>1 DEF RequestCancellation, TypeInv, TypeOK, OneStopCommandPerRequest
<1>2. ASSUME NEW o \in Ops, \/ Show(o) \/ ForwardRefused(o) \/ LeaveForward(o) \/ SkipOne(o)
                            \/ Accept(o) \/ FailForward(o) \/ ReconcileOne(o)
      PROVE  UNCHANGED <<cancelCommands, cancellation_requested>>
  BY <1>2 DEF Show, ForwardRefused, LeaveForward, SkipOne, Accept, FailForward,
              ReconcileOne, row
<1>3. ASSUME NEW d \in Subjects, Deliver(d) \/ Ack(d) \/ AckLost(d)
      PROVE  UNCHANGED <<cancelCommands, cancellation_requested>>
  BY <1>3 DEF Deliver, DeliverAgain, DeliverRefused, DeliverAdvance, DeliverNoAdvance,
              DeliverFails, Ack, AckLost, row
<1>4. ASSUME NEW m \in Msgs, Publish(m) \/ \E d \in Subjects : Fetch(d, m)
      PROVE  UNCHANGED <<cancelCommands, cancellation_requested>>
  BY <1>4 DEF Publish, Fetch, row
<1>5. ASSUME Tick \/ SelectStale \/ AbortPass \/ Crash \/ UNCHANGED vars
      PROVE  UNCHANGED <<cancelCommands, cancellation_requested>>
  BY <1>5 DEF Tick, SelectStale, AbortPass, Crash, vars, row
<1>6. CASE UNCHANGED <<cancelCommands, cancellation_requested>>
  BY <1>6 DEF OneStopCommandPerRequest
<1> QED
  BY <1>1, <1>2, <1>3, <1>4, <1>5, <1>6 DEF Next, Arrival, Handling

\* However many requests to stop race, one command goes to the service, and
\* exactly when the request is on record (public-api operations.rs `cancel').
THEOREM OneStopCommand == Spec => []OneStopCommandPerRequest
<1>1. Init => OneStopCommandPerRequest
  BY DEF Init, OneStopCommandPerRequest
<1> QED
  BY <1>1, InitTypes, NextTypes, NextStops, PTL DEF Spec

-----------------------------------------------------------------------------
(* The history tells the story of the row *)

\* Appending puts the element last and keeps everything before it.
LEMMA Appended ==
  ASSUME NEW S, NEW log \in Seq(S), NEW x \in S
  PROVE  /\ Len(Append(log, x)) = Len(log) + 1
         /\ Append(log, x) # <<>>
         /\ Append(log, x)[Len(log) + 1] = x
         /\ \A i \in DOMAIN log : Append(log, x)[i] = log[i]
         /\ DOMAIN log = 1..Len(log) /\ Len(log) \in Nat
         /\ DOMAIN Append(log, x) = 1..(Len(log) + 1)
OBVIOUS

\* RecordStatus, behind the guard, extends the story of its operation.
LEMMA RecordStatusTells ==
  ASSUME TypeInv, HistoryTellsTheStatus, NEW o \in Ops, NEW s \in Status, NEW now \in Time,
         GuardAllows(o, s, now), RecordStatus(o, s, now), status[o] # "absent"
  PROVE  HistoryTellsTheStatus'
<1> DEFINE e == [status |-> s, observed_at |-> now]
<1>1. /\ status[o] \in LiveStatus
      /\ Rank(s) > Rank(status[o])
      /\ now >= status_changed_at[o]
      /\ s \notin {"absent", "accepted"}
  BY RankIsNat DEF GuardAllows, TypeInv, TypeOK, Status, LiveStatus, TerminalStatus, Rank,
                   Terminal
<1>2. /\ progress[o] \in Seq([status : Status, observed_at : Time])
      /\ progress'[o] = Append(progress[o], e)
      /\ status'[o] = s /\ status_changed_at'[o] = now
      /\ terminated_at'[o] = IF Terminal(s) THEN now ELSE Never
  BY DEF RecordStatus, TypeInv, TypeOK
<1>3. \A p \in Ops : p # o => /\ progress'[p] = progress[p] /\ status'[p] = status[p]
                              /\ status_changed_at'[p] = status_changed_at[p]
                              /\ terminated_at'[p] = terminated_at[p]
  BY DEF RecordStatus, TypeInv, TypeOK
<1>4. /\ Len(progress'[o]) = Len(progress[o]) + 1
      /\ progress'[o] # <<>>
      /\ progress'[o][Len(progress'[o])] = e
      /\ \A i \in DOMAIN progress[o] : progress'[o][i] = progress[o][i]
      /\ DOMAIN progress[o] = 1..Len(progress[o]) /\ Len(progress[o]) \in Nat
      /\ DOMAIN progress'[o] = 1..Len(progress'[o])
  <2>1. e \in [status : Status, observed_at : Time]
    OBVIOUS
  <2> HIDE DEF e
  <2> QED BY <1>2, <2>1, Appended
<1>5. ASSUME NEW i \in DOMAIN progress'[o], i > 1
      PROVE  /\ Rank(progress'[o][i - 1].status) < Rank(progress'[o][i].status)
             /\ progress'[o][i - 1].observed_at <= progress'[o][i].observed_at
  <2>1. CASE i \in DOMAIN progress[o]
    <3>1. i - 1 \in DOMAIN progress[o]
      BY <1>4, <1>5, <2>1
    <3> QED BY <1>4, <1>5, <2>1, <3>1 DEF HistoryTellsTheStatus
  <2>2. CASE i \notin DOMAIN progress[o]
    <3>1. i = Len(progress'[o]) /\ i - 1 = Len(progress[o]) /\ i - 1 \in DOMAIN progress[o]
      BY <1>4, <1>5, <2>2
    <3>2. progress[o][i - 1] = [status |-> status[o], observed_at |-> status_changed_at[o]]
      BY <1>4, <3>1 DEF HistoryTellsTheStatus
    <3>3. progress'[o][i - 1] = progress[o][i - 1] /\ progress'[o][i] = e
      BY <1>4, <3>1
    <3>4. Rank(status[o]) < Rank(s) /\ status_changed_at[o] <= now
      BY <1>1, RankIsNat DEF TypeInv, TypeOK, Time
    <3> QED BY <3>2, <3>3, <3>4
  <2> QED BY <2>1, <2>2
<1>6. terminated_at'[o] = IF status'[o] \in TerminalStatus THEN status_changed_at'[o] ELSE Never
  BY <1>2, RankIsNat
<1>7. (progress'[o] = <<>>) <=> (status'[o] \in {"absent", "accepted"})
  BY <1>1, <1>2, <1>4
<1>8. progress'[o][Len(progress'[o])] =
        [status |-> status'[o], observed_at |-> status_changed_at'[o]]
  BY <1>2, <1>4
<1> QED
  <2> SUFFICES ASSUME NEW p \in Ops
               PROVE  /\ (progress'[p] = <<>>) <=> (status'[p] \in {"absent", "accepted"})
                      /\ \A i \in DOMAIN progress'[p] :
                           i > 1 =>
                             /\ Rank(progress'[p][i - 1].status) < Rank(progress'[p][i].status)
                             /\ progress'[p][i - 1].observed_at <= progress'[p][i].observed_at
                      /\ progress'[p] # <<>> =>
                           progress'[p][Len(progress'[p])] =
                             [status |-> status'[p], observed_at |-> status_changed_at'[p]]
                      /\ terminated_at'[p] =
                           IF status'[p] \in TerminalStatus THEN status_changed_at'[p] ELSE Never
    BY Zenon DEF HistoryTellsTheStatus
  <2>1. CASE p = o
    BY <1>5, <1>6, <1>7, <1>8, <2>1
  <2>2. CASE p # o
    BY <1>3, <2>2 DEF HistoryTellsTheStatus
  <2> QED BY <2>1, <2>2

LEMMA NextTells ==
  TypeInv /\ HistoryTellsTheStatus /\ [Next]_vars => HistoryTellsTheStatus'
<1> SUFFICES ASSUME TypeInv, HistoryTellsTheStatus, [Next]_vars
             PROVE  HistoryTellsTheStatus'
  OBVIOUS
<1>1. ASSUME NEW o \in Ops, Accept(o) PROVE HistoryTellsTheStatus'
  <2>1. progress[o] = <<>> /\ terminated_at[o] = Never
    BY <1>1 DEF Accept, HistoryTellsTheStatus, TerminalStatus
  <2>2. /\ UNCHANGED <<progress, terminated_at>>
        /\ status'[o] = "accepted"
        /\ \A p \in Ops : p # o => /\ status'[p] = status[p]
                                  /\ status_changed_at'[p] = status_changed_at[p]
    BY <1>1 DEF Accept, TypeInv, TypeOK
  <2>3. /\ (progress'[o] = <<>>) <=> (status'[o] \in {"absent", "accepted"})
        /\ DOMAIN progress'[o] = {}
        /\ terminated_at'[o] =
             IF status'[o] \in TerminalStatus THEN status_changed_at'[o] ELSE Never
    BY <2>1, <2>2 DEF TerminalStatus
  <2> QED
    BY <2>2, <2>3 DEF HistoryTellsTheStatus
<1>2. ASSUME NEW d \in Subjects, DeliverAdvance(d) PROVE HistoryTellsTheStatus'
  <2> DEFINE m == consumer[d].msg
             o == Report[m].op
  <2>1. m \in Msgs /\ consumer[d].now \in Time
    BY <1>2 DEF DeliverAdvance, TypeInv, TypeOK, HandlesAMessage
  <2>2. o \in Ops /\ Report[m].status \in Status /\ status[o] # "absent"
    BY <1>2, <2>1, TakenIsOurs DEF DeliverAdvance, Taken
  <2>3. /\ GuardAllows(o, Report[m].status, consumer[d].now)
        /\ RecordStatus(o, Report[m].status, consumer[d].now)
    BY <1>2 DEF DeliverAdvance
  <2> HIDE DEF m, o
  <2> QED BY <2>1, <2>2, <2>3, RecordStatusTells
<1>3. ASSUME NEW o \in Ops, FailForward(o) PROVE HistoryTellsTheStatus'
  <2>1. forward[o].now \in Time /\ "failed" \in Status /\ status[o] # "absent"
    BY <1>3 DEF FailForward, Transition, Rank, TypeInv, TypeOK, Status, TerminalStatus
  <2> QED BY <1>3, <2>1, RecordStatusTells DEF FailForward
<1>4. ASSUME NEW o \in Ops, ReconcileOne(o) PROVE HistoryTellsTheStatus'
  <2>1. reaper.now \in Time /\ "failed" \in Status /\ status[o] # "absent"
    BY <1>4 DEF ReconcileOne, Stale, LiveStatus, TypeInv, TypeOK, Status, TerminalStatus
  <2> QED BY <1>4, <2>1, RecordStatusTells DEF ReconcileOne
<1>5. ASSUME \/ UNCHANGED row
             \/ \E d \in Subjects : DeliverNoAdvance(d)
             \/ \E o \in Ops : RequestCancellation(o)
      PROVE  UNCHANGED <<status, status_changed_at, terminated_at, progress>>
  BY <1>5 DEF row, DeliverNoAdvance, RequestCancellation
<1>6. CASE UNCHANGED <<status, status_changed_at, terminated_at, progress>>
  BY <1>6 DEF HistoryTellsTheStatus
<1> QED
  BY <1>1, <1>2, <1>3, <1>4, <1>5, <1>6, RowWriters

LEMMA InitTells == Init => HistoryTellsTheStatus
BY DEF Init, HistoryTellsTheStatus, TerminalStatus

\* However many writers interleave, each with an instant it read before it had
\* the lock, the history climbs, is chronological and ends at the stored status
\* (lib.rs `record_status' behind schema.sql `guard_status_transition').
THEOREM HistoryAlwaysTells == Spec => []HistoryTellsTheStatus
BY InitTypes, NextTypes, InitTells, NextTells, PTL DEF Spec

-----------------------------------------------------------------------------
(* What a step never does *)

\* A step that both ends an operation and moves the pass of the reaper is the
\* reaper's own look at that operation.
LEMMA OnlyReconcileOneActs ==
  ASSUME TypeInv, [Next]_vars, NEW o \in Ops, status[o] # status'[o], reaper' # reaper
  PROVE  ReconcileOne(o)
<1>1. ASSUME NEW d \in Subjects, DeliverAdvance(d) \/ DeliverNoAdvance(d) PROVE FALSE
  BY <1>1 DEF DeliverAdvance, DeliverNoAdvance
<1>2. ASSUME NEW p \in Ops, Accept(p) \/ RequestCancellation(p) \/ FailForward(p)
      PROVE  FALSE
  BY <1>2 DEF Accept, RequestCancellation, FailForward
<1>3. ASSUME NEW p \in Ops, ReconcileOne(p) PROVE p = o
  BY <1>3 DEF ReconcileOne, RecordStatus, TypeInv, TypeOK
<1>4. CASE UNCHANGED row
  BY <1>4 DEF row
<1> QED BY <1>1, <1>2, <1>3, <1>4, RowWriters

\* The reaper never ends an operation that advanced inside the window it
\* measures: the predicate is evaluated again under the lock (reconcile.rs).
THEOREM FreshFactAlwaysWins == Spec => FreshFactWins
<1> DEFINE Fresh ==
      \A o \in Ops :
        (status[o] # status'[o] /\ o \in reaper.batch /\ reaper' # reaper) =>
          status_changed_at[o] + StaleAfter < reaper.now
<1>1. TypeInv /\ [Next]_vars => [Fresh]_vars
  BY OnlyReconcileOneActs DEF ReconcileOne, Stale
<1> QED
  BY <1>1, InitTypes, NextTypes, PTL DEF Spec, FreshFactWins

\* No writer of a row that has ended changes its status, its instants or its
\* history: every one of them passes RecordStatus behind the guard.
LEMMA EndedRowStays ==
  ASSUME TypeInv, HistoryTellsTheStatus, [Next]_vars, NEW o \in Ops, terminated_at[o] # Never
  PROVE  UNCHANGED <<status[o], status_changed_at[o], terminated_at[o], progress[o]>>
<1>1. status[o] \in TerminalStatus /\ Terminal(status[o])
  BY RankIsNat DEF HistoryTellsTheStatus, Status
<1>2. ASSUME NEW p \in Ops, NEW s, NEW now, GuardAllows(p, s, now), RecordStatus(p, s, now)
      PROVE  UNCHANGED <<status[o], status_changed_at[o], terminated_at[o], progress[o]>>
  BY <1>1, <1>2 DEF GuardAllows, RecordStatus, TypeInv, TypeOK
<1>3. ASSUME NEW d \in Subjects, DeliverAdvance(d)
      PROVE  UNCHANGED <<status[o], status_changed_at[o], terminated_at[o], progress[o]>>
  <2>1. consumer[d].msg \in Msgs
    BY <1>3 DEF DeliverAdvance, TypeInv, HandlesAMessage
  <2> QED BY <1>2, <1>3, <2>1, TakenIsOurs DEF DeliverAdvance
<1>4. ASSUME NEW p \in Ops, FailForward(p) \/ ReconcileOne(p)
      PROVE  UNCHANGED <<status[o], status_changed_at[o], terminated_at[o], progress[o]>>
  BY <1>2, <1>4 DEF FailForward, ReconcileOne
<1>5. ASSUME NEW p \in Ops, Accept(p)
      PROVE  UNCHANGED <<status[o], status_changed_at[o], terminated_at[o], progress[o]>>
  BY <1>1, <1>5 DEF Accept, TerminalStatus
<1>6. ASSUME \/ UNCHANGED row
             \/ \E d \in Subjects : DeliverNoAdvance(d)
             \/ \E p \in Ops : RequestCancellation(p)
      PROVE  UNCHANGED <<status[o], status_changed_at[o], terminated_at[o], progress[o]>>
  BY <1>6 DEF row, DeliverNoAdvance, RequestCancellation
<1> QED
  BY <1>3, <1>4, <1>5, <1>6, RowWriters

LEMMA RequestStays ==
  ASSUME TypeInv, [Next]_vars, NEW o \in Ops, cancellation_requested[o]
  PROVE  cancellation_requested'[o]
<1>1. ASSUME NEW p \in Ops, RequestCancellation(p) PROVE cancellation_requested'[o]
  BY <1>1 DEF RequestCancellation, TypeInv, TypeOK
<1>2. ASSUME \/ UNCHANGED row
             \/ \E d \in Subjects : DeliverAdvance(d) \/ DeliverNoAdvance(d)
             \/ \E p \in Ops : Accept(p) \/ FailForward(p) \/ ReconcileOne(p)
      PROVE  UNCHANGED cancellation_requested
  BY <1>2 DEF row, DeliverAdvance, DeliverNoAdvance, Accept, FailForward, ReconcileOne
<1> QED BY <1>1, <1>2, RowWriters

\* An outcome, once stored, is never rewritten by anybody, and the request to
\* stop is never taken back (lib.rs `record_status', cancel.rs).
THEOREM EndIsAlwaysFinal == Spec => EndIsFinal
<1> DEFINE Final ==
      \A o \in Ops :
        /\ terminated_at[o] # Never =>
             UNCHANGED <<status[o], status_changed_at[o], terminated_at[o], progress[o]>>
        /\ cancellation_requested[o] => cancellation_requested'[o]
<1>1. TypeInv /\ HistoryTellsTheStatus /\ [Next]_vars => [Final]_vars
  BY EndedRowStays, RequestStays
<1> QED
  BY <1>1, InitTypes, NextTypes, InitTells, NextTells, PTL DEF Spec, EndIsFinal

-----------------------------------------------------------------------------
(* What a stored operation may not look like on the public contract *)

ErrorIn(list) == \E i \in DOMAIN list : list[i].severity = "error"

\* Its errors are all of reports of work that continues.
EarlyErrors(list) ==
  \A i \in DOMAIN list : list[i].severity = "error" =>
    list[i].source \in Msgs /\ Report[list[i].source].status \in LiveStatus

\* What the snapshot needs, and which errors it may find with a success.
Projects(o) ==
  /\ status[o] \in LiveStatus \union {"absent", "succeeded"} => EarlyErrors(diagnostics[o])
  /\ status[o] = "failed" => ErrorIn(diagnostics[o])
  /\ status[o] = "partially_succeeded" => DOMAIN diagnostics[o] # {}

ProjectsInv == \A o \in Ops : Projects(o)

LEMMA ProjectsShows == ProjectsInv => OnlyEarlyErrorsHide
BY DEF ProjectsInv, Projects, ErrorIn, EarlyErrors, OnlyEarlyErrorsHide, SnapshotValid, Count

Diagnostics == [severity : {"error", "warning"},
                source : Msgs \union {"edge", "reaper"}, retryable : BOOLEAN]

LEMMA ErrorInConcatenation ==
  ASSUME NEW a \in Seq(Diagnostics), NEW b \in Seq(Diagnostics)
  PROVE  /\ ErrorIn(a \o b) <=> ErrorIn(a) \/ ErrorIn(b)
         /\ DOMAIN (a \o b) = {} <=> DOMAIN a = {} /\ DOMAIN b = {}
         /\ EarlyErrors(a) /\ EarlyErrors(b) => EarlyErrors(a \o b)
<1> HIDE DEF Diagnostics
<1>1. /\ DOMAIN a = 1..Len(a) /\ DOMAIN b = 1..Len(b)
      /\ Len(a) \in Nat /\ Len(b) \in Nat
      /\ DOMAIN (a \o b) = 1..(Len(a) + Len(b))
      /\ \A i \in 1..(Len(a) + Len(b)) :
           (a \o b)[i] = IF i <= Len(a) THEN a[i] ELSE b[i - Len(a)]
  BY ConcatProperties
<1>2. ASSUME NEW i \in DOMAIN (a \o b), (a \o b)[i].severity = "error"
      PROVE  ErrorIn(a) \/ ErrorIn(b)
  <2>1. CASE i <= Len(a)
    BY <1>1, <1>2, <2>1 DEF ErrorIn
  <2>2. CASE ~ i <= Len(a)
    <3>1. i - Len(a) \in DOMAIN b /\ b[i - Len(a)].severity = "error"
      BY <1>1, <1>2, <2>2
    <3> QED BY <3>1 DEF ErrorIn
  <2> QED BY <2>1, <2>2
<1>3. ASSUME NEW i \in DOMAIN a, a[i].severity = "error" PROVE ErrorIn(a \o b)
  <2>1. i \in DOMAIN (a \o b) /\ (a \o b)[i].severity = "error"
    BY <1>1, <1>3
  <2> QED BY <2>1 DEF ErrorIn
<1>4. ASSUME NEW i \in DOMAIN b, b[i].severity = "error" PROVE ErrorIn(a \o b)
  <2>1. /\ i + Len(a) \in DOMAIN (a \o b)
        /\ (a \o b)[i + Len(a)].severity = "error"
    BY <1>1, <1>4
  <2> QED BY <2>1 DEF ErrorIn
<1>5. ErrorIn(a \o b) <=> ErrorIn(a) \/ ErrorIn(b)
  BY <1>2, <1>3, <1>4 DEF ErrorIn
<1>6. DOMAIN (a \o b) = {} <=> DOMAIN a = {} /\ DOMAIN b = {}
  BY <1>1
<1>7. ASSUME EarlyErrors(a), EarlyErrors(b) PROVE EarlyErrors(a \o b)
  <2> SUFFICES ASSUME NEW i \in DOMAIN (a \o b), (a \o b)[i].severity = "error"
               PROVE  /\ (a \o b)[i].source \in Msgs
                      /\ Report[(a \o b)[i].source].status \in LiveStatus
    BY DEF EarlyErrors
  <2>1. CASE i <= Len(a)
    <3>1. i \in DOMAIN a /\ (a \o b)[i] = a[i]
      BY <1>1, <2>1
    <3> QED BY <1>7, <3>1 DEF EarlyErrors
  <2>2. CASE ~ i <= Len(a)
    <3>1. i - Len(a) \in DOMAIN b /\ (a \o b)[i] = b[i - Len(a)]
      BY <1>1, <2>2
    <3> QED BY <1>7, <3>1 DEF EarlyErrors
  <2> QED BY <2>1, <2>2
<1> QED BY <1>5, <1>6, <1>7

\* What a report adds to the diagnostics of its operation.
LEMMA AnnotateDiagnoses ==
  ASSUME TypeOK, NEW m \in Msgs, NEW o \in Ops, Annotate(o, m)
  PROVE  /\ ErrorIn(diagnostics'[o]) <=> ErrorIn(diagnostics[o]) \/ Report[m].error # "none"
         /\ DOMAIN diagnostics'[o] = {} <=>
              DOMAIN diagnostics[o] = {} /\ Report[m].error = "none" /\ ~ Report[m].warning
         /\ EarlyErrors(diagnostics[o]) /\ (Report[m].error # "none" => Report[m].status \in LiveStatus)
              => EarlyErrors(diagnostics'[o])
         /\ \A p \in Ops : p # o => diagnostics'[p] = diagnostics[p]
<1> DEFINE errors == IF Report[m].error = "none" THEN <<>>
                     ELSE <<Diagnostic("error", m, Report[m].error = "retryable")>>
           warnings == IF Report[m].warning
                       THEN <<Diagnostic("warning", m, FALSE)>> ELSE <<>>
<1>1. /\ Diagnostic("error", m, Report[m].error = "retryable") \in Diagnostics
      /\ Diagnostic("warning", m, FALSE) \in Diagnostics
  BY DEF Diagnostic, Diagnostics
<1>2. \A x \in Diagnostics : <<x>> \in Seq(Diagnostics)
  OBVIOUS
<1>3. /\ errors \in Seq(Diagnostics)
      /\ ErrorIn(errors) <=> Report[m].error # "none"
      /\ DOMAIN errors = {} <=> Report[m].error = "none"
      /\ (Report[m].error # "none" => Report[m].status \in LiveStatus) => EarlyErrors(errors)
  <2>1. CASE Report[m].error = "none"
    BY <2>1 DEF ErrorIn, EarlyErrors
  <2>2. CASE Report[m].error # "none"
    BY <1>1, <1>2, <2>2 DEF ErrorIn, EarlyErrors, Diagnostic
  <2> QED BY <2>1, <2>2
<1>4. /\ warnings \in Seq(Diagnostics)
      /\ ~ ErrorIn(warnings)
      /\ DOMAIN warnings = {} <=> ~ Report[m].warning
      /\ EarlyErrors(warnings)
  <2>1. CASE ~ Report[m].warning
    BY <2>1 DEF ErrorIn, EarlyErrors
  <2>2. CASE Report[m].warning
    BY <1>1, <1>2, <2>2 DEF ErrorIn, EarlyErrors, Diagnostic
  <2> QED BY <2>1, <2>2
<1>5. diagnostics \in [Ops -> Seq(Diagnostics)]
  BY DEF TypeOK, Diagnostics
<1>6. diagnostics' = [diagnostics EXCEPT ![o] = (@ \o errors) \o warnings]
  BY DEF Annotate
<1> HIDE DEF errors, warnings
<1>7. /\ diagnostics'[o] = (diagnostics[o] \o errors) \o warnings
      /\ \A p \in Ops : p # o => diagnostics'[p] = diagnostics[p]
  BY <1>5, <1>6
<1>8. diagnostics[o] \o errors \in Seq(Diagnostics)
  BY <1>3, <1>5, ConcatProperties
<1>9. /\ ErrorIn(diagnostics'[o]) <=> ErrorIn(diagnostics[o]) \/ Report[m].error # "none"
      /\ DOMAIN diagnostics'[o] = {} <=>
           DOMAIN diagnostics[o] = {} /\ Report[m].error = "none" /\ ~ Report[m].warning
      /\ EarlyErrors(diagnostics[o]) /\ (Report[m].error # "none" => Report[m].status \in LiveStatus)
           => EarlyErrors(diagnostics'[o])
  <2>1. /\ ErrorIn(diagnostics[o] \o errors) <=> ErrorIn(diagnostics[o]) \/ ErrorIn(errors)
        /\ DOMAIN (diagnostics[o] \o errors) = {} <=>
             DOMAIN diagnostics[o] = {} /\ DOMAIN errors = {}
        /\ EarlyErrors(diagnostics[o]) /\ EarlyErrors(errors) => EarlyErrors(diagnostics[o] \o errors)
    BY <1>3, <1>5, ErrorInConcatenation
  <2> DEFINE first == diagnostics[o] \o errors
  <2>2. first \in Seq(Diagnostics)
    BY <1>8
  <2> HIDE DEF first
  <2>3. /\ ErrorIn(first \o warnings) <=> ErrorIn(first) \/ ErrorIn(warnings)
        /\ DOMAIN (first \o warnings) = {} <=> DOMAIN first = {} /\ DOMAIN warnings = {}
        /\ EarlyErrors(first) /\ EarlyErrors(warnings) => EarlyErrors(first \o warnings)
    BY <1>4, <2>2, ErrorInConcatenation
  <2>4. diagnostics'[o] = first \o warnings
    BY <1>7 DEF first
  <2>5. /\ ErrorIn(first) <=> ErrorIn(diagnostics[o]) \/ Report[m].error # "none"
        /\ DOMAIN first = {} <=> DOMAIN diagnostics[o] = {} /\ Report[m].error = "none"
        /\ EarlyErrors(diagnostics[o]) /\ (Report[m].error # "none" => Report[m].status \in LiveStatus)
             => EarlyErrors(first)
    BY <1>3, <2>1 DEF first
  <2> QED BY <1>4, <2>3, <2>4, <2>5
<1> QED BY <1>7, <1>9

\* A path of the Platform that ends an operation leaves an error with it.
LEMMA RecordErrorDiagnoses ==
  ASSUME TypeOK, NEW o \in Ops, NEW source \in {"edge", "reaper"}, NEW may \in BOOLEAN,
         RecordError(o, source, may)
  PROVE  /\ ErrorIn(diagnostics'[o])
         /\ \A p \in Ops : p # o => diagnostics'[p] = diagnostics[p]
<1> DEFINE x == Diagnostic("error", source, may)
<1>1. x \in Diagnostics /\ x.severity = "error"
  BY DEF Diagnostic, Diagnostics
<1>2. diagnostics \in [Ops -> Seq(Diagnostics)]
  BY DEF TypeOK, Diagnostics
<1>3. diagnostics' = [diagnostics EXCEPT ![o] = Append(@, x)]
  BY DEF RecordError
<1> HIDE DEF x
<1>4. /\ diagnostics'[o] = Append(diagnostics[o], x)
      /\ \A p \in Ops : p # o => diagnostics'[p] = diagnostics[p]
  BY <1>2, <1>3
<1>5. /\ Len(diagnostics[o]) + 1 \in DOMAIN diagnostics'[o]
      /\ diagnostics'[o][Len(diagnostics[o]) + 1] = x
  BY <1>1, <1>2, <1>4, Appended
<1> QED BY <1>1, <1>4, <1>5 DEF ErrorIn

LEMMA NextProjects == TypeInv /\ ProjectsInv /\ [Next]_vars => ProjectsInv'
<1> SUFFICES ASSUME TypeInv, ProjectsInv, [Next]_vars PROVE ProjectsInv'
  OBVIOUS
<1>1. ASSUME NEW o \in Ops, Accept(o) PROVE ProjectsInv'
  BY <1>1 DEF Accept, TypeInv, TypeOK, ProjectsInv, Projects, ErrorIn, EarlyErrors, LiveStatus
<1>2. ASSUME NEW d \in Subjects, DeliverAdvance(d) \/ DeliverNoAdvance(d) PROVE ProjectsInv'
  <2>0. PICK m \in Msgs : m = consumer[d].msg
    BY <1>2 DEF DeliverAdvance, DeliverNoAdvance, TypeInv, HandlesAMessage
  <2>1. Taken(Report[m])
    BY <1>2, <2>0 DEF DeliverAdvance, DeliverNoAdvance
  <2>o. PICK o \in Ops : o = Report[m].op
    BY <2>1, TakenIsOurs
  <2>s. PICK s \in Status : s = Report[m].status
    BY <2>1, TakenIsOurs
  <2>2. /\ status[o] \in Status
        /\ s = "succeeded" => Report[m].error = "none"
        /\ s = "failed" => Report[m].error # "none"
        /\ s = "partially_succeeded" => ~ (Report[m].error = "none" /\ ~ Report[m].warning)
    BY <2>1, <2>o, <2>s DEF Taken, Contradicts, TypeInv, TypeOK
  <2>3. Annotate(o, m)
    BY <1>2, <2>0, <2>o, <2>s DEF DeliverAdvance, DeliverNoAdvance
  <2>4. /\ ErrorIn(diagnostics'[o]) <=> ErrorIn(diagnostics[o]) \/ Report[m].error # "none"
        /\ DOMAIN diagnostics'[o] = {} <=>
             DOMAIN diagnostics[o] = {} /\ Report[m].error = "none" /\ ~ Report[m].warning
        /\ EarlyErrors(diagnostics[o]) /\ (Report[m].error # "none" => s \in LiveStatus)
             => EarlyErrors(diagnostics'[o])
        /\ \A p \in Ops : p # o => diagnostics'[p] = diagnostics[p]
    BY <2>s, <2>3, AnnotateDiagnoses DEF TypeInv
  <2>5. ASSUME NEW p \in Ops, p # o PROVE Projects(p)'
    <3>1. status'[p] = status[p] /\ diagnostics'[p] = diagnostics[p]
      BY <1>2, <2>0, <2>o, <2>s, <2>4, <2>5 DEF DeliverAdvance, DeliverNoAdvance, RecordStatus, TypeInv, TypeOK
    <3> QED BY <3>1 DEF ProjectsInv, Projects, ErrorIn, EarlyErrors
  <2>6. Projects(o)
    BY DEF ProjectsInv
  <2>7. ASSUME DeliverAdvance(d) PROVE Projects(o)'
    <3>1. status'[o] = s /\ status[o] \in LiveStatus
      BY <2>0, <2>o, <2>s, <2>2, <2>7, RankIsNat
         DEF DeliverAdvance, GuardAllows, RecordStatus, TypeInv, TypeOK, Status
    <3>2. EarlyErrors(diagnostics[o])
      BY <2>6, <3>1 DEF Projects
    <3>3. s # "absent"
      BY DEF Status, LiveStatus, TerminalStatus
    <3> QED
      BY <2>2, <2>4, <3>1, <3>2, <3>3 DEF Projects
  <2>8. ASSUME DeliverNoAdvance(d) PROVE Projects(o)'
    <3>1. status'[o] = status[o]
      BY <2>0, <2>o, <2>s, <2>8 DEF DeliverNoAdvance
    <3>2. s = status[o] \/ Rank(s) < Rank(status[o])
      BY <2>0, <2>o, <2>s, <2>8 DEF DeliverNoAdvance, Transition
    <3>3. s = status[o] \/ s \in LiveStatus
      BY <2>2, <3>2, RankIsNat DEF Terminal, Status
    <3>4. status[o] \in LiveStatus \union {"absent", "succeeded"} =>
            (Report[m].error # "none" => s \in LiveStatus)
      BY <2>2, <3>3 DEF LiveStatus, TerminalStatus, Status
    <3> QED
      BY <2>4, <2>6, <3>1, <3>4 DEF Projects
  <2> QED
    BY <1>2, <2>5, <2>7, <2>8 DEF ProjectsInv
<1>3. ASSUME NEW o \in Ops, FailForward(o) \/ ReconcileOne(o) PROVE ProjectsInv'
  <2>1. ErrorIn(diagnostics'[o]) /\ \A p \in Ops : p # o => diagnostics'[p] = diagnostics[p]
    <3>1. PICK source \in {"edge", "reaper"}, may \in BOOLEAN : RecordError(o, source, may)
      BY <1>3 DEF FailForward, ReconcileOne
    <3> QED BY <3>1, RecordErrorDiagnoses DEF TypeInv
  <2>2. status'[o] = "failed" /\ \A p \in Ops : p # o => status'[p] = status[p]
    BY <1>3 DEF FailForward, ReconcileOne, RecordStatus, TypeInv, TypeOK
  <2> QED
    BY <2>1, <2>2 DEF ProjectsInv, Projects, ErrorIn, EarlyErrors, LiveStatus
<1>4. ASSUME UNCHANGED row \/ \E o \in Ops : RequestCancellation(o)
      PROVE  UNCHANGED <<status, diagnostics>>
  BY <1>4 DEF row, RequestCancellation
<1>5. CASE UNCHANGED <<status, diagnostics>>
  BY <1>5 DEF ProjectsInv, Projects, ErrorIn, EarlyErrors
<1> QED
  BY <1>1, <1>2, <1>3, <1>4, <1>5, RowWriters

\* An operation whose row lib.rs `snapshot' refuses to read succeeded after a
\* report of work that continues had brought an error: no other order of
\* reports, failed forwards and the reaper stores such a row.
THEOREM OnlyEarlyErrorsEverHide == Spec => []OnlyEarlyErrorsHide
<1>1. Init => ProjectsInv
  BY DEF Init, ProjectsInv, Projects, ErrorIn, EarlyErrors
<1> QED
  BY <1>1, ProjectsShows, InitTypes, NextTypes, NextProjects, PTL DEF Spec

-----------------------------------------------------------------------------
(* Each report counts once *)

\* The list holds a diagnostic of this severity from this source.
Has(list, severity, source) ==
  \E i \in DOMAIN list : list[i].severity = severity /\ list[i].source = source

OneEach(list) ==
  \A i, j \in DOMAIN list :
    list[i].severity = list[j].severity /\ list[i].source = list[j].source => i = j

\* An error in the name of the Platform is the end of its operation, so it is
\* written once.
PlatformErrorIsTheEnd ==
  \A o \in Ops, source \in {"edge", "reaper"} :
    Has(diagnostics[o], "error", source) => status[o] \in TerminalStatus

CountsInv == EachReportCountsOnce /\ PlatformErrorIsTheEnd

\* One more diagnostic adds its own source and severity and nothing else.
LEMMA AppendHas ==
  ASSUME NEW list \in Seq(Diagnostics), NEW x \in Diagnostics
  PROVE  /\ \A severity, source :
              Has(Append(list, x), severity, source)
                <=> \/ Has(list, severity, source)
                    \/ severity = x.severity /\ source = x.source
         /\ OneEach(list) /\ ~ Has(list, x.severity, x.source) => OneEach(Append(list, x))
<1> HIDE DEF Diagnostics
<1>1. /\ DOMAIN list = 1..Len(list) /\ Len(list) \in Nat
      /\ DOMAIN Append(list, x) = 1..(Len(list) + 1)
      /\ Append(list, x)[Len(list) + 1] = x
      /\ \A i \in DOMAIN list : Append(list, x)[i] = list[i]
  BY Appended
<1>2. \A i \in DOMAIN Append(list, x) : i \in DOMAIN list \/ i = Len(list) + 1
  BY <1>1
<1>3. DOMAIN list \subseteq DOMAIN Append(list, x) /\ Len(list) + 1 \in DOMAIN Append(list, x)
  BY <1>1
<1> DEFINE longer == Append(list, x)
<1>4. /\ longer[Len(list) + 1] = x
      /\ \A i \in DOMAIN list : longer[i] = list[i]
      /\ \A i \in DOMAIN longer : i \in DOMAIN list \/ i = Len(list) + 1
      /\ DOMAIN list \subseteq DOMAIN longer /\ Len(list) + 1 \in DOMAIN longer
  BY <1>1, <1>2, <1>3
<1> HIDE DEF longer
<1>5. ASSUME NEW severity, NEW source
      PROVE  Has(longer, severity, source)
               <=> \/ Has(list, severity, source)
                   \/ severity = x.severity /\ source = x.source
  BY <1>4 DEF Has
<1>6. ASSUME OneEach(list), ~ Has(list, x.severity, x.source) PROVE OneEach(longer)
  <2> SUFFICES ASSUME NEW i \in DOMAIN longer, NEW j \in DOMAIN longer,
                      longer[i].severity = longer[j].severity,
                      longer[i].source = longer[j].source
               PROVE  i = j
    BY DEF OneEach
  <2>1. CASE i \in DOMAIN list /\ j \in DOMAIN list
    BY <1>4, <1>6, <2>1 DEF OneEach
  <2>2. CASE i \in DOMAIN list /\ j = Len(list) + 1
    BY <1>4, <1>6, <2>2 DEF Has
  <2>3. CASE i = Len(list) + 1 /\ j \in DOMAIN list
    BY <1>4, <1>6, <2>3 DEF Has
  <2> QED BY <1>4, <2>1, <2>2, <2>3
<1> QED BY <1>5, <1>6 DEF longer

\* The same for a list that grows by one diagnostic or by none.
LEMMA ConcatHas ==
  ASSUME NEW list \in Seq(Diagnostics), NEW x \in Diagnostics, NEW more \in {<<>>, <<x>>}
  PROVE  /\ list \o more \in Seq(Diagnostics)
         /\ \A severity, source :
              Has(list \o more, severity, source)
                <=> \/ Has(list, severity, source)
                    \/ more # <<>> /\ severity = x.severity /\ source = x.source
         /\ OneEach(list) /\ ~ Has(list, x.severity, x.source) => OneEach(list \o more)
<1> HIDE DEF Diagnostics
<1>1. CASE more = <<>>
  <2>1. list \o more = list
    BY <1>1
  <2> QED BY <1>1, <2>1
<1>2. CASE more = <<x>>
  <2>1. list \o more = Append(list, x)
    BY <1>2
  <2>2. more # <<>> /\ Append(list, x) \in Seq(Diagnostics)
    BY <1>2
  <2> QED BY <2>1, <2>2, AppendHas
<1> QED BY <1>1, <1>2

\* What a report adds to the diagnostics and to the results of its operation.
LEMMA AnnotateCounts ==
  ASSUME TypeOK, NEW m \in Msgs, NEW o \in Ops, Annotate(o, m),
         EachReportCountsOnce, inbox[m].outcome = "unseen"
  PROVE  /\ OneEach(diagnostics'[o])
         /\ \A severity, source :
              Has(diagnostics'[o], severity, source)
                => Has(diagnostics[o], severity, source) \/ source = m
         /\ \A i, j \in DOMAIN results'[o] : results'[o][i] = results'[o][j] => i = j
         /\ \A i \in DOMAIN results'[o] :
              (\E j \in DOMAIN results[o] : results[o][j] = results'[o][i]) \/ results'[o][i] = m
         /\ \A p \in Ops \ {o} : diagnostics'[p] = diagnostics[p] /\ results'[p] = results[p]
<1> DEFINE e == Diagnostic("error", m, Report[m].error = "retryable")
           w == Diagnostic("warning", m, FALSE)
           errors == IF Report[m].error = "none" THEN <<>> ELSE <<e>>
           warnings == IF Report[m].warning THEN <<w>> ELSE <<>>
<1>1. /\ e \in Diagnostics /\ e.severity = "error" /\ e.source = m
      /\ w \in Diagnostics /\ w.severity = "warning" /\ w.source = m
  BY DEF Diagnostic, Diagnostics
<1>2. /\ diagnostics \in [Ops -> Seq(Diagnostics)]
      /\ results \in [Ops -> Seq(Msgs)]
  BY DEF TypeOK, Diagnostics
<1>3. diagnostics' = [diagnostics EXCEPT ![o] = (@ \o errors) \o warnings]
  BY DEF Annotate
<1>4. errors \in {<<>>, <<e>>} /\ warnings \in {<<>>, <<w>>}
  OBVIOUS
<1>5. /\ OneEach(diagnostics[o])
      /\ \A severity : ~ Has(diagnostics[o], severity, m)
      /\ \A i \in DOMAIN results[o] : results[o][i] # m
      /\ \A i, j \in DOMAIN results[o] : results[o][i] = results[o][j] => i = j
  BY DEF EachReportCountsOnce, OneEach, Has
<1> HIDE DEF e, w, errors, warnings
<1>6. /\ diagnostics'[o] = (diagnostics[o] \o errors) \o warnings
      /\ \A p \in Ops \ {o} : diagnostics'[p] = diagnostics[p]
  BY <1>2, <1>3
<1>7. PICK list : list = diagnostics[o] \o errors
  OBVIOUS
<1>8. /\ list \in Seq(Diagnostics)
      /\ OneEach(list)
      /\ \A severity, source :
           Has(list, severity, source)
             => Has(diagnostics[o], severity, source) \/ (severity = "error" /\ source = m)
  <2>1. PICK old \in Seq(Diagnostics) : old = diagnostics[o]
    BY <1>2
  <2>2. /\ old \o errors \in Seq(Diagnostics)
        /\ \A severity, source :
              Has(old \o errors, severity, source)
                <=> \/ Has(old, severity, source)
                    \/ errors # <<>> /\ severity = e.severity /\ source = e.source
        /\ OneEach(old) /\ ~ Has(old, e.severity, e.source) => OneEach(old \o errors)
    BY <1>1, <1>4, ConcatHas
  <2> QED BY <1>1, <1>5, <1>7, <2>1, <2>2
<1>9. ~ Has(list, w.severity, w.source)
  BY <1>1, <1>5, <1>8
<1>10. /\ OneEach(list \o warnings)
       /\ \A severity, source :
            Has(list \o warnings, severity, source)
              => Has(list, severity, source) \/ source = m
  <2>1. /\ \A severity, source :
              Has(list \o warnings, severity, source)
                <=> \/ Has(list, severity, source)
                    \/ warnings # <<>> /\ severity = w.severity /\ source = w.source
        /\ OneEach(list) /\ ~ Has(list, w.severity, w.source) => OneEach(list \o warnings)
    BY <1>1, <1>4, <1>8, ConcatHas
  <2> QED BY <1>1, <1>8, <1>9, <2>1
<1>11. /\ OneEach(diagnostics'[o])
       /\ \A severity, source :
              Has(diagnostics'[o], severity, source)
                => Has(diagnostics[o], severity, source) \/ source = m
  BY <1>6, <1>7, <1>8, <1>10
<1>12. CASE ~ Report[m].result
  <2>1. results' = results
    BY <1>12 DEF Annotate
  <2> QED BY <1>5, <1>6, <1>11, <2>1
<1>13. CASE Report[m].result
  <2>1. /\ results'[o] = Append(results[o], m)
        /\ \A p \in Ops \ {o} : results'[p] = results[p]
    BY <1>2, <1>13 DEF Annotate
  <2>2. PICK log \in Seq(Msgs) : log = results[o]
    BY <1>2
  <2>3. PICK longer : longer = Append(log, m)
    OBVIOUS
  <2>4. /\ longer[Len(log) + 1] = m
        /\ \A i \in DOMAIN log : longer[i] = log[i]
        /\ DOMAIN log = 1..Len(log) /\ Len(log) \in Nat
        /\ DOMAIN longer = 1..(Len(log) + 1)
    BY <2>3, Appended
  <2>5. \A i \in DOMAIN longer : i \in DOMAIN log \/ i = Len(log) + 1
    BY <2>4
  <2>6. results'[o] = longer
    BY <2>1, <2>2, <2>3
  <2>7. \A i, j \in DOMAIN longer : longer[i] = longer[j] => i = j
    BY <1>5, <2>2, <2>4, <2>5
  <2>8. \A i \in DOMAIN longer :
          (\E j \in DOMAIN log : log[j] = longer[i]) \/ longer[i] = m
    BY <2>4, <2>5
  <2> QED BY <1>6, <1>11, <2>1, <2>2, <2>6, <2>7, <2>8
<1> QED BY <1>12, <1>13

\* EachReportCountsOnce for one operation.
CountsOnce(o) ==
  /\ OneEach(diagnostics[o])
  /\ \A i, j \in DOMAIN results[o] : results[o][i] = results[o][j] => i = j
  /\ \A m \in Msgs :
       \/ \E i \in DOMAIN results[o] : results[o][i] = m
       \/ \E severity : Has(diagnostics[o], severity, m)
       => inbox[m].outcome \notin {"unseen", "rejected"} /\ Report[m].op = o

AllCountOnce == \A o \in Ops : CountsOnce(o)

LEMMA CountsForm == EachReportCountsOnce <=> AllCountOnce
<1>1. ASSUME NEW o \in Ops, NEW m \in Msgs
      PROVE  (\E i \in DOMAIN diagnostics[o] : diagnostics[o][i].source = m)
               <=> \E severity : Has(diagnostics[o], severity, m)
  <2>1. ASSUME NEW i \in DOMAIN diagnostics[o], diagnostics[o][i].source = m
        PROVE  \E severity : Has(diagnostics[o], severity, m)
    <3>1. Has(diagnostics[o], diagnostics[o][i].severity, m)
      BY <2>1 DEF Has
    <3> QED BY <3>1
  <2> QED BY <2>1 DEF Has
<1>2. EachReportCountsOnce => \A o \in Ops : CountsOnce(o)
  BY <1>1 DEF EachReportCountsOnce, CountsOnce, OneEach
<1>3. (\A o \in Ops : CountsOnce(o)) => EachReportCountsOnce
  BY <1>1 DEF EachReportCountsOnce, CountsOnce, OneEach
<1> QED BY <1>2, <1>3 DEF AllCountOnce

\* A report that is taken is entered once, in the history it names.
LEMMA DeliveryCounts ==
  ASSUME TypeInv, CountsInv, NEW d \in Subjects, DeliverAdvance(d) \/ DeliverNoAdvance(d)
  PROVE  CountsInv'
<1>1. PICK m \in Msgs : m = consumer[d].msg
  BY DEF DeliverAdvance, DeliverNoAdvance, TypeInv, HandlesAMessage
<1>2. Taken(Report[m]) /\ inbox[m].outcome = "unseen"
  BY <1>1 DEF DeliverAdvance, DeliverNoAdvance
<1>3. PICK o \in Ops : o = Report[m].op
  BY <1>2, TakenIsOurs
<1>4. Annotate(o, m) /\ EachReportCountsOnce /\ TypeOK
  BY <1>1, <1>3 DEF DeliverAdvance, DeliverNoAdvance, CountsInv, TypeInv
<1>5. /\ OneEach(diagnostics'[o])
      /\ \A severity, source :
           Has(diagnostics'[o], severity, source)
             => Has(diagnostics[o], severity, source) \/ source = m
      /\ \A i, j \in DOMAIN results'[o] : results'[o][i] = results'[o][j] => i = j
      /\ \A i \in DOMAIN results'[o] :
           (\E j \in DOMAIN results[o] : results[o][j] = results'[o][i]) \/ results'[o][i] = m
      /\ \A p \in Ops \ {o} : diagnostics'[p] = diagnostics[p] /\ results'[p] = results[p]
  BY <1>2, <1>4, AnnotateCounts
<1>6. \A p \in Ops : CountsOnce(p)
  BY <1>4, CountsForm DEF AllCountOnce
<1>7. PICK outcome \in {"applied", "duplicate", "stale"} :
        InboxFinish(m, outcome, consumer[d].now)
  BY <1>1 DEF DeliverAdvance, DeliverNoAdvance
<1>8. /\ inbox'[m].outcome \notin {"unseen", "rejected"}
      /\ \A n \in Msgs \ {m} : inbox'[n] = inbox[n]
  BY <1>7 DEF InboxFinish, TypeInv, TypeOK
<1>9. CountsOnce(o)'
  <2>1. ASSUME NEW n \in Msgs,
               \/ \E i \in DOMAIN results'[o] : results'[o][i] = n
               \/ \E severity : Has(diagnostics'[o], severity, n)
        PROVE  inbox'[n].outcome \notin {"unseen", "rejected"} /\ Report[n].op = o
    <3>1. CASE n = m
      BY <1>3, <1>8, <3>1
    <3>2. CASE n # m
      <4>1. \/ \E i \in DOMAIN results[o] : results[o][i] = n
            \/ \E severity : Has(diagnostics[o], severity, n)
        BY <1>5, <2>1, <3>2
      <4>2. inbox[n].outcome \notin {"unseen", "rejected"} /\ Report[n].op = o
        BY <1>6, <4>1 DEF CountsOnce
      <4> QED BY <1>8, <3>2, <4>2
    <3> QED BY <3>1, <3>2
  <2>2. \A severity, source :
          Has(diagnostics[o], severity, source)' <=> Has(diagnostics'[o], severity, source)
    BY DEF Has
  <2>3. OneEach(diagnostics[o])' <=> OneEach(diagnostics'[o])
    BY DEF OneEach
  <2> QED BY <1>5, <2>1, <2>2, <2>3 DEF CountsOnce
<1>10. ASSUME NEW p \in Ops, p # o PROVE CountsOnce(p)'
  <2>1. diagnostics'[p] = diagnostics[p] /\ results'[p] = results[p]
    BY <1>5, <1>10
  <2>2. \A n \in Msgs : inbox[n].outcome \notin {"unseen", "rejected"}
                         => inbox'[n].outcome \notin {"unseen", "rejected"}
    BY <1>2, <1>8
  <2>3. CountsOnce(p)
    BY <1>6
  <2>4. OneEach(diagnostics[p])'
    BY <2>1, <2>3 DEF CountsOnce, OneEach
  <2>5. \A severity, source :
          Has(diagnostics[p], severity, source)' <=> Has(diagnostics[p], severity, source)
    BY <2>1 DEF Has
  <2> QED BY <2>1, <2>2, <2>3, <2>4, <2>5 DEF CountsOnce
<1>11. EachReportCountsOnce'
  <2>1. AllCountOnce'
    BY <1>9, <1>10 DEF AllCountOnce
  <2> QED BY <2>1, CountsForm, PTL
<1>12. ASSUME NEW p \in Ops, NEW source \in {"edge", "reaper"},
              Has(diagnostics'[p], "error", source)
       PROVE  status'[p] \in TerminalStatus
  <2>1. Has(diagnostics[p], "error", source)
    <3>1. source # m
      BY ReportAssumption
    <3>2. CASE p = o
      BY <1>5, <1>12, <3>1, <3>2
    <3>3. CASE p # o
      BY <1>5, <1>12, <3>3 DEF Has
    <3> QED BY <3>2, <3>3
  <2>2. status[p] \in TerminalStatus
    BY <2>1 DEF CountsInv, PlatformErrorIsTheEnd
  <2>3. status'[p] = status[p]
    <3>1. CASE DeliverAdvance(d)
      <4>1. /\ status' = [status EXCEPT ![o] = Report[m].status]
            /\ ~ Terminal(status[o])
        BY <1>1, <1>3, <3>1 DEF DeliverAdvance, GuardAllows, RecordStatus
      <4>2. p # o
        BY <2>2, <4>1, RankIsNat DEF Status
      <4> QED BY <4>1, <4>2 DEF TypeInv, TypeOK
    <3>2. CASE DeliverNoAdvance(d)
      BY <3>2 DEF DeliverNoAdvance
    <3> QED BY <3>1, <3>2
  <2> QED BY <2>2, <2>3
<1>13. PlatformErrorIsTheEnd'
  BY <1>12 DEF PlatformErrorIsTheEnd, Has
<1> QED BY <1>11, <1>13 DEF CountsInv

\* Edge and the reaper write their error with the end of the operation.
LEMMA EndingCounts ==
  ASSUME TypeInv, CountsInv, NEW o \in Ops, FailForward(o) \/ ReconcileOne(o)
  PROVE  CountsInv'
<1>1. PICK source \in {"edge", "reaper"}, may \in BOOLEAN : RecordError(o, source, may)
  BY DEF FailForward, ReconcileOne
<1>2. PICK x \in Diagnostics : x = Diagnostic("error", source, may)
  BY DEF Diagnostics, Diagnostic
<1>3. x.severity = "error" /\ x.source = source
  BY <1>2 DEF Diagnostic
<1>4. PICK old \in Seq(Diagnostics) : old = diagnostics[o]
  BY DEF TypeInv, TypeOK, Diagnostics
<1>5. /\ diagnostics'[o] = Append(old, x)
      /\ \A p \in Ops \ {o} : diagnostics'[p] = diagnostics[p]
  BY <1>1, <1>2, <1>4 DEF RecordError, TypeInv, TypeOK
<1>6. /\ ~ Terminal(status[o])
      /\ status'[o] = "failed"
      /\ \A p \in Ops \ {o} : status'[p] = status[p]
      /\ results' = results /\ inbox' = inbox
  BY DEF FailForward, ReconcileOne, GuardAllows, RecordStatus, TypeInv, TypeOK
<1>7. \A p \in Ops : CountsOnce(p)
  BY CountsForm DEF CountsInv, AllCountOnce
<1>8. ~ Has(old, "error", source)
  BY <1>4, <1>6, RankIsNat DEF CountsInv, PlatformErrorIsTheEnd, Status
<1>9. /\ \A severity, any :
           Has(Append(old, x), severity, any)
             <=> Has(old, severity, any) \/ (severity = x.severity /\ any = x.source)
      /\ OneEach(old) /\ ~ Has(old, x.severity, x.source) => OneEach(Append(old, x))
  BY AppendHas
<1>10. OneEach(Append(old, x))
  BY <1>3, <1>4, <1>7, <1>8, <1>9 DEF CountsOnce
<1>11. \A m \in Msgs : m # source
  BY ReportAssumption
<1>12. ASSUME NEW p \in Ops PROVE CountsOnce(p)'
  <2>1. OneEach(diagnostics'[p])
    <3>1. CASE p = o
      BY <1>5, <1>10, <3>1
    <3>2. CASE p # o
      BY <1>5, <1>7, <3>2 DEF CountsOnce, OneEach
    <3> QED BY <3>1, <3>2
  <2>2. \A m \in Msgs : \A severity :
          Has(diagnostics'[p], severity, m) => Has(diagnostics[p], severity, m)
    <3>1. CASE p = o
      BY <1>3, <1>4, <1>5, <1>9, <1>11, <3>1
    <3>2. CASE p # o
      BY <1>5, <3>2 DEF Has
    <3> QED BY <3>1, <3>2
  <2>3. CountsOnce(p)
    BY <1>7
  <2>4. OneEach(diagnostics[p])' <=> OneEach(diagnostics'[p])
    BY DEF OneEach
  <2>5. \A severity, any :
          Has(diagnostics[p], severity, any)' <=> Has(diagnostics'[p], severity, any)
    BY DEF Has
  <2>6. UNCHANGED <<results, inbox>>
    BY <1>6
  <2> QED BY <2>1, <2>2, <2>3, <2>4, <2>5, <2>6 DEF CountsOnce
<1>13. EachReportCountsOnce'
  <2>1. AllCountOnce'
    BY <1>12 DEF AllCountOnce
  <2> QED BY <2>1, CountsForm, PTL
<1>14. ASSUME NEW p \in Ops, NEW any \in {"edge", "reaper"},
              Has(diagnostics'[p], "error", any)
       PROVE  status'[p] \in TerminalStatus
  <2>1. CASE p = o
    BY <1>6, <2>1 DEF TerminalStatus
  <2>2. CASE p # o
    BY <1>5, <1>6, <1>14, <2>2 DEF CountsInv, PlatformErrorIsTheEnd, Has
  <2> QED BY <2>1, <2>2
<1> QED BY <1>13, <1>14 DEF CountsInv, PlatformErrorIsTheEnd, Has

LEMMA NextCounts == TypeInv /\ CountsInv /\ [Next]_vars => CountsInv'
<1> SUFFICES ASSUME TypeInv, CountsInv, [Next]_vars PROVE CountsInv'
  OBVIOUS
<1>1. CASE \E d \in Subjects : DeliverAdvance(d) \/ DeliverNoAdvance(d)
  BY <1>1, DeliveryCounts
<1>2. CASE \E o \in Ops : FailForward(o) \/ ReconcileOne(o)
  BY <1>2, EndingCounts
<1>3. ASSUME NEW d \in Subjects, DeliverRefused(d) PROVE CountsInv'
  <2>1. PICK m \in Msgs : m = consumer[d].msg
    BY <1>3 DEF DeliverRefused, TypeInv, HandlesAMessage
  <2>2. /\ inbox[m].outcome = "unseen"
        /\ \A n \in Msgs \ {m} : inbox'[n] = inbox[n]
        /\ status' = status /\ diagnostics' = diagnostics /\ results' = results
    BY <1>3, <2>1 DEF DeliverRefused, InboxFinish, TypeInv, TypeOK, row
  <2>3. \A n \in Msgs : inbox[n].outcome \notin {"unseen", "rejected"}
                          => inbox'[n] = inbox[n]
    BY <2>2
  <2> QED
    BY <2>2, <2>3 DEF CountsInv, EachReportCountsOnce, PlatformErrorIsTheEnd, Has
<1>4. ASSUME NEW o \in Ops, Accept(o) PROVE CountsInv'
  <2>1. /\ diagnostics' = diagnostics /\ results' = results /\ inbox' = inbox
        /\ status[o] \notin TerminalStatus
        /\ \A p \in Ops \ {o} : status'[p] = status[p]
    BY <1>4 DEF Accept, TypeInv, TypeOK, TerminalStatus
  <2> QED
    BY <2>1 DEF CountsInv, EachReportCountsOnce, PlatformErrorIsTheEnd, Has
<1>5. CASE UNCHANGED <<status, diagnostics, results, inbox>>
  BY <1>5 DEF CountsInv, EachReportCountsOnce, PlatformErrorIsTheEnd, Has
<1>6. ASSUME UNCHANGED row \/ \E o \in Ops : RequestCancellation(o)
      PROVE  UNCHANGED <<status, diagnostics, results>>
  BY <1>6 DEF row, RequestCancellation
<1>7. ASSUME \E o \in Ops : RequestCancellation(o) PROVE inbox' = inbox
  BY <1>7 DEF RequestCancellation
<1> QED
  BY <1>1, <1>2, <1>3, <1>4, <1>5, <1>6, <1>7, RowWriters, InboxWriters

LEMMA InitCounts == Init => CountsInv
<1>1. Init => \A o \in Ops : DOMAIN diagnostics[o] = {} /\ DOMAIN results[o] = {}
  BY DEF Init
<1> QED
  BY <1>1 DEF CountsInv, EachReportCountsOnce, PlatformErrorIsTheEnd, Has

\* A report adds its result, its error and its warning to at most one history
\* and once, however often the bus delivers it (consumer.rs `deliver').
THEOREM EachReportAlwaysCountsOnce == Spec => []EachReportCountsOnce
<1>1. Spec => []CountsInv
  BY InitTypes, NextTypes, InitCounts, NextCounts, PTL DEF Spec
<1> QED BY <1>1, PTL DEF CountsInv

-----------------------------------------------------------------------------
(* The operation projection implements the abstract life of an operation *)

LEMMA SameLifecycle ==
  /\ \A s : Rank(s) = Lifecycle!Rank(s)
  /\ LiveStatus = Lifecycle!LiveStatus
  /\ TerminalStatus = Lifecycle!TerminalStatus
  /\ Status = Lifecycle!Status
BY DEF Rank, LiveStatus, TerminalStatus, Status, Lifecycle!Rank, Lifecycle!LiveStatus,
       Lifecycle!TerminalStatus, Lifecycle!Status

\* RecordStatus, behind the guard, is the abstract Advance.
LEMMA RecordStatusAdvances ==
  ASSUME TypeInv, NEW o \in Ops, NEW s \in Status, NEW now, status[o] # "absent",
         GuardAllows(o, s, now), RecordStatus(o, s, now), UNCHANGED shown
  PROVE  Lifecycle!Next
<1>1. status[o] \in LiveStatus /\ Rank(s) > Rank(status[o])
  BY RankIsNat DEF GuardAllows, TypeInv, TypeOK, Status
<1>2. Lifecycle!Advance(o, s)
  BY <1>1, SameLifecycle DEF RecordStatus, Lifecycle!Advance
<1> QED BY <1>2, SameLifecycle DEF Lifecycle!Next

LEMMA NextImplements ==
  TypeInv /\ [Next]_vars => [Lifecycle!Next]_<<status, shown>>
<1> SUFFICES ASSUME TypeInv, [Next]_vars PROVE [Lifecycle!Next]_<<status, shown>>
  OBVIOUS
<1>1. ASSUME NEW o \in Ops, Accept(o) PROVE Lifecycle!Next
  BY <1>1 DEF Accept, Lifecycle!Next, Lifecycle!Accept
<1>2. ASSUME NEW o \in Ops, Show(o) PROVE Lifecycle!Next
  <2>1. status[o] \in TerminalStatus
    BY <1>2, RankIsNat DEF Show, TypeInv, TypeOK
  <2>2. Lifecycle!Show(o)
    BY <1>2, <2>1, SameLifecycle DEF Show, row, Lifecycle!Show
  <2> QED BY <2>2 DEF Lifecycle!Next
<1>3. ASSUME NEW d \in Subjects, DeliverAdvance(d) PROVE Lifecycle!Next
  <2> DEFINE m == consumer[d].msg
             o == Report[m].op
  <2>1. m \in Msgs
    BY <1>3 DEF DeliverAdvance, TypeInv, HandlesAMessage
  <2>2. o \in Ops /\ Report[m].status \in Status /\ status[o] # "absent"
    BY <1>3, <2>1, TakenIsOurs DEF DeliverAdvance, Taken
  <2>3. /\ GuardAllows(o, Report[m].status, consumer[d].now)
        /\ RecordStatus(o, Report[m].status, consumer[d].now)
        /\ UNCHANGED shown
    BY <1>3 DEF DeliverAdvance
  <2> HIDE DEF m, o
  <2> QED BY <2>2, <2>3, RecordStatusAdvances
<1>4. ASSUME NEW o \in Ops, FailForward(o) PROVE Lifecycle!Next
  <2>1. "failed" \in Status /\ status[o] # "absent"
    BY <1>4 DEF FailForward, Transition, Rank, Status, TerminalStatus
  <2> QED BY <1>4, <2>1, RecordStatusAdvances DEF FailForward
<1>5. ASSUME NEW o \in Ops, ReconcileOne(o) PROVE Lifecycle!Next
  <2>1. "failed" \in Status /\ status[o] # "absent"
    BY <1>5 DEF ReconcileOne, Stale, Status, LiveStatus, TerminalStatus
  <2> QED BY <1>5, <2>1, RecordStatusAdvances DEF ReconcileOne
<1>6. ASSUME NEW o \in Ops, ForwardRefused(o) \/ LeaveForward(o) \/ SkipOne(o)
                            \/ RequestCancellation(o)
      PROVE  UNCHANGED <<status, shown>>
  BY <1>6 DEF ForwardRefused, LeaveForward, SkipOne, RequestCancellation, row
<1>7. ASSUME NEW d \in Subjects, \/ DeliverAgain(d) \/ DeliverRefused(d)
                                 \/ DeliverNoAdvance(d) \/ DeliverFails(d)
                                 \/ Ack(d) \/ AckLost(d)
      PROVE  UNCHANGED <<status, shown>>
  BY <1>7 DEF DeliverAgain, DeliverRefused, DeliverNoAdvance, DeliverFails, Ack, AckLost, row
<1>8. ASSUME NEW m \in Msgs, Publish(m) \/ \E d \in Subjects : Fetch(d, m)
      PROVE  UNCHANGED <<status, shown>>
  BY <1>8 DEF Publish, Fetch, row
<1>9. ASSUME Tick \/ SelectStale \/ AbortPass \/ Crash \/ UNCHANGED vars
      PROVE  UNCHANGED <<status, shown>>
  BY <1>9 DEF Tick, SelectStale, AbortPass, Crash, vars, row
<1> QED
  BY <1>1, <1>2, <1>3, <1>4, <1>5, <1>6, <1>7, <1>8, <1>9 DEF Next, Arrival, Handling, Deliver

\* Whatever the workers, the bus, the reaper and the clients do, a client sees
\* an operation that only climbs and whose shown outcome never changes
\* (ADR-0002): the whole projection implements OperationLifecycle.
THEOREM OperationsImplementLifecycle == Spec => ImplementsLifecycle
<1>1. Init => Lifecycle!Init
  BY DEF Init, Lifecycle!Init
<1> QED
  BY <1>1, InitTypes, NextTypes, NextImplements, PTL DEF Spec, ImplementsLifecycle, Lifecycle!Spec
=============================================================================

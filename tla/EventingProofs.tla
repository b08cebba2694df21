--------------------------- MODULE EventingProofs ---------------------------
(***************************************************************************)
(* What the two ends of eventing promise.                                  *)
(*                                                                         *)
(* The outbox, for any number of messages, of publishers and of attempts,  *)
(* and for any lease and backoff.  The leases play no part: nothing here   *)
(* depends on publishers being kept apart in time.                         *)
(*                                                                         *)
(* The site's live events, for any messages, clients, windows and clocks,  *)
(* under the startup rule that the inbox remembers as long as the stream.  *)
(* Both results are of safety: no fairness is used.                        *)
(***************************************************************************)
EXTENDS Outbox, SiteEvents, FiniteSetTheorems, SequenceTheorems, WellFoundedInduction,
        TLAPS

\* What a publisher is doing.
PassKind == [pc : {"idle", "send", "acked", "failed"}, age : 0..Longest,
             held : SUBSET Msgs, msg : Msgs \union {NoMessage}]

\* What the two results need to know of the types.
Kinds ==
  /\ stored \subseteq Msgs
  /\ collected \subseteq Msgs
  /\ attempts \in [Msgs -> Nat]
  /\ published \in [Msgs -> BOOLEAN]
  /\ dead \in [Msgs -> BOOLEAN]
  /\ publisher \in [Publishers -> PassKind]

\* A pass that learnt of an acknowledgement has it of a stored message.
AckMeansStored ==
  \A p \in Publishers :
    publisher[p].pc = "acked" => publisher[p].msg \in Msgs /\ publisher[p].msg \in bus

\* A pass that has an answer has it of a message.
AnswerHasMessage ==
  \A p \in Publishers : publisher[p].pc = "failed" => publisher[p].msg \in Msgs

\* A dead letter used up its attempts, is still in the table and undelivered.
DeadIsExhausted ==
  \A m \in Msgs : dead[m] => attempts[m] >= MaxAttempts /\ m \in stored /\ ~ published[m]

Inv ==
  /\ Kinds
  /\ AckMeansStored
  /\ AnswerHasMessage
  /\ NothingIsLost
  /\ DeadIsExhausted

LEMMA IdleKind == Idle \in PassKind
BY OutboxAssumption DEF Idle, PassKind

LEMMA InitInv == Init => Inv
<1> SUFFICES ASSUME Init PROVE Inv
  OBVIOUS
<1>1. Kinds
  <2>1. publisher \in [Publishers -> PassKind]
    BY IdleKind DEF Init
  <2> QED
    BY <2>1 DEF Init, Kinds
<1>2. \A p \in Publishers : publisher[p].pc = "idle"
  BY DEF Init, Idle
<1> QED
  BY <1>1, <1>2 DEF Init, Inv, AckMeansStored, AnswerHasMessage, NothingIsLost, DeadIsExhausted

LEMMA StepInv == Inv /\ [Next]_vars => Inv'
<1> SUFFICES ASSUME Inv, [Next]_vars PROVE Inv'
  OBVIOUS
<1> USE OutboxAssumption
<1>1. CASE Tick
  <2>1. UNCHANGED <<stored, collected, attempts, published, dead, bus>>
    BY <1>1 DEF Tick
  <2>2. \A p \in Publishers :
          \/ publisher'[p] = publisher[p]
          \/ publisher[p].age # Longest /\ publisher'[p] = [publisher[p] EXCEPT !.age = @ + 1]
    BY <1>1, Zenon DEF Tick
  <2>3. ASSUME NEW p \in Publishers
        PROVE  /\ publisher'[p] \in PassKind
               /\ publisher'[p].pc = publisher[p].pc
               /\ publisher'[p].msg = publisher[p].msg
    <3>1. publisher[p] \in PassKind
      BY DEF Inv, Kinds
    <3>2. CASE publisher'[p] = publisher[p]
      BY <3>1, <3>2
    <3>3. CASE publisher[p].age # Longest /\ publisher'[p] = [publisher[p] EXCEPT !.age = @ + 1]
      BY <3>1, <3>3 DEF PassKind
    <3> QED
      BY <2>2, <3>2, <3>3
  <2>4. publisher' \in [Publishers -> PassKind]
    BY <1>1, <2>3, Zenon DEF Tick
  <2> QED
    BY <2>1, <2>3, <2>4 DEF Inv, Kinds, AckMeansStored, AnswerHasMessage, NothingIsLost,
                            DeadIsExhausted
<1>2. ASSUME NEW m \in Msgs, Enqueue(m) PROVE Inv'
  BY <1>2 DEF Enqueue, columns, Inv, Kinds, PassKind, AckMeansStored, AnswerHasMessage, NothingIsLost,
              DeadIsExhausted
<1>3. ASSUME NEW m \in Msgs, Collect(m) PROVE Inv'
  BY <1>3 DEF Collect, columns, Inv, Kinds, PassKind, AckMeansStored, AnswerHasMessage, NothingIsLost,
              DeadIsExhausted
<1>4. ASSUME NEW p \in Publishers, Claim(p) PROVE Inv'
  <2>1. PICK age \in 0..Longest, taken \in SUBSET Msgs :
          publisher' = [publisher EXCEPT ![p] =
                          [Idle EXCEPT !.pc = "send", !.age = age, !.held = taken]]
    BY <1>4 DEF Claim
  <2>2. UNCHANGED <<stored, collected, attempts, published, dead, bus>>
    BY <1>4 DEF Claim
  <2> QED
    BY <2>1, <2>2 DEF Idle, Inv, Kinds, PassKind, AckMeansStored, AnswerHasMessage, NothingIsLost,
                      DeadIsExhausted
<1>5. ASSUME NEW p \in Publishers, EndPass(p) PROVE Inv'
  BY <1>5 DEF EndPass, Idle, columns, Inv, Kinds, PassKind, AckMeansStored, AnswerHasMessage,
              NothingIsLost, DeadIsExhausted
<1>6. ASSUME NEW p \in Publishers, NEW m \in Msgs, Acknowledged(p, m) PROVE Inv'
  <2>1. /\ UNCHANGED <<stored, collected, columns>> /\ bus \subseteq bus'
        /\ m \in bus'
    BY <1>6 DEF Acknowledged, Answered
  <2>2. /\ publisher' \in [Publishers -> PassKind]
        /\ publisher'[p].pc = "acked" /\ publisher'[p].msg = m
        /\ \A q \in Publishers \ {p} : publisher'[q] = publisher[q]
    <3>1. publisher \in [Publishers -> PassKind]
      BY DEF Inv, Kinds
    <3>2. publisher' = [publisher EXCEPT ![p] = [publisher[p] EXCEPT !.pc = "acked", !.msg = m]]
      BY <1>6, <3>1 DEF Acknowledged, Answered
    <3> QED BY <3>1, <3>2 DEF PassKind
  <2>3. Kinds' /\ DeadIsExhausted' /\ NothingIsLost'
    BY <2>1, <2>2 DEF Inv, Kinds, columns, DeadIsExhausted, NothingIsLost
  <2>4. AckMeansStored' /\ AnswerHasMessage'
    BY <2>1, <2>2 DEF Inv, AckMeansStored, AnswerHasMessage
  <2> QED BY <2>3, <2>4 DEF Inv
<1>7. ASSUME NEW p \in Publishers, NEW m \in Msgs, Refused(p, m) PROVE Inv'
  <2>1. /\ UNCHANGED <<stored, collected, columns>> /\ bus \subseteq bus'
    BY <1>7 DEF Refused, Answered
  <2>2. /\ publisher' \in [Publishers -> PassKind]
        /\ publisher'[p].pc = "failed" /\ publisher'[p].msg = m
        /\ \A q \in Publishers \ {p} : publisher'[q] = publisher[q]
    <3>1. publisher \in [Publishers -> PassKind]
      BY DEF Inv, Kinds
    <3>2. publisher' = [publisher EXCEPT ![p] = [publisher[p] EXCEPT !.pc = "failed", !.msg = m]]
      BY <1>7, <3>1 DEF Refused, Answered
    <3> QED BY <3>1, <3>2 DEF PassKind
  <2>3. Kinds' /\ DeadIsExhausted' /\ NothingIsLost'
    BY <2>1, <2>2 DEF Inv, Kinds, columns, DeadIsExhausted, NothingIsLost
  <2>4. AckMeansStored' /\ AnswerHasMessage'
    BY <2>1, <2>2 DEF Inv, AckMeansStored, AnswerHasMessage
  <2> QED BY <2>3, <2>4 DEF Inv
<1>8. ASSUME NEW p \in Publishers, Marked(p), Inv
      PROVE  /\ publisher' \in [Publishers -> PassKind]
             /\ publisher'[p].pc \notin {"acked", "failed"}
             /\ \A q \in Publishers \ {p} : publisher'[q] = publisher[q]
  <2> DEFINE rest == publisher[p].held \ {publisher[p].msg}
             next == IF rest = {} THEN Idle
                     ELSE [publisher[p] EXCEPT !.pc = "send", !.held = rest, !.msg = NoMessage]
  <2>1. publisher \in [Publishers -> PassKind]
    BY <1>8 DEF Inv, Kinds
  <2>2. publisher' = [publisher EXCEPT ![p] = next]
    BY <1>8, <2>1 DEF Marked
  <2>3. publisher[p] \in PassKind
    BY <2>1
  <2>4. next \in PassKind /\ next.pc \notin {"acked", "failed"}
    <3>1. CASE rest = {}
      BY <3>1, IdleKind DEF Idle
    <3>2. CASE rest # {}
      BY <3>2, <2>3 DEF PassKind
    <3> QED
      BY <3>1, <3>2
  <2> HIDE DEF next
  <2> QED
    BY <2>1, <2>2, <2>4
<1>9. ASSUME NEW p \in Publishers, MarkPublished(p) PROVE Inv'
  <2> DEFINE m == publisher[p].msg
  <2>1. m \in Msgs /\ m \in bus
    BY <1>9 DEF MarkPublished, Inv, AckMeansStored
  <2>2. Marked(p) /\ UNCHANGED <<stored, collected, attempts, dead, bus>>
    BY <1>9 DEF MarkPublished
  <2>3. /\ published' \in [Msgs -> BOOLEAN]
        /\ \A n \in Msgs : published'[n] => published[n] \/ (n = m /\ n \in bus /\ ~ (n \in stored /\ dead[n]))
    BY <1>9, <2>1 DEF MarkPublished, CheckRefuses, Inv, Kinds
  <2> QED
    BY <1>8, <2>2, <2>3 DEF Inv, Kinds, AckMeansStored, AnswerHasMessage, NothingIsLost,
                            DeadIsExhausted
<1>10. ASSUME NEW p \in Publishers, MarkFailed(p) PROVE Inv'
  <2> DEFINE m == publisher[p].msg
  <2>1. m \in Msgs
    BY <1>10 DEF MarkFailed, Inv, AnswerHasMessage
  <2>2. Marked(p) /\ UNCHANGED <<stored, collected, published, bus>>
    BY <1>10 DEF MarkFailed
  <2>3. /\ attempts' \in [Msgs -> Nat]
        /\ dead' \in [Msgs -> BOOLEAN]
        /\ \A n \in Msgs : dead'[n] => attempts'[n] >= MaxAttempts /\ n \in stored /\ ~ published[n]
    <3>1. CASE m \in stored
      <4>1. /\ attempts' = [attempts EXCEPT ![m] = @ + 1]
            /\ dead' = [dead EXCEPT ![m] = Exhausted(attempts[m])]
            /\ ~ (published[m] /\ Exhausted(attempts[m]))
        BY <1>10, <3>1 DEF MarkFailed, CheckRefuses
      <4> HIDE DEF m
      <4> QED
        BY <2>1, <3>1, <4>1 DEF Exhausted, Inv, Kinds, DeadIsExhausted
    <3>2. CASE m \notin stored
      BY <1>10, <3>2 DEF MarkFailed, Inv, Kinds, DeadIsExhausted
    <3> QED
      BY <3>1, <3>2
  <2> QED
    BY <1>8, <2>2, <2>3 DEF Inv, Kinds, AckMeansStored, AnswerHasMessage, NothingIsLost,
                            DeadIsExhausted
<1>11. CASE UNCHANGED vars
  BY <1>11 DEF vars, columns, Inv, Kinds, PassKind, AckMeansStored, AnswerHasMessage, NothingIsLost,
               DeadIsExhausted
<1> QED
  BY <1>1, <1>2, <1>3, <1>4, <1>5, <1>6, <1>7, <1>9, <1>10, <1>11 DEF Next

\* However many publishers overlap and however answers are lost, a row marked
\* published, or swept, is a message that the broker stored: the outbox never
\* takes `sent' for `stored' (publisher.rs, outbox.rs `mark_published').
THEOREM NothingIsEverLost == Spec => []NothingIsLost
<1>1. Init => Inv
  BY InitInv
<1>2. Inv /\ [Next]_vars => Inv'
  BY StepInv
<1>3. Inv => NothingIsLost
  BY DEF Inv
<1> QED
  BY <1>1, <1>2, <1>3, PTL DEF Spec

\* `mark_failed' assigns dead_lettered_at whatever the row was, yet no step of
\* any publisher or sweep takes a message out of the dead letters, because the
\* attempts of a dead row can only grow (outbox.rs `mark_failed').
THEOREM DeadLetterAlwaysStays == Spec => DeadLetterStays
<1> DEFINE Stays == \A m \in Msgs : dead[m] => dead'[m] /\ m \in stored' /\ ~ published'[m]
<1>1. ASSUME Inv, Inv', [Next]_vars PROVE Stays
  <2> USE OutboxAssumption
  <2> SUFFICES ASSUME NEW m \in Msgs, dead[m] PROVE dead'[m]
    BY <1>1 DEF Inv, DeadIsExhausted
  <2>1. ASSUME NEW p \in Publishers, MarkFailed(p) PROVE dead'[m]
    BY <1>1, <2>1 DEF MarkFailed, Exhausted, Inv, Kinds, DeadIsExhausted, AnswerHasMessage
  <2>2. ASSUME NEW p \in Publishers, ~ MarkFailed(p),
               \/ Claim(p) \/ MarkPublished(p) \/ EndPass(p)
               \/ \E n \in Msgs : Acknowledged(p, n) \/ Refused(p, n)
        PROVE dead' = dead
    BY <2>2 DEF Claim, MarkPublished, EndPass, Acknowledged, Refused, Answered, columns
  <2>3. ASSUME Tick \/ \E n \in Msgs : Enqueue(n) \/ Collect(n) PROVE dead' = dead
    BY <2>3 DEF Tick, Enqueue, Collect, columns
  <2>4. ASSUME UNCHANGED vars PROVE dead' = dead
    BY <2>4 DEF vars, columns
  <2> QED
    BY <1>1, <2>1, <2>2, <2>3, <2>4 DEF Next
<1>2. Inv /\ Inv' /\ [Next]_vars => [Stays]_vars
  BY <1>1
<1> QED
  BY <1>2, InitInv, StepInv, PTL DEF Spec, DeadLetterStays

-----------------------------------------------------------------------------
(* The instants, which are distances from the present.                     *)

Distances ==
  /\ wait \in [Msgs -> -Longest..MaxBackoff]
  /\ lease \in [Msgs -> Null..Lease]
  /\ bus \subseteq Msgs

LEMMA SinceBounded ==
  ASSUME NEW n \in Int, NEW high \in Nat, n <= high
  PROVE  Since(n) \in -Longest..high
BY OutboxAssumption DEF Since

LEMMA BackoffBounded ==
  ASSUME NEW n \in Nat
  PROVE  Backoff(n) \in Int /\ Backoff(n) <= MaxBackoff
<1>1. 2^n \in Int
  OBVIOUS
<1> QED
  BY <1>1, OutboxAssumption DEF Backoff

LEMMA DistancesInductive == Inv /\ Distances /\ [Next]_vars => Distances'
<1> SUFFICES ASSUME Inv, Distances, [Next]_vars PROVE Distances'
  OBVIOUS
<1> USE OutboxAssumption DEF Distances
<1>1. CASE Tick
  <2>1. ASSUME NEW m \in Msgs PROVE wait'[m] \in -Longest..MaxBackoff
    <3>1. wait[m] - 1 \in Int /\ wait[m] - 1 <= MaxBackoff
      OBVIOUS
    <3>2. Since(wait[m] - 1) \in -Longest..MaxBackoff
      BY <3>1, SinceBounded
    <3> QED
      BY <1>1, <3>2 DEF Tick
  <2>2. ASSUME NEW m \in Msgs PROVE lease'[m] \in Null..Lease
    <3>1. lease[m] - 1 \in Int /\ lease[m] - 1 <= Lease
      BY DEF Null
    <3>2. Since(lease[m] - 1) \in -Longest..Lease
      BY <3>1, SinceBounded
    <3>3. Since(lease[m] - 1) \in Null..Lease /\ Null \in Null..Lease
      BY <3>2 DEF Null
    <3> QED
      BY <1>1, <3>3 DEF Tick
  <2> QED
    BY <1>1, <2>1, <2>2 DEF Tick
<1>2. ASSUME NEW m \in Msgs, Enqueue(m) \/ Collect(m) PROVE Distances'
  BY <1>2 DEF Enqueue, Collect, columns
<1>3. ASSUME NEW p \in Publishers, Claim(p) PROVE Distances'
  <2>1. PICK age \in 0..Longest, taken \in SUBSET Msgs :
          lease' = [m \in Msgs |-> IF m \in taken THEN Since(Lease - age) ELSE lease[m]]
    BY <1>3 DEF Claim
  <2>2. Lease - age \in Int /\ Lease - age <= Lease
    OBVIOUS
  <2>3. Since(Lease - age) \in -Longest..Lease
    BY <2>2, SinceBounded
  <2>4. Since(Lease - age) \in Null..Lease
    BY <2>3 DEF Null
  <2> QED
    BY <1>3, <2>1, <2>4 DEF Claim
<1>4. ASSUME NEW p \in Publishers, NEW m \in Msgs, Acknowledged(p, m) \/ Refused(p, m)
      PROVE  Distances'
  BY <1>4 DEF Acknowledged, Refused, Answered, columns
<1>5. ASSUME NEW p \in Publishers, EndPass(p) PROVE Distances'
  BY <1>5 DEF EndPass, columns
<1>6. Null \in Null..Lease
  BY DEF Null
<1>7. ASSUME NEW p \in Publishers, MarkPublished(p) PROVE Distances'
  BY <1>6, <1>7 DEF MarkPublished
<1>8. ASSUME NEW p \in Publishers, MarkFailed(p) PROVE Distances'
  <2> DEFINE m == publisher[p].msg
             n == Backoff(attempts[m]) - publisher[p].age
  <2>1. m \in Msgs
    BY <1>8 DEF MarkFailed, Inv, AnswerHasMessage
  <2>2. attempts[m] \in Nat
    BY <2>1 DEF Inv, Kinds
  <2>3. publisher[p].age \in 0..Longest
    BY DEF Inv, Kinds, PassKind
  <2>4. n \in Int /\ n <= MaxBackoff
    BY <2>2, <2>3, BackoffBounded
  <2>5. Since(n) \in -Longest..MaxBackoff
    BY <2>4, SinceBounded
  <2>6. /\ bus' = bus
        /\ \/ UNCHANGED <<wait, lease>>
           \/ /\ wait' = [wait EXCEPT ![m] = Since(n)]
              /\ lease' = [lease EXCEPT ![m] = Null]
    BY <1>8 DEF MarkFailed
  <2> HIDE DEF n, m
  <2> QED
    BY <1>6, <2>5, <2>6
<1>9. CASE UNCHANGED vars
  BY <1>9 DEF vars, columns
<1> QED
  BY <1>1, <1>2, <1>3, <1>4, <1>5, <1>7, <1>8, <1>9 DEF Next

\* Columns and passes keep values of their kind; an instant never leaves the
\* range that leases and backoffs give it (outbox.rs, schema.sql outbox).
THEOREM TypeCorrect == Spec => []TypeOK
<1>1. Init => Inv /\ Distances
  <2>1. Init => Distances
    BY OutboxAssumption DEF Init, Distances, Null
  <2> QED
    BY <2>1, InitInv
<1>2. Inv /\ Distances /\ [Next]_vars => (Inv /\ Distances)'
  BY StepInv, DistancesInductive
<1>3. Inv /\ Distances => TypeOK
  BY DEF Inv, Kinds, PassKind, Distances, TypeOK
<1> QED
  BY <1>1, <1>2, <1>3, PTL DEF Spec

-----------------------------------------------------------------------------
(* Numbers in order                                                        *)

LEMMA SmallestNumber ==
    ASSUME NEW S \in SUBSET Nat, S # {}
    PROVE  \E n \in S : \A k \in S : n <= k
  <1> DEFINE below == OpToRel(<, Nat)
  <1>1. IsWellFoundedOn(below, Nat)
    BY NatLessThanWellFounded
  <1>2. \A j, k \in Nat : j < k => <<j, k>> \in below
    BY DEF OpToRel
  <1> HIDE DEF below
  <1>3. PICK n \in S : \A k \in S : ~ (<<k, n>> \in below)
    BY <1>1, WFMin
  <1>4. \A k \in S : ~(k < n)
    BY <1>2, <1>3
  <1> QED BY <1>3, <1>4

Smaller(S, n) == {k \in S : k < n}
Ranked(S, i) == {n \in S : Cardinality(Smaller(S, n)) = i - 1}

LEMMA InOrderByRank ==
    ASSUME NEW S
    PROVE  InOrder(S) = [i \in 1..Cardinality(S) |-> CHOOSE n : n \in Ranked(S, i)]
  BY DEF InOrder, Ranked, Smaller

LEMMA InOrderIsList ==
    ASSUME NEW S, IsFiniteSet(S)
    PROVE  /\ \E T : InOrder(S) \in Seq(T)
           /\ Len(InOrder(S)) = Cardinality(S)
           /\ InOrder(S) = <<>> <=> S = {}
  <1> DEFINE n == Cardinality(S)
             T == {InOrder(S)[i] : i \in 1..n}
  <1>1. n \in Nat
    BY FS_CardinalityType
  <1>2. InOrder(S) = [i \in 1..n |-> CHOOSE k : k \in Ranked(S, i)]
    BY InOrderByRank
  <1>3. DOMAIN InOrder(S) = 1..n /\ InOrder(S) \in [1..n -> T]
    <2>1. \A i \in 1..n : InOrder(S)[i] \in T
      OBVIOUS
    <2> HIDE DEF T, n
    <2> QED BY <1>2, <2>1
  <1> HIDE DEF n, T
  <1>4. InOrder(S) \in Seq(T)
    BY <1>1, <1>3
  <1>5. Len(InOrder(S)) = n
    BY <1>1, <1>3, <1>4
  <1>6. InOrder(S) = <<>> <=> n = 0
    BY <1>1, <1>4, <1>5
  <1>7. n = 0 <=> S = {}
    BY FS_EmptySet DEF n
  <1> QED BY <1>4, <1>5, <1>6, <1>7 DEF n, T

(* The first of them is the least, and what follows are the others.        *)
LEMMA InOrderGoesOn ==
    ASSUME NEW S \in SUBSET Nat, IsFiniteSet(S), NEW m \in S, \A k \in S : m <= k
    PROVE  InOrder(S) # <<>> /\ Head(InOrder(S)) = m /\ Tail(InOrder(S)) = InOrder(S \ {m})
  <1> DEFINE n == Cardinality(S)
             R == S \ {m}
             later == Tail(InOrder(S))
  <1>1. n \in Nat /\ n > 0 /\ IsFiniteSet(R) /\ Cardinality(R) = n - 1
    <2>1. n \in Nat /\ IsFiniteSet(R) /\ Cardinality(R) = n - 1
      BY FS_CardinalityType, FS_RemoveElement
    <2>2. n # 0
      BY FS_EmptySet
    <2> QED BY <2>1, <2>2
  <1>2. \A k \in S : IsFiniteSet(Smaller(S, k))
    BY FS_Subset DEF Smaller
  <1>3. Cardinality(Smaller(S, m)) = 0
    <2>0. m \in Nat /\ \A k \in S : k \in Nat /\ ~(k < m)
      OBVIOUS
    <2>1. Smaller(S, m) = {}
      BY <2>0 DEF Smaller
    <2> QED BY <2>1, FS_EmptySet
  <1>4. \A k \in R : /\ m \in Smaller(S, k) /\ Smaller(R, k) = Smaller(S, k) \ {m}
    BY DEF Smaller
  <1>5. \A k \in R : /\ Cardinality(Smaller(S, k)) \in Nat
                     /\ Cardinality(Smaller(S, k)) # 0
                     /\ Cardinality(Smaller(R, k)) = Cardinality(Smaller(S, k)) - 1
    BY <1>2, <1>4, FS_RemoveElement, FS_CardinalityType, FS_EmptySet
  <1>6. Ranked(S, 1) = {m}
    <2>1. \A k \in S : Cardinality(Smaller(S, k)) = 1 - 1 <=> k = m
      BY <1>3, <1>5
    <2> QED BY <2>1 DEF Ranked
  <1>7. ASSUME NEW i \in Nat, i > 0
        PROVE  Ranked(S, i + 1) = Ranked(R, i)
    <2>1. m \notin Ranked(S, i + 1) /\ m \notin Ranked(R, i)
      BY <1>3, <1>7 DEF Ranked
    <2>2. \A k \in R : k \in Ranked(S, i + 1) <=> k \in Ranked(R, i)
      BY <1>5, <1>7 DEF Ranked
    <2> QED BY <2>1, <2>2 DEF Ranked
  <1>8. /\ \E T : InOrder(S) \in Seq(T)
        /\ Len(InOrder(S)) = n /\ InOrder(S) # <<>>
    BY InOrderIsList
  <1>9. (\E T : InOrder(R) \in Seq(T)) /\ Len(InOrder(R)) = n - 1
    <2>1. (\E T : InOrder(R) \in Seq(T)) /\ Len(InOrder(R)) = Cardinality(R)
      BY <1>1, InOrderIsList
    <2> HIDE DEF R, n
    <2> QED BY <1>1, <2>1
  <1>10. \A i \in 1..n : InOrder(S)[i] = CHOOSE k : k \in Ranked(S, i)
    BY InOrderByRank
  <1>11. \A i \in 1..n - 1 : InOrder(R)[i] = CHOOSE k : k \in Ranked(R, i)
    BY <1>1, InOrderByRank
  <1>12. InOrder(S)[1] = m
    <2>1. InOrder(S)[1] = CHOOSE k : k \in {m}
      BY <1>1, <1>6, <1>10
    <2> QED BY <2>1
  <1> HIDE DEF n, R
  <1>13. \A i \in 1..n - 1 : InOrder(S)[i + 1] = InOrder(R)[i]
    <2> SUFFICES ASSUME NEW i \in 1..n - 1 PROVE InOrder(S)[i + 1] = InOrder(R)[i]
      OBVIOUS
    <2>1. i \in Nat /\ i > 0 /\ i + 1 \in 1..n
      BY <1>1
    <2> QED BY <1>7, <1>10, <1>11, <2>1
  <1>14. Head(InOrder(S)) = m
    BY <1>8, <1>12
  <1> DEFINE old == InOrder(S)
             new == InOrder(R)
  <1> HIDE DEF old, new
  <1>15. PICK A : old \in Seq(A)
    BY <1>8 DEF old
  <1>16. PICK B : new \in Seq(B)
    BY <1>9 DEF new
  <1>17. /\ old # <<>> /\ Len(old) = n /\ Len(new) = n - 1
         /\ \A i \in 1..n - 1 : old[i + 1] = new[i]
    BY <1>8, <1>9, <1>13 DEF old, new
  <1>18. Tail(old) = new
    BY <1>1, <1>15, <1>16, <1>17
  <1> QED BY <1>8, <1>14, <1>18 DEF old, new, R

-----------------------------------------------------------------------------
(* Applied once                                                            *)

BusRow == [state: {"unsent", "ready", "held", "acked", "gone"}, at: Nat]
Delivery == [phase: {"idle", "begun", "committed", "settled"},
             message: Messages \cup {NoEvent}]

(* A message that the bus may still deliver is not older than the inbox    *)
(* remembers, so that its record, made after it was published, is there.   *)
Remembered(m) ==
    /\ stream[m].at <= now
    /\ stream[m].state = "unsent" => applied[m] = 0 /\ inbox[m] = Never
    /\ stream[m].state \in {"ready", "held"} =>
         /\ now <= stream[m].at + StreamAge
         /\ applied[m] = 0 \/ inbox[m] # Never
    /\ inbox[m] # Never => stream[m].at <= inbox[m]

BusTyped ==
    /\ now \in 0..MaxClock
    /\ stream \in [Messages -> BusRow]
    /\ inbox \in [Messages -> Nat]
    /\ applied \in [Messages -> 0..1]
    /\ consumer \in Delivery
    /\ consumer.phase = "idle" \/ consumer.message \in Messages
    /\ consumer.phase = "begun" => stream[consumer.message].state = "held"

OnceInv == BusTyped /\ \A m \in Messages : Remembered(m)

LEMMA Bounds ==
    /\ StreamAge \in Nat /\ InboxAge \in Nat /\ InboxAge >= StreamAge
    /\ MaxClock \in Nat /\ Never = MaxClock + 1 /\ Never \in Nat
    /\ Messages \subseteq Nat /\ NoEvent \notin Messages
    /\ MaxRestarts \in Nat /\ WindowAge \in Nat /\ WindowEvents \in Nat \ {0}
  BY SiteEventsAssumption DEF RetentionRule, Never, NoEvent

(* A delivery goes back to the bus, and nothing else changes there.        *)
LEMMA GivenBack ==
    ASSUME OnceInv, NEW m \in Messages
    PROVE  /\ Redelivered(m) \in BusRow /\ Redelivered(m).at = stream[m].at
           /\ Redelivered(m).state = "unsent" <=> stream[m].state = "unsent"
           /\ Redelivered(m).state \in {"ready", "held"}
                <=> stream[m].state \in {"ready", "held"}
  <1>1. stream[m] \in BusRow
    BY DEF OnceInv, BusTyped
  <1> QED BY <1>1 DEF Redelivered, BusRow

(* The message in hand, and the row that its delivery writes.              *)
LEMMA InHand ==
    ASSUME OnceInv, consumer.phase = "begun"
    PROVE  Hand \in Messages /\ stream[Hand].state = "held" /\ stream[Hand] \in BusRow
  BY DEF OnceInv, BusTyped, Hand

LEMMA OnceAtFirst == SiteInit => OnceInv
  <1> SUFFICES ASSUME SiteInit PROVE OnceInv
    OBVIOUS
  <1>1. \A m \in Messages : /\ stream[m] = [state |-> "unsent", at |-> 0]
                            /\ inbox[m] = Never /\ applied[m] = 0
    BY DEF SiteInit
  <1>2. BusTyped
    BY Bounds DEF SiteInit, BusTyped, BusRow, Delivery, Nothing
  <1>3. \A m \in Messages : Remembered(m)
    BY <1>1, Bounds DEF Remembered, SiteInit
  <1> QED BY <1>2, <1>3 DEF OnceInv

(* A step that takes the message in hand off it keeps what is known.       *)
LEMMA HandsBack ==
    ASSUME OnceInv, NEW m \in Messages, UNCHANGED <<now, inbox, applied>>,
           NEW row \in BusRow, row.at = stream[m].at,
           row.state = "unsent" <=> stream[m].state = "unsent",
           row.state \in {"ready", "held"} => stream[m].state \in {"ready", "held"},
           stream' = [stream EXCEPT ![m] = row],
           consumer' \in Delivery, consumer'.phase = "idle" \/ consumer'.message \in Messages,
           consumer'.phase = "begun" => consumer'.message = m /\ row.state = "held"
    PROVE  OnceInv'
  <1> USE DEF OnceInv
  <1>1. stream \in [Messages -> BusRow]
    BY DEF BusTyped
  <1>2. /\ stream'[m] = row /\ stream' \in [Messages -> BusRow]
        /\ \A k \in Messages : k # m => stream'[k] = stream[k]
    BY <1>1
  <1>3. BusTyped'
    BY <1>2 DEF BusTyped
  <1>4. ASSUME NEW k \in Messages
        PROVE  Remembered(k)'
    <2>1. CASE k = m
      BY <1>2, <2>1 DEF Remembered
    <2>2. CASE k # m
      BY <1>2, <2>2 DEF Remembered
    <2> QED BY <2>1, <2>2
  <1> QED BY <1>3, <1>4

(* A commit, heard or not: the record is written when the event is applied.*)
LEMMA WritesRecord ==
    ASSUME OnceInv, consumer.phase = "begun", inbox[Hand] = Never, Applies, UNCHANGED now,
           NEW row \in BusRow, row.at = stream[Hand].at, row.state \in {"ready", "held"},
           stream' = [stream EXCEPT ![Hand] = row],
           consumer' \in Delivery, consumer'.phase = "idle" \/ consumer'.message \in Messages,
           consumer'.phase # "begun"
    PROVE  OnceInv'
  <1> USE DEF OnceInv
  <1>1. Hand \in Messages /\ stream[Hand].state = "held"
    BY InHand
  <1>2. /\ stream \in [Messages -> BusRow] /\ inbox \in [Messages -> Nat]
        /\ applied \in [Messages -> 0..1] /\ now \in 0..MaxClock
    BY DEF BusTyped
  <1>3. applied[Hand] = 0 /\ Remembered(Hand)
    BY <1>1 DEF Remembered
  <1>4. /\ stream'[Hand] = row /\ stream' \in [Messages -> BusRow]
        /\ inbox'[Hand] = now /\ inbox' \in [Messages -> Nat]
        /\ applied'[Hand] = 1 /\ applied' \in [Messages -> 0..1]
    BY <1>1, <1>2, <1>3 DEF Applies
  <1>5. \A k \in Messages : k # Hand => /\ stream'[k] = stream[k] /\ inbox'[k] = inbox[k]
                                        /\ applied'[k] = applied[k]
    BY <1>1, <1>2 DEF Applies
  <1>6. BusTyped'
    BY <1>4 DEF BusTyped
  <1>7. now # Never
    BY <1>2, Bounds
  <1>8. ASSUME NEW k \in Messages
        PROVE  Remembered(k)'
    <2>1. CASE k = Hand
      BY <1>1, <1>3, <1>4, <1>7, <2>1 DEF Remembered, Never
    <2>2. CASE k # Hand
      BY <1>5, <2>2 DEF Remembered, Never
    <2> QED BY <2>1, <2>2
  <1> QED BY <1>6, <1>8

(* The steps that touch no delivery.                                       *)
LEMMA OnceUndisturbed ==
    ASSUME OnceInv, UNCHANGED <<now, stream, inbox, applied>>,
           consumer' \in Delivery, consumer'.phase = "idle" \/ consumer'.message \in Messages,
           consumer'.phase = "begun" => consumer' = consumer
    PROVE  OnceInv'
  BY DEF OnceInv, BusTyped, Remembered, Never

LEMMA OnceNext ==
    ASSUME OnceInv, [SiteNext]_siteVars
    PROVE  OnceInv'
  <1> USE DEF OnceInv
  <1>0. /\ now \in 0..MaxClock /\ stream \in [Messages -> BusRow]
        /\ inbox \in [Messages -> Nat] /\ consumer \in Delivery
        /\ consumer.phase # "idle" => Hand \in Messages
    BY DEF BusTyped, Hand
  <1>i. Nothing \in Delivery /\ Nothing.phase = "idle"
    BY DEF Delivery, Nothing
  <1>1. ASSUME NEW m \in Messages, Publish(m)
        PROVE  OnceInv'
    <2>1. /\ stream'[m] = [state |-> "ready", at |-> now]
          /\ stream' \in [Messages -> BusRow]
          /\ \A k \in Messages : k # m => stream'[k] = stream[k]
          /\ UNCHANGED <<now, inbox, consumer, applied>>
      BY <1>0, <1>1 DEF Publish, BusRow
    <2>2. BusTyped'
      BY <1>1, <2>1 DEF BusTyped, Publish
    <2>3. Remembered(m)'
      BY <1>0, <1>1, <2>1, Bounds DEF Remembered, Publish, Never
    <2>4. \A k \in Messages : k # m => Remembered(k)'
      BY <2>1 DEF Remembered, Never
    <2> QED BY <2>2, <2>3, <2>4
  <1>2. ASSUME NEW m \in Messages, Receive(m)
        PROVE  OnceInv'
    <2> DEFINE row == [stream[m] EXCEPT !.state = "held"]
               hand == [phase |-> "begun", message |-> m]
    <2>1. /\ row \in BusRow /\ row.at = stream[m].at /\ row.state = "held"
          /\ stream[m].state = "ready"
      BY <1>0, <1>2 DEF BusRow, Receive
    <2>2. stream' = [stream EXCEPT ![m] = row] /\ UNCHANGED <<now, inbox, applied>>
      BY <1>2 DEF Receive
    <2>3. consumer' = hand /\ hand \in Delivery /\ hand.message = m
      BY <1>2 DEF Receive, Delivery
    <2> HIDE DEF row, hand
    <2> QED BY <2>1, <2>2, <2>3, HandsBack
  <1>3. CASE SiteTick
    <2>1. /\ now' = now + 1 /\ now' \in 0..MaxClock /\ consumer' = consumer
          /\ consumer.phase = "idle" /\ UNCHANGED <<inbox, applied>>
      BY <1>0, <1>3, Bounds DEF SiteTick, Nothing
    <2>2. ASSUME NEW k \in Messages
          PROVE  /\ stream'[k] \in BusRow /\ stream'[k].at = stream[k].at
                 /\ stream'[k].state = "unsent" => stream[k].state = "unsent"
                 /\ stream'[k].state \in {"ready", "held"} =>
                      /\ stream[k].state \in {"ready", "held"}
                      /\ now + 1 <= stream[k].at + StreamAge
      <3>1. stream'[k] = IF stream[k].state # "unsent" /\ now + 1 > stream[k].at + StreamAge
                         THEN [stream[k] EXCEPT !.state = "gone"] ELSE stream[k]
        BY <1>3 DEF SiteTick
      <3>2. stream[k] \in BusRow
        BY <1>0
      <3>3. CASE stream[k].state # "unsent" /\ now + 1 > stream[k].at + StreamAge
        BY <3>1, <3>2, <3>3 DEF BusRow
      <3>4. CASE ~(stream[k].state # "unsent" /\ now + 1 > stream[k].at + StreamAge)
        BY <1>0, <3>1, <3>2, <3>4, Bounds DEF BusRow
      <3> QED BY <3>3, <3>4
    <2>3. stream' \in [Messages -> BusRow]
      <3>1. stream' = [k \in Messages |-> stream'[k]]
        BY <1>3 DEF SiteTick
      <3> QED BY <2>2, <3>1
    <2>4. BusTyped'
      BY <2>1, <2>3 DEF BusTyped
    <2>5. ASSUME NEW k \in Messages
          PROVE  Remembered(k)'
      <3>1. stream[k].at \in Nat /\ stream[k].at <= now
        BY <1>0 DEF BusRow, Remembered
      <3> QED BY <1>0, <2>1, <2>2, <3>1 DEF Remembered, Never
    <2> QED BY <2>4, <2>5
  <1>4. CASE CollectInbox
    <2>1. UNCHANGED <<now, stream, consumer, applied>>
      BY <1>4 DEF CollectInbox
    <2>2. \A k \in Messages : inbox'[k] = IF Forgotten(k) THEN Never ELSE inbox[k]
      BY <1>4 DEF CollectInbox
    <2>3. inbox' \in [Messages -> Nat]
      <3>1. \A k \in Messages : (IF Forgotten(k) THEN Never ELSE inbox[k]) \in Nat
        BY <1>0, Bounds
      <3> QED BY <1>4, <3>1 DEF CollectInbox
    <2>4. BusTyped'
      BY <2>1, <2>3 DEF BusTyped
    <2>5. ASSUME NEW k \in Messages
          PROVE  Remembered(k)'
      <3>1. stream[k].at \in Nat /\ inbox[k] \in Nat /\ Remembered(k)
        BY <1>0 DEF BusRow
      <3>2. CASE Forgotten(k)
        <4>1. inbox[k] # Never /\ inbox[k] + InboxAge < now
          BY <3>2 DEF Forgotten
        <4>2. stream[k].at + StreamAge < now
          BY <1>0, <3>1, <4>1, Bounds DEF Remembered
        <4>3. stream[k].state \notin {"ready", "held"}
          BY <1>0, <3>1, <4>2, Bounds DEF Remembered
        <4>4. inbox'[k] = Never
          BY <2>2, <3>2
        <4> QED BY <2>1, <3>1, <4>3, <4>4 DEF Remembered, Never
      <3>3. CASE ~Forgotten(k)
        <4>1. inbox'[k] = inbox[k]
          BY <2>2, <3>3
        <4> QED BY <2>1, <3>1, <4>1 DEF Remembered, Never
      <3> QED BY <3>2, <3>3
    <2> QED BY <2>4, <2>5
  <1>5. CASE Duplicate
    <2>1. [consumer EXCEPT !.phase = "settled"] \in Delivery
      BY <1>0 DEF Delivery
    <2> QED BY <1>0, <1>5, <2>1, OnceUndisturbed DEF Duplicate, Delivery, Hand
  <1>6. CASE Commit
    <2> DEFINE row == stream[Hand]
               hand == [consumer EXCEPT !.phase = "committed"]
    <2>1. consumer.phase = "begun" /\ inbox[Hand] = Never /\ Applies /\ UNCHANGED <<now, stream>>
      BY <1>6 DEF Commit
    <2>2. row \in BusRow /\ row.state = "held" /\ stream' = [stream EXCEPT ![Hand] = row]
      BY <1>0, <2>1, InHand
    <2>3. /\ consumer' = hand /\ hand \in Delivery /\ hand.phase = "committed"
          /\ hand.message \in Messages
      BY <1>0, <1>6, <2>1 DEF Commit, Delivery, Hand
    <2> HIDE DEF row, hand
    <2> QED BY <2>1, <2>2, <2>3, WritesRecord DEF row
  <1>7. CASE RollBack
    <2>1. Hand \in Messages /\ UNCHANGED <<now, inbox, applied>> /\ consumer' = Nothing
      BY <1>0, <1>7, InHand DEF RollBack
    <2>2. stream' = [stream EXCEPT ![Hand] = Redelivered(Hand)]
      BY <1>7 DEF RollBack
    <2> QED BY <1>i, <2>1, <2>2, GivenBack, HandsBack
  <1>8. CASE CommitUnheard
    <2>1. /\ consumer.phase = "begun" /\ inbox[Hand] = Never /\ Applies /\ UNCHANGED now
          /\ stream' = [stream EXCEPT ![Hand] = Redelivered(Hand)] /\ consumer' = Nothing
      BY <1>8 DEF CommitUnheard
    <2>2. /\ Redelivered(Hand) \in BusRow /\ Redelivered(Hand).at = stream[Hand].at
          /\ Redelivered(Hand).state \in {"ready", "held"}
      BY <2>1, InHand, GivenBack
    <2> QED BY <1>i, <2>1, <2>2, WritesRecord
  <1>9. CASE Settle
    <2>1. [consumer EXCEPT !.phase = "settled"] \in Delivery
      BY <1>0 DEF Delivery
    <2> QED BY <1>0, <1>9, <2>1, OnceUndisturbed DEF Settle, Delivery, Hand
  <1>10. CASE Ack
    <2> DEFINE row == IF stream[Hand].state = "held"
                      THEN [stream[Hand] EXCEPT !.state = "acked"] ELSE stream[Hand]
    <2>1. Hand \in Messages /\ UNCHANGED <<now, inbox, applied>> /\ consumer' = Nothing
      BY <1>0, <1>10 DEF Ack
    <2>2. stream' = [stream EXCEPT ![Hand] = row]
      BY <1>10 DEF Ack
    <2>3. /\ row \in BusRow /\ row.at = stream[Hand].at
          /\ row.state = "unsent" <=> stream[Hand].state = "unsent"
          /\ row.state \in {"ready", "held"} => stream[Hand].state \in {"ready", "held"}
      BY <1>0, <2>1 DEF BusRow
    <2> HIDE DEF row
    <2> QED BY <1>i, <2>1, <2>2, <2>3, HandsBack
  <1>11. CASE AckLost
    <2>1. Hand \in Messages /\ UNCHANGED <<now, inbox, applied>> /\ consumer' = Nothing
      BY <1>0, <1>11 DEF AckLost
    <2>2. stream' = [stream EXCEPT ![Hand] = Redelivered(Hand)]
      BY <1>11 DEF AckLost
    <2> QED BY <1>i, <2>1, <2>2, GivenBack, HandsBack
  <1>12. CASE Restart
    <2>1. /\ \A k \in Messages : stream'[k] = Redelivered(k)
          /\ UNCHANGED <<now, inbox, applied>> /\ consumer' = Nothing
      BY <1>12 DEF Restart
    <2>2. stream' \in [Messages -> BusRow]
      BY <1>12, GivenBack DEF Restart
    <2>3. BusTyped'
      BY <1>i, <2>1, <2>2 DEF BusTyped
    <2>4. \A k \in Messages : Remembered(k)'
      BY <2>1, GivenBack DEF Remembered, Never
    <2> QED BY <2>3, <2>4
  <1>13. CASE \/ SessionEnds
              \/ \E c \in Clients : \/ \E owner \in BOOLEAN : Connect(c, owner)
                                   \/ Disconnect(c) \/ CheckDue(c) \/ ConnectionStep(c)
              \/ UNCHANGED siteVars
    <2>1. UNCHANGED <<now, stream, inbox, consumer, applied>>
      BY <1>13 DEF SessionEnds, Connect, Disconnect, CheckDue, ConnectionStep, Check, Send,
                   Fill, Wake, connected, bussed, siteVars
    <2> QED BY <1>0, <2>1, OnceUndisturbed DEF BusTyped
  <1> QED
    BY <1>1, <1>2, <1>3, <1>4, <1>5, <1>6, <1>7, <1>8, <1>9, <1>10, <1>11, <1>12, <1>13
       DEF SiteNext

(* However often and however late the bus delivers a message, whatever was *)
(* lost or rolled back and however often Edge restarts, it is applied once *)
(* (inbox.rs, begin and finish; the sweep under startup rule V17).         *)
THEOREM AlwaysAppliedOnce == SiteSpec => []AppliedOnce
  <1>1. OnceInv => AppliedOnce
    BY DEF OnceInv, BusTyped, AppliedOnce
  <1> QED BY <1>1, OnceAtFirst, OnceNext, PTL DEF SiteSpec

-----------------------------------------------------------------------------
(* No silent gap                                                           *)

LogRow == [sequence: Nat, message: Messages, at: Nat]

(* A window of the events up to number n: their sequences end there, one   *)
(* after the other.                                                        *)
IsWindow(w, n, messages) ==
    /\ w \in Seq(LogRow) /\ Len(w) <= n
    /\ \A i \in 1..Len(w) : /\ w[i].sequence = n - Len(w) + i
                            /\ w[i].message = messages[n - Len(w) + i]

HubTyped ==
    /\ epoch \in Nat /\ last \in Nat
    /\ appended \in Seq(Messages) /\ Len(appended) = last
    /\ IsWindow(log, last, appended)
    /\ last > 0 => Len(log) > 0

Queues == {Resync} \cup {InOrder(S) : S \in SUBSET Nat}
ConnRow == [open: BOOLEAN, owner: BOOLEAN, waits: BOOLEAN, cursor: Nat, pending: Queues,
            seen: Nat, due: BOOLEAN, id: {<<>>} \cup (Nat \X Nat), upto: Nat]

(* The events between what a client has and the cursor of its connection.  *)
Between(conn) ==
    {n \in conn.upto + 1..conn.cursor : conn.owner \/ Kind[appended[n]] = "release"}

(* The cursor and the id are of this epoch's events, or the id is older.   *)
Followed(conn) ==
    /\ conn.open => conn.cursor <= last
    /\ ~conn.open => conn.pending = <<>>
    /\ conn.id # <<>> =>
         /\ conn.id[1] <= epoch
         /\ conn.id[1] = epoch => conn.id[2] = conn.upto /\ conn.upto <= last
    /\ conn.open /\ conn.pending # Resync =>
         conn.upto <= conn.cursor /\ conn.pending = InOrder(Between(conn))

GapInv ==
    /\ OnceInv /\ HubTyped /\ conns \in [Clients -> ConnRow]
    /\ \A c \in Clients : Followed(conns[c])

LEMMA NothingInOrder == InOrder({}) = <<>> /\ <<>> \in Queues
  <1>1. InOrder({}) = <<>>
    BY InOrderIsList, FS_EmptySet
  <1>2. {} \in SUBSET Nat
    OBVIOUS
  <1> QED BY <1>1, <1>2 DEF Queues

LEMMA BetweenIsFinite ==
    ASSUME NEW conn \in ConnRow
    PROVE  Between(conn) \in SUBSET Nat /\ IsFiniteSet(Between(conn))
  <1>1. conn.upto \in Nat /\ conn.cursor \in Nat
    BY DEF ConnRow
  <1>2. Between(conn) \subseteq conn.upto + 1..conn.cursor
    BY DEF Between
  <1>3. IsFiniteSet(conn.upto + 1..conn.cursor)
    <2>1. conn.upto + 1 \in Int /\ conn.cursor \in Int
      BY <1>1
    <2> QED BY <2>1, FS_Interval
  <1> QED BY <1>1, <1>2, <1>3, FS_Subset

(* The window that is kept is a window.                                    *)
LEMMA KeptIsWindow ==
    ASSUME NEW n \in Nat, NEW messages, NEW w, IsWindow(w, n, messages), Len(w) > 0,
           w[Len(w)].at + WindowAge >= now
    PROVE  IsWindow(Kept(w), n, messages) /\ Len(Kept(w)) > 0
  <1> DEFINE size == Len(w)
             starts == {i \in 1..size : size - i < WindowEvents /\ w[i].at + WindowAge >= now}
             s == CHOOSE i \in starts : \A k \in starts : i <= k
  <1>1. size \in Nat /\ size > 0 /\ size <= n
    BY DEF IsWindow
  <1>2. size \in starts
    BY <1>1, Bounds
  <1>3. s \in starts
    <2>1. starts \in SUBSET Nat /\ starts # {}
      BY <1>2
    <2>2. \E i \in starts : \A k \in starts : i <= k
      BY <2>1, SmallestNumber
    <2> HIDE DEF starts
    <2> QED BY <2>2
  <1>4. Kept(w) = SubSeq(w, s, size)
    <2>1. starts # {}
      BY <1>2
    <2> QED BY <2>1 DEF Kept
  <1>5. s \in 1..size
    BY <1>3
  <1>6. /\ w \in Seq(LogRow)
        /\ \A i \in 1..size : /\ w[i] \in LogRow /\ w[i].sequence = n - size + i
                              /\ w[i].message = messages[n - size + i]
    BY DEF IsWindow
  <1> DEFINE kept == SubSeq(w, s, size)
  <1> HIDE DEF size, s, starts
  <1>7. /\ kept \in Seq(LogRow) /\ Len(kept) = size - s + 1
        /\ \A i \in 1..size - s + 1 : kept[i] = w[s + i - 1]
    <2>1. s \in Int /\ size \in Int /\ s <= size /\ \A i \in s..size : w[i] \in LogRow
      BY <1>1, <1>5, <1>6
    <2> QED BY <2>1, SubSeqProperties
  <1>8. ASSUME NEW i \in 1..size - s + 1
        PROVE  /\ kept[i].sequence = n - (size - s + 1) + i
               /\ kept[i].message = messages[n - (size - s + 1) + i]
    <2>1. s + i - 1 \in 1..size /\ n - size + (s + i - 1) = n - (size - s + 1) + i
      BY <1>1, <1>5
    <2> QED BY <1>6, <1>7, <2>1
  <1>9. size - s + 1 > 0 /\ size - s + 1 <= n
    BY <1>1, <1>5
  <1> HIDE DEF kept
  <1>10. IsWindow(kept, n, messages) /\ Len(kept) > 0
    BY <1>7, <1>8, <1>9 DEF IsWindow
  <1> QED BY <1>4, <1>10 DEF kept

(* One more event in the window.                                           *)
LEMMA WindowGrows ==
    ASSUME NEW n \in Nat, NEW messages \in Seq(Messages), Len(messages) = n, NEW w,
           IsWindow(w, n, messages), NEW m \in Messages, NEW at \in Nat
    PROVE  LET one == [sequence |-> n + 1, message |-> m, at |-> at] IN
           /\ IsWindow(Append(w, one), n + 1, Append(messages, m))
           /\ Len(Append(w, one)) > 0
           /\ Append(w, one)[Len(Append(w, one))].at = at
  <1> DEFINE one == [sequence |-> n + 1, message |-> m, at |-> at]
             size == Len(w)
             more == Append(w, one)
             all == Append(messages, m)
  <1>1. one \in LogRow /\ one.sequence = n + 1 /\ one.message = m /\ one.at = at
    BY DEF LogRow
  <1>2. w \in Seq(LogRow) /\ size \in Nat /\ size <= n
    BY DEF IsWindow
  <1> HIDE DEF one
  <1>3. /\ more \in Seq(LogRow) /\ Len(more) = size + 1 /\ more[size + 1] = one
        /\ \A i \in 1..size : more[i] = w[i]
    BY <1>1, <1>2
  <1>4. all[n + 1] = m /\ \A i \in 1..n : all[i] = messages[i]
    OBVIOUS
  <1>5. \A i \in 1..size : w[i].sequence = n - size + i /\ w[i].message = messages[n - size + i]
    BY DEF IsWindow
  <1> HIDE DEF more, all, size
  <1>6. ASSUME NEW i \in 1..size + 1
        PROVE  /\ more[i].sequence = n + 1 - (size + 1) + i
               /\ more[i].message = all[n + 1 - (size + 1) + i]
    <2>1. CASE i = size + 1
      <3>1. n + 1 - (size + 1) + i = n + 1
        BY <1>2, <2>1
      <3> QED BY <1>1, <1>3, <1>4, <2>1, <3>1
    <2>2. CASE i \in 1..size
      <3>1. n + 1 - (size + 1) + i = n - size + i /\ n - size + i \in 1..n
        BY <1>2, <2>2
      <3> QED BY <1>3, <1>4, <1>5, <2>2, <3>1
    <2> QED BY <1>2, <2>1, <2>2
  <1>7. size + 1 <= n + 1 /\ size + 1 > 0
    BY <1>2
  <1>8. IsWindow(more, n + 1, all)
    BY <1>3, <1>6, <1>7 DEF IsWindow
  <1>9. Len(more) > 0 /\ more[Len(more)].at = at
    BY <1>1, <1>2, <1>3
  <1> QED BY <1>8, <1>9 DEF more, all, one

LEMMA GapAtFirst == SiteInit => GapInv
  <1> SUFFICES ASSUME SiteInit PROVE GapInv
    OBVIOUS
  <1>1. HubTyped
    BY DEF SiteInit, HubTyped, IsWindow
  <1>2. Unused \in ConnRow /\ Followed(Unused)
    BY NothingInOrder DEF Unused, ConnRow, Followed
  <1>3. \A c \in Clients : conns[c] = Unused
    BY DEF SiteInit
  <1>4. conns \in [Clients -> ConnRow]
    BY <1>2 DEF SiteInit
  <1> QED BY <1>1, <1>2, <1>3, <1>4, OnceAtFirst DEF GapInv

(* A step of one connection.                                               *)
LEMMA OneConnection ==
    ASSUME GapInv, OnceInv', NEW c \in Clients, NEW row \in ConnRow, Followed(row),
           conns' = [conns EXCEPT ![c] = row], UNCHANGED connected
    PROVE  GapInv'
  <1>1. /\ conns \in [Clients -> ConnRow] /\ HubTyped
        /\ \A d \in Clients : Followed(conns[d])
    BY DEF GapInv
  <1>2. /\ conns' \in [Clients -> ConnRow] /\ conns'[c] = row
        /\ \A d \in Clients : d # c => conns'[d] = conns[d]
    BY <1>1
  <1>3. HubTyped'
    BY <1>1 DEF HubTyped, connected, IsWindow
  <1>4. ASSUME NEW d \in Clients
        PROVE  Followed(conns[d])'
    <2>1. Followed(conns'[d])
      BY <1>1, <1>2
    <2> QED BY <2>1 DEF Followed, Between, connected
  <1> QED BY <1>2, <1>3, <1>4 DEF GapInv

(* What is known of one connection and of the hub.                         *)
LEMMA OfConnection ==
    ASSUME GapInv, NEW c \in Clients
    PROVE  /\ conns[c] \in ConnRow /\ Followed(conns[c])
           /\ epoch \in Nat /\ last \in Nat
  BY DEF GapInv, HubTyped

LEMMA ConnectFollowed ==
    ASSUME GapInv, OnceInv', NEW c \in Clients, NEW owner \in BOOLEAN, Connect(c, owner)
    PROVE  GapInv'
  <1> DEFINE conn == conns[c]
             opened == [conn EXCEPT !.open = TRUE, !.owner = owner, !.seen = Version]
             fresh == [opened EXCEPT !.cursor = last, !.upto = last]
             known == [opened EXCEPT !.cursor = conn.id[2]]
             stale == [opened EXCEPT !.cursor = last, !.pending = Resync]
             row == IF conn.id = <<>> THEN fresh ELSE IF Known(conn.id) THEN known ELSE stale
  <1>1. /\ conn \in ConnRow /\ Followed(conn) /\ epoch \in Nat /\ last \in Nat
        /\ ~conn.open /\ conn.pending = <<>>
    BY OfConnection DEF Connect, Followed
  <1>2. conns' = [conns EXCEPT ![c] = row] /\ UNCHANGED connected
    BY DEF Connect
  <1> HIDE DEF conn
  <1>3. /\ opened \in ConnRow /\ opened.open /\ opened.pending = <<>>
        /\ opened.id = conn.id /\ opened.upto = conn.upto
    BY <1>1 DEF ConnRow, Version
  <1> HIDE DEF opened
  <1>4. CASE conn.id = <<>>
    <2>1. /\ fresh \in ConnRow /\ fresh.open /\ fresh.pending = <<>>
          /\ fresh.id = <<>> /\ fresh.upto = last /\ fresh.cursor = last
      BY <1>1, <1>3, <1>4 DEF ConnRow
    <2> HIDE DEF fresh
    <2>2. Between(fresh) = {}
      BY <1>1, <2>1 DEF Between
    <2>3. Followed(fresh)
      BY <1>1, <2>1, <2>2, NothingInOrder DEF Followed
    <2>4. row = fresh
      BY <1>4
    <2> HIDE DEF row
    <2> QED BY <1>2, <2>1, <2>3, <2>4, OneConnection
  <1>5. CASE conn.id # <<>> /\ Known(conn.id)
    <2>1. /\ conn.id \in Nat \X Nat /\ conn.id[1] = epoch /\ conn.id[2] <= last
          /\ conn.id[2] = conn.upto /\ conn.id[2] \in Nat
      BY <1>1, <1>5 DEF ConnRow, Known, Followed
    <2>2. /\ known \in ConnRow /\ known.open /\ known.pending = <<>>
          /\ known.id = conn.id /\ known.upto = conn.upto /\ known.cursor = conn.upto
      BY <1>3, <2>1 DEF ConnRow
    <2> HIDE DEF known
    <2>3. conn.upto \in Nat
      BY <2>1
    <2>4. Between(known) = {}
      BY <2>2, <2>3 DEF Between
    <2>5. Followed(known)
      BY <1>1, <2>1, <2>2, <2>4, NothingInOrder DEF Followed
    <2>6. row = known
      BY <1>5
    <2> HIDE DEF row
    <2> QED BY <1>2, <2>2, <2>5, <2>6, OneConnection
  <1>6. CASE conn.id # <<>> /\ ~Known(conn.id)
    <2>1. /\ stale \in ConnRow /\ stale.open /\ stale.pending = Resync
          /\ stale.id = conn.id /\ stale.upto = conn.upto /\ stale.cursor = last
      BY <1>1, <1>3 DEF ConnRow, Queues
    <2> HIDE DEF stale
    <2>2. Followed(stale)
      BY <1>1, <2>1 DEF Followed
    <2>3. row = stale
      BY <1>6
    <2> HIDE DEF row
    <2> QED BY <1>2, <2>1, <2>2, <2>3, OneConnection
  <1> QED BY <1>4, <1>5, <1>6

LEMMA ClosedFollowed ==
    ASSUME NEW conn \in ConnRow, Followed(conn)
    PROVE  Closed(conn) \in ConnRow /\ Followed(Closed(conn))
  <1> DEFINE row == Closed(conn)
  <1>1. /\ row \in ConnRow /\ ~row.open /\ row.pending = <<>>
        /\ row.id = conn.id /\ row.upto = conn.upto
    BY NothingInOrder DEF Closed, ConnRow
  <1> HIDE DEF row
  <1>2. Followed(row)
    BY <1>1 DEF Followed
  <1> QED BY <1>1, <1>2 DEF row

(* What only a wait or a check changes.                                    *)
LEMMA WaitsFollowed ==
    ASSUME NEW conn \in ConnRow, Followed(conn), NEW row \in ConnRow,
           row.open = conn.open, row.owner = conn.owner, row.cursor = conn.cursor,
           row.pending = conn.pending, row.id = conn.id, row.upto = conn.upto
    PROVE  Followed(row)
  BY DEF Followed, Between

LEMMA SendFollowed ==
    ASSUME GapInv, OnceInv', NEW c \in Clients, Send(c)
    PROVE  GapInv'
  <1> DEFINE conn == conns[c]
             sequence == IF conn.pending = Resync THEN conn.cursor ELSE Head(conn.pending)
             row == [[conn EXCEPT !.pending = Tail(@)] EXCEPT !.id = <<epoch, sequence>>,
                                                            !.upto = sequence]
  <1>1. /\ conn \in ConnRow /\ Followed(conn) /\ epoch \in Nat /\ last \in Nat
        /\ conn.open /\ conn.pending # <<>>
    BY OfConnection DEF Send, Runs
  <1>2. conns' = [conns EXCEPT ![c] = row] /\ UNCHANGED connected
    BY DEF Send
  <1> HIDE DEF conn
  <1>3. conn.upto \in Nat /\ conn.cursor \in Nat /\ conn.cursor <= last
    BY <1>1 DEF ConnRow, Followed
  <1>4. /\ sequence \in Nat /\ sequence <= conn.cursor /\ Tail(conn.pending) \in Queues
        /\ Tail(conn.pending) = InOrder({n \in sequence + 1..conn.cursor :
                                           conn.owner \/ Kind[appended[n]] = "release"})
    <2>1. CASE conn.pending = Resync
      <3>1. sequence = conn.cursor /\ Tail(conn.pending) = <<>>
        BY <2>1 DEF Resync
      <3>2. {n \in sequence + 1..conn.cursor : conn.owner \/ Kind[appended[n]] = "release"} = {}
        BY <1>3, <3>1
      <3>3. InOrder({n \in sequence + 1..conn.cursor :
                       conn.owner \/ Kind[appended[n]] = "release"}) = InOrder({})
        BY <3>2
      <3> HIDE DEF sequence
      <3>4. sequence \in Nat /\ sequence <= conn.cursor
        BY <1>3, <3>1
      <3> QED BY <3>1, <3>3, <3>4, NothingInOrder
    <2>2. CASE conn.pending # Resync
      <3> DEFINE S == Between(conn)
      <3>1. conn.pending = InOrder(S)
        BY <1>1, <2>2 DEF Followed
      <3>2. S \in SUBSET Nat /\ IsFiniteSet(S)
        BY <1>1, BetweenIsFinite
      <3>3. S # {}
        BY <1>1, <3>1, <3>2, InOrderIsList
      <3> HIDE DEF S
      <3>4. PICK m \in S : \A k \in S : m <= k
        BY <3>2, <3>3, SmallestNumber
      <3>5. Head(conn.pending) = m /\ Tail(conn.pending) = InOrder(S \ {m})
        BY <3>1, <3>2, <3>4, InOrderGoesOn
      <3>6. sequence = m
        BY <2>2, <3>5
      <3> HIDE DEF sequence
      <3>7. m \in Nat /\ conn.upto + 1 <= m /\ m <= conn.cursor
        BY <1>3, <3>2, <3>4 DEF S, Between
      <3>8. S \ {m} = {n \in sequence + 1..conn.cursor :
                         conn.owner \/ Kind[appended[n]] = "release"}
        <4>1. ASSUME NEW n \in S \ {m}
              PROVE  n \in sequence + 1..conn.cursor
          <5>1. m <= n /\ n # m /\ n \in Nat /\ n <= conn.cursor
            BY <1>3, <3>2, <3>4, <4>1 DEF S, Between
          <5> QED BY <1>3, <3>6, <3>7, <5>1
        <4>2. ASSUME NEW n \in sequence + 1..conn.cursor
              PROVE  n \in conn.upto + 1..conn.cursor /\ n # m
          BY <1>3, <3>6, <3>7, <4>2
        <4> QED BY <4>1, <4>2 DEF S, Between
      <3>9. S \ {m} \in SUBSET Nat
        BY <3>2
      <3> QED BY <3>5, <3>6, <3>7, <3>8, <3>9 DEF Queues
    <2> QED BY <2>1, <2>2
  <1> HIDE DEF sequence
  <1>5. /\ row \in ConnRow /\ row.open /\ row.pending = Tail(conn.pending)
        /\ row.id = <<epoch, sequence>> /\ row.upto = sequence
        /\ row.cursor = conn.cursor /\ row.owner = conn.owner
    BY <1>1, <1>4 DEF ConnRow
  <1> HIDE DEF row
  <1>6. row.pending = InOrder(Between(row))
    BY <1>4, <1>5 DEF Between
  <1>7. row.id[1] = epoch /\ row.id[2] = sequence /\ sequence <= last
    BY <1>1, <1>3, <1>4, <1>5
  <1>8. Followed(row)
    <2>1. row.open => row.cursor <= last
      BY <1>3, <1>5
    <2>2. ~row.open => row.pending = <<>>
      BY <1>5
    <2>3. row.id[1] <= epoch /\ row.id[2] = row.upto /\ row.upto <= last
      BY <1>1, <1>5, <1>7
    <2>4. row.upto <= row.cursor
      BY <1>4, <1>5
    <2> QED BY <1>6, <2>1, <2>2, <2>3, <2>4 DEF Followed
  <1> QED BY <1>2, <1>5, <1>8, OneConnection

LEMMA FillFollowed ==
    ASSUME GapInv, OnceInv', NEW c \in Clients, Fill(c)
    PROVE  GapInv'
  <1> DEFINE conn == conns[c]
             queue == IF Gap(conn.cursor) THEN Resync ELSE Unread(c)
             rests == queue = <<>>
             row == [conn EXCEPT !.cursor = last, !.pending = queue, !.waits = rests]
             size == Len(log)
             May(n) == conn.owner \/ Kind[appended[n]] = "release"
             kept == {log[i].sequence : i \in {k \in 1..size :
                        log[k].sequence > conn.cursor /\ Visible(c, log[k].message)}}
  <1>1. /\ conn \in ConnRow /\ Followed(conn) /\ epoch \in Nat /\ last \in Nat
        /\ conn.open /\ conn.pending = <<>>
    BY OfConnection DEF Fill, Runs
  <1>2. conns' = [conns EXCEPT ![c] = row] /\ UNCHANGED connected
    BY OfConnection DEF Fill, ConnRow
  <1>3. /\ size \in Nat /\ size <= last
        /\ log \in Seq(LogRow)
        /\ \A i \in 1..size : log[i].sequence \in Nat
    <2>1. log \in Seq(LogRow) /\ size <= last
      BY DEF GapInv, HubTyped, IsWindow
    <2>2. \A i \in 1..size : log[i] \in LogRow
      BY <2>1
    <2> QED BY <2>1, <2>2 DEF LogRow
  <1>3a. last > 0 => size > 0
    BY DEF GapInv, HubTyped
  <1>4. \A i \in 1..size : /\ log[i].sequence = last - size + i
                            /\ log[i].message = appended[last - size + i]
    BY DEF GapInv, HubTyped, IsWindow
  <1>5. \A i \in 1..size : Visible(c, log[i].message) <=> May(last - size + i)
    BY <1>4 DEF Visible
  <1>6. log # <<>> => size > 0 /\ Head(log) = log[1]
    BY <1>3
  <1>7. Unread(c) = InOrder(kept)
    BY DEF Unread
  <1>8. conn.pending # Resync
    BY <1>1 DEF Resync
  <1> HIDE DEF conn
  <1>9. conn.upto \in Nat /\ conn.cursor \in Nat /\ conn.cursor <= last
    BY <1>1 DEF ConnRow, Followed
  <1>10. conn.upto <= conn.cursor /\ conn.pending = InOrder(Between(conn))
    BY <1>1, <1>8 DEF Followed
  <1>11. Between(conn) = {}
    BY <1>1, <1>10, BetweenIsFinite, InOrderIsList
  <1>12. \A n \in conn.upto + 1..conn.cursor : ~May(n)
    BY <1>11 DEF Between
  <1> HIDE DEF size, May
  <1>13. kept \in SUBSET Nat
    BY <1>3, <1>4, <1>9
  <1>14. ASSUME ~Gap(conn.cursor)
         PROVE  kept = {n \in conn.upto + 1..last : May(n)}
    <2>1. \/ conn.cursor = last
          \/ size > 0 /\ conn.cursor + 1 >= last - size + 1
      <3>1. CASE conn.cursor = last
        BY <3>1
      <3>2. CASE conn.cursor < last
        <4>1. size > 0
          BY <1>1, <1>3, <1>3a, <1>9, <3>2
        <4>2. log # <<>>
          BY <1>3, <4>1 DEF size
        <4>3. Head(log).sequence = last - size + 1
          BY <1>4, <1>6, <1>3, <4>1, <4>2
        <4>4. ~(conn.cursor + 1 < Head(log).sequence)
          BY <1>14, <3>2, <4>2 DEF Gap
        <4> QED BY <1>1, <1>3, <1>9, <4>1, <4>3, <4>4
      <3> QED BY <1>1, <1>9, <3>1, <3>2
    <2>2. ASSUME NEW n \in kept
          PROVE  n \in conn.upto + 1..last /\ May(n)
      <3>1. PICK i \in 1..size : /\ n = log[i].sequence /\ log[i].sequence > conn.cursor
                                 /\ Visible(c, log[i].message)
        BY <2>2
      <3>2. n = last - size + i /\ n > conn.cursor /\ May(n)
        BY <1>4, <1>5, <3>1
      <3> QED BY <1>1, <1>3, <1>9, <1>10, <3>2
    <2>3. ASSUME NEW n \in conn.upto + 1..last, May(n)
          PROVE  n \in kept
      <3>1. n > conn.cursor
        BY <1>1, <1>9, <1>12, <2>3
      <3>2. size > 0 /\ conn.cursor + 1 >= last - size + 1
        BY <1>1, <1>9, <2>1, <3>1
      <3> DEFINE i == n - (last - size)
      <3>3. i \in 1..size /\ last - size + i = n
        BY <1>1, <1>3, <1>9, <3>1, <3>2
      <3> HIDE DEF i
      <3>4. log[i].sequence = n /\ Visible(c, log[i].message)
        BY <1>4, <1>5, <2>3, <3>3
      <3> QED BY <3>1, <3>3, <3>4
    <2> QED BY <2>2, <2>3
  <1>15. queue \in Queues
    BY <1>7, <1>13 DEF Queues
  <1> HIDE DEF kept
  <1>16. rests \in BOOLEAN
    OBVIOUS
  <1>17. queue # Resync => ~Gap(conn.cursor) /\ queue = InOrder(kept)
    BY <1>7
  <1> HIDE DEF queue, rests
  <1>18. /\ row \in ConnRow /\ row.open /\ row.pending = queue /\ row.cursor = last
         /\ row.id = conn.id /\ row.upto = conn.upto /\ row.owner = conn.owner
    BY <1>1, <1>15, <1>16 DEF ConnRow
  <1> HIDE DEF row
  <1>19. Between(row) = {n \in conn.upto + 1..last : May(n)}
    BY <1>18 DEF Between, May
  <1>20. Followed(row)
    <2>1. row.cursor <= last /\ row.upto <= row.cursor
      BY <1>1, <1>9, <1>10, <1>18
    <2>2. row.pending # Resync => row.pending = InOrder(Between(row))
      BY <1>14, <1>17, <1>18, <1>19
    <2>3. row.id # <<>> => /\ row.id[1] <= epoch
                           /\ row.id[1] = epoch => row.id[2] = row.upto /\ row.upto <= last
      BY <1>1, <1>18 DEF Followed
    <2> QED BY <1>18, <2>1, <2>2, <2>3 DEF Followed
  <1> QED BY <1>2, <1>18, <1>20, OneConnection

(* A commit settles: the site has one event more, or none.                 *)
LEMMA SettleFollowed ==
    ASSUME GapInv, OnceInv', Settle
    PROVE  GapInv'
  <1>1. /\ conns \in [Clients -> ConnRow] /\ HubTyped
        /\ \A d \in Clients : Followed(conns[d])
    BY DEF GapInv
  <1>2. UNCHANGED <<now, stream, inbox, epoch, session, conns, applied>>
    BY DEF Settle
  <1>3. CASE ~(Shown(Hand) /\ stream[Hand].at + WindowAge >= now)
    <2>1. UNCHANGED <<last, log, appended>>
      BY <1>3 DEF Settle
    <2> QED BY <1>1, <1>2, <2>1 DEF GapInv, HubTyped, IsWindow, Followed, Between
  <1>4. CASE Shown(Hand) /\ stream[Hand].at + WindowAge >= now
    <2> DEFINE at == stream[Hand].at
               one == [sequence |-> last + 1, message |-> Hand, at |-> at]
               w == Append(log, one)
               all == Append(appended, Hand)
    <2>1. last' = last + 1 /\ log' = Kept(w) /\ appended' = all
      BY <1>4 DEF Settle
    <2>2. Hand \in Messages /\ at \in Nat /\ at + WindowAge >= now
      <3>1. consumer.phase = "committed"
        BY DEF Settle
      <3>2. stream \in [Messages -> BusRow] /\ Hand \in Messages
        BY <3>1 DEF GapInv, OnceInv, BusTyped, Hand
      <3> QED BY <1>4, <3>2 DEF BusRow
    <2>3. /\ last \in Nat /\ appended \in Seq(Messages) /\ Len(appended) = last
          /\ IsWindow(log, last, appended)
      BY <1>1 DEF HubTyped
    <2> HIDE DEF at
    <2>4. IsWindow(w, last + 1, all) /\ Len(w) > 0 /\ w[Len(w)].at = at
      BY <2>2, <2>3, WindowGrows
    <2>5. /\ all \in Seq(Messages) /\ Len(all) = last + 1
          /\ \A n \in 1..last : all[n] = appended[n]
      BY <2>2, <2>3
    <2> HIDE DEF w, all
    <2>6. IsWindow(Kept(w), last + 1, all) /\ Len(Kept(w)) > 0
      <3> DEFINE n == last + 1
      <3>1. n \in Nat
        BY <2>3
      <3>2. w[Len(w)].at + WindowAge >= now
        BY <2>2, <2>4
      <3> HIDE DEF n
      <3>3. IsWindow(w, n, all) /\ Len(w) > 0
        BY <2>4 DEF n
      <3>4. IsWindow(Kept(w), n, all) /\ Len(Kept(w)) > 0
        BY <3>1, <3>2, <3>3, KeptIsWindow
      <3> QED BY <3>4 DEF n
    <2>7. HubTyped'
      <3>1. epoch' \in Nat /\ last' \in Nat
        BY <1>1, <1>2, <2>1 DEF HubTyped
      <3>2. IsWindow(log', last', appended') /\ Len(log') > 0
        BY <2>1, <2>6
      <3>3. appended' \in Seq(Messages) /\ Len(appended') = last'
        BY <2>1, <2>5
      <3> QED BY <3>1, <3>2, <3>3 DEF HubTyped, IsWindow
    <2>8. ASSUME NEW d \in Clients
          PROVE  Followed(conns[d])'
      <3> DEFINE conn == conns[d]
      <3>1. conn \in ConnRow /\ Followed(conn) /\ epoch \in Nat
        BY <1>1 DEF HubTyped
      <3>2. conn' = conn /\ epoch' = epoch
        BY <1>2
      <3> HIDE DEF conn
      <3>3. conn.open => conn.cursor <= last
        BY <3>1 DEF Followed
      <3>3a. conn.upto \in Nat /\ conn.cursor \in Nat
        BY <3>1 DEF ConnRow
      <3>4. ASSUME conn.open
            PROVE  Between(conn)' = Between(conn)
        <4>1. \A n \in conn.upto + 1..conn.cursor : n \in 1..last
          BY <2>3, <3>3, <3>3a, <3>4
        <4> QED BY <2>1, <2>5, <3>2, <4>1 DEF Between
      <3>5. Followed(conn)'
        <4>1. conn.open => conn.cursor <= last + 1
          BY <2>3, <3>3, <3>3a
        <4>2. conn.upto <= last => conn.upto <= last + 1
          BY <2>3, <3>3a
        <4> QED BY <2>1, <3>1, <3>2, <3>4, <4>1, <4>2 DEF Followed
      <3> QED BY <3>5 DEF conn
    <2> QED BY <1>1, <1>2, <2>7, <2>8 DEF GapInv
  <1> QED BY <1>3, <1>4

(* Another start of Edge: the ids are of an older one.                     *)
LEMMA RestartFollowed ==
    ASSUME GapInv, OnceInv', Restart
    PROVE  GapInv'
  <1>1. epoch \in Nat /\ epoch' = epoch + 1 /\ log' = <<>> /\ last' = 0 /\ appended' = <<>>
    BY DEF Restart, GapInv, HubTyped
  <1>2. HubTyped'
    BY <1>1 DEF HubTyped, IsWindow
  <1>3. ASSUME NEW c \in Clients
        PROVE  conns'[c] \in ConnRow /\ Followed(conns[c])'
    <2> DEFINE id == conns[c].id
               row == [Unused EXCEPT !.id = id]
    <2>1a. id # <<>> => id[1] <= epoch
      BY OfConnection DEF Followed
    <2>1b. id \in {<<>>} \cup (Nat \X Nat)
      BY OfConnection DEF ConnRow
    <2>2. conns'[c] = row
      BY DEF Restart
    <2> HIDE DEF id
    <2>3. row \in ConnRow /\ ~row.open /\ row.pending = <<>> /\ row.id = id
      BY <2>1b, NothingInOrder DEF Unused, ConnRow
    <2> HIDE DEF row
    <2>4. id # <<>> => id[1] \in Nat /\ id[1] <= epoch + 1 /\ id[1] # epoch + 1
      BY <1>1, <2>1a, <2>1b
    <2>5. Followed(conns[c])'
      BY <1>1, <2>2, <2>3, <2>4 DEF Followed
    <2> QED BY <2>2, <2>3, <2>5
  <1>4. conns' \in [Clients -> ConnRow]
    <2>1. conns' = [c \in Clients |-> conns'[c]]
      BY DEF Restart
    <2> QED BY <1>3, <2>1
  <1> QED BY <1>2, <1>3, <1>4 DEF GapInv

LEMMA GapNext ==
    ASSUME GapInv, [SiteNext]_siteVars
    PROVE  GapInv'
  <1>0. OnceInv'
    BY OnceNext DEF GapInv
  <1>1. ASSUME NEW c \in Clients, Disconnect(c) \/ CheckDue(c) \/ Check(c) \/ Wake(c)
        PROVE  GapInv'
    <2> DEFINE conn == conns[c]
               closed == Closed(conn)
               due == [conn EXCEPT !.due = TRUE]
               checked == [conn EXCEPT !.due = FALSE]
               awake == [conn EXCEPT !.waits = FALSE, !.seen = Version]
    <2>1. conn \in ConnRow /\ Followed(conn) /\ last \in Nat
      BY OfConnection
    <2>2. /\ UNCHANGED connected
          /\ \E row \in {closed, due, checked, awake} : conns' = [conns EXCEPT ![c] = row]
      BY <1>1 DEF Disconnect, CheckDue, Check, Wake
    <2> HIDE DEF conn
    <2>3. closed \in ConnRow /\ Followed(closed)
      BY <2>1, ClosedFollowed
    <2>4. due \in ConnRow /\ Followed(due)
      <3>1. /\ due \in ConnRow /\ due.open = conn.open /\ due.owner = conn.owner
            /\ due.cursor = conn.cursor /\ due.pending = conn.pending
            /\ due.id = conn.id /\ due.upto = conn.upto
        BY <2>1 DEF ConnRow
      <3> HIDE DEF due
      <3> QED BY <2>1, <3>1, WaitsFollowed
    <2>5. checked \in ConnRow /\ Followed(checked)
      <3>1. /\ checked \in ConnRow /\ checked.open = conn.open /\ checked.owner = conn.owner
            /\ checked.cursor = conn.cursor /\ checked.pending = conn.pending
            /\ checked.id = conn.id /\ checked.upto = conn.upto
        BY <2>1 DEF ConnRow
      <3> HIDE DEF checked
      <3> QED BY <2>1, <3>1, WaitsFollowed
    <2>6. awake \in ConnRow /\ Followed(awake)
      <3>1. /\ awake \in ConnRow /\ awake.open = conn.open /\ awake.owner = conn.owner
            /\ awake.cursor = conn.cursor /\ awake.pending = conn.pending
            /\ awake.id = conn.id /\ awake.upto = conn.upto
        BY <2>1 DEF ConnRow, Version
      <3> HIDE DEF awake
      <3> QED BY <2>1, <3>1, WaitsFollowed
    <2> HIDE DEF closed, due, checked, awake
    <2>7. PICK row \in {closed, due, checked, awake} : conns' = [conns EXCEPT ![c] = row]
      BY <2>2
    <2>8. row \in ConnRow /\ Followed(row)
      BY <2>3, <2>4, <2>5, <2>6
    <2> QED BY <1>0, <2>2, <2>7, <2>8, OneConnection
  <1>2. ASSUME NEW c \in Clients, \/ \E owner \in BOOLEAN : Connect(c, owner)
                                  \/ Send(c) \/ Fill(c)
        PROVE  GapInv'
    BY <1>0, <1>2, ConnectFollowed, SendFollowed, FillFollowed
  <1>3. CASE Settle
    BY <1>0, <1>3, SettleFollowed
  <1>4. CASE Restart
    BY <1>0, <1>4, RestartFollowed
  <1>5. CASE \/ \E m \in Messages : Publish(m) \/ Receive(m)
             \/ SiteTick \/ CollectInbox \/ Duplicate \/ Commit \/ RollBack
             \/ CommitUnheard \/ Ack \/ AckLost \/ SessionEnds \/ UNCHANGED siteVars
    <2>1. UNCHANGED <<epoch, log, last, appended, conns>>
      BY <1>5 DEF Publish, Receive, SiteTick, CollectInbox, Duplicate, Commit, RollBack,
                  CommitUnheard, Ack, AckLost, SessionEnds, hub, siteVars
    <2> QED BY <1>0, <2>1 DEF GapInv, HubTyped, IsWindow, Followed, Between
  <1> QED BY <1>1, <1>2, <1>3, <1>4, <1>5 DEF SiteNext, ConnectionStep

(* What a connection has queued is all its client may see between what it  *)
(* has and the cursor, or a resync (site_events.rs, cursor_of, read and    *)
(* fill), across windows that shrink and restarts of Edge.                 *)
THEOREM GapsAreNeverSilent == SiteSpec => []NoSilentGap
  <1>1. GapInv => NoSilentGap
    BY DEF GapInv, Followed, Between, NoSilentGap, Visible
  <1> QED BY <1>1, GapAtFirst, GapNext, PTL DEF SiteSpec

-----------------------------------------------------------------------------
(* Shown once, and the types                                               *)

(* What was appended was applied; what is applied and about to settle was  *)
(* not appended.                                                           *)
ShownInv ==
    /\ ShownOnce
    /\ \A i \in DOMAIN appended : applied[appended[i]] = 1
    /\ consumer.phase = "committed" =>
         applied[Hand] = 1 /\ \A i \in DOMAIN appended : appended[i] # Hand

LEMMA ShownAtFirst == SiteInit => ShownInv
  BY DEF SiteInit, ShownInv, ShownOnce, Nothing

(* A commit is the first of its message, and nothing of it was appended.   *)
LEMMA CommitIsFirst ==
    ASSUME OnceInv, HubTyped, ShownInv, consumer.phase = "begun", inbox[Hand] = Never, Applies
    PROVE  /\ applied'[Hand] = 1 /\ \A m \in Messages : applied[m] = 1 => applied'[m] = 1
           /\ \A i \in DOMAIN appended : appended[i] # Hand
  <1>1. Hand \in Messages /\ stream[Hand].state = "held" /\ Remembered(Hand)
    BY InHand DEF OnceInv
  <1>2. applied[Hand] = 0 /\ applied \in [Messages -> 0..1]
    BY <1>1 DEF OnceInv, BusTyped, Remembered
  <1>3. applied'[Hand] = 1 /\ \A m \in Messages : m # Hand => applied'[m] = applied[m]
    BY <1>1, <1>2 DEF Applies
  <1> QED BY <1>2, <1>3 DEF ShownInv

LEMMA ShownNext ==
    ASSUME GapInv, ShownInv, [SiteNext]_siteVars
    PROVE  ShownInv'
  <1>0. /\ OnceInv /\ HubTyped /\ appended \in Seq(Messages)
        /\ \A i \in DOMAIN appended : appended[i] \in Messages
    BY DEF GapInv, HubTyped
  <1>1. CASE Commit
    <2>1. /\ consumer.phase = "begun" /\ inbox[Hand] = Never /\ Applies
          /\ UNCHANGED appended /\ consumer' = [consumer EXCEPT !.phase = "committed"]
      BY <1>1 DEF Commit, hub
    <2>2. Hand' = Hand
      BY <1>0, <2>1 DEF Hand, OnceInv, BusTyped, Delivery
    <2> QED BY <1>0, <2>1, <2>2, CommitIsFirst DEF ShownInv, ShownOnce
  <1>2. CASE CommitUnheard
    <2>1. /\ consumer.phase = "begun" /\ inbox[Hand] = Never /\ Applies
          /\ UNCHANGED appended /\ consumer'.phase = "idle"
      BY <1>2 DEF CommitUnheard, hub, Nothing
    <2> QED BY <1>0, <2>1, CommitIsFirst DEF ShownInv, ShownOnce
  <1>3. CASE Settle
    <2>1. /\ consumer.phase = "committed" /\ consumer'.phase = "settled" /\ UNCHANGED applied
          /\ appended' = appended \/ appended' = Append(appended, Hand)
      BY <1>0, <1>3 DEF Settle, OnceInv, BusTyped, Delivery
    <2>2. /\ Hand \in Messages /\ applied[Hand] = 1
          /\ \A i \in DOMAIN appended : appended[i] # Hand
      BY <1>0, <2>1 DEF ShownInv, OnceInv, BusTyped, Hand
    <2>3. CASE appended' = appended
      BY <2>1, <2>3 DEF ShownInv, ShownOnce
    <2>4. CASE appended' = Append(appended, Hand)
      <3> DEFINE n == Len(appended)
      <3>1. /\ n \in Nat /\ DOMAIN appended = 1..n /\ DOMAIN appended' = 1..n + 1
            /\ appended'[n + 1] = Hand /\ \A i \in 1..n : appended'[i] = appended[i]
        BY <1>0, <2>2, <2>4
      <3> HIDE DEF n
      <3>2. \A i \in 1..n + 1 : i = n + 1 \/ i \in 1..n
        BY <3>1
      <3>3. ShownOnce'
        BY <2>2, <3>1, <3>2 DEF ShownInv, ShownOnce
      <3>4. \A i \in DOMAIN appended' : applied'[appended'[i]] = 1
        BY <2>1, <2>2, <3>1, <3>2 DEF ShownInv
      <3> QED BY <2>1, <3>3, <3>4 DEF ShownInv
    <2> QED BY <2>1, <2>3, <2>4
  <1>4. CASE Restart
    BY <1>4 DEF Restart, ShownInv, ShownOnce, Nothing
  <1>5. CASE \/ \E m \in Messages : Receive(m)
             \/ Duplicate \/ RollBack \/ Ack \/ AckLost
    <2>1. UNCHANGED <<applied, appended>> /\ consumer'.phase # "committed"
      BY <1>0, <1>5 DEF Receive, Duplicate, RollBack, Ack, AckLost, hub, Nothing, OnceInv,
                        BusTyped, Delivery
    <2> QED BY <2>1 DEF ShownInv, ShownOnce
  <1>6. CASE \/ \E m \in Messages : Publish(m)
             \/ SiteTick \/ CollectInbox \/ SessionEnds \/ UNCHANGED siteVars
             \/ \E c \in Clients : \/ \E owner \in BOOLEAN : Connect(c, owner)
                                  \/ Disconnect(c) \/ CheckDue(c) \/ ConnectionStep(c)
    <2>1. UNCHANGED <<applied, appended, consumer>>
      BY <1>6 DEF Publish, SiteTick, CollectInbox, SessionEnds, siteVars, Connect,
                  Disconnect, CheckDue, ConnectionStep, Check, Send, Fill, Wake, connected,
                  bussed, hub
    <2> QED BY <2>1 DEF ShownInv, ShownOnce, Hand
  <1> QED BY <1>1, <1>2, <1>3, <1>4, <1>5, <1>6 DEF SiteNext

LEMMA GapAlways == SiteSpec => [](GapInv /\ ShownInv)
  BY GapAtFirst, GapNext, ShownAtFirst, ShownNext, PTL DEF SiteSpec

(* The acknowledgement of an event that was shown may be lost, and Edge    *)
(* may be slow: the event that comes again is not appended again           *)
(* (inbox.rs, begin; site_events.rs, the settling of a staged event).      *)
THEOREM AlwaysShownOnce == SiteSpec => []ShownOnce
  <1>1. ShownInv => ShownOnce
    BY DEF ShownInv
  <1> QED BY <1>1, GapAlways, PTL

(* No start of Edge shows more events than there are.                      *)
LEMMA SequencesSuffice ==
    ASSUME HubTyped, ShownOnce
    PROVE  last \in Sequences
  <1>1. /\ last \in Nat /\ appended \in [1..last -> Messages]
        /\ \A i, j \in 1..last : appended[i] = appended[j] => i = j
    BY DEF HubTyped, ShownOnce
  <1>2. IsFiniteSet(Messages)
    BY SiteEventsAssumption
  <1>3. appended \in Injection(1..last, Messages)
    BY <1>1 DEF Injection, IsInjective
  <1>4. Cardinality(1..last) <= Cardinality(Messages)
    BY <1>2, <1>3, FS_Injection
  <1>5. Cardinality(1..last) = last /\ Cardinality(Messages) \in Nat
    BY <1>1, <1>2, FS_Interval, FS_CardinalityType
  <1> QED BY <1>1, <1>4, <1>5 DEF Sequences, Count

(* What a page knows is of this start of Edge or of an earlier one.        *)
ClientKinds(conn) ==
    /\ {conn.cursor, conn.seen, conn.upto} \subseteq Sequences
    /\ conn.id # <<>> => conn.id[2] \in Sequences

SiteKinds ==
    /\ \A m \in Messages : inbox[m] \in 0..MaxClock \cup {Never}
    /\ epoch <= MaxRestarts /\ session \in BOOLEAN
    /\ Len(log) <= WindowEvents
    /\ \A i \in 1..Len(log) : log[i].at \in 0..MaxClock
    /\ \A c \in Clients : ClientKinds(conns[c])

LEMMA KindsAtFirst == SiteInit => SiteKinds
  <1> SUFFICES ASSUME SiteInit PROVE SiteKinds
    OBVIOUS
  <1>1. 0 \in Sequences
    BY SiteEventsAssumption, FS_CardinalityType DEF Sequences, Count
  <1>2. \A c \in Clients : ClientKinds(conns[c])
    BY <1>1 DEF SiteInit, Unused, ClientKinds
  <1>3. \A m \in Messages : inbox[m] = Never
    BY DEF SiteInit
  <1>4. epoch = 0 /\ session = TRUE /\ log = <<>>
    BY DEF SiteInit
  <1> QED BY <1>2, <1>3, <1>4, Bounds DEF SiteKinds

(* The window that is kept is short, and of events that were there.        *)
LEMMA KeptIsShort ==
    ASSUME NEW S, NEW w \in Seq(S)
    PROVE  /\ Len(Kept(w)) \in Nat /\ Len(Kept(w)) <= WindowEvents
           /\ \A i \in 1..Len(Kept(w)) : \E k \in 1..Len(w) : Kept(w)[i] = w[k]
  <1> DEFINE size == Len(w)
             starts == {i \in 1..size : size - i < WindowEvents /\ w[i].at + WindowAge >= now}
             s == CHOOSE i \in starts : \A k \in starts : i <= k
  <1>1. CASE starts = {}
    BY <1>1, Bounds DEF Kept
  <1>2. CASE starts # {}
    <2>1. s \in starts
      <3>1. \E i \in starts : \A k \in starts : i <= k
        <4>1. starts \in SUBSET Nat
          OBVIOUS
        <4> HIDE DEF starts
        <4> QED BY <1>2, <4>1, SmallestNumber
      <3> HIDE DEF starts
      <3> QED BY <3>1
    <2>2. s \in 1..size /\ size - s < WindowEvents /\ Kept(w) = SubSeq(w, s, size)
      BY <1>2, <2>1 DEF Kept
    <2>3. size \in Nat /\ \A i \in 1..size : w[i] \in S
      OBVIOUS
    <2> HIDE DEF s, size, starts
    <2>4. /\ Len(SubSeq(w, s, size)) = size - s + 1
          /\ \A i \in 1..size - s + 1 : SubSeq(w, s, size)[i] = w[s + i - 1]
      <3>1. s \in Int /\ size \in Int /\ s <= size /\ \A i \in s..size : w[i] \in S
        BY <2>2, <2>3
      <3> QED BY <3>1, SubSeqProperties
    <2>5. size - s + 1 \in Nat /\ size - s + 1 <= WindowEvents
      BY <2>2, <2>3, Bounds
    <2>6. \A i \in 1..size - s + 1 : s + i - 1 \in 1..size
      BY <2>2, <2>3
    <2> QED BY <2>2, <2>4, <2>5, <2>6 DEF size
  <1> QED BY <1>1, <1>2

(* The step of a page: its sequences are the hub's, or were its own.       *)
LEMMA PageKinds ==
    ASSUME GapInv, GapInv', SiteKinds, last \in Sequences, NEW c \in Clients,
           \/ \E owner \in BOOLEAN : Connect(c, owner)
           \/ Disconnect(c) \/ CheckDue(c) \/ ConnectionStep(c)
    PROVE  \A d \in Clients : ClientKinds(conns[d])'
  <1> DEFINE conn == conns[c]
  <1>1. /\ conn \in ConnRow /\ ClientKinds(conn) /\ Followed(conn) /\ conns \in [Clients -> ConnRow]
        /\ 0 \in Sequences
    BY SiteEventsAssumption, FS_CardinalityType
       DEF GapInv, SiteKinds, Sequences, Count
  <1>2. UNCHANGED connected /\ \E row : conns' = [conns EXCEPT ![c] = row]
    BY DEF Connect, Disconnect, CheckDue, ConnectionStep, Check, Send, Fill, Wake
  <1>3. \A d \in Clients : d # c => conns'[d] = conns[d]
    BY <1>1, <1>2
  <1>4. ClientKinds(conns'[c])
    <2>1. ASSUME NEW owner \in BOOLEAN, Connect(c, owner)
          PROVE  ClientKinds(conns'[c])
      <3>1. /\ conns'[c].id = conn.id /\ conns'[c].seen = last
            /\ conns'[c].cursor = last \/ (conn.id # <<>> /\ conns'[c].cursor = conn.id[2])
            /\ conns'[c].upto \in {last, conn.upto}
        BY <1>1, <2>1 DEF Connect, Version, ConnRow
      <3> QED BY <1>1, <3>1 DEF ClientKinds
    <2>2. CASE conns' = [conns EXCEPT ![c] = Closed(@)]
      <3>1. /\ conns'[c].id = conn.id /\ conns'[c].upto = conn.upto
            /\ conns'[c].cursor = 0 /\ conns'[c].seen = 0
        BY <1>1, <2>2 DEF Closed, ConnRow
      <3> QED BY <1>1, <3>1 DEF ClientKinds
    <2>3. CASE CheckDue(c) \/ (Check(c) /\ conns' = [conns EXCEPT ![c].due = FALSE]) \/ Wake(c) \/ Fill(c)
      <3>1. /\ conns'[c].id = conn.id /\ conns'[c].upto = conn.upto
            /\ conns'[c].cursor \in {conn.cursor, last} /\ conns'[c].seen \in {conn.seen, last}
        BY <1>1, <2>3 DEF CheckDue, Check, Wake, Fill, Version, ConnRow
      <3> QED BY <1>1, <3>1 DEF ClientKinds
    <2>4. CASE Send(c)
      <3>1. /\ conns'[c].cursor = conn.cursor /\ conns'[c].seen = conn.seen
            /\ conns'[c].id[1] = epoch /\ conns'[c].id[2] = conns'[c].upto
            /\ conns'[c].id # <<>>
        BY <1>1, <2>4 DEF Send, ConnRow
      <3>2. conns'[c].upto <= last /\ conns'[c].upto \in Nat
        BY <1>2, <3>1 DEF GapInv, Followed, ConnRow, connected
      <3>3. conns'[c].upto \in Sequences
        BY <3>2, SiteEventsAssumption, FS_CardinalityType DEF Sequences, Count
      <3> QED BY <1>1, <3>1, <3>3 DEF ClientKinds
    <2> QED BY <2>1, <2>2, <2>3, <2>4 DEF Disconnect, ConnectionStep, Check
  <1>5. ASSUME NEW d \in Clients
        PROVE  ClientKinds(conns'[d])
    BY <1>3, <1>4 DEF SiteKinds
  <1> QED BY <1>5 DEF ClientKinds, Sequences, Count

LEMMA KindsNext ==
    ASSUME GapInv, GapInv', ShownInv, SiteKinds, [SiteNext]_siteVars
    PROVE  SiteKinds'
  <1>0. /\ last \in Sequences /\ now \in 0..MaxClock /\ epoch \in Nat
        /\ log \in Seq(LogRow) /\ inbox \in [Messages -> Nat]
    BY SequencesSuffice DEF GapInv, OnceInv, BusTyped, HubTyped, IsWindow, ShownInv
  <1>1. CASE \E c \in Clients : \/ \E owner \in BOOLEAN : Connect(c, owner)
                               \/ Disconnect(c) \/ CheckDue(c) \/ ConnectionStep(c)
    <2>1. UNCHANGED <<inbox, epoch, session, log>>
      BY <1>1 DEF Connect, Disconnect, CheckDue, ConnectionStep, Check, Send, Fill, Wake,
                  connected
    <2>2. \A d \in Clients : ClientKinds(conns[d])'
      BY <1>0, <1>1, PageKinds
    <2> QED BY <2>1, <2>2 DEF SiteKinds, Never
  <1>2. CASE Settle
    <2>1. UNCHANGED <<inbox, epoch, session, conns>> /\ consumer.phase = "committed"
      BY <1>2 DEF Settle
    <2>2. CASE UNCHANGED log
      BY <2>1, <2>2 DEF SiteKinds, Never, ClientKinds
    <2>3. CASE log' # log
      <3> DEFINE one == [sequence |-> last + 1, message |-> Hand, at |-> stream[Hand].at]
                 w == Append(log, one)
      <3>1. log' = Kept(w)
        BY <1>2, <2>3 DEF Settle
      <3>2. Hand \in Messages
        BY <2>1 DEF GapInv, OnceInv, BusTyped, Hand
      <3>3. stream[Hand].at \in 0..MaxClock
        <4>1. stream[Hand].at \in Nat /\ stream[Hand].at <= now
          BY <3>2 DEF GapInv, OnceInv, BusTyped, BusRow, Remembered
        <4> QED BY <1>0, <4>1, Bounds
      <3>4. one \in LogRow /\ one.at = stream[Hand].at
        BY <1>0, <3>2, <3>3 DEF LogRow, Sequences
      <3> HIDE DEF one
      <3>5. w \in Seq(LogRow) /\ \A k \in 1..Len(w) : w[k].at \in 0..MaxClock
        BY <1>0, <3>3, <3>4 DEF SiteKinds
      <3> HIDE DEF w
      <3>6. /\ Len(Kept(w)) <= WindowEvents
            /\ \A i \in 1..Len(Kept(w)) : Kept(w)[i].at \in 0..MaxClock
        BY <3>5, KeptIsShort
      <3> QED BY <2>1, <3>1, <3>6 DEF SiteKinds, Never, ClientKinds
    <2> QED BY <2>2, <2>3
  <1>3. CASE Restart
    <2>1. /\ epoch' = epoch + 1 /\ epoch < MaxRestarts /\ log' = <<>> /\ UNCHANGED <<inbox, session>>
          /\ \A c \in Clients : conns'[c] = [Unused EXCEPT !.id = conns[c].id]
      BY <1>3 DEF Restart
    <2>2. 0 \in Sequences
      BY SiteEventsAssumption, FS_CardinalityType DEF Sequences, Count
    <2>3. \A c \in Clients : ClientKinds(conns[c])'
      <3> TAKE c \in Clients
      <3>1. /\ conns'[c].cursor = 0 /\ conns'[c].seen = 0 /\ conns'[c].upto = 0
            /\ conns'[c].id = conns[c].id
        BY <2>1 DEF Unused
      <3>2. conns[c].id # <<>> => conns[c].id[2] \in Sequences
        BY DEF SiteKinds, ClientKinds
      <3>3. Sequences' = Sequences
        BY DEF Sequences, Count
      <3> QED BY <2>2, <3>1, <3>2, <3>3 DEF ClientKinds
    <2>4. epoch' <= MaxRestarts
      BY <1>0, <2>1, Bounds
    <2>5. Len(log') <= WindowEvents /\ \A i \in 1..Len(log') : FALSE
      BY <2>1, Bounds
    <2> QED BY <2>1, <2>3, <2>4, <2>5 DEF SiteKinds, Never
  <1>4. CASE \/ \E m \in Messages : Publish(m) \/ Receive(m)
             \/ SiteTick \/ CollectInbox \/ Duplicate \/ Commit \/ RollBack
             \/ CommitUnheard \/ Ack \/ AckLost \/ SessionEnds \/ UNCHANGED siteVars
    <2>1. UNCHANGED <<epoch, log, conns>> /\ session' \in BOOLEAN
      BY <1>4 DEF Publish, Receive, SiteTick, CollectInbox, Duplicate, Commit, RollBack,
                  CommitUnheard, Ack, AckLost, SessionEnds, hub, bussed, siteVars, SiteKinds
    <2>2. ASSUME NEW m \in Messages
          PROVE  inbox'[m] \in {inbox[m], now, Never}
      <3>1. CASE Commit \/ CommitUnheard
        BY <1>0, <3>1 DEF Commit, CommitUnheard, Applies
      <3>2. CASE CollectInbox
        BY <3>2 DEF CollectInbox
      <3>3. CASE UNCHANGED inbox
        BY <3>3
      <3> QED BY <1>4, <3>1, <3>2, <3>3
              DEF Publish, Receive, SiteTick, Duplicate, RollBack, Ack, AckLost, SessionEnds,
                  bussed, siteVars
    <2>3. \A m \in Messages : inbox'[m] \in 0..MaxClock \cup {Never}
      BY <1>0, <2>2 DEF SiteKinds
    <2> QED BY <2>1, <2>3 DEF SiteKinds, Never, ClientKinds
  <1> QED BY <1>1, <1>2, <1>3, <1>4 DEF SiteNext

(* The bus, the inbox, the hub and the pages stay of their kind: no start  *)
(* of Edge numbers more events than there are, and the window is never     *)
(* longer than its bound (site_events.rs, the hub; inbox.rs).              *)
THEOREM SiteTypeCorrect == SiteSpec => []SiteTypeOK
  <1>1. ASSUME GapInv, ShownInv, SiteKinds PROVE SiteTypeOK
    <2>1. /\ now \in 0..MaxClock /\ consumer \in Delivery
          /\ stream \in [Messages -> BusRow] /\ inbox \in [Messages -> Nat]
          /\ applied \in [Messages -> 0..1]
      BY <1>1 DEF GapInv, OnceInv, BusTyped
    <2>2. stream \in [Messages -> [state: {"unsent", "ready", "held", "acked", "gone"},
                                  at: 0..MaxClock]]
      <3>1. ASSUME NEW m \in Messages
            PROVE  stream[m] \in [state: {"unsent", "ready", "held", "acked", "gone"},
                                  at: 0..MaxClock]
        <4>1. stream[m] \in BusRow /\ stream[m].at <= now
          BY <1>1, <2>1 DEF GapInv, OnceInv, Remembered
        <4>2. stream[m].at \in 0..MaxClock
          BY <2>1, <4>1, Bounds DEF BusRow
        <4> QED BY <4>1, <4>2 DEF BusRow
      <3> QED BY <2>1, <3>1
    <2>3. inbox \in [Messages -> 0..MaxClock \cup {Never}]
      BY <1>1, <2>1 DEF SiteKinds
    <2>4. applied \in [Messages -> 0..2]
      BY <2>1
    <2>5. last \in Sequences /\ epoch \in 0..MaxRestarts
      BY <1>1, SequencesSuffice, Bounds DEF GapInv, HubTyped, ShownInv, SiteKinds
    <2>6. \A i \in 1..Len(log) : log[i] \in [sequence: Sequences, message: Messages, at: 0..MaxClock]
      <3>1. ASSUME NEW i \in 1..Len(log)
            PROVE  log[i] \in [sequence: Sequences, message: Messages, at: 0..MaxClock]
        <4>1. /\ log \in Seq(LogRow) /\ Len(log) <= last
              /\ log[i].sequence = last - Len(log) + i
          BY <1>1 DEF GapInv, HubTyped, IsWindow
        <4>2. log[i] \in LogRow /\ log[i].at \in 0..MaxClock
          BY <1>1, <4>1 DEF SiteKinds
        <4>3. log[i].sequence \in Sequences
          BY <2>5, <4>1, SiteEventsAssumption, FS_CardinalityType DEF Sequences, Count
        <4> QED BY <4>2, <4>3 DEF LogRow
      <3> QED BY <3>1
    <2>7. ASSUME NEW c \in Clients
          PROVE  /\ conns[c].cursor \in Sequences /\ conns[c].seen \in Sequences
                 /\ conns[c].upto \in Sequences
                 /\ conns[c].id = <<>> \/ conns[c].id \in (0..MaxRestarts) \X Sequences
      <3>1. conns[c] \in ConnRow /\ Followed(conns[c]) /\ ClientKinds(conns[c])
        BY <1>1 DEF GapInv, SiteKinds
      <3>2. ASSUME conns[c].id # <<>>
            PROVE  conns[c].id \in (0..MaxRestarts) \X Sequences
        <4>1. /\ conns[c].id \in Nat \X Nat /\ conns[c].id[1] <= epoch
              /\ conns[c].id[2] \in Sequences
          BY <3>1, <3>2 DEF ConnRow, Followed, ClientKinds
        <4>2. conns[c].id[1] \in 0..MaxRestarts
          BY <2>5, <4>1, Bounds
        <4> QED BY <4>1, <4>2
      <3> QED BY <3>1, <3>2 DEF ClientKinds
    <2> QED BY <1>1, <2>1, <2>2, <2>3, <2>4, <2>5, <2>6, <2>7 DEF SiteTypeOK, Delivery, SiteKinds
  <1> QED BY <1>1, GapAtFirst, GapNext, ShownAtFirst, ShownNext, KindsAtFirst, KindsNext, PTL
          DEF SiteSpec

=============================================================================

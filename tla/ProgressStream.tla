--------------------------- MODULE ProgressStream ---------------------------
(***************************************************************************)
(* Following one operation (crate public-api: stream.rs; crate operations: *)
(* `progress_since').  Edge processes append the entries of the operation, *)
(* each under the lock of its row and with a UUIDv7 taken before the       *)
(* commit; a stream polls the committed entries above its cursor, sends    *)
(* them as frames and ends with the frame of an outcome; a client keeps    *)
(* the id of the last frame it received and reconnects with it.  A UUIDv7  *)
(* is a millisecond and a counter that only its own process keeps rising.  *)
(***************************************************************************)
EXTENDS Naturals, Sequences, FiniteSets, SequencesExt

CONSTANTS
  Edges,          \* the Edge processes that record progress
  Clients,
  Page,           \* PAGE
  Ties,           \* how many ids fit in one millisecond
  MaxClock,       \* bound on the milliseconds
  MaxFaults,      \* bound on lost connections, failed reads and reloads
  Eager,          \* an EventSource: reconnects even after it saw the outcome
  NoOne

ASSUME StreamAssumption ==
  /\ Page \in Nat \ {0} /\ Ties \in Nat \ {0}
  /\ {MaxClock, MaxFaults} \subseteq Nat
  /\ Eager \in BOOLEAN /\ NoOne \notin Edges

VARIABLES
  clock,
  status,         \* operations.operations.status
  progress,       \* operations.operation_progress, in the order of commits
  writer,         \* the transaction that holds the row, its entry
  issued,         \* the last id each process generated
  stream,         \* the generator behind each client's connection
  wire,           \* the frames sent and not yet received
  received,       \* what the client has, in the order it came
  faults

recording == <<status, progress, writer, issued>>
following == <<stream, wire, received>>
streamVars == <<clock, recording, following, faults>>

Lifecycle == INSTANCE OperationLifecycle
               WITH Ops <- {1}, phase <- <<status>>, shown <- <<"nothing">>

Terminal(s) == s \in Lifecycle!TerminalStatus
Idle == [by |-> NoOne, id |-> 0, status |-> "accepted"]
Closed == [pc |-> "closed", cursor |-> 0, page |-> <<>>]

StreamInit ==
  /\ clock = 0
  /\ status = "accepted" /\ progress = <<>>
  /\ writer = Idle /\ issued = [e \in Edges |-> 0]
  /\ stream = [c \in Clients |-> Closed]
  /\ wire = [c \in Clients |-> <<>>] /\ received = [c \in Clients |-> <<>>]
  /\ faults = 0

Tick ==
  /\ clock < MaxClock
  /\ clock' = clock + 1
  /\ UNCHANGED <<recording, following, faults>>

-----------------------------------------------------------------------------
(* Recording: `record_status', for a status that advances. *)

\* Uuid::now_v7: this millisecond, above what this process issued before, and
\* by its random part the id of no other entry.
NowV7(e) == {id \in clock * Ties + 1 .. (clock + 1) * Ties :
               id > issued[e] /\ \A i \in DOMAIN progress : progress[i].id # id}

Record(e, s, id) ==
  /\ writer = Idle
  /\ ~Terminal(status) /\ Lifecycle!Rank(s) > Lifecycle!Rank(status)
  /\ id \in NowV7(e)
  /\ writer' = [by |-> e, id |-> id, status |-> s]
  /\ issued' = [issued EXCEPT ![e] = id]
  /\ UNCHANGED <<clock, status, progress, following, faults>>

Commit ==
  /\ writer # Idle
  /\ status' = writer.status
  /\ progress' = Append(progress, [id |-> writer.id, status |-> writer.status])
  /\ writer' = Idle
  /\ UNCHANGED <<clock, issued, following, faults>>

Rollback ==
  /\ writer # Idle
  /\ writer' = Idle
  /\ UNCHANGED <<clock, status, progress, issued, following, faults>>

-----------------------------------------------------------------------------
(* The stream. *)

\* Variant: the newest entries first.
LastPage(entries) ==
  LET Above(e) == {x \in entries : x.id > e.id}
      most == IF Cardinality(entries) < Page THEN Cardinality(entries) ELSE Page
  IN  [i \in 1..most |-> CHOOSE e \in entries : Cardinality(Above(e)) = i - 1]

\* ORDER BY progress_id LIMIT $3: entry number i has i - 1 smaller ones.
FirstPage(entries) ==
  LET Before(e) == {x \in entries : x.id < e.id}
      most == IF Cardinality(entries) < Page THEN Cardinality(entries) ELSE Page
  IN  [i \in 1..most |-> CHOOSE e \in entries : Cardinality(Before(e)) = i - 1]

\* `progress_since': the committed entries above the cursor, by id.
ProgressSince(cursor) == FirstPage({entry \in ToSet(progress) : entry.id > cursor})

Poll(c) ==
  LET page == ProgressSince(stream[c].cursor) IN
  /\ stream[c].pc = "poll"
  /\ stream' = [stream EXCEPT ![c].page = page,
                              ![c].pc = IF page = <<>> THEN "sleep" ELSE "frames"]
  /\ UNCHANGED <<clock, recording, wire, received, faults>>

\* Where the loop goes after a frame: on, to sleep, or out of it.
After(entry, rest) ==
  IF rest # <<>> THEN "frames"
  ELSE IF Terminal(entry.status) THEN "ended" ELSE "sleep"

Frame(c) ==
  LET entry == Head(stream[c].page) rest == Tail(stream[c].page) IN
  /\ stream[c].pc = "frames"
  /\ stream' = [stream EXCEPT ![c] = [pc |-> After(entry, rest),
                                      cursor |-> entry.id, page |-> rest]]
  /\ wire' = [wire EXCEPT ![c] = Append(@, entry)]
  /\ UNCHANGED <<clock, recording, received, faults>>

\* POLL_INTERVAL has passed.
Wake(c) ==
  /\ stream[c].pc = "sleep"
  /\ stream' = [stream EXCEPT ![c].pc = "poll"]
  /\ UNCHANGED <<clock, recording, wire, received, faults>>

\* A failed read ends the stream after the frames already sent.
ReadFails(c) ==
  /\ stream[c].pc = "poll" /\ faults < MaxFaults
  /\ stream' = [stream EXCEPT ![c] = Closed]
  /\ faults' = faults + 1
  /\ UNCHANGED <<clock, recording, wire, received>>

-----------------------------------------------------------------------------
(* The client. *)

\* Variant: no replay of what there is.
NewestId(c) == IF progress = <<>> THEN 0 ELSE Last(progress).id

LastEventId(c) == IF received[c] = <<>> THEN 0 ELSE Last(received[c]).id
Connected(c) == stream[c].pc \in {"poll", "frames", "sleep"}
Told(c) == received[c] # <<>> /\ Terminal(Last(received[c]).status)

\* `events': a GET with the Last-Event-ID the client holds.
Connect(c) ==
  /\ ~Connected(c) /\ wire[c] = <<>>
  /\ Told(c) => Eager
  /\ stream' = [stream EXCEPT ![c] =
                  [pc |-> "poll", cursor |-> LastEventId(c), page |-> <<>>]]
  /\ UNCHANGED <<clock, recording, wire, received, faults>>

Receive(c) ==
  /\ wire[c] # <<>>
  /\ received' = [received EXCEPT ![c] = Append(@, Head(wire[c]))]
  /\ wire' = [wire EXCEPT ![c] = Tail(@)]
  /\ UNCHANGED <<clock, recording, stream, faults>>

\* The connection breaks, or Edge stops: the frames in flight are gone.
Lose(c) ==
  /\ Connected(c) \/ wire[c] # <<>>
  /\ faults < MaxFaults
  /\ stream' = [stream EXCEPT ![c] = Closed]
  /\ wire' = [wire EXCEPT ![c] = <<>>]
  /\ faults' = faults + 1
  /\ UNCHANGED <<clock, recording, received>>

\* A page reload: the client starts again without a Last-Event-ID.
Reload(c) ==
  /\ faults < MaxFaults
  /\ stream' = [stream EXCEPT ![c] = [Closed EXCEPT !.pc = "poll"]]
  /\ wire' = [wire EXCEPT ![c] = <<>>]
  /\ received' = [received EXCEPT ![c] = <<>>]
  /\ faults' = faults + 1
  /\ UNCHANGED <<clock, recording>>

Streaming(c) == Poll(c) \/ Frame(c) \/ Wake(c)

StreamNext ==
  \/ Tick \/ Commit \/ Rollback
  \/ \E e \in Edges, s \in Lifecycle!Status : \E id \in NowV7(e) : Record(e, s, id)
  \/ \E c \in Clients : \/ Streaming(c) \/ ReadFails(c)
                        \/ Connect(c) \/ Receive(c) \/ Lose(c) \/ Reload(c)

StreamSpec == StreamInit /\ [][StreamNext]_streamVars

\* The generator is polled while its connection lives, the network delivers,
\* and a client that wants the outcome reconnects.
FairStreamSpec == StreamSpec /\ \A c \in Clients :
  WF_streamVars(Streaming(c)) /\ WF_streamVars(Receive(c)) /\ WF_streamVars(Connect(c))

-----------------------------------------------------------------------------
Entry == [id : Nat, status : Lifecycle!Status]

\* Every variable has its declared shape.
StreamTypeOK ==
  /\ clock \in 0..MaxClock /\ faults \in 0..MaxFaults
  /\ status \in Lifecycle!Status
  /\ progress \in Seq(Entry)
  /\ writer \in [by : Edges \union {NoOne}, id : Nat, status : Lifecycle!Status]
  /\ issued \in [Edges -> Nat]
  /\ stream \in [Clients -> [pc : {"closed", "poll", "frames", "sleep", "ended"},
                             cursor : Nat, page : Seq(Entry)]]
  /\ wire \in [Clients -> Seq(Entry)] /\ received \in [Clients -> Seq(Entry)]

\* Entry number i was committed after one with a larger id, by a process whose
\* clock or counter was ahead.
Overtaken(i) == \E j \in DOMAIN progress : j < i /\ progress[j].id > progress[i].id

\* stream.rs:41 "Replays from `Last-Event-ID` when the client reconnects, then
\* follows": below what a client holds there is no gap.  Over all its
\* connections, and whichever processes record, it has every committed entry
\* whose id is below one it has, unless that entry was committed after one with
\* a larger id: the stream may have read past it before it was there.
NothingMissed ==
  \A c \in Clients : \A i \in DOMAIN progress, later \in ToSet(received[c]) :
    progress[i].id < later.id /\ ~Overtaken(i) => progress[i] \in ToSet(received[c])

\* stream.rs:119-120 "The client reconnects with `Last-Event-ID` and loses
\* nothing", said of the history in the order it was recorded.  It holds as long
\* as one process records, and not of two (README, section 6).
LosesNothing == \A c \in Clients : IsPrefix(received[c], progress)

\* stream.rs `events': what a client holds are committed entries of the
\* operation in the order of their ids, none of them twice, also when ids of
\* several processes were committed in another order than they were made.
NothingTwice == \A c \in Clients :
  /\ ToSet(received[c]) \subseteq ToSet(progress)
  /\ \A i, j \in DOMAIN received[c] :
       i < j => received[c][i].id < received[c][j].id

\* stream.rs `events': a stream that ended of itself has sent the outcome, and
\* it is the operation's.
EndTellsOutcome == \A c \in Clients :
  stream[c].pc = "ended" /\ wire[c] = <<>>
    => received[c] # <<>> /\ Last(received[c]).status = status

\* However often its connection breaks, a client that keeps reconnecting is
\* told the outcome (ARCHITECTURE S14, "SSE replay and reconnect"), unless the
\* outcome's id is below that of an entry another process committed before it.
OutcomeArrives == \A c \in Clients :
  Terminal(status) /\ ~Overtaken(Len(progress)) ~> Told(c)

\* stream.rs:40-42: "The stream ends when the operation reaches a terminal
\* status ...: leaving it open would hold a connection for nothing".
StreamEnds == \A c \in Clients : (Connected(c) /\ Terminal(status)) ~> ~Connected(c)

=============================================================================

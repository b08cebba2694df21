--------------------------- MODULE SiteEvents ---------------------------
(***************************************************************************)
(* The live events of a site, from the bus to the page: the event stream   *)
(* and its retention, the consumer and the inbox, the hub that keeps a     *)
(* window of the site's events, and the connections that read it           *)
(* (crates/eventing/src/{stream,consumer,inbox}.rs,                        *)
(* crates/public-api/src/site_events.rs, the retention sweep of            *)
(* services/edge/src/main.rs, startup rule V17).                           *)
(*                                                                         *)
(* One site. The consumer takes one message at a time; its transaction and *)
(* what follows the commit are separate steps, between which connections   *)
(* run and Edge may restart. A restart loses the hub, which is memory, and *)
(* takes a new epoch. A handler of a delivery takes less than a tick.      *)
(***************************************************************************)
EXTENDS Naturals, Sequences, FiniteSets

CONSTANTS
    Messages,     \* the events that producers send, 1 .. n
    Kind,         \* what each is: a release, a draft, an edit, or nothing
                  \* that the site's stream shows
    Clients,      \* the pages that open connections
    PerSite,      \* the bound of a site's anonymous connections, and of
                  \* those of its owner
    WindowEvents, \* the events a site keeps (256)
    WindowAge,    \* the ticks an event is kept (24 hours)
    StreamAge,    \* the ticks the bus keeps a message (EVENT_RETENTION_DAYS)
    InboxAge,     \* the ticks the inbox keeps a record (retention.inbox_days)
    MaxClock,     \* BOUND: ticks
    MaxRestarts   \* BOUND: restarts of Edge

(* Rule V17, without which Edge does not start.                            *)
RetentionRule == InboxAge >= StreamAge

ASSUME SiteEventsAssumption ==
    /\ Messages \subseteq Nat \ {0} /\ IsFiniteSet(Messages)
    /\ Kind \in [Messages -> {"release", "draft", "edit", "none"}]
    /\ IsFiniteSet(Clients)
    /\ {PerSite, WindowAge, StreamAge, InboxAge, MaxClock, MaxRestarts} \subseteq Nat
    /\ WindowEvents \in Nat \ {0}
    /\ RetentionRule

VARIABLES
    now,        \* the clock
    stream,     \* each message on the bus: where it is, when it was published
    inbox,      \* the records: when each message was processed, or Never
    consumer,   \* the message in hand and how far its delivery is
    epoch,      \* the start of Edge that runs
    log,        \* the window of the hub: sequence, message, time
    last,       \* the sequence of the last event of the site
    session,    \* whether the owner's session lives
    conns,      \* the connections, with what their clients know
    applied,    \* ghost: how often each message was applied
    appended    \* ghost: the messages of this epoch by sequence

bussed == <<stream, inbox, consumer, applied>>
hub == <<epoch, log, last, appended>>
siteVars == <<now, stream, inbox, consumer, epoch, log, last, session, conns, applied,
          appended>>

Never == MaxClock + 1
NoEvent == 0
Nothing == [phase |-> "idle", message |-> NoEvent]

(* A connection: whether it is the owner's, its cursor, the frames it has  *)
(* queued (0 is resync), the version of the wake it has seen, and whether  *)
(* its check is due. Its client: the id it would resume after, and the     *)
(* sequence up to which it has everything.                                 *)
Unused == [open |-> FALSE, owner |-> FALSE, waits |-> FALSE, cursor |-> 0, pending |-> <<>>,
           seen |-> 0, due |-> FALSE, id |-> <<>>, upto |-> 0]

Count == Cardinality(Messages)
Sequences == 0..Count

SiteTypeOK ==
    /\ now \in 0..MaxClock
    /\ stream \in [Messages -> [state: {"unsent", "ready", "held", "acked", "gone"},
                             at: 0..MaxClock]]
    /\ inbox \in [Messages -> 0..MaxClock \cup {Never}]
    /\ consumer \in [phase: {"idle", "begun", "committed", "settled"},
                     message: Messages \cup {NoEvent}]
    /\ epoch \in 0..MaxRestarts /\ last \in Sequences
    /\ Len(log) <= WindowEvents
    /\ \A i \in 1..Len(log) : log[i] \in [sequence: Sequences, message: Messages,
                                          at: 0..MaxClock]
    /\ session \in BOOLEAN
    /\ \A c \in Clients :
         /\ conns[c].cursor \in Sequences /\ conns[c].seen \in Sequences
         /\ conns[c].upto \in Sequences
         /\ conns[c].id = <<>> \/ conns[c].id \in (0..MaxRestarts) \X Sequences
    /\ applied \in [Messages -> 0..2]

SiteInit ==
    /\ now = 0
    /\ stream = [m \in Messages |-> [state |-> "unsent", at |-> 0]]
    /\ inbox = [m \in Messages |-> Never]
    /\ consumer = Nothing
    /\ epoch = 0 /\ log = <<>> /\ last = 0
    /\ session = TRUE
    /\ conns = [c \in Clients |-> Unused]
    /\ applied = [m \in Messages |-> 0] /\ appended = <<>>

-----------------------------------------------------------------------------
(* The bus (external): a producer publishes, the stream expires what is    *)
(* older than its age, and a message that was not acknowledged comes again.*)

Publish(m) ==
    /\ stream[m].state = "unsent"
    /\ \A n \in Messages : n < m => stream[n].state # "unsent"
    /\ stream' = [stream EXCEPT ![m] = [state |-> "ready", at |-> now]]
    /\ UNCHANGED <<now, inbox, consumer, hub, session, conns, applied>>

Redelivered(m) == IF stream[m].state = "held" THEN [stream[m] EXCEPT !.state = "ready"] ELSE stream[m]

SiteTick ==
    /\ now < MaxClock /\ consumer = Nothing
    /\ now' = now + 1
    /\ stream' = [m \in Messages |->
                 IF stream[m].state # "unsent" /\ now + 1 > stream[m].at + StreamAge
                   THEN [stream[m] EXCEPT !.state = "gone"] ELSE stream[m]]
    /\ UNCHANGED <<inbox, consumer, hub, session, conns, applied>>

(* The retention sweep: processed records older than the window go. A      *)
(* mutant takes those of the window's last tick as well.                   *)
ForgottenEarly(m) == inbox[m] # Never /\ inbox[m] + InboxAge <= now
Forgotten(m) == inbox[m] # Never /\ inbox[m] + InboxAge < now

CollectInbox ==
    /\ \E m \in Messages : Forgotten(m)
    /\ inbox' = [m \in Messages |-> IF Forgotten(m) THEN Never ELSE inbox[m]]
    /\ UNCHANGED <<now, stream, consumer, hub, session, conns, applied>>

-----------------------------------------------------------------------------
(* The consumer. Inbox::begin, the handler and Inbox::finish are one       *)
(* transaction; the event waits in "staged", which is the message in hand, *)
(* until the delivery settles.                                             *)

Receive(m) ==
    /\ consumer = Nothing /\ stream[m].state = "ready"
    /\ stream' = [stream EXCEPT ![m].state = "held"]
    /\ consumer' = [phase |-> "begun", message |-> m]
    /\ UNCHANGED <<now, inbox, hub, session, conns, applied>>

Hand == consumer.message

(* Recorded already: nothing is handled, nothing settles, it is acked.     *)
Duplicate ==
    /\ consumer.phase = "begun" /\ inbox[Hand] # Never
    /\ consumer' = [consumer EXCEPT !.phase = "settled"]
    /\ UNCHANGED <<now, stream, inbox, hub, session, conns, applied>>

Applies ==
    /\ inbox' = [inbox EXCEPT ![Hand] = now]
    /\ applied' = [applied EXCEPT ![Hand] = @ + 1]

Commit ==
    /\ consumer.phase = "begun" /\ inbox[Hand] = Never
    /\ Applies
    /\ consumer' = [consumer EXCEPT !.phase = "committed"]
    /\ UNCHANGED <<now, stream, hub, session, conns>>

(* A statement fails, or the commit does: the staged event is dropped and  *)
(* the message comes again after a Nak.                                    *)
RollBack ==
    /\ consumer.phase = "begun" /\ inbox[Hand] = Never
    /\ stream' = [stream EXCEPT ![Hand] = Redelivered(Hand)]
    /\ consumer' = Nothing
    /\ UNCHANGED <<now, inbox, hub, session, conns, applied>>

(* The commit took place and its answer is lost: deliver sees an error,    *)
(* settles as if it had not, and the message that comes again is a         *)
(* duplicate.                                                              *)
CommitUnheard ==
    /\ consumer.phase = "begun" /\ inbox[Hand] = Never
    /\ Applies
    /\ stream' = [stream EXCEPT ![Hand] = Redelivered(Hand)]
    /\ consumer' = Nothing
    /\ UNCHANGED <<now, hub, session, conns>>

(* What the window keeps: the newest, from the first that is not older     *)
(* than the age.                                                           *)
Kept(w) ==
    LET starts == {i \in 1..Len(w) : Len(w) - i < WindowEvents
                                       /\ w[i].at + WindowAge >= now}
    IN IF starts = {} THEN <<>>
       ELSE SubSeq(w, CHOOSE i \in starts : \A k \in starts : i <= k, Len(w))

Shown(m) == Kind[m] # "none"

(* settled, after the commit: the event is appended, unless it is older    *)
(* than the window, and the connections of the site wake.                  *)
Settle ==
    /\ consumer.phase = "committed"
    /\ IF Shown(Hand) /\ stream[Hand].at + WindowAge >= now
         THEN /\ last' = last + 1
              /\ log' = Kept(Append(log, [sequence |-> last + 1, message |-> Hand,
                                          at |-> stream[Hand].at]))
              /\ appended' = Append(appended, Hand)
         ELSE UNCHANGED <<last, log, appended>>
    /\ consumer' = [consumer EXCEPT !.phase = "settled"]
    /\ UNCHANGED <<now, stream, inbox, epoch, session, conns, applied>>

(* The acknowledgement, which may be lost.                                 *)
Ack ==
    /\ consumer.phase = "settled"
    /\ stream' = [stream EXCEPT ![Hand] =
                 IF @.state = "held" THEN [@ EXCEPT !.state = "acked"] ELSE @]
    /\ consumer' = Nothing
    /\ UNCHANGED <<now, inbox, hub, session, conns, applied>>

AckLost ==
    /\ consumer.phase = "settled"
    /\ stream' = [stream EXCEPT ![Hand] = Redelivered(Hand)]
    /\ consumer' = Nothing
    /\ UNCHANGED <<now, inbox, hub, session, conns, applied>>

(* Edge restarts: its memory is gone, a new epoch begins, the connections  *)
(* break and a message in hand comes again.                                *)
Restart ==
    /\ epoch < MaxRestarts
    /\ epoch' = epoch + 1
    /\ log' = <<>> /\ last' = 0 /\ appended' = <<>>
    /\ stream' = [m \in Messages |-> Redelivered(m)]
    /\ consumer' = Nothing
    /\ conns' = [c \in Clients |-> [Unused EXCEPT !.id = conns[c].id]]
    /\ UNCHANGED <<now, inbox, session, applied>>

-----------------------------------------------------------------------------
(* The connections.                                                        *)

connected == <<now, stream, inbox, consumer, epoch, log, last, session, applied,
               appended>>

(* The owner signs out, or the site is withdrawn.                          *)
SessionEnds ==
    /\ session
    /\ session' = FALSE
    /\ UNCHANGED <<now, bussed, hub, conns>>

Resync == <<0>>
Opened(owner) == {d \in Clients : conns[d].open /\ conns[d].owner = owner}

(* Whether this process issued the id, and it is not newer than the last   *)
(* event. A mutant forgets whose epoch it is.                              *)
KnownInAnyEpoch(id) == id[2] <= last
Known(id) == id[1] = epoch /\ id[2] <= last

(* The version of the wake. A mutant sends the number of events kept.      *)
VersionOfWindow == Len(log)
Version == last

(* A connection opens: at the last event without an id, after a known id,  *)
(* and with a resync after an unknown one. The owner's session makes it     *)
(* the owner's.                                                            *)
Connect(c, owner) ==
    LET client == conns[c]
        opened == [client EXCEPT !.open = TRUE, !.owner = owner, !.seen = Version]
    IN
    /\ ~client.open
    /\ owner => session
    /\ Cardinality(Opened(owner)) < PerSite
    /\ conns' = [conns EXCEPT ![c] =
                   IF client.id = <<>> THEN [opened EXCEPT !.cursor = last, !.upto = last]
                   ELSE IF Known(client.id) THEN [opened EXCEPT !.cursor = client.id[2]]
                   ELSE [opened EXCEPT !.cursor = last, !.pending = Resync]]
    /\ UNCHANGED connected

Closed(conn) == [conn EXCEPT !.open = FALSE, !.owner = FALSE, !.waits = FALSE, !.cursor = 0,
                             !.pending = <<>>, !.seen = 0, !.due = FALSE]

(* The connection breaks; the client keeps what it has received.           *)
Disconnect(c) ==
    /\ conns[c].open
    /\ conns' = [conns EXCEPT ![c] = Closed(@)]
    /\ UNCHANGED connected

(* The time of an owner connection's next check.                           *)
CheckDue(c) ==
    /\ conns[c].open /\ conns[c].owner /\ ~conns[c].due
    /\ conns' = [conns EXCEPT ![c].due = TRUE]
    /\ UNCHANGED connected

Runs(c) == conns[c].open /\ ~conns[c].waits

(* still_live: a dead session ends the connection, and so does a read that *)
(* fails.                                                                  *)
Check(c) ==
    /\ Runs(c) /\ conns[c].due
    /\ \/ session /\ conns' = [conns EXCEPT ![c].due = FALSE]
       \/ conns' = [conns EXCEPT ![c] = Closed(@)]
    /\ UNCHANGED connected

(* A frame leaves and the client has it: after a resync it reads the site  *)
(* again.                                                                  *)
Send(c) ==
    LET conn == conns[c]
        rest == [conn EXCEPT !.pending = Tail(@)]
        sequence == IF conn.pending = Resync THEN conn.cursor ELSE Head(conn.pending)
    IN
    /\ Runs(c) /\ ~conn.due /\ conn.pending # <<>>
    /\ conns' = [conns EXCEPT ![c] = [rest EXCEPT !.id = <<epoch, sequence>>,
                                                  !.upto = sequence]]
    /\ UNCHANGED connected

Visible(c, m) == conns[c].owner \/ Kind[m] = "release"

(* Some events after the cursor are no longer kept. A mutant misses a gap  *)
(* of one event.                                                           *)
GapOfTwo(cursor) == cursor < last /\ log # <<>> /\ cursor + 2 < Head(log).sequence
Gap(cursor) == cursor < last /\ log # <<>> /\ cursor + 1 < Head(log).sequence

(* Numbers in order: number i has i - 1 smaller ones.                      *)
InOrder(numbers) ==
    LET Smaller(n) == {k \in numbers : k < n}
    IN [i \in 1..Cardinality(numbers) |->
          CHOOSE n \in numbers : Cardinality(Smaller(n)) = i - 1]

(* The sequences of the kept events after the cursor that c may see, in    *)
(* the order of the window, which is theirs.                               *)
Unread(c) ==
    InOrder({log[i].sequence : i \in {k \in 1..Len(log) :
               log[k].sequence > conns[c].cursor /\ Visible(c, log[k].message)}})

(* fill, when nothing is queued: the events after the cursor, or a resync; *)
(* and when there is nothing to send, the connection waits.                *)
Fill(c) ==
    LET conn == conns[c]
        queue == IF Gap(conn.cursor) THEN Resync ELSE Unread(c)
    IN
    /\ Runs(c) /\ ~conn.due /\ conn.pending = <<>>
    /\ conns' = [conns EXCEPT ![c].cursor = last, ![c].pending = queue,
                              ![c].waits = queue = <<>>]
    /\ UNCHANGED connected

(* A wait ends: for an event of the site, or for the owner's check. A      *)
(* mutant waits for events alone.                                          *)
WokenByEvents(c) == Version # conns[c].seen
Woken(c) == Version # conns[c].seen \/ conns[c].due

Wake(c) ==
    /\ conns[c].open /\ conns[c].waits /\ Woken(c)
    /\ conns' = [conns EXCEPT ![c].waits = FALSE, ![c].seen = Version]
    /\ UNCHANGED connected

-----------------------------------------------------------------------------

ConnectionStep(c) == Check(c) \/ Send(c) \/ Fill(c) \/ Wake(c)

SiteNext ==
    \/ \E m \in Messages : Publish(m) \/ Receive(m)
    \/ SiteTick \/ CollectInbox
    \/ Duplicate \/ Commit \/ RollBack \/ CommitUnheard \/ Settle \/ Ack \/ AckLost
    \/ Restart \/ SessionEnds
    \/ \E c \in Clients : (\E owner \in BOOLEAN : Connect(c, owner)) \/ Disconnect(c) \/ CheckDue(c)
                             \/ ConnectionStep(c)

(* A connection's task runs and its timer fires; after a check the same    *)
(* turn of the loop sends or fills before the next check is due. Nobody    *)
(* has to publish, connect or stay.                                        *)
Fairness ==
    \A c \in Clients :
      /\ WF_siteVars(ConnectionStep(c)) /\ WF_siteVars(CheckDue(c))
      /\ SF_siteVars(Send(c) \/ Fill(c))

SiteSpec == SiteInit /\ [][SiteNext]_siteVars /\ Fairness

-----------------------------------------------------------------------------
(* A message the bus delivers again, after a lost acknowledgement, a       *)
(* rollback or a restart, is applied once, however late it comes: the      *)
(* inbox still has its record (V17, collect_processed).                    *)
AppliedOnce == \A m \in Messages : applied[m] <= 1

(* An event has one sequence in the window of a start of Edge: what comes  *)
(* again, with its acknowledgement lost, is not appended a second time     *)
(* (site_events.rs, the settling of a staged event).                       *)
ShownOnce == \A i, j \in DOMAIN appended : appended[i] = appended[j] => i = j

(* The frames queued for a client are every event it may see between what  *)
(* it has and its connection's cursor, once and in order, or a resync:     *)
(* what is no longer kept, or came in another start of Edge, is never      *)
(* skipped in silence (site_events.rs, cursor_of, read and fill).          *)
NoSilentGap ==
    \A c \in Clients :
      LET conn == conns[c]
      IN conn.open /\ conn.pending # Resync =>
           conn.pending = InOrder({n \in conn.upto + 1..conn.cursor :
                                     Visible(c, appended[n])})

(* What is behind: a connection whose client has not yet been sent an      *)
(* event it may see.                                                       *)
Behind(c) ==
    /\ conns[c].open
    /\ \/ conns[c].pending # <<>>
       \/ \E n \in conns[c].cursor + 1 .. last : Visible(c, appended[n])

(* A connection that is behind is served, ends, or breaks: no event leaves *)
(* a connection asleep (the watch channel of a site and the loop of        *)
(* Reader::events).                                                        *)
CatchesUp == \A c \in Clients : Behind(c) ~> ~Behind(c)

(* The stream of an owner whose session has ended ends as well, on a site  *)
(* without events too (OwnerWatch, still_live).                            *)
OwnerStreamEnds ==
    \A c \in Clients : ~session ~> ~(conns[c].open /\ conns[c].owner)

=============================================================================

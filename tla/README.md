# Formal model of ratatoskr-platform

TLA+ models of the parts of this repository that keep state under concurrency
and failure, the TLC runs that check small instances of them, and the theorems
that TLAPS checks for every value of the constants. Every definition is
translated from the code at the lines `PROJECT.json` names under `map`; line
numbers below are those of the repository.

Contents: 1 the system, 2 modules, 3 what each run shows, 4 bounds and fairness,
5 proofs, 6 where code and text disagree, 7 not modelled, 8 what is left.

## 1. The system

Three roles over one PostgreSQL database and one NATS JetStream broker.
*Edge* (`services/edge`) serves the public API and owns the loops that write
platform data: the outbox publisher, the consumers, the stale-operation reaper,
the retention sweep. *Ingest* (`services/ingest`) takes webhooks. *Scheduler*
(`services/scheduler`) turns schedules into commands. Domain services (extractor,
notes, sites, chatgpt, claude, ...) are elsewhere: they receive commands and
report progress over the bus, or are called through Edge.

| Component | State it keeps | Operations | Talks to | What is hard | What makes it correct |
|---|---|---|---|---|---|
| Operation projection (`crates/operations`) | `operations`, `operation_progress`, results, errors, warnings | accept, record status / result / error, cancel, reconcile, fail a forward, snapshot | consumers, reaper, forwards and the API, through one row lock | reports late, repeated, in any order, from anybody; instants read before the lock | one chronological history that ends once; only the service it was handed to is believed; nothing but an error before a success makes a row unreadable; every operation ends |
| Inbox and consumers (`crates/eventing`) | `inbox`, the durable's position | begin, finish, ack, nak | broker, projection, registrations, site events | crash between commit and ack | a report counts once, none is lost |
| Outbox (`crates/eventing`) | `outbox` | enqueue, claim, publish, mark, collect | whoever accepts work; the broker | leases that run out, answers that are lost, marks without an owner | published means stored; a dead letter stays; every message settles |
| Intake and idempotency (`crates/idempotency`, `intake.rs`, `webhook.rs`, `archives.rs`) | `idempotency_records` | reserve, complete, replay, collect | operations, outbox, archive acceptances, audit, in one transaction | concurrent retries statement by statement, expiry, unheard commits | one key, one meaning; all of an acceptance or nothing |
| Scheduler (`crates/scheduling`) | `schedules`, `schedule_occurrences` | pass, claim, publish, suppress, register, rewind, collect | operations, outbox, bus | overlapping processes, registrations under a pass, late passes | no due time twice for one owner and kind, none forgotten, a failing schedule stops nobody else |
| Progress stream (`stream.rs`) | the cursor of a connection | connect, poll, frame, end | progress history, clients | lost frames, reconnects, ids made before the commit | a client misses nothing but what was committed behind its cursor, and learns the outcome |
| Site event stream (`site_events.rs`) | per-site window, staged events, connections | stage, settle, read, resync, admit | the site event consumers, owner sessions | restart, gap, revocation, retention | applied once, no silent gap, an owner's stream ends with its session |
| Sessions, refresh chains, devices and pairing (`crates/identity`, `sessions.rs`, `devices.rs`) | sessions, refresh tokens, pairing codes, devices | create and redeem a code, log in, rotate, burn, revoke, authenticate | every route | replay against rotation against revocation; a login against a deletion | one live link, the credential is that of the link, a dead device is silent |
| Sign-in, sites' approvals, OAuth relay | users, external identities, assertions, site codes and sessions, manifests, approvals, callbacks | exchange, redeem, approve, withdraw, store and claim a callback | outbox, sessions | two first sign-ins; racing claims; instants read before the lock | one person per identity; a code is handed once; the newest announcement is the row |
| Archive transfer (`archives.rs`, `archives/`) | transfers, chunks, the staging directory | open, put chunk, finalize, end, sweep, reap | claude, chatgpt, operations | two finalizes over one file, the reaper, best-effort steps | finalized means received; what leaves is the declared chunks, but for holes in a torn file; live bytes stay; no directory leaks |
| Gateway and routes of Edge (`gateway.rs`, `site_*.rs`, `notes*.rs`, `captures.rs`, `library.rs`) | none of its own; an upload session at notes | authenticate, authorize, limit, relay, upload in three calls | domain services | what was checked may change before it is used; a path read three ways | authority was there; a session is only called dead when it is; an upload leaks only where nobody is left to close it; a path stays on its site |
| Limits (`limit.rs`) | token buckets per actor, client and site | charge, refill, evict | every route | stamps that arrive late; whole seconds | see section 6 |
| Process lifecycle (`crates/http`) | phase, readiness gauge, in-flight count, pool | start, probe, publish, shed, drain, abort, close | signals, listeners, PostgreSQL, the bus | shutdown under load, three writers of one gauge | no request is cut off by a graceful end; the gauge settles; the process ends |
| Retention sweep (`services/edge`) | none | the deletes of each table | all of the above | a row deleted while somebody needs it | the windows are ordered |

How the parts meet: a request passes the checks of its route (EdgeRequests,
RateLimit, with sessions and approvals from DeviceSessions and SignIn), reserves
its key, accepts an operation and enqueues its command in one transaction
(Intake); the outbox publisher takes the row to the broker (Outbox); the worker's
reports come back through the inbox and move the operation (Operations); a
client polls it or follows its history (ProgressStream). The scheduler enters at
the same place as a request does, with an occurrence id for a key (Scheduler).
Archives take a side road, over files instead of the bus (ArchiveTransfer). All
of it runs in processes that start, drain and stop (EdgeProcess).

`PROJECT.json` lists every component with what is modelled of it, and every
hazard with the line where it bites and the properties aimed at it.

## 2. Modules

| Module | Models | State and steps |
|---|---|---|
| `OperationLifecycle` | what a client is promised about one operation | `phase`, `shown`; Accept, Advance, Show. The abstract specification that `Operations` implements |
| `ReportAuthority` | `authority.rs`, `projection.rs` authorisation | operators only: who may report on what |
| `Operations` | the projection and all its writers | one variable per column the properties read; `consumer`, `forward`, `reaper` are the tasks, with the instant each read before it had the lock |
| `Outbox` | `outbox.rs`, `pump.rs`, `publisher.rs` | the row's columns as distances from now; `publisher[p]` is a pass: the claim, the answer, the mark |
| `IdempotentStore` | what a caller is promised of retries under one key | `stored`, `answered`; Store, Replay. The abstract specification that `Intake` implements |
| `Intake` | `idempotency/lib.rs decide`, `intake.rs`, `webhook.rs`, `archives.rs accept` | `ledger`, `operations`, `outbox`, `acceptances`, `audit`; `attempt[a]` is a request, one step per statement |
| `Scheduler` | `scheduling/lib.rs`, `registration.rs` | `schedule` with its calendar, owner and kind, `occurrences`, the keys that operations hold (owner, kind and due time), `commands` published; `pass[p]` and the registration under way; `forgotten`, a history of what the sweep took |
| `ProgressStream` | `stream.rs`, `progress_since`, the insertion of entries | the history in commit order, the writer that holds the row, the generator, the frames in flight, what the client has |
| `DeviceSessions` | `identity/{pairing,device,session,refresh}.rs`, `public-api/{devices,sessions,credentials}.rs` | `codes`, `devices`, `sessions`, `links`; `work[r]` is a request between its statements, with the rows it locks and what it read |
| `SignIn` | `identity/{user,grant,relay,assertion,site_sign_in}.rs`, `public-api/{auth,oauth,sites,site_sessions,site_approvals}.rs` | the person, `minted` (how many sessions each assertion opened, and for whom), site codes and sessions, grants, manifests, `approval`, `told` (the announcements), callbacks; one step per statement that races |
| `ArchiveTransfer` | `archives.rs`, `archives/{finalize,reaper,staging}.rs`, `operations/archive.rs` | the operation, the session row, directories and inodes, the receiver, the sweep, `torn` (a history of the files opened anew in the middle of a copy); `work[r]` is a request step by step. A file is named by its inode, so that a rename, a truncation and a write through an open handle are different things |
| `SiteEvents` | `site_events.rs`, the bus, the inbox and its retention (`validate.rs` V17) | `stream`, `inbox`, `consumer`, `log`, `epoch`, `conns` |
| `EdgeProcess` | `crates/http`: `lib.rs`, `lifecycle.rs`, `shutdown.rs`, `limit.rs` (shedding), `observe.rs`; `persistence/lib.rs` | `phase`, what the probes saw, `publishing[w]` (the writers of the gauge), `req[r]`, connections |
| `EdgeRequests` | the routes of Edge: which check comes in which order, over a world that changes | one request: `todo`, the stages its route still has; its client may leave it and its timeout may cut it off at any of them; `world`, the facts that hold; `sent`, `upload`, `answer`; the path's readings |
| `RateLimit` | `limit.rs` | `buckets` per limiter and key, `req[r]` with its stamp |
| `MC*` | the instances TLC checks | constants only |
| `*Proofs` | theorems | section 5 |

Two rules decide what is one step. A database transaction that locks the row it
works on is one step of whoever holds the lock; what it read before (an instant,
a selection without a lock) is a step of its own, kept in the task. Where no lock
spans the statements (the reservation of a key, an exchange, a redemption), each
statement is a step. A commit whose answer is lost, a rollback and a crash are
steps that can come between any two.

Definitions that a comment calls a variant or a mutant are not used by the
specifications: each is a plausible bug that replaces the definition after it,
and shows that a property would notice.

## 3. What each run shows

All runs together take about eight minutes on four workers. "States" is the
number of distinct states of the whole, finite instance.

| Run | Properties | Question | States |
|---|---|---|---|
| `operations` | `HistoryTellsTheStatus`, `EachReportCountsOnce`, `OnlyItsServiceIsBelieved`, `ImplementsLifecycle`, `FreshFactWins`, `EveryOperationEnds` | reports of a capture, an import or a connect in any order: repeated, contradicting, forged, foreign, misrouted, redelivered, with crashes, a refused forward, the reaper and a cancellation. Is the history chronological, does a report count once, is only its service believed, is a fresh fact left alone, does every operation end, and is it all an implementation of `OperationLifecycle`? | 227,157 |
| `outbox` | `NothingIsLost`, `DeadLetterStays`, `EveryMessageIsSettled` | two messages in one batch, two publishers whose passes outlive the lease, every answer uncertain, passes cut off at any row, the sweep | 254,929 |
| `intake` | `ImplementsStore`, `AcceptedWhole`, `EveryAttemptEnds` | two requests race under one key with the same or another body, over the end of the window and the sweep; webhooks of two sources with one identifier; a signal and an import. Is it all an implementation of `IdempotentStore`? | 272,159 |
| `scheduler` | `PublishedOnce`, `GridIsCovered`, `DueIsNotSkipped`, `OthersAreHandled` | two processes, late passes, registrations that change the calendar or the owner, a rewind and the sweep; a schedule that always fails beside one that works | 78,813 |
| `stream` | `NothingMissed`, `OutcomeArrives` | two Edge processes record, so that ids need not be committed in order; one client with lost connections, failed reads and reloads, rolled back entries: does it miss anything that was there to be read, and is it told the outcome? | 130,937 |
| `devices` | `OneLiveLink`, `CredentialFollowsLink`, `DeadDeviceIsSilent` | pairing, logins, rotations, replays, logout and deletion race at statement level | 1,227,459 |
| `signin` | `OnePerson`, `HandedOnce`, `NewestToldIsStored` | first exchanges of one identity, claims of a callback with its sweep, approvals and withdrawals of a site against its sign-ins | 2,368,832 |
| `archive` | `StoredMeansReceived`, `OnlyTornFilesStray`, `LiveBytesStay`, `LeftoversGo` | an upload of two chunks, the second right or wrong, with a second open, two finalizations that share a file, lost answers and the two phases of the reaper: do its bytes stay, is what leaves the declared chunks unless the file was torn, and is every directory removed in the end? | 885,567 |
| `site_events` | `AppliedOnce`, `NoSilentGap`, `CatchesUp`, `OwnerStreamEnds` | two events from the bus to a page, with lost acknowledgements, unheard commits, retention, restarts and broken connections | 267,638 |
| `edge_process` | `ConcurrencyIsBounded`, `GracefulServesAll`, `GaugeSettles`, `ShutdownEnds` | start, a database that goes away, requests that finish, hang or are left by their client, drain, grace, a second signal | 63,533 |
| `edge_requests` | `AuthorityWasThere`, `UnauthenticatedMeansDead`, `UploadsSettle`, `PathStaysOnItsSite` | 18 kinds of route with every credential, in a world that is whole or lacks one or two facts and changes twice during the request, left by its client or cut off by its timeout at any stage; every path of up to three segments | 2,704,759 |
| `limits_refill` | `RefillIsContinuous` | expected to be violated, section 6 | - |

Definitions stated in the modules that no configuration lists, because another
property says more or because they follow from the types: `TypeOK` of each
module, `AcknowledgedIsRecorded`, `OnlyEarlyErrorsHide`, `EndIsFinal`,
`OneStopCommandPerRequest`, `OneMeaningPerKey`, `ShownOnce`, `NothingTwice`,
`EndTellsOutcome`, `AllowanceIsKept`, `CreationNeverCollides`, `DeadStaysDead`,
`EndedStaysEnded` and `SessionEndsOnce`. They hold in the instances above, and
each of them is proved (section 5).

## 4. Bounds and fairness

*Operations.* `Horizon` stops new work and `MaxClock` leaves the reaper time to
act after it (`Horizon + StaleAfter < MaxClock`). Operations share nothing but
the reaper's batch, which one scene covers with two operations and a batch of
one. The run plays scenes (`MCOperations`): an operation and up to three of its
reports, never two scenes mixed. A scene only takes steps away from Accept and
Publish, of which the fairness requires nothing, so it is sound for the safety
properties and for `EveryOperationEnds`. Three reports cover every pair of
statuses whose order matters: live before and after an outcome, two disagreeing
outcomes, an outcome with and without an error, and each kind of report that
must be refused.

*Outbox.* Time is relative: `wait` and `lease` are distances from now, cut at
`-Longest`, so that the clock needs no bound and a lease can run out under a pass
at any point. Two attempts separate backing off from dead-lettering; two
publishers are what overlapping Edge processes make, because only Edge runs the
pump; two messages are the smallest batch that can be cut in the middle. Only
the new publisher is required to go on: the old one may stop anywhere.

*Intake.* Two attempts on one key: the race is between the statements of two
transactions, and a third can only meet what two leave behind (rows committed,
deleted or absent), which an attempt that starts again meets too. `TTL` and
`Longest` make a row expire before, during and after an attempt. The scenes of
`MCIntake` bound which doors and payloads meet: one route with two payloads, two
webhook sources, a signal and an import. They bound Begin, of which the fairness
requires nothing. `ThreeIds` is one more than the operations a scene can store.

*Scheduler.* A cron expression is a period, of one or two ticks; `Horizon` bounds
the clock, `MaxEdits` and `MaxRewinds` what registrations and operators do.
`Principals` stands for pairs of an owner and a kind, which an edit rewrites and
operations are keyed by; two of them, and `Registrations` that give the working
schedule to either, let an edit, a sweep and a rewind meet. Two
processes are a restart that overlaps a drain (ADR-0010 keeps one process per
role). Three points of the calendar let a late pass skip one, and the broken
schedule keeps its place in a batch of two. `Window = 0` lets the sweep take an
occurrence as early as the configuration allows.

*Progress stream.* An operation has at most three entries, so pages of one entry
show a history read in parts. `Ties` ids fit in a millisecond, two
milliseconds show an id of an earlier one, and two processes make ids that are
committed in the other order. Clients share nothing but the history, which
none of them writes: one is enough. (Two of them pass as well, with
`MaxFaults = 1`, in 1,141,124 states.) `MaxFaults` bounds lost connections,
failed reads and reloads.

*Devices.* Two requests in flight, two codes, three sessions and links: a
primary session, a device session and its successor. `MaxLapsed` lets one row
lapse at a time, which is enough to meet each check of an expiry with a row that
passed the one before. Requests are interchangeable, and only invariants are
checked, so their symmetry is sound.

*Sign-in.* One identity, two users that could be minted for it, one site with two
manifests of different hostnames, two changes of its approval. Requests are
symmetric here too.

*Archive.* Two chunks are the fewest that leave a file half written, two
finalizations of one session the fewest that share one. The second token shows
what becomes of the requests and the directory of the first session. `Openers`,
`Uploaders` and `Uploads` say which request may do what: both may finalize, and
only the second chunk of the first session may be put with other bytes, so that
a digest can fail after a good chunk and be repaired. `MaxFaults` bounds
failures of the reaper. The theorems of section 5 hold for any number of chunks
and tokens.

*Site events.* Two events and a window of one make a gap; one restart makes a
second epoch; two ticks outlive the window and the stream.

*Edge process and requests.* Two requests against a limit of one, one
connection; `MaxFlaps` is one loss or return of the database. A request of
EdgeRequests sees a world with up to two missing facts and two changes: a
property that relates a check to a later step needs one change between them,
and the second takes it back.

`CHECK_DEADLOCK FALSE` is in a configuration where the bounded system comes to
an end by itself: every report handled, every request answered, the clock at its
bound, the process stopped. It is absent where something can always happen.

Fairness is only what the processes give. Weak: the clock, the reapers' tickers,
the generator of a stream while its connection is open, the delivery of frames
on an open connection, a client that wants the outcome and reconnects, the tasks
and timers of a process. Strong: the steps a pass, a transaction, a sweep or a
delivery keeps reaching although it may be cut off at any time; the code retries
on every tick, so the step is taken in some round unless every round fails from
some instant on, which the models do not allow. A publisher or scheduler that is
going away owes nothing; of the second it is only assumed that it does go,
because until then it may hold the row. Nothing is assumed of workers, of the
broker's answers, of handlers (one may hang for ever and only its timeout ends
it), of requests in the middle of an upload, or of clients that do not retry:
`EveryOperationEnds` holds with a dead worker, `EveryMessageIsSettled` with a
broker that refuses for ever, `LeftoversGo` with requests that stop anywhere.

## 5. Proofs

The proofs assume only the named assumptions of the modules: constants are of
their kind, paths are sequences of names, sets that are counted are finite,
bounds are ordered, reports and operations are records of their kind, a report
agrees with itself as far as `projection.rs:184-196` checks it, no report comes
from Edge or its reaper themselves, doors differ in what identifies them, a calendar has a longest period, worlds hold a
site only with its approval, the inbox remembers as long as the stream delivers
(rule V17). TLC evaluates all of them. One hypothesis is stated with the
theorems that need it, those of RateLimit: `LimitsFit`, that limiters are
numbered, every request has a key at each, and allowances are at least one
request a minute. The numbers of operations, messages,
requests, processes, tokens, chunks, people, clients, path segments and clock
ticks are arbitrary.

Eight modules hold the theorems, three of them those of components that belong
together: `EdgeProofs` and `EventingProofs` of two, `AccessProofs` of three. The
later ones name their specifications apart (`RequestSpec`, `LimitsSpec`,
`StreamSpec`, `SiteSpec`).

`OperationsProofs`:

* `TypeCorrect`: `TypeOK`, with `HandlesAMessage` (a busy consumer has a
  message), without which the steps of a consumer are not typed.
* `OnlyItsServiceIsAlwaysBelieved` and `AcknowledgedIsAlwaysRecorded`: the inbox
  row is the witness. A message is only recorded as taken by a step whose guard
  is `Bound`, and only acknowledged from a state of the consumer that a record
  precedes; that second fact is the strengthening.
* `OneStopCommand`: the marker and the count move together.
* `HistoryAlwaysTells`: the conjuncts of `HistoryTellsTheStatus` are inductive
  together: an append keeps the order because the guard of the trigger compares
  with `status_changed_at`, which is the instant of the last entry.
* `EachReportAlwaysCountsOnce`: a diagnostic is written when its report is
  recorded, so that the inbox row excludes a second one; an error in the name of
  the Platform has no inbox row, and is written once because it is the end of its
  operation (`PlatformErrorIsTheEnd`), which no later writer passes.
* `FreshFactAlwaysWins`, `EndIsAlwaysFinal`: action properties, one case per
  step, from the types and the guard.
* `OnlyEarlyErrorsEverHide`: a row that cannot be read is a success with errors,
  and each of its errors came with a report of work that continues. The
  invariant says of every status what its results and errors may be
  (`EarlyErrors`): an error comes from a step that stores a failure, meets a row
  of a status that tolerates it, or belongs to a live report. That the second
  half cannot be strengthened to "every row is readable" is in section 6.
* `OperationsImplementLifecycle`: under `phase <- status`, every step accepts,
  advances, shows or stutters; `EndIsFinal` and the rank order carry it.

`EventingProofs`, the outbox (`NothingIsEverLost`, `DeadLetterAlwaysStays`,
`TypeCorrect`): the invariant adds to `NothingIsLost` that a pass which holds an
acknowledgement holds it of a stored message, and that a dead letter is
unpublished, in the table and out of attempts. Leases and clocks play no part:
the results hold although publishers overlap at will. `Distances` is the part of
the types that needs arithmetic.

`EventingProofs`, the site's live events (`AlwaysAppliedOnce`,
`GapsAreNeverSilent`, `AlwaysShownOnce`, `SiteTypeCorrect`):

* `OnceInv`: what the bus may still deliver is not older than `StreamAge`, and
  if it was applied its record is there, made after it was published; a record is
  swept after `InboxAge`. Rule V17 orders the two, and the proof uses it at one
  step, the sweep.
* `GapInv`: the window is the tail of the events of this epoch (`IsWindow`), the
  cursor is not past the last, an id of this epoch is what the client has, and
  what is queued is all that lies between (`Followed`). Reading the window after
  the cursor gives these events exactly when `Gap` is false. Sequences of numbers
  are defined by rank (`InOrder`), with the lemma that their head is the least
  and their tail the others in order (`InOrderGoesOn`).
* `AlwaysShownOnce` (`ShownInv`): what was appended in this start of Edge was
  applied, and an event that is committed but not yet settled was not appended;
  that second part is what a redelivery could break, and `AppliedOnce` is what
  keeps it.
* `SiteTypeCorrect`: the sequences are bounded by the number of events, because
  no event occurs in them twice (an injection, `SequencesSuffice`).

`IntakeProofs` (`TypeCorrect`, `OneMeaningAlways`, `AlwaysAcceptedWhole`,
`IntakeImplementsStore`): an attempt past its insert holds the row, what it saw
is committed, and the rows derived from an operation are there exactly when it is
(`OneOfAKind`, `Derived`). A property of answers alone is not inductive: the next
answer is copied from a row that another attempt wrote. The refinement maps
`stored` to the operations and `answered` to what callers were told. A commit
stores, heard or not: no other operation has its id or its key at its door
(`OneOfAKind`). An answer from the ledger repeats: its row points at a stored
operation of the same body (`ReplayIsOnRecord`). Every other statement, and the
sweep that forgets the row, stutters.

`SchedulerProofs` (`TypeCorrect`, `AlwaysPublishedOnce`, `GridAlwaysCovered`,
`DueNeverSkipped`): one command exists exactly for the keys that operations hold,
an occurrence on record has its operation, what was published is on record or
forgotten by the sweep (`Accounted`), so that only after the sweep can another
owner or kind publish it again; a pass that claimed a row locks it and
has the due time the row has. The coverage of the grid rests on a lemma about the
calendar (`NextPoint`): no common point of all periods lies strictly between an
instant and the next due time computed from it.

`AccessProofs`, devices and sessions (`TypeCorrect`, `OneLinkAlways`,
`CredentialAlwaysFollows`, `DeadDevicesStaySilent`, `CreationsNeverCollide`,
`RevokedForGood`): the invariant joins the
tables (a working link is the newest of its session, a live device session has a
live device) with what a request in flight still knows under its locks
(`ChainInv`). What a request read before it had the lock appears nowhere in it:
the results do not depend on those reads being current. A creation that waits has
seen every pending code, because it alone holds the owner's row (`CreationInv`).
A step leaves a revoked session its state and its credential and issues links to
sessions that are not revoked (`Buried`): a rotation that read a live session
before its revocation finds out under the lock.

`AccessProofs`, the requests of Edge (`AuthorityAlwaysWasThere`,
`UnauthenticatedAlwaysMeansDead`, `UploadsAlwaysSettle`): each list of stages is
in order (`Orderly`: the checks a route owes stand before every stage that lets a
request through; `UploadList`: opening comes after them all), and a request is at
a place of its list with everything before it earned (`AtStage`, `Earned`), in a
world whose past the ghosts keep (`Reading`). An answer of "unauthenticated" is
given at a failed stage, where the fact was missing at some instant. A session
at notes stays open only behind a handler that was dropped, by its client or by
the timeout of the request, or an answer that was lost: those are the answers
`UploadsSettle` names, and every other way out of an open upload passes the step
that closes it.
`PathAlwaysStays` rests on `ResolvedIsWhereItLeads`: the stack that the code
keeps while it folds over the segments leaves the prefix exactly when a part of
the path goes above its start, and ends with the segment the path leads to. It is
an induction over segments, by the least counterexample (`WFMin`, whose parameter
is a set, where the induction theorems take an operator). The invariant adds that
a path is only relayed after the check it owes was passed (`Earned`).
`RequestTypeCorrect` has the one fact that is not a matter of kinds: stages are
left exactly while there is no answer, because every list ends with one that
answers.

`AccessProofs`, the allowances (`AllowanceAlwaysKept`, `LimitsTypeCorrect`): the
invariant (`LimitsInv`) is a balance: what is in a bucket and what was taken from
it are never more than its burst and the refill of the seconds counted and of
those that a late stamp turned back. A bucket that is evicted was full, and
lacked something when it was last counted; the time since then pays for the full
one that replaces it.

`SignInProofs` (`TypeCorrect`, `HandedOnceAlways`, `OnePersonAlways`,
`NewestToldAlwaysStored`, `EndedForGood`): the count of handed codes is tied to the row's state;
the unique index of an identity makes the second creator meet the first, and a
session was opened only for an assertion whose nonce is on record, which refuses
it a second time (`PersonInv`); one request at a time holds the approval's row, and its instant
is above all announced ones (`TellingInv`); a code is presented by one request at
a time and opens its session in the step that consumes it (`RedeemInv`).

`ArchiveTransferProofs` (`TypeCorrect`, `StoredAlwaysReceived`,
`OnlyTornFilesEverStray`, `LiveBytesAlwaysStay`, `SessionsEndOnce`): rows
agree with their requests, files are apart unless two finalizations share one,
what an inode holds was copied from declared chunks up to the writer's offset
(`ContentsAgree`), and the receiver has what was sent. With two writers on one
inode the worst a file can be is holed, never wrong, and it has a hole only when
one of them opened it while the other was halfway (`HolesAreTorn`). A pigeonhole lemma shows that
a finalization always finds a free inode in the model. `LiveBytesAlwaysStay` and
`SessionsEndOnce` (an action property no configuration lists) rest on
`BytesInv`: every token that a request, a directory or the reaper names was
minted (`Known`), the token that a request is replacing, clearing or tidying is no
longer uploadable (`Over`), and what the reaper selected has no session that
can still be finalized (`Selected`). No step gives such a token its session back
(`NothingRevives`), which is why acting on an old selection harms nobody.

`EdgeProofs`, the process (`TypeCorrect`, `ConcurrencyAlwaysBounded`,
`GracefulAlwaysServesAll`): the counter is the cardinality of the requests that
hold a guard, and a pool is closed only when the listeners are.

`EdgeProofs`, the progress stream (`NothingEverTwice`, `StreamTypeCorrect`,
`NothingIsMissed`, `EndAlwaysTells`). Whoever records: the lists a client
has, that are on the wire and that the stream has in hand are committed entries,
each in order and above the one before, with the cursor in between (`FeedInv`),
because a page of entries with ids of their own is ordered (`PageIsOrdered`,
`EveryPlaceIsTaken`: counting smaller ids is an injection into the places, hence
onto them). So nothing comes twice. Nothing is missed either, of the entries
that were not overtaken by a larger id committed before them (`InTurn`): what
was sent has all of them below any entry of it, what is in hand has all of them
from the cursor on (`Gapless`), and the next entry that is not overtaken is above
every id a cursor can have. The number of recording processes is arbitrary; for
an overtaken entry the claim fails with two (section 6). No entry follows an
outcome, and a stream ends of itself only with the outcome as the last it sent
(`OutcomeInv`).

Every invariant, every refinement and every action property of the passing runs
has a theorem. Only model-checked is all liveness (`EveryOperationEnds`,
`EveryMessageIsSettled`, `EveryAttemptEnds`, `OthersAreHandled`,
`OutcomeArrives`, `LeftoversGo`, `CatchesUp`, `OwnerStreamEnds`, `GaugeSettles`,
`ShutdownEnds`): the prover has no rule for ENABLED, so fairness cannot be used.

No module uses a RECURSIVE operator.

## 6. Where code and text disagree

`limits_refill` is a run: `limit.rs:51` says that a refill is continuous rather
than stepped, but a decision counts whole seconds and restarts the count, so a caller who
comes more often than once a second is never refilled, and the bucket of a site,
which all visitors share, stays empty while they do. With fractional seconds the
same property holds (548,881 states).

The following sentences are stated in the modules and refuted when the
definition is named in the configuration of the module, as INVARIANT or PROPERTY
according to its form, and without SYMMETRY.

| Definition | The text | What the code does |
|---|---|---|
| `Operations!ReportingIsNeverHarvested` | `reconcile.rs:8-13`: a worker reporting without changing status is alive | a repeated status leaves no progress row; the reaper fails the operation |
| `Intake!TwoRoutesNeverCollide` (`Doors <- BothCaptures`, `Bodies <- OneBody`, `SPECIFICATION Spec`) | `schema.sql:1355-1356`: two routes never collide | the index on operations has no route: 504 for ever |
| `Operations!EveryOperationProjects` | `projection.rs:184-187`: a report the snapshot cannot represent is rejected, because every read of its operation would fail | each report is checked alone: a running one with an error, then a success, store such a row |
| `Scheduler!NeverTwice` | `scheduling/lib.rs:336-338`: three independent refusals of a duplicate | the operation refuses its owner and kind only: after a registration that changes either, the sweep of the occurrence and of its outbox row, and a rewind, a due time is published again |
| `Scheduler!RewindRepublishes` | `scheduling/lib.rs:487-489`: past the window a rewind republishes | for the same owner and kind, accept fails on the old key at every pass |
| `ProgressStream!StreamEnds` | `stream.rs:40-42`: the stream ends at a terminal status | a connection that resumes at the terminal entry never ends |
| `ProgressStream!LosesNothing` | `stream.rs:119-120`: the client reconnects and loses nothing; `operations/lib.rs:745-747`: the id is a cursor and a chronology | ids of two processes in one millisecond need not be in commit order, and a stream may have read past the one that comes late |
| `DeviceSessions!BudgetEndsCode` | `schema.sql:554-556`: a code at five mismatches is refused | the handler rolls the count back |
| `DeviceSessions!EveryRevocationHasItsWhy` | `sessions.rs` `revoke_all`: every revoked session gets its durable why | the list is an earlier statement, and misses a session opened since |
| `SignIn!SessionsEndWithApproval` | `site_approvals.rs` `withdraw_stored`: owner sessions end with the approval | a sign-in that read the approval before opens its session after it |
| `EdgeRequests!AnsweredUploadsSettle` | `site_edits.rs:247-249`: the upload session is closed after a failed step | `http/src/observe.rs:77-80` drops the handler when the request's timeout passes and answers 504, which closes nothing; `validate.rs:407-433` keeps the timeout above one response budget, not above the three calls together |
| `ArchiveTransfer!VerifiedBytesOnly` | `finalize.rs:142`: what is delivered was verified | two finalizations share `archive.assembling`; the second truncates what the first verified |

Other disagreements follow from what the models contain.

* Operations: a late failure report still appends its results and errors and
  overwrites `retryable` of an ended operation (`projection.rs:73`; ADR-0014,
  Consequences, calls it ignored).
* Outbox: `mark_failed` clears the lease of whoever holds the row now
  (`outbox.rs:202`, against `outbox.rs:98-99`, "each takes rows the others are
  not holding"); a message whose acknowledgements are all lost is dead-lettered
  although the broker has it (`outbox.rs:208`, against `outbox.rs:265-266`).
* Intake: after the idempotency window an operation still holds its key
  (`schema.sql:813`, against `schema.sql:1351-1352`, "the key may be used
  again").
* Edge process: the log field `in_flight_at_close` counts clients that left
  (`observe.rs:149-151` has no guard); "a deploy is never blocked by one stuck
  request" (`shutdown.rs`, step 5) does not reckon with `Database::close`, which
  waits for connections that requests hold; the comment of `spawn_bus_prober`
  says that readiness is only startup and drain, and `is_ready` also gates on
  dependencies.

Things a reader of the models may want to know, none of which a text denies:

* EdgeRequests: the parts of a capability are read at different instants, so
  their conjunction need not have held at any one; `AuthorityWasThere` says that
  each was there at some instant of the request. An answer lost when an upload
  opens, a client that leaves, or the timeout of the request leaves a session at
  notes until it expires; `UploadsSettle` excepts these and no other.
* ArchiveTransfer: two opens that both found a dead row, and the second deletes
  the live session of the first (`archives.rs:332`); a finalization whose answer
  was lost gets 404 once the sweep has taken its row.
* SignIn: two first approvals of a site have no row to lock;
  `NewestToldIsStored` excepts them by name (`raced`). An approval may name a
  manifest that is no longer active.
* SiteEvents: an event whose commit was unheard is shown only to a page that
  reloads; a client that connected and never received an event reconnects
  without an id and misses what happened in between.
* Scheduler: a broken schedule takes nothing from another's transaction
  (`scheduling/lib.rs:114-116`), but it keeps its place in the batch: as many of
  them as a pass takes (`TICK_BATCH`), due the longest, are selected again by
  every pass, and the ones behind them never. `OthersAreHandled` is refuted with
  `Batch = 1`.
* Scheduler: the third refusal, the outbox row of the same `message_id`, is
  silent (`on conflict do nothing`): where it outlives the occurrence record, as
  a dead letter does, the same path accepts an operation whose command is never
  sent. `commands` counts it as sent; the defaults keep the outbox for 30 days
  and occurrences for 90.
* RateLimit: a stamp that arrives late turns the instant of a bucket back;
  `AllowanceIsKept` counts that one refill.
* DeviceSessions: `create_code` and `redeem` lock two rows in opposite orders;
  the database rolls one of them back.
* The list of operations answers a `next_cursor` also when exactly `limit` rows
  are left.

## 7. Not modelled

Generated API documents, configuration values (but for the order of the
retention windows), the rendering of pages, append-only records and read-only
queries (audit, admin lists, status pages, metrics), cryptography (digests and
signatures are identities), the text of messages, and what domain services do
with a command beyond reporting on it. The projection of notes conflicts is left
out: it appends one result under the rules that Operations models for reports.
So is the erasure of stream facts (`stream_erasure.rs`), a consumer with the
inbox of the others: its deletions at the broker are not part of the
transaction, so after a rollback the redelivery finishes them and counts the
earlier ones as missing, where `schema.sql:1260-1262` reads as if the audit row
told them as erased.
The last-seen touch of a session decides nothing. The ceiling of bytes of a
stream (`DropOldest`) and the number of sites in the hub (`SITES_MAX`) are left
out of SiteEvents, and its three consumers are one. V17 is assumed of the limits
that Edge declares: a stream the broker already had is warned about and not
changed.

The database is taken at its word: a transaction is atomic, a unique index and a
CHECK hold, `for update` and `skip locked` do what PostgreSQL documents. The
broker keeps what it acknowledged.

## 8. What is left

* The erasure of facts of the event stream at a producer's request.
* Intake, Outbox, the bus and Operations composed, with the end to end promise
  that an accepted request is worked on or reported as failed.
* The conflict projection and the channel digests' routes.

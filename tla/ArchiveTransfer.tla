------------------------ MODULE ArchiveTransfer ------------------------
(***************************************************************************)
(* The upload of one AI archive: the accepted operation, the transfer      *)
(* session, its chunks, the staging directories, the delivery to the       *)
(* receiver and the reaper of what is left behind                          *)
(* (crates/public-api/src/archives.rs, archives/{finalize,reaper,          *)
(* staging}.rs, crates/operations/src/archive.rs).                         *)
(*                                                                         *)
(* No handler below holds a transaction open: every statement and every    *)
(* file operation is a step that other requests and the reaper interleave  *)
(* with. A request can end after any of its steps (Abandon): its client    *)
(* goes away, the process stops, or the next step fails.                   *)
(*                                                                         *)
(* A file that is being written is an inode, because two finalizations     *)
(* of one session open the same name: the second open truncates what the   *)
(* first has written, and the first goes on at its own offset.             *)
(***************************************************************************)
EXTENDS Naturals, FiniteSets

CONSTANTS
    Requests,    \* the requests that may be in flight at one time
    Openers, Uploaders,   \* BOUND: those that open a session, put a chunk
    Tokens,      \* resumption tokens, 1 .. n, minted in order
    Parts,       \* the number of chunks the upload plan expects
    Uploads,     \* BOUND: the chunks that clients put
    MaxFaults    \* BOUND: failures of the reaper

Bodies == {"right", "wrong"}   \* the declared bytes of a chunk, or others

ASSUME TransferAssumption ==
    /\ Tokens \subseteq Nat \ {0} /\ IsFiniteSet(Tokens) /\ IsFiniteSet(Requests)
    /\ Parts \in Nat \ {0} /\ MaxFaults \in Nat
    /\ Openers \subseteq Requests /\ Uploaders \subseteq Requests
    /\ Uploads \subseteq [token: Tokens, part: 1..Parts, body: Bodies]

Absent == "absent"             \* no chunk; also a hole in a file
NoFile == 0
Files == 1..Cardinality(Requests) + Cardinality(Tokens)
Content == [1..Parts -> Bodies \cup {Absent}]
Blank == [k \in 1..Parts |-> Absent]

VARIABLES
    operation,   \* the state of the accepted operation
    transfer,    \* the row of ai_archive_transfers, token 0 when there is none
    received,    \* its rows of ai_archive_transfer_chunks
    minted,      \* how many tokens were minted
    staging,     \* the staging directory of each token
    files,       \* what the archive files hold, by inode
    receiver,    \* whether the receiver has stored the archive
    work,        \* the requests in flight
    sweep,       \* the reaper: its phase, what it has selected, its failures
    torn         \* ghost: files truncated under a request halfway through them

tables == <<operation, transfer, received, minted>>
disk == <<staging, files, torn>>
vars == <<operation, transfer, received, minted, staging, files, receiver,
          work, sweep, torn>>

Idle == [op |-> "idle", token |-> 0, part |-> 0, body |-> Absent, rows |-> Blank,
         file |-> NoFile, right |-> TRUE]
NoTransfer == [token |-> 0, state |-> "open", expired |-> FALSE]
NoDirectory == [there |-> FALSE, chunks |-> Blank, assembling |-> NoFile]

TypeOK ==
    /\ operation \in {"none", "running", "terminal"}
    /\ transfer \in [token: Tokens \cup {0}, state: {"open", "finalized", "failed"},
                     expired: BOOLEAN]
    /\ received \in Content
    /\ minted \in Tokens \cup {0}
    /\ staging \in [Tokens -> [there: BOOLEAN, chunks: Content,
                               assembling: Files \cup {NoFile}]]
    /\ files \in [Files -> Content]
    /\ receiver \in BOOLEAN
    /\ work \in [Requests -> [op: {"idle", "replace", "clear", "insert", "mkdir", "place",
                                   "record", "create", "copy", "verify", "send",
                                   "stored", "tidy", "end_row", "end_operation", "end_files"},
                              token: Tokens \cup {0}, part: 0..Parts, body: Bodies \cup {Absent},
                              rows: Content, file: Files \cup {NoFile}, right: BOOLEAN]]
    /\ sweep \in [phase: {"rest", "sessions", "row", "scanned", "orphans"}, todo: SUBSET Tokens,
                  faults: 0..MaxFaults]
    /\ torn \subseteq Files

Init ==
    /\ operation = "none"
    /\ transfer = NoTransfer /\ received = Blank /\ minted = 0
    /\ staging = [t \in Tokens |-> NoDirectory]
    /\ files = [f \in Files |-> Blank]
    /\ receiver = FALSE
    /\ work = [r \in Requests |-> Idle]
    /\ sweep = [phase |-> "rest", todo |-> {}, faults |-> 0]
    /\ torn = {}

-----------------------------------------------------------------------------
(* What the statements ask.                                                *)

Terminal == operation = "terminal"

(* The binding of a token: a finalized session, or an open and unexpired   *)
(* one. The session that open_transfer replays is live in the same sense.  *)
Bound(t) ==
    /\ transfer.token = t /\ t # 0
    /\ transfer.state = "finalized" \/ (transfer.state = "open" /\ ~transfer.expired)

Uploading(t) == Bound(t) /\ transfer.state = "open"

(* A mutant: the candidates without the clock.                             *)
ReapableUnexpired(t, settled) ==
    /\ transfer.token = t /\ t # 0
    /\ transfer.state \in {"failed", "finalized"} \/ (Terminal /\ settled)

(* What the reaper may remove: its session failed or finalized, its clock  *)
(* ran out, or its operation has been terminal, and for how long is not    *)
(* modelled: a sweep finds that the grace has passed, or not.              *)
Reapable(t, settled) ==
    /\ transfer.token = t /\ t # 0
    /\ \/ transfer.state \in {"failed", "finalized"}
       \/ transfer.expired
       \/ Terminal /\ settled

To(r, op) == work' = [work EXCEPT ![r].op = op]
Done(r) == work' = [work EXCEPT ![r] = Idle]
Answered(r, op) ==
    work' = [work EXCEPT ![r] = [Idle EXCEPT !.op = op, !.token = work[r].token]]

Remove(t) == staging' = [staging EXCEPT ![t] = NoDirectory]

(* An unlinked file lives as long as somebody has it open.                 *)
InUse(f) ==
    \/ \E t \in Tokens : f = staging[t].assembling
    \/ \E r \in Requests : work[r].file = f

FreeFile == CHOOSE f \in Files : ~InUse(f)

(* After a name or a handle is gone: what nobody has any more is forgotten.*)
Forgets ==
    /\ files' = [f \in Files |-> IF InUse(f)' THEN files[f] ELSE Blank]
    /\ torn' = {f \in torn : InUse(f)'}

-----------------------------------------------------------------------------
(* POST /v1/ai-archives/{provider}: one transaction reserves the key,      *)
(* accepts the operation and binds it to the declared digest. A replay     *)
(* of the key finds the same operation.                                    *)
Prepare ==
    /\ operation = "none"
    /\ operation' = "running"
    /\ UNCHANGED <<transfer, received, minted, disk, receiver, work, sweep>>

(* The operation ends: the provider reports it, or its owner cancels it.   *)
OperationEnds ==
    /\ operation = "running"
    /\ operation' = "terminal"
    /\ UNCHANGED <<transfer, received, minted, disk, receiver, work, sweep>>

-----------------------------------------------------------------------------
(* POST .../uploads. The row is read without a lock. A bound session is    *)
(* replayed; a dead one is to be replaced. Nothing asks for the state of   *)
(* the operation.                                                          *)
OpenReads(r) ==
    /\ r \in Openers /\ work[r].op = "idle" /\ operation # "none"
    /\ ~Bound(transfer.token)
    /\ work' = [work EXCEPT ![r] =
                  [Idle EXCEPT !.op = IF transfer.token = 0 THEN "insert" ELSE "replace",
                               !.token = transfer.token]]
    /\ UNCHANGED <<tables, disk, receiver, sweep>>

(* The delete names the operation, not the token that was read.            *)
OpenReplaces(r) ==
    /\ work[r].op = "replace"
    /\ transfer' = NoTransfer /\ received' = Blank
    /\ To(r, "clear")
    /\ UNCHANGED <<operation, minted, disk, receiver, sweep>>

(* Best effort: the old directory may stay.                                *)
OpenClears(r) ==
    /\ work[r].op = "clear"
    /\ \/ Remove(work[r].token)
       \/ UNCHANGED staging
    /\ To(r, "insert")
    /\ Forgets
    /\ UNCHANGED <<tables, receiver, sweep>>

(* One session for each operation: the insert of a second one fails.       *)
OpenInserts(r) ==
    /\ work[r].op = "insert"
    /\ IF transfer.token = 0
         THEN /\ minted + 1 \in Tokens
              /\ minted' = minted + 1
              /\ transfer' = [NoTransfer EXCEPT !.token = minted + 1]
              /\ work' = [work EXCEPT ![r] = [Idle EXCEPT !.op = "mkdir", !.token = minted + 1]]
         ELSE Done(r) /\ UNCHANGED <<minted, transfer>>
    /\ UNCHANGED <<operation, received, disk, receiver, sweep>>

Made(d) == [d EXCEPT !.there = TRUE]

OpenMakesDirectory(r) ==
    /\ work[r].op = "mkdir"
    /\ staging' = [staging EXCEPT ![work[r].token] = Made(@)]
    /\ Done(r)
    /\ UNCHANGED <<tables, files, torn, receiver, sweep>>

-----------------------------------------------------------------------------
(* PUT .../chunks/{index}. A chunk that is recorded is answered from its   *)
(* row: a replay when the bytes are those, a conflict when not.            *)
PutReads(r) ==
    /\ r \in Uploaders /\ work[r].op = "idle"
    /\ \E u \in Uploads :
         /\ Uploading(u.token) /\ received[u.part] = Absent
         /\ work' = [work EXCEPT ![r] = [Idle EXCEPT !.op = "place", !.token = u.token,
                                                     !.part = u.part, !.body = u.body]]
    /\ UNCHANGED <<tables, disk, receiver, sweep>>

(* The directory is made when it is gone; the temporary file, which is     *)
(* synced, takes the name of the chunk in one step.                        *)
PutPlaces(r) ==
    /\ work[r].op = "place"
    /\ staging' = [staging EXCEPT ![work[r].token] =
                     [Made(@) EXCEPT !.chunks[work[r].part] = work[r].body]]
    /\ To(r, "record")
    /\ UNCHANGED <<tables, files, torn, receiver, sweep>>

(* The insert fails when the session is gone, and when the chunk of        *)
(* another request is recorded already.                                    *)
PutRecords(r) ==
    /\ work[r].op = "record"
    /\ received' = IF transfer.token = work[r].token /\ received[work[r].part] = Absent
                     THEN [received EXCEPT ![work[r].part] = work[r].body]
                     ELSE received
    /\ Done(r)
    /\ UNCHANGED <<operation, transfer, minted, disk, receiver, sweep>>

-----------------------------------------------------------------------------
(* POST .../finalize. A finalized session answers with the completion it   *)
(* stored and changes nothing; an open one needs every chunk of the plan.  *)
FinalizeReads(r) ==
    /\ work[r].op = "idle"
    /\ \E t \in Tokens :
         /\ Uploading(t) /\ \A k \in 1..Parts : received[k] # Absent
         /\ work' = [work EXCEPT ![r] =
                       [Idle EXCEPT !.op = "create", !.token = t, !.rows = received]]
    /\ UNCHANGED <<tables, disk, receiver, sweep>>

Halfway(r, f) == work[r].op = "copy" /\ work[r].file = f /\ work[r].part > 1

(* File::create: the file of that name is truncated when there is one.     *)
FinalizeCreates(r) ==
    LET t == work[r].token
        f == IF staging[t].assembling # NoFile THEN staging[t].assembling ELSE FreeFile
    IN /\ work[r].op = "create"
       /\ IF staging[t].there
            THEN /\ staging' = [staging EXCEPT ![t] = [Made(@) EXCEPT !.assembling = f]]
                 /\ files' = [files EXCEPT ![f] = Blank]
                 /\ torn' = IF \E q \in Requests : Halfway(q, f) THEN torn \cup {f}
                                                                ELSE torn \ {f}
                 /\ work' = [work EXCEPT ![r].op = "copy", ![r].part = 1, ![r].file = f]
            ELSE Done(r) /\ UNCHANGED disk
       /\ UNCHANGED <<tables, receiver, sweep>>

(* Whether the bytes that were read are those the row records.             *)
AsRecorded(r, chunk) == chunk = work[r].rows[work[r].part]

(* A chunk is read, compared with its row, hashed and appended at the      *)
(* offset this request has reached.                                        *)
FinalizeCopies(r) ==
    LET k == work[r].part
        chunk == staging[work[r].token].chunks[k]
    IN /\ work[r].op = "copy"
       /\ UNCHANGED <<tables, staging, receiver, sweep>>
       /\ IF chunk # Absent /\ AsRecorded(r, chunk)
            THEN /\ files' = [files EXCEPT ![work[r].file][k] = chunk]
                 /\ UNCHANGED torn
                 /\ work' = [work EXCEPT ![r].right = @ /\ chunk = "right",
                                         ![r].part = IF k = Parts THEN 0 ELSE k + 1,
                                         ![r].op = IF k = Parts THEN "verify" ELSE "copy"]
            ELSE Done(r) /\ Forgets

(* A mutant: nothing is compared.                                          *)
DigestMatchesUnasked(r) == work[r].op = "verify"

(* The digest of the bytes that were read against the declared one.        *)
DigestMatches(r) == work[r].right

FailSession(t) ==
    transfer' = IF transfer.token = t /\ transfer.state = "open"
                  THEN [transfer EXCEPT !.state = "failed"] ELSE transfer

(* A mismatch removes the file and ends the session. Otherwise             *)
(* archive.assembling becomes archive.verified and is opened for the       *)
(* stream: from then on the request has its file, whatever the name does.  *)
FinalizeVerifies(r) ==
    LET t == work[r].token
        f == staging[t].assembling
    IN /\ work[r].op = "verify"
       /\ staging' = [staging EXCEPT ![t].assembling = NoFile]
       /\ IF ~DigestMatches(r)
            THEN FailSession(t) /\ Done(r)
            ELSE /\ UNCHANGED transfer
                 /\ IF f = NoFile THEN Done(r)
                    ELSE work' = [work EXCEPT ![r].op = "send", ![r].file = f]
       /\ Forgets
       /\ UNCHANGED <<operation, received, minted, receiver, sweep>>

Whole(content) == content[Parts] # Absent
Declared(content) == \A k \in 1..Parts : content[k] = "right"

(* A mutant: every answer of the receiver is a success.                    *)
FinalizeSendsAnyAnswer(r) ==
    /\ work[r].op = "send"
    /\ receiver' = TRUE \/ UNCHANGED receiver
    /\ Answered(r, "stored")
    /\ UNCHANGED staging /\ Forgets
    /\ UNCHANGED <<tables, sweep>>

(* The file is streamed with the declared length and digest, and closed. A *)
(* file that is shorter breaks the request. The receiver verifies what it  *)
(* stores, replays what it has stored, and may refuse an archive it can    *)
(* read. Its answer may be lost.                                           *)
FinalizeSends(r) ==
    LET content == files[work[r].file]
    IN /\ work[r].op = "send"
       /\ \/ Declared(content) /\ receiver' = TRUE /\ (Answered(r, "stored") \/ Done(r))
          \/ Done(r) /\ UNCHANGED receiver
          \/ /\ Whole(content) /\ (Declared(content) => ~receiver)
             /\ Answered(r, "end_row") /\ UNCHANGED receiver
       /\ UNCHANGED staging /\ Forgets
       /\ UNCHANGED <<tables, sweep>>

(* The receiver has the bytes: the session is finalized.                   *)
FinalizeStores(r) ==
    /\ work[r].op = "stored"
    /\ transfer' = IF transfer.token = work[r].token /\ transfer.state = "open"
                     THEN [transfer EXCEPT !.state = "finalized"] ELSE transfer
    /\ To(r, "tidy")
    /\ UNCHANGED <<operation, received, minted, disk, receiver, sweep>>

(* The staged bytes go, at best effort, and the client is told.            *)
FinalizeTidies(r) ==
    /\ work[r].op = "tidy"
    /\ \/ Remove(work[r].token)
       \/ UNCHANGED staging
    /\ Done(r)
    /\ Forgets
    /\ UNCHANGED <<tables, receiver, sweep>>

-----------------------------------------------------------------------------
(* end_delivery: three steps, each of which may fail alone and is passed.  *)

EndsRow(r) ==
    /\ work[r].op = "end_row"
    /\ FailSession(work[r].token) \/ UNCHANGED transfer
    /\ To(r, "end_operation")
    /\ UNCHANGED <<operation, received, minted, disk, receiver, sweep>>

(* A terminal operation absorbs the report.                                *)
EndsOperation(r) ==
    /\ work[r].op = "end_operation"
    /\ operation' = "terminal" \/ UNCHANGED operation
    /\ To(r, "end_files")
    /\ UNCHANGED <<transfer, received, minted, disk, receiver, sweep>>

EndsFiles(r) ==
    /\ work[r].op = "end_files"
    /\ \/ Remove(work[r].token)
       \/ UNCHANGED staging
    /\ Done(r)
    /\ Forgets
    /\ UNCHANGED <<tables, receiver, sweep>>

(* A request ends early.                                                   *)
Abandon(r) ==
    /\ work[r].op # "idle"
    /\ Done(r)
    /\ UNCHANGED staging /\ Forgets
    /\ UNCHANGED <<tables, receiver, sweep>>

-----------------------------------------------------------------------------
(* The reaper. Its candidates are read once; each loses its directory      *)
(* first and its row second.                                               *)

Sweeps(phase, todo) == sweep' = [sweep EXCEPT !.phase = phase, !.todo = todo]

SweepSelects ==
    /\ sweep.phase = "rest"
    /\ \E settled \in BOOLEAN :
         Sweeps("sessions", {t \in Tokens : Reapable(t, settled)})
    /\ UNCHANGED <<tables, disk, receiver, work>>

(* A removal that fails leaves the row for the next sweep.                 *)
SweepRemoves ==
    /\ sweep.phase = "sessions"
    /\ \E t \in sweep.todo : Remove(t) /\ sweep' = [sweep EXCEPT !.phase = "row"]
    /\ UNCHANGED <<tables, receiver, work>> /\ Forgets

SweepDeletesRow ==
    /\ sweep.phase = "row"
    /\ \E t \in sweep.todo :
         /\ IF transfer.token = t
              THEN transfer' = NoTransfer /\ received' = Blank
              ELSE UNCHANGED <<transfer, received>>
         /\ Sweeps("sessions", sweep.todo \ {t})
    /\ UNCHANGED <<operation, minted, disk, receiver, work>>

(* The names of the directories older than the orphan age are read first,  *)
(* the rows that own one second. How old a directory is is not modelled:   *)
(* a sweep finds any of them old enough.                                   *)
Scan(names) ==
    /\ sweep.phase = "sessions" /\ sweep.todo = {}
    /\ Sweeps("scanned", names)
    /\ UNCHANGED <<tables, disk, receiver, work>>

There == {t \in Tokens : staging[t].there}
SweepScans == \E names \in SUBSET There : Scan(names)

(* A mutant: only a finalized session owns its directory.                  *)
OwnedFinalized(t) == transfer.token = t /\ transfer.state = "finalized"

Owned(t) == transfer.token = t

SweepAsksOwners ==
    /\ sweep.phase = "scanned"
    /\ Sweeps("orphans", {t \in sweep.todo : ~Owned(t)})
    /\ UNCHANGED <<tables, disk, receiver, work>>

SweepRemovesOrphan ==
    /\ sweep.phase = "orphans"
    /\ \E t \in sweep.todo :
         Remove(t) /\ sweep' = [sweep EXCEPT !.todo = @ \ {t}]
    /\ UNCHANGED <<tables, receiver, work>> /\ Forgets

SweepRests ==
    /\ sweep.phase = "orphans" /\ sweep.todo = {}
    /\ Sweeps("rest", {})
    /\ UNCHANGED <<tables, disk, receiver, work>>

(* The directory of one entry cannot be removed: it is passed, and its row *)
(* stays with it.                                                          *)
SweepPasses ==
    /\ sweep.phase \in {"sessions", "orphans"}
    /\ sweep.faults < MaxFaults
    /\ \E t \in sweep.todo :
         sweep' = [sweep EXCEPT !.todo = @ \ {t}, !.faults = @ + 1]
    /\ UNCHANGED <<tables, disk, receiver, work>>

(* A statement fails, or the process restarts: the next tick starts over.  *)
SweepFails ==
    /\ sweep.phase # "rest" /\ sweep.faults < MaxFaults
    /\ sweep' = [phase |-> "rest", todo |-> {}, faults |-> sweep.faults + 1]
    /\ UNCHANGED <<tables, disk, receiver, work>>

-----------------------------------------------------------------------------
(* The clock of a session runs out.                                        *)
TransferExpires ==
    /\ transfer.token # 0 /\ ~transfer.expired
    /\ transfer' = [transfer EXCEPT !.expired = TRUE]
    /\ UNCHANGED <<operation, received, minted, disk, receiver, work, sweep>>

-----------------------------------------------------------------------------

Open(r) ==
    \/ OpenReads(r) \/ OpenReplaces(r) \/ OpenClears(r) \/ OpenInserts(r)
    \/ OpenMakesDirectory(r)

PutChunk(r) == PutReads(r) \/ PutPlaces(r) \/ PutRecords(r)

Finalize(r) ==
    \/ FinalizeReads(r) \/ FinalizeCreates(r) \/ FinalizeCopies(r) \/ FinalizeVerifies(r)
    \/ FinalizeSends(r) \/ FinalizeStores(r) \/ FinalizeTidies(r)

EndDelivery(r) == EndsRow(r) \/ EndsOperation(r) \/ EndsFiles(r)

SweepStep ==
    \/ SweepSelects \/ SweepRemoves \/ SweepDeletesRow \/ SweepScans \/ SweepAsksOwners
    \/ SweepRemovesOrphan \/ SweepRests

Next ==
    \/ Prepare \/ OperationEnds
    \/ \E r \in Requests : Open(r) \/ PutChunk(r) \/ Finalize(r) \/ EndDelivery(r) \/ Abandon(r)
    \/ SweepStep \/ SweepPasses \/ SweepFails \/ TransferExpires

(* The ticker sweeps for as long as the process runs, and time passes: a   *)
(* session expires, and a sweep comes when every directory is old enough.  *)
(* Nothing is assumed of a request: it may stay where it is.               *)
Fairness ==
    /\ WF_vars(SweepStep)
    /\ WF_vars(TransferExpires)
    /\ SF_vars(Scan(There))

Spec == Init /\ [][Next]_vars /\ Fairness

-----------------------------------------------------------------------------
(* Properties.                                                             *)

(* A session is finalized, which is what a client is told and what every   *)
(* later finalization replays, only when the receiver has stored the       *)
(* declared bytes. finalize_transfer.                                      *)
StoredMeansReceived == transfer.state = "finalized" => receiver

(* What is streamed under the digest of the operation, when it has the     *)
(* declared length, is the declared chunks, whatever clients upload and    *)
(* however uploads, finalizations and sweeps meet: it never holds other    *)
(* bytes, and a hole only where a second finalization opened the file      *)
(* while one was halfway through it. finalize_transfer.                    *)
OnlyTornFilesStray ==
    \A r \in Requests :
      LET f == work[r].file
      IN work[r].op = "send" /\ Whole(files[f]) =>
           \A k \in 1..Parts :
             files[f][k] = "right" \/ (files[f][k] = Absent /\ f \in torn)

Working(t) == Uploading(t) /\ ~Terminal

(* A chunk that is staged for a session that can still be finalized stays  *)
(* until a request that heard a refusal for good removes it: neither the   *)
(* reaper, which acts on what it selected earlier, nor an open that        *)
(* replaces an older session takes it. sweep_once, open_transfer.          *)
LiveBytesStay ==
    [][\A t \in Tokens, k \in 1..Parts :
         (/\ Working(t) /\ Working(t)'
          /\ staging[t].chunks[k] # Absent
          /\ \A r \in Requests : ~(work[r].op = "end_files" /\ work[r].token = t))
           => staging'[t].chunks[k] # Absent]_vars

(* A session leaves "open" once: what was finalized is never marked        *)
(* failed, what failed is never finalized, and a token that lost its row   *)
(* never has one again. The two updates of finalize_transfer, end_delivery.*)
SessionEndsOnce ==
    [][\A t \in Tokens :
         transfer'.token = t =>
           \/ transfer.token = t /\ transfer.state \in {"open", transfer'.state}
           \/ transfer.token # t /\ t > minted]_vars

(* The directory of a session that is finished, or of no session at all,   *)
(* is removed in the end, whichever step of whichever request failed.      *)
(* end_delivery, sweep_once, the loop of staging.rs.                       *)
LeftoversGo ==
    \A t \in Tokens : (staging[t].there /\ ~Uploading(t)) ~> ~staging[t].there

(* Not a property of the code: two finalizations of one session write one  *)
(* archive.assembling, so the file that is renamed and streamed may have   *)
(* a hole although the digest of the chunks matched.                       *)
VerifiedBytesOnly ==
    \A r \in Requests : work[r].op = "send" /\ Whole(files[work[r].file])
                          => Declared(files[work[r].file])

=============================================================================

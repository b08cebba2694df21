------------------------- MODULE DeviceSessions -------------------------
(***************************************************************************)
(* How a device becomes trusted and how that trust ends: pairing codes,    *)
(* registered devices, device sessions, the rotating chain of refresh      *)
(* links, and the revocations (crates/identity/src/{pairing,device,        *)
(* session,refresh}.rs behind crates/public-api/src/{devices,credentials,  *)
(* sessions}.rs).                                                          *)
(*                                                                         *)
(* Every request is a transaction at READ COMMITTED that other requests    *)
(* interleave with. Its statements are steps of this module; what it has   *)
(* read, and the rows it keeps locked, are in its entry of "work". The     *)
(* last statement of a transaction and its commit are one step, which is   *)
(* where the tables change: the rows that such a step locks are released   *)
(* by the commit. A row lock that a foreign key takes counts: a row that   *)
(* names the owner waits for whoever holds the owner's row FOR UPDATE.     *)
(*                                                                         *)
(* One account owns everything. A caller of another account finds the      *)
(* owner of the row, is refused with the answer for a missing row, and     *)
(* writes an audit record only.                                            *)
(***************************************************************************)
EXTENDS Naturals, FiniteSets

CONSTANTS
    Requests,     \* the requests that may be in flight at one time
    Codes,        \* identities of pairing codes: 1 .. n, minted in order
    Devices,      \* identities of devices, registered in order
    Sessions,     \* identities of sessions; the first is the primary one
    Links,        \* identities of refresh links, issued in order
    Kinds,        \* the kinds of device
    Pins,         \* what a primary session pins on a code: kinds, or AnyKind
    Budget,       \* mismatched presentations that end a code (5 in the SQL)
    MaxWhys,      \* BOUND: revocation records counted for one session
    MaxLapsed     \* BOUND: rows that have lapsed at one time

ASSUME IdentitiesAssumption ==
    /\ Codes \subseteq Nat /\ Devices \subseteq Nat
    /\ Sessions \subseteq Nat /\ Links \subseteq Nat
    /\ Pins \subseteq Kinds \cup {"any"}
    /\ 0 \notin Devices \cup Sessions /\ Budget \in Nat /\ MaxWhys \in Nat \ {0}

AnyKind == "any"      \* a code that pins no kind
None == 0             \* no device

VARIABLES
    codes,      \* identity.pairing_codes
    devices,    \* identity.registered_devices: does the device live
    sessions,   \* identity.sessions
    links,      \* identity.refresh_tokens
    whys,       \* how many identity.revocations rows name the session
    work,       \* the transactions in flight
    misses,     \* presentations of a code that were refused for the kind
    collided    \* whether minting a code hit the one-pending-per-owner index

tables == <<codes, devices, sessions, links, whys>>
ghosts == <<misses, collided>>
vars == <<codes, devices, sessions, links, whys, work, misses, collided>>

Idle == [op |-> "idle", on |-> 0, seen |-> {}]

NoCode == [state |-> "unminted", kind |-> AnyKind, lapsed |-> FALSE, tries |-> 0]
NoSession == [state |-> "unborn", device |-> None, lapsed |-> FALSE, cred |-> None]
NoLink == [state |-> "unborn", session |-> 0, lapsed |-> FALSE]

TypeOK ==
    /\ codes \in [Codes -> [state: {"unminted", "pending", "superseded", "consumed"},
                            kind: Kinds \cup {AnyKind}, lapsed: BOOLEAN, tries: 0..Budget]]
    /\ devices \in [Devices -> {"unborn", "active", "revoked"}]
    /\ sessions \in [Sessions -> [state: {"unborn", "open", "revoked"},
                                  device: Devices \cup {None}, lapsed: BOOLEAN,
                                  cred: Links \cup {None}]]
    /\ links \in [Links -> [state: {"unborn", "fresh", "spent"},
                            session: Sessions \cup {0}, lapsed: BOOLEAN]]
    /\ whys \in [Sessions -> 0..MaxWhys]
    /\ work \in [Requests -> [op: {"idle", "create", "created", "pair", "open", "rotate",
                                   "swap", "burn", "delete", "revoke", "sweep"},
                              on: Nat, seen: SUBSET Nat]]
    /\ misses \in [Codes -> 0..Budget]
    /\ collided \in BOOLEAN

-----------------------------------------------------------------------------
(* Rows, locks and the end of a transaction.                               *)

(* The next identity to be born: they are UUIDv7 values, in order.         *)
Least(unborn) == {x \in unborn : \A y \in unborn : x <= y}
NewCode == Least({c \in Codes : codes[c].state = "unminted"})
NewDevice == Least({d \in Devices : devices[d] = "unborn"})
NewSession == Least({s \in Sessions : sessions[s].state = "unborn"})
NewLink == Least({l \in Links : links[l].state = "unborn"})

UserLocked == \E q \in Requests : work[q].op \in {"create", "created"}
CodeLocked(c) == \E q \in Requests : work[q].op = "pair" /\ work[q].on = c
DeviceLockedNever(d) == FALSE                                          \* MUTANT
DeviceLocked(d) == \E q \in Requests : work[q].op = "open" /\ work[q].on = d
LinkLockedNever(l) == FALSE                                            \* MUTANT
LinkLocked(l) == \E q \in Requests : work[q].op \in {"swap", "burn"} /\ work[q].on = l

Goes(r, op, on, seen) == work' = [work EXCEPT ![r] = [op |-> op, on |-> on, seen |-> seen]]
Ends(r) == work' = [work EXCEPT ![r] = Idle]

(* Session::is_live_at.                                                    *)
Live(s) == sessions[s].state = "open" /\ ~sessions[s].lapsed

(* record_revocation for each of a set of sessions; rows only accumulate.  *)
RecordRevocation(subjects) ==
    whys' = [s \in Sessions |-> IF s \in subjects /\ whys[s] < MaxWhys
                                THEN whys[s] + 1 ELSE whys[s]]

(* revoke_session and its variants: the first instant stays.               *)
Revoked(subjects) ==
    [s \in Sessions |-> IF s \in subjects /\ sessions[s].state = "open"
                        THEN [sessions[s] EXCEPT !.state = "revoked"] ELSE sessions[s]]

(* The bearer credential and the link that were minted together: a session *)
(* is opened for a device with the first link of its chain.                *)
OpensSession(d) ==
    \E s \in NewSession, l \in NewLink :
        /\ sessions' = [sessions EXCEPT ![s] = [state |-> "open", device |-> d,
                                                lapsed |-> FALSE, cred |-> l]]
        /\ links' = [links EXCEPT ![l] = [state |-> "fresh", session |-> s, lapsed |-> FALSE]]
-----------------------------------------------------------------------------
(* Pairing: a primary session mints a code, a device redeems it.           *)

(* create_code locks the owner's row before it looks at the codes.         *)
CreateLocks(r) ==
    /\ work[r].op = "idle"
    /\ ~UserLocked
    /\ Goes(r, "create", 0, {})
    /\ UNCHANGED <<tables, ghosts>>

Pending == {c \in Codes : codes[c].state = "pending"}

(* The superseding update starts: its snapshot names the pending codes.    *)
CreateLooks(r) ==
    /\ work[r].op = "create"
    /\ Goes(r, "created", 0, Pending)
    /\ UNCHANGED <<tables, ghosts>>

(* It waits for the rows of its snapshot, supersedes those that are still  *)
(* pending, and the new code is inserted under the partial unique index.   *)
CreateCode(r, kind) ==
    /\ work[r].op = "created"
    /\ \A c \in work[r].seen : ~CodeLocked(c)
    /\ Ends(r)
    /\ IF Pending \subseteq work[r].seen
       THEN /\ \E c \in NewCode :
                  codes' = [b \in Codes |->
                        IF b = c THEN [NoCode EXCEPT !.state = "pending", !.kind = kind]
                        ELSE IF b \in Pending THEN [codes[b] EXCEPT !.state = "superseded"]
                        ELSE codes[b]]
            /\ UNCHANGED collided
       ELSE collided' = TRUE /\ UNCHANGED codes
    /\ UNCHANGED <<devices, sessions, links, whys, misses>>

(* The row that redeem asks for.                                           *)
Redeemable(c) == codes[c].state = "pending" /\ ~codes[c].lapsed /\ codes[c].tries < Budget

(* redeem waits for the code's row and decides on its newest version.      *)
RedeemLocks(r, c, kind) ==
    /\ work[r].op = "idle"
    /\ codes[c].state # "unminted" /\ ~CodeLocked(c)
    /\ Redeemable(c) /\ codes[c].kind \in {AnyKind, kind}
    /\ Goes(r, "pair", c, {})
    /\ UNCHANGED <<tables, ghosts>>

(* kind_refused counts the attempt in the transaction, and the handler     *)
(* answers the refusal without a commit: the transaction rolls back, and   *)
(* the count with it.                                                      *)
RedeemRefuses(c, kind) ==
    /\ ~CodeLocked(c)
    /\ Redeemable(c) /\ codes[c].kind \notin {AnyKind, kind}
    /\ misses[c] < Budget
    /\ misses' = [misses EXCEPT ![c] = @ + 1]
    /\ UNCHANGED <<tables, work, collided>>

(* The grant: device, session, first link and the consumed code commit     *)
(* together. The device's row names the owner.                             *)
Redeem(r) ==
    /\ work[r].op = "pair"
    /\ ~UserLocked
    /\ Ends(r)
    /\ IF codes[work[r].on].state = "pending"
       THEN /\ codes' = [codes EXCEPT ![work[r].on].state = "consumed"]
            /\ \E d \in NewDevice :
                  /\ devices' = [devices EXCEPT ![d] = "active"]
                  /\ OpensSession(d)
       ELSE UNCHANGED <<codes, devices, sessions, links>>
    /\ UNCHANGED <<whys, ghosts>>
-----------------------------------------------------------------------------
(* The two exchanges a device drives itself: login and refresh.            *)

(* authenticate_device locks the row of an active device, or refuses.      *)
LoginLocks(r, d) ==
    /\ work[r].op = "idle"
    /\ devices[d] = "active" /\ ~DeviceLocked(d)
    /\ Goes(r, "open", d, {})
    /\ UNCHANGED <<tables, ghosts>>

Login(r) ==
    /\ work[r].op = "open"
    /\ ~UserLocked
    /\ OpensSession(work[r].on)
    /\ Ends(r)
    /\ UNCHANGED <<codes, devices, whys, ghosts>>

(* rotate_session starts: the statement's snapshot holds the session's     *)
(* columns, and they stay what they were while it waits for the link.      *)
RotateLooks(r, l) ==
    /\ work[r].op = "idle"
    /\ links[l].state # "unborn"
    /\ Goes(r, "rotate", l, IF Live(links[l].session) THEN {links[l].session} ELSE {})
    /\ UNCHANGED <<tables, ghosts>>

(* The link's row is locked and read in its newest version.                *)
RotateLocks(r) ==
    LET l == work[r].on IN
    /\ work[r].op = "rotate"
    /\ ~LinkLocked(l)
    /\ \/ links[l].state = "spent" /\ Goes(r, "burn", l, {})
       \/ links[l].state = "fresh" /\ ~links[l].lapsed /\ work[r].seen # {}
            /\ Goes(r, "swap", l, {})
       \/ links[l].state = "fresh" /\ (links[l].lapsed \/ work[r].seen = {})
            /\ Ends(r)
    /\ UNCHANGED <<tables, ghosts>>

(* MUTANT: the link rotates, the bearer credential does not.               *)
RotateSwapsLinkOnly(r) ==
    LET l == work[r].on
        s == links[l].session IN
    /\ work[r].op = "swap"
    /\ sessions[s].state = "open"
    /\ \E n \in NewLink :
          links' = [links EXCEPT ![l].state = "spent",
                                 ![n] = [state |-> "fresh", session |-> s, lapsed |-> FALSE]]
    /\ Ends(r)
    /\ UNCHANGED <<codes, devices, sessions, whys, ghosts>>

(* The successor, the spent link and the session's new credential commit   *)
(* together; a session that was revoked meanwhile rolls all of it back.    *)
RotateSwaps(r) ==
    LET l == work[r].on
        s == links[l].session IN
    /\ work[r].op = "swap"
    /\ Ends(r)
    /\ IF sessions[s].state = "open"
       THEN \E n \in NewLink :
               /\ links' = [links EXCEPT ![l].state = "spent",
                                         ![n] = [state |-> "fresh", session |-> s,
                                                 lapsed |-> FALSE]]
               /\ sessions' = [sessions EXCEPT ![s].cred = n, ![s].lapsed = FALSE]
       ELSE UNCHANGED <<links, sessions>>
    /\ UNCHANGED <<codes, devices, whys, ghosts>>

(* burn_family: a spent link was presented.                                *)
RotateBurns(r) ==
    LET s == links[work[r].on].session IN
    /\ work[r].op = "burn"
    /\ sessions' = Revoked({s})
    /\ RecordRevocation({s})
    /\ Ends(r)
    /\ UNCHANGED <<codes, devices, links, ghosts>>
-----------------------------------------------------------------------------
(* The lifecycle routes: each reads first and revokes in a later statement. *)

RevokeLooks(r, s) ==
    /\ work[r].op = "idle"
    /\ Live(s)
    /\ Goes(r, "revoke", s, {})
    /\ UNCHANGED <<tables, ghosts>>

RevokeSession(r) ==
    /\ work[r].op = "revoke"
    /\ ~UserLocked
    /\ sessions' = Revoked({work[r].on})
    /\ RecordRevocation({work[r].on})
    /\ Ends(r)
    /\ UNCHANGED <<codes, devices, links, ghosts>>

(* revoke_all collects the live sessions, revokes every unrevoked session  *)
(* of the owner, and records why for those it collected.                   *)
RevokeAllLooks(r) ==
    /\ work[r].op = "idle"
    /\ Goes(r, "sweep", 0, {s \in Sessions : Live(s)})
    /\ UNCHANGED <<tables, ghosts>>

RevokeAll(r) ==
    /\ work[r].op = "sweep"
    /\ ~UserLocked
    /\ sessions' = Revoked(Sessions)
    /\ RecordRevocation(work[r].seen)
    /\ Ends(r)
    /\ UNCHANGED <<codes, devices, links, ghosts>>

DeleteLooks(r, d) ==
    /\ work[r].op = "idle"
    /\ devices[d] = "active"
    /\ Goes(r, "delete", d, {})
    /\ UNCHANGED <<tables, ghosts>>

(* revoke_device waits for the device's row, and its second statement sees *)
(* every session that was opened while it waited.                          *)
DeleteDevice(r) ==
    LET d == work[r].on
        bound == {s \in Sessions : sessions[s].device = d /\ sessions[s].state = "open"} IN
    /\ work[r].op = "delete"
    /\ ~DeviceLocked(d) /\ ~UserLocked
    /\ devices' = [devices EXCEPT ![d] = "revoked"]
    /\ sessions' = Revoked(bound)
    /\ RecordRevocation(bound)
    /\ Ends(r)
    /\ UNCHANGED <<codes, links, ghosts>>
-----------------------------------------------------------------------------
(* Time, and a transaction that does not come to its end: a statement or   *)
(* the commit fails, the process dies, or Postgres picks it as the victim  *)
(* of a deadlock. Nothing of it is written.                                *)

RollsBack(r) ==
    /\ work[r].op # "idle"
    /\ Ends(r)
    /\ UNCHANGED <<tables, ghosts>>

Lapsed == Cardinality({c \in Codes : codes[c].lapsed})
          + Cardinality({s \in Sessions : sessions[s].lapsed})
          + Cardinality({l \in Links : links[l].lapsed})

CodeLapses(c) ==
    /\ Lapsed < MaxLapsed
    /\ codes[c].state = "pending"
    /\ codes' = [codes EXCEPT ![c].lapsed = TRUE]
    /\ UNCHANGED <<devices, sessions, links, whys, work, ghosts>>

SessionLapses(s) ==
    /\ Lapsed < MaxLapsed
    /\ sessions[s].state = "open"
    /\ sessions' = [sessions EXCEPT ![s].lapsed = TRUE]
    /\ UNCHANGED <<codes, devices, links, whys, work, ghosts>>

LinkLapses(l) ==
    /\ Lapsed < MaxLapsed
    /\ links[l].state = "fresh"
    /\ links' = [links EXCEPT ![l].lapsed = TRUE]
    /\ UNCHANGED <<codes, devices, sessions, whys, work, ghosts>>

Init ==
    /\ codes = [c \in Codes |-> NoCode]
    /\ devices = [d \in Devices |-> "unborn"]
    /\ sessions = [s \in Sessions |-> IF \A t \in Sessions : s <= t
                                      THEN [NoSession EXCEPT !.state = "open"] ELSE NoSession]
    /\ links = [l \in Links |-> NoLink]
    /\ whys = [s \in Sessions |-> 0]
    /\ work = [r \in Requests |-> Idle]
    /\ misses = [c \in Codes |-> 0]
    /\ collided = FALSE

Pairing == \E r \in Requests :
    \/ CreateLocks(r) \/ CreateLooks(r)
    \/ \E kind \in Pins : CreateCode(r, kind)
    \/ \E c \in Codes, kind \in Kinds : RedeemLocks(r, c, kind)
    \/ Redeem(r)

Exchange == \E r \in Requests :
    \/ \E d \in Devices : LoginLocks(r, d)
    \/ Login(r)
    \/ \E l \in Links : RotateLooks(r, l)
    \/ RotateLocks(r) \/ RotateSwaps(r) \/ RotateBurns(r)

Lifecycle == \E r \in Requests :
    \/ \E s \in Sessions : RevokeLooks(r, s)
    \/ RevokeSession(r)
    \/ RevokeAllLooks(r) \/ RevokeAll(r)
    \/ \E d \in Devices : DeleteLooks(r, d)
    \/ DeleteDevice(r)

Environment ==
    \/ \E r \in Requests : RollsBack(r)
    \/ \E c \in Codes, kind \in Kinds : RedeemRefuses(c, kind)
    \/ \E c \in Codes : CodeLapses(c)
    \/ \E s \in Sessions : SessionLapses(s)
    \/ \E l \in Links : LinkLapses(l)

Next == Pairing \/ Exchange \/ Lifecycle \/ Environment

Spec == Init /\ [][Next]_vars
-----------------------------------------------------------------------------
(* A session has one link that still works, however many presentations of  *)
(* its chain race (rotate_session locks the link it spends).               *)
OneLiveLink ==
    \A k, l \in Links :
        links[k].state = "fresh" /\ links[l].state = "fresh"
            /\ links[k].session = links[l].session => k = l

(* The credential a client can use is the one that was minted with the     *)
(* working link: rotation swaps both or neither.                           *)
CredentialFollowsLink ==
    \A l \in Links : links[l].state = "fresh" => sessions[links[l].session].cred = l

(* No session outlives its device: not one that a login opened while the   *)
(* deletion ran (revoke_device, authenticate_device).                      *)
DeadDeviceIsSilent ==
    \A s \in Sessions : sessions[s].device # None /\ sessions[s].state = "open"
        => devices[sessions[s].device] = "active"

(* Two racing creations queue on the owner's row, so neither fails on the  *)
(* one-pending index (the promise of create_code, pairing.rs:83-86).       *)
CreationNeverCollides == ~collided

(* A revocation is final: no rotation that was under way when a session    *)
(* was revoked or burned gives it a credential, a link or its life back.   *)
DeadStaysDead ==
    [][\A s \in Sessions : sessions[s].state = "revoked" =>
          /\ sessions'[s].state = "revoked" /\ sessions'[s].cred = sessions[s].cred
          /\ \A l \in Links : links[l].state = "unborn" => links'[l].session # s]_vars

(* Five mismatched presentations end a code: "a code at five is refused    *)
(* even when a later presentation has the matching attestation"            *)
(* (schema.sql:554-556). Refuted: the handler rolls the count back.        *)
BudgetEndsCode ==
    [][\A c \in Codes : misses[c] = Budget /\ codes'[c].state = "consumed"
          => codes[c].state = "consumed"]_vars

(* Every revoked session has a recorded reason: "every revoked session     *)
(* gets both its fast-path instant and its durable why, atomically"        *)
(* (sessions.rs, revoke_all). Refuted: the list is an earlier statement    *)
(* and leaves out a session that lapsed or was opened since.               *)
EveryRevocationHasItsWhy ==
    \A s \in Sessions : sessions[s].state = "revoked" => whys[s] > 0
=============================================================================

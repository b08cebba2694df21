-------------------------- MODULE AccessProofs --------------------------
(***************************************************************************)
(* Who gets in, and what that lets through.  First, what DeviceSessions    *)
(* promises of its chains and devices, for any number of requests, codes,  *)
(* devices, sessions and links.  Then, what EdgeRequests promises of a     *)
(* request, for any routes, credentials, paths and changes of the world.   *)
(* Last, what RateLimit promises, for any callers, keys and allowances.    *)
(***************************************************************************)
EXTENDS DeviceSessions, EdgeRequests, RateLimit, SequenceTheorems,
        FiniteSetTheorems, WellFoundedInduction, TLAPS

CodeRow == [state: {"unminted", "pending", "superseded", "consumed"},
            kind: Kinds \cup {AnyKind}, lapsed: BOOLEAN, tries: 0..Budget]
SessionRow == [state: {"unborn", "open", "revoked"}, device: Devices \cup {None},
               lapsed: BOOLEAN, cred: Links \cup {None}]
LinkRow == [state: {"unborn", "fresh", "spent"}, session: Sessions \cup {0},
            lapsed: BOOLEAN]
Task == [op: {"idle", "create", "created", "pair", "open", "rotate", "swap", "burn",
              "delete", "revoke", "sweep"}, on: Nat, seen: SUBSET Nat]

(* What a request relies on between its statements: the device it logs in  *)
(* lives while it holds the row, the link it swaps works, and nobody else  *)
(* holds that link.                                                        *)
LocksHold ==
    /\ \A r \in Requests : work[r].op = "open" =>
         work[r].on \in Devices /\ devices[work[r].on] = "active"
    /\ \A r \in Requests : work[r].op \in {"rotate", "swap", "burn"} => work[r].on \in Links
    /\ \A r \in Requests : work[r].op = "swap" => links[work[r].on].state = "fresh"
    /\ \A q, r \in Requests :
         /\ work[q].op \in {"swap", "burn"} /\ work[r].op \in {"swap", "burn"}
         /\ work[q].on = work[r].on
         => q = r

(* A link is issued for a session that was born with or before it.         *)
LinksAreOfSessions ==
    \A l \in Links : links[l].state # "unborn" =>
        links[l].session \in Sessions /\ sessions[links[l].session].state # "unborn"

Tables == TypeOK /\ LinksAreOfSessions /\ OneLiveLink /\ CredentialFollowsLink
                 /\ DeadDeviceIsSilent
ChainInv == Tables /\ LocksHold

USE IdentitiesAssumption

LEMMA Types ==
    ASSUME TypeOK
    PROVE  /\ sessions \in [Sessions -> SessionRow] /\ links \in [Links -> LinkRow]
           /\ devices \in [Devices -> {"unborn", "active", "revoked"}]
           /\ work \in [Requests -> Task] /\ codes \in [Codes -> CodeRow]
  BY DEF TypeOK, SessionRow, LinkRow, Task, CodeRow

(* The tables only change in the last step of a transaction; a step that   *)
(* starts or goes on with one keeps what is said of them.                  *)
LEMMA TablesUntouched ==
    ASSUME Tables, UNCHANGED <<tables, ghosts>>, work' \in [Requests -> Task]
    PROVE  Tables'
  BY DEF Tables, TypeOK, Task, tables, ghosts, LinksAreOfSessions, OneLiveLink,
         CredentialFollowsLink, DeadDeviceIsSilent

(* A request that takes no lock of a device or a link, with rows that stay *)
(* as others left them.                                                    *)
LEMMA LocksUntouched ==
    ASSUME LocksHold, TypeOK, NEW r \in Requests, NEW task \in Task,
           work' = [work EXCEPT ![r] = task],
           task.op \notin {"open", "rotate", "swap", "burn"},
           \A d \in Devices : DeviceLocked(d) /\ devices[d] = "active" => devices'[d] = "active",
           \A q \in Requests : q # r /\ work[q].op = "swap" =>
                                 links'[work[q].on].state = links[work[q].on].state
    PROVE  LocksHold'
  BY DEF LocksHold, TypeOK, DeviceLocked

(* Revoking sessions keeps the tables: it touches no link, no credential   *)
(* and no device, and a session that was born stays born.                  *)
LEMMA RevokingKeepsTables ==
    ASSUME Tables, NEW subjects \in SUBSET Sessions, NEW why \in SUBSET Nat,
           sessions' = Revoked(subjects), RecordRevocation(why),
           UNCHANGED <<codes, devices, links, ghosts>>, work' \in [Requests -> Task]
    PROVE  Tables'
  <1>1. \A s \in Sessions :
          /\ sessions'[s] \in SessionRow
          /\ sessions'[s].device = sessions[s].device /\ sessions'[s].cred = sessions[s].cred
          /\ sessions'[s].state = "unborn" <=> sessions[s].state = "unborn"
          /\ sessions'[s].state = "open" => sessions[s].state = "open" /\ s \notin subjects
    <2> SUFFICES ASSUME NEW s \in Sessions
                 PROVE  /\ sessions'[s] \in SessionRow
                        /\ sessions'[s].device = sessions[s].device
                        /\ sessions'[s].cred = sessions[s].cred
                        /\ sessions'[s].state = "unborn" <=> sessions[s].state = "unborn"
                        /\ sessions'[s].state = "open" =>
                             sessions[s].state = "open" /\ s \notin subjects
      OBVIOUS
    <2>1. sessions[s] \in SessionRow
      BY Types DEF Tables
    <2>2. CASE s \in subjects /\ sessions[s].state = "open"
      <3>1. sessions'[s] = [sessions[s] EXCEPT !.state = "revoked"]
        BY <2>2 DEF Revoked
      <3> QED BY <2>1, <2>2, <3>1 DEF SessionRow
    <2>3. CASE ~(s \in subjects /\ sessions[s].state = "open")
      <3>1. sessions'[s] = sessions[s]
        BY <2>3 DEF Revoked
      <3> QED BY <2>1, <2>3, <3>1
    <2> QED BY <2>2, <2>3
  <1>2. sessions' \in [Sessions -> SessionRow]
    BY <1>1 DEF Revoked
  <1>3. whys' \in [Sessions -> 0..MaxWhys]
    BY DEF Tables, TypeOK, RecordRevocation
  <1>4. TypeOK'
    BY <1>2, <1>3 DEF Tables, TypeOK, SessionRow, Task, ghosts
  <1>5. LinksAreOfSessions' /\ CredentialFollowsLink' /\ OneLiveLink'
    <2>1. \A l \in Links : links[l].state = "fresh" => links[l].session \in Sessions
      BY DEF Tables, LinksAreOfSessions
    <2>2. LinksAreOfSessions'
      BY <1>1 DEF Tables, LinksAreOfSessions
    <2>3. CredentialFollowsLink'
      BY <1>1, <2>1 DEF Tables, CredentialFollowsLink
    <2>4. OneLiveLink'
      BY DEF Tables, OneLiveLink
    <2> QED BY <2>2, <2>3, <2>4
  <1>6. DeadDeviceIsSilent'
    BY <1>1 DEF Tables, DeadDeviceIsSilent
  <1> QED BY <1>4, <1>5, <1>6 DEF Tables

(* A deletion revokes every session that is bound to the device.           *)
LEMMA DeletingKeepsTables ==
    ASSUME Tables, NEW d,
           sessions' = Revoked({s \in Sessions : sessions[s].device = d
                                                 /\ sessions[s].state = "open"}),
           RecordRevocation({s \in Sessions : sessions[s].device = d
                                              /\ sessions[s].state = "open"}),
           devices' = [devices EXCEPT ![d] = "revoked"],
           UNCHANGED <<codes, links, ghosts>>, work' \in [Requests -> Task]
    PROVE  Tables'
  <1>1. \A s \in Sessions :
          /\ sessions'[s] \in SessionRow
          /\ sessions'[s].device = sessions[s].device /\ sessions'[s].cred = sessions[s].cred
          /\ sessions'[s].state = "unborn" <=> sessions[s].state = "unborn"
          /\ sessions'[s].state = "open" => sessions[s].state = "open" /\ sessions[s].device # d
    <2> TAKE s \in Sessions
    <2>1. sessions[s] \in SessionRow
      BY Types DEF Tables
    <2>2. CASE sessions[s].device = d /\ sessions[s].state = "open"
      <3>1. sessions'[s] = [sessions[s] EXCEPT !.state = "revoked"]
        BY <2>2 DEF Revoked
      <3> QED BY <2>1, <2>2, <3>1 DEF SessionRow
    <2>3. CASE ~(sessions[s].device = d /\ sessions[s].state = "open")
      <3>1. sessions'[s] = sessions[s]
        BY <2>3 DEF Revoked
      <3> QED BY <2>1, <2>3, <3>1
    <2> QED BY <2>2, <2>3
  <1>2. sessions' \in [Sessions -> SessionRow]
    BY <1>1 DEF Revoked
  <1>3. whys' \in [Sessions -> 0..MaxWhys]
    BY DEF Tables, TypeOK, RecordRevocation
  <1>4. devices' \in [Devices -> {"unborn", "active", "revoked"}]
    BY Types DEF Tables
  <1>5. TypeOK'
    BY <1>2, <1>3, <1>4 DEF Tables, TypeOK, SessionRow, Task, ghosts
  <1>6. LinksAreOfSessions' /\ CredentialFollowsLink' /\ OneLiveLink'
    <2>1. \A l \in Links : links[l].state = "fresh" => links[l].session \in Sessions
      BY DEF Tables, LinksAreOfSessions
    <2>2. LinksAreOfSessions'
      BY <1>1 DEF Tables, LinksAreOfSessions
    <2>3. CredentialFollowsLink'
      BY <1>1, <2>1 DEF Tables, CredentialFollowsLink
    <2>4. OneLiveLink'
      BY DEF Tables, OneLiveLink
    <2> QED BY <2>2, <2>3, <2>4
  <1>7. DeadDeviceIsSilent'
    <2> SUFFICES ASSUME NEW s \in Sessions, sessions'[s].device # None,
                        sessions'[s].state = "open"
                 PROVE  devices'[sessions'[s].device] = "active"
      BY DEF DeadDeviceIsSilent
    <2>1. /\ sessions'[s].device = sessions[s].device /\ sessions[s].state = "open"
          /\ sessions[s].device # d
      BY <1>1
    <2>2. sessions[s].device \in Devices
      BY <2>1, Types DEF Tables, SessionRow
    <2> QED BY <2>1, <2>2, Types DEF Tables, DeadDeviceIsSilent
  <1> QED BY <1>5, <1>6, <1>7 DEF Tables

(* A session that opens over a live device gets the first link of a chain  *)
(* of its own: no link named it before, because it was not born.           *)
LEMMA OpeningKeepsTables ==
    ASSUME Tables, NEW d \in Devices, OpensSession(d), devices'[d] = "active",
           devices' \in [Devices -> {"unborn", "active", "revoked"}],
           \A e \in Devices : devices[e] = "active" => devices'[e] = "active",
           codes' \in [Codes -> CodeRow], UNCHANGED <<whys, ghosts>>,
           work' \in [Requests -> Task]
    PROVE  Tables' /\ \A l \in Links : links[l].state # "unborn" => links'[l] = links[l]
  <1>1. PICK s \in Sessions, n \in Links :
          /\ sessions[s].state = "unborn" /\ links[n].state = "unborn"
          /\ sessions' = [sessions EXCEPT ![s] = [state |-> "open", device |-> d,
                                                  lapsed |-> FALSE, cred |-> n]]
          /\ links' = [links EXCEPT ![n] = [state |-> "fresh", session |-> s,
                                            lapsed |-> FALSE]]
    BY DEF OpensSession, NewSession, NewLink, Least
  <1>2. sessions' \in [Sessions -> SessionRow] /\ links' \in [Links -> LinkRow]
    BY <1>1, Types DEF Tables, SessionRow, LinkRow
  <1>3. TypeOK'
    BY <1>2 DEF Tables, TypeOK, SessionRow, LinkRow, Task, CodeRow, ghosts
  <1>4. \A l \in Links : links[l].state # "unborn" => l # n /\ links[l].session # s
    BY <1>1 DEF Tables, LinksAreOfSessions
  <1>5. \A l \in Links : l # n => links'[l] = links[l]
    BY <1>1, Types DEF Tables
  <1>6. \A t \in Sessions : t # s => sessions'[t] = sessions[t]
    BY <1>1, Types DEF Tables
  <1>7. links'[n] = [state |-> "fresh", session |-> s, lapsed |-> FALSE]
    BY <1>1, Types DEF Tables
  <1>8. sessions'[s] = [state |-> "open", device |-> d, lapsed |-> FALSE, cred |-> n]
    BY <1>1, Types DEF Tables
  <1>9. LinksAreOfSessions'
    <2> SUFFICES ASSUME NEW l \in Links, links'[l].state # "unborn"
                 PROVE  /\ links'[l].session \in Sessions
                        /\ sessions'[links'[l].session].state # "unborn"
      BY DEF LinksAreOfSessions
    <2>1. CASE l = n
      BY <1>7, <1>8, <2>1
    <2>2. CASE l # n
      <3>1. links'[l] = links[l] /\ links[l].state # "unborn"
        BY <1>5, <2>2
      <3>2. /\ links[l].session \in Sessions /\ links[l].session # s
            /\ sessions[links[l].session].state # "unborn"
        BY <3>1, <1>4 DEF Tables, LinksAreOfSessions
      <3>3. sessions'[links[l].session] = sessions[links[l].session]
        BY <3>2, <1>6
      <3> QED BY <3>1, <3>2, <3>3
    <2> QED BY <2>1, <2>2
  <1>10. OneLiveLink'
    <2>1. \A l \in Links : l # n /\ links'[l].state = "fresh"
            => links'[l] = links[l] /\ links'[l].session # s
      BY <1>4, <1>5
    <2>2. links'[n].session = s
      BY <1>7
    <2> QED BY <2>1, <2>2 DEF Tables, OneLiveLink
  <1>11. CredentialFollowsLink'
    <2> SUFFICES ASSUME NEW l \in Links, links'[l].state = "fresh"
                 PROVE  sessions'[links'[l].session].cred = l
      BY DEF CredentialFollowsLink
    <2>1. CASE l = n
      BY <1>7, <1>8, <2>1
    <2>2. CASE l # n
      <3>1. links'[l] = links[l] /\ links[l].state = "fresh"
        BY <1>5, <2>2
      <3>2. links[l].session \in Sessions /\ links[l].session # s
        BY <3>1, <1>4 DEF Tables, LinksAreOfSessions
      <3>3. sessions'[links[l].session] = sessions[links[l].session]
        BY <3>2, <1>6
      <3>4. sessions[links[l].session].cred = l
        BY <3>1 DEF Tables, CredentialFollowsLink
      <3> QED BY <3>1, <3>3, <3>4
    <2> QED BY <2>1, <2>2
  <1>12. DeadDeviceIsSilent'
    <2> SUFFICES ASSUME NEW t \in Sessions, sessions'[t].device # None,
                        sessions'[t].state = "open"
                 PROVE  devices'[sessions'[t].device] = "active"
      BY DEF DeadDeviceIsSilent
    <2>1. CASE t = s
      BY <1>8, <2>1
    <2>2. CASE t # s
      <3>1. sessions'[t] = sessions[t] /\ sessions[t].device \in Devices \cup {None}
        BY <1>6, <2>2, Types DEF Tables, SessionRow
      <3> QED BY <3>1 DEF Tables, DeadDeviceIsSilent
    <2> QED BY <2>1, <2>2
  <1> QED BY <1>3, <1>4, <1>5, <1>9, <1>10, <1>11, <1>12 DEF Tables

(* The swap: the presented link was the one that works, so its successor   *)
(* is the only one, and the session's credential is minted with it.        *)
LEMMA SwappingKeepsTables ==
    ASSUME Tables, NEW r \in Requests, RotateSwaps(r), LocksHold
    PROVE  Tables' /\ \A k \in Links : k # work[r].on /\ links[k].state # "unborn"
                                         => links'[k] = links[k]
  <1> DEFINE l == work[r].on
  <1> DEFINE s == links[l].session
  <1>1. l \in Links /\ links[l].state = "fresh" /\ s \in Sessions
        /\ sessions[s].state # "unborn"
    BY DEF RotateSwaps, LocksHold, Tables, LinksAreOfSessions
  <1>2. work' \in [Requests -> Task]
    BY Types DEF Tables, RotateSwaps, Ends, Idle, Task
  <1>3. CASE sessions[s].state # "open"
    <2>1. UNCHANGED <<tables, ghosts>>
      BY <1>3 DEF RotateSwaps, tables
    <2> QED BY <1>2, <2>1, TablesUntouched DEF tables
  <1>4. CASE sessions[s].state = "open"
    <2>1. PICK n \in Links :
            /\ links[n].state = "unborn"
            /\ links' = [links EXCEPT ![l].state = "spent",
                             ![n] = [state |-> "fresh", session |-> s, lapsed |-> FALSE]]
            /\ sessions' = [sessions EXCEPT ![s].cred = n, ![s].lapsed = FALSE]
      BY <1>4 DEF RotateSwaps, NewLink, Least
    <2>2. n # l
      BY <1>1, <2>1
    <2>3. /\ links'[n] = [state |-> "fresh", session |-> s, lapsed |-> FALSE]
          /\ links'[l] = [links[l] EXCEPT !.state = "spent"]
          /\ \A k \in Links : k # n /\ k # l => links'[k] = links[k]
          /\ links' \in [Links -> LinkRow]
      <3>1. links \in [Links -> LinkRow]
        BY Types DEF Tables
      <3>2. [links[l] EXCEPT !.state = "spent"] \in LinkRow
        BY <1>1, <3>1 DEF LinkRow
      <3>3. [state |-> "fresh", session |-> s, lapsed |-> FALSE] \in LinkRow
        BY <1>1 DEF LinkRow
      <3>4. links' = [links EXCEPT ![l] = [links[l] EXCEPT !.state = "spent"],
                             ![n] = [state |-> "fresh", session |-> s, lapsed |-> FALSE]]
        BY <1>1, <2>1, <3>1
      <3> QED BY <1>1, <2>2, <3>1, <3>2, <3>3, <3>4
    <2>4. /\ sessions'[s].cred = n /\ sessions'[s].state = sessions[s].state
          /\ sessions'[s].device = sessions[s].device
          /\ \A t \in Sessions : t # s => sessions'[t] = sessions[t]
          /\ sessions' \in [Sessions -> SessionRow]
      <3> DEFINE new == [sessions[s] EXCEPT !.cred = n, !.lapsed = FALSE]
      <3>1. sessions \in [Sessions -> SessionRow] /\ sessions[s] \in SessionRow
        BY <1>1, Types DEF Tables
      <3>2. /\ new \in SessionRow /\ new.cred = n
            /\ new.state = sessions[s].state /\ new.device = sessions[s].device
        BY <3>1 DEF SessionRow
      <3>3. sessions' = [sessions EXCEPT ![s] = new]
        BY <1>1, <2>1, <3>1
      <3> HIDE DEF new
      <3> QED BY <1>1, <3>1, <3>2, <3>3
    <2>5. TypeOK'
      BY <1>2, <2>3, <2>4 DEF Tables, TypeOK, SessionRow, LinkRow, Task, RotateSwaps, ghosts
    <2>6. LinksAreOfSessions'
      <3>1. \A t \in Sessions : sessions'[t].state = sessions[t].state
        BY <2>4
      <3>2. ASSUME NEW k \in Links, links'[k].state # "unborn"
            PROVE  /\ links'[k].session \in Sessions
                   /\ sessions[links'[k].session].state # "unborn"
        <4>1. CASE k = n
          BY <1>1, <2>3, <4>1
        <4>2. CASE k = l
          <5>1. links'[l].session = s
            BY <1>1, <2>3, Types DEF Tables, LinkRow
          <5> QED BY <1>1, <4>2, <5>1
        <4>3. CASE k # n /\ k # l
          BY <2>3, <3>2, <4>3 DEF Tables, LinksAreOfSessions
        <4> QED BY <4>1, <4>2, <4>3
      <3> QED BY <3>1, <3>2 DEF LinksAreOfSessions
    <2>7. OneLiveLink'
      <3>1. \A k \in Links : links'[k].state = "fresh" /\ k # n
                => links[k].state = "fresh" /\ links'[k].session = links[k].session /\ k # l
        BY <2>3, <1>1, Types DEF Tables, LinkRow
      <3>2. \A k \in Links : links'[k].state = "fresh" /\ k # n => links'[k].session # s
        <4> SUFFICES ASSUME NEW k \in Links, links'[k].state = "fresh", k # n
                     PROVE  links'[k].session # s
          OBVIOUS
        <4>1. links[k].state = "fresh" /\ links'[k].session = links[k].session /\ k # l
          BY <3>1
        <4> QED BY <4>1, <1>1 DEF Tables, OneLiveLink
      <3> QED BY <3>1, <3>2, <2>3 DEF Tables, OneLiveLink
    <2>8. CredentialFollowsLink'
      <3> SUFFICES ASSUME NEW k \in Links, links'[k].state = "fresh"
                   PROVE  sessions'[links'[k].session].cred = k
        BY DEF CredentialFollowsLink
      <3>1. CASE k = n
        BY <2>3, <2>4, <3>1
      <3>2. CASE k # n
        <4>1. k # l /\ links'[k] = links[k] /\ links[k].state = "fresh"
          BY <2>3, <3>2, <1>1, Types DEF Tables, LinkRow
        <4>2. links[k].session # s /\ links[k].session \in Sessions
          BY <4>1, <1>1 DEF Tables, OneLiveLink, LinksAreOfSessions
        <4>3. sessions[links[k].session].cred = k
          BY <4>1 DEF Tables, CredentialFollowsLink
        <4>4. sessions'[links[k].session] = sessions[links[k].session]
          BY <4>2, <2>4
        <4> QED BY <4>1, <4>3, <4>4
      <3> QED BY <3>1, <3>2
    <2>9. DeadDeviceIsSilent'
      <3>1. \A t \in Sessions : sessions'[t].device = sessions[t].device
                                /\ sessions'[t].state = sessions[t].state
        BY <2>4
      <3>2. devices' = devices
        BY DEF RotateSwaps
      <3> QED BY <3>1, <3>2 DEF Tables, DeadDeviceIsSilent
    <2> QED BY <2>3, <2>1, <2>5, <2>6, <2>7, <2>8, <2>9 DEF Tables
  <1> QED BY <1>3, <1>4

-----------------------------------------------------------------------------
(* One step for each statement of a request.                               *)

(* The transactions that only go on, and those that roll back.             *)
LEMMA ReadingKeeps ==
    ASSUME ChainInv, NEW r \in Requests, NEW task \in Task,
           work' = [work EXCEPT ![r] = task],
           task.op \notin {"open", "rotate", "swap", "burn"},
           UNCHANGED <<tables, ghosts>>
    PROVE  ChainInv'
  <1>1. Tables'
    BY TablesUntouched, Types DEF ChainInv, Tables
  <1>2. LocksHold'
    BY LocksUntouched DEF ChainInv, Tables, tables
  <1> QED BY <1>1, <1>2 DEF ChainInv

LEMMA PairingKeeps == ChainInv /\ Pairing => ChainInv'
  <1> SUFFICES ASSUME ChainInv, NEW r \in Requests,
                      \/ CreateLocks(r) \/ CreateLooks(r)
                      \/ \E kind \in Pins : CreateCode(r, kind)
                      \/ \E c \in Codes, kind \in Kinds : RedeemLocks(r, c, kind)
                      \/ Redeem(r)
               PROVE  ChainInv'
    BY DEF Pairing
  <1>1. CASE CreateLocks(r) \/ CreateLooks(r)
    <2>1. Pending \in SUBSET Nat
      BY DEF Pending
    <2>2. PICK task \in Task : /\ task.op \in {"create", "created"}
                               /\ work' = [work EXCEPT ![r] = task]
      BY <1>1, <2>1 DEF CreateLocks, CreateLooks, Goes, Task
    <2> QED BY <1>1, <2>2, ReadingKeeps DEF CreateLocks, CreateLooks
  <1>2. ASSUME NEW kind \in Pins, CreateCode(r, kind) PROVE ChainInv'
    <2>1. work' = [work EXCEPT ![r] = Idle] /\ Idle \in Task /\ Idle.op = "idle"
      BY <1>2 DEF CreateCode, Ends, Idle, Task
    <2>2. codes' \in [Codes -> CodeRow] /\ collided' \in BOOLEAN
      <3>1. CASE Pending \subseteq work[r].seen
        <4>1. [NoCode EXCEPT !.state = "pending", !.kind = kind] \in CodeRow
          <5>1. NoCode \in CodeRow
            BY DEF NoCode, CodeRow, AnyKind
          <5>2. kind \in Kinds \cup {AnyKind}
            BY DEF AnyKind
          <5> QED BY <5>1, <5>2 DEF CodeRow
        <4>2. \A b \in Codes : /\ codes[b] \in CodeRow
                                /\ [codes[b] EXCEPT !.state = "superseded"] \in CodeRow
          BY Types DEF ChainInv, Tables, CodeRow
        <4>3. PICK c \in Codes :
                codes' = [b \in Codes |->
                            IF b = c THEN [NoCode EXCEPT !.state = "pending", !.kind = kind]
                            ELSE IF b \in Pending THEN [codes[b] EXCEPT !.state = "superseded"]
                            ELSE codes[b]]
          BY <1>2, <3>1 DEF CreateCode, NewCode, Least
        <4>4. codes' \in [Codes -> CodeRow]
          BY <4>1, <4>2, <4>3
        <4> QED BY <1>2, <3>1, <4>4 DEF CreateCode, ChainInv, Tables, TypeOK
      <3>2. CASE ~(Pending \subseteq work[r].seen)
        BY <1>2, <3>2, Types DEF CreateCode, ChainInv, Tables
      <3> QED BY <3>1, <3>2
    <2>3. Tables'
      <3>1. UNCHANGED <<devices, sessions, links, whys, misses>>
        BY <1>2 DEF CreateCode
      <3>2. work' \in [Requests -> Task]
        BY <2>1, Types DEF ChainInv, Tables
      <3>3. TypeOK'
        BY <2>2, <3>1, <3>2 DEF ChainInv, Tables, TypeOK, CodeRow, Task
      <3> QED BY <3>1, <3>3 DEF ChainInv, Tables, LinksAreOfSessions, OneLiveLink,
                                CredentialFollowsLink, DeadDeviceIsSilent
    <2>4. LocksHold'
      BY <1>2, <2>1, LocksUntouched DEF ChainInv, Tables, CreateCode
    <2> QED BY <2>3, <2>4 DEF ChainInv
  <1>3. ASSUME NEW c \in Codes, NEW kind \in Kinds, RedeemLocks(r, c, kind) PROVE ChainInv'
    <2>1. [op |-> "pair", on |-> c, seen |-> {}] \in Task
      BY DEF Task
    <2> QED BY <1>3, <2>1, ReadingKeeps DEF RedeemLocks, Goes
  <1>4. CASE Redeem(r)
    <2>1. work' = [work EXCEPT ![r] = Idle] /\ Idle \in Task /\ Idle.op = "idle"
      BY <1>4 DEF Redeem, Ends, Idle, Task
    <2>2. CASE codes[work[r].on].state # "pending"
      BY <1>4, <2>1, <2>2, ReadingKeeps DEF Redeem, tables
    <2>3. CASE codes[work[r].on].state = "pending"
      <3>1. PICK d \in Devices : /\ devices[d] = "unborn" /\ OpensSession(d)
                                 /\ devices' = [devices EXCEPT ![d] = "active"]
        BY <1>4, <2>3 DEF Redeem, NewDevice, Least
      <3>2. codes' \in [Codes -> CodeRow]
        BY <1>4, <2>3, Types DEF Redeem, ChainInv, Tables, CodeRow
      <3>3. /\ devices'[d] = "active"
            /\ devices' \in [Devices -> {"unborn", "active", "revoked"}]
            /\ \A e \in Devices : devices[e] = "active" => devices'[e] = "active"
        BY <3>1, Types DEF ChainInv, Tables
      <3>4. work' \in [Requests -> Task]
        BY <2>1, Types DEF ChainInv, Tables
      <3>5. UNCHANGED <<whys, ghosts>>
        BY <1>4 DEF Redeem
      <3>6. Tables' /\ \A l \in Links : links[l].state # "unborn" => links'[l] = links[l]
        BY <3>1, <3>2, <3>3, <3>4, <3>5, OpeningKeepsTables DEF ChainInv
      <3>7. LocksHold'
        <4>1. \A q \in Requests : work[q].op = "swap" =>
                work[q].on \in Links /\ links[work[q].on].state = "fresh"
          BY DEF ChainInv, LocksHold
        <4>2. \A q \in Requests : q # r /\ work[q].op = "swap" =>
                links'[work[q].on].state = links[work[q].on].state
          BY <3>6, <4>1
        <4> QED BY <2>1, <3>3, <4>2, LocksUntouched DEF ChainInv, Tables
      <3> QED BY <3>6, <3>7 DEF ChainInv
    <2> QED BY <2>2, <2>3
  <1> QED BY <1>1, <1>2, <1>3, <1>4

LEMMA ExchangeKeeps == ChainInv /\ Exchange => ChainInv'
  <1> SUFFICES ASSUME ChainInv, NEW r \in Requests,
                      \/ \E d \in Devices : LoginLocks(r, d)
                      \/ Login(r)
                      \/ \E l \in Links : RotateLooks(r, l)
                      \/ RotateLocks(r) \/ RotateSwaps(r) \/ RotateBurns(r)
               PROVE  ChainInv'
    BY DEF Exchange
  <1>0. TypeOK /\ Tables /\ LocksHold
    BY DEF ChainInv, Tables
  <1>1. ASSUME NEW d \in Devices, LoginLocks(r, d) PROVE ChainInv'
    <2>1. work' \in [Requests -> Task]
      BY <1>0, <1>1, Types DEF LoginLocks, Goes, Task
    <2>2. Tables'
      BY <1>0, <1>1, <2>1, TablesUntouched DEF LoginLocks
    <2>3. LocksHold'
      BY <1>0, <1>1, Types DEF LoginLocks, Goes, LocksHold, tables
    <2> QED BY <2>2, <2>3 DEF ChainInv
  <1>2. CASE Login(r)
    <2> DEFINE d == work[r].on
    <2>1. d \in Devices /\ devices[d] = "active"
      BY <1>0, <1>2 DEF Login, LocksHold
    <2>2. work' = [work EXCEPT ![r] = Idle] /\ Idle \in Task /\ Idle.op = "idle"
      BY <1>2 DEF Login, Ends, Idle, Task
    <2>3. work' \in [Requests -> Task]
      BY <1>0, <2>2, Types
    <2>4. OpensSession(d) /\ UNCHANGED <<whys, ghosts>> /\ UNCHANGED <<codes, devices>>
      BY <1>2 DEF Login
    <2>5. Tables' /\ \A l \in Links : links[l].state # "unborn" => links'[l] = links[l]
      BY <1>0, <2>1, <2>3, <2>4, Types, OpeningKeepsTables
    <2>6. LocksHold'
      BY <1>0, <2>2, <2>4, <2>5, LocksUntouched DEF LocksHold
    <2> QED BY <2>5, <2>6 DEF ChainInv
  <1>3. ASSUME NEW l \in Links, RotateLooks(r, l) PROVE ChainInv'
    <2>1. links[l].session \in Nat
      <3>1. links[l] \in LinkRow
        BY <1>0, Types
      <3>2. links[l].session \in Sessions \cup {0}
        BY <3>1 DEF LinkRow
      <3>3. Sessions \cup {0} \subseteq Nat
        OBVIOUS
      <3> QED BY <3>2, <3>3
    <2>2. PICK seen \in SUBSET Nat :
            work' = [work EXCEPT ![r] = [op |-> "rotate", on |-> l, seen |-> seen]]
      BY <1>3, <2>1 DEF RotateLooks, Goes
    <2>3. work' \in [Requests -> Task]
      BY <1>0, <2>2, Types DEF Task
    <2>4. Tables'
      BY <1>0, <1>3, <2>3, TablesUntouched DEF RotateLooks
    <2>5. LocksHold'
      BY <1>0, <1>3, <2>2, Types DEF RotateLooks, LocksHold, tables
    <2> QED BY <2>4, <2>5 DEF ChainInv
  <1>4. CASE RotateLocks(r)
    <2> DEFINE l == work[r].on
    <2>1. l \in Links /\ UNCHANGED <<tables, ghosts>> /\ ~LinkLocked(l)
      BY <1>0, <1>4 DEF RotateLocks, LocksHold
    <2>2. CASE Ends(r)
      BY <2>1, <2>2, ReadingKeeps DEF Ends, Idle, Task
    <2>3. ASSUME NEW op \in {"swap", "burn"}, Goes(r, op, l, {}),
                 op = "swap" => links[l].state = "fresh"
          PROVE  ChainInv'
      <3>1. work' \in [Requests -> Task]
        BY <1>0, <2>1, <2>3, Types DEF Goes, Task
      <3>2. Tables'
        BY <1>0, <2>1, <3>1, TablesUntouched
      <3>3. work' = [work EXCEPT ![r] = [op |-> op, on |-> l, seen |-> {}]]
        BY <2>3 DEF Goes
      <3>4. \A q \in Requests : work[q].op \in {"swap", "burn"} => work[q].on # l
        BY <2>1 DEF LinkLocked
      <3>5. LocksHold'
        BY <1>0, <2>1, <2>3, <3>3, <3>4, Types DEF LocksHold, tables
      <3> QED BY <3>2, <3>5 DEF ChainInv
    <2> QED BY <1>4, <2>2, <2>3 DEF RotateLocks
  <1>5. CASE RotateSwaps(r)
    <2>1. Tables' /\ \A k \in Links : k # work[r].on /\ links[k].state # "unborn"
                                        => links'[k] = links[k]
      BY <1>0, <1>5, SwappingKeepsTables
    <2>2. \A q \in Requests : q # r /\ work[q].op = "swap" => work[q].on # work[r].on
      BY <1>0, <1>5 DEF RotateSwaps, LocksHold
    <2>3. work' = [work EXCEPT ![r] = Idle] /\ Idle \in Task /\ Idle.op = "idle"
      BY <1>5 DEF RotateSwaps, Ends, Idle, Task
    <2>4. devices' = devices
      BY <1>5 DEF RotateSwaps
    <2>5. LocksHold'
      BY <1>0, <2>1, <2>2, <2>3, <2>4, LocksUntouched DEF LocksHold
    <2> QED BY <2>1, <2>5 DEF ChainInv
  <1>6. CASE RotateBurns(r)
    <2> DEFINE s == links[work[r].on].session
    <2>1. work' = [work EXCEPT ![r] = Idle] /\ Idle \in Task /\ Idle.op = "idle"
      BY <1>6 DEF RotateBurns, Ends, Idle, Task
    <2>2. Revoked({s}) = Revoked({s} \cap Sessions) /\ RecordRevocation({s} \cap Sessions)
      BY <1>6 DEF RotateBurns, Revoked, RecordRevocation
    <2>3. {s} \cap Sessions \in SUBSET Sessions /\ {s} \cap Sessions \in SUBSET Nat
      OBVIOUS
    <2>5. work' \in [Requests -> Task] /\ UNCHANGED <<codes, devices, links, ghosts>>
          /\ sessions' = Revoked({s} \cap Sessions)
      BY <1>0, <1>6, <2>1, <2>2, Types DEF RotateBurns
    <2>6. Tables'
      BY <1>0, <2>2, <2>3, <2>5, RevokingKeepsTables
    <2>4. LocksHold'
      BY <1>0, <1>6, <2>1, LocksUntouched DEF RotateBurns
    <2> QED BY <2>6, <2>4 DEF ChainInv
  <1> QED BY <1>1, <1>2, <1>3, <1>4, <1>5, <1>6

LEMMA LifecycleKeeps == ChainInv /\ Lifecycle => ChainInv'
  <1> SUFFICES ASSUME ChainInv, NEW r \in Requests,
                      \/ \E s \in Sessions : RevokeLooks(r, s)
                      \/ RevokeSession(r)
                      \/ RevokeAllLooks(r) \/ RevokeAll(r)
                      \/ \E d \in Devices : DeleteLooks(r, d)
                      \/ DeleteDevice(r)
               PROVE  ChainInv'
    BY DEF Lifecycle
  <1>0. TypeOK /\ Tables /\ LocksHold
    BY DEF ChainInv, Tables
  <1>1. ASSUME NEW s \in Sessions, RevokeLooks(r, s) PROVE ChainInv'
    <2>1. [op |-> "revoke", on |-> s, seen |-> {}] \in Task
      BY DEF Task
    <2> QED BY <1>1, <2>1, ReadingKeeps DEF RevokeLooks, Goes
  <1>2. CASE RevokeAllLooks(r)
    <2>1. [op |-> "sweep", on |-> 0, seen |-> {s \in Sessions : Live(s)}] \in Task
      BY DEF Task
    <2> QED BY <1>2, <2>1, ReadingKeeps DEF RevokeAllLooks, Goes
  <1>3. ASSUME NEW d \in Devices, DeleteLooks(r, d) PROVE ChainInv'
    <2>1. [op |-> "delete", on |-> d, seen |-> {}] \in Task
      BY DEF Task
    <2> QED BY <1>3, <2>1, ReadingKeeps DEF DeleteLooks, Goes
  <1>4. CASE RevokeSession(r) \/ RevokeAll(r)
    <2>1. PICK subjects \in SUBSET Sessions, why \in SUBSET Nat :
            sessions' = Revoked(subjects) /\ RecordRevocation(why)
      <3>1. CASE RevokeSession(r)
        <4>1. Revoked({work[r].on}) = Revoked({work[r].on} \cap Sessions)
          BY DEF Revoked
        <4>2. {work[r].on} \in SUBSET Nat
          BY <1>0, Types DEF Task
        <4> QED BY <3>1, <4>1, <4>2 DEF RevokeSession
      <3>2. CASE RevokeAll(r)
        <4>1. work[r].seen \in SUBSET Nat
          BY <1>0, Types DEF Task
        <4> QED BY <3>2, <4>1 DEF RevokeAll
      <3> QED BY <1>4, <3>1, <3>2
    <2>2. /\ work' = [work EXCEPT ![r] = Idle] /\ Idle \in Task /\ Idle.op = "idle"
          /\ UNCHANGED <<codes, devices, links, ghosts>>
      BY <1>4 DEF RevokeSession, RevokeAll, Ends, Idle, Task
    <2>3. work' \in [Requests -> Task]
      BY <1>0, <2>2, Types
    <2>4. Tables'
      BY <1>0, <2>1, <2>2, <2>3, RevokingKeepsTables
    <2>5. LocksHold'
      BY <1>0, <2>2, LocksUntouched
    <2> QED BY <2>4, <2>5 DEF ChainInv
  <1>5. CASE DeleteDevice(r)
    <2> DEFINE d == work[r].on
    <2> DEFINE bound == {s \in Sessions : sessions[s].device = d /\ sessions[s].state = "open"}
    <2>1. /\ work' = [work EXCEPT ![r] = Idle] /\ Idle \in Task /\ Idle.op = "idle"
          /\ UNCHANGED <<codes, links, ghosts>> /\ ~DeviceLocked(d)
          /\ devices' = [devices EXCEPT ![d] = "revoked"]
          /\ sessions' = Revoked(bound) /\ RecordRevocation(bound)
      BY <1>5 DEF DeleteDevice, Ends, Idle, Task
    <2>2. work' \in [Requests -> Task]
      BY <1>0, <2>1, Types
    <2>3. Tables'
      BY <1>0, <2>1, <2>2, DeletingKeepsTables
    <2>4. LocksHold'
      BY <1>0, <2>1, LocksUntouched, Types
    <2> QED BY <2>3, <2>4 DEF ChainInv
  <1> QED BY <1>1, <1>2, <1>3, <1>4, <1>5

LEMMA EnvironmentKeeps == ChainInv /\ Environment => ChainInv'
  <1> SUFFICES ASSUME ChainInv, Environment PROVE ChainInv'
    OBVIOUS
  <1>0. TypeOK /\ Tables /\ LocksHold
    BY DEF ChainInv, Tables
  <1>1. ASSUME NEW r \in Requests, RollsBack(r) PROVE ChainInv'
    BY <1>1, ReadingKeeps DEF RollsBack, Ends, Idle, Task
  <1>2. ASSUME NEW c \in Codes, NEW kind \in Kinds, RedeemRefuses(c, kind) PROVE ChainInv'
    <2>1. misses' \in [Codes -> 0..Budget]
      BY <1>0, <1>2 DEF RedeemRefuses, TypeOK
    <2>2. UNCHANGED <<tables, work, collided>>
      BY <1>2 DEF RedeemRefuses
    <2> QED BY <2>1, <2>2 DEF ChainInv, Tables, TypeOK, LinksAreOfSessions, OneLiveLink,
              CredentialFollowsLink, DeadDeviceIsSilent, LocksHold, tables
  <1>3. ASSUME NEW c \in Codes, CodeLapses(c) PROVE ChainInv'
    <2>1. codes' \in [Codes -> CodeRow]
      <3>1. codes \in [Codes -> CodeRow]
        BY <1>0, Types
      <3>2. [codes[c] EXCEPT !.lapsed = TRUE] \in CodeRow
        BY <3>1 DEF CodeRow
      <3>3. codes' = [codes EXCEPT ![c] = [codes[c] EXCEPT !.lapsed = TRUE]]
        BY <1>3, <3>1 DEF CodeLapses
      <3> QED BY <3>1, <3>2, <3>3
    <2>2. UNCHANGED <<devices, sessions, links, whys, work, ghosts>>
      BY <1>3 DEF CodeLapses
    <2> QED BY <2>1, <2>2 DEF ChainInv, Tables, TypeOK, CodeRow, LinksAreOfSessions,
              OneLiveLink, CredentialFollowsLink, DeadDeviceIsSilent, LocksHold, ghosts
  <1>4. ASSUME NEW s \in Sessions, SessionLapses(s) PROVE ChainInv'
    <2>1. /\ sessions' \in [Sessions -> SessionRow]
          /\ \A t \in Sessions : /\ sessions'[t].state = sessions[t].state
                                 /\ sessions'[t].device = sessions[t].device
                                 /\ sessions'[t].cred = sessions[t].cred
      <3> DEFINE new == [sessions[s] EXCEPT !.lapsed = TRUE]
      <3>1. sessions \in [Sessions -> SessionRow]
        BY <1>0, Types
      <3>2. /\ new \in SessionRow /\ new.cred = sessions[s].cred
            /\ new.state = sessions[s].state /\ new.device = sessions[s].device
        BY <3>1 DEF SessionRow
      <3>3. sessions' = [sessions EXCEPT ![s] = new]
        BY <1>4, <3>1 DEF SessionLapses
      <3> HIDE DEF new
      <3> QED BY <3>1, <3>2, <3>3
    <2>2. UNCHANGED <<codes, devices, links, whys, work, ghosts>>
      BY <1>4 DEF SessionLapses
    <2>3. TypeOK'
      BY <1>0, <2>1, <2>2 DEF TypeOK, SessionRow, ghosts
    <2>4. LinksAreOfSessions' /\ OneLiveLink' /\ CredentialFollowsLink'
      BY <1>0, <2>1, <2>2 DEF Tables, LinksAreOfSessions, OneLiveLink, CredentialFollowsLink
    <2>5. DeadDeviceIsSilent' /\ LocksHold'
      BY <1>0, <2>1, <2>2 DEF Tables, DeadDeviceIsSilent, LocksHold
    <2> QED BY <2>3, <2>4, <2>5 DEF ChainInv, Tables
  <1>5. ASSUME NEW l \in Links, LinkLapses(l) PROVE ChainInv'
    <2>1. /\ links' \in [Links -> LinkRow]
          /\ \A k \in Links : /\ links'[k].state = links[k].state
                              /\ links'[k].session = links[k].session
      BY <1>0, <1>5, Types DEF LinkLapses, LinkRow
    <2>2. UNCHANGED <<codes, devices, sessions, whys, work, ghosts>>
      BY <1>5 DEF LinkLapses
    <2>3. TypeOK'
      <3>1. /\ codes' = codes /\ devices' = devices /\ sessions' = sessions
            /\ whys' = whys /\ work' = work /\ misses' = misses /\ collided' = collided
        BY <2>2 DEF ghosts
      <3>2. links' \in [Links -> LinkRow]
        BY <2>1
      <3>3. links' \in [Links -> [state: {"unborn", "fresh", "spent"},
                                  session: Sessions \cup {0}, lapsed: BOOLEAN]]
        BY <3>2, Zenon DEF LinkRow
      <3> QED BY <1>0, <3>1, <3>3, Zenon DEF TypeOK
    <2>4. LinksAreOfSessions' /\ OneLiveLink' /\ CredentialFollowsLink'
      <3>1. sessions' = sessions
        BY <2>2
      <3>2. \A k \in Links : links'[k].state = links[k].state /\ links'[k].session = links[k].session
        BY <2>1
      <3>3. LinksAreOfSessions'
        BY <1>0, <3>1, <3>2 DEF Tables, LinksAreOfSessions
      <3>4. OneLiveLink'
        BY <1>0, <3>2 DEF Tables, OneLiveLink
      <3>5. CredentialFollowsLink'
        BY <1>0, <3>1, <3>2 DEF Tables, CredentialFollowsLink
      <3> QED BY <3>3, <3>4, <3>5
    <2>5. DeadDeviceIsSilent' /\ LocksHold'
      BY <1>0, <2>1, <2>2 DEF Tables, DeadDeviceIsSilent, LocksHold
    <2> QED BY <2>3, <2>4, <2>5 DEF ChainInv, Tables
  <1> QED BY <1>1, <1>2, <1>3, <1>4, <1>5 DEF Environment

LEMMA ChainInductive == ChainInv /\ [Next]_vars => ChainInv'
  <1>1. ChainInv /\ UNCHANGED vars => ChainInv'
    BY DEF vars, ChainInv, Tables, TypeOK, LinksAreOfSessions, OneLiveLink,
           CredentialFollowsLink, DeadDeviceIsSilent, LocksHold
  <1> QED BY <1>1, PairingKeeps, ExchangeKeeps, LifecycleKeeps, EnvironmentKeeps DEF Next

(* The start: one primary session, which has no device and no chain.       *)
LEMMA ChainInitially == Init => ChainInv
  <1> SUFFICES ASSUME Init PROVE ChainInv
    OBVIOUS
  <1>1. sessions \in [Sessions -> SessionRow]
    BY DEF Init, NoSession, SessionRow, None
  <1>2. codes \in [Codes -> CodeRow] /\ links \in [Links -> LinkRow]
    BY DEF Init, NoCode, NoLink, CodeRow, LinkRow, AnyKind
  <1>3. work \in [Requests -> Task] /\ whys \in [Sessions -> 0..MaxWhys]
        /\ misses \in [Codes -> 0..Budget]
    BY DEF Init, Idle, Task
  <1>4. TypeOK
    BY <1>1, <1>2, <1>3 DEF Init, TypeOK, CodeRow, SessionRow, LinkRow, Task
  <1>5. \A s \in Sessions : sessions[s].device = None
    BY DEF Init, NoSession
  <1>6. \A l \in Links : links[l].state = "unborn"
    BY DEF Init, NoLink
  <1>7. \A r \in Requests : work[r].op = "idle"
    BY DEF Init, Idle
  <1> QED BY <1>4, <1>5, <1>6, <1>7
        DEF ChainInv, Tables, LinksAreOfSessions, OneLiveLink, CredentialFollowsLink,
            DeadDeviceIsSilent, LocksHold

LEMMA ChainAlways == Spec => []ChainInv
  BY ChainInitially, ChainInductive, PTL DEF Spec

(* Every column keeps a value of its kind.                                 *)
THEOREM TypeCorrect == Spec => []TypeOK
  <1>1. ChainInv => TypeOK
    BY DEF ChainInv, Tables
  <1> QED BY <1>1, ChainAlways, PTL

(* A session has one link that works, however many presentations of its    *)
(* chain race (rotate_session locks the link it spends).                   *)
THEOREM OneLinkAlways == Spec => []OneLiveLink
  <1>1. ChainInv => OneLiveLink
    BY DEF ChainInv, Tables
  <1> QED BY <1>1, ChainAlways, PTL

(* The credential in force is the one minted with the working link.        *)
THEOREM CredentialAlwaysFollows == Spec => []CredentialFollowsLink
  <1>1. ChainInv => CredentialFollowsLink
    BY DEF ChainInv, Tables
  <1> QED BY <1>1, ChainAlways, PTL

(* No session outlives its device, whoever logs in while it is deleted     *)
(* (revoke_device, authenticate_device).                                   *)
THEOREM DeadDevicesStaySilent == Spec => []DeadDeviceIsSilent
  <1>1. ChainInv => DeadDeviceIsSilent
    BY DEF ChainInv, Tables
  <1> QED BY <1>1, ChainAlways, PTL

-----------------------------------------------------------------------------
(* Creations of one owner, and what is revoked                             *)

(* One creation at a time holds the owner's row, so the codes it has seen  *)
(* are all there is to supersede.                                          *)
CreationInv ==
    /\ ~collided
    /\ \A q, r \in Requests :
         work[q].op \in {"create", "created"} /\ work[r].op \in {"create", "created"} => q = r
    /\ \A r \in Requests : work[r].op = "created" => Pending \subseteq work[r].seen

(* A transaction that is no creation, or ends, adds no pending code.       *)
LEMMA OtherWorkKeepsCreations ==
    ASSUME TypeOK, CreationInv, NEW r \in Requests, NEW task \in Task,
           work' = [work EXCEPT ![r] = task], task.op \notin {"create", "created"},
           Pending' \subseteq Pending, UNCHANGED collided
    PROVE  CreationInv'
  BY DEF TypeOK, CreationInv

LEMMA CreationStep ==
    ASSUME ChainInv, CreationInv, [Next]_vars
    PROVE  CreationInv'
  <1>0. TypeOK /\ work \in [Requests -> Task] /\ codes \in [Codes -> CodeRow]
    BY Types DEF ChainInv, Tables
  <1>1. ASSUME NEW r \in Requests, CreateLocks(r)
        PROVE  CreationInv'
    <2>1. \A q \in Requests : work[q].op \notin {"create", "created"}
      BY <1>1 DEF CreateLocks, UserLocked
    <2>2. work' = [work EXCEPT ![r] = [op |-> "create", on |-> 0, seen |-> {}]]
      BY <1>1 DEF CreateLocks, Goes
    <2> QED BY <1>0, <1>1, <2>1, <2>2 DEF CreateLocks, CreationInv, ghosts
  <1>2. ASSUME NEW r \in Requests, CreateLooks(r)
        PROVE  CreationInv'
    <2>1. work' = [work EXCEPT ![r] = [op |-> "created", on |-> 0, seen |-> Pending]]
      BY <1>2 DEF CreateLooks, Goes
    <2>2. work[r].op = "create" /\ UNCHANGED <<codes, collided>>
      BY <1>2 DEF CreateLooks, tables, ghosts
    <2>3. Pending' = Pending
      BY <2>2 DEF Pending
    <2> QED BY <1>0, <2>1, <2>2, <2>3 DEF CreationInv
  <1>3. ASSUME NEW r \in Requests, NEW kind \in Pins, CreateCode(r, kind)
        PROVE  CreationInv'
    <2>1. work' = [work EXCEPT ![r] = Idle] /\ work[r].op = "created"
      BY <1>3 DEF CreateCode, Ends
    <2>2. Pending \subseteq work[r].seen
      BY <2>1 DEF CreationInv
    <2>3. UNCHANGED collided
      BY <1>3, <2>2 DEF CreateCode
    <2>4. \A q \in Requests : work'[q].op \notin {"create", "created"}
      BY <1>0, <2>1 DEF CreationInv, Idle
    <2> QED BY <2>3, <2>4 DEF CreationInv
  <1>4. ASSUME NEW r \in Requests, Redeem(r)
        PROVE  CreationInv'
    <2>1. Pending' \subseteq Pending
      BY <1>0, <1>4 DEF Redeem, Pending, CodeRow
    <2>2. work' = [work EXCEPT ![r] = Idle] /\ Idle \in Task /\ Idle.op = "idle"
          /\ UNCHANGED collided
      BY <1>4 DEF Redeem, Ends, Idle, Task, ghosts
    <2> QED BY <1>0, <2>1, <2>2, OtherWorkKeepsCreations
  <1>5. ASSUME NEW r \in Requests, NEW op \in {"pair", "open", "rotate", "swap", "burn",
                                               "delete", "revoke", "sweep"},
               NEW on \in Nat, NEW seen \in SUBSET Nat, Goes(r, op, on, seen),
               UNCHANGED <<codes, collided>>
        PROVE  CreationInv'
    <2>1. Pending' = Pending
      BY <1>5 DEF Pending
    <2>2. [op |-> op, on |-> on, seen |-> seen] \in Task
      BY DEF Task
    <2> QED BY <1>0, <1>5, <2>1, <2>2, OtherWorkKeepsCreations DEF Goes
  <1>6. ASSUME NEW r \in Requests, Ends(r), UNCHANGED <<codes, collided>>
        PROVE  CreationInv'
    <2>1. Pending' = Pending
      BY <1>6 DEF Pending
    <2>2. Idle \in Task /\ Idle.op = "idle"
      BY DEF Idle, Task
    <2> QED BY <1>0, <1>6, <2>1, <2>2, OtherWorkKeepsCreations DEF Ends
  <1>7. ASSUME UNCHANGED <<work, collided>>, Pending' \subseteq Pending
        PROVE  CreationInv'
    BY <1>7 DEF CreationInv
  <1>8. CASE Pairing
    <2>1. ASSUME NEW r \in Requests, NEW c \in Codes, NEW kind \in Kinds,
                 RedeemLocks(r, c, kind)
          PROVE  CreationInv'
      <3>1. c \in Nat /\ Goes(r, "pair", c, {}) /\ UNCHANGED <<codes, collided>>
        BY <2>1, IdentitiesAssumption DEF RedeemLocks, tables, ghosts
      <3> QED BY <1>5, <3>1
    <2> QED BY <1>1, <1>2, <1>3, <1>4, <1>8, <2>1 DEF Pairing
  <1>9. CASE Exchange
    <2>1. ASSUME NEW r \in Requests, NEW d \in Devices, LoginLocks(r, d)
          PROVE  CreationInv'
      <3>1. d \in Nat /\ Goes(r, "open", d, {}) /\ UNCHANGED <<codes, collided>>
        BY <2>1 DEF LoginLocks, tables, ghosts
      <3> QED BY <1>5, <3>1
    <2>2. ASSUME NEW r \in Requests, Login(r)
          PROVE  CreationInv'
      BY <1>6, <2>2 DEF Login, ghosts
    <2>3. ASSUME NEW r \in Requests, NEW l \in Links, RotateLooks(r, l)
          PROVE  CreationInv'
      <3>1. links[l].session \in Nat
        BY <2>3 DEF ChainInv, Tables, LinksAreOfSessions, RotateLooks
      <3>2. (IF Live(links[l].session) THEN {links[l].session} ELSE {}) \in SUBSET Nat
        BY <3>1
      <3> QED BY <1>5, <2>3, <3>2 DEF RotateLooks, tables, ghosts
    <2>4. ASSUME NEW r \in Requests, RotateLocks(r)
          PROVE  CreationInv'
      <3>1. work[r].on \in Nat
        BY <1>0 DEF Task
      <3> QED BY <1>5, <1>6, <2>4, <3>1 DEF RotateLocks, tables, ghosts
    <2>5. ASSUME NEW r \in Requests, RotateSwaps(r) \/ RotateBurns(r)
          PROVE  CreationInv'
      BY <1>6, <2>5 DEF RotateSwaps, RotateBurns, ghosts
    <2> QED BY <1>9, <2>1, <2>2, <2>3, <2>4, <2>5 DEF Exchange
  <1>10. CASE Lifecycle
    <2>1. ASSUME NEW r \in Requests, NEW s \in Sessions, RevokeLooks(r, s)
          PROVE  CreationInv'
      BY <1>5, <2>1 DEF RevokeLooks, tables, ghosts
    <2>2. ASSUME NEW r \in Requests, RevokeAllLooks(r)
          PROVE  CreationInv'
      BY <1>5, <2>2 DEF RevokeAllLooks, tables, ghosts
    <2>3. ASSUME NEW r \in Requests, NEW d \in Devices, DeleteLooks(r, d)
          PROVE  CreationInv'
      BY <1>5, <2>3 DEF DeleteLooks, tables, ghosts
    <2>4. ASSUME NEW r \in Requests, RevokeSession(r) \/ RevokeAll(r) \/ DeleteDevice(r)
          PROVE  CreationInv'
      BY <1>6, <2>4 DEF RevokeSession, RevokeAll, DeleteDevice, ghosts
    <2> QED BY <1>10, <2>1, <2>2, <2>3, <2>4 DEF Lifecycle
  <1>11. CASE Environment
    <2>1. ASSUME NEW r \in Requests, RollsBack(r)
          PROVE  CreationInv'
      BY <1>6, <2>1 DEF RollsBack, tables, ghosts
    <2>2. ASSUME NEW c \in Codes, NEW kind \in Kinds, RedeemRefuses(c, kind)
          PROVE  CreationInv'
      BY <1>7, <2>2 DEF RedeemRefuses, tables, Pending
    <2>3. ASSUME NEW c \in Codes, CodeLapses(c)
          PROVE  CreationInv'
      <3>1. Pending' = Pending
        BY <1>0, <2>3 DEF CodeLapses, Pending, CodeRow
      <3> QED BY <1>7, <2>3, <3>1 DEF CodeLapses, ghosts
    <2>4. ASSUME NEW s \in Sessions, SessionLapses(s)
          PROVE  CreationInv'
      BY <1>7, <2>4 DEF SessionLapses, ghosts, Pending
    <2>5. ASSUME NEW l \in Links, LinkLapses(l)
          PROVE  CreationInv'
      BY <1>7, <2>5 DEF LinkLapses, ghosts, Pending
    <2> QED BY <1>11, <2>1, <2>2, <2>3, <2>4, <2>5 DEF Environment
  <1>12. CASE UNCHANGED vars
    BY <1>7, <1>12 DEF vars, Pending
  <1> QED BY <1>8, <1>9, <1>10, <1>11, <1>12 DEF Next

(* Two racing creations queue on the owner's row, so neither fails on the  *)
(* index that allows one pending code (create_code).                       *)
THEOREM CreationsNeverCollide == Spec => []CreationNeverCollides
  <1>1. Init => CreationInv
    BY DEF Init, CreationInv, Idle
  <1>2. ChainInv /\ CreationInv /\ [Next]_vars => CreationInv'
    BY CreationStep
  <1>3. CreationInv => CreationNeverCollides
    BY DEF CreationInv, CreationNeverCollides
  <1> QED BY <1>1, <1>2, <1>3, ChainAlways, PTL DEF Spec

(* A link that was not issued names no session yet.                        *)
Blank == \A l \in Links : links[l].state = "unborn" => links[l].session = 0

(* What a step leaves of a revoked session: state and credential stay, and *)
(* the links that are issued are of sessions that are not revoked.         *)
Buried ==
    /\ \A s \in Sessions : sessions[s].state = "revoked" =>
         sessions'[s].state = "revoked" /\ sessions'[s].cred = sessions[s].cred
    /\ \A l \in Links : links[l].state = "unborn" =>
         \/ links'[l] = links[l]
         \/ /\ links'[l].state # "unborn" /\ links'[l].session \in Sessions
            /\ sessions[links'[l].session].state # "revoked"
    /\ \A l \in Links : links'[l].state = "unborn" => links[l].state = "unborn"

LEMMA OpeningBuries ==
    ASSUME TypeOK, NEW d \in Devices, OpensSession(d)
    PROVE  Buried
  <1>0. sessions \in [Sessions -> SessionRow] /\ links \in [Links -> LinkRow]
    BY Types
  <1>1. PICK s \in NewSession, l \in NewLink :
          /\ sessions' = [sessions EXCEPT ![s] = [state |-> "open", device |-> d,
                                                  lapsed |-> FALSE, cred |-> l]]
          /\ links' = [links EXCEPT ![l] = [state |-> "fresh", session |-> s,
                                            lapsed |-> FALSE]]
    BY DEF OpensSession
  <1>2. s \in Sessions /\ sessions[s].state = "unborn" /\ l \in Links
    BY DEF NewSession, NewLink, Least
  <1>3. links'[l].state = "fresh" /\ links'[l].session = s
        /\ \A k \in Links : k # l => links'[k] = links[k]
    BY <1>0, <1>1, <1>2
  <1>4. \A t \in Sessions : t # s => sessions'[t] = sessions[t]
    BY <1>0, <1>1, <1>2
  <1> QED BY <1>2, <1>3, <1>4 DEF Buried

LEMMA RevokingBuries ==
    ASSUME TypeOK, NEW subjects, sessions' = Revoked(subjects), UNCHANGED links
    PROVE  Buried
  <1>0. sessions \in [Sessions -> SessionRow]
    BY Types
  <1>1. ASSUME NEW s \in Sessions, sessions[s].state = "revoked"
        PROVE  sessions'[s] = sessions[s]
    BY <1>1 DEF Revoked
  <1> QED BY <1>1 DEF Buried

LEMMA SwappingBuries ==
    ASSUME ChainInv, NEW r \in Requests, RotateSwaps(r)
    PROVE  Buried
  <1> DEFINE l == work[r].on
             s == links[l].session
  <1>0. sessions \in [Sessions -> SessionRow] /\ links \in [Links -> LinkRow]
    BY Types DEF ChainInv, Tables
  <1>1. l \in Links /\ links[l].state = "fresh" /\ s \in Sessions
    BY DEF RotateSwaps, ChainInv, LocksHold, Tables, LinksAreOfSessions
  <1>2. CASE sessions[s].state = "open"
    <2>1. PICK n \in NewLink :
            /\ links' = [links EXCEPT ![l].state = "spent",
                                      ![n] = [state |-> "fresh", session |-> s,
                                              lapsed |-> FALSE]]
            /\ sessions' = [sessions EXCEPT ![s].cred = n, ![s].lapsed = FALSE]
      BY <1>2 DEF RotateSwaps
    <2>2. n \in Links /\ n # l
      BY <1>1 DEF NewLink, Least
    <2>3. \A t \in Sessions : t # s => sessions'[t] = sessions[t]
      BY <1>0, <1>1, <2>1
    <2>4. links'[n].state = "fresh" /\ links'[n].session = s
      BY <1>0, <1>1, <2>1, <2>2
    <2>5. links'[l].state = "spent"
      <3>1. links'[l] = [links[l] EXCEPT !.state = "spent"] /\ links[l] \in LinkRow
        BY <1>0, <1>1, <2>1, <2>2
      <3> QED BY <3>1 DEF LinkRow
    <2>6. \A k \in Links : k \notin {l, n} => links'[k] = links[k]
      BY <1>0, <1>1, <2>1, <2>2
    <2> QED BY <1>1, <1>2, <2>2, <2>3, <2>4, <2>5, <2>6 DEF Buried
  <1>3. CASE sessions[s].state # "open"
    BY <1>3 DEF RotateSwaps, Buried
  <1> QED BY <1>2, <1>3

LEMMA EveryStepBuries ==
    ASSUME ChainInv, [Next]_vars
    PROVE  Buried
  <1>0. /\ TypeOK
        /\ sessions \in [Sessions -> SessionRow] /\ links \in [Links -> LinkRow]
    BY Types DEF ChainInv, Tables
  <1>1. ASSUME UNCHANGED <<sessions, links>>
        PROVE  Buried
    BY <1>1 DEF Buried
  <1>2. CASE Pairing
    <2>1. ASSUME NEW r \in Requests, Redeem(r)
          PROVE  Buried
      <3>1. CASE codes[work[r].on].state = "pending"
        <4>1. PICK d \in NewDevice : OpensSession(d)
          BY <2>1, <3>1 DEF Redeem
        <4>2. d \in Devices
          BY DEF NewDevice, Least
        <4> QED BY <1>0, <4>1, <4>2, OpeningBuries
      <3>2. CASE codes[work[r].on].state # "pending"
        BY <1>1, <2>1, <3>2 DEF Redeem
      <3> QED BY <3>1, <3>2
    <2>2. ASSUME NEW r \in Requests, NEW kind \in Pins, CreateCode(r, kind)
          PROVE  Buried
      BY <1>1, <2>2 DEF CreateCode
    <2>3. ASSUME NEW r \in Requests, CreateLocks(r) \/ CreateLooks(r)
          PROVE  Buried
      BY <1>1, <2>3 DEF CreateLocks, CreateLooks, tables
    <2>4. ASSUME NEW r \in Requests, NEW c \in Codes, NEW kind \in Kinds,
                 RedeemLocks(r, c, kind)
          PROVE  Buried
      BY <1>1, <2>4 DEF RedeemLocks, tables
    <2> QED BY <1>2, <2>1, <2>2, <2>3, <2>4 DEF Pairing
  <1>3. CASE Exchange
    <2>1. ASSUME NEW r \in Requests, Login(r)
          PROVE  Buried
      <3>1. work[r].on \in Devices /\ OpensSession(work[r].on)
        BY <2>1 DEF Login, ChainInv, LocksHold
      <3> QED BY <1>0, <3>1, OpeningBuries
    <2>2. ASSUME NEW r \in Requests, RotateBurns(r)
          PROVE  Buried
      <3>1. sessions' = Revoked({links[work[r].on].session}) /\ UNCHANGED links
        BY <2>2 DEF RotateBurns
      <3> QED BY <1>0, <3>1, RevokingBuries
    <2>3. ASSUME NEW r \in Requests, NEW d \in Devices, LoginLocks(r, d)
          PROVE  Buried
      BY <1>1, <2>3 DEF LoginLocks, tables
    <2>4. ASSUME NEW r \in Requests, NEW l \in Links, RotateLooks(r, l)
          PROVE  Buried
      BY <1>1, <2>4 DEF RotateLooks, tables
    <2>5. ASSUME NEW r \in Requests, RotateLocks(r)
          PROVE  Buried
      BY <1>1, <2>5 DEF RotateLocks, tables
    <2> QED BY <1>3, <2>1, <2>2, <2>3, <2>4, <2>5, SwappingBuries DEF Exchange
  <1>4. CASE Lifecycle
    <2>1. ASSUME NEW r \in Requests, RevokeSession(r)
          PROVE  Buried
      <3>1. sessions' = Revoked({work[r].on}) /\ UNCHANGED links
        BY <2>1 DEF RevokeSession
      <3> QED BY <1>0, <3>1, RevokingBuries
    <2>2. ASSUME NEW r \in Requests, RevokeAll(r)
          PROVE  Buried
      <3>1. sessions' = Revoked(Sessions) /\ UNCHANGED links
        BY <2>2 DEF RevokeAll
      <3> QED BY <1>0, <3>1, RevokingBuries
    <2>3. ASSUME NEW r \in Requests, DeleteDevice(r)
          PROVE  Buried
      <3>1. sessions' = Revoked({s \in Sessions : sessions[s].device = work[r].on
                                                  /\ sessions[s].state = "open"})
            /\ UNCHANGED links
        BY <2>3 DEF DeleteDevice
      <3> QED BY <1>0, <3>1, RevokingBuries
    <2>4. ASSUME NEW r \in Requests, NEW s \in Sessions, RevokeLooks(r, s)
          PROVE  Buried
      BY <1>1, <2>4 DEF RevokeLooks, tables
    <2>5. ASSUME NEW r \in Requests, RevokeAllLooks(r)
          PROVE  Buried
      BY <1>1, <2>5 DEF RevokeAllLooks, tables
    <2>6. ASSUME NEW r \in Requests, NEW d \in Devices, DeleteLooks(r, d)
          PROVE  Buried
      BY <1>1, <2>6 DEF DeleteLooks, tables
    <2> QED BY <1>4, <2>1, <2>2, <2>3, <2>4, <2>5, <2>6 DEF Lifecycle
  <1>5. CASE Environment
    <2>1. ASSUME NEW s \in Sessions, SessionLapses(s)
          PROVE  Buried
      BY <1>0, <2>1 DEF SessionLapses, Buried, SessionRow
    <2>2. ASSUME NEW l \in Links, LinkLapses(l)
          PROVE  Buried
      BY <1>0, <2>2 DEF LinkLapses, Buried, LinkRow
    <2>3. ASSUME NEW r \in Requests, RollsBack(r)
          PROVE  Buried
      BY <1>1, <2>3 DEF RollsBack, tables
    <2>4. ASSUME NEW c \in Codes, NEW kind \in Kinds, RedeemRefuses(c, kind)
          PROVE  Buried
      BY <1>1, <2>4 DEF RedeemRefuses, tables
    <2>5. ASSUME NEW c \in Codes, CodeLapses(c)
          PROVE  Buried
      BY <1>1, <2>5 DEF CodeLapses
    <2> QED BY <1>5, <2>1, <2>2, <2>3, <2>4, <2>5 DEF Environment
  <1>6. CASE UNCHANGED vars
    BY <1>1, <1>6 DEF vars
  <1> QED BY <1>2, <1>3, <1>4, <1>5, <1>6 DEF Next

(* A revocation is final: no rotation that was under way when a session    *)
(* was revoked or burned gives it a credential, a link or its life back    *)
(* (rotate_session, burn_family).                                          *)
THEOREM RevokedForGood == Spec => DeadStaysDead
  <1>1. Init => Blank
    BY DEF Init, Blank, NoLink
  <1>2. Blank /\ Buried => Blank'
    BY DEF Blank, Buried
  <1>3. ASSUME Blank, Buried, NEW s \in Sessions, sessions[s].state = "revoked"
        PROVE  /\ sessions'[s].state = "revoked" /\ sessions'[s].cred = sessions[s].cred
               /\ \A l \in Links : links[l].state = "unborn" => links'[l].session # s
    <2>1. ASSUME NEW l \in Links, links[l].state = "unborn"
          PROVE  links'[l].session # s
      <3>1. CASE links'[l] = links[l]
        BY <1>3, <2>1, <3>1 DEF Blank
      <3>2. CASE links'[l] # links[l]
        BY <1>3, <2>1, <3>2 DEF Buried
      <3> QED BY <3>1, <3>2
    <2> QED BY <1>3, <2>1 DEF Buried
  <1>4. ChainInv /\ Blank /\ [Next]_vars => Blank'
    BY <1>2, EveryStepBuries
  <1>5. ChainInv /\ Blank /\ [Next]_vars =>
          [\A s \in Sessions : sessions[s].state = "revoked" =>
             /\ sessions'[s].state = "revoked" /\ sessions'[s].cred = sessions[s].cred
             /\ \A l \in Links : links[l].state = "unborn" => links'[l].session # s]_vars
    BY <1>3, EveryStepBuries
  <1> QED BY <1>1, <1>4, <1>5, ChainAlways, PTL DEF Spec, DeadStaysDead

-----------------------------------------------------------------------------
(* Where a path leads                                                      *)

(* The induction that the walk needs: a set of numbers has a least one, by *)
(* the minimality theorem of well-founded relations, whose parameter is a  *)
(* set; and so a set that has 0, and each next number, has them all.       *)
LEMMA LeastOf ==
    ASSUME NEW T, T \subseteq Nat, T # {}
    PROVE  \E n \in T : \A m \in T : n <= m
  <1> DEFINE R == OpToRel(<, Nat)
  <1>1. IsWellFoundedOn(R, Nat)
    BY NatLessThanWellFounded
  <1>2. \E n \in T : \A m \in T : ~ (<<m, n>> \in R)
    <2> HIDE DEF R
    <2> QED BY <1>1, WFMin
  <1>3. \A m, n \in Nat : <<m, n>> \in R <=> m < n
    BY DEF OpToRel
  <1> HIDE DEF R
  <1>4. PICK n \in T : \A m \in T : ~ (<<m, n>> \in R)
    BY <1>2
  <1>5. ASSUME NEW m \in T
        PROVE  n <= m
    <2>1. m \in Nat /\ n \in Nat
      OBVIOUS
    <2>2. ~ (m < n)
      BY <1>3, <1>4, <2>1
    <2> QED BY <2>1, <2>2
  <1> QED BY <1>5

LEMMA Reaches ==
    ASSUME NEW S, 0 \in S, \A n \in Nat : n \in S => n + 1 \in S
    PROVE  Nat \subseteq S
  <1> SUFFICES ASSUME Nat \ S # {}
               PROVE  FALSE
    OBVIOUS
  <1>1. PICK n \in Nat \ S : \A m \in Nat \ S : n <= m
    BY LeastOf
  <1>2. n # 0 /\ n - 1 \in Nat /\ n - 1 \in S
    BY <1>1
  <1> QED BY <1>1, <1>2

(* The walk over a path is the function that its recursion describes: for  *)
(* every number of segments there is one.                                  *)
Follows(w, p, n) ==
    w = [m \in 0..n |-> IF m = 0 THEN Prefix ELSE Climb(w[m - 1], p[m])]

LEMMA WalkFollows ==
    ASSUME NEW p \in Seq(STRING)
    PROVE  Follows(Walk(p), p, Len(p))
  <1> DEFINE S == {n \in Nat : \E w : Follows(w, p, n)}
  <1>1. 0 \in S
    <2>1. Follows([m \in 0..0 |-> Prefix], p, 0)
      BY DEF Follows
    <2> QED BY <2>1
  <1>2. ASSUME NEW n \in Nat, n \in S
        PROVE  n + 1 \in S
    <2>1. PICK w : Follows(w, p, n)
      BY <1>2
    <2> DEFINE v == [m \in 0..n + 1 |-> IF m = n + 1 THEN Climb(w[n], p[n + 1]) ELSE w[m]]
    <2>2. \A m \in 0..n : w[m] = IF m = 0 THEN Prefix ELSE Climb(w[m - 1], p[m])
      BY <2>1 DEF Follows
    <2>3. ASSUME NEW m \in 0..n + 1
          PROVE  v[m] = IF m = 0 THEN Prefix ELSE Climb(v[m - 1], p[m])
      <3>1. CASE m = n + 1
        BY <3>1
      <3>2. CASE m # n + 1
        BY <3>2, <2>2
      <3> QED BY <3>1, <3>2
    <2>4. Follows(v, p, n + 1)
      <3> HIDE DEF v
      <3>1. v = [m \in 0..n + 1 |-> v[m]]
        BY DEF v
      <3> QED BY <2>3, <3>1 DEF Follows
    <2> QED BY <2>4
  <1> HIDE DEF S
  <1>3. Len(p) \in S
    BY <1>1, <1>2, Reaches
  <1>4. \E w : Follows(w, p, Len(p))
    BY <1>3 DEF S
  <1> QED BY <1>4 DEF Walk, Follows

LEMMA WalkSteps ==
    ASSUME NEW p \in Seq(STRING)
    PROVE  /\ Walk(p)[0] = Prefix
           /\ \A n \in 1..Len(p) : Walk(p)[n] = Climb(Walk(p)[n - 1], p[n])
  <1> DEFINE w == Walk(p)
  <1>1. Follows(w, p, Len(p))
    BY WalkFollows
  <1> HIDE DEF w
  <1>2. \A n \in 0..Len(p) : w[n] = IF n = 0 THEN Prefix ELSE Climb(w[n - 1], p[n])
    BY <1>1 DEF Follows
  <1> QED BY <1>2 DEF w

(* A segment goes one down, or one up.                                     *)
LEMMA DepthSteps ==
    ASSUME NEW p, NEW n \in Nat
    PROVE  /\ Depth(p, 0) = 0 /\ Depth(p, n) \in Int
           /\ Depth(p, n + 1) = Depth(p, n) + (IF p[n + 1] # ".." THEN 1 ELSE -1)
  <1> DEFINE Down(m) == {i \in 1..m : p[i] # ".."}
             Up(m) == {i \in 1..m : p[i] = ".."}
  <1>1. ASSUME NEW m \in Nat
        PROVE  /\ IsFiniteSet(Down(m)) /\ IsFiniteSet(Up(m))
               /\ Cardinality(Down(m)) \in Nat /\ Cardinality(Up(m)) \in Nat
    <2>1. IsFiniteSet(1..m)
      BY FS_Interval
    <2>2. Down(m) \subseteq 1..m /\ Up(m) \subseteq 1..m
      OBVIOUS
    <2> HIDE DEF Down, Up
    <2> QED BY <2>1, <2>2, FS_Subset, FS_CardinalityType
  <1>2. Depth(p, 0) = 0
    <2>1. Down(0) = {} /\ Up(0) = {}
      OBVIOUS
    <2>2. Depth(p, 0) = Cardinality(Down(0)) - Cardinality(Up(0))
      BY DEF Depth
    <2> HIDE DEF Down, Up
    <2> QED BY <2>1, <2>2, FS_EmptySet
  <1>3. n + 1 \notin Down(n) /\ n + 1 \notin Up(n)
    OBVIOUS
  <1>4. /\ Depth(p, n) = Cardinality(Down(n)) - Cardinality(Up(n))
        /\ Depth(p, n + 1) = Cardinality(Down(n + 1)) - Cardinality(Up(n + 1))
    BY DEF Depth
  <1>5. CASE p[n + 1] # ".."
    <2>1. Down(n + 1) = Down(n) \cup {n + 1} /\ Up(n + 1) = Up(n)
      BY <1>5
    <2> HIDE DEF Down, Up
    <2>2. Cardinality(Down(n + 1)) = Cardinality(Down(n)) + 1
      BY <1>1, <1>3, <2>1, FS_AddElement
    <2> QED BY <1>1, <1>2, <1>4, <1>5, <2>1, <2>2
  <1>6. CASE p[n + 1] = ".."
    <2>1. Up(n + 1) = Up(n) \cup {n + 1} /\ Down(n + 1) = Down(n)
      BY <1>6
    <2> HIDE DEF Down, Up
    <2>2. Cardinality(Up(n + 1)) = Cardinality(Up(n)) + 1
      BY <1>1, <1>3, <2>1, FS_AddElement
    <2> QED BY <1>1, <1>2, <1>4, <1>6, <2>1, <2>2
  <1> QED BY <1>5, <1>6

(* What the stack says after n segments: whether some prefix of them went  *)
(* above the start; how deep it is; and that its first element is a        *)
(* segment at the first level that no later one climbed out of.            *)
Knows(at, p, n) ==
    /\ at \in [left : BOOLEAN, kept : Seq(STRING)]
    /\ at.left <=> \E m \in 1..n : Depth(p, m) < 0
    /\ ~at.left => Len(at.kept) = Depth(p, n)
    /\ ~at.left /\ at.kept # <<>> =>
           \E i \in 1..n : /\ p[i] = at.kept[1] /\ p[i] # ".." /\ Depth(p, i) = 1
                           /\ \A j \in i..n : Depth(p, j) >= 1

LEMMA ClimbKnows ==
    ASSUME NEW p \in Seq(STRING), NEW n \in Nat, n + 1 \in 1..Len(p), NEW at, Knows(at, p, n)
    PROVE  Knows(Climb(at, p[n + 1]), p, n + 1)
  <1> SUFFICES ASSUME NEW next, next = Climb(at, p[n + 1])
               PROVE  Knows(next, p, n + 1)
    OBVIOUS
  <1>1. /\ p[n + 1] \in STRING /\ Depth(p, n) \in Int
        /\ Depth(p, n + 1) = Depth(p, n) + (IF p[n + 1] # ".." THEN 1 ELSE -1)
        /\ 1..n + 1 = 1..n \cup {n + 1}
    BY DepthSteps
  <1>2. /\ at \in [left : BOOLEAN, kept : Seq(STRING)]
        /\ at.left <=> \E m \in 1..n : Depth(p, m) < 0
        /\ ~at.left => Len(at.kept) = Depth(p, n)
    BY DEF Knows
  <1>3. CASE at.left
    <2>1. next = at
      BY <1>3 DEF Climb
    <2> QED BY <1>1, <1>2, <1>3, <2>1 DEF Knows
  <1>4. CASE ~at.left /\ p[n + 1] # ".."
    <2>1. next = [at EXCEPT !.kept = Append(@, p[n + 1])]
      BY <1>4 DEF Climb
    <2>a. next = [left |-> FALSE, kept |-> Append(at.kept, p[n + 1])]
      BY <1>2, <1>4, <2>1
    <2>b. ASSUME NEW kept \in Seq(STRING)
          PROVE  /\ Append(kept, p[n + 1]) \in Seq(STRING)
                 /\ Len(Append(kept, p[n + 1])) = Len(kept) + 1
                 /\ kept # <<>> => Append(kept, p[n + 1])[1] = kept[1]
                 /\ kept = <<>> => Append(kept, p[n + 1])[1] = p[n + 1]
      BY <1>1
    <2>c. at.kept \in Seq(STRING)
      BY <1>2
    <2>2. /\ next \in [left : BOOLEAN, kept : Seq(STRING)] /\ ~next.left
          /\ Len(next.kept) = Len(at.kept) + 1
          /\ at.kept # <<>> => next.kept[1] = at.kept[1]
          /\ at.kept = <<>> => next.kept[1] = p[n + 1]
      BY <2>a, <2>b, <2>c
    <2>3. ~ \E m \in 1..n + 1 : Depth(p, m) < 0
      BY <1>1, <1>2, <1>4
    <2>4. Len(next.kept) = Depth(p, n + 1)
      BY <1>1, <1>2, <1>4, <2>2
    <2>5. CASE at.kept = <<>>
      <3>1. Depth(p, n + 1) = 1 /\ p[n + 1] = next.kept[1]
        BY <1>1, <1>2, <1>4, <2>2, <2>5
      <3>2. n + 1 \in 1..n + 1 /\ \A j \in n + 1..n + 1 : Depth(p, j) >= 1
        BY <3>1
      <3>3. \E i \in 1..n + 1 :
               /\ p[i] = next.kept[1] /\ p[i] # ".." /\ Depth(p, i) = 1
               /\ \A j \in i..n + 1 : Depth(p, j) >= 1
        BY <1>4, <3>1, <3>2
      <3> QED BY <2>2, <2>3, <2>4, <3>3 DEF Knows
    <2>6. CASE at.kept # <<>>
      <3>1. PICK i \in 1..n : /\ p[i] = at.kept[1] /\ p[i] # ".." /\ Depth(p, i) = 1
                              /\ \A j \in i..n : Depth(p, j) >= 1
        BY <1>4, <2>6 DEF Knows
      <3>2. i \in 1..n + 1 /\ p[i] = next.kept[1]
        BY <2>2, <2>6, <3>1
      <3>3. \A j \in i..n + 1 : Depth(p, j) >= 1
        BY <1>1, <1>2, <1>4, <3>1
      <3> QED BY <2>2, <2>3, <2>4, <3>1, <3>2, <3>3 DEF Knows
    <2> QED BY <2>5, <2>6
  <1>5. CASE ~at.left /\ p[n + 1] = ".." /\ at.kept = <<>>
    <2>1. next = [at EXCEPT !.left = TRUE]
      BY <1>5 DEF Climb
    <2>2. Depth(p, n + 1) < 0
      BY <1>1, <1>2, <1>5
    <2> QED BY <1>1, <1>2, <2>1, <2>2 DEF Knows
  <1>6. CASE ~at.left /\ p[n + 1] = ".." /\ at.kept # <<>>
    <2>1. next = [at EXCEPT !.kept = SubSeq(@, 1, Len(@) - 1)]
      BY <1>6 DEF Climb
    <2>2. Len(at.kept) >= 1 /\ Len(at.kept) \in Nat
      BY <1>2, <1>6
    <2>a. next = [left |-> FALSE, kept |-> SubSeq(at.kept, 1, Len(at.kept) - 1)]
      BY <1>2, <1>6, <2>1
    <2>b. ASSUME NEW kept \in Seq(STRING), Len(kept) >= 1
          PROVE  LET rest == SubSeq(kept, 1, Len(kept) - 1) IN
                 /\ rest \in Seq(STRING) /\ Len(rest) = Len(kept) - 1
                 /\ rest # <<>> => rest[1] = kept[1]
      <3> DEFINE k == Len(kept) - 1
                 rest == SubSeq(kept, 1, k)
      <3>1. k \in Nat /\ k <= Len(kept) /\ k - 1 + 1 = k /\ \A i \in 1..k : kept[i] \in STRING
        BY <2>b
      <3>2. /\ rest \in Seq(STRING) /\ Len(rest) = k
            /\ \A i \in 1..k : rest[i] = kept[1 + i - 1]
        BY <2>b, <3>1, SubSeqProperties
      <3>3. rest # <<>> => 1 \in 1..k
        BY <3>1, <3>2
      <3> HIDE DEF rest
      <3>4. rest # <<>> => rest[1] = kept[1]
        BY <3>2, <3>3
      <3> QED BY <3>2, <3>4 DEF rest
    <2>c. at.kept \in Seq(STRING)
      BY <1>2
    <2>3. /\ next \in [left : BOOLEAN, kept : Seq(STRING)] /\ ~next.left
          /\ Len(next.kept) = Len(at.kept) - 1
          /\ next.kept # <<>> => next.kept[1] = at.kept[1]
      BY <2>2, <2>a, <2>b, <2>c
    <2>4. Len(next.kept) = Depth(p, n + 1)
      BY <1>1, <1>2, <1>6, <2>3
    <2>5. ~ \E m \in 1..n + 1 : Depth(p, m) < 0
      BY <1>1, <1>2, <1>6, <2>2, <2>3, <2>4
    <2>6. CASE next.kept = <<>>
      <3> QED BY <2>3, <2>4, <2>5, <2>6 DEF Knows
    <2>7. CASE next.kept # <<>>
      <3>1. PICK i \in 1..n : /\ p[i] = at.kept[1] /\ p[i] # ".." /\ Depth(p, i) = 1
                              /\ \A j \in i..n : Depth(p, j) >= 1
        BY <1>6 DEF Knows
      <3>2. i \in 1..n + 1 /\ p[i] = next.kept[1]
        BY <2>3, <2>7, <3>1
      <3>3. Depth(p, n + 1) >= 1
        BY <2>3, <2>4, <2>7
      <3>4. \A j \in i..n + 1 : Depth(p, j) >= 1
        BY <1>1, <3>1, <3>3
      <3> QED BY <2>3, <2>4, <2>5, <3>1, <3>2, <3>4 DEF Knows
    <2> QED BY <2>6, <2>7
  <1> QED BY <1>2, <1>3, <1>4, <1>5, <1>6

LEMMA WalkKnows ==
    ASSUME NEW p \in Seq(STRING)
    PROVE  Knows(Resolved(p), p, Len(p))
  <1> DEFINE S == {n \in Nat : n <= Len(p) => Knows(Walk(p)[n], p, n)}
  <1>1. 0 \in S
    <2>1. Walk(p)[0] = Prefix /\ Depth(p, 0) = 0
      BY WalkSteps, DepthSteps
    <2>2. Knows(Prefix, p, 0)
      BY <2>1 DEF Knows, Prefix
    <2> QED BY <2>1, <2>2
  <1>2. ASSUME NEW n \in Nat, n \in S
        PROVE  n + 1 \in S
    <2>1. ASSUME n + 1 <= Len(p)
          PROVE  Knows(Walk(p)[n + 1], p, n + 1)
      <3>1. n <= Len(p) /\ n + 1 \in 1..Len(p) /\ (n + 1) - 1 = n
        BY <2>1
      <3>2. Knows(Walk(p)[n], p, n)
        BY <1>2, <3>1
      <3>3. Walk(p)[n + 1] = Climb(Walk(p)[n], p[n + 1])
        BY <3>1, WalkSteps
      <3> QED BY <3>1, <3>2, <3>3, ClimbKnows
    <2> QED BY <2>1
  <1> HIDE DEF S
  <1>3. Len(p) \in S
    BY <1>1, <1>2, Reaches
  <1> QED BY <1>3 DEF S, Resolved

(* The stack that the code keeps, popped at each "..", is right for paths  *)
(* of any length: it reports a path that leaves the prefix exactly when    *)
(* some part of it goes above the start, and the first segment it is left  *)
(* with is the one where the path leads (gateway/paths.rs, resolved).      *)
THEOREM ResolvedIsWhereItLeads ==
    ASSUME NEW p \in Seq(STRING)
    PROVE  LET at == Resolved(p) IN
           /\ at.left <=> LeadsOut(p)
           /\ ~LeadsOut(p) =>
                \A name : name # ".." =>
                   (LeadsTo(p, name) <=> at.kept # <<>> /\ at.kept[1] = name)
  <1> DEFINE at == Resolved(p)
             Stays(i) == /\ i \in 1..Len(p) /\ p[i] # ".." /\ Depth(p, i) = 1
                        /\ \A j \in i..Len(p) : Depth(p, j) >= 1
  <1>1. Knows(at, p, Len(p))
    BY WalkKnows
  <1> HIDE DEF at
  <1>2. at.left <=> LeadsOut(p)
    BY <1>1 DEF Knows, LeadsOut
  <1>3. ASSUME NEW i, NEW k, Stays(i), Stays(k), i < k
        PROVE  FALSE
    <2>1. k - 1 \in Nat /\ k - 1 \in i..Len(p) /\ (k - 1) + 1 = k
      BY <1>3
    <2>2. p[k] # ".." /\ Depth(p, k) = 1 /\ Depth(p, k - 1) >= 1
      BY <1>3, <2>1
    <2> HIDE DEF Stays
    <2>3. /\ Depth(p, k - 1) \in Int
          /\ Depth(p, (k - 1) + 1) = Depth(p, k - 1) + (IF p[(k - 1) + 1] # ".." THEN 1 ELSE -1)
      BY <2>1, DepthSteps
    <2>4. Depth(p, k) = Depth(p, k - 1) + 1
      BY <2>1, <2>2, <2>3
    <2> QED BY <2>2, <2>3, <2>4
  <1>4. \A i, k : Stays(i) /\ Stays(k) => i = k
    <2> SUFFICES ASSUME NEW i, NEW k, Stays(i), Stays(k), i # k
                 PROVE  FALSE
      OBVIOUS
    <2>1. i \in Int /\ k \in Int
      OBVIOUS
    <2>2. i < k \/ k < i
      BY <2>1
    <2> QED BY <1>3, <2>2
  <1>5. ASSUME ~LeadsOut(p), NEW name, name # ".."
        PROVE  LeadsTo(p, name) <=> at.kept # <<>> /\ at.kept[1] = name
    <2>1. /\ at.kept \in Seq(STRING) /\ Len(at.kept) = Depth(p, Len(p))
          /\ at.kept # <<>> => \E i : Stays(i) /\ p[i] = at.kept[1]
      BY <1>1, <1>2, <1>5 DEF Knows
    <2>2. LeadsTo(p, name) <=> \E i : Stays(i) /\ p[i] = name
      BY <1>5 DEF LeadsTo
    <2>3. ASSUME NEW i, Stays(i)
          PROVE  at.kept # <<>>
      <3>1. Depth(p, Len(p)) >= 1
        BY <2>3
      <3> QED BY <2>1, <3>1
    <2> HIDE DEF Stays
    <2> QED BY <1>4, <2>1, <2>2, <2>3
  <1> QED BY <1>2, <1>5 DEF at

-----------------------------------------------------------------------------
(* The order of the stages                                                 *)

(* The checks, the stages that let a request through, and the others.      *)
Guards ==
    {"path", "body", "limit", "approval", "manifest", "forwardable", "cookie", "charge",
     "kind", "shape", "origin", "scope", "check", "key", "bearer", "device", "owner",
     "deployer", "no_device", "grant"}
Lets == {"anonymous", "proxy", "ask", "tell", "admit", "open"}
LastStages == (Lets \ {"open"}) \cup {"finalize"}
Names == Guards \cup Lets \cup {"read", "put", "finalize"}

(* In this list the named checks stand before every stage that lets the    *)
(* request through, the cookie before the approval when there is one, and  *)
(* the last stage answers.                                                 *)
Orderly(list, must) ==
    /\ list \in Seq(Names)
    /\ Len(list) > 0 /\ list[Len(list)] \in LastStages
    /\ \A p \in DOMAIN list : list[p] \in Lets =>
         \A s \in must : \E j \in 1..p - 1 : list[j] = s
    /\ \A s \in {"cookie", "forwardable"} :
         s \in must <=> \E p \in DOMAIN list : list[p] = s
    /\ \A p \in DOMAIN list : list[p] = "approval" =>
         /\ "approval" \in must
         /\ "cookie" \in must => \E j \in 1..p - 1 : list[j] = "cookie"

Needs ==
    [content |-> {"path", "approval", "manifest", "forwardable"},
     draft |-> {"path", "cookie", "approval", "manifest", "forwardable"},
     library |-> {"cookie", "approval", "manifest"},
     upload |-> {"cookie", "approval", "manifest", "scope"},
     edit |-> {"cookie", "approval", "manifest", "scope"},
     conflict |-> {"cookie", "approval", "manifest", "scope"},
     page_release |-> {"cookie", "approval", "manifest"},
     release |-> {"bearer", "owner"},
     manage |-> {"path", "bearer", "owner", "forwardable"},
     deploy |-> {"path", "bearer", "device", "deployer", "forwardable"},
     notes |-> {"bearer", "device", "forwardable", "kind"},
     notes_device |-> {"bearer", "device", "forwardable", "kind"},
     capture |-> {"bearer", "device"}, notes_write |-> {"bearer", "no_device"},
     digest_command |-> {"bearer", "device"}, digest_read |-> {"bearer", "device"},
     library_search |-> {"bearer", "device"}, inspect |-> {"bearer", "device", "grant"}]

CookieRoutes ==
    {"draft", "library", "upload", "edit", "conflict", "page_release"}

LEMMA SiteListsAreOrderly ==
    /\ Orderly(Content, {"path", "approval", "manifest", "forwardable"})
    /\ Orderly(Draft, {"path", "cookie", "approval", "manifest", "forwardable"})
    /\ Orderly(Library, {"cookie", "approval", "manifest"})
    /\ Orderly(Upload, {"cookie", "approval", "manifest", "scope"})
    /\ Orderly(Edit, {"cookie", "approval", "manifest", "scope"})
    /\ Orderly(Conflict, {"cookie", "approval", "manifest", "scope"})
    /\ Orderly(PageRelease, {"cookie", "approval", "manifest"})
  <1> USE DEF Cookie, Granted, Orderly, Lets, LastStages, Names, Guards
  <1>1. Orderly(Content, {"path", "approval", "manifest", "forwardable"})
    <2>1. Content =
            <<"path", "body", "limit", "approval", "manifest", "forwardable", "anonymous">>
      <3> DEFINE list ==
            <<"path", "body", "limit", "approval", "manifest", "forwardable", "anonymous">>
      <3>1. /\ Content \in Seq(Names) /\ Len(Content) = 7
            /\ \A i \in 1..7 : Content[i] = list[i]
        BY DEF Content, Granted
      <3>2. list \in Seq(Names) /\ Len(list) = 7
        OBVIOUS
      <3> HIDE DEF list
      <3>3. Content = list
        BY <3>1, <3>2, SeqEqual
      <3> QED BY <3>3 DEF list
    <2> QED BY <2>1
  <1>2. Orderly(Draft, {"path", "cookie", "approval", "manifest", "forwardable"})
    <2>1. Draft =
            <<"path", "cookie", "charge", "approval", "manifest", "forwardable", "kind", "proxy">>
      <3> DEFINE list ==
            <<"path", "cookie", "charge", "approval", "manifest", "forwardable", "kind", "proxy">>
      <3>1. /\ Draft \in Seq(Names) /\ Len(Draft) = 8
            /\ \A i \in 1..8 : Draft[i] = list[i]
        BY DEF Draft, Cookie, Granted
      <3>2. list \in Seq(Names) /\ Len(list) = 8
        OBVIOUS
      <3> HIDE DEF list
      <3>3. Draft = list
        BY <3>1, <3>2, SeqEqual
      <3> QED BY <3>3 DEF list
    <2> QED BY <2>1
  <1>3. Orderly(Library, {"cookie", "approval", "manifest"})
    BY DEF Library
  <1>4. Orderly(Upload, {"cookie", "approval", "manifest", "scope"})
    <2>1. Upload =
            <<"cookie", "charge", "origin", "approval", "manifest", "scope", "shape", "open", "put", "finalize">>
      <3> DEFINE list ==
            <<"cookie", "charge", "origin", "approval", "manifest", "scope", "shape", "open", "put", "finalize">>
      <3>1. /\ Upload \in Seq(Names) /\ Len(Upload) = 10
            /\ \A i \in 1..10 : Upload[i] = list[i]
        BY DEF Upload, Cookie, Granted
      <3>2. list \in Seq(Names) /\ Len(list) = 10
        OBVIOUS
      <3> HIDE DEF list
      <3>3. Upload = list
        BY <3>1, <3>2, SeqEqual
      <3> QED BY <3>3 DEF list
    <2> QED BY <2>1
  <1>5. Orderly(Edit, {"cookie", "approval", "manifest", "scope"})
    BY DEF Edit
  <1>6. Orderly(Conflict, {"cookie", "approval", "manifest", "scope"})
    BY DEF Conflict
  <1>7. Orderly(PageRelease, {"cookie", "approval", "manifest"})
    BY DEF PageRelease
  <1> HIDE DEF Orderly
  <1> QED BY <1>1, <1>2, <1>3, <1>4, <1>5, <1>6, <1>7

LEMMA BearerListsAreOrderly ==
    /\ Orderly(Release, {"bearer", "owner"})
    /\ Orderly(Manage, {"path", "bearer", "owner", "forwardable"})
    /\ Orderly(Deploy, {"path", "bearer", "device", "deployer", "forwardable"})
    /\ Orderly(Proxied, {"bearer", "device", "forwardable", "kind"})
    /\ Orderly(Capture, {"bearer", "device"})
    /\ Orderly(NotesWrite, {"bearer", "no_device"})
    /\ Orderly(DigestCommand, {"bearer", "device"})
    /\ Orderly(DigestRead, {"bearer", "device"})
    /\ Orderly(LibrarySearch, {"bearer", "device"})
    /\ Orderly(Inspect, {"bearer", "device", "grant"})
  <1> USE DEF Bearer, Orderly, Lets, LastStages, Names, Guards
  <1>1. Orderly(Release, {"bearer", "owner"})
    BY DEF Release
  <1>2. Orderly(Manage, {"path", "bearer", "owner", "forwardable"})
    <2>1. Manage =
            <<"path", "bearer", "device", "charge", "owner", "forwardable", "kind", "proxy">>
      <3> DEFINE list ==
            <<"path", "bearer", "device", "charge", "owner", "forwardable", "kind", "proxy">>
      <3>1. /\ Manage \in Seq(Names) /\ Len(Manage) = 8
            /\ \A i \in 1..8 : Manage[i] = list[i]
        BY DEF Manage, Bearer
      <3>2. list \in Seq(Names) /\ Len(list) = 8
        OBVIOUS
      <3> HIDE DEF list
      <3>3. Manage = list
        BY <3>1, <3>2, SeqEqual
      <3> QED BY <3>3 DEF list
    <2> QED BY <2>1
  <1>3. Orderly(Deploy, {"path", "bearer", "device", "deployer", "forwardable"})
    <2>1. Deploy =
            <<"path", "bearer", "device", "charge", "deployer", "body", "forwardable", "kind", "proxy">>
      <3> DEFINE list ==
            <<"path", "bearer", "device", "charge", "deployer", "body", "forwardable", "kind", "proxy">>
      <3>1. /\ Deploy \in Seq(Names) /\ Len(Deploy) = 9
            /\ \A i \in 1..9 : Deploy[i] = list[i]
        BY DEF Deploy, Bearer
      <3>2. list \in Seq(Names) /\ Len(list) = 9
        OBVIOUS
      <3> HIDE DEF list
      <3>3. Deploy = list
        BY <3>1, <3>2, SeqEqual
      <3> QED BY <3>3 DEF list
    <2> QED BY <2>1
  <1>4. Orderly(Proxied, {"bearer", "device", "forwardable", "kind"})
    BY DEF Proxied
  <1>5. Orderly(Capture, {"bearer", "device"})
    BY DEF Capture
  <1>6. Orderly(NotesWrite, {"bearer", "no_device"})
    BY DEF NotesWrite
  <1>7. Orderly(DigestCommand, {"bearer", "device"})
    BY DEF DigestCommand
  <1>8. Orderly(DigestRead, {"bearer", "device"})
    BY DEF DigestRead
  <1>9. Orderly(LibrarySearch, {"bearer", "device"})
    BY DEF LibrarySearch
  <1>10. Orderly(Inspect, {"bearer", "device", "grant"})
    BY DEF Inspect
  <1> HIDE DEF Orderly
  <1> QED BY <1>1, <1>2, <1>3, <1>4, <1>5, <1>6, <1>7, <1>8, <1>9, <1>10

(* An upload is opened, sent and finalized after all its checks, and no    *)
(* other request has these steps.                                          *)
LEMMA UploadList ==
    /\ Upload \in Seq(Names) /\ Len(Upload) = 10 /\ DOMAIN Upload = 1..10
    /\ Upload[8] = "open" /\ Upload[9] = "put" /\ Upload[10] = "finalize"
    /\ \A p \in 1..7 : Upload[p] \in Guards
  BY DEF Upload, Cookie, Granted, Names, Guards, Lets

Uploads(list) == \E p \in DOMAIN list : list[p] \in {"open", "put", "finalize"}

LEMMA OthersUploadNothing ==
    /\ ~Uploads(Content) /\ ~Uploads(Draft) /\ ~Uploads(Library)
    /\ ~Uploads(Edit) /\ ~Uploads(Conflict) /\ ~Uploads(PageRelease)
    /\ ~Uploads(Release) /\ ~Uploads(Manage) /\ ~Uploads(Deploy)
    /\ ~Uploads(Proxied) /\ ~Uploads(Capture) /\ ~Uploads(NotesWrite)
    /\ ~Uploads(DigestCommand) /\ ~Uploads(DigestRead)
    /\ ~Uploads(LibrarySearch) /\ ~Uploads(Inspect)
  <1> USE DEF Bearer, Cookie, Granted, Uploads
  <1>1. ~Uploads(Content) /\ ~Uploads(Draft)
    BY DEF Content, Draft
  <1>2. ~Uploads(Library) /\ ~Uploads(Edit)
    BY DEF Library, Edit
  <1>3. ~Uploads(Conflict) /\ ~Uploads(PageRelease)
    BY DEF Conflict, PageRelease
  <1>4. ~Uploads(Release) /\ ~Uploads(Manage)
    BY DEF Release, Manage
  <1>5. ~Uploads(Deploy) /\ ~Uploads(Proxied)
    BY DEF Deploy, Proxied
  <1>6. ~Uploads(Capture) /\ ~Uploads(NotesWrite)
    BY DEF Capture, NotesWrite
  <1>7. ~Uploads(DigestCommand) /\ ~Uploads(DigestRead)
    BY DEF DigestCommand, DigestRead
  <1>8. ~Uploads(LibrarySearch) /\ ~Uploads(Inspect)
    BY DEF LibrarySearch, Inspect
  <1> HIDE DEF Uploads
  <1> QED BY <1>1, <1>2, <1>3, <1>4, <1>5, <1>6, <1>7, <1>8

(* The same of the list of a route.                                        *)
LEMMA RouteIsOrderly ==
    ASSUME NEW r \in DOMAIN Stages
    PROVE  /\ Orderly(Stages[r], Needs[r])
           /\ r = "upload" => Stages[r] = Upload
           /\ r # "upload" => ~Uploads(Stages[r])
  <1>1. CASE r \in {"content", "draft", "library", "upload", "edit", "conflict", "page_release"}
    <2>1. CASE r = "content"
      BY <2>1, SiteListsAreOrderly, OthersUploadNothing DEF Stages, Needs
    <2>2. CASE r = "draft"
      BY <2>2, SiteListsAreOrderly, OthersUploadNothing DEF Stages, Needs
    <2>3. CASE r = "library"
      BY <2>3, SiteListsAreOrderly, OthersUploadNothing DEF Stages, Needs
    <2>4. CASE r = "upload"
      BY <2>4, SiteListsAreOrderly, OthersUploadNothing DEF Stages, Needs
    <2>5. CASE r = "edit"
      BY <2>5, SiteListsAreOrderly, OthersUploadNothing DEF Stages, Needs
    <2>6. CASE r = "conflict"
      BY <2>6, SiteListsAreOrderly, OthersUploadNothing DEF Stages, Needs
    <2>7. CASE r = "page_release"
      BY <2>7, SiteListsAreOrderly, OthersUploadNothing DEF Stages, Needs
    <2> QED BY <1>1, <2>1, <2>2, <2>3, <2>4, <2>5, <2>6, <2>7
  <1>2. CASE r \in {"release", "manage", "deploy", "notes", "notes_device"}
    <2>1. CASE r = "release"
      BY <2>1, BearerListsAreOrderly, OthersUploadNothing DEF Stages, Needs
    <2>5. CASE r = "manage"
      BY <2>5, BearerListsAreOrderly, OthersUploadNothing DEF Stages, Needs
    <2>2. CASE r = "deploy"
      BY <2>2, BearerListsAreOrderly, OthersUploadNothing DEF Stages, Needs
    <2>3. CASE r = "notes"
      BY <2>3, BearerListsAreOrderly, OthersUploadNothing DEF Stages, Needs
    <2>4. CASE r = "notes_device"
      BY <2>4, BearerListsAreOrderly, OthersUploadNothing DEF Stages, Needs
    <2> QED BY <1>2, <2>1, <2>2, <2>3, <2>4, <2>5
  <1>3. CASE r \in {"capture", "notes_write", "digest_command", "digest_read",
                    "library_search", "inspect"}
    <2>1. CASE r = "capture"
      BY <2>1, BearerListsAreOrderly, OthersUploadNothing DEF Stages, Needs
    <2>2. CASE r = "notes_write"
      BY <2>2, BearerListsAreOrderly, OthersUploadNothing DEF Stages, Needs
    <2>3. CASE r = "digest_command"
      BY <2>3, BearerListsAreOrderly, OthersUploadNothing DEF Stages, Needs
    <2>4. CASE r = "digest_read"
      BY <2>4, BearerListsAreOrderly, OthersUploadNothing DEF Stages, Needs
    <2>5. CASE r = "library_search"
      BY <2>5, BearerListsAreOrderly, OthersUploadNothing DEF Stages, Needs
    <2>6. CASE r = "inspect"
      BY <2>6, BearerListsAreOrderly, OthersUploadNothing DEF Stages, Needs
    <2> QED BY <1>3, <2>1, <2>2, <2>3, <2>4, <2>5, <2>6
  <1> QED BY <1>1, <1>2, <1>3 DEF Stages

-----------------------------------------------------------------------------
(* The invariant                                                           *)

(* What the request must have been when it passed this stage.              *)
Earned(s) ==
    /\ s = "bearer" => cred # "none" /\ "live" \in held
    /\ s = "cookie" => cred = "cookie" /\ "live" \in held
    /\ s = "device" => (cred \in DeviceCredentials => cred = "phone" \/ route = "deploy")
    /\ s = "owner" => cred \notin DeviceCredentials /\ "grant" \in held
    /\ s = "grant" => "grant" \in held
    /\ s = "deployer" => \/ cred \notin DeviceCredentials /\ "grant" \in held
                         \/ cred = "deployer"
    /\ s = "approval" => "approved" \in held
    /\ s = "manifest" => "holds" \in held /\ "active" \in held
    /\ s = "scope" => "scope" \in held
    /\ s = "kind" => ~RefusesDevice
    /\ s = "no_device" => cred \notin DeviceCredentials
    /\ s = "path" => FirstKept(path, "site")
    /\ s = "forwardable" => ~Resolved(path).left /\ ~FirstKept(path, "internal")

(* The ghosts follow the world, and what the approval row said was so.     *)
Reading ==
    /\ route \in Routes /\ cred \in CredentialsOf(route) /\ path \in PathsOf(route)
    /\ world \subseteq held /\ Facts \ world \subseteq failed
    /\ "live" \in world => "paired" \in world
    /\ "live" \in held => "paired" \in held
    /\ granted => "holds" \in held

Rest(p) == SubSeq(Stages[route], p, Len(Stages[route]))

(* The request is at a stage, and every stage before that was earned.      *)
AtStage(p) ==
    /\ answer = "none" /\ todo = Rest(p)
    /\ \A j \in 1..p - 1 : Earned(Stages[route][j])

(* It is there, or it closes an upload, or it is answered.                 *)
Failures == {"not_found"} \cup FetchFailures
Placed ==
    \/ todo = <<>> /\ answer # "none"
    \/ todo = <<"close">> /\ answer = "none" /\ refusal \in Failures
    \/ \E p \in 1..Len(Stages[route]) : AtStage(p)

(* An upload session is there only while a later stage is under way.       *)
UploadIsLate ==
    upload # "none" /\ todo # <<>> => todo[1] \in {"put", "finalize", "close"}

RequestInv ==
    /\ Reading /\ Placed /\ UploadIsLate
    /\ AuthorityWasThere /\ UnauthenticatedMeansDead /\ UploadsSettle
    /\ PathStaysOnItsSite

(* Who a route listens to, and which routes have a path.                   *)
LEMMA CookieRoutesAreByCookie ==
    ASSUME NEW r \in Routes
    PROVE  r \in ByCookie <=> "cookie" \in Needs[r]
  <1>1. r \in DOMAIN Stages
    BY RequestsAssumption
  <1>2. Orderly(Stages[r], Needs[r])
    BY <1>1, RouteIsOrderly
  <1> QED BY <1>2 DEF ByCookie, Orderly

LEMMA ForwardingRoutes ==
    ASSUME NEW r \in Routes, r \in Forwarding
    PROVE  /\ "forwardable" \in Needs[r]
           /\ r \in OfSites => "path" \in Needs[r]
  <1>1. r \in DOMAIN Stages
    BY RequestsAssumption
  <1>2. Orderly(Stages[r], Needs[r])
    BY <1>1, RouteIsOrderly
  <1>3. "forwardable" \in Needs[r]
    BY <1>2 DEF Forwarding, Orderly
  <1> QED BY <1>1, <1>3 DEF Needs, OfSites, Domain, Stages

(* The path that a service gets leads where it should.                     *)
PathFits ==
    route \in Forwarding =>
        /\ ~LeadsOut(path) /\ ~LeadsTo(path, "internal")
        /\ route \in OfSites => LeadsTo(path, "site")

LEMMA PathWasChecked ==
    ASSUME Reading, \A q \in Needs[route] : Earned(q)
    PROVE  PathFits
  <1> SUFFICES ASSUME route \in Forwarding
               PROVE  /\ ~LeadsOut(path) /\ ~LeadsTo(path, "internal")
                      /\ route \in OfSites => LeadsTo(path, "site")
    BY DEF PathFits
  <1>1. route \in Routes /\ path \in Seq(STRING)
    BY RequestsAssumption DEF Reading, PathsOf
  <1>2. /\ ~Resolved(path).left /\ ~FirstKept(path, "internal")
        /\ route \in OfSites => FirstKept(path, "site")
    BY <1>1, ForwardingRoutes DEF Earned
  <1>3. ~LeadsOut(path)
    BY <1>1, <1>2, ResolvedIsWhereItLeads
  <1>4. ASSUME NEW name, name # ".."
        PROVE  LeadsTo(path, name) <=> FirstKept(path, name)
    BY <1>1, <1>2, <1>3, <1>4, ResolvedIsWhereItLeads DEF FirstKept
  <1> QED BY <1>2, <1>3, <1>4

LEMMA WhoAsks ==
    ASSUME NEW r \in Routes, NEW c \in CredentialsOf(r)
    PROVE  /\ r = "content" => c = "none"
           /\ r \in ByCookie => c \in {"none", "cookie", "cookie_other"}
           /\ r \notin ByCookie => c \in {"none"} \cup Bearers
  <1>1. r = "content" => r \notin ByCookie
    BY CookieRoutesAreByCookie DEF Needs
  <1> QED BY <1>1 DEF CredentialsOf, CookieCredentials

(* The rest of a list.                                                     *)
LEMMA RestOfList ==
    ASSUME NEW S, NEW list \in Seq(S), NEW p \in 1..Len(list)
    PROVE  LET rest == SubSeq(list, p, Len(list)) IN
           /\ rest # <<>> /\ rest[1] = list[p]
           /\ p < Len(list) => Tail(rest) = SubSeq(list, p + 1, Len(list))
  <1> DEFINE n == Len(list)
             rest == SubSeq(list, p, n)
  <1>1. n \in Nat /\ p \in 1..n /\ \A i \in 1..n : list[i] \in S
    OBVIOUS
  <1>2. /\ rest \in Seq(S) /\ Len(rest) = n - p + 1
        /\ \A i \in 1..n - p + 1 : rest[i] = list[p + i - 1]
    BY <1>1, SubSeqProperties
  <1> HIDE DEF n, rest
  <1>3. rest # <<>> /\ rest[1] = list[p]
    <2>1. n - p + 1 \in Nat /\ 1 \in 1..n - p + 1 /\ p + 1 - 1 = p
      BY <1>1
    <2>2. Len(rest) # 0
      BY <1>1, <1>2, <2>1
    <2> QED BY <1>2, <2>1, <2>2
  <1>4. ASSUME p < n
        PROVE  Tail(rest) = SubSeq(list, p + 1, n)
    <2> DEFINE later == SubSeq(list, p + 1, n)
    <2>0. /\ p + 1 \in Int /\ p + 1 <= n /\ n - (p + 1) + 1 = n - p
          /\ \A i \in p + 1..n : list[i] \in S
      BY <1>1, <1>4
    <2>a. /\ later \in Seq(S) /\ Len(later) = n - (p + 1) + 1
          /\ \A i \in 1..n - (p + 1) + 1 : later[i] = list[(p + 1) + i - 1]
      BY <1>1, <2>0, SubSeqProperties
    <2>b. \A i \in 1..n - p : (p + 1) + i - 1 = p + i
      BY <1>1
    <2>1. /\ later \in Seq(S) /\ Len(later) = n - p
          /\ \A i \in 1..n - p : later[i] = list[p + i]
      BY <2>0, <2>a, <2>b
    <2>2. /\ Tail(rest) \in Seq(S) /\ Len(Tail(rest)) = n - p
          /\ \A i \in 1..n - p : Tail(rest)[i] = rest[i + 1]
      BY <1>1, <1>2, <1>3, HeadTailProperties
    <2>3. ASSUME NEW i \in 1..n - p
          PROVE  Tail(rest)[i] = later[i]
      <3>1. i + 1 \in 1..n - p + 1 /\ p + (i + 1) - 1 = p + i
        BY <1>1
      <3>2. rest[i + 1] = list[p + i]
        BY <1>2, <3>1
      <3> QED BY <2>1, <2>2, <3>2
    <2> HIDE DEF later
    <2>4. Tail(rest) = later
      BY <2>1, <2>2, <2>3, SeqEqual
    <2> QED BY <2>4 DEF later
  <1> QED BY <1>3, <1>4 DEF n, rest

(* The stage that a request is at.                                         *)
LEMMA TheStage ==
    ASSUME Reading, NEW p \in 1..Len(Stages[route]), AtStage(p)
    PROVE  /\ todo # <<>> /\ todo[1] = Stages[route][p]
           /\ p < Len(Stages[route]) => Tail(todo) = Rest(p + 1)
           /\ p = Len(Stages[route]) => todo[1] \in LastStages
  <1>1. Orderly(Stages[route], Needs[route])
    BY RequestsAssumption, RouteIsOrderly DEF Reading
  <1>2. Stages[route] \in Seq(Names) /\ Stages[route][Len(Stages[route])] \in LastStages
    BY <1>1 DEF Orderly
  <1> QED BY <1>2, RestOfList DEF AtStage, Rest

LEMMA OneStage ==
    ASSUME Reading, Placed, NEW s \in Names, At(s)
    PROVE  \E p \in 1..Len(Stages[route]) :
              /\ AtStage(p) /\ Stages[route][p] = s
              /\ \A q \in Needs[route] : s \in Lets => Earned(q)
              /\ s = "approval" /\ route # "content" => Earned("cookie")
  <1>1. Orderly(Stages[route], Needs[route])
    BY RequestsAssumption, RouteIsOrderly DEF Reading
  <1>2. todo # <<>> /\ todo[1] = s /\ s # "close"
    BY DEF At, Names, Guards, Lets
  <1>3. PICK p \in 1..Len(Stages[route]) : AtStage(p)
    BY <1>2 DEF Placed
  <1>4. Stages[route][p] = s
    BY <1>2, <1>3, TheStage
  <1>5. p \in DOMAIN Stages[route]
    BY <1>1 DEF Orderly
  <1>6. \A q \in Needs[route] : s \in Lets => Earned(q)
    BY <1>1, <1>3, <1>4, <1>5 DEF Orderly, AtStage
  <1>7. ASSUME s = "approval", route # "content"
        PROVE  Earned("cookie")
    <2>1. "approval" \in Needs[route]
      BY <1>1, <1>4, <1>5, <1>7 DEF Orderly
    <2>2. "cookie" \in Needs[route]
      BY <1>7, <2>1, RequestsAssumption DEF Needs, Reading, Stages
    <2> QED BY <1>1, <1>3, <1>4, <1>5, <1>7, <2>2 DEF Orderly, AtStage
  <1> QED BY <1>3, <1>4, <1>6, <1>7

(* Whoever comes to a stage that lets it through has passed the checks of  *)
(* its route, each at some instant.                                        *)
LEMMA LetThrough ==
    ASSUME Reading, Placed, NEW s \in Lets, At(s)
    PROVE  CredentialFits /\ Authority \subseteq held /\ PathFits
  <1>0. route \in Routes /\ route \in DOMAIN Stages /\ cred \in CredentialsOf(route)
    BY RequestsAssumption DEF Reading
  <1>1. \A q \in Needs[route] : Earned(q)
    BY OneStage DEF Names
  <1> SUFFICES CredentialFits /\ Authority \subseteq held
    BY <1>1, PathWasChecked
  <1>2. route \in ByCookie <=> "cookie" \in Needs[route]
    BY <1>0, CookieRoutesAreByCookie
  <1>3. /\ route \in ByCookie => cred \in {"none", "cookie", "cookie_other"}
        /\ route \notin ByCookie => cred \in {"none"} \cup Bearers
    BY <1>0, WhoAsks
  <1>4. "live" \in held => "paired" \in held
    BY DEF Reading
  <1>5. CASE route = "content"
    <2>1. Earned("approval") /\ Earned("manifest") /\ route \notin ByCookie /\ cred = "none"
      BY <1>0, <1>1, <1>2, <1>5, WhoAsks DEF Needs
    <2> QED BY <2>1, <1>5
            DEF Earned, CredentialFits, Authority, Domain, DeviceCredentials
  <1>6. CASE "cookie" \in Needs[route]
    <2>1. route \in CookieRoutes
      BY <1>0, <1>6 DEF Needs, CookieRoutes, Stages
    <2>2. /\ Earned("cookie") /\ Earned("approval") /\ Earned("manifest")
          /\ route \in {"upload", "edit", "conflict"} => Earned("scope")
      BY <1>1, <2>1 DEF Needs, CookieRoutes
    <2>3. cred = "cookie" /\ {"live", "approved", "holds", "active"} \subseteq held
      BY <2>2 DEF Earned
    <2>4. route \in {"upload", "edit", "conflict"} => "scope" \in held
      BY <2>2 DEF Earned
    <2>5. CredentialFits
      BY <2>1, <2>3 DEF CredentialFits, CookieRoutes, Domain
    <2>6. Authority \subseteq held
      BY <2>1, <2>3, <2>4 DEF Authority, CookieRoutes, DeviceCredentials
    <2> QED BY <2>5, <2>6
  <1>7. CASE "cookie" \notin Needs[route] /\ route # "content"
    <2>0. route \notin ByCookie /\ cred \in {"none"} \cup Bearers
      BY <1>2, <1>3, <1>7
    <2>1. Earned("bearer")
      BY <1>0, <1>1, <1>7 DEF Needs, Stages
    <2>2. cred \in Bearers /\ "live" \in held /\ "paired" \in held
      BY <1>4, <2>0, <2>1 DEF Earned
    <2>3. CASE route \in {"release", "manage"}
      <3>1. Earned("owner")
        BY <1>1, <2>3 DEF Needs
      <3> QED BY <2>0, <2>2, <2>3, <3>1
              DEF Earned, CredentialFits, Authority, Domain, Bearers
    <2>4. CASE route = "deploy"
      <3>1. Earned("deployer") /\ Earned("device")
        BY <1>1, <2>4 DEF Needs
      <3>2. CASE cred \in DeviceCredentials
        BY <2>0, <2>2, <2>4, <3>1, <3>2, <1>0
           DEF Earned, CredentialFits, Authority, Domain, DeviceCredentials
      <3>3. CASE cred \notin DeviceCredentials
        BY <2>0, <2>2, <2>4, <3>1, <3>3, <1>0
           DEF Earned, CredentialFits, Authority, Domain, Bearers,
               DeviceCredentials
      <3> QED BY <3>2, <3>3
    <2>5. CASE route \in {"notes", "notes_device"}
      <3>1. Earned("device") /\ Earned("kind")
        BY <1>1, <2>5 DEF Needs
      <3> QED BY <2>0, <2>2, <2>5, <3>1
              DEF Earned, CredentialFits, Authority, Domain, Bearers,
                  DeviceCredentials, RefusesDevice
    <2>6. CASE route = "notes_write"
      <3>1. Earned("no_device")
        BY <1>1, <2>6 DEF Needs
      <3> QED BY <2>0, <2>2, <2>6, <3>1
              DEF Earned, CredentialFits, Authority, Domain, Bearers
    <2>7. CASE route = "inspect"
      <3>1. Earned("device") /\ Earned("grant")
        BY <1>1, <2>7 DEF Needs
      <3> QED BY <2>0, <2>2, <2>7, <3>1
              DEF Earned, CredentialFits, Authority, Domain, Bearers,
                  DeviceCredentials
    <2>8. CASE route \in {"capture", "digest_command", "digest_read", "library_search"}
      <3>1. Earned("device")
        BY <1>1, <2>8 DEF Needs
      <3> QED BY <2>0, <2>2, <2>8, <3>1
              DEF Earned, CredentialFits, Authority, Domain, Bearers,
                  DeviceCredentials
    <2> QED BY <1>0, <1>7, <2>3, <2>4, <2>5, <2>6, <2>7, <2>8 DEF Needs, Stages
  <1> QED BY <1>5, <1>6, <1>7

-----------------------------------------------------------------------------
(* The checks                                                              *)

(* Why a credential may be called no good.                                 *)
NoGood ==
    \/ cred \in {"none", "cookie_other"}
    \/ "live" \in failed
    \/ cred \in DeviceCredentials /\ "paired" \in failed
    \/ cred = "cookie" /\ "approved" \in failed

(* A check is passed when it was earned, and its refusal is no success.    *)
Refuses ==
    \E a : /\ Refuse(a) /\ a \notin {"none", "ok"}
           /\ a = "unauthenticated" => NoGood
CheckStep(s) ==
    /\ At(s) /\ KeepWorld /\ UNCHANGED <<refusal, sent, upload, lost>>
    /\ granted' => granted \/ "holds" \in held
    /\ (Pass /\ Earned(s)) \/ Refuses

LEMMA EveryCheck ==
    ASSUME Reading, Placed, Checks
    PROVE  \E s \in Guards : CheckStep(s)
  <1> USE DEF CheckStep, Refuses, Earned, Guards, Still, progress
  <1>0. /\ \A f \in Facts : f \in world => f \in held
        /\ \A f \in Facts : f \notin world => f \in failed
        /\ "holds" \in world => "holds" \in held
        /\ route \in Routes /\ cred \in CredentialsOf(route)
    BY DEF Reading, Facts
  <1>1. CASE NamesSite
    <2>1. At("path") /\ CheckStep("path")
      BY <1>1 DEF NamesSite
    <2> QED BY <2>1
  <1>2. CASE Body
    <2>1. CheckStep("body")
      BY <1>2 DEF Body
    <2> QED BY <2>1
  <1>3. CASE Shape
    <2>1. CheckStep("shape")
      BY <1>3 DEF Shape
    <2> QED BY <2>1
  <1>4. CASE CheckEdit
    <2>1. CheckStep("check")
      BY <1>4 DEF CheckEdit
    <2> QED BY <2>1
  <1>5. CASE Key
    <2>1. CheckStep("key")
      BY <1>5 DEF Key
    <2> QED BY <2>1
  <1>6. CASE Admissible
    <2>1. CheckStep("no_device")
      BY <1>6 DEF Admissible
    <2> QED BY <2>1
  <1>7. CASE Limit
    <2>1. CheckStep("limit") \/ CheckStep("charge")
      BY <1>7 DEF Limit
    <2> QED BY <2>1
  <1>8. CASE Authenticate
    <2>1. CASE Check("bearer", cred # "none" /\ "live" \in world,
                     "unauthenticated", "request_timeout")
      <3>1. CheckStep("bearer")
        BY <1>0, <2>1 DEF Check, Facts, NoGood
      <3> QED BY <3>1
    <2>2. CASE Check("cookie", cred = "cookie" /\ "live" \in world,
                     "unauthenticated", "request_timeout")
      <3>1. At("cookie")
        BY <2>2 DEF Check
      <3>2. route \in ByCookie
        <4>1. PICK p \in 1..Len(Stages[route]) : Stages[route][p] = "cookie"
          BY <3>1, OneStage DEF Names
        <4>2. Orderly(Stages[route], Needs[route])
          BY <1>0, RequestsAssumption, RouteIsOrderly
        <4>3. p \in DOMAIN Stages[route]
          BY <4>2 DEF Orderly
        <4> QED BY <1>0, <4>1, <4>3 DEF ByCookie
      <3>3. cred \in {"none", "cookie", "cookie_other"}
        BY <1>0, <3>2, WhoAsks
      <3>4. CheckStep("cookie")
        BY <1>0, <2>2, <3>3 DEF Check, Facts, NoGood
      <3> QED BY <3>4
    <2> QED BY <1>8, <2>1, <2>2 DEF Authenticate
  <1>9. CASE DeployerSite
    <2>1. CASE cred \notin DeviceCredentials
      <3>1. CheckStep("device")
        BY <1>9, <2>1 DEF DeployerSite, Check
      <3> QED BY <3>1
    <2>2. CASE cred \in DeviceCredentials
      <3>1. \/ Check("device", cred = "phone" \/ (route = "deploy" /\ "paired" \in world),
                     "forbidden", "request_timeout")
            \/ /\ At("device") /\ Still /\ "paired" \notin world
               /\ Refuse("unauthenticated")
        BY <1>9, <2>2 DEF DeployerSite
      <3>2. "paired" \notin world => NoGood
        BY <1>0, <2>2 DEF NoGood, Facts
      <3>3. CheckStep("device")
        BY <3>1, <3>2 DEF Check
      <3> QED BY <3>3
    <2> QED BY <2>1, <2>2
  <1>10. CASE Origin
    <2>1. CheckStep("origin")
      BY <1>10 DEF Origin, Check
    <2> QED BY <2>1
  <1>11. CASE RequireOwner
    <2>1. CheckStep("grant")
      BY <1>0, <1>11 DEF RequireOwner, Check, Facts
    <2> QED BY <2>1
  <1>12. CASE Owner
    <2>1. CheckStep("owner")
      BY <1>0, <1>12 DEF Owner, Check, Facts
    <2> QED BY <2>1
  <1>13. CASE Deployer
    <2>1. CASE At("deployer") /\ cred \in DeviceCredentials
      <3>1. cred \in {"phone", "deployer", "deployer_other"}
        BY <2>1 DEF DeviceCredentials
      <3>2. Still /\ Deployer /\ ~(cred \notin DeviceCredentials)
        BY <1>13, <2>1 DEF Deployer, Check
      <3>3. CASE cred = "deployer"
        <4>1. Pass
          BY <2>1, <3>2, <3>3 DEF Deployer
        <4>2. CheckStep("deployer")
          BY <2>1, <3>2, <3>3, <4>1
        <4> QED BY <4>2
      <3>4. CASE cred \in {"phone", "deployer_other"}
        <4>1. Refuse("forbidden") \/ Refuse("not_granted")
          BY <2>1, <3>2, <3>4 DEF Deployer
        <4>2. CheckStep("deployer")
          BY <2>1, <3>2, <4>1
        <4> QED BY <4>2
      <3> QED BY <3>1, <3>3, <3>4
    <2>2. CASE cred \notin DeviceCredentials
      <3>1. Check("deployer", "grant" \in world, "forbidden", "request_timeout")
        BY <1>13, <2>2 DEF Deployer
      <3>2. CheckStep("deployer")
        BY <1>0, <2>2, <3>1 DEF Check, Facts
      <3> QED BY <3>2
    <2> QED BY <1>13, <2>1, <2>2 DEF Deployer
  <1>14. CASE Approval
    <2>1. At("approval")
      BY <1>14 DEF Approval
    <2>2. route # "content" => Earned("cookie")
      BY <2>1, OneStage DEF Names
    <2>3. "approved" \notin world /\ route # "content" => NoGood
      BY <1>0, <2>2 DEF NoGood, Facts
    <2>4. CheckStep("approval")
      BY <1>0, <1>14, <2>3 DEF Approval, Facts
    <2> QED BY <2>4
  <1>15. CASE Manifest
    <2>1. CheckStep("manifest")
      BY <1>0, <1>15 DEF Manifest, Check, InEffect, Facts, Reading
    <2> QED BY <2>1
  <1>16. CASE Scope
    <2>1. CheckStep("scope")
      BY <1>0, <1>16 DEF Scope, Check, FetchFailures, Facts
    <2> QED BY <2>1
  <1>17. CASE Forwardable
    <2>1. CheckStep("forwardable")
      BY <1>17 DEF Forwardable
    <2> QED BY <2>1
  <1>18. CASE Kind
    <2>1. CheckStep("kind")
      BY <1>0, <1>18 DEF Kind, Facts, NoGood
    <2> QED BY <2>1
  <1> QED
    BY <1>1, <1>2, <1>3, <1>4, <1>5, <1>6, <1>7, <1>8, <1>9, <1>10, <1>11, <1>12,
       <1>13, <1>14, <1>15, <1>16, <1>17, <1>18 DEF Checks

-----------------------------------------------------------------------------
(* The steps                                                               *)

(* What was earned stays so.                                               *)
LEMMA EarnedStays ==
    ASSUME NEW s, Earned(s), UNCHANGED <<route, cred, path>>, held \subseteq held'
    PROVE  Earned(s)'
  BY DEF Earned, RefusesDevice

LEMMA PlacedStays ==
    ASSUME Placed, UNCHANGED <<route, cred, path, todo, answer, refusal>>,
           held \subseteq held'
    PROVE  Placed'
  <1>1. CASE todo = <<>> /\ answer # "none"
    BY <1>1 DEF Placed
  <1>2. CASE todo = <<"close">> /\ answer = "none" /\ refusal \in Failures
    BY <1>2 DEF Placed, Failures, FetchFailures
  <1>3. ASSUME NEW p \in 1..Len(Stages[route]), AtStage(p)
        PROVE  Placed'
    <2>1. AtStage(p)'
      BY <1>3, EarnedStays DEF AtStage, Rest
    <2> QED BY <2>1 DEF Placed
  <1> QED BY <1>1, <1>2, <1>3 DEF Placed

(* A stage that is passed leads to the next one.                           *)
LEMMA Passed ==
    ASSUME Reading, Placed, NEW s \in Names \ LastStages, At(s), Earned(s), Pass,
           UNCHANGED <<route, cred, path, held>>
    PROVE  /\ Placed' /\ answer' = "none"
           /\ \E p \in 1..Len(Stages[route]) :
                 /\ Stages[route][p] = s /\ p < Len(Stages[route])
                 /\ todo' # <<>> /\ todo'[1] = Stages[route][p + 1]
  <1> DEFINE n == Len(Stages[route])
  <1>1. PICK p \in 1..n : AtStage(p) /\ Stages[route][p] = s
    BY OneStage
  <1>2. Stages[route] \in Seq(Names)
    BY RequestsAssumption, RouteIsOrderly DEF Reading, Orderly
  <1>3. n \in Nat
    BY <1>2
  <1>4. p # n
    BY <1>1, TheStage DEF At
  <1> HIDE DEF n
  <1>5. p < n /\ p + 1 \in 1..n /\ \A j \in 1..(p + 1) - 1 : j \in 1..p - 1 \/ j = p
    BY <1>1, <1>3, <1>4
  <1>6. todo' = Rest(p + 1)
    BY <1>1, <1>5, TheStage DEF Pass, n
  <1>7. \A j \in 1..(p + 1) - 1 : Earned(Stages[route][j])
    BY <1>1, <1>5 DEF AtStage
  <1>8. (\A j \in 1..(p + 1) - 1 : Earned(Stages[route][j]))'
    BY <1>7, EarnedStays
  <1>9. AtStage(p + 1)'
    BY <1>1, <1>6, <1>8 DEF AtStage, Rest, Pass
  <1>10. Placed'
    BY <1>5, <1>9 DEF Placed, n
  <1>11. todo' # <<>> /\ todo'[1] = Stages[route][p + 1]
    BY <1>2, <1>5, <1>6, RestOfList DEF Rest, n
  <1> QED BY <1>1, <1>5, <1>9, <1>10, <1>11 DEF n, AtStage

(* An upload session is at none before its stages.                         *)
LEMMA UploadStage ==
    ASSUME Reading, Placed, NEW s \in {"open", "put", "finalize"}, At(s)
    PROVE  /\ route = "upload" /\ Stages[route] = Upload /\ answer = "none"
           /\ \E p \in 1..Len(Upload) : AtStage(p) /\ Upload[p] = s
  <1>1. PICK p \in 1..Len(Stages[route]) : AtStage(p) /\ Stages[route][p] = s
    BY OneStage DEF Names, Lets
  <1>2. /\ Stages[route] \in Seq(Names)
        /\ route = "upload" => Stages[route] = Upload
        /\ route # "upload" => ~Uploads(Stages[route])
    BY RequestsAssumption, RouteIsOrderly DEF Reading, Orderly
  <1>3. route = "upload"
    <2>1. p \in DOMAIN Stages[route]
      BY <1>2
    <2> QED BY <1>1, <1>2, <2>1 DEF Uploads
  <1> QED BY <1>1, <1>2, <1>3 DEF AtStage

(* What the world does to a request.                                       *)
LEMMA WorldChanges ==
    ASSUME RequestInv, World
    PROVE  RequestInv'
  <1>1. PICK facts : Becomes(facts) /\ ("live" \in facts => "paired" \in facts)
    <2> USE DEF RequestInv, Reading
    <2>1. CASE EndSession
      BY <2>1 DEF EndSession
    <2>2. CASE RevokeDevice
      BY <2>2 DEF RevokeDevice
    <2>3. CASE ChangeGrant
      BY <2>3 DEF ChangeGrant, Toggle
    <2>4. CASE Withdraw
      BY <2>4 DEF Withdraw
    <2>5. CASE Approve
      <3>1. PICK holds \in SUBSET {"holds"} :
               Becomes((world \ {"holds"}) \cup {"approved"} \cup holds)
        BY <2>5 DEF Approve
      <3> QED BY <3>1
    <2>6. CASE Activate
      BY <2>6 DEF Activate, Toggle
    <2>7. CASE Publish
      BY <2>7 DEF Publish, Toggle
    <2> QED BY <2>1, <2>2, <2>3, <2>4, <2>5, <2>6, <2>7 DEF World
  <1>2. /\ UNCHANGED <<route, cred, path, todo, granted, refusal, sent, upload, lost, answer>>
        /\ held' = held \cup facts /\ failed' = failed \cup (Facts \ facts)
        /\ world' = facts /\ answer = "none"
    BY <1>1 DEF Becomes, request, progress
  <1>3. Reading'
    BY <1>1, <1>2 DEF RequestInv, Reading
  <1>4. Placed'
    BY <1>2, PlacedStays DEF RequestInv
  <1>5. UploadIsLate'
    BY <1>2 DEF RequestInv, UploadIsLate
  <1>6. AuthorityWasThere' /\ PathStaysOnItsSite'
    <2>0. PathFits' <=> PathFits
      BY <1>2 DEF PathFits
    <2>1. CredentialFits' <=> CredentialFits
      BY <1>2 DEF CredentialFits
    <2>2. Authority' = Authority
      BY <1>2 DEF Authority
    <2>3. sent' # {} => sent # {}
      BY <1>2
    <2> QED BY <1>2, <2>0, <2>1, <2>2, <2>3
            DEF RequestInv, AuthorityWasThere, PathStaysOnItsSite, PathFits
  <1>7. UnauthenticatedMeansDead' /\ UploadsSettle'
    BY <1>2 DEF UnauthenticatedMeansDead, UploadsSettle
  <1> QED BY <1>3, <1>4, <1>5, <1>6, <1>7 DEF RequestInv

(* What the steps of the request itself leave alone.                       *)
LEMMA KeptWorld ==
    ASSUME RequestInv, KeepWorld, granted' => granted \/ "holds" \in held
    PROVE  /\ Reading'
           /\ UNCHANGED <<route, cred, path, held, failed>>
           /\ sent' = sent \/ (CredentialFits /\ Authority \subseteq held /\ PathFits) =>
                AuthorityWasThere' /\ PathStaysOnItsSite'
           /\ NoGood' <=> NoGood
  <1>1. UNCHANGED <<route, cred, path, world, held, failed>>
    BY DEF KeepWorld, request, requestGhosts
  <1>2. Reading'
    BY <1>1 DEF RequestInv, Reading
  <1>3. CredentialFits' <=> CredentialFits
    BY <1>1 DEF CredentialFits
  <1>4. Authority' = Authority
    BY <1>1 DEF Authority
  <1>5. NoGood' <=> NoGood
    BY <1>1 DEF NoGood
  <1>6. PathFits' <=> PathFits
    BY <1>1 DEF PathFits
  <1> QED BY <1>1, <1>2, <1>3, <1>4, <1>5, <1>6
         DEF RequestInv, AuthorityWasThere, PathStaysOnItsSite, PathFits

(* A check, and the read of a conflict, which is like one.                 *)
LEMMA ChecksKeep ==
    ASSUME RequestInv, NEW s \in Guards \cup {"read"}, CheckStep(s)
    PROVE  RequestInv'
  <1> USE DEF RequestInv
  <1>1. At(s) /\ KeepWorld /\ UNCHANGED <<refusal, sent, upload, lost>>
    BY DEF CheckStep
  <1>2. /\ Reading' /\ AuthorityWasThere' /\ PathStaysOnItsSite' /\ (NoGood' <=> NoGood)
        /\ UNCHANGED <<route, cred, path, held>>
    BY <1>1, KeptWorld DEF CheckStep
  <1>3. s \in Names \ LastStages /\ s \notin {"put", "finalize", "close"}
    BY DEF Names, Guards, LastStages, Lets
  <1>4. todo # <<>> /\ upload = "none"
    BY <1>1, <1>3 DEF At, UploadIsLate
  <1>5. CASE Pass /\ Earned(s)
    <2>1. Placed' /\ answer' = "none"
      BY <1>1, <1>2, <1>3, <1>5, Passed
    <2> QED BY <1>1, <1>2, <1>4, <2>1
            DEF UploadIsLate, UnauthenticatedMeansDead, UploadsSettle
  <1>6. CASE Refuses
    <2>1. PICK a : /\ Refuse(a) /\ a \notin {"none", "ok"}
                   /\ a = "unauthenticated" => NoGood
      BY <1>6 DEF Refuses
    <2>2. todo' = <<>> /\ answer' = a
      BY <2>1 DEF Refuse
    <2>3. Placed' /\ UploadIsLate' /\ UploadsSettle'
      BY <1>1, <1>4, <2>1, <2>2 DEF Placed, UploadIsLate, UploadsSettle
    <2>4. UnauthenticatedMeansDead'
      BY <1>2, <2>1, <2>2 DEF UnauthenticatedMeansDead, NoGood
    <2> QED BY <1>2, <2>3, <2>4
  <1> QED BY <1>5, <1>6 DEF CheckStep

(* A stage that lets the request through and answers it.                   *)
AnswerStep(s) ==
    /\ At(s) /\ KeepWorld /\ UNCHANGED <<granted, refusal, upload, lost>>
    /\ \E a : Refuse(a) /\ a \notin {"none", "unauthenticated"}

LEMMA AnswersKeep ==
    ASSUME RequestInv, NEW s \in Lets \ {"open"}, AnswerStep(s)
    PROVE  RequestInv'
  <1> USE DEF RequestInv
  <1>1. At(s) /\ KeepWorld /\ UNCHANGED <<granted, refusal, upload, lost>>
    BY DEF AnswerStep
  <1>2. CredentialFits /\ Authority \subseteq held /\ PathFits
    BY <1>1, LetThrough
  <1>3. /\ Reading' /\ AuthorityWasThere' /\ PathStaysOnItsSite'
        /\ UNCHANGED <<route, cred, path, held>>
    BY <1>1, <1>2, KeptWorld
  <1>4. PICK a : /\ todo' = <<>> /\ answer' = a
                 /\ a \notin {"none", "unauthenticated"}
    BY DEF AnswerStep, Refuse
  <1>5. todo # <<>> /\ upload = "none"
    BY <1>1 DEF At, UploadIsLate, Lets
  <1>6. route # "upload"
    <2>1. PICK p \in 1..Len(Stages[route]) : Stages[route][p] = s
      BY <1>1, OneStage DEF Names
    <2>2. ASSUME route = "upload"
          PROVE  FALSE
      <3>1. Stages[route] = Upload
        BY <2>2 DEF Stages
      <3>2. p \in 1..7 \/ p \in {8, 9, 10}
        BY <2>1, <3>1, UploadList
      <3> QED BY <2>1, <3>1, <3>2, UploadList DEF Guards, Lets
    <2> QED BY <2>2
  <1>7. Placed' /\ UploadIsLate' /\ UploadsSettle' /\ UnauthenticatedMeansDead'
    BY <1>1, <1>3, <1>4, <1>5, <1>6
       DEF Placed, UploadIsLate, UploadsSettle, UnauthenticatedMeansDead
  <1> QED BY <1>3, <1>7

(* The steps of an upload.                                                 *)
LEMMA UploadsKeep ==
    ASSUME RequestInv, OpenUpload \/ PutChunk \/ Finalize \/ CloseSession
    PROVE  RequestInv'
  <1> USE DEF RequestInv
  <1>0. KeepWorld /\ UNCHANGED granted
    BY DEF OpenUpload, PutChunk, Finalize, CloseSession
  <1>1. Reading' /\ UNCHANGED <<route, cred, path, held>>
    BY <1>0, KeptWorld
  <1>2. \A f \in Failures : f \notin {"none", "ok", "unauthenticated", "gone"}
    BY DEF Failures, FetchFailures
  <1>3. CASE OpenUpload
    <2>1. At("open")
      BY <1>3 DEF OpenUpload
    <2>2. CredentialFits /\ Authority \subseteq held /\ PathFits
      BY <2>1, LetThrough DEF Lets
    <2>3. AuthorityWasThere' /\ PathStaysOnItsSite'
      BY <1>0, <2>2, KeptWorld
    <2>4. CASE Pass /\ upload' = "open"
      <3>1. Earned("open") /\ "open" \in Names \ LastStages
        BY DEF Earned, Names, LastStages, Lets
      <3>2. Stages[route] = Upload
        BY <2>1, UploadStage
      <3>3. /\ Placed' /\ answer' = "none"
            /\ \E p \in 1..Len(Upload) :
                  /\ Upload[p] = "open" /\ todo' # <<>> /\ todo'[1] = Upload[p + 1]
        BY <1>1, <2>1, <2>4, <3>1, <3>2, Passed
      <3>4. todo'[1] = "put"
        <4>1. PICK p \in 1..Len(Upload) : Upload[p] = "open" /\ todo'[1] = Upload[p + 1]
          BY <3>3
        <4>2. p = 8
          <5>1. p \in 1..7 \/ p \in {8, 9, 10}
            BY UploadList
          <5> QED BY <4>1, <5>1, UploadList DEF Guards
        <4> QED BY <4>1, <4>2, UploadList
      <3> QED BY <1>1, <2>3, <3>3, <3>4
              DEF UploadIsLate, UnauthenticatedMeansDead, UploadsSettle
    <2>5. CASE \E a \in Failures : Refuse(a) /\ (upload' = "open" => lost' \/ upload = "open")
      <3>1. upload = "none"
        BY <2>1 DEF At, UploadIsLate
      <3>2. PICK a \in Failures : Refuse(a) /\ (upload' = "open" => lost')
        BY <2>5, <3>1
      <3>3. todo' = <<>> /\ answer' = a /\ a \notin {"none", "ok", "unauthenticated", "gone"}
        BY <1>2, <3>2 DEF Refuse
      <3> QED BY <1>1, <2>3, <3>2, <3>3
              DEF Placed, UploadIsLate, UnauthenticatedMeansDead, UploadsSettle
    <2> QED BY <1>3, <2>4, <2>5 DEF OpenUpload, Failures
  <1>4. CASE PutChunk
    <2>1. At("put") /\ UNCHANGED <<sent, upload, lost>>
      BY <1>4 DEF PutChunk
    <2>2. AuthorityWasThere' /\ PathStaysOnItsSite'
      BY <1>0, <2>1, KeptWorld
    <2>3. answer = "none" /\ Stages[route] = Upload
      BY <2>1, UploadStage
    <2>4. CASE Pass
      <3>1. Earned("put") /\ "put" \in Names \ LastStages
        BY DEF Earned, Names, LastStages, Lets
      <3>2. /\ Placed' /\ answer' = "none"
            /\ \E p \in 1..Len(Upload) :
                  /\ Upload[p] = "put" /\ todo' # <<>> /\ todo'[1] = Upload[p + 1]
        BY <1>1, <2>1, <2>3, <2>4, <3>1, Passed
      <3>3. todo'[1] = "finalize"
        <4>1. PICK p \in 1..Len(Upload) : Upload[p] = "put" /\ todo'[1] = Upload[p + 1]
          BY <3>2
        <4>2. p = 9
          <5>1. p \in 1..7 \/ p \in {8, 9, 10}
            BY UploadList
          <5> QED BY <4>1, <5>1, UploadList DEF Guards
        <4> QED BY <4>1, <4>2, UploadList
      <3> QED BY <1>1, <2>2, <3>2, <3>3
              DEF UploadIsLate, UnauthenticatedMeansDead, UploadsSettle
    <2>5. CASE \E a \in Failures : CloseFirst(a)
      <3>1. todo' = <<"close">> /\ answer' = "none" /\ refusal' \in Failures
        BY <2>3, <2>5 DEF CloseFirst
      <3> QED BY <1>1, <2>2, <3>1
              DEF Placed, Failures, FetchFailures, UploadIsLate,
                  UnauthenticatedMeansDead, UploadsSettle
    <2> QED BY <1>4, <2>4, <2>5 DEF PutChunk, Failures
  <1>5. CASE Finalize
    <2>1. At("finalize") /\ UNCHANGED <<sent, lost>>
      BY <1>5 DEF Finalize
    <2>2. AuthorityWasThere' /\ PathStaysOnItsSite'
      BY <1>0, <2>1, KeptWorld
    <2>3. answer = "none"
      BY <2>1, UploadStage
    <2>4. CASE \E a \in Failures : CloseFirst(a)
      <3>1. todo' = <<"close">> /\ answer' = "none" /\ refusal' \in Failures
        BY <2>3, <2>4 DEF CloseFirst
      <3> QED BY <1>1, <2>2, <3>1
              DEF Placed, Failures, FetchFailures, UploadIsLate,
                  UnauthenticatedMeansDead, UploadsSettle
    <2>5. CASE \/ upload' = "stored" /\ \E a \in {"ok", "upstream_invalid"} : Refuse(a)
               \/ upload' = "ended" /\ Refuse("upstream_invalid")
      <3>1. /\ todo' = <<>> /\ answer' \in {"ok", "upstream_invalid"}
            /\ upload' \in {"stored", "ended"}
            /\ answer' = "ok" => upload' = "stored"
        <4>1. CASE upload' = "stored" /\ \E a \in {"ok", "upstream_invalid"} : Refuse(a)
          BY <4>1 DEF Refuse
        <4>2. CASE upload' = "ended" /\ Refuse("upstream_invalid")
          BY <4>2 DEF Refuse
        <4> QED BY <2>5, <4>1, <4>2
      <3> QED BY <1>1, <2>2, <3>1
              DEF Placed, UploadIsLate, UnauthenticatedMeansDead, UploadsSettle
    <2> QED BY <1>5, <2>4, <2>5 DEF Finalize, Failures
  <1>6. CASE CloseSession
    <2>1. At("close") /\ UNCHANGED sent /\ todo' = <<>> /\ answer' = refusal
      BY <1>6 DEF CloseSession, Refuse
    <2>2. AuthorityWasThere' /\ PathStaysOnItsSite'
      BY <1>0, <2>1, KeptWorld
    <2>3. refusal \in Failures
      <3>1. ASSUME NEW p \in 1..Len(Stages[route]), AtStage(p)
            PROVE  FALSE
        <4>1. Stages[route] \in Seq(Names)
          BY RequestsAssumption, RouteIsOrderly DEF Reading, Orderly
        <4>2. todo[1] \in Names
          BY <3>1, <4>1, TheStage
        <4> QED BY <2>1, <4>2 DEF At, Names, Guards, Lets
      <3> QED BY <2>1, <3>1 DEF Placed, At
    <2>4. upload' = "open" => lost'
      BY <1>6 DEF CloseSession
    <2> QED BY <1>1, <1>2, <2>1, <2>2, <2>3, <2>4
            DEF Placed, UploadIsLate, UnauthenticatedMeansDead, UploadsSettle
  <1> QED BY <1>3, <1>4, <1>5, <1>6

-----------------------------------------------------------------------------
(* The invariant holds                                                     *)

LEMMA RequestInvAtFirst ==
    ASSUME RequestInit
    PROVE  RequestInv
  <1> USE DEF RequestInit
  <1>1. /\ world \subseteq Facts
        /\ "live" \in world => "paired" \in world
    BY RequestsAssumption
  <1>2. Reading
    <2>1. route \in Routes /\ cred \in CredentialsOf(route) /\ path \in PathsOf(route)
      OBVIOUS
    <2>2. held = world /\ failed = Facts \ world /\ ~granted
      OBVIOUS
    <2> HIDE DEF RequestInit
    <2> QED BY <1>1, <2>1, <2>2 DEF Reading
  <1>3. Placed
    <2>1. /\ Stages[route] \in Seq(Names) /\ Len(Stages[route]) > 0
      BY RequestsAssumption, RouteIsOrderly DEF Orderly
    <2>2. 1 \in 1..Len(Stages[route]) /\ \A j \in 1..1 - 1 : FALSE
      BY <2>1
    <2>3. Rest(1) = Stages[route]
      BY <2>1, SubSeqFull DEF Rest
    <2>4. AtStage(1)
      BY <2>2, <2>3 DEF AtStage
    <2> QED BY <2>2, <2>4 DEF Placed
  <1>4. /\ UploadIsLate /\ AuthorityWasThere /\ UnauthenticatedMeansDead /\ UploadsSettle
        /\ PathStaysOnItsSite
    BY DEF UploadIsLate, AuthorityWasThere, UnauthenticatedMeansDead, UploadsSettle,
           PathStaysOnItsSite
  <1> QED BY <1>2, <1>3, <1>4 DEF RequestInv

LEMMA RequestStep ==
    ASSUME RequestInv, [RequestNext]_requestVars
    PROVE  RequestInv'
  <1>0. Reading /\ Placed
    BY DEF RequestInv
  <1>1. CASE World
    BY <1>1, WorldChanges
  <1>2. CASE Checks
    <2>1. PICK s \in Guards : CheckStep(s)
      BY <1>0, <1>2, EveryCheck
    <2> QED BY <2>1, ChecksKeep
  <1>3. CASE Forward
    <2>1. \A a \in UpstreamAnswers : Relayed(a) \notin {"none", "unauthenticated"}
      BY DEF UpstreamAnswers, Relayed, FailureOf
    <2>2. AnswerStep("proxy") \/ AnswerStep("anonymous")
      BY <1>3, <2>1 DEF Forward, AnswerStep
    <2> QED BY <2>2, AnswersKeep DEF Lets
  <1>4. CASE Ask
    <2>1. AnswerStep("ask")
      BY <1>4 DEF Ask, AnswerStep, FetchFailures
    <2> QED BY <2>1, AnswersKeep DEF Lets
  <1>5. CASE ReadConflict
    <2>1. CheckStep("read")
      BY <1>5 DEF ReadConflict, CheckStep, Refuses, Earned, FetchFailures, Still, progress
    <2> QED BY <2>1, ChecksKeep
  <1>6. CASE Tell
    <2>1. AnswerStep("tell")
      BY <1>6 DEF Tell, AnswerStep
    <2> QED BY <2>1, AnswersKeep DEF Lets
  <1>7. CASE Admit
    <2>1. AnswerStep("admit")
      BY <1>7 DEF Admit, AnswerStep
    <2> QED BY <2>1, AnswersKeep DEF Lets
  <1>8. CASE OpenUpload \/ PutChunk \/ Finalize \/ CloseSession
    BY <1>8, UploadsKeep
  <1>9. CASE ClientLeaves \/ TimesOut
    <2>1. PICK a \in Dropped :
             /\ KeepWorld /\ UNCHANGED <<granted, refusal, sent, upload, lost>>
             /\ todo' = <<>> /\ answer' = a
      BY <1>9 DEF ClientLeaves, TimesOut, Still, progress, Refuse, Dropped
    <2>2. Reading' /\ AuthorityWasThere' /\ PathStaysOnItsSite'
      BY <2>1, KeptWorld
    <2>3. a \notin {"none", "ok", "unauthenticated"}
      BY DEF Dropped
    <2>4. Placed' /\ UploadIsLate' /\ UnauthenticatedMeansDead' /\ UploadsSettle'
      BY <2>1, <2>3 DEF Placed, UploadIsLate, UnauthenticatedMeansDead, UploadsSettle, Dropped
    <2> QED BY <2>2, <2>4 DEF RequestInv
  <1>10. CASE UNCHANGED requestVars
    <2>1. /\ UNCHANGED <<route, cred, path, todo, answer, refusal, sent, upload, lost>>
          /\ UNCHANGED <<world, held, failed, granted>>
      BY <1>10 DEF requestVars, request, progress, requestGhosts
    <2>2. Reading'
      BY <1>0, <2>1 DEF Reading
    <2>3. Placed'
      BY <1>0, <2>1, PlacedStays
    <2>4. (CredentialFits' <=> CredentialFits) /\ Authority' = Authority
      BY <2>1 DEF CredentialFits, Authority
    <2>6. PathStaysOnItsSite'
      BY <2>1 DEF RequestInv, PathStaysOnItsSite
    <2>5. UploadIsLate' /\ AuthorityWasThere' /\ UnauthenticatedMeansDead' /\ UploadsSettle'
      BY <2>1, <2>4
         DEF RequestInv, UploadIsLate, AuthorityWasThere, UnauthenticatedMeansDead,
             UploadsSettle
    <2> QED BY <2>2, <2>3, <2>5, <2>6 DEF RequestInv
  <1> QED
    BY <1>1, <1>2, <1>3, <1>4, <1>5, <1>6, <1>7, <1>8, <1>9, <1>10 DEF RequestNext, Effects

LEMMA RequestInvAlways ==
    RequestSpec => []RequestInv
  <1>1. RequestInit => RequestInv
    BY RequestInvAtFirst
  <1>2. RequestInv /\ [RequestNext]_requestVars => RequestInv'
    BY RequestStep
  <1> QED BY <1>1, <1>2, PTL DEF RequestSpec

(* No order of the reads of a request lets through what failed before it:  *)
(* what was forwarded, admitted or told was so with the credential of its  *)
(* route, and each thing it needed held at some instant of the request     *)
(* (sites.rs, dispatch to owner_route; auth.rs; site_capabilities.rs).     *)
THEOREM AuthorityAlwaysWasThere == RequestSpec => []AuthorityWasThere
  <1>1. RequestInv => AuthorityWasThere
    BY DEF RequestInv
  <1> QED BY <1>1, RequestInvAlways, PTL

(* A client is told that its credential is no good only when it was not,   *)
(* whatever the database, the services and their challenges answer         *)
(* (auth.rs, from_request_parts; gateway.rs, response_from_upstream).      *)
THEOREM UnauthenticatedAlwaysMeansDead == RequestSpec => []UnauthenticatedMeansDead
  <1>1. RequestInv => UnauthenticatedMeansDead
    BY DEF RequestInv
  <1> QED BY <1>1, RequestInvAlways, PTL

(* An upload whose handler came to its end leaves no session open at notes, *)
(* unless an answer that Edge needed was lost; and whoever is told stored  *)
(* has what was stored, whatever fails, is lost or is cut off              *)
(* (site_edits.rs, upload_content and close_session).                      *)
THEOREM UploadsAlwaysSettle == RequestSpec => []UploadsSettle
  <1>1. RequestInv => UploadsSettle
    BY DEF RequestInv
  <1> QED BY <1>1, RequestInvAlways, PTL

(* A path that reached a service leads, for a server that resolves it, to  *)
(* the site that was checked, and never out of the prefix or to the        *)
(* internal routes, whatever its segments are and however many             *)
(* (gateway/paths.rs, resolved, names_site and forwardable).               *)
THEOREM PathAlwaysStays == RequestSpec => []PathStaysOnItsSite
  <1>1. RequestInv => PathStaysOnItsSite
    BY DEF RequestInv
  <1> QED BY <1>1, RequestInvAlways, PTL

(* What the lists leave open: flags, claims and counts are of their kind.  *)
RequestKinds ==
    /\ granted \in BOOLEAN /\ lost \in BOOLEAN /\ sent \in {{}, Claims}
    /\ upload \in {"none", "open", "stored", "ended"}
    /\ changes \in 0..MaxChanges

LEMMA KindsKept ==
    ASSUME RequestKinds, UNCHANGED <<route, cred, changes>>,
           granted' \in BOOLEAN, lost' \in BOOLEAN, sent' \in {sent, Claims},
           upload' \in {"none", "open", "stored", "ended"}
    PROVE  RequestKinds'
  <1>1. Claims' = Claims
    BY DEF Claims
  <1> QED BY <1>1 DEF RequestKinds

LEMMA ChecksKeepKinds ==
    ASSUME RequestKinds, Checks
    PROVE  RequestKinds'
  <1>1. /\ KeepWorld /\ UNCHANGED <<sent, upload, lost>>
        /\ granted' = granted \/ granted' = ("holds" \in world)
    <2> USE DEF Still, progress
    <2>1. CASE NamesSite \/ Body \/ Shape \/ CheckEdit \/ Key \/ Admissible \/ Limit
      BY <2>1 DEF NamesSite, Body, Shape, CheckEdit, Key, Admissible, Limit
    <2>2. ASSUME NEW stage, NEW passes, NEW otherwise, NEW unread,
                 Check(stage, passes, otherwise, unread)
          PROVE  Still
      BY <2>2 DEF Check
    <2>3. CASE Authenticate \/ DeployerSite \/ Origin \/ RequireOwner
      BY <2>2, <2>3 DEF Authenticate, DeployerSite, Origin, RequireOwner
    <2>4. CASE Owner \/ Deployer \/ Manifest \/ Scope
      BY <2>2, <2>4 DEF Owner, Deployer, Manifest, Scope
    <2>5. CASE Approval
      BY <2>5 DEF Approval
    <2>6. CASE Forwardable \/ Kind
      BY <2>6 DEF Forwardable, Kind
    <2> QED BY <2>1, <2>3, <2>4, <2>5, <2>6 DEF Checks
  <1>2. UNCHANGED <<route, cred, changes>>
    BY <1>1 DEF KeepWorld, request
  <1>3. granted' \in BOOLEAN
    <2>1. ("holds" \in world) \in BOOLEAN
      OBVIOUS
    <2> QED BY <1>1, <2>1, Zenon DEF RequestKinds
  <1> QED BY <1>1, <1>2, <1>3, KindsKept DEF RequestKinds

LEMMA EffectsKeepKinds ==
    ASSUME RequestKinds, Effects
    PROVE  RequestKinds'
  <1>1. KeepWorld /\ UNCHANGED granted
    BY DEF Effects, Forward, Ask, ReadConflict, Tell, Admit, OpenUpload, PutChunk,
           Finalize, CloseSession, Still, progress
  <1>2. UNCHANGED <<route, cred, changes>>
    BY <1>1 DEF KeepWorld, request
  <1>3. /\ lost' \in BOOLEAN /\ sent' \in {sent, Claims}
        /\ upload' \in {"none", "open", "stored", "ended"}
    <2> USE DEF RequestKinds
    <2>1. CASE Forward \/ Ask \/ ReadConflict \/ Tell \/ Admit
      BY <2>1 DEF Forward, Ask, ReadConflict, Tell, Admit, Still, progress
    <2>2. CASE OpenUpload
      BY <2>2 DEF OpenUpload
    <2>3. CASE PutChunk \/ Finalize
      BY <2>3 DEF PutChunk, Finalize
    <2>4. CASE CloseSession
      BY <2>4 DEF CloseSession
    <2> QED BY <2>1, <2>2, <2>3, <2>4 DEF Effects
  <1> QED BY <1>1, <1>2, <1>3, KindsKept DEF RequestKinds

LEMMA KindsAlways == RequestSpec => []RequestKinds
  <1>1. ASSUME RequestInit PROVE RequestKinds
    <2>1. 0 \in 0..MaxChanges
      BY RequestsAssumption
    <2> QED BY <1>1, <2>1, Zenon DEF RequestInit, RequestKinds
  <1>2. ASSUME RequestKinds, [RequestNext]_requestVars PROVE RequestKinds'
    <2>1. CASE World
      <3>1. PICK facts : Becomes(facts)
        BY <2>1 DEF World, EndSession, RevokeDevice, ChangeGrant, Withdraw, Approve,
                    Activate, Publish
      <3>2. UNCHANGED <<route, cred, granted, lost, sent, upload>> /\ Claims' = Claims
        BY <3>1 DEF Becomes, request, progress, Claims
      <3>3. changes' \in 0..MaxChanges
        BY <1>2, <3>1, RequestsAssumption DEF Becomes, RequestKinds
      <3> QED BY <1>2, <3>2, <3>3 DEF RequestKinds
    <2>2. CASE ClientLeaves \/ TimesOut \/ UNCHANGED requestVars
      <3>1. UNCHANGED <<route, cred, changes, granted, lost, sent, upload>>
        BY <2>2 DEF ClientLeaves, TimesOut, Still, KeepWorld, request, progress, requestVars
      <3> QED BY <1>2, <3>1, KindsKept DEF RequestKinds
    <2> QED BY <1>2, <2>1, <2>2, ChecksKeepKinds, EffectsKeepKinds DEF RequestNext
  <1> QED BY <1>1, <1>2, PTL DEF RequestSpec

(* A request has stages left exactly while it has no answer: every list    *)
(* ends with a stage that answers, and no answer is given twice; facts,    *)
(* claims and flags are of their kind (sites.rs, auth.rs and gateway.rs,   *)
(* the order of the checks of each route).                                 *)
THEOREM RequestTypeCorrect == RequestSpec => []RequestTypeOK
  <1>1. ASSUME RequestInv, RequestKinds PROVE RequestTypeOK
    <2>1. /\ route \in Routes /\ cred \in CredentialsOf(route) /\ path \in PathsOf(route)
          /\ world \subseteq held /\ Facts \ world \subseteq failed
      BY <1>1 DEF RequestInv, Reading
    <2>2. Stages[route] \in Seq(Names)
      BY <2>1, RequestsAssumption, RouteIsOrderly DEF Orderly
    <2>3. /\ \A i \in DOMAIN todo : todo[i] = "close" \/ \E j \in DOMAIN Stages[route] :
                                                        todo[i] = Stages[route][j]
          /\ (answer = "none") <=> (todo # <<>>)
      <3>1. CASE todo = <<>> /\ answer # "none"
        BY <3>1
      <3>2. CASE todo = <<"close">> /\ answer = "none"
        BY <3>2
      <3>3. ASSUME NEW p \in 1..Len(Stages[route]), AtStage(p)
            PROVE  /\ todo # <<>> /\ answer = "none"
                   /\ \A i \in DOMAIN todo : \E j \in DOMAIN Stages[route] :
                                                todo[i] = Stages[route][j]
        <4> DEFINE n == Len(Stages[route])
        <4>1. todo = SubSeq(Stages[route], p, n) /\ answer = "none"
          BY <3>3 DEF AtStage, Rest
        <4>2. n \in Nat /\ p \in 1..n /\ \A i \in 1..n : Stages[route][i] \in Names
          BY <2>2
        <4>3. /\ todo \in Seq(Names) /\ Len(todo) = n - p + 1
              /\ \A i \in 1..n - p + 1 : todo[i] = Stages[route][p + i - 1]
          BY <4>1, <4>2, SubSeqProperties
        <4>4. DOMAIN todo = 1..n - p + 1 /\ DOMAIN Stages[route] = 1..n
          BY <2>2, <4>3
        <4> HIDE DEF n
        <4>5. \A i \in 1..n - p + 1 : p + i - 1 \in 1..n
          BY <4>2
        <4>6. todo # <<>>
          BY <2>2, <3>3, RestOfList DEF AtStage, Rest
        <4> QED BY <4>1, <4>3, <4>4, <4>5, <4>6
      <3> QED BY <1>1, <3>1, <3>2, <3>3 DEF RequestInv, Placed
    <2> QED BY <1>1, <2>1, <2>3 DEF RequestKinds, RequestTypeOK
  <1> QED BY <1>1, RequestInvAlways, KindsAlways, PTL

-----------------------------------------------------------------------------
(* The allowances                                                          *)

(* Products with an allowance; the whole seconds of a time; what is        *)
(* configured.                                                             *)
LEMMA Scaled ==
    ASSUME NEW p \in Nat, NEW a \in Int, NEW b \in Int
    PROVE  /\ p * a \in Int /\ p * (a + b) = p * a + p * b
           /\ a <= b => p * a <= p * b
           /\ 0 <= a => 0 <= p * a
  <1>1. p * a \in Int /\ p * (a + b) = p * a + p * b
    BY Z3
  <1>2. ASSUME a <= b
        PROVE  p * a <= p * b
    BY <1>2
  <1>3. ASSUME 0 <= a
        PROVE  0 <= p * a
    BY <1>3
  <1> QED BY <1>1, <1>2, <1>3

LEMMA WholeSeconds ==
    ASSUME LimitsFit, NEW n \in Int
    PROVE  Whole(n) \in Nat /\ Whole(n) <= (IF n > 0 THEN n ELSE 0)
  <1>0. Second \in Nat /\ 0 < Second
    BY DEF LimitsFit
  <1>1. ASSUME n > 0
        PROVE  n % Second \in Nat /\ n % Second <= n
    <2>1. n % Second \in 0..Second - 1
      BY <1>0, <1>1
    <2>2. n % Second <= n
      <3>1. CASE n >= Second
        BY <1>0, <2>1, <3>1
      <3>2. CASE n < Second
        <4>1. n % Second = n
          BY <1>0, <1>1, <3>2
        <4> QED BY <4>1
      <3> QED BY <1>0, <1>1, <3>1, <3>2
    <2> QED BY <2>1, <2>2
  <1>2. CASE n > 0
    BY <1>1, <1>2 DEF Whole
  <1>3. CASE ~ (n > 0)
    BY <1>3 DEF Whole
  <1> QED BY <1>2, <1>3

(* What a key holds: its bucket, or the full one that it would get.        *)
Purse(l, k) == IF k \in Tracked(l) THEN buckets[l][k].tokens ELSE Burst(l)

(* A bucket that is kept was counted up to its own time and lacks          *)
(* something, and what the key holds and took was given to it.             *)
Balance(l, k) ==
    /\ counted[l][k] \in 0..now /\ back[l][k] \in Nat /\ spent[l][k] \in Nat
    /\ k \in Tracked(l) =>
         /\ buckets[l][k] \in [tokens : Nat, at : Nat]
         /\ buckets[l][k].at = counted[l][k] /\ buckets[l][k].tokens < Burst(l)
    /\ Purse(l, k) + spent[l][k] <=
         Burst(l) + PerMinute[l] * (counted[l][k] + back[l][k])

(* Requests and tables are of their kind, and no request is ahead of the   *)
(* clock.                                                                  *)
Clocked ==
    /\ now \in Nat
    /\ req \in [Callers -> [at : Nat, next : Limiters \cup {0}]]
    /\ \A r \in Callers : req[r].at <= now
    /\ DOMAIN buckets = Limiters /\ \A l \in Limiters : Tracked(l) \subseteq Keys
    /\ {spent, counted, back} \subseteq [Limiters -> [Keys -> Nat]]

LimitsInv == Clocked /\ \A l \in Limiters, k \in Keys : Balance(l, k)

LEMMA Bursts ==
    ASSUME LimitsFit, NEW l \in Limiters
    PROVE  /\ PerMinute[l] \in Nat /\ Token \in Nat /\ Burst(l) \in Nat
           /\ 0 < Token /\ 0 < Burst(l)
  <1>1. PerMinute[l] \in Nat /\ 0 < PerMinute[l] /\ Second \in Nat /\ Minute \in Nat
        /\ 0 < Second /\ 0 < Minute
    BY DEF LimitsFit
  <1>2. Token \in Nat /\ 0 < Token
    BY <1>1 DEF Token
  <1>3. Burst(l) \in Nat /\ 0 < Burst(l)
    BY <1>1, <1>2 DEF Burst
  <1> QED BY <1>1, <1>2, <1>3

(* A refill gives what the time since then is worth, at the most.          *)
LEMMA RefillGives ==
    ASSUME LimitsFit, NEW l \in Limiters, NEW b \in [tokens : Nat, at : Nat],
           NEW t \in Nat
    PROVE  LET gone == IF t > b.at THEN t - b.at ELSE 0 IN
           /\ Refilled(l, b, t) \in Nat /\ Refilled(l, b, t) <= Burst(l)
           /\ Refilled(l, b, t) <= b.tokens + PerMinute[l] * gone
  <1> DEFINE gone == IF t > b.at THEN t - b.at ELSE 0
             p == PerMinute[l]
             w == Whole(t - b.at)
  <1>1. p \in Nat /\ Burst(l) \in Nat
    BY Bursts
  <1>2. b.tokens \in Nat /\ b.at \in Nat /\ t - b.at \in Int
    OBVIOUS
  <1>3. gone \in Nat /\ w \in Nat /\ w <= gone
    BY <1>2, WholeSeconds
  <1>4. Refilled(l, b, t) = Smaller(Burst(l), b.tokens + w * p)
    BY DEF Refilled
  <1> HIDE DEF gone, p, w
  <1>5. p * w \in Int /\ 0 <= p * w /\ p * w <= p * gone /\ w * p = p * w
    BY <1>1, <1>3, Scaled
  <1>6. p * gone \in Int
    BY <1>1, <1>3, Scaled
  <1>7. Refilled(l, b, t) \in Nat /\ Refilled(l, b, t) <= Burst(l)
        /\ Refilled(l, b, t) <= b.tokens + p * gone
    BY <1>1, <1>2, <1>4, <1>5, <1>6 DEF Smaller
  <1> QED BY <1>7 DEF gone, p

(* A decision at t on a bucket that was counted to c.                      *)
LEMMA DecisionPays ==
    ASSUME NEW p \in Nat, NEW burst \in Nat, NEW c \in Nat, NEW t \in Nat, NEW late \in Nat,
           NEW purse \in Nat, NEW took \in Nat, purse + took <= burst + p * (c + late)
    PROVE  LET gone == IF t > c THEN t - c ELSE 0
               now_late == late + (IF c > t THEN c - t ELSE 0)
           IN  purse + p * gone + took <= burst + p * (t + now_late)
  <1> DEFINE gone == IF t > c THEN t - c ELSE 0
             now_late == late + (IF c > t THEN c - t ELSE 0)
  <1>1. t + now_late = (c + late) + gone /\ gone \in Int /\ c + late \in Int
    OBVIOUS
  <1> HIDE DEF gone, now_late
  <1>2. p * (t + now_late) = p * (c + late) + p * gone
    BY <1>1, Scaled
  <1>3. p * (c + late) \in Int /\ p * gone \in Int
    BY <1>1, Scaled
  <1>4. purse + p * gone + took <= burst + p * (t + now_late)
    BY <1>2, <1>3
  <1> QED BY <1>4 DEF gone, now_late

(* A key whose bucket the step leaves as it is.                            *)
LEMMA LeftAlone ==
    ASSUME NEW l \in Limiters, NEW k \in Keys, Balance(l, k), now \in Nat, now' \in Nat,
           now <= now', k \in Tracked(l)' <=> k \in Tracked(l),
           k \in Tracked(l) => buckets'[l][k] = buckets[l][k],
           counted'[l][k] = counted[l][k], spent'[l][k] = spent[l][k],
           back'[l][k] = back[l][k]
    PROVE  Balance(l, k)'
  <1>1. Purse(l, k)' = Purse(l, k)
    BY DEF Purse
  <1> QED BY <1>1 DEF Balance

(* A key whose bucket was given up.                                        *)
LEMMA GivenUp ==
    ASSUME LimitsFit, LimitsInv, NEW l \in Limiters, NEW k, NEW x \in Tracked(l), NEW t \in 0..now,
           x \notin Kept(l, k, t), x \notin Tracked(l)', counted'[l][x] = t,
           spent'[l][x] = spent[l][x], back'[l][x] = back[l][x], now' = now
    PROVE  Balance(l, x)'
  <1> DEFINE p == PerMinute[l]
             c == counted[l][x]
             late == back[l][x]
             took == spent[l][x]
             purse == buckets[l][x].tokens
             full == Burst(l)
  <1>1. x \in Keys /\ now \in Nat /\ t \in Nat /\ t <= now
    BY DEF LimitsInv, Clocked
  <1>2. Balance(l, x)
    BY <1>1 DEF LimitsInv
  <1>3. /\ buckets[l][x] \in [tokens : Nat, at : Nat] /\ buckets[l][x].at = c
        /\ purse \in Nat /\ purse < full /\ c \in Nat /\ late \in Nat /\ took \in Nat
        /\ purse + took <= full + p * (c + late)
    BY <1>1, <1>2 DEF Balance, Purse
  <1>4. p \in Nat /\ full \in Nat
    BY Bursts
  <1>5. Refilled(l, buckets[l][x], t) >= full
    <2>1. Refilled(l, buckets[l][x], t) \in Nat
      BY <1>1, <1>3, RefillGives
    <2>2. ~ (Refilled(l, buckets[l][x], t) < full)
      BY DEF Kept, Refilling
    <2> QED BY <1>4, <2>1, <2>2
  <1>6. /\ Refilled(l, buckets[l][x], t) \in Nat
        /\ Refilled(l, buckets[l][x], t) <= purse + p * (IF t > c THEN t - c ELSE 0)
    BY <1>1, <1>3, RefillGives
  <1>7. Purse(l, x)' = full
    BY DEF Purse, Burst, Token
  <1>8. /\ counted'[l][x] = t /\ spent'[l][x] = took /\ back'[l][x] = late
    OBVIOUS
  <1> HIDE DEF p, c, late, took, purse, full
  <1>9. t > c
    <2>1. CASE ~ (t > c)
      <3>1. p * 0 = 0
        BY <1>4
      <3> QED BY <1>3, <1>4, <1>5, <1>6, <2>1, <3>1
    <2> QED BY <2>1
  <1>10. full + took <= full + p * (t + late)
    <2>1. purse + p * (t - c) + took <= full + p * (t + (late + 0))
      BY <1>1, <1>3, <1>4, <1>9, DecisionPays
    <2>2. p * (t - c) \in Int /\ p * (t + late) \in Int /\ late + 0 = late
      BY <1>1, <1>3, <1>4, Scaled
    <2> QED BY <1>3, <1>4, <1>5, <1>6, <1>9, <2>1, <2>2
  <1>11. Balance(l, x)'
    <2>1. /\ counted'[l][x] \in 0..now' /\ back'[l][x] \in Nat /\ spent'[l][x] \in Nat
      BY <1>1, <1>3, <1>8
    <2>2. Purse(l, x)' + spent'[l][x] <= Burst(l) + PerMinute[l] * (counted'[l][x] + back'[l][x])
      BY <1>7, <1>8, <1>10 DEF full, p
    <2> QED BY <2>1, <2>2 DEF Balance, Burst, Token
  <1> QED BY <1>11

(* What a decision of any kind leaves of the table.                        *)
TableAfter(l, k, t) ==
    /\ \A m \in Limiters \ {l} : buckets'[m] = buckets[m] /\ counted'[m] = counted[m]
                                 /\ spent'[m] = spent[m] /\ back'[m] = back[m]
    /\ \A x \in Keys \ {k} :
         /\ x \in Tracked(l)' <=> x \in Kept(l, k, t)
         /\ x \in Kept(l, k, t) => buckets'[l][x] = buckets[l][x]
         /\ counted'[l][x] = IF x \in Tracked(l) \ Kept(l, k, t) THEN t ELSE counted[l][x]
         /\ spent'[l][x] = spent[l][x] /\ back'[l][x] = back[l][x]

LEMMA OthersBalance ==
    ASSUME LimitsFit, LimitsInv, NEW l \in Limiters, NEW k \in Keys, NEW t \in 0..now,
           TableAfter(l, k, t), now' = now
    PROVE  \A m \in Limiters, x \in Keys : m # l \/ x # k => Balance(m, x)'
  <1> SUFFICES ASSUME NEW m \in Limiters, NEW x \in Keys, m # l \/ x # k
               PROVE  Balance(m, x)'
    OBVIOUS
  <1>1. Balance(m, x) /\ now \in Nat
    BY DEF LimitsInv, Clocked
  <1>2. Kept(l, k, t) \subseteq Tracked(l)
    BY DEF Kept, Refilling
  <1>3. CASE m # l
    <2>1. /\ buckets'[m] = buckets[m] /\ counted'[m] = counted[m]
          /\ spent'[m] = spent[m] /\ back'[m] = back[m]
      BY <1>3 DEF TableAfter
    <2>2. Tracked(m)' = Tracked(m)
      BY <2>1 DEF Tracked
    <2> QED BY <1>1, <2>1, <2>2, LeftAlone
  <1>4. CASE m = l /\ x \in Tracked(l) \ Kept(l, k, t)
    BY <1>4, GivenUp DEF TableAfter
  <1>5. CASE m = l /\ x \notin Tracked(l) \ Kept(l, k, t)
    BY <1>1, <1>2, <1>5, LeftAlone DEF TableAfter
  <1> QED BY <1>3, <1>4, <1>5

(* A request that is decided, the keys that the decision gives up, and the *)
(* key it is about.                                                        *)
LEMMA WhoDecides ==
    ASSUME LimitsFit, LimitsInv, NEW r \in Callers, req[r].next # 0
    PROVE  /\ req[r].next \in Limiters /\ KeyOf[r][req[r].next] \in Keys
           /\ req[r].at \in 0..now /\ now \in Nat
  <1>1. req[r] \in [at : Nat, next : Limiters \cup {0}] /\ req[r].at <= now /\ now \in Nat
    BY DEF LimitsInv, Clocked
  <1>2. KeyOf[r] \in [Limiters -> Keys]
    BY DEF LimitsFit
  <1> QED BY <1>1, <1>2

LEMMA FullKeeps ==
    ASSUME LimitsFit, LimitsInv, NEW r \in Callers, Full(r)
    PROVE  LimitsInv'
  <1> SUFFICES ASSUME NEW l, NEW k, NEW t,
                      l = req[r].next, k = KeyOf[r][l], t = req[r].at
               PROVE  LimitsInv'
    OBVIOUS
  <1> DEFINE kept == Kept(l, k, t)
  <1>1. /\ l # 0 /\ k \notin kept
        /\ buckets' = [buckets EXCEPT ![l] = [x \in kept |-> @[x]]]
        /\ counted' = [counted EXCEPT ![l] = CountedTo(l, kept, {}, t)]
        /\ Decided(r, l, "full")
        /\ UNCHANGED <<now, ideal, spent, back>>
    BY DEF Full
  <1>2. l \in Limiters /\ k \in Keys /\ t \in 0..now /\ now \in Nat
    BY <1>1, WhoDecides
  <1>3. kept \subseteq Tracked(l) /\ Tracked(l) \subseteq Keys
    BY <1>2 DEF Kept, Refilling, LimitsInv, Clocked
  <1>4. k \notin Tracked(l)
    BY <1>1 DEF Kept
  <1> HIDE DEF kept
  <1>5. /\ DOMAIN buckets' = Limiters /\ buckets'[l] = [x \in kept |-> buckets[l][x]]
        /\ \A m \in Limiters \ {l} : buckets'[m] = buckets[m] /\ counted'[m] = counted[m]
        /\ counted'[l] = CountedTo(l, kept, {}, t)
    BY <1>1, <1>2 DEF LimitsInv, Clocked
  <1>6. Tracked(l)' = kept
    BY <1>5 DEF Tracked
  <1>7. TableAfter(l, k, t)
    <2>1. \A x \in Keys : counted'[l][x] = IF x \in Tracked(l) \ kept THEN t ELSE counted[l][x]
      BY <1>5 DEF CountedTo
    <2>2. \A x \in kept : buckets'[l][x] = buckets[l][x]
      BY <1>5
    <2>3. UNCHANGED <<spent, back>>
      BY <1>1
    <2> QED BY <1>5, <1>6, <2>1, <2>2, <2>3 DEF TableAfter, kept
  <1>8. \A m \in Limiters, x \in Keys : m # l \/ x # k => Balance(m, x)'
    BY <1>1, <1>2, <1>7, OthersBalance
  <1>9. Balance(l, k)'
    <2>1. counted'[l][k] = counted[l][k]
      BY <1>2, <1>4, <1>5 DEF CountedTo
    <2>2. k \notin Tracked(l)'
      BY <1>1, <1>6
    <2>3. Balance(l, k)
      BY <1>2 DEF LimitsInv
    <2>4. /\ now' = now /\ now <= now' /\ now' \in Nat
          /\ spent'[l][k] = spent[l][k] /\ back'[l][k] = back[l][k]
      BY <1>1, <1>2
    <2>5. k \in Tracked(l)' <=> k \in Tracked(l)
      BY <1>4, <2>2
    <2> QED BY <1>2, <1>4, <2>1, <2>3, <2>4, <2>5, LeftAlone
  <1>10. Clocked'
    <2>1. req' \in [Callers -> [at : Nat, next : Limiters \cup {0}]]
          /\ \A q \in Callers : req'[q].at <= now
      BY <1>1, <1>2 DEF Decided, LimitsInv, Clocked, Nobody
    <2>2. counted' \in [Limiters -> [Keys -> Nat]]
      <3>1. CountedTo(l, kept, {}, t) \in [Keys -> Nat]
        BY <1>2 DEF CountedTo, LimitsInv, Clocked
      <3> QED BY <1>1, <1>2, <3>1 DEF LimitsInv, Clocked
    <2>3. \A m \in Limiters : Tracked(m)' \subseteq Keys
      BY <1>3, <1>5, <1>6 DEF Tracked, LimitsInv, Clocked
    <2>4. /\ now' = now /\ now \in Nat
          /\ {spent', back'} \subseteq [Limiters -> [Keys -> Nat]]
      BY <1>1 DEF LimitsInv, Clocked
    <2> QED BY <1>5, <2>1, <2>2, <2>3, <2>4 DEF Clocked
  <1> QED BY <1>8, <1>9, <1>10 DEF LimitsInv

LEMMA DecideKeeps ==
    ASSUME LimitsFit, LimitsInv, NEW r \in Callers, Decide(r)
    PROVE  LimitsInv'
  <1> SUFFICES ASSUME NEW l, NEW k, NEW t,
                      l = req[r].next, k = KeyOf[r][l], t = req[r].at
               PROVE  LimitsInv'
    OBVIOUS
  <1> DEFINE kept == Kept(l, k, t)
             tokens == IF k \in kept THEN Refilled(l, buckets[l][k], t) ELSE Burst(l)
             price == IF tokens >= Token THEN Token ELSE 0
             bucket == [tokens |-> tokens - price, at |-> t]
  <1>1. /\ l # 0
        /\ buckets' = [buckets EXCEPT ![l] =
                         [x \in kept \cup {k} |-> IF x = k THEN bucket ELSE @[x]]]
        /\ spent' = [spent EXCEPT ![l][k] = @ + price]
        /\ counted' = [counted EXCEPT ![l] = CountedTo(l, kept, {k}, t)]
        /\ back' = [back EXCEPT ![l] = TurnedBack(l, k, t)]
        /\ Decided(r, l, IF price = Token THEN "admitted" ELSE "empty")
        /\ UNCHANGED now
    BY DEF Decide
  <1>2. l \in Limiters /\ k \in Keys /\ t \in 0..now /\ now \in Nat
    BY <1>1, WhoDecides
  <1>3. kept \subseteq Tracked(l) /\ Tracked(l) \subseteq Keys
    BY <1>2 DEF Kept, Refilling, LimitsInv, Clocked
  <1>4. k \in kept <=> k \in Tracked(l)
    BY DEF Kept, Refilling
  <1>5. /\ PerMinute[l] \in Nat /\ Token \in Nat /\ Burst(l) \in Nat
        /\ 0 < Token /\ 0 < Burst(l)
    BY <1>2, Bursts
  <1>6. Balance(l, k)
    BY <1>2 DEF LimitsInv
  <1>7. tokens \in Nat /\ tokens <= Burst(l)
    <2>1. CASE k \in kept
      <3>1. buckets[l][k] \in [tokens : Nat, at : Nat]
        BY <1>4, <1>6, <2>1 DEF Balance
      <3>2. tokens = Refilled(l, buckets[l][k], t)
        BY <2>1
      <3>3. t \in Nat
        BY <1>2
      <3> HIDE DEF tokens
      <3> QED BY <1>2, <3>1, <3>2, <3>3, RefillGives
    <2>2. CASE k \notin kept
      BY <1>5, <2>2
    <2> QED BY <2>1, <2>2
  <1>8. tokens <= Purse(l, k) + PerMinute[l] *
                     (IF t > counted[l][k] THEN t - counted[l][k] ELSE 0)
    <2>1. CASE k \in kept
      <3>1. /\ buckets[l][k] \in [tokens : Nat, at : Nat] /\ buckets[l][k].at = counted[l][k]
            /\ Purse(l, k) = buckets[l][k].tokens
        BY <1>4, <1>6, <2>1 DEF Balance, Purse
      <3>2. tokens = Refilled(l, buckets[l][k], t)
        BY <2>1
      <3>3. t \in Nat
        BY <1>2
      <3> DEFINE b == buckets[l][k]
      <3> HIDE DEF tokens, b
      <3>4. Refilled(l, b, t) <= b.tokens + PerMinute[l] * (IF t > b.at THEN t - b.at ELSE 0)
        BY <1>2, <3>1, <3>3, RefillGives DEF b
      <3>5. tokens = Refilled(l, b, t) /\ b.at = counted[l][k] /\ b.tokens = Purse(l, k)
        BY <3>1, <3>2 DEF b
      <3> QED BY <3>4, <3>5
    <2>2. CASE k \notin kept
      <3> DEFINE gone == IF t > counted[l][k] THEN t - counted[l][k] ELSE 0
      <3>1. gone \in Nat
        <4>1. counted[l][k] \in Nat /\ t \in Nat
          BY <1>2 DEF LimitsInv, Clocked
        <4> QED BY <4>1
      <3> HIDE DEF gone
      <3>2. PerMinute[l] * gone \in Int /\ 0 <= PerMinute[l] * gone
        BY <1>5, <3>1, Scaled
      <3>3. tokens <= Purse(l, k) + PerMinute[l] * gone
        BY <1>4, <1>5, <2>2, <3>2 DEF Purse
      <3> QED BY <3>3 DEF gone
    <2> QED BY <2>1, <2>2
  <1>9. price \in Nat /\ price <= tokens /\ tokens - price < Burst(l)
    BY <1>5, <1>7 DEF Burst
  <1> HIDE DEF kept, tokens, price, bucket
  <1>10. /\ DOMAIN buckets' = Limiters
         /\ buckets'[l] = [x \in kept \cup {k} |-> IF x = k THEN bucket ELSE buckets[l][x]]
         /\ \A m \in Limiters \ {l} : /\ buckets'[m] = buckets[m] /\ counted'[m] = counted[m]
                                      /\ spent'[m] = spent[m] /\ back'[m] = back[m]
         /\ counted'[l] = CountedTo(l, kept, {k}, t) /\ back'[l] = TurnedBack(l, k, t)
         /\ spent'[l][k] = spent[l][k] + price
         /\ \A x \in Keys \ {k} : spent'[l][x] = spent[l][x]
    BY <1>1, <1>2 DEF LimitsInv, Clocked
  <1>11. Tracked(l)' = kept \cup {k}
    BY <1>10 DEF Tracked
  <1>12. /\ \A x \in Keys \ {k} : back'[l][x] = back[l][x]
         /\ back'[l][k] = back[l][k] + (IF counted[l][k] > t THEN counted[l][k] - t ELSE 0)
         /\ counted'[l][k] = t
    <2>1. back[l] \in [Keys -> Nat]
      BY <1>2 DEF LimitsInv, Clocked
    <2>2. back'[l] = [back[l] EXCEPT ![k] = @ + (IF counted[l][k] > t
                                                 THEN counted[l][k] - t ELSE 0)]
      BY <1>10 DEF TurnedBack
    <2>3. counted'[l][k] = t
      BY <1>2, <1>10 DEF CountedTo
    <2>4. /\ back'[l][k] = back[l][k] + (IF counted[l][k] > t THEN counted[l][k] - t ELSE 0)
          /\ \A x \in Keys \ {k} : back'[l][x] = back[l][x]
      BY <1>2, <2>1, <2>2
    <2> QED BY <2>3, <2>4
  <1>13. TableAfter(l, k, t)
    <2>1. \A x \in Keys \ {k} :
             counted'[l][x] = IF x \in Tracked(l) \ kept THEN t ELSE counted[l][x]
      BY <1>10 DEF CountedTo
    <2>2. \A x \in Keys \ {k} : x \in kept => buckets'[l][x] = buckets[l][x]
      BY <1>10
    <2>3. kept = Kept(l, k, t)
      BY DEF kept
    <2>4. \A x \in Keys \ {k} : x \in Tracked(l)' <=> x \in kept
      BY <1>11
    <2>5. \A x \in Keys \ {k} : spent'[l][x] = spent[l][x] /\ back'[l][x] = back[l][x]
      BY <1>10, <1>12
    <2>6. \A m \in Limiters \ {l} : /\ buckets'[m] = buckets[m] /\ counted'[m] = counted[m]
                                     /\ spent'[m] = spent[m] /\ back'[m] = back[m]
      BY <1>10
    <2> QED BY <2>1, <2>2, <2>3, <2>4, <2>5, <2>6 DEF TableAfter
  <1>14. \A m \in Limiters, x \in Keys : m # l \/ x # k => Balance(m, x)'
    BY <1>1, <1>2, <1>13, OthersBalance
  <1>15. Balance(l, k)'
    <2> DEFINE p == PerMinute[l]
               c == counted[l][k]
               late == back[l][k]
               took == spent[l][k]
               purse == Purse(l, k)
               full == Burst(l)
               gone == IF t > c THEN t - c ELSE 0
    <2>1. /\ c \in 0..now /\ late \in Nat /\ took \in Nat /\ purse \in Nat
          /\ purse + took <= full + p * (c + late)
      BY <1>5, <1>6 DEF Balance, Purse
    <2>2. k \in Tracked(l)' /\ buckets'[l][k] = bucket
      BY <1>10, <1>11
    <2>3. /\ bucket \in [tokens : Nat, at : Nat] /\ bucket.at = t
          /\ bucket.tokens = tokens - price
      BY <1>2, <1>7, <1>9 DEF bucket
    <2>4. Purse(l, k)' = tokens - price
      BY <2>2, <2>3 DEF Purse
    <2>5. Burst(l)' = Burst(l)
      BY DEF Burst, Token
    <2>6. spent'[l][k] = took + price /\ counted'[l][k] = t
      BY <1>10, <1>12
    <2>7. tokens <= purse + p * gone
      BY <1>8
    <2> DEFINE after == late + (IF c > t THEN c - t ELSE 0)
    <2>8. back'[l][k] = after
      BY <1>12
    <2>9. p \in Nat /\ full \in Nat
      BY <1>5
    <2> HIDE DEF p, c, late, took, purse, full
    <2>10. gone \in Nat /\ after \in Nat /\ c \in Nat /\ t \in Nat
      <3>1. c \in Nat /\ t \in Nat /\ late \in Nat
        BY <1>2, <2>1
      <3> QED BY <3>1
    <2>11. purse + p * gone + took <= full + p * (t + after)
      BY <2>1, <2>9, <2>10, DecisionPays
    <2> HIDE DEF gone, after
    <2>12. p * gone \in Int /\ p * (t + after) \in Int
      BY <2>9, <2>10, Scaled
    <2>13. (tokens - price) + (took + price) <= full + p * (t + after)
      BY <1>7, <1>9, <2>1, <2>7, <2>9, <2>11, <2>12
    <2>14. Purse(l, k)' + spent'[l][k] <=
              Burst(l)' + PerMinute[l] * (counted'[l][k] + back'[l][k])
      BY <2>4, <2>5, <2>6, <2>8, <2>13 DEF full, p
    <2>15. /\ counted'[l][k] \in 0..now' /\ back'[l][k] \in Nat /\ spent'[l][k] \in Nat
      <3>1. now' = now /\ t \in 0..now
        BY <1>1, <1>2
      <3>2. took + price \in Nat
        BY <1>9, <2>1
      <3> QED BY <2>6, <2>8, <2>10, <3>1, <3>2
    <2> QED BY <1>9, <2>2, <2>3, <2>5, <2>6, <2>14, <2>15 DEF Balance
  <1>16. Clocked'
    <2>1. req' \in [Callers -> [at : Nat, next : Limiters \cup {0}]]
          /\ \A q \in Callers : req'[q].at <= now
      BY <1>1, <1>2 DEF Decided, LimitsInv, Clocked, Nobody
    <2>2. counted' \in [Limiters -> [Keys -> Nat]]
      <3>1. CountedTo(l, kept, {k}, t) \in [Keys -> Nat]
        BY <1>2 DEF CountedTo, LimitsInv, Clocked
      <3> QED BY <1>1, <1>2, <3>1 DEF LimitsInv, Clocked
    <2>3. back' \in [Limiters -> [Keys -> Nat]]
      <3>1. TurnedBack(l, k, t) \in [Keys -> Nat]
        BY <1>2 DEF TurnedBack, LimitsInv, Clocked
      <3> QED BY <1>1, <1>2, <3>1 DEF LimitsInv, Clocked
    <2>4. spent' \in [Limiters -> [Keys -> Nat]]
      BY <1>1, <1>2, <1>9 DEF LimitsInv, Clocked
    <2>5. \A m \in Limiters : Tracked(m)' \subseteq Keys
      <3>1. ASSUME NEW m \in Limiters \ {l}
            PROVE  Tracked(m)' \subseteq Keys
        BY <1>10 DEF Tracked, LimitsInv, Clocked
      <3> QED BY <1>2, <1>3, <1>11, <3>1
    <2>6. now' = now /\ now \in Nat
      BY <1>1, <1>2
    <2> QED BY <1>10, <2>1, <2>2, <2>3, <2>4, <2>5, <2>6 DEF Clocked
  <1> QED BY <1>14, <1>15, <1>16 DEF LimitsInv

LEMMA LimitsStep ==
    ASSUME LimitsFit, LimitsInv, [LimitsNext]_limitVars
    PROVE  LimitsInv'
  <1> USE DEF LimitsInv
  <1>1. CASE Tick
    <2>1. now' = now + 1 /\ UNCHANGED <<buckets, req, spent, counted, back>>
      BY <1>1 DEF Tick
    <2>2. Clocked'
      <3>1. now' \in Nat /\ \A r \in Callers : req'[r].at <= now'
        BY <2>1 DEF Clocked
      <3> QED BY <2>1, <3>1 DEF Clocked, Tracked
    <2>3. ASSUME NEW l \in Limiters, NEW k \in Keys
          PROVE  Balance(l, k)'
      BY <2>1, LeftAlone DEF Clocked, Tracked
    <2> QED BY <2>2, <2>3
  <1>2. ASSUME NEW r \in Callers, Stamp(r)
        PROVE  LimitsInv'
    <2>1. /\ req' = [req EXCEPT ![r] = [at |-> now, next |-> 1]]
          /\ UNCHANGED <<now, buckets, spent, counted, back>>
      BY <1>2 DEF Stamp
    <2>2. Clocked'
      <3>1. 1 \in Limiters
        BY DEF LimitsFit
      <3>2. /\ req' \in [Callers -> [at : Nat, next : Limiters \cup {0}]]
            /\ \A q \in Callers : req'[q].at <= now
        BY <2>1, <3>1 DEF Clocked
      <3> QED BY <2>1, <3>2 DEF Clocked, Tracked
    <2>3. ASSUME NEW l \in Limiters, NEW k \in Keys
          PROVE  Balance(l, k)'
      BY <2>1, LeftAlone DEF Clocked, Tracked
    <2> QED BY <2>2, <2>3
  <1>3. ASSUME UNCHANGED limitVars
        PROVE  LimitsInv'
    <2>1. UNCHANGED <<now, buckets, req, spent, counted, back>>
      BY <1>3 DEF limitVars
    <2>2. Clocked'
      BY <2>1 DEF Clocked, Tracked
    <2>3. ASSUME NEW l \in Limiters, NEW k \in Keys
          PROVE  Balance(l, k)'
      BY <2>1, LeftAlone DEF Clocked, Tracked
    <2> QED BY <2>2, <2>3
  <1> QED BY <1>1, <1>2, <1>3, FullKeeps, DecideKeeps DEF LimitsNext

LEMMA LimitsAtFirst ==
    ASSUME LimitsFit, LimitsInit
    PROVE  LimitsInv
  <1>1. Clocked
    BY DEF LimitsInit, Clocked, Tracked, Nobody
  <1>2. ASSUME NEW l \in Limiters, NEW k \in Keys
        PROVE  Balance(l, k)
    <2>1. /\ counted[l][k] = 0 /\ spent[l][k] = 0 /\ back[l][k] = 0 /\ k \notin Tracked(l)
          /\ now = 0
      BY DEF LimitsInit, Tracked
    <2>2. PerMinute[l] * (0 + 0) = 0 /\ Burst(l) \in Nat
      BY Bursts
    <2>3. Purse(l, k) = Burst(l)
      BY <2>1 DEF Purse
    <2> QED BY <2>1, <2>2, <2>3 DEF Balance
  <1> QED BY <1>1, <1>2 DEF LimitsInv

LEMMA LimitsInvAlways ==
    ASSUME LimitsFit
    PROVE  LimitsSpec => []LimitsInv
  <1>1. LimitsInit => LimitsInv
    BY LimitsAtFirst
  <1>2. LimitsInv /\ [LimitsNext]_limitVars => LimitsInv'
    BY LimitsStep
  <1> QED BY <1>1, <1>2, PTL DEF LimitsSpec

(* However many requests race for the buckets of however many keys, and    *)
(* although each reads the clock before it waits for the mutex, and full   *)
(* tables give up buckets: no key takes more than the burst, the refill of *)
(* the time that passed, and the refill of the time by which late          *)
(* decisions turned its bucket back (limit.rs, decide and refill). A       *)
(* bucket that is given up was full, and it lacked something when it was   *)
(* last counted, so time has passed for it; that is why it gives nothing   *)
(* for nothing.                                                            *)
THEOREM AllowanceAlwaysKept ==
    ASSUME LimitsFit
    PROVE  LimitsSpec => []AllowanceIsKept
  <1>1. ASSUME LimitsInv
        PROVE  AllowanceIsKept
    <2> SUFFICES ASSUME NEW l \in Limiters, NEW k \in Keys
                 PROVE  spent[l][k] <= Burst(l) + PerMinute[l] * (now + back[l][k])
      BY DEF AllowanceIsKept
    <2>1. Balance(l, k) /\ now \in Nat
      BY <1>1 DEF LimitsInv, Clocked
    <2>2. PerMinute[l] \in Nat /\ Burst(l) \in Nat
      BY Bursts
    <2> DEFINE p == PerMinute[l]
               c == counted[l][k]
               late == back[l][k]
    <2>3. /\ c \in 0..now /\ late \in Nat /\ spent[l][k] \in Nat /\ Purse(l, k) \in Nat
          /\ Purse(l, k) + spent[l][k] <= Burst(l) + p * (c + late)
      BY <2>1, <2>2 DEF Balance, Purse
    <2> HIDE DEF p, c, late
    <2>4. p \in Nat /\ c + late \in Int /\ now + late \in Int /\ c + late <= now + late
      BY <2>1, <2>2, <2>3 DEF p
    <2>5. /\ p * (c + late) \in Int /\ p * (now + late) \in Int
          /\ p * (c + late) <= p * (now + late)
      BY <2>4, Scaled
    <2>6. spent[l][k] <= Burst(l) + p * (now + late)
      BY <2>2, <2>3, <2>5
    <2> QED BY <2>6 DEF p, late
  <1> QED BY <1>1, LimitsInvAlways, PTL

(* The tables, the buckets and the requests are of their kind: no bucket   *)
(* holds less than nothing or more than its burst, or is ahead of the      *)
(* clock (limit.rs, Bucket).                                               *)
THEOREM LimitsTypeCorrect ==
    ASSUME LimitsFit
    PROVE  LimitsSpec => []LimitsTypeOK
  <1>1. ASSUME LimitsInv
        PROVE  LimitsTypeOK
    <2>1. now \in Nat /\ req \in [Callers -> [at : 0..now, next : Limiters \cup {0}]]
      BY <1>1 DEF LimitsInv, Clocked
    <2>2. ASSUME NEW l \in Limiters, NEW k \in Tracked(l)
          PROVE  buckets[l][k] \in [tokens : 0..Burst(l), at : 0..now]
      <3>1. k \in Keys /\ Balance(l, k) /\ Burst(l) \in Nat
        BY <1>1, Bursts DEF LimitsInv, Clocked
      <3>2. /\ buckets[l][k] \in [tokens : Nat, at : Nat]
            /\ buckets[l][k].at \in 0..now /\ buckets[l][k].tokens \in 0..Burst(l)
        BY <3>1 DEF Balance
      <3> QED BY <3>2
    <2> QED BY <1>1, <2>1, <2>2 DEF LimitsInv, Clocked, LimitsTypeOK
  <1> QED BY <1>1, LimitsInvAlways, PTL

===========================================================================

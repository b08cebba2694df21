-------------------------- MODULE SignInProofs --------------------------
(***************************************************************************)
(* What SignIn promises of identities, relayed callbacks and approvals,    *)
(* for any number of requests, assertions, codes, callbacks and manifests  *)
(* and any number of changes of the approval.                              *)
(***************************************************************************)
EXTENDS SignIn, TLAPS

-----------------------------------------------------------------------------
(* Types.                                                                  *)

Subjects == Assertions \cup Codes \cup Relays \cup Manifests \cup Hosts \cup {NoHost}

Entry == [op: {"idle", "link", "mint", "issue", "present", "open", "insert", "store",
               "withdraw", "claim", "take"},
          on: Subjects,
          user: Users \cup {None}, at: 0..MaxChanges]

(* What a request holds is of the kind that its operation is about, when   *)
(* the clock is at "time" and the approval is in "state".                  *)
Fits(e, time, state) ==
    /\ e.op \in {"link", "mint"} => e.on \in Assertions /\ e.user \in Users
    /\ e.op \in {"present", "open"} => e.on \in Codes
    /\ e.op \in {"claim", "take"} => e.on \in Relays
    /\ e.op \in {"insert", "store", "withdraw"} =>
          e.on \in Manifests /\ e.at \in 1..MaxChanges /\ e.at <= time
    /\ e.op = "withdraw" => state # "none"
    /\ e.op = "issue" => e.on \in Hosts

Working == \A r \in Requests : work[r] \in Entry /\ Fits(work[r], clock, approval.state)
ApprovalNamesManifest == approval.state # "none" => approval.manifest \in Manifests

TypeInv == TypeOK /\ Working /\ ApprovalNamesManifest /\ HandedOnce

(* The parts of the types that the groups of variables have.               *)
PeopleTyped ==
    /\ person \in Users \cup {None} /\ created \subseteq Users
    /\ redeemed \subseteq Assertions
    /\ minted \in [Assertions -> [Users -> Nat]]
ApprovalTyped ==
    /\ approval \in [state: {"none", "approved", "withdrawn"},
                     manifest: Manifests \cup {NoManifest}]
    /\ clock \in 0..MaxChanges
    /\ told \subseteq [at: 1..MaxChanges, state: {"approved", "withdrawn"}, manifest: Manifests]
    /\ raced \in BOOLEAN
OwnerTyped == primary \in BOOLEAN /\ grants \subseteq {"owner", "claim"}
SignInsTyped ==
    /\ codes \in [Codes -> [state: {"unissued", "issued", "consumed"}, host: Hosts \cup {NoHost}]]
    /\ site \in [Codes -> {"unborn", "open", "revoked", "lapsed"}]
CallbacksTyped ==
    /\ relays \in [Relays -> {"unborn", "waiting", "claimed", "collected"}]
    /\ handed \in [Relays -> 0..2]
    /\ HandedOnce
WorkTyped == work \in [Requests -> Entry]

LEMMA TypesInParts ==
    TypeOK /\ HandedOnce <=> /\ PeopleTyped /\ ApprovalTyped /\ OwnerTyped /\ SignInsTyped
                             /\ CallbacksTyped /\ WorkTyped
  BY DEF TypeOK, PeopleTyped, ApprovalTyped, OwnerTyped, SignInsTyped, CallbacksTyped, WorkTyped,
         Entry, Subjects

Typed == /\ PeopleTyped /\ ApprovalTyped /\ OwnerTyped /\ SignInsTyped /\ CallbacksTyped
         /\ WorkTyped /\ Working /\ ApprovalNamesManifest

LEMMA TypedIsTypeInv == Typed <=> TypeInv
  BY TypesInParts DEF Typed, TypeInv

LEMMA IdleIsAnEntry ==
    Idle \in Entry /\ Idle.op = "idle" /\ Idle.at = 0 /\ Idle.user = None /\ Idle.on = NoHost
  BY SignInAssumption DEF Idle, Entry, Subjects

(* One request goes on to an entry that fits, or ends; the instants and    *)
(* the approval that the others have seen are not taken back.              *)
LEMMA WorkKeeps ==
    ASSUME WorkTyped, Working, NEW r \in Requests, NEW e \in Entry,
           work' = [work EXCEPT ![r] = e], Fits(e, clock', approval'.state),
           clock \in Nat, clock' \in Nat, clock <= clock',
           approval.state # "none" => approval'.state # "none"
    PROVE  WorkTyped' /\ Working'
  <1>1. /\ \A q \in Requests \ {r} : work'[q] = work[q]
        /\ work'[r] = e /\ WorkTyped'
    BY DEF WorkTyped
  <1>2. \A q \in Requests \ {r} : Fits(work'[q], clock', approval'.state)
    <2> SUFFICES ASSUME NEW q \in Requests \ {r} PROVE Fits(work'[q], clock', approval'.state)
      OBVIOUS
    <2>1. work[q] \in Entry /\ Fits(work[q], clock, approval.state) /\ work'[q] = work[q]
      BY <1>1 DEF Working
    <2> QED BY <2>1, SignInAssumption DEF Fits, Entry
  <1> QED BY <1>1, <1>2 DEF Working, WorkTyped

LEMMA WorkEnds ==
    ASSUME WorkTyped, Working, NEW r \in Requests, Ends(r),
           clock \in Nat, clock' \in Nat, clock <= clock',
           approval.state # "none" => approval'.state # "none"
    PROVE  WorkTyped' /\ Working'
  <1>1. Fits(Idle, clock', approval'.state)
    BY IdleIsAnEntry DEF Fits
  <1> QED BY <1>1, IdleIsAnEntry, WorkKeeps DEF Ends

(* What a request begins, or goes on with, is an entry.                    *)
Operation == {"link", "mint", "issue", "present", "open", "insert", "store", "withdraw",
              "claim", "take"}

LEMMA EntryGoesOn ==
    ASSUME NEW e \in Entry, NEW op \in Operation
    PROVE  \E f \in Entry : /\ f = [e EXCEPT !.op = op] /\ f.op = op /\ f.on = e.on
                            /\ f.user = e.user /\ f.at = e.at
  <1> DEFINE f == [e EXCEPT !.op = op]
  <1>1. /\ f \in Entry /\ f.op = op /\ f.on = e.on /\ f.user = e.user /\ f.at = e.at
    BY DEF Entry, Operation
  <1> QED BY <1>1, Zenon

LEMMA EntryBegins ==
    ASSUME NEW op \in Operation, NEW on \in Subjects
    PROVE  \E f \in Entry : /\ f = Doing(op, on) /\ f.op = op /\ f.on = on
                            /\ f.user = None /\ f.at = 0
  <1> DEFINE f == Doing(op, on)
  <1>1. /\ f \in Entry /\ f.op = op /\ f.on = on /\ f.user = None /\ f.at = 0
    BY IdleIsAnEntry DEF Doing, Entry, Operation
  <1> QED BY <1>1, Zenon

LEMMA EntryBeginsWithUser ==
    ASSUME NEW op \in Operation, NEW on \in Subjects, NEW user \in Users
    PROVE  \E f \in Entry : /\ f = [Doing(op, on) EXCEPT !.user = user] /\ f.op = op /\ f.on = on
                            /\ f.user = user
  <1>1. PICK begun \in Entry : begun = Doing(op, on) /\ begun.op = op /\ begun.on = on
    BY EntryBegins
  <1> DEFINE f == [begun EXCEPT !.user = user]
  <1>2. f \in Entry /\ f.op = op /\ f.on = on /\ f.user = user
    BY <1>1 DEF Entry
  <1> QED BY <1>1, <1>2, Zenon

LEMMA EntryBeginsAt ==
    ASSUME NEW op \in Operation, NEW on \in Subjects, NEW at \in 0..MaxChanges
    PROVE  \E f \in Entry : /\ f = [Doing(op, on) EXCEPT !.at = at] /\ f.op = op /\ f.on = on
                            /\ f.at = at
  <1>1. PICK begun \in Entry : begun = Doing(op, on) /\ begun.op = op /\ begun.on = on
    BY EntryBegins
  <1> DEFINE f == [begun EXCEPT !.at = at]
  <1>2. f \in Entry /\ f.op = op /\ f.on = on /\ f.at = at
    BY <1>1 DEF Entry
  <1> QED BY <1>1, <1>2, Zenon

(* What a step leaves alone keeps its types.                               *)
LEMMA PartsUntouched ==
    ASSUME Typed
    PROVE  /\ UNCHANGED people => PeopleTyped'
           /\ UNCHANGED approvals => ApprovalTyped' /\ ApprovalNamesManifest'
           /\ UNCHANGED owner => OwnerTyped'
           /\ UNCHANGED signins => SignInsTyped'
           /\ UNCHANGED callbacks => CallbacksTyped'
           /\ UNCHANGED work => WorkTyped'
           /\ UNCHANGED <<approvals, work>> => Working'
  BY DEF Typed, people, approvals, owner, signins, callbacks, PeopleTyped, ApprovalTyped,
         ApprovalNamesManifest, OwnerTyped, SignInsTyped, CallbacksTyped, HandedOnce, WorkTyped,
         Working

(* A request that goes on, or ends, without a change of the approval.      *)
LEMMA RequestGoesOn ==
    ASSUME Typed, UNCHANGED approvals, NEW r \in Requests, NEW e \in Entry,
           Fits(e, clock, approval.state), Goes(r, e)
    PROVE  WorkTyped' /\ Working'
  <1>1. clock' = clock /\ approval' = approval /\ clock \in Nat
    BY SignInAssumption DEF Typed, approvals, ApprovalTyped
  <1>2. Fits(e, clock', approval'.state) /\ work' = [work EXCEPT ![r] = e]
    BY <1>1 DEF Goes
  <1>3. WorkTyped /\ Working /\ clock' \in Nat /\ clock <= clock'
    BY <1>1 DEF Typed
  <1> QED BY <1>1, <1>2, <1>3, WorkKeeps

LEMMA RequestEnds ==
    ASSUME Typed, UNCHANGED approvals, NEW r \in Requests, Ends(r)
    PROVE  WorkTyped' /\ Working'
  BY WorkEnds DEF Typed, approvals, ApprovalTyped

LEMMA ExchangeKeepsTypes == Typed /\ Exchange => Typed'
  <1> SUFFICES ASSUME Typed, NEW r \in Requests,
                      (\E a \in Assertions : Resolve(r, a)) \/ Link(r) \/ Mint(r)
               PROVE  Typed'
    BY DEF Exchange
  <1>0. work[r] \in Entry /\ Fits(work[r], clock, approval.state)
    BY DEF Typed, Working
  <1>1. UNCHANGED <<approvals, owner, signins, callbacks>>
    BY DEF Resolve, Link, Mint
  <1>2. PeopleTyped' /\ WorkTyped' /\ Working'
    <2>1. ASSUME NEW a \in Assertions, Resolve(r, a)
          PROVE  PeopleTyped' /\ WorkTyped' /\ Working'
      <3>1. PICK u \in Users : Goes(r, [Doing("link", a) EXCEPT !.user = u])
        BY <2>1 DEF Resolve, Typed, PeopleTyped
      <3>2. PICK e \in Entry : /\ e = [Doing("link", a) EXCEPT !.user = u]
                               /\ e.op = "link" /\ e.on = a /\ e.user = u
        BY EntryBeginsWithUser DEF Subjects, Operation
      <3>3. Fits(e, clock, approval.state)
        BY <3>2 DEF Fits
      <3>4. Goes(r, e)
        BY <3>1, <3>2
      <3> QED BY <1>1, <2>1, <3>3, <3>4, RequestGoesOn, PartsUntouched DEF Resolve
    <2>2. CASE Link(r)
      <3>1. PICK e \in Entry : /\ e = [work[r] EXCEPT !.op = "mint"] /\ e.op = "mint"
                               /\ e.on = work[r].on /\ e.user = work[r].user
        <4>1. "mint" \in Operation
          BY DEF Operation
        <4>2. PICK before \in Entry : before = work[r]
          BY <1>0
        <4>3. \E f \in Entry : /\ f = [before EXCEPT !.op = "mint"] /\ f.op = "mint"
                              /\ f.on = before.on /\ f.user = before.user
          BY <4>1, EntryGoesOn
        <4> QED BY <4>2, <4>3, Zenon
      <3>2. Fits(e, clock, approval.state)
        BY <1>0, <2>2, <3>1 DEF Link, Fits
      <3>3. Goes(r, e)
        BY <2>2, <3>1 DEF Link
      <3> QED BY <1>1, <2>2, <3>2, <3>3, RequestGoesOn, PartsUntouched DEF Link
    <2>3. CASE Mint(r)
      <3>1. work[r].on \in Assertions /\ work[r].user \in Users
        BY <1>0, <2>3 DEF Mint, Fits
      <3>2. LinkedUser(r) \in Users
        BY <3>1 DEF LinkedUser, Typed, PeopleTyped
      <3>3. PeopleTyped'
        <4>1. CASE Replayed(r)
          BY <2>3, <4>1 DEF Mint, people, Typed, PeopleTyped
        <4>2. CASE ~Replayed(r)
          <5>1. PICK a \in Assertions, u \in Users : a = work[r].on /\ u = LinkedUser(r)
            BY <3>1, <3>2
          <5>2. minted' = [minted EXCEPT ![a][u] = @ + 1]
            BY <2>3, <4>2, <5>1 DEF Mint
          <5>3. minted' \in [Assertions -> [Users -> Nat]]
            BY <5>2 DEF Typed, PeopleTyped
          <5> QED BY <2>3, <3>1, <3>2, <4>2, <5>3 DEF Mint, Typed, PeopleTyped
        <4> QED BY <4>1, <4>2
      <3> QED BY <1>1, <2>3, <3>3, RequestEnds DEF Mint
    <2> QED BY <2>1, <2>2, <2>3
  <1> QED BY <1>1, <1>2, PartsUntouched DEF Typed

LEMMA SiteSignInKeepsTypes == Typed /\ SiteSignIn => Typed'
  <1> SUFFICES ASSUME Typed, NEW r \in Requests,
                      \/ IssueLooks(r) \/ IssueCode(r)
                      \/ \E c \in Codes, right \in BOOLEAN : Present(r, c, right)
                      \/ PresentLooks(r) \/ OpenSession(r)
               PROVE  Typed'
    BY DEF SiteSignIn
  <1>0. /\ work[r] \in Entry /\ Fits(work[r], clock, approval.state)
        /\ codes \in [Codes -> [state: {"unissued", "issued", "consumed"}, host: Hosts \cup {NoHost}]]
        /\ site \in [Codes -> {"unborn", "open", "revoked", "lapsed"}]
    BY DEF Typed, Working, SignInsTyped
  <1>1. UNCHANGED <<people, approvals, owner, callbacks>>
    BY DEF IssueLooks, IssueCode, Present, PresentLooks, OpenSession, signins
  <1>2. SignInsTyped' /\ WorkTyped' /\ Working'
    <2>1. CASE IssueLooks(r)
      <3> DEFINE host == Hostname[approval.manifest]
      <3>1. host \in Hosts
        BY <2>1 DEF IssueLooks, Typed, ApprovalNamesManifest, Hosts
      <3>2. PICK e \in Entry : e = Doing("issue", host) /\ e.op = "issue" /\ e.on = host
        <4> HIDE DEF host
        <4> QED BY <3>1, EntryBegins DEF Subjects, Operation
      <3>3. Fits(e, clock, approval.state)
        BY <3>1, <3>2 DEF Fits
      <3>4. Goes(r, e)
        BY <2>1, <3>2 DEF IssueLooks
      <3> QED BY <1>1, <2>1, <3>3, <3>4, RequestGoesOn, PartsUntouched DEF IssueLooks
    <2>2. CASE IssueCode(r)
      <3>1. work[r].on \in Hosts
        BY <1>0, <2>2 DEF IssueCode, Fits
      <3>2. SignInsTyped'
        BY <1>0, <2>2, <3>1 DEF IssueCode, SignInsTyped
      <3> QED BY <1>1, <2>2, <3>2, RequestEnds DEF IssueCode
    <2>3. ASSUME NEW c \in Codes, NEW right \in BOOLEAN, Present(r, c, right)
          PROVE  SignInsTyped' /\ WorkTyped' /\ Working'
      <3>1. PICK n \in {0, 1} : Goes(r, [Doing("present", c) EXCEPT !.at = n])
        BY <2>3 DEF Present
      <3>2. PICK e \in Entry : /\ e = [Doing("present", c) EXCEPT !.at = n]
                               /\ e.op = "present" /\ e.on = c
        <4>1. "present" \in Operation /\ c \in Subjects /\ n \in 0..MaxChanges
          BY SignInAssumption DEF Operation, Subjects
        <4>2. \E f \in Entry : /\ f = [Doing("present", c) EXCEPT !.at = n]
                                /\ f.op = "present" /\ f.on = c /\ f.at = n
          BY <4>1, EntryBeginsAt
        <4> QED BY <4>2, Zenon
      <3>3. Fits(e, clock, approval.state)
        BY <3>2 DEF Fits
      <3>4. Goes(r, e)
        BY <3>1, <3>2
      <3> QED BY <1>1, <2>3, <3>3, <3>4, RequestGoesOn, PartsUntouched DEF Present
    <2>4. CASE PresentLooks(r)
      <3>1. work[r].on \in Codes
        BY <1>0, <2>4 DEF PresentLooks, Fits
      <3>2. CASE Goes(r, Doing("open", work[r].on)) /\ UNCHANGED codes
        <4>1. PICK e \in Entry : e = Doing("open", work[r].on) /\ e.op = "open" /\ e.on = work[r].on
          BY <3>1, EntryBegins DEF Subjects, Operation
        <4>2. Fits(e, clock, approval.state) /\ Goes(r, e)
          BY <3>1, <3>2, <4>1 DEF Fits
        <4>3. UNCHANGED signins
          BY <2>4, <3>2 DEF PresentLooks, signins
        <4> QED BY <1>1, <4>2, <4>3, RequestGoesOn, PartsUntouched
      <3>3. CASE Ends(r) /\ codes' = [codes EXCEPT ![work[r].on].state = "consumed"]
        <4>1. SignInsTyped'
          BY <1>0, <2>4, <3>1, <3>3 DEF PresentLooks, SignInsTyped
        <4> QED BY <1>1, <3>3, <4>1, RequestEnds
      <3> QED BY <2>4, <3>2, <3>3 DEF PresentLooks
    <2>5. CASE OpenSession(r)
      <3>1. work[r].on \in Codes
        BY <1>0, <2>5 DEF OpenSession, Fits
      <3>2. SignInsTyped'
        BY <1>0, <2>5, <3>1 DEF OpenSession, SignInsTyped
      <3> QED BY <1>1, <2>5, <3>2, RequestEnds DEF OpenSession
    <2> QED BY <2>1, <2>2, <2>3, <2>4, <2>5
  <1> QED BY <1>1, <1>2, PartsUntouched DEF Typed

LEMMA ApproveKeepsTypes == Typed /\ Approve => Typed'
  <1> SUFFICES ASSUME Typed, NEW r \in Requests,
                      \/ \E m \in Manifests : StoreLocks(r, m)
                      \/ StoreCommits(r) \/ WithdrawLocks(r) \/ WithdrawCommits(r)
               PROVE  Typed'
    BY DEF Approve
  <1>0. /\ work[r] \in Entry /\ Fits(work[r], clock, approval.state) /\ ApprovalTyped
        /\ WorkTyped /\ Working /\ ApprovalNamesManifest
    BY DEF Typed, Working
  <1>1. UNCHANGED <<people, owner, codes, callbacks>>
    BY DEF StoreLocks, StoreCommits, WithdrawLocks, WithdrawCommits, signins
  <1>2. ASSUME NEW m \in Manifests, NEW op \in {"insert", "store", "withdraw"},
               clock < MaxChanges, clock' = clock + 1, UNCHANGED <<approval, told, raced>>,
               Goes(r, [Doing(op, m) EXCEPT !.at = clock + 1]),
               op = "withdraw" => approval.state # "none"
        PROVE  ApprovalTyped' /\ ApprovalNamesManifest' /\ WorkTyped' /\ Working'
    <2>1. clock + 1 \in 0..MaxChanges /\ clock + 1 \in 1..MaxChanges
      BY <1>0, <1>2, SignInAssumption DEF ApprovalTyped
    <2>2. PICK e \in Entry : /\ e = [Doing(op, m) EXCEPT !.at = clock + 1]
                             /\ e.op = op /\ e.on = m /\ e.at = clock + 1
      BY <1>2, <2>1, EntryBeginsAt DEF Subjects, Operation
    <2>3. Fits(e, clock', approval'.state)
      BY <1>2, <2>1, <2>2 DEF Fits
    <2>4. WorkTyped' /\ Working'
      <3>1. clock \in Nat /\ clock' \in Nat /\ clock <= clock' /\ approval' = approval
        BY <1>0, <1>2, SignInAssumption DEF ApprovalTyped
      <3>2. work' = [work EXCEPT ![r] = e]
        BY <1>2, <2>2 DEF Goes
      <3> QED BY <1>0, <2>3, <3>1, <3>2, WorkKeeps
    <2> QED BY <1>0, <1>2, <2>1, <2>4 DEF ApprovalTyped, ApprovalNamesManifest
  <1>3. ASSUME NEW m \in Manifests, StoreLocks(r, m) PROVE Typed'
    <2>1. PICK op \in {"insert", "store"} : Goes(r, [Doing(op, m) EXCEPT !.at = clock + 1])
      BY <1>3, Zenon DEF StoreLocks
    <2>2. ApprovalTyped' /\ ApprovalNamesManifest' /\ WorkTyped' /\ Working'
      BY <1>2, <1>3, <2>1 DEF StoreLocks
    <2> QED BY <1>1, <1>3, <2>2, PartsUntouched DEF StoreLocks, Typed
  <1>4. CASE WithdrawLocks(r)
    <2>1. approval.manifest \in Manifests /\ approval.state # "none"
      BY <1>0, <1>4 DEF WithdrawLocks, ApprovalNamesManifest
    <2>2. ApprovalTyped' /\ ApprovalNamesManifest' /\ WorkTyped' /\ Working'
      <3>1. Goes(r, [Doing("withdraw", approval.manifest) EXCEPT !.at = clock + 1])
        BY <1>4 DEF WithdrawLocks
      <3>2. PICK m \in Manifests : m = approval.manifest
        BY <2>1
      <3>3. Goes(r, [Doing("withdraw", m) EXCEPT !.at = clock + 1])
        BY <3>1, <3>2
      <3> QED BY <1>2, <1>4, <2>1, <3>3 DEF WithdrawLocks
    <2> QED BY <1>1, <1>4, <2>2, PartsUntouched DEF WithdrawLocks, Typed
  <1>5. ASSUME NEW state \in {"approved", "withdrawn"}, NEW m \in Manifests,
               work[r].op \in {"insert", "store", "withdraw"},
               approval' = [state |-> state, manifest |-> m], Announce(r, state, m),
               clock' = clock, raced' \in BOOLEAN, Ends(r)
        PROVE  ApprovalTyped' /\ ApprovalNamesManifest' /\ WorkTyped' /\ Working'
    <2>1. work[r].at \in 1..MaxChanges
      BY <1>0, <1>5 DEF Fits
    <2>2. [at |-> work[r].at, state |-> state, manifest |-> m]
            \in [at: 1..MaxChanges, state: {"approved", "withdrawn"}, manifest: Manifests]
      BY <2>1
    <2>3. ApprovalTyped' /\ ApprovalNamesManifest'
      BY <1>0, <1>5, <2>2 DEF ApprovalTyped, ApprovalNamesManifest, Announce
    <2>4. WorkTyped' /\ Working'
      BY <1>0, <1>5, WorkEnds DEF ApprovalTyped
    <2> QED BY <2>3, <2>4
  <1>6. CASE StoreCommits(r)
    <2>1. work[r].op \in {"insert", "store", "withdraw"} /\ work[r].on \in Manifests
      BY <1>0, <1>6 DEF StoreCommits, Fits
    <2>2. raced' \in BOOLEAN
      BY <1>6 DEF StoreCommits
    <2>3. ApprovalTyped' /\ ApprovalNamesManifest' /\ WorkTyped' /\ Working'
      BY <1>5, <1>6, <2>1, <2>2 DEF StoreCommits
    <2> QED BY <1>1, <1>6, <2>3, PartsUntouched DEF StoreCommits, Typed
  <1>7. CASE WithdrawCommits(r)
    <2>1. work[r].op = "withdraw" /\ approval.manifest \in Manifests
      BY <1>0, <1>7 DEF WithdrawCommits, Fits, ApprovalNamesManifest
    <2>2. approval' = [state |-> "withdrawn", manifest |-> approval.manifest]
      BY <1>0, <1>7 DEF WithdrawCommits, ApprovalTyped
    <2>3. raced' \in BOOLEAN
      BY <1>0, <1>7 DEF WithdrawCommits, ApprovalTyped
    <2>4. ApprovalTyped' /\ ApprovalNamesManifest' /\ WorkTyped' /\ Working'
      BY <1>5, <1>7, <2>1, <2>2, <2>3 DEF WithdrawCommits
    <2>5. SignInsTyped'
      BY <1>7 DEF WithdrawCommits, SitesRevoked, Typed, SignInsTyped
    <2> QED BY <1>1, <1>7, <2>4, <2>5, PartsUntouched DEF WithdrawCommits, Typed
  <1> QED BY <1>3, <1>4, <1>6, <1>7

-----------------------------------------------------------------------------
LEMMA CallbacksKeepTypes == Typed /\ (Relay \/ Claim) => Typed'
  <1>0. Typed => /\ relays \in [Relays -> {"unborn", "waiting", "claimed", "collected"}]
                 /\ handed \in [Relays -> 0..2] /\ HandedOnce
    BY DEF Typed, CallbacksTyped
  <1>1. ASSUME Typed, NEW y \in Relays, Receive(y) \/ CollectExpired(y) PROVE Typed'
    <2>1. CallbacksTyped'
      BY <1>0, <1>1 DEF Receive, CollectExpired, CallbacksTyped, HandedOnce
    <2> QED BY <1>1, <2>1, PartsUntouched DEF Receive, CollectExpired, Typed
  <1>2. ASSUME Typed, NEW r \in Requests, NEW y \in Relays, ClaimLooks(r, y) PROVE Typed'
    <2>1. PICK e \in Entry : e = Doing("claim", y) /\ e.op = "claim" /\ e.on = y
      BY EntryBegins DEF Subjects, Operation
    <2>2. Fits(e, clock, approval.state) /\ Goes(r, e)
      BY <1>2, <2>1 DEF Fits, ClaimLooks
    <2> QED BY <1>2, <2>2, RequestGoesOn, PartsUntouched DEF ClaimLooks, Typed
  <1>3. ASSUME Typed, NEW r \in Requests, ClaimFinds(r) PROVE Typed'
    <2>1. work[r].on \in Relays
      BY <1>3 DEF ClaimFinds, Typed, Working, Fits
    <2>2. PICK e \in Entry : e = Doing("take", work[r].on) /\ e.op = "take" /\ e.on = work[r].on
      BY <2>1, EntryBegins DEF Subjects, Operation
    <2>3. Fits(e, clock, approval.state)
      BY <2>1, <2>2 DEF Fits
    <2>4. Goes(r, e) \/ Ends(r)
      BY <1>3, <2>2 DEF ClaimFinds
    <2>5. WorkTyped' /\ Working'
      BY <1>3, <2>3, <2>4, RequestGoesOn, RequestEnds DEF ClaimFinds
    <2> QED BY <1>3, <2>5, PartsUntouched DEF ClaimFinds, Typed
  <1>4. ASSUME Typed, NEW r \in Requests, ClaimTakes(r) PROVE Typed'
    <2>1. work[r].on \in Relays
      BY <1>4 DEF ClaimTakes, Typed, Working, Fits
    <2>2. CallbacksTyped'
      BY <1>0, <1>4, <2>1 DEF ClaimTakes, StillUnclaimed, CallbacksTyped, HandedOnce, callbacks
    <2> QED BY <1>4, <2>2, RequestEnds, PartsUntouched DEF ClaimTakes, Typed
  <1> QED BY <1>1, <1>2, <1>3, <1>4 DEF Relay, Claim

LEMMA EnvironmentKeepsTypes == Typed /\ Environment => Typed'
  <1>1. ASSUME Typed, PrimaryEnds \/ (\E g \in grants : RevokeGrant(g)) PROVE Typed'
    <2>1. OwnerTyped' /\ UNCHANGED <<people, approvals, signins, callbacks, work>>
      BY <1>1 DEF PrimaryEnds, RevokeGrant, Typed, OwnerTyped
    <2> QED BY <1>1, <2>1, PartsUntouched DEF Typed
  <1>2. ASSUME Typed, RevokeSite \/ (\E c \in Codes : SiteSessionLapses(c)) PROVE Typed'
    <2>1. SignInsTyped' /\ UNCHANGED <<people, approvals, owner, callbacks, work>>
      BY <1>2 DEF RevokeSite, SitesRevoked, SiteSessionLapses, Typed, SignInsTyped
    <2> QED BY <1>2, <2>1, PartsUntouched DEF Typed
  <1>3. ASSUME Typed, NEW r \in Requests, RollsBack(r) PROVE Typed'
    BY <1>3, RequestEnds, PartsUntouched DEF RollsBack, Typed
  <1> QED BY <1>1, <1>2, <1>3 DEF Environment

LEMMA TypedInductive == Typed /\ [Next]_vars => Typed'
  <1>1. Typed /\ UNCHANGED vars => Typed'
    BY PartsUntouched DEF vars, Typed, people, approvals, owner, signins, callbacks
  <1> QED BY <1>1, ExchangeKeepsTypes, SiteSignInKeepsTypes, ApproveKeepsTypes,
            CallbacksKeepTypes, EnvironmentKeepsTypes DEF Next

LEMMA TypedInitially == Init => Typed
  <1> SUFFICES ASSUME Init PROVE Typed
    OBVIOUS
  <1>1. PeopleTyped /\ OwnerTyped /\ SignInsTyped /\ CallbacksTyped
    BY DEF Init, PeopleTyped, OwnerTyped, SignInsTyped, CallbacksTyped, HandedOnce
  <1>2. ApprovalTyped /\ ApprovalNamesManifest
    <2>1. /\ approval \in [state: {"none", "approved", "withdrawn"},
                            manifest: Manifests \cup {NoManifest}]
          /\ approval.state # "none" => approval.manifest \in Manifests
      <3>1. CASE approval = NoApproval
        BY <3>1 DEF NoApproval
      <3>2. CASE approval \in [state: {"withdrawn"}, manifest: Manifests]
        BY <3>2
      <3> QED BY <3>1, <3>2 DEF Init
    <2>2. clock \in 0..MaxChanges /\ told = {}
      BY SignInAssumption DEF Init
    <2>3. raced \in BOOLEAN
      BY Zenon DEF Init
    <2> QED BY <2>1, <2>2, <2>3 DEF ApprovalTyped, ApprovalNamesManifest
  <1>3. WorkTyped /\ Working
    BY IdleIsAnEntry DEF Init, WorkTyped, Working, Fits
  <1> QED BY <1>1, <1>2, <1>3 DEF Typed

LEMMA TypedAlways == Spec => []Typed
  BY TypedInitially, TypedInductive, PTL DEF Spec

(* Rows, announcements and requests are of their kind.                     *)
THEOREM TypeCorrect == Spec => []TypeOK
  <1>1. Typed => TypeOK
    BY TypesInParts DEF Typed
  <1> QED BY <1>1, TypedAlways, PTL

(* The code of a callback is answered to one caller at most, and not after *)
(* the sweep took it, however claims and sweeps meet (relay::claim).       *)
THEOREM HandedOnceAlways == Spec => []HandedOnce
  <1>1. Typed => HandedOnce
    BY DEF Typed, CallbacksTyped
  <1> QED BY <1>1, TypedAlways, PTL

-----------------------------------------------------------------------------
(* One person.                                                             *)

(* A session is minted for the mapping that is stored, and with the nonce  *)
(* of its assertion; there is none before there is a mapping.              *)
PersonInv ==
    /\ OnePerson
    /\ \A a \in Assertions, u \in Users :
          minted[a][u] > 0 => a \in redeemed /\ person # None

LEMMA PersonInductive == Typed /\ PersonInv /\ [Next]_vars => PersonInv'
  <1> SUFFICES ASSUME Typed, PersonInv, [Next]_vars PROVE PersonInv'
    OBVIOUS
  <1>1. ASSUME NEW r \in Requests, Mint(r) PROVE PersonInv'
    <2>1. CASE Replayed(r)
      BY <1>1, <2>1 DEF Mint, people, PersonInv, OnePerson
    <2>2. CASE ~Replayed(r)
      <3>1. PICK a \in Assertions : a = work[r].on /\ a \notin redeemed
        BY <1>1, <2>2 DEF Mint, Replayed, Typed, Working, Fits
      <3>2. PICK user \in Users : user = LinkedUser(r)
        BY <1>1 DEF Mint, LinkedUser, Typed, Working, Fits, PeopleTyped
      <3>3. /\ redeemed' = redeemed \cup {a} /\ person' = user
            /\ minted' = [minted EXCEPT ![a][user] = @ + 1]
        BY <1>1, <2>2, <3>1, <3>2 DEF Mint
      <3>4. minted \in [Assertions -> [Users -> Nat]]
        BY DEF Typed, PeopleTyped
      <3>5. \A u \in Users : minted[a][u] = 0
        BY <3>1, <3>4 DEF PersonInv
      <3>6. person # None => user = person
        BY <3>2 DEF LinkedUser
      <3>7. user # None
        BY SignInAssumption DEF None
      <3> SUFFICES ASSUME NEW b \in Assertions, NEW u \in Users, minted'[b][u] > 0
                   PROVE  /\ u = person' /\ minted'[b][u] = 1
                          /\ b \in redeemed' /\ person' # None
        BY DEF PersonInv, OnePerson
      <3>8. CASE b = a
        BY <3>3, <3>4, <3>5, <3>7, <3>8
      <3>9. CASE b # a
        <4>1. minted'[b][u] = minted[b][u] /\ minted[b][u] > 0
          BY <3>3, <3>4, <3>9
        <4> QED BY <3>3, <3>6, <4>1 DEF PersonInv, OnePerson
      <3> QED BY <3>8, <3>9
    <2> QED BY <2>1, <2>2
  <1>2. CASE UNCHANGED people
    BY <1>2 DEF people, PersonInv, OnePerson
  <1> QED BY <1>1, <1>2
      DEF Next, Exchange, SiteSignIn, Approve, Relay, Claim, Environment, vars, Resolve, Link,
          IssueLooks, IssueCode, Present, PresentLooks, OpenSession, StoreLocks, StoreCommits,
          WithdrawLocks, WithdrawCommits, Receive, CollectExpired, ClaimLooks, ClaimFinds,
          ClaimTakes, PrimaryEnds, RevokeSite, RevokeGrant, SiteSessionLapses, RollsBack

(* However first exchanges race and assertions are replayed, every session *)
(* of the account belongs to one person, and an assertion mints one        *)
(* (resolve_person, link_external_identity, redeem).                       *)
THEOREM OnePersonAlways == Spec => []OnePerson
  <1>1. Init => PersonInv
    BY DEF Init, PersonInv, OnePerson
  <1>2. PersonInv => OnePerson
    BY DEF PersonInv
  <1> QED BY <1>1, <1>2, TypedAlways, PersonInductive, PTL DEF Spec

-----------------------------------------------------------------------------
(* The newest announcement.                                                *)

Holds(r) == work[r].op \in {"store", "withdraw"}

(* One request holds the row, and its instant is above everything that was *)
(* told; nothing was told before there was a row.                          *)
TellingInv ==
    /\ \A t \in told : t.at <= clock
    /\ \A r, q \in Requests : Holds(r) /\ Holds(q) => r = q
    /\ \A r \in Requests : Holds(r) => \A t \in told : t.at < work[r].at
    /\ approval.state = "none" => told = {}
    /\ NewestToldIsStored

(* A step that tells nothing, and gives nobody the row.                    *)
LEMMA NothingToldKeeps ==
    ASSUME Typed, TellingInv, UNCHANGED approvals,
           \A q \in Requests : work'[q].op \in {"store", "withdraw"} => work'[q] = work[q]
    PROVE  TellingInv'
  BY DEF TellingInv, approvals, NewestToldIsStored, Holds

LEMMA OneRequestMoves ==
    ASSUME Typed, TellingInv, UNCHANGED approvals, NEW r \in Requests, NEW e,
           e.op \notin {"store", "withdraw"}, Goes(r, e)
    PROVE  TellingInv'
  <1>1. \A q \in Requests : work'[q].op \in {"store", "withdraw"} => work'[q] = work[q]
    BY DEF Goes, Typed, WorkTyped
  <1> QED BY <1>1, NothingToldKeeps

(* Who takes the row reads an instant of its own.                          *)
LEMMA LockingKeeps ==
    ASSUME Typed, TellingInv, NEW r \in Requests, NEW e \in Entry,
           ~RowLocked \/ e.op = "insert", clock' = clock + 1, e.at = clock + 1,
           UNCHANGED <<approval, told, raced>>, Goes(r, e)
    PROVE  TellingInv'
  <1>0. clock \in Nat /\ told \subseteq [at: 1..MaxChanges, state: {"approved", "withdrawn"},
                                         manifest: Manifests]
    BY SignInAssumption DEF Typed, ApprovalTyped
  <1>1. work'[r] = e /\ \A q \in Requests \ {r} : work'[q] = work[q]
    BY DEF Goes, Typed, WorkTyped
  <1>2. \A t \in told : t.at \in Nat /\ t.at <= clock /\ t.at < clock + 1
    BY <1>0, SignInAssumption DEF TellingInv
  <1>3. \A q \in Requests : Holds(q)' => \/ q = r /\ (e.op # "insert" => ~RowLocked)
                                         \/ q # r /\ Holds(q)
    BY <1>1 DEF Holds
  <1>4. \A q, p \in Requests : Holds(q)' /\ Holds(p)' => q = p
    BY <1>1, <1>3 DEF TellingInv, Holds, RowLocked
  <1>5. \A q \in Requests : Holds(q)' => \A t \in told : t.at < work'[q].at
    BY <1>1, <1>2, <1>3 DEF TellingInv
  <1>6. \A t \in told' : t.at <= clock'
    BY <1>0, <1>2
  <1> QED BY <1>4, <1>5, <1>6 DEF TellingInv, NewestToldIsStored

(* Who commits tells the newest, or has raced.                             *)
LEMMA TellingKeeps ==
    ASSUME Typed, TellingInv, NEW r \in Requests, NEW state, NEW m,
           Holds(r) \/ (work[r].op = "insert" /\ ~RowLocked),
           state # "none", approval' = [state |-> state, manifest |-> m],
           told' = told \cup {[at |-> work[r].at, state |-> state, manifest |-> m]},
           clock' = clock, Ends(r),
           ~raced' => ~raced /\ (Holds(r) \/ approval.state = "none")
    PROVE  TellingInv'
  <1> DEFINE new == [at |-> work[r].at, state |-> state, manifest |-> m]
  <1>0. /\ clock \in Nat /\ \A t \in told : t.at \in Nat
        /\ work[r] \in Entry /\ Fits(work[r], clock, approval.state)
    BY SignInAssumption DEF Typed, ApprovalTyped, Working
  <1>1. work[r].at \in Nat /\ work[r].at <= clock
    BY <1>0, SignInAssumption DEF Fits, Entry, Holds
  <1>2. new.at = work[r].at /\ new.state = state /\ new.manifest = m
    OBVIOUS
  <1>3. \A q \in Requests : Holds(q)' => q # r /\ Holds(q) /\ work'[q] = work[q]
    BY IdleIsAnEntry DEF Ends, Typed, WorkTyped, Holds
  <1>4. \A q \in Requests : ~ Holds(q)'
    BY <1>3 DEF TellingInv, Holds, RowLocked
  <1>5. \A t \in told' : t.at <= clock'
    BY <1>1, <1>2 DEF TellingInv
  <1>6. ~raced' => \A t \in told : t.at < new.at
    BY <1>2 DEF TellingInv
  <1>7. NewestToldIsStored'
    <2> SUFFICES ASSUME ~raced', NEW t \in told', \A u \in told' : u.at <= t.at
                 PROVE  approval' = [state |-> t.state, manifest |-> t.manifest]
      BY DEF NewestToldIsStored
    <2>1. new \in told'
      OBVIOUS
    <2>2. new.at <= t.at /\ (t \in told \/ t = new)
      BY <2>1
    <2>3. t \in told => t.at \in Nat /\ t.at < new.at
      BY <1>0, <1>6
    <2>4. new.at \in Nat
      BY <1>1, <1>2
    <2> HIDE DEF new
    <2>5. t = new
      BY <2>2, <2>3, <2>4
    <2> QED BY <1>2, <2>5
  <1>8. approval'.state # "none"
    OBVIOUS
  <1> QED BY <1>4, <1>5, <1>7, <1>8 DEF TellingInv

LEMMA ApproveKeepsTelling == Typed /\ TellingInv /\ Approve => TellingInv'
  <1> SUFFICES ASSUME Typed, TellingInv, NEW r \in Requests,
                      \/ \E m \in Manifests : StoreLocks(r, m)
                      \/ StoreCommits(r) \/ WithdrawLocks(r) \/ WithdrawCommits(r)
               PROVE  TellingInv'
    BY DEF Approve
  <1>0. clock \in Nat /\ clock \in 0..MaxChanges /\ ApprovalTyped /\ ApprovalNamesManifest
    BY SignInAssumption DEF Typed, ApprovalTyped
  <1>1. ASSUME NEW op \in {"insert", "store", "withdraw"}, NEW m \in Manifests,
               ~RowLocked, clock < MaxChanges, clock' = clock + 1,
               UNCHANGED <<approval, told, raced>>,
               Goes(r, [Doing(op, m) EXCEPT !.at = clock + 1])
        PROVE  TellingInv'
    <2>1. clock + 1 \in 0..MaxChanges /\ op \in Operation /\ m \in Subjects
      BY <1>0, <1>1, SignInAssumption DEF Operation, Subjects
    <2>2. PICK e \in Entry : e = [Doing(op, m) EXCEPT !.at = clock + 1] /\ e.at = clock + 1
      BY <2>1, EntryBeginsAt
    <2>3. Goes(r, e)
      BY <1>1, <2>2
    <2> QED BY <1>1, <2>2, <2>3, LockingKeeps
  <1>2. ASSUME NEW m \in Manifests, StoreLocks(r, m) PROVE TellingInv'
    <2>1. PICK op \in {"insert", "store"} : Goes(r, [Doing(op, m) EXCEPT !.at = clock + 1])
      BY <1>2, Zenon DEF StoreLocks
    <2> QED BY <1>1, <1>2, <2>1 DEF StoreLocks
  <1>3. CASE WithdrawLocks(r)
    <2>1. PICK m \in Manifests : m = approval.manifest
      BY <1>0, <1>3 DEF WithdrawLocks, ApprovalNamesManifest
    <2>2. Goes(r, [Doing("withdraw", m) EXCEPT !.at = clock + 1])
      BY <1>3, <2>1 DEF WithdrawLocks
    <2> QED BY <1>1, <1>3, <2>2 DEF WithdrawLocks
  <1>4. CASE StoreCommits(r)
    <2>1. Holds(r) \/ (work[r].op = "insert" /\ ~RowLocked)
      BY <1>4 DEF StoreCommits, Holds
    <2>2. ~raced' => ~raced /\ (Holds(r) \/ approval.state = "none")
      <3>1. raced' = (raced \/ (work[r].op = "insert" /\ approval # NoApproval))
        BY <1>4 DEF StoreCommits
      <3>2. ~raced' => ~raced /\ ~(work[r].op = "insert" /\ approval # NoApproval)
        BY <3>1, Zenon
      <3>3. approval = NoApproval => approval.state = "none"
        BY DEF NoApproval
      <3> QED BY <2>1, <3>2, <3>3, Zenon
    <2>3. PICK m : m = work[r].on
      OBVIOUS
    <2>4. /\ approval' = [state |-> "approved", manifest |-> m]
          /\ told' = told \cup {[at |-> work[r].at, state |-> "approved", manifest |-> m]}
          /\ clock' = clock /\ Ends(r)
      BY <1>4, <2>3 DEF StoreCommits, Announce
    <2> QED BY <2>1, <2>2, <2>4, TellingKeeps
  <1>5. CASE WithdrawCommits(r)
    <2>1. Holds(r)
      BY <1>5 DEF WithdrawCommits, Holds
    <2>2. PICK m : m = approval.manifest
      OBVIOUS
    <2>3. approval' = [state |-> "withdrawn", manifest |-> m]
      BY <1>0, <1>5, <2>2 DEF WithdrawCommits, ApprovalTyped
    <2>4. /\ told' = told \cup {[at |-> work[r].at, state |-> "withdrawn", manifest |-> m]}
          /\ clock' = clock /\ Ends(r) /\ raced' = raced
      BY <1>5, <2>2 DEF WithdrawCommits, Announce
    <2> QED BY <2>1, <2>3, <2>4, TellingKeeps
  <1> QED BY <1>2, <1>3, <1>4, <1>5

LEMMA TellingInductive == Typed /\ TellingInv /\ [Next]_vars => TellingInv'
  <1> SUFFICES ASSUME Typed, TellingInv, [Next]_vars PROVE TellingInv'
    OBVIOUS
  <1>0. Idle.op \notin {"store", "withdraw"}
    BY IdleIsAnEntry
  <1>1. CASE Exchange
    <2>1. PICK r \in Requests : (\E a \in Assertions : Resolve(r, a)) \/ Link(r) \/ Mint(r)
      BY <1>1 DEF Exchange
    <2>2. UNCHANGED approvals
      BY <2>1 DEF Resolve, Link, Mint
    <2>3. \A q \in Requests \ {r} : work'[q] = work[q]
      BY <2>1 DEF Resolve, Link, Mint, Goes, Ends, Typed, WorkTyped
    <2>4. work'[r].op \notin {"store", "withdraw"}
      <3>1. CASE \E a \in Assertions : Resolve(r, a)
        <4>1. PICK a \in Assertions : \E u : Goes(r, [Doing("link", a) EXCEPT !.user = u])
          BY <3>1 DEF Resolve
        <4>2. PICK u : Goes(r, [Doing("link", a) EXCEPT !.user = u])
          BY <4>1
        <4>3. [Doing("link", a) EXCEPT !.user = u].op = "link"
          BY DEF Doing, Idle
        <4> QED BY <4>2, <4>3 DEF Goes, Typed, WorkTyped
      <3>2. CASE Link(r)
        <4>1. [work[r] EXCEPT !.op = "mint"].op = "mint"
          BY DEF Typed, WorkTyped, Entry
        <4> QED BY <3>2, <4>1 DEF Link, Goes, Typed, WorkTyped
      <3>3. CASE Mint(r)
        BY <3>3, <1>0 DEF Mint, Ends, Typed, WorkTyped
      <3> QED BY <2>1, <3>1, <3>2, <3>3
    <2> QED BY <2>2, <2>3, <2>4, NothingToldKeeps
  <1>2. CASE SiteSignIn
    <2>1. PICK r \in Requests :
             \/ IssueLooks(r) \/ IssueCode(r)
             \/ \E c \in Codes, right \in BOOLEAN : Present(r, c, right)
             \/ PresentLooks(r) \/ OpenSession(r)
      BY <1>2 DEF SiteSignIn
    <2>2. UNCHANGED approvals
      BY <2>1 DEF IssueLooks, IssueCode, Present, PresentLooks, OpenSession
    <2>3. \A q \in Requests \ {r} : work'[q] = work[q]
      BY <2>1 DEF IssueLooks, IssueCode, Present, PresentLooks, OpenSession, Goes, Ends,
                  Typed, WorkTyped
    <2>4. work'[r].op \notin {"store", "withdraw"}
      <3>1. CASE IssueLooks(r)
        BY <3>1 DEF IssueLooks, Goes, Doing, Idle, Typed, WorkTyped
      <3>2. CASE IssueCode(r) \/ OpenSession(r)
        BY <3>2, <1>0 DEF IssueCode, OpenSession, Ends, Typed, WorkTyped
      <3>3. CASE \E c \in Codes, right \in BOOLEAN : Present(r, c, right)
        <4>1. PICK c \in Codes : \E at : Goes(r, [Doing("present", c) EXCEPT !.at = at])
          BY <3>3 DEF Present
        <4>2. PICK at : Goes(r, [Doing("present", c) EXCEPT !.at = at])
          BY <4>1
        <4>3. [Doing("present", c) EXCEPT !.at = at].op = "present"
          BY DEF Doing, Idle
        <4> QED BY <4>2, <4>3 DEF Goes, Typed, WorkTyped
      <3>4. CASE PresentLooks(r)
        BY <3>4, <1>0 DEF PresentLooks, Goes, Ends, Doing, Idle, Typed, WorkTyped
      <3> QED BY <2>1, <3>1, <3>2, <3>3, <3>4
    <2> QED BY <2>2, <2>3, <2>4, NothingToldKeeps
  <1>3. CASE Relay
    <2>1. ASSUME NEW y \in Relays, Receive(y) \/ CollectExpired(y) PROVE TellingInv'
      BY <2>1, NothingToldKeeps DEF Receive, CollectExpired
    <2>2. ASSUME NEW y \in Relays, NEW r \in Requests, ClaimLooks(r, y) PROVE TellingInv'
      <3>1. Doing("claim", y).op = "claim"
        BY DEF Doing, Idle
      <3> QED BY <2>2, <3>1, OneRequestMoves DEF ClaimLooks
    <2> QED BY <1>3, <2>1, <2>2 DEF Relay
  <1>4. CASE Claim
    <2>1. PICK r \in Requests : ClaimFinds(r) \/ ClaimTakes(r)
      BY <1>4 DEF Claim
    <2>2. UNCHANGED approvals
      BY <2>1 DEF ClaimFinds, ClaimTakes
    <2>3. \A q \in Requests \ {r} : work'[q] = work[q]
      BY <2>1 DEF ClaimFinds, ClaimTakes, Goes, Ends, Typed, WorkTyped
    <2>4. work'[r].op \notin {"store", "withdraw"}
      BY <2>1, <1>0 DEF ClaimFinds, ClaimTakes, Goes, Ends, Doing, Idle, Typed, WorkTyped
    <2> QED BY <2>2, <2>3, <2>4, NothingToldKeeps
  <1>5. CASE Environment
    <2>1. CASE PrimaryEnds \/ RevokeSite \/ (\E g \in grants : RevokeGrant(g))
                 \/ (\E c \in Codes : SiteSessionLapses(c))
      BY <2>1, NothingToldKeeps DEF PrimaryEnds, RevokeSite, RevokeGrant, SiteSessionLapses
    <2>2. ASSUME NEW r \in Requests, RollsBack(r) PROVE TellingInv'
      <3>1. Goes(r, Idle)
        BY <2>2 DEF RollsBack, Ends, Goes
      <3> QED BY <1>0, <2>2, <3>1, OneRequestMoves DEF RollsBack
    <2> QED BY <1>5, <2>1, <2>2 DEF Environment
  <1>6. CASE UNCHANGED vars
    BY <1>6, NothingToldKeeps DEF vars
  <1> QED BY <1>1, <1>2, <1>3, <1>4, <1>5, <1>6, ApproveKeepsTelling DEF Next

(* Whatever approvals and withdrawals meet, whoever keeps the newest       *)
(* announcement has the stored approval (locked, announce), unless two     *)
(* first approvals raced.                                                  *)
THEOREM NewestToldAlwaysStored == Spec => []NewestToldIsStored
  <1>1. Init => TellingInv
    BY IdleIsAnEntry DEF Init, TellingInv, NewestToldIsStored, Holds
  <1>2. TellingInv => NewestToldIsStored
    BY DEF TellingInv
  <1> QED BY <1>1, <1>2, TypedAlways, TellingInductive, PTL DEF Spec

-----------------------------------------------------------------------------
(* A code opens one session.                                               *)

Presents(r) == work[r].op \in {"present", "open"}

(* Who presents a code holds its row, alone, and it is still to be         *)
(* consumed; a session is there only when its code was.                    *)
RedeemInv ==
    /\ \A r \in Requests : Presents(r) => codes[work[r].on].state = "issued"
    /\ \A q, r \in Requests : Presents(q) /\ Presents(r) /\ work[q].on = work[r].on => q = r
    /\ \A c \in Codes : codes[c].state # "consumed" => site[c] = "unborn"

EndedSite(c) == site[c] \in {"revoked", "lapsed"}
EndedStay == \A c \in Codes : EndedSite(c) => site'[c] = site[c]

(* A step in which nobody begins to present, or goes on.                   *)
LEMMA NobodyPresents ==
    ASSUME RedeemInv, UNCHANGED codes,
           \A c \in Codes : site[c] = "unborn" => site'[c] = "unborn",
           \A q \in Requests : work'[q].op \in {"present", "open"} => work'[q] = work[q]
    PROVE  RedeemInv'
  BY DEF RedeemInv, Presents

(* The end of a presentation consumes the code, and touches no other.      *)
LEMMA ConsumingKeeps ==
    ASSUME Typed, RedeemInv, NEW r \in Requests, Presents(r), Ends(r),
           codes' = [codes EXCEPT ![work[r].on].state = "consumed"],
           \A c \in Codes \ {work[r].on} : site'[c] = site[c]
    PROVE  RedeemInv'
  <1>1. work[r].on \in Codes
    BY DEF Presents, Typed, Working, Fits
  <1>2. /\ codes'[work[r].on].state = "consumed"
        /\ \A c \in Codes \ {work[r].on} : codes'[c] = codes[c]
    BY <1>1 DEF Typed, SignInsTyped
  <1>3. ~Presents(r)' /\ \A q \in Requests \ {r} : work'[q] = work[q]
    BY IdleIsAnEntry DEF Presents, Ends, Typed, WorkTyped
  <1>4. ASSUME NEW q \in Requests, Presents(q)'
        PROVE  q # r /\ work'[q] = work[q] /\ Presents(q) /\ work[q].on \in Codes \ {work[r].on}
    <2>1. q # r /\ work'[q] = work[q]
      BY <1>3, <1>4
    <2>2. Presents(q)
      BY <1>4, <2>1 DEF Presents
    <2>3. work[q].on \in Codes /\ work[q].on # work[r].on
      BY <2>1, <2>2 DEF Presents, Typed, Working, Fits, RedeemInv
    <2> QED BY <2>1, <2>2, <2>3
  <1>5. \A q \in Requests : Presents(q)' => codes'[work'[q].on].state = "issued"
    BY <1>2, <1>4 DEF RedeemInv
  <1>6. \A p, q \in Requests : Presents(p)' /\ Presents(q)' /\ work'[p].on = work'[q].on => p = q
    BY <1>4 DEF RedeemInv
  <1>7. \A c \in Codes : codes'[c].state # "consumed" => site'[c] = "unborn"
    BY <1>2 DEF RedeemInv
  <1> QED BY <1>5, <1>6, <1>7 DEF RedeemInv

(* Five steps of the sign-in are about a code; what has ended stays so.    *)
LEMMA SigningInRedeems ==
    ASSUME Typed, RedeemInv, SiteSignIn
    PROVE  RedeemInv' /\ EndedStay
  <1>0. work \in [Requests -> Entry] /\ Idle.op = "idle"
    BY IdleIsAnEntry DEF Typed, WorkTyped
  <1>1. ASSUME NEW r \in Requests, IssueLooks(r)
        PROVE  RedeemInv' /\ EndedStay
    <2>1. work'[r].op = "issue" /\ \A q \in Requests \ {r} : work'[q] = work[q]
      BY <1>0, <1>1 DEF IssueLooks, Goes, Doing, Idle
    <2> QED BY <1>1, <2>1, NobodyPresents DEF IssueLooks, signins, EndedStay
  <1>2. ASSUME NEW r \in Requests, IssueCode(r)
        PROVE  RedeemInv' /\ EndedStay
    <2>1. /\ work'[r].op = "idle" /\ UNCHANGED site
          /\ \A q \in Requests \ {r} : work'[q] = work[q]
      BY <1>0, <1>2 DEF IssueCode, Ends
    <2>2. CASE UNCHANGED codes
      BY <2>1, <2>2, NobodyPresents DEF EndedStay
    <2>3. CASE \E c \in {d \in Codes : codes[d].state = "unissued"} :
                 codes' = [codes EXCEPT ![c] = [state |-> "issued", host |-> work[r].on]]
      <3>1. PICK c \in Codes :
               /\ codes[c].state = "unissued"
               /\ codes' = [codes EXCEPT ![c] = [state |-> "issued", host |-> work[r].on]]
        BY <2>3
      <3>2. codes'[c].state = "issued" /\ \A d \in Codes \ {c} : codes'[d] = codes[d]
        BY <3>1 DEF Typed, SignInsTyped
      <3>3. \A d \in Codes : codes'[d].state # "consumed" => codes[d].state # "consumed"
        BY <3>1, <3>2
      <3>4. \A q \in Requests : Presents(q)' => work'[q] = work[q] /\ Presents(q)
                                                /\ work[q].on \in Codes \ {c}
        BY <2>1, <3>1 DEF Presents, Typed, Working, Fits, RedeemInv
      <3> QED BY <2>1, <3>2, <3>3, <3>4 DEF RedeemInv, EndedStay
    <2> QED BY <1>2, <2>2, <2>3 DEF IssueCode
  <1>3. ASSUME NEW r \in Requests, NEW c \in Codes, NEW right \in BOOLEAN, Present(r, c, right)
        PROVE  RedeemInv' /\ EndedStay
    <2>1. PICK at : Goes(r, [Doing("present", c) EXCEPT !.at = at])
      BY <1>3 DEF Present
    <2>2. /\ work'[r].op = "present" /\ work'[r].on = c
          /\ \A q \in Requests \ {r} : work'[q] = work[q]
      BY <1>0, <2>1 DEF Goes, Doing, Idle
    <2>3. UNCHANGED <<codes, site>> /\ codes[c].state = "issued"
          /\ \A q \in Requests : Presents(q) => work[q].on # c
      BY <1>3 DEF Present, signins, CodeLocked, Busy, Presents
    <2> QED BY <2>2, <2>3 DEF RedeemInv, Presents, EndedStay
  <1>4. ASSUME NEW r \in Requests, PresentLooks(r)
        PROVE  RedeemInv' /\ EndedStay
    <2>1. Presents(r) /\ UNCHANGED site
      BY <1>4 DEF PresentLooks, Presents
    <2>2. CASE Goes(r, Doing("open", work[r].on)) /\ UNCHANGED codes
      <3>1. /\ work'[r].op = "open" /\ work'[r].on = work[r].on
            /\ \A q \in Requests \ {r} : work'[q] = work[q]
        BY <1>0, <2>2 DEF Goes, Doing, Idle
      <3>2. \A q \in Requests : Presents(q)' => Presents(q) /\ work'[q].on = work[q].on
        BY <2>1, <3>1 DEF Presents
      <3> QED BY <2>1, <2>2, <3>2 DEF RedeemInv, EndedStay
    <2>3. CASE Ends(r) /\ codes' = [codes EXCEPT ![work[r].on].state = "consumed"]
      BY <2>1, <2>3, ConsumingKeeps DEF EndedStay
    <2> QED BY <1>4, <2>2, <2>3 DEF PresentLooks
  <1>5. ASSUME NEW r \in Requests, OpenSession(r)
        PROVE  RedeemInv' /\ EndedStay
    <2>1. Presents(r)
      BY <1>5 DEF OpenSession, Presents
    <2>2. work[r].on \in Codes /\ site[work[r].on] = "unborn"
      BY <2>1 DEF Presents, Typed, Working, Fits, RedeemInv
    <2>3. \A c \in Codes \ {work[r].on} : site'[c] = site[c]
      BY <1>5 DEF OpenSession, Typed, SignInsTyped
    <2>4. RedeemInv'
      BY <1>5, <2>1, <2>3, ConsumingKeeps DEF OpenSession
    <2> QED BY <2>2, <2>3, <2>4 DEF EndedStay, EndedSite
  <1> QED BY <1>1, <1>2, <1>3, <1>4, <1>5 DEF SiteSignIn

(* The others leave the codes, and a session at most ends.                 *)
LEMMA EveryStepRedeems ==
    ASSUME Typed, RedeemInv, [Next]_vars
    PROVE  RedeemInv' /\ EndedStay
  <1>0. work \in [Requests -> Entry] /\ Idle.op = "idle"
        /\ site \in [Codes -> {"unborn", "open", "revoked", "lapsed"}]
    BY IdleIsAnEntry DEF Typed, WorkTyped, SignInsTyped
  <1>1. ASSUME NEW r \in Requests, NEW e, e.op \notin {"present", "open"}, Goes(r, e),
               UNCHANGED signins
        PROVE  RedeemInv' /\ EndedStay
    <2>1. work'[r] = e /\ \A q \in Requests \ {r} : work'[q] = work[q]
      BY <1>0, <1>1 DEF Goes
    <2> QED BY <1>1, <2>1, NobodyPresents DEF signins, EndedStay
  <1>2. ASSUME NEW r \in Requests, Ends(r), UNCHANGED signins
        PROVE  RedeemInv' /\ EndedStay
    BY <1>0, <1>1, <1>2 DEF Goes, Ends
  <1>3. ASSUME UNCHANGED <<signins, work>>
        PROVE  RedeemInv' /\ EndedStay
    BY <1>3, NobodyPresents DEF signins, EndedStay
  <1>4. ASSUME site' = SitesRevoked
        PROVE  EndedStay /\ \A c \in Codes : site[c] = "unborn" => site'[c] = "unborn"
    BY <1>4 DEF SitesRevoked, EndedStay, EndedSite
  <1>5. CASE Exchange
    <2>1. ASSUME NEW r \in Requests, NEW a \in Assertions, Resolve(r, a)
          PROVE  RedeemInv' /\ EndedStay
      <3>1. PICK u : Goes(r, [Doing("link", a) EXCEPT !.user = u])
        BY <2>1 DEF Resolve
      <3>2. [Doing("link", a) EXCEPT !.user = u].op = "link"
        BY DEF Doing, Idle
      <3> QED BY <1>1, <2>1, <3>1, <3>2 DEF Resolve
    <2>2. ASSUME NEW r \in Requests, Link(r)
          PROVE  RedeemInv' /\ EndedStay
      <3>1. [work[r] EXCEPT !.op = "mint"].op = "mint"
        BY <1>0 DEF Entry
      <3> QED BY <1>1, <2>2, <3>1 DEF Link
    <2>3. ASSUME NEW r \in Requests, Mint(r)
          PROVE  RedeemInv' /\ EndedStay
      BY <1>2, <2>3 DEF Mint
    <2> QED BY <1>5, <2>1, <2>2, <2>3 DEF Exchange
  <1>6. CASE Approve
    <2>1. ASSUME NEW r \in Requests, NEW m \in Manifests, StoreLocks(r, m)
          PROVE  RedeemInv' /\ EndedStay
      <3>1. PICK op \in {"insert", "store"} : Goes(r, [Doing(op, m) EXCEPT !.at = clock + 1])
        BY <2>1 DEF StoreLocks
      <3>2. [Doing(op, m) EXCEPT !.at = clock + 1].op = op
        BY DEF Doing, Idle
      <3> QED BY <1>1, <2>1, <3>1, <3>2 DEF StoreLocks
    <2>2. ASSUME NEW r \in Requests, WithdrawLocks(r)
          PROVE  RedeemInv' /\ EndedStay
      <3>1. [Doing("withdraw", approval.manifest) EXCEPT !.at = clock + 1].op = "withdraw"
        BY DEF Doing, Idle
      <3> QED BY <1>1, <2>2, <3>1 DEF WithdrawLocks
    <2>3. ASSUME NEW r \in Requests, StoreCommits(r)
          PROVE  RedeemInv' /\ EndedStay
      BY <1>2, <2>3 DEF StoreCommits
    <2>4. ASSUME NEW r \in Requests, WithdrawCommits(r)
          PROVE  RedeemInv' /\ EndedStay
      <3>1. site' = SitesRevoked /\ UNCHANGED codes
        BY <2>4 DEF WithdrawCommits
      <3>2. work'[r].op = "idle" /\ \A q \in Requests \ {r} : work'[q] = work[q]
        BY <1>0, <2>4 DEF WithdrawCommits, Ends
      <3> QED BY <1>4, <3>1, <3>2, NobodyPresents
    <2> QED BY <1>6, <2>1, <2>2, <2>3, <2>4 DEF Approve
  <1>7. CASE Relay \/ Claim
    <2>1. ASSUME NEW y \in Relays, Receive(y) \/ CollectExpired(y)
          PROVE  RedeemInv' /\ EndedStay
      BY <1>3, <2>1 DEF Receive, CollectExpired
    <2>2. ASSUME NEW r \in Requests, NEW y, NEW op \in {"claim", "take"}, Goes(r, Doing(op, y)),
                 UNCHANGED signins
          PROVE  RedeemInv' /\ EndedStay
      <3>1. Doing(op, y).op = op
        BY DEF Doing, Idle
      <3> QED BY <1>1, <2>2, <3>1
    <2>3. ASSUME NEW r \in Requests, ClaimFinds(r) \/ ClaimTakes(r)
          PROVE  RedeemInv' /\ EndedStay
      BY <1>2, <2>2, <2>3 DEF ClaimFinds, ClaimTakes
    <2>4. ASSUME NEW r \in Requests, NEW y \in Relays, ClaimLooks(r, y)
          PROVE  RedeemInv' /\ EndedStay
      BY <2>2, <2>4 DEF ClaimLooks
    <2> QED BY <1>7, <2>1, <2>3, <2>4 DEF Relay, Claim
  <1>8. CASE Environment
    <2>1. ASSUME PrimaryEnds \/ \E g \in grants : RevokeGrant(g)
          PROVE  RedeemInv' /\ EndedStay
      BY <1>3, <2>1 DEF PrimaryEnds, RevokeGrant
    <2>2. ASSUME RevokeSite
          PROVE  RedeemInv' /\ EndedStay
      BY <1>4, <2>2, NobodyPresents DEF RevokeSite
    <2>3. ASSUME NEW c \in Codes, SiteSessionLapses(c)
          PROVE  RedeemInv' /\ EndedStay
      <3>1. \A d \in Codes : d # c => site'[d] = site[d]
        BY <1>0, <2>3 DEF SiteSessionLapses
      <3>2. site[c] = "open" /\ UNCHANGED <<codes, work>>
        BY <2>3 DEF SiteSessionLapses
      <3> QED BY <3>1, <3>2, NobodyPresents DEF EndedStay, EndedSite
    <2>4. ASSUME NEW r \in Requests, RollsBack(r)
          PROVE  RedeemInv' /\ EndedStay
      BY <1>2, <2>4 DEF RollsBack
    <2> QED BY <1>8, <2>1, <2>2, <2>3, <2>4 DEF Environment
  <1>9. CASE UNCHANGED vars
    BY <1>3, <1>9 DEF vars
  <1> QED BY <1>5, <1>6, <1>7, <1>8, <1>9, SigningInRedeems DEF Next

(* A site session that was revoked, or lapsed, does not come back by       *)
(* another presentation of its code, however presentations, withdrawals    *)
(* and the owner's revocations race (site_sign_in::redeem).                *)
THEOREM EndedForGood == Spec => EndedStaysEnded
  <1>1. Init => RedeemInv
    BY IdleIsAnEntry DEF Init, RedeemInv, Presents
  <1>2. Typed /\ RedeemInv /\ [Next]_vars => RedeemInv'
    BY EveryStepRedeems
  <1>3. Typed /\ RedeemInv /\ [Next]_vars =>
          [\A c \in Codes : site[c] \in {"revoked", "lapsed"} => site'[c] = site[c]]_vars
    BY EveryStepRedeems DEF EndedStay, EndedSite
  <1> QED BY <1>1, <1>2, <1>3, TypedAlways, PTL DEF Spec, EndedStaysEnded

=============================================================================

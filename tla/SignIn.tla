----------------------------- MODULE SignIn -----------------------------
(***************************************************************************)
(* Values that work once, and the sessions that they open: the identity    *)
(* assertion of the Telegram Mini App, the sign-in code of a site, the     *)
(* relayed OAuth callback; and the approval of a site, which its owner     *)
(* sessions must not outlive (crates/identity/src/{assertion,user,grant,   *)
(* relay,site_sign_in}.rs behind crates/public-api/src/{sessions,oauth,    *)
(* site_sessions,site_approvals}.rs).                                      *)
(*                                                                         *)
(* A request is a transaction at READ COMMITTED, a statement is a step,    *)
(* and the last statement and the commit are one step, as in               *)
(* DeviceSessions. There is one Telegram account, one site and one owner:  *)
(* what is presented for another one is the presentation that is not       *)
(* "right".                                                                *)
(***************************************************************************)
EXTENDS Integers, FiniteSets

CONSTANTS
    Requests,     \* the requests in flight at one time
    Assertions,   \* signed assertions of one Telegram account, by nonce
    Users,        \* identities that create_user mints: 1 .. n, in order
    Codes,        \* site sign-in codes
    Relays,       \* relayed OAuth callbacks
    Manifests,    \* manifests of the site; each has a hostname
    Hostname,     \* the hostname of each manifest
    MaxChanges    \* BOUND: changes of the approval, in their order in time

ASSUME SignInAssumption ==
    /\ Users \subseteq Nat \ {0}
    /\ DOMAIN Hostname = Manifests
    /\ MaxChanges \in Nat \ {0}

Hosts == {Hostname[m] : m \in Manifests}
NoHost == ""
None == 0
NoManifest == "none"

VARIABLES
    person,      \* identity.identities: the user of the Telegram account
    created,     \* identity.users that were created for it
    redeemed,    \* identity.identity_assertions, by nonce
    minted,      \* how many sessions an assertion minted, for which user
    approval,    \* identity.site_approvals: the row of the site
    told,        \* the announcements in the outbox, by their instant
    clock,       \* instants at which an approval was changed
    primary,     \* whether the owner's browser session is live
    grants,      \* live identity.grants: "owner" and the claim grant
    codes,       \* identity.site_sign_in_codes
    site,        \* the site_owner session that a code opened
    relays,      \* identity.oauth_relays
    handed,      \* how often the code of a relay was answered
    raced,       \* whether two first approvals stored one after the other
    work         \* the transactions in flight

people == <<person, created, redeemed, minted>>
approvals == <<approval, told, clock, raced>>
owner == <<primary, grants>>
signins == <<codes, site>>
callbacks == <<relays, handed>>
vars == <<people, approvals, owner, signins, callbacks, work>>

Idle == [op |-> "idle", on |-> NoHost, user |-> None, at |-> 0]
NoApproval == [state |-> "none", manifest |-> NoManifest]

TypeOK ==
    /\ person \in Users \cup {None} /\ created \subseteq Users
    /\ redeemed \subseteq Assertions
    /\ minted \in [Assertions -> [Users -> Nat]]
    /\ approval \in [state: {"none", "approved", "withdrawn"},
                     manifest: Manifests \cup {NoManifest}]
    /\ clock \in 0..MaxChanges
    /\ told \subseteq [at: 1..MaxChanges, state: {"approved", "withdrawn"}, manifest: Manifests]
    /\ primary \in BOOLEAN /\ grants \subseteq {"owner", "claim"}
    /\ codes \in [Codes -> [state: {"unissued", "issued", "consumed"}, host: Hosts \cup {NoHost}]]
    /\ site \in [Codes -> {"unborn", "open", "revoked", "lapsed"}]
    /\ relays \in [Relays -> {"unborn", "waiting", "claimed", "collected"}]
    /\ handed \in [Relays -> 0..2]
    /\ raced \in BOOLEAN
    /\ work \in [Requests -> [op: {"idle", "link", "mint", "issue", "present", "open",
                                   "insert", "store", "withdraw", "claim", "take"},
                              on: Assertions \cup Codes \cup Relays \cup Manifests
                                     \cup Hosts \cup {NoHost},
                              user: Users \cup {None}, at: 0..MaxChanges]]

Goes(r, entry) == work' = [work EXCEPT ![r] = entry]
Ends(r) == work' = [work EXCEPT ![r] = Idle]
Doing(op, on) == [Idle EXCEPT !.op = op, !.on = on]
Busy(op, on) == \E q \in Requests : work[q].op = op /\ work[q].on = on
-----------------------------------------------------------------------------
(* POST /v1/sessions/telegram: whose account, once, and a session.         *)

(* verify passes; resolve_person reads the mapping, and creates a user     *)
(* when there is none.                                                     *)
Resolve(r, a) ==
    LET unborn == Users \ (created \cup {work[q].user : q \in Requests})
        fresh == {u \in unborn : \A v \in unborn : u <= v} IN
    /\ work[r] = Idle
    /\ \E u \in (IF person # None THEN {person} ELSE fresh) :
          Goes(r, [Doing("link", a) EXCEPT !.user = u])
    /\ UNCHANGED <<people, approvals, owner, signins, callbacks>>

(* Whoever inserts a mapping, or touches one, holds it to the end.         *)
MappingLocked == \E q \in Requests : work[q].op = "mint"

(* link_external_identity waits for a racing insert and then answers the   *)
(* stored user; a user created for nothing stays without an identity.      *)
Link(r) ==
    /\ work[r].op = "link"
    /\ ~MappingLocked
    /\ Goes(r, [work[r] EXCEPT !.op = "mint"])
    /\ UNCHANGED <<people, approvals, owner, signins, callbacks>>

(* The user that the session is for: the stored one if there is one.       *)
LinkedUserOwn(r) == work[r].user                                          \* MUTANT
LinkedUser(r) == IF person = None THEN work[r].user ELSE person

(* redeem inserts the nonce, unless it is on record.                       *)
NeverReplayed(r) == FALSE                                                 \* MUTANT
Replayed(r) == work[r].on \in redeemed

(* A replay rolls everything back. Otherwise the user, the mapping, the    *)
(* nonce and a session commit together.                                    *)
Mint(r) ==
    /\ work[r].op = "mint"
    /\ IF Replayed(r)
       THEN UNCHANGED people
       ELSE /\ redeemed' = redeemed \cup {work[r].on}
            /\ person' = LinkedUser(r)
            /\ created' = created \cup {work[r].user}
            /\ minted' = [minted EXCEPT ![work[r].on][LinkedUser(r)] = @ + 1]
    /\ Ends(r)
    /\ UNCHANGED <<approvals, owner, signins, callbacks>>
-----------------------------------------------------------------------------
(* Signing in to a site: the owner's browser approves a code, the site's   *)
(* callback page redeems it.                                               *)

(* issue_code reads the approved hostname before its transaction.          *)
IssueLooks(r) ==
    /\ work[r] = Idle
    /\ approval.state = "approved"
    /\ Goes(r, Doing("issue", Hostname[approval.manifest]))
    /\ UNCHANGED <<people, approvals, owner, signins, callbacks>>

(* site_sign_in::issue refuses without a live primary session.             *)
IssueCode(r) ==
    /\ work[r].op = "issue"
    /\ IF primary
       THEN \E c \in {d \in Codes : codes[d].state = "unissued"} :
               codes' = [codes EXCEPT ![c] = [state |-> "issued", host |-> work[r].on]]
       ELSE UNCHANGED codes
    /\ Ends(r)
    /\ UNCHANGED <<people, approvals, owner, site, callbacks>>

CodeLocked(c) == Busy("present", c) \/ Busy("open", c)

(* redeem consumes a code on its first presentation, and in the same       *)
(* statement looks whether the approving session and the grant still live. *)
(* "right" is a presentation at the site of the code, with the verifier of *)
(* its challenge and from its hostname.                                    *)
Present(r, c, right) ==
    /\ work[r] = Idle
    /\ codes[c].state = "issued" /\ ~CodeLocked(c)
    /\ Goes(r, [Doing("present", c) EXCEPT
                    !.at = IF right /\ primary /\ "owner" \in grants THEN 1 ELSE 0])
    /\ UNCHANGED <<people, approvals, owner, signins, callbacks>>

(* approved_now: does the approval name the hostname of the code. A        *)
(* refusal commits too, so that the code stays consumed.                   *)
PresentLooks(r) ==
    LET c == work[r].on IN
    /\ work[r].op = "present"
    /\ IF work[r].at = 1 /\ approval.state = "approved"
          /\ Hostname[approval.manifest] = codes[c].host
       THEN Goes(r, Doing("open", c)) /\ UNCHANGED codes
       ELSE Ends(r) /\ codes' = [codes EXCEPT ![c].state = "consumed"]
    /\ UNCHANGED <<people, approvals, owner, site, callbacks>>

OpenSession(r) ==
    LET c == work[r].on IN
    /\ work[r].op = "open"
    /\ codes' = [codes EXCEPT ![c].state = "consumed"]
    /\ site' = [site EXCEPT ![c] = "open"]
    /\ Ends(r)
    /\ UNCHANGED <<people, approvals, owner, callbacks>>

(* revoke_site_sessions, for the owner's call and for a withdrawal.        *)
SitesRevoked == [c \in Codes |-> IF site[c] = "open" THEN "revoked" ELSE site[c]]

RevokeSite ==
    /\ \E c \in Codes : site[c] = "open"
    /\ site' = SitesRevoked
    /\ UNCHANGED <<people, approvals, owner, codes, callbacks, work>>
-----------------------------------------------------------------------------
(* The approval of the site's manifest.                                    *)

(* locked: the row of the site, if there is one, until the commit.         *)
RowLockedNever == FALSE                                                   \* MUTANT
RowLocked == \E q \in Requests : work[q].op \in {"store", "withdraw"}

(* store, on the manifest that the sites service answered: the row is      *)
(* locked, an equal approval is answered as it is, and otherwise the       *)
(* instant of the change is read. The first approval finds nothing to lock.*)
StoreLocks(r, m) ==
    /\ work[r] = Idle
    /\ ~RowLocked
    /\ approval # [state |-> "approved", manifest |-> m]
    /\ clock < MaxChanges
    /\ clock' = clock + 1
    /\ Goes(r, [Doing(IF approval = NoApproval THEN "insert" ELSE "store", m)
                    EXCEPT !.at = clock + 1])
    /\ UNCHANGED <<people, approval, told, raced, owner, signins, callbacks>>

Announce(r, state, manifest) ==
    told' = told \cup {[at |-> work[r].at, state |-> state, manifest |-> manifest]}

(* The upsert waits for a racing first insert; row, announcement and audit *)
(* record commit together.                                                 *)
StoreCommits(r) ==
    /\ work[r].op = "store" \/ (work[r].op = "insert" /\ ~RowLocked)
    /\ approval' = [state |-> "approved", manifest |-> work[r].on]
    /\ Announce(r, "approved", work[r].on)
    /\ raced' = (raced \/ (work[r].op = "insert" /\ approval # NoApproval))
    /\ Ends(r)
    /\ UNCHANGED <<people, clock, owner, signins, callbacks>>

WithdrawLocks(r) ==
    /\ work[r] = Idle
    /\ ~RowLocked
    /\ approval.state = "approved"
    /\ clock < MaxChanges
    /\ clock' = clock + 1
    /\ Goes(r, [Doing("withdraw", approval.manifest) EXCEPT !.at = clock + 1])
    /\ UNCHANGED <<people, approval, told, raced, owner, signins, callbacks>>

(* The owner sessions that the statement sees end with the approval.       *)
WithdrawCommits(r) ==
    /\ work[r].op = "withdraw"
    /\ approval' = [approval EXCEPT !.state = "withdrawn"]
    /\ site' = SitesRevoked
    /\ Announce(r, "withdrawn", approval.manifest)
    /\ Ends(r)
    /\ UNCHANGED <<people, clock, raced, owner, codes, callbacks>>
-----------------------------------------------------------------------------
(* The OAuth relay: a callback waits for the service that may claim it.    *)

(* receive, on the callback of a known provider within its bounds.         *)
Receive(y) ==
    /\ relays[y] = "unborn"
    /\ relays' = [relays EXCEPT ![y] = "waiting"]
    /\ UNCHANGED <<people, approvals, owner, signins, handed, work>>

(* claim reads which claim grants the caller holds ...                     *)
ClaimLooks(r, y) ==
    /\ work[r] = Idle
    /\ relays[y] # "unborn" /\ "claim" \in grants
    /\ Goes(r, Doing("claim", y))
    /\ UNCHANGED <<people, approvals, owner, signins, callbacks>>

(* ... finds the row in the snapshot of its one statement ...              *)
ClaimFinds(r) ==
    /\ work[r].op = "claim"
    /\ IF relays[work[r].on] = "waiting"
       THEN Goes(r, Doing("take", work[r].on)) ELSE Ends(r)
    /\ UNCHANGED <<people, approvals, owner, signins, callbacks>>

(* MUTANT: the update does not look again whether the relay is claimed.    *)
StillUnclaimedNot(y) == relays[y] # "collected"
(* ... and the update of that statement looks at the newest version.       *)
StillUnclaimed(y) == relays[y] = "waiting"

ClaimTakes(r) ==
    LET y == work[r].on IN
    /\ work[r].op = "take"
    /\ IF StillUnclaimed(y)
       THEN /\ relays' = [relays EXCEPT ![y] = "claimed"]
            /\ handed' = [handed EXCEPT ![y] = @ + 1]
       ELSE UNCHANGED callbacks
    /\ Ends(r)
    /\ UNCHANGED <<people, approvals, owner, signins>>

(* collect_expired: a relay that lapsed unclaimed goes.                    *)
CollectExpired(y) ==
    /\ relays[y] = "waiting"
    /\ relays' = [relays EXCEPT ![y] = "collected"]
    /\ UNCHANGED <<people, approvals, owner, signins, handed, work>>
-----------------------------------------------------------------------------
(* What ends by itself or by another hand, and what fails half way.        *)

PrimaryEnds ==
    /\ primary /\ primary' = FALSE
    /\ UNCHANGED <<people, approvals, grants, signins, callbacks, work>>

RevokeGrant(g) ==
    /\ g \in grants /\ grants' = grants \ {g}
    /\ UNCHANGED <<people, approvals, primary, signins, callbacks, work>>

(* Twelve hours, or one hour without a use.                                *)
SiteSessionLapses(c) ==
    /\ site[c] = "open"
    /\ site' = [site EXCEPT ![c] = "lapsed"]
    /\ UNCHANGED <<people, approvals, owner, codes, callbacks, work>>

RollsBack(r) ==
    /\ work[r] # Idle
    /\ Ends(r)
    /\ UNCHANGED <<people, approvals, owner, signins, callbacks>>

Init ==
    /\ person = None /\ created = {} /\ redeemed = {}
    /\ minted = [a \in Assertions |-> [u \in Users |-> 0]]
    /\ approval \in {NoApproval} \cup [state: {"withdrawn"}, manifest: Manifests]
    /\ told = {} /\ clock = 0 /\ raced = FALSE
    /\ primary = TRUE /\ grants = {"owner", "claim"}
    /\ codes = [c \in Codes |-> [state |-> "unissued", host |-> NoHost]]
    /\ site = [c \in Codes |-> "unborn"]
    /\ relays = [y \in Relays |-> "unborn"]
    /\ handed = [y \in Relays |-> 0]
    /\ work = [r \in Requests |-> Idle]

Exchange == \E r \in Requests :
    (\E a \in Assertions : Resolve(r, a)) \/ Link(r) \/ Mint(r)

SiteSignIn == \E r \in Requests :
    \/ IssueLooks(r) \/ IssueCode(r)
    \/ \E c \in Codes, right \in BOOLEAN : Present(r, c, right)
    \/ PresentLooks(r) \/ OpenSession(r)

Approve == \E r \in Requests :
    \/ \E m \in Manifests : StoreLocks(r, m)
    \/ StoreCommits(r) \/ WithdrawLocks(r) \/ WithdrawCommits(r)

Relay == \E y \in Relays :
    \/ Receive(y) \/ CollectExpired(y)
    \/ \E r \in Requests : ClaimLooks(r, y)

Claim == \E r \in Requests : ClaimFinds(r) \/ ClaimTakes(r)

Environment ==
    \/ PrimaryEnds \/ RevokeSite
    \/ \E g \in grants : RevokeGrant(g)
    \/ \E c \in Codes : SiteSessionLapses(c)
    \/ \E r \in Requests : RollsBack(r)

Next == Exchange \/ SiteSignIn \/ Approve \/ Relay \/ Claim \/ Environment

Spec == Init /\ [][Next]_vars
-----------------------------------------------------------------------------
(* Two first exchanges of one account converge: one person, to whom every  *)
(* session belongs. An assertion that is presented again, also while its   *)
(* first presentation is under way or was rolled back, never opens a       *)
(* second session (resolve_person, link_external_identity, redeem).        *)
OnePerson == \A a \in Assertions, u \in Users :
    minted[a][u] > 0 => u = person /\ minted[a][u] = 1

(* The authorization code of a callback is answered once, to one caller,   *)
(* and never after the sweep took it (relay::claim, collect_expired).      *)
HandedOnce == \A y \in Relays : handed[y] = IF relays[y] = "claimed" THEN 1 ELSE 0

(* The announcement with the latest instant is the row, so that whoever    *)
(* keeps the newest one has the approval, in whatever order they arrive:   *)
(* the instant is read under the lock of the row (locked, announce). Two   *)
(* first approvals have no row to lock, and are excepted.                  *)
NewestToldIsStored ==
    ~raced => \A t \in told :
        (\A u \in told : u.at <= t.at)
            => approval = [state |-> t.state, manifest |-> t.manifest]

(* A site session that was revoked, or lapsed, does not come back by       *)
(* another presentation of its code (site_sign_in::redeem).                *)
EndedStaysEnded ==
    [][\A c \in Codes : site[c] \in {"revoked", "lapsed"} => site'[c] = site[c]]_vars

(* "The site's owner sessions end with its approval, in the same           *)
(* transaction" (withdraw_stored). Refuted: a sign-in that read the        *)
(* approval before the withdrawal committed opens its session after it.    *)
SessionsEndWithApproval ==
    approval.state = "withdrawn" => \A c \in Codes : site[c] # "open"
=============================================================================

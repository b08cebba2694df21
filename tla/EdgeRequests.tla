-------------------------- MODULE EdgeRequests --------------------------
(***************************************************************************)
(* One request at Edge, from its route to its answer, while the world it   *)
(* asks about changes: the sites dispatcher with its guards, the owner's   *)
(* editing routes, the routes that admit an operation, the typed reads and *)
(* the authenticated proxy (crates/public-api/src/{sites,auth,admin,       *)
(* gateway,site_capabilities,site_sessions,site_edits,site_releases,       *)
(* library,captures,notes_writes,channel_digests,admin_operations}.rs).    *)
(*                                                                         *)
(* No transaction spans a request: each of its reads sees the world of its *)
(* own instant.  The world is the set of facts that hold now; what a       *)
(* database or a service answers is one of the failures, or the truth of   *)
(* that instant.  The last-seen touch of a session is left out: it is      *)
(* best effort and decides nothing here.                                   *)
(***************************************************************************)
EXTENDS Integers, Sequences, FiniteSets

CONSTANTS
    Routes,         \* the kinds of routes (the domain of Stages)
    Credentials,    \* what requests carry, of CookieCredentials and Bearers
    Worlds,         \* the sets of facts a request may find
    Paths,          \* the segments below the prefix, as the names they decode to
    MaxChanges      \* BOUND: changes of the world during the request

(* "holds": the approved manifest has the route's capability; "active":    *)
(* the active manifest has it; "scope": the note is in a publication.      *)
Facts == {"live", "paired", "grant", "approved", "holds", "active", "scope"}

VARIABLES
    route, cred, path,  \* the request
    todo,       \* the stages before it
    granted,    \* the approval row that it read has the capability
    refusal,    \* the failure of an upload, while its session is closed
    answer,     \* what the client got
    sent,       \* it was let through, with these claims: forwarded, admitted, told
    upload,     \* the upload session at notes: none, open, stored, ended
    lost,       \* an answer was lost that Edge needed to close that session
    world,      \* the facts that hold
    changes,    \* how often the world changed
    held,       \* ghost: the facts that held at some instant of the request
    failed      \* ghost: the facts that did not, at some instant

request == <<route, cred, path>>
progress == <<granted, refusal, sent, upload, lost>>
requestGhosts == <<held, failed>>
requestVars == <<request, todo, answer, progress, world, changes, requestGhosts>>

CookieCredentials == {"cookie", "cookie_other"}   \* of this site, of another
DeviceCredentials == {"phone", "deployer", "deployer_other"}
Bearers == {"primary"} \cup DeviceCredentials

(* The routes, as the order in which dispatch, the extractor and the       *)
(* handlers check and do things.                                           *)
Bearer == <<"bearer", "device", "charge">>
Cookie == <<"cookie", "charge">>
Granted == <<"approval", "manifest">>

Content == <<"path", "body", "limit">> \o Granted \o <<"forwardable", "anonymous">>
Draft == <<"path">> \o Cookie \o Granted \o <<"forwardable", "kind", "proxy">>
Library == Cookie \o Granted \o <<"shape", "ask">>
Upload == Cookie \o <<"origin">> \o Granted
             \o <<"scope", "shape", "open", "put", "finalize">>
Edit == Cookie \o <<"origin">> \o Granted \o <<"check", "scope", "admit">>
Conflict == Cookie \o Granted \o <<"read", "scope", "tell">>
PageRelease == Cookie \o <<"origin">> \o Granted \o <<"key", "admit">>
Release == Bearer \o <<"owner", "key", "admit">>
Manage == <<"path">> \o Bearer \o <<"owner", "forwardable", "kind", "proxy">>
Deploy == <<"path">> \o Bearer \o <<"deployer", "body", "forwardable", "kind", "proxy">>
Proxied == Bearer \o <<"forwardable", "kind", "proxy">>
Capture == Bearer \o <<"key", "shape", "admit">>
NotesWrite == Bearer \o <<"no_device", "key", "shape", "admit">>
DigestCommand == Bearer \o <<"shape", "key", "admit">>
DigestRead == Bearer \o <<"shape", "ask">>
LibrarySearch == Bearer \o <<"shape", "ask">>
Inspect == Bearer \o <<"grant", "shape", "tell">>

Stages ==
    [content |-> Content, draft |-> Draft, library |-> Library, upload |-> Upload,
     edit |-> Edit, conflict |-> Conflict, page_release |-> PageRelease,
     release |-> Release, manage |-> Manage, deploy |-> Deploy, notes |-> Proxied,
     notes_device |-> Proxied, capture |-> Capture, notes_write |-> NotesWrite,
     digest_command |-> DigestCommand, digest_read |-> DigestRead,
     library_search |-> LibrarySearch, inspect |-> Inspect]

Domain == {"notes", "notes_device", "capture", "notes_write", "digest_command",
           "digest_read", "library_search", "inspect"}
OfSites == Routes \ Domain
Forwarding == {r \in Routes : \E i \in DOMAIN Stages[r] : Stages[r][i] = "forwardable"}
ByCookie == {r \in Routes : \E i \in DOMAIN Stages[r] : Stages[r][i] = "cookie"}
Plain == <<"site">>

(* gateway/paths.rs, resolved: what is kept of the segments so far, unless *)
(* they left the prefix.                                                   *)
Prefix == [left |-> FALSE, kept |-> <<>>]
ClimbAtRoot(at, segment) ==  \* mutant: what climbs above the prefix stays at it
    CASE segment # ".."                    -> [at EXCEPT !.kept = Append(@, segment)]
      [] segment = ".." /\ at.kept = <<>> -> at
      [] OTHER -> [at EXCEPT !.kept = SubSeq(@, 1, Len(@) - 1)]
Climb(at, segment) ==
    CASE at.left                                      -> at
      [] ~at.left /\ segment # ".."                   -> [at EXCEPT !.kept = Append(@, segment)]
      [] ~at.left /\ segment = ".." /\ at.kept = <<>> -> [at EXCEPT !.left = TRUE]
      [] OTHER -> [at EXCEPT !.kept = SubSeq(@, 1, Len(@) - 1)]
Walk(segments) ==
    LET after[n \in 0..Len(segments)] ==
          IF n = 0 THEN Prefix ELSE Climb(after[n - 1], segments[n])
    IN  after
Resolved(segments) == Walk(segments)[Len(segments)]
FirstKept(segments, name) ==
    LET at == Resolved(segments) IN
    ~at.left /\ at.kept # <<>> /\ at.kept[1] = name

(* The session of a device ends with the pairing, and a capability that is *)
(* approved is one of an approval.                                         *)
ASSUME RequestsAssumption ==
    /\ Routes \subseteq DOMAIN Stages
    /\ Credentials \subseteq CookieCredentials \cup Bearers
    /\ \A w \in Worlds : /\ w \subseteq Facts
                         /\ "live" \in w => "paired" \in w
                         /\ "holds" \in w => "approved" \in w
    /\ Paths \subseteq Seq(STRING)
    /\ MaxChanges \in Nat

(* A site route has the site as its first segment, which is how dispatch   *)
(* came to its row.                                                        *)
PathsOf(r) ==
    CASE r \notin Forwarding            -> {Plain}
      [] r \in Forwarding \cap OfSites  -> {p \in Paths : p # <<>> /\ p[1] = "site"}
      [] OTHER                          -> Paths
CredentialsOf(r) ==
    CASE r = "content"   -> {"none"}
      [] r \in ByCookie  -> {"none"} \cup (Credentials \cap CookieCredentials)
      [] OTHER           -> {"none"} \cup (Credentials \cap Bearers)

RequestInit ==
    /\ route \in Routes /\ cred \in CredentialsOf(route) /\ path \in PathsOf(route)
    /\ todo = Stages[route]
    /\ granted = FALSE /\ refusal = "none" /\ answer = "none"
    /\ sent = {} /\ upload = "none" /\ lost = FALSE
    /\ world \in Worlds
    /\ cred = "none" => "live" \notin world
    /\ changes = 0
    /\ held = world /\ failed = Facts \ world

-----------------------------------------------------------------------------
(* The world                                                               *)

Becomes(facts) ==
    /\ changes < MaxChanges /\ answer = "none" /\ facts # world
    /\ world' = facts
    /\ changes' = changes + 1
    /\ held' = held \cup facts
    /\ failed' = failed \cup (Facts \ facts)
    /\ UNCHANGED <<request, todo, answer, progress>>

(* A logout, an expiry, the idle time of a site owner session.             *)
EndSession == Becomes(world \ {"live"})

(* devices.rs: a revocation ends the sessions of the device with it.       *)
RevokeDevice == cred \in DeviceCredentials /\ Becomes(world \ {"paired", "live"})

Toggle(fact) == IF fact \in world THEN world \ {fact} ELSE world \cup {fact}
ChangeGrant == Becomes(Toggle("grant"))

(* site_approvals.rs: a withdrawal ends the site owner sessions with it.   *)
Withdraw ==
    Becomes(world \ ({"approved", "holds"}
                     \cup (IF cred \in CookieCredentials THEN {"live"} ELSE {})))
Approve == \E holds \in SUBSET {"holds"} :
              Becomes((world \ {"holds"}) \cup {"approved"} \cup holds)

(* A deploy changes the active manifest, a publication the notes in scope. *)
Activate == Becomes(Toggle("active"))
Publish == Becomes(Toggle("scope"))

World ==
    \/ EndSession \/ RevokeDevice \/ ChangeGrant
    \/ Withdraw \/ Approve \/ Activate \/ Publish

-----------------------------------------------------------------------------
(* Answers                                                                 *)

At(stage) == todo # <<>> /\ todo[1] = stage
Pass == todo' = Tail(todo) /\ UNCHANGED answer
Refuse(a) == todo' = <<>> /\ answer' = a
KeepWorld == UNCHANGED <<request, world, changes, requestGhosts>>
Still == KeepWorld /\ UNCHANGED progress

(* A check that a read of the world decides, or that could not read it.    *)
Check(stage, passes, otherwise, unread) ==
    /\ At(stage) /\ Still
    /\ \/ passes /\ Pass
       \/ ~passes /\ Refuse(otherwise)
       \/ Refuse(unread)

(* fetch_json: the answer of a typed client, but for the one it asked for. *)
FetchFailures == {"upstream_unavailable", "upstream_timeout", "upstream_invalid"}

(* response_from_upstream, and the failures of a forward.                  *)
UpstreamAnswers ==
    {"ok", "not_modified", "redirect", "challenge", "envelope", "unreadable",
     "unreachable", "late", "too_large"}
FailureOf(a) ==
    CASE a = "unreachable" -> "upstream_unavailable"
      [] a = "late"        -> "upstream_timeout"
      [] a = "too_large"   -> "too_large"
      [] OTHER             -> "upstream_invalid"
RelayedAsIs(a) ==  \* mutant: an authentication challenge is relayed
    CASE a \in {"ok", "not_modified", "envelope"} -> a
      [] a = "challenge"                          -> "unauthenticated"
      [] OTHER                                    -> FailureOf(a)
Relayed(a) == IF a \in {"ok", "not_modified", "envelope"} THEN a ELSE FailureOf(a)

-----------------------------------------------------------------------------
(* The checks of a request                                                 *)

(* dispatch: the path, resolved, still names the site that was routed.     *)
NamesSite ==
    /\ At("path") /\ Still
    /\ IF FirstKept(path, "site") THEN Pass ELSE Refuse("route_not_found")

(* A body that no content or activation takes, or not the deploy protocol. *)
Body == At("body") /\ Still /\ (Pass \/ Refuse("invalid"))

(* A query or a body that is not the route's.                              *)
Shape == At("shape") /\ Still /\ (Pass \/ Refuse("invalid"))

(* check: the edit body, whose content must be the blob it names.          *)
CheckEdit == At("check") /\ Still /\ (Pass \/ Refuse("invalid"))

(* The idempotency key of a mutation; admissible: not from a device.       *)
Key == At("key") /\ Still /\ (Pass \/ Refuse("missing_key"))
Admissible ==
    /\ At("no_device") /\ Still
    /\ IF cred \in DeviceCredentials THEN Refuse("forbidden") ELSE Pass

(* public_limit; the allowance of the actor, once there is one.            *)
Limit == (At("limit") \/ At("charge")) /\ Still /\ (Pass \/ Refuse("rate_limited"))

(* from_request_parts; site_owner.  A release without a live cookie comes  *)
(* to the guard of the bearer, and has none.                               *)
Authenticate ==
    \/ Check("bearer", cred # "none" /\ "live" \in world,
             "unauthenticated", "request_timeout")
    \/ Check("cookie", cred = "cookie" /\ "live" \in world,
             "unauthenticated", "request_timeout")

(* deployer_site: a deployer device is a principal on a deploy route only. *)
(* A device with no row is none of the paired ones; no statement of src/   *)
(* deletes a row, so only a hand in the database takes this branch.        *)
DeployerSite ==
    \/ /\ cred \in DeviceCredentials
       /\ Check("device", cred = "phone" \/ (route = "deploy" /\ "paired" \in world),
                "forbidden", "request_timeout")
    \/ /\ At("device") /\ Still /\ cred \in DeviceCredentials
       /\ "paired" \notin world /\ Refuse("unauthenticated")
    \/ cred \notin DeviceCredentials /\ At("device") /\ Pass /\ Still

(* site_owner, an unsafe method: the mark and the origin of the approved   *)
(* hostname, or the refusal of a request that has another.                 *)
Origin ==
    \/ Check("origin", "approved" \in world, "forbidden", "request_timeout")
    \/ At("origin") /\ Still /\ Refuse("forbidden")

(* require_owner, of a session of any kind.                                *)
RequireOwner == Check("grant", "grant" \in world, "forbidden", "request_timeout")

(* owner: a primary session, and then the same.                            *)
Owner ==
    \/ /\ cred \notin DeviceCredentials
       /\ Check("owner", "grant" \in world, "forbidden", "request_timeout")
    \/ At("owner") /\ Still /\ cred \in DeviceCredentials /\ Refuse("forbidden")

(* deployer: the owner, or the deployer device of this site.               *)
Deployer ==
    \/ /\ cred \notin DeviceCredentials
       /\ Check("deployer", "grant" \in world, "forbidden", "request_timeout")
    \/ /\ At("deployer") /\ Still /\ cred \in DeviceCredentials
       /\ CASE cred = "deployer"       -> Pass
            [] cred = "deployer_other" -> Refuse("not_granted")
            [] cred = "phone"          -> Refuse("forbidden")

(* effective_set, the stored half: the approved capabilities.  A site that *)
(* is not approved is unknown to the public, and has no owner sessions.    *)
Approval ==
    /\ At("approval") /\ KeepWorld
    /\ granted' = ("holds" \in world)
    /\ UNCHANGED <<refusal, sent, upload, lost>>
    /\ \/ "approved" \in world /\ Pass
       \/ /\ "approved" \notin world
          /\ Refuse(IF route = "content" THEN "site_not_found" ELSE "unauthenticated")
       \/ Refuse("upstream_unavailable")

(* effective_set, the other half: those that the active manifest has too.  *)
ActiveOnly == "active" \in world  \* mutant: the approved half is not asked
InEffect == granted /\ "active" \in world
Manifest ==
    Check("manifest", InEffect,
          IF route = "content" THEN "site_not_found" ELSE "not_granted",
          "upstream_unavailable")

(* scope_of, and the scope question of a conflict.                         *)
Scope ==
    \/ Check("scope", "scope" \in world, "not_found", "upstream_invalid")
    \/ \E f \in FetchFailures : At("scope") /\ Still /\ Refuse(f)

(* proxy: the path, and then the device of the session as it is now; notes *)
(* takes devices on their routes, and nobody else there.                   *)
Forwardable ==
    /\ At("forwardable") /\ Still
    /\ IF Resolved(path).left \/ FirstKept(path, "internal")
       THEN Refuse("route_not_found") ELSE Pass
RefusesDevice ==
    \/ route = "notes" /\ cred \in DeviceCredentials
    \/ route = "notes_device" /\ cred \notin DeviceCredentials
Kind ==
    LET after == IF RefusesDevice THEN Refuse("forbidden") ELSE Pass IN
    /\ At("kind") /\ Still
    /\ \/ (cred \in DeviceCredentials => "paired" \in world) /\ after
       \/ cred \in DeviceCredentials /\ "paired" \notin world /\ Refuse("unauthenticated")
       \/ cred \in DeviceCredentials /\ Refuse("request_timeout")

Checks ==
    \/ NamesSite \/ Body \/ Shape \/ CheckEdit \/ Key \/ Admissible \/ Limit
    \/ Authenticate \/ DeployerSite \/ Origin \/ RequireOwner \/ Owner \/ Deployer
    \/ Approval \/ Manifest \/ Scope \/ Forwardable \/ Kind

-----------------------------------------------------------------------------
(* What it was let through to                                              *)

(* forwarded_headers and anonymous_headers: the claims Edge mints, after   *)
(* every reserved header of the client was removed.                        *)
Claims ==
    IF route = "content" THEN {"anonymous"}
    ELSE {"user"} \cup (IF cred \in DeviceCredentials THEN {"device"} ELSE {})
                 \cup (IF cred = "deployer" THEN {"site"} ELSE {})

(* proxy and forward_anonymous, which has no body that could be too large. *)
Forward ==
    /\ At("proxy") \/ At("anonymous")
    /\ \E a \in UpstreamAnswers :
         /\ At("anonymous") => a # "too_large"
         /\ Refuse(Relayed(a))
    /\ sent' = Claims
    /\ KeepWorld /\ UNCHANGED <<granted, refusal, upload, lost>>

(* A typed question whose answer is the answer: Knowledge, the digests.    *)
Ask ==
    /\ At("ask") /\ sent' = Claims
    /\ \E a \in {"ok"} \cup FetchFailures : Refuse(a)
    /\ KeepWorld /\ UNCHANGED <<granted, refusal, upload, lost>>

(* read_conflict asks notes, then for the scope, and only then answers;    *)
(* an inspection reads the database, and answers.                          *)
ReadConflict ==
    /\ At("read") /\ Still
    /\ \/ Pass
       \/ \E a \in {"not_found"} \cup FetchFailures : Refuse(a)
Tell ==
    /\ At("tell")
    /\ \/ sent' = Claims /\ Refuse("ok")
       \/ route = "inspect" /\ UNCHANGED sent
          /\ \E a \in {"not_found", "request_timeout"} : Refuse(a)
    /\ KeepWorld /\ UNCHANGED <<granted, refusal, upload, lost>>

(* admit: the intake transaction, or its refusal.                          *)
Admit ==
    /\ At("admit")
    /\ \/ sent' = Claims /\ Refuse("ok")
       \/ UNCHANGED sent /\ \E a \in {"conflict", "request_timeout"} : Refuse(a)
    /\ KeepWorld /\ UNCHANGED <<granted, refusal, upload, lost>>

(* The upload session of notes: opened, or refused, or opened with an      *)
(* answer from which Edge has no token.                                    *)
OpenUpload ==
    /\ At("open") /\ sent' = Claims
    /\ \/ upload' = "open" /\ UNCHANGED lost /\ Pass
       \/ UNCHANGED <<upload, lost>>
          /\ \E a \in {"not_found"} \cup FetchFailures : Refuse(a)
       \/ upload' = "open" /\ lost' = TRUE
          /\ \E a \in FetchFailures : Refuse(a)
    /\ KeepWorld /\ UNCHANGED <<granted, refusal>>

(* A failed chunk or finalize closes the session before it is answered.    *)
AnswerFirst(a) == Refuse(a) /\ UNCHANGED refusal  \* mutant: it is not closed
CloseFirst(a) == todo' = <<"close">> /\ refusal' = a /\ UNCHANGED answer

PutChunk ==
    /\ At("put")
    /\ \/ Pass /\ UNCHANGED refusal
       \/ \E a \in {"not_found"} \cup FetchFailures : CloseFirst(a)
    /\ KeepWorld /\ UNCHANGED <<granted, sent, upload, lost>>

(* Stored; ended without being stored; or a failure, after either of them  *)
(* or before.                                                              *)
Finalize ==
    /\ At("finalize")
    /\ \/ upload' = "stored" /\ UNCHANGED refusal
          /\ \E a \in {"ok", "upstream_invalid"} : Refuse(a)
       \/ upload' = "ended" /\ UNCHANGED refusal /\ Refuse("upstream_invalid")
       \/ /\ upload' \in {"open", "stored", "ended"}
          /\ \E a \in {"not_found"} \cup FetchFailures : CloseFirst(a)
    /\ KeepWorld /\ UNCHANGED <<granted, sent, lost>>

(* close_session: the session ends, or had; or nobody knows.               *)
CloseSession ==
    /\ At("close")
    /\ \/ upload' = (IF upload = "open" THEN "ended" ELSE upload) /\ UNCHANGED lost
       \/ lost' = TRUE /\ UNCHANGED upload
    /\ Refuse(refusal)
    /\ KeepWorld /\ UNCHANGED <<granted, refusal, sent>>

(* The handler is dropped where it is, with nothing done after it: by a    *)
(* client that is gone, and by the TimeoutLayer of the public router, which *)
(* answers 504 in its place.                                               *)
Dropped == {"gone", "cut_off"}
ClientLeaves == todo # <<>> /\ Still /\ Refuse("gone")
TimesOut == todo # <<>> /\ Still /\ Refuse("cut_off")

Effects ==
    \/ Forward \/ Ask \/ ReadConflict \/ Tell \/ Admit
    \/ OpenUpload \/ PutChunk \/ Finalize \/ CloseSession

RequestNext == World \/ Checks \/ Effects \/ ClientLeaves \/ TimesOut

RequestSpec == RequestInit /\ [][RequestNext]_requestVars

-----------------------------------------------------------------------------
RequestTypeOK ==
    /\ route \in Routes /\ cred \in CredentialsOf(route) /\ path \in PathsOf(route)
    /\ \A i \in DOMAIN todo : todo[i] = "close" \/ \E j \in DOMAIN Stages[route] :
                                                   todo[i] = Stages[route][j]
    /\ granted \in BOOLEAN /\ lost \in BOOLEAN /\ sent \in {{}, Claims}
    /\ upload \in {"none", "open", "stored", "ended"}
    /\ world \subseteq held /\ Facts \ world \subseteq failed
    /\ changes \in 0..MaxChanges
    /\ (answer = "none") <=> (todo # <<>>)

(* What a request must have been, at some instant of it each, before it    *)
(* was let through.                                                        *)
Authority ==
    {f \in Facts :
        \/ f = "live" /\ route # "content"
        \/ f = "paired" /\ cred \in DeviceCredentials
        \/ f = "grant" /\ route = "inspect"
        \/ /\ f = "grant" /\ cred \notin DeviceCredentials
           /\ route \in {"release", "manage", "deploy"}
        \/ /\ f \in {"approved", "holds", "active"}
           /\ route \in ByCookie \cup {"content"}
        \/ f = "scope" /\ route \in {"upload", "edit", "conflict"}}
CredentialFits ==
    /\ route \in ByCookie => cred = "cookie"
    /\ route = "deploy" => cred \in {"primary", "deployer"}
    /\ route \in {"manage", "release", "notes", "notes_write"} => cred = "primary"
    /\ route = "notes_device" => cred = "phone"
    /\ route \in Domain => cred \in {"primary", "phone"}

(* Nothing is forwarded, admitted or told for a credential that was dead,  *)
(* revoked, without the grant, of another site, or for a capability or a   *)
(* note that was not the site's, all through the request: no order of the  *)
(* reads lets what failed before the request through (sites.rs, dispatch   *)
(* to owner_route; auth.rs; site_capabilities.rs, effective_set).          *)
AuthorityWasThere == sent # {} => CredentialFits /\ Authority \subseteq held

(* A client is told that its credential is no good only if it was not at   *)
(* some instant of the request, or its site had no approval: a database    *)
(* or a service that fails, and a challenge of a service, never read so    *)
(* (auth.rs, from_request_parts; gateway.rs, response_from_upstream: "the  *)
(* export agent removes its pairing on exactly that").                     *)
UnauthenticatedMeansDead ==
    answer = "unauthenticated" =>
        \/ cred \in {"none", "cookie_other"}
        \/ "live" \in failed
        \/ cred \in DeviceCredentials /\ "paired" \in failed
        \/ cred = "cookie" /\ "approved" \in failed

(* An upload whose handler came to its end leaves no session open at notes, *)
(* unless the answer that Edge needed was lost; and whoever is told stored *)
(* has what was stored, whatever dropped, failed or was lost before        *)
(* (site_edits.rs, upload_content and close_session, review L9).           *)
UploadsSettle ==
    /\ answer # "none" /\ upload = "open" => lost \/ answer \in Dropped
    /\ answer = "ok" /\ route = "upload" => upload = "stored"

(* site_edits.rs:247-249 "Close the notes upload session ... after a failed *)
(* step (review L9), so that it does not hold one of the connection's      *)
(* sessions until it expires", read of every upload that the client has an *)
(* answer to.  The 504 of the TimeoutLayer (http/src/observe.rs:77-80) is  *)
(* an answer that closes nothing (README, section 6).                      *)
AnsweredUploadsSettle ==
    answer \notin {"none", "gone"} /\ upload = "open" => lost

(* Where a path leads, said without a stack: the depth after each segment, *)
(* and the first segment that no later one climbs out of.                  *)
Depth(p, n) ==
    Cardinality({i \in 1..n : p[i] # ".."}) - Cardinality({i \in 1..n : p[i] = ".."})
LeadsOut(p) == \E n \in 1..Len(p) : Depth(p, n) < 0
LeadsTo(p, name) ==
    \E i \in 1..Len(p) :
        /\ p[i] = name /\ Depth(p, i) = 1
        /\ \A j \in i..Len(p) : Depth(p, j) >= 1

(* A path that reached a service leads, for a server that resolves it, to  *)
(* the site that was checked, and never out of the prefix or to the        *)
(* internal routes (gateway/paths.rs, names_site and forwardable).         *)
PathStaysOnItsSite ==
    sent # {} /\ route \in Forwarding =>
        /\ ~LeadsOut(path) /\ ~LeadsTo(path, "internal")
        /\ route \in OfSites => LeadsTo(path, "site")

=============================================================================

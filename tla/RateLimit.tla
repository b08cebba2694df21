--------------------------- MODULE RateLimit ---------------------------
(***************************************************************************)
(* The request allowances: ActorLimiter, the token buckets of the actors,  *)
(* clients and sites, and PublicLimits, which takes a token of a client    *)
(* and then of a site (crates/http/src/limit.rs,                           *)
(* crates/public-api/src/{auth,sites}.rs).                                 *)
(*                                                                         *)
(* A request reads the clock once and then passes its limiters one after   *)
(* the other, each under its own mutex, so the decisions of two requests   *)
(* may come in another order than their times.  Time is counted in ticks,  *)
(* tokens in units: a tick is a part of a second, and one tick refills a   *)
(* bucket of PerMinute by PerMinute units.  A poisoned mutex is left out:  *)
(* nothing panics while it holds one.                                      *)
(***************************************************************************)
EXTENDS Integers, Sequences, FiniteSets

CONSTANTS
    Callers,        \* what is in the middle of a request
    Limiters,       \* the limiters a request passes, 1 .. n
    Keys,           \* the actors, clients and sites
    KeyOf,          \* the key that a request has in each limiter
    PerMinute,      \* the allowance, and the burst, of each limiter
    Second,         \* the ticks of a second
    Minute,         \* the seconds of a minute (60)
    MaxTracked,     \* MAX_TRACKED_ACTORS
    MaxTime         \* BOUND: ticks

VARIABLES
    now,        \* the clock
    buckets,    \* each limiter: the buckets of the keys it tracks
    req,        \* each request: its time, and the limiter it comes to next
    verdict,    \* the last decision
    ideal,      \* ghost: buckets that refill with every tick
    spent,      \* ghost: the units each key has taken from each limiter
    counted,    \* ghost: up to when a bucket was refilled
    back        \* ghost: by how much late decisions turned that time back

limitVars == <<now, buckets, req, verdict, ideal, spent, counted, back>>

Token == Minute * Second
Burst(l) == PerMinute[l] * Token
Tracked(l) == DOMAIN buckets[l]
Smaller(x, y) == IF x < y THEN x ELSE y

(* refill: whole seconds only, and nothing for a time that went back.      *)
Whole(ticks) == IF ticks > 0 THEN ticks - (ticks % Second) ELSE 0
Refilled(l, b, t) == Smaller(Burst(l), b.tokens + Whole(t - b.at) * PerMinute[l])

Nobody == [at |-> 0, next |-> 0]

LimitsInit ==
    /\ now = 0
    /\ buckets = [l \in Limiters |-> [k \in {} |-> Nobody]]
    /\ req = [r \in Callers |-> Nobody]
    /\ verdict = [limiter |-> 0, key |-> 0, at |-> 0, outcome |-> "none"]
    /\ ideal = [l \in Limiters |-> [k \in Keys |-> Burst(l)]]
    /\ spent = [l \in Limiters |-> [k \in Keys |-> 0]]
    /\ counted = [l \in Limiters |-> [k \in Keys |-> 0]]
    /\ back = [l \in Limiters |-> [k \in Keys |-> 0]]

Tick ==
    /\ now < MaxTime
    /\ now' = now + 1
    /\ ideal' = [l \in Limiters |-> [k \in Keys |->
                    Smaller(Burst(l), ideal[l][k] + PerMinute[l])]]
    /\ UNCHANGED <<buckets, req, verdict, spent, counted, back>>

(* A request reads the clock, before any mutex.                            *)
Stamp(r) ==
    /\ req[r].next = 0
    /\ req' = [req EXCEPT ![r] = [at |-> now, next |-> 1]]
    /\ UNCHANGED <<now, buckets, verdict, ideal, spent, counted, back>>

(* A full table gives up the buckets that have refilled.                   *)
Refilling(l, t) == {k \in Tracked(l) : Refilled(l, buckets[l][k], t) < Burst(l)}
Kept(l, k, t) ==
    IF k \notin Tracked(l) /\ Cardinality(Tracked(l)) >= MaxTracked
    THEN Refilling(l, t)
    ELSE Tracked(l)

(* The time a key is counted to, after a decision at t that refilled those *)
(* it gave up and the ones in `charged`, and how far it turned k back.     *)
CountedTo(l, kept, charged, t) ==
    [x \in Keys |-> IF x \in charged \cup (Tracked(l) \ kept) THEN t ELSE counted[l][x]]
TurnedBack(l, k, t) ==
    [back[l] EXCEPT ![k] = @ + (IF counted[l][k] > t THEN counted[l][k] - t ELSE 0)]

Decided(r, l, outcome) ==
    /\ verdict' = [limiter |-> l, key |-> KeyOf[r][l], at |-> req[r].at,
                    outcome |-> outcome]
    /\ req' = [req EXCEPT ![r] =
                 IF outcome = "admitted" /\ l + 1 \in Limiters
                 THEN [@ EXCEPT !.next = l + 1] ELSE Nobody]

(* decide: no room for a new key.                                          *)
Full(r) ==
    LET l == req[r].next  k == KeyOf[r][l]  t == req[r].at
        kept == Kept(l, k, t)
    IN
    /\ l # 0
    /\ k \notin kept /\ Cardinality(kept) >= MaxTracked
    /\ buckets' = [buckets EXCEPT ![l] = [x \in kept |-> @[x]]]
    /\ counted' = [counted EXCEPT ![l] = CountedTo(l, kept, {}, t)]
    /\ Decided(r, l, "full")
    /\ UNCHANGED <<now, ideal, spent, back>>

(* decide: the bucket of the key, a full one for a new key, gives a token  *)
(* or has none.                                                            *)
Decide(r) ==
    LET l == req[r].next  k == KeyOf[r][l]  t == req[r].at
        kept == Kept(l, k, t)
        tokens == IF k \in kept THEN Refilled(l, buckets[l][k], t) ELSE Burst(l)
        price == IF tokens >= Token THEN Token ELSE 0
    IN
    /\ l # 0
    /\ k \in kept \/ Cardinality(kept) < MaxTracked
    /\ buckets' = [buckets EXCEPT ![l] =
                     [x \in kept \cup {k} |->
                        IF x = k THEN [tokens |-> tokens - price, at |-> t] ELSE @[x]]]
    /\ spent' = [spent EXCEPT ![l][k] = @ + price]
    /\ ideal' = [ideal EXCEPT ![l][k] = IF @ > price THEN @ - price ELSE 0]
    /\ counted' = [counted EXCEPT ![l] = CountedTo(l, kept, {k}, t)]
    /\ back' = [back EXCEPT ![l] = TurnedBack(l, k, t)]
    /\ Decided(r, l, IF price = Token THEN "admitted" ELSE "empty")
    /\ UNCHANGED now

LimitsNext == Tick \/ \E r \in Callers : Stamp(r) \/ Decide(r) \/ Full(r)

LimitsSpec == LimitsInit /\ [][LimitsNext]_limitVars

-----------------------------------------------------------------------------
LimitsTypeOK ==
    /\ now \in Nat
    /\ \A l \in Limiters :
         /\ Tracked(l) \subseteq Keys
         /\ \A k \in Tracked(l) : buckets[l][k] \in [tokens : 0..Burst(l), at : 0..now]
    /\ req \in [Callers -> [at : 0..now, next : Limiters \cup {0}]]
    /\ {spent, counted, back} \subseteq [Limiters -> [Keys -> Nat]]

(* What is configured: an allowance is one request a minute at the least   *)
(* (limit.rs, ActorLimiter::new).                                          *)
LimitsFit ==
    /\ Limiters \subseteq Nat \ {0} /\ 1 \in Limiters
    /\ KeyOf \in [Callers -> [Limiters -> Keys]]
    /\ PerMinute \in [Limiters -> Nat \ {0}]
    /\ Second \in Nat \ {0} /\ Minute \in Nat \ {0}

(* What a key took from a limiter is never more than the burst, the refill *)
(* of the time that passed, and one refill more of the time that late      *)
(* decisions turned its bucket back: a bucket that is given up and made    *)
(* again full gives nothing for nothing (limit.rs, decide and its retain). *)
AllowanceIsKept ==
    \A l \in Limiters, k \in Keys :
        spent[l][k] <= Burst(l) + PerMinute[l] * (now + back[l][k])

(* "Tokens remaining, fractional so a refill is continuous rather than     *)
(* stepped" (limit.rs:51): a request that is decided at once is refused    *)
(* only when a bucket that refills with every moment has no token either.  *)
RefillIsContinuous ==
    [][verdict' # verdict /\ verdict'.outcome = "empty" /\ verdict'.at = now
         => ideal[verdict'.limiter][verdict'.key] < Token]_limitVars

=============================================================================

----------------------------- MODULE RateLimiter -----------------------------
(***************************************************************************)
(* The sliding-window rate limiter (pkg/security/rate_limiter.go) that     *)
(* every authentication handler calls first (applyRateLimit in             *)
(* internal/handler/auth_handler.go).                                      *)
(*                                                                         *)
(* One check makes four Redis calls on the sorted set of its key, with the *)
(* checks of other requests interleaved between any two of them.  The      *)
(* clock counts seconds, as CheckRateLimit does (time.Now().Unix()).       *)
(***************************************************************************)
EXTENDS Integers, FiniteSets

CONSTANTS
    Req,       \* the requests of a behaviour
    Key,       \* client address and path
    Limits,    \* RateLimiterConfig.Limit, one of these
    Interval,  \* RateLimiterConfig.Interval, in seconds
    Grace,     \* what a key outlives its interval by, one minute
    MaxDelay,  \* the longest a check may take, in seconds
    MaxTime,   \* bound on the clock
    MaxFaults  \* bound on the failing Redis calls and the ends of the process

\* NewRateLimiter replaces a limit or an interval that is not positive by
\* its default.
ASSUME ConfigAssumption ==
    /\ Limits \subseteq Nat \ {0}
    /\ Interval \in Nat \ {0}
    /\ Grace \in Nat

\* A check takes a few seconds at most: every Redis call times out.
ASSUME DelayAssumption == MaxDelay \in Nat /\ MaxDelay < Interval

ASSUME BoundAssumption ==
    /\ IsFiniteSet(Req)
    /\ MaxTime \in Nat
    /\ MaxFaults \in Nat

VARIABLES
    limit,     \* the limit of this limiter
    now,       \* the clock, in seconds
    zset,      \* the sorted set stored under a key
    expireAt,  \* the second its time to live ends in, NoTTL when it has none
    pc,        \* the next Redis call of a request
    key,       \* the key of a request
    stamp,     \* the second in which its check began
    verdict,   \* what CheckRateLimit returned
    faults,    \* failing Redis calls and ends of the process so far
    cut        \* history: the checks that sent ZADD, but whose EXPIRE was not
               \* reached or had no effect

vars == <<limit, now, zset, expireAt, pc, key, stamp, verdict, faults, cut>>

NoTTL == 0

Steps == {"trim", "card", "add", "expire"}

\* An entry of a sorted set.  A member occurs once, with one score.
Entry == [member : Nat, score : Nat]

Init ==
    /\ limit \in Limits
    /\ now = Interval      \* far from 0: the clock is Unix time
    /\ zset = [k \in Key |-> {}]
    /\ expireAt = [k \in Key |-> NoTTL]
    /\ pc = [r \in Req |-> "idle"]
    /\ key \in [Req -> Key]
    /\ stamp = [r \in Req |-> 0]
    /\ verdict = [r \in Req |-> "none"]
    /\ faults = 0
    /\ cut = {}

-----------------------------------------------------------------------------

InFlight(r) == pc[r] \in Steps

At(r, step) == pc[r] = step

Goto(r, step) == pc' = [pc EXCEPT ![r] = step] /\ UNCHANGED verdict

Decide(r, v) ==
    /\ pc' = [pc EXCEPT ![r] = "done"]
    /\ verdict' = [verdict EXCEPT ![r] = v]

Fault == faults < MaxFaults /\ faults' = faults + 1

NoFault == UNCHANGED faults

\* The key and the second are computed once, before the first call.
Arrive(r) ==
    /\ At(r, "idle")
    /\ stamp' = [stamp EXCEPT ![r] = now]
    /\ Goto(r, "trim")
    /\ UNCHANGED <<limit, now, zset, expireAt, key, faults, cut>>

FreshShort(r, e) == e.score + Interval > stamp[r] + 1

\* What ZREMRANGEBYSCORE 0 (now - interval) leaves.
Fresh(r, e) == e.score + Interval > stamp[r]

\* Redis deletes a key, and its time to live, with its last entry.
StoreTrimmed(r) ==
    LET k    == key[r]
        kept == {e \in zset[k] : Fresh(r, e)}
    IN  /\ zset' = [zset EXCEPT ![k] = kept]
        /\ expireAt' = IF kept = {} THEN [expireAt EXCEPT ![k] = NoTTL]
                                    ELSE expireAt

Trim(r) ==
    /\ At(r, "trim")
    /\ \/ StoreTrimmed(r) /\ Goto(r, "card") /\ NoFault
       \/ /\ Fault         \* the request is allowed when Redis fails
          /\ StoreTrimmed(r) \/ UNCHANGED <<zset, expireAt>>
          /\ Decide(r, "allowed")
    /\ UNCHANGED <<limit, now, key, stamp, cut>>

ExceededEarly(n) == n + 1 >= limit

Exceeded(n) == n >= limit

Card(r) ==
    /\ At(r, "card")
    /\ LET n == Cardinality(zset[key[r]])
       IN  \/ /\ NoFault
              /\ IF Exceeded(n) THEN Decide(r, "rejected") ELSE Goto(r, "add")
           \/ Fault /\ Decide(r, "allowed")
    /\ UNCHANGED <<limit, now, zset, expireAt, key, stamp, cut>>

EntryUnique(r) == [member |-> r, score |-> stamp[r]]

\* Score and member are both the second the check began in.
EntryOf(r) == [member |-> stamp[r], score |-> stamp[r]]

StoreAdded(r) ==
    LET e == EntryOf(r)
    IN  zset' = [zset EXCEPT ![key[r]] =
                   {x \in @ : x.member # e.member} \cup {e}]

\* An error of ZADD is only logged.
Add(r) ==
    /\ At(r, "add")
    /\ \/ StoreAdded(r) /\ NoFault
       \/ Fault /\ (StoreAdded(r) \/ UNCHANGED zset)
    /\ Goto(r, "expire")
    /\ UNCHANGED <<limit, now, expireAt, key, stamp, cut>>

TTLShort == Grace

\* The time to live that Expire sets.
TTL == Interval + Grace

\* EXPIRE does nothing to a key that does not exist.
StoreTTL(r) ==
    LET k == key[r]
    IN  expireAt' = IF zset[k] = {} THEN expireAt
                    ELSE [expireAt EXCEPT ![k] = now + TTL]

ExpireWhenNew(r) ==
    /\ At(r, "expire")
    /\ \/ /\ IF Cardinality(zset[key[r]]) = 1 THEN StoreTTL(r) ELSE UNCHANGED expireAt
          /\ UNCHANGED cut /\ NoFault
       \/ /\ Fault /\ UNCHANGED expireAt
          /\ cut' = cut \cup {r}
    /\ Decide(r, "allowed")
    /\ UNCHANGED <<limit, now, zset, key, stamp>>

\* An error of EXPIRE is only logged.
Expire(r) ==
    /\ At(r, "expire")
    /\ \/ StoreTTL(r) /\ UNCHANGED cut /\ NoFault
       \/ StoreTTL(r) /\ UNCHANGED cut /\ Fault
       \/ UNCHANGED expireAt /\ cut' = cut \cup {r} /\ Fault
    /\ Decide(r, "allowed")
    /\ UNCHANGED <<limit, now, zset, key, stamp>>

\* Redis drops a key in the second its time to live ends.
KeyExpires(k) ==
    /\ expireAt[k] # NoTTL /\ now >= expireAt[k]
    /\ zset' = [zset EXCEPT ![k] = {}]
    /\ expireAt' = [expireAt EXCEPT ![k] = NoTTL]
    /\ UNCHANGED <<limit, now, pc, key, stamp, verdict, faults, cut>>

\* No check takes more than MaxDelay seconds, and no key outlives its time.
Tick ==
    /\ now < MaxTime
    /\ \A r \in Req : InFlight(r) => now < stamp[r] + MaxDelay
    /\ \A k \in Key : expireAt[k] # NoTTL => now < expireAt[k]
    /\ now' = now + 1
    /\ UNCHANGED <<limit, zset, expireAt, pc, key, stamp, verdict, faults,
                   cut>>

\* The process ends: the checks under way end between two calls, while Redis
\* keeps what they have sent.
Crash ==
    /\ \E r \in Req : InFlight(r)
    /\ pc' = [r \in Req |-> IF InFlight(r) THEN "done" ELSE pc[r]]
    /\ verdict' = [r \in Req |-> IF InFlight(r) THEN "aborted" ELSE verdict[r]]
    /\ cut' = cut \cup {r \in Req : At(r, "expire")}
    /\ Fault
    /\ UNCHANGED <<limit, now, zset, expireAt, key, stamp>>

\* Every check is over and the bounded clock has run out.
Finished ==
    /\ now = MaxTime
    /\ \A r \in Req : At(r, "done")
    /\ UNCHANGED vars

Check(r) == Trim(r) \/ Card(r) \/ Add(r) \/ Expire(r)

Next ==
    \/ \E r \in Req : Arrive(r) \/ Check(r)
    \/ \E k \in Key : KeyExpires(k)
    \/ Tick
    \/ Crash
    \/ Finished

Spec == Init /\ [][Next]_vars

-----------------------------------------------------------------------------
(* Properties.                                                             *)

\* Every variable has its type.
TypeOK ==
    /\ limit \in Limits
    /\ now \in Nat
    /\ zset \in [Key -> SUBSET Entry]
    /\ expireAt \in [Key -> Nat]
    /\ pc \in [Req -> Steps \cup {"idle", "done"}]
    /\ key \in [Req -> Key]
    /\ stamp \in [Req -> Nat]
    /\ verdict \in [Req -> {"none", "allowed", "rejected", "aborted"}]
    /\ faults \in 0..MaxFaults
    /\ cut \subseteq Req

\* The other requests to a request's key that began in its window or later.
Rivals(r) == {q \in Req \ {r} : /\ key[q] = key[r] /\ pc[q] # "idle"
                                /\ stamp[q] + Interval > stamp[r]}

\* Nobody is turned away by a quiet key: behind a rejection there are limit
\* other requests to the same key, all of the last Interval + MaxDelay
\* seconds, however the checks interleave and whatever calls failed.
RejectedOnlyWhenBusy ==
    \A r \in Req : verdict[r] = "rejected" => Cardinality(Rivals(r)) >= limit

\* The entries of one second collapse into one member, so a window cannot
\* hold more than one entry per second: a limit above the length of the
\* window, 100 a minute in NewAuthHandler, turns nobody away.
NeverRejects ==
    Interval + MaxDelay < limit => \A r \in Req : verdict[r] # "rejected"

\* The check r has put the entry e into the set of k, and has not given the key
\* its time to live: its EXPIRE is yet to come, or is never coming.
Unsettled(k, e) ==
    \E r \in Req : /\ key[r] = k /\ stamp[r] = e.score
                   /\ At(r, "expire") \/ r \in cut

\* A key without a time to live has nothing but entries of checks that were
\* cut off before they set one, by a failing EXPIRE or by the end of the
\* process, or still have to: one check that comes to its end is enough to
\* free Redis of the key, whichever check made it and however many were cut
\* off before.
KeysExpire ==
    \A k \in Key : expireAt[k] = NoTTL => \A e \in zset[k] : Unsettled(k, e)

\* Whatever calls fail and whenever the process ends, an entry leaves its set
\* only when its interval is over, unless its check was cut off or is still
\* to renew the time to live for it: neither a trim by a slower or faster
\* request nor the expiry of the key drops a request that still counts.
WindowKept ==
    [][\A k \in Key : \A e \in zset[k] :
          (\A x \in zset'[k] : x.score # e.score) =>
              e.score + Interval <= now \/ Unsettled(k, e)]_vars

-----------------------------------------------------------------------------
(* The inductive invariant behind the properties.                          *)

\* The clock does not run away from a check, and a check is decided, or cut
\* off, at its end.
ClockInv ==
    /\ now >= Interval
    /\ \A r \in cut : At(r, "done")
    /\ \A r \in Req : verdict[r] # "none" => At(r, "done")
    /\ \A r \in Req : pc[r] # "idle" =>
          /\ Interval <= stamp[r] /\ stamp[r] <= now
          /\ InFlight(r) => now <= stamp[r] + MaxDelay

\* An entry is the second of a request to its key that has got past Add.
EntryInv ==
    \A k \in Key : \A e \in zset[k] :
        /\ e.member = e.score
        /\ \E r \in Req : /\ key[r] = k /\ stamp[r] = e.score
                          /\ pc[r] \in {"expire", "done"}

\* Between the trim and the count only fresh entries are in the set.
TrimInv ==
    \A r \in Req : At(r, "card") => \A e \in zset[key[r]] : Fresh(r, e)

\* Redis keeps the key of an entry longer than the entry counts.
TTLInv ==
    \A k \in Key : \A e \in zset[k] :
        \/ expireAt[k] # NoTTL /\ expireAt[k] >= e.score + Interval
        \/ Unsettled(k, e)

SafetyInv == TypeOK /\ ClockInv /\ EntryInv /\ TrimInv /\ TTLInv

-----------------------------------------------------------------------------
(* What the source says of itself and the code does not do.                *)

\* auth_handler.go:317 tells every client that the limit is 100 requests a
\* minute, and rate_limiter.go:136 that each allowed request is added to the
\* set.  Requests of the same second share one member (rate_limiter.go:139).
LimitEnforced ==
    \A r \in Req : faults = 0 /\ verdict[r] = "allowed" =>
        Cardinality({q \in Req : /\ key[q] = key[r] /\ verdict[q] = "allowed"
                                 /\ stamp[q] <= stamp[r]
                                 /\ stamp[q] + Interval > stamp[r]}) <= limit

=============================================================================

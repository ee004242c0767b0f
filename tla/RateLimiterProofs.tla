-------------------------- MODULE RateLimiterProofs --------------------------
(***************************************************************************)
(* Proofs about RateLimiter, for every set of requests and keys, every     *)
(* limit, interval and delay.                                              *)
(***************************************************************************)
EXTENDS RateLimiter, FiniteSetTheorems, TLAPS

USE ConfigAssumption, DelayAssumption, BoundAssumption DEF NoTTL

LEMMA InitSafety == Init => SafetyInv
  BY DEF Init, SafetyInv, TypeOK, ClockInv, EntryInv, TrimInv, TTLInv,
         At, InFlight, Steps, Entry, Unsettled

LEMMA ArriveSafety ==
    ASSUME SafetyInv, NEW r \in Req, Arrive(r)
    PROVE  SafetyInv'
<1> USE DEF SafetyInv, Arrive, At, Goto
<1>1. TypeOK'
  BY DEF TypeOK, Steps
<1>2. ClockInv'
  BY DEF TypeOK, ClockInv, InFlight, Steps, At
<1>3. \A q \in cut : q # r
  BY DEF ClockInv
<1>4. EntryInv' /\ TrimInv' /\ TTLInv'
  BY <1>3 DEF TypeOK, EntryInv, TrimInv, TTLInv, Unsettled, Fresh, At
<1> QED
  BY <1>1, <1>2, <1>4

LEMMA TrimSafety ==
    ASSUME SafetyInv, NEW r \in Req, Trim(r)
    PROVE  SafetyInv'
<1> USE DEF SafetyInv
<1>1. /\ pc[r] = "trim"
      /\ UNCHANGED <<limit, now, key, stamp, cut>>
      /\ faults' \in 0..MaxFaults /\ faults' >= faults
      /\ \/ /\ pc' = [pc EXCEPT ![r] = "card"] /\ StoreTrimmed(r)
            /\ verdict' = verdict
         \/ /\ pc' = [pc EXCEPT ![r] = "done"]
            /\ StoreTrimmed(r) \/ UNCHANGED <<zset, expireAt>>
            /\ verdict' = [verdict EXCEPT ![r] = "allowed"]
  BY DEF Trim, At, Goto, Decide, Fault, NoFault, TypeOK
<1>2. /\ zset' \in [Key -> SUBSET Entry]
      /\ expireAt' \in [Key -> Nat]
      /\ \A k \in Key : /\ zset'[k] \subseteq zset[k]
                        /\ zset'[k] # {} => expireAt'[k] = expireAt[k]
      /\ pc'[r] = "card" => \A e \in zset'[key[r]] : Fresh(r, e)
  BY <1>1 DEF StoreTrimmed, TypeOK
<1>3. TypeOK'
  BY <1>1, <1>2 DEF TypeOK, Steps
<1>4. ClockInv'
  BY <1>1 DEF TypeOK, ClockInv, InFlight, Steps, At
<1>5. EntryInv'
  BY <1>1, <1>2 DEF TypeOK, EntryInv
<1>6. TrimInv'
  BY <1>1, <1>2 DEF TypeOK, TrimInv, At, Fresh
<1>7. TTLInv'
  BY <1>1, <1>2 DEF TypeOK, TTLInv, Unsettled, At
<1> QED
  BY <1>3, <1>4, <1>5, <1>6, <1>7

LEMMA CardSafety ==
    ASSUME SafetyInv, NEW r \in Req, Card(r)
    PROVE  SafetyInv'
<1> USE DEF SafetyInv
<1>1. IsFiniteSet(zset[key[r]])
  <2>1. zset[key[r]] \subseteq {[member |-> t, score |-> t] : t \in 0..now}
    BY DEF TypeOK, EntryInv, ClockInv, Entry
  <2>2. IsFiniteSet(0..now)
    BY FS_Interval DEF TypeOK
  <2> DEFINE f == [e \in zset[key[r]] |-> e.score]
  <2>3. f \in Injection(zset[key[r]], 0..now)
    BY <2>1 DEF Injection, IsInjective, TypeOK
  <2> QED
    BY <2>2, <2>3, FS_Injection
<1>2. Cardinality(zset[key[r]]) \in Nat
  BY <1>1, FS_CardinalityType
<1>3. /\ pc[r] = "card"
      /\ UNCHANGED <<limit, now, zset, expireAt, key, stamp, cut>>
      /\ faults' \in 0..MaxFaults /\ faults' >= faults
      /\ \/ pc' = [pc EXCEPT ![r] = "add"] /\ verdict' = verdict
         \/ /\ pc' = [pc EXCEPT ![r] = "done"]
            /\ \E v \in {"allowed", "rejected"} : verdict' = [verdict EXCEPT ![r] = v]
  BY <1>2 DEF Card, At, Goto, Decide, Fault, NoFault, TypeOK
<1>4. TypeOK'
  BY <1>3 DEF TypeOK, Steps
<1>5. ClockInv'
  BY <1>3 DEF TypeOK, ClockInv, InFlight, Steps, At
<1>6. EntryInv' /\ TrimInv' /\ TTLInv'
  BY <1>3 DEF TypeOK, EntryInv, TrimInv, TTLInv, Unsettled, At, Fresh
<1> QED
  BY <1>4, <1>5, <1>6

LEMMA AddSafety ==
    ASSUME SafetyInv, NEW r \in Req, Add(r)
    PROVE  SafetyInv'
<1> USE DEF SafetyInv
<1> DEFINE e == EntryOf(r)
<1>1. /\ pc[r] = "add"
      /\ UNCHANGED <<limit, now, expireAt, key, stamp, verdict, cut>>
      /\ faults' \in 0..MaxFaults /\ faults' >= faults
      /\ pc' = [pc EXCEPT ![r] = "expire"]
      /\ StoreAdded(r) \/ zset' = zset
  BY DEF Add, At, Goto, Fault, NoFault, TypeOK
<1>2. e \in Entry /\ e.member = stamp[r] /\ e.score = stamp[r]
  BY DEF EntryOf, Entry, TypeOK
<1>3. /\ zset' \in [Key -> SUBSET Entry]
      /\ \A k \in Key : \A x \in zset'[k] : x \in zset[k] \/ (k = key[r] /\ x = e)
  <2>1. CASE zset' = zset
    BY <2>1 DEF TypeOK
  <2>2. CASE StoreAdded(r)
    <3> DEFINE kept == {x \in zset[key[r]] : x.member # e.member}
    <3>1. zset' = [zset EXCEPT ![key[r]] = kept \cup {e}]
      BY <2>2 DEF StoreAdded
    <3>2. kept \subseteq zset[key[r]]
      OBVIOUS
    <3> HIDE DEF kept, e
    <3>3. kept \cup {e} \subseteq Entry
      BY <1>2, <3>2 DEF TypeOK
    <3> QED
      BY <3>1, <3>2, <3>3 DEF TypeOK
  <2> QED
    BY <1>1, <2>1, <2>2
<1> HIDE DEF e
<1>4. TypeOK'
  BY <1>1, <1>3 DEF TypeOK, Steps
<1>5. ClockInv'
  BY <1>1 DEF TypeOK, ClockInv, InFlight, Steps, At
<1>6. EntryInv'
  BY <1>1, <1>2, <1>3 DEF TypeOK, EntryInv
<1>7. TrimInv'
  <2> SUFFICES ASSUME NEW q \in Req, pc'[q] = "card", NEW x \in zset'[key[q]]
               PROVE  x.score + Interval > stamp[q]
    BY <1>1 DEF TrimInv, At, Fresh
  <2>1. q # r /\ pc[q] = "card"
    BY <1>1 DEF TypeOK
  <2>2. CASE x \in zset[key[q]]
    BY <2>1, <2>2 DEF TrimInv, At, Fresh
  <2>3. CASE x = e
    <3>1. now <= stamp[r] + MaxDelay /\ stamp[q] <= now
      BY <1>1, <2>1 DEF ClockInv, InFlight, Steps
    <3> QED
      BY <1>2, <2>3, <3>1 DEF TypeOK
  <2> QED
    BY <1>3, <2>2, <2>3 DEF TypeOK
<1>8. TTLInv'
  BY <1>1, <1>2, <1>3 DEF TypeOK, TTLInv, Unsettled, At
<1> QED
  BY <1>4, <1>5, <1>6, <1>7, <1>8

LEMMA ExpireSafety ==
    ASSUME SafetyInv, NEW r \in Req, Expire(r)
    PROVE  SafetyInv'
<1> USE DEF SafetyInv
<1>1. /\ pc[r] = "expire"
      /\ UNCHANGED <<limit, now, zset, key, stamp>>
      /\ faults' \in 0..MaxFaults
      /\ pc' = [pc EXCEPT ![r] = "done"]
      /\ verdict' = [verdict EXCEPT ![r] = "allowed"]
      /\ \/ StoreTTL(r) /\ cut' = cut
         \/ expireAt' = expireAt /\ cut' = cut \cup {r}
  BY DEF Expire, At, Decide, Fault, NoFault, TypeOK
<1>2. expireAt' \in [Key -> Nat]
  BY <1>1 DEF StoreTTL, TypeOK, TTL
<1>3. TypeOK'
  BY <1>1, <1>2 DEF TypeOK
<1>4. ClockInv'
  BY <1>1 DEF TypeOK, ClockInv, InFlight, Steps, At
<1>5. EntryInv' /\ TrimInv'
  BY <1>1 DEF TypeOK, EntryInv, TrimInv, At, Fresh
<1>6. TTLInv'
  <2> SUFFICES ASSUME NEW k \in Key, NEW e \in zset[k]
               PROVE  \/ expireAt'[k] # 0 /\ expireAt'[k] >= e.score + Interval
                      \/ Unsettled(k, e)'
    BY <1>1 DEF TTLInv
  <2>1. e.score \in Nat /\ e.score <= now
    BY DEF EntryInv, ClockInv, TypeOK, Entry
  <2>2. CASE expireAt' = expireAt /\ cut' = cut \cup {r}
    BY <1>1, <2>2 DEF TTLInv, Unsettled, At, TypeOK
  <2>3. CASE StoreTTL(r) /\ cut' = cut /\ k = key[r]
    BY <1>1, <2>1, <2>3 DEF StoreTTL, TTL, TypeOK
  <2>4. CASE StoreTTL(r) /\ cut' = cut /\ k # key[r]
    <3>1. expireAt'[k] = expireAt[k]
      BY <2>4 DEF StoreTTL, TypeOK
    <3> QED
      BY <1>1, <2>4, <3>1 DEF TTLInv, Unsettled, At, TypeOK
  <2> QED
    BY <1>1, <2>2, <2>3, <2>4
<1> QED
  BY <1>3, <1>4, <1>5, <1>6

LEMMA CrashSafety ==
    ASSUME SafetyInv, Crash
    PROVE  SafetyInv'
<1> USE DEF SafetyInv
<1>1. /\ UNCHANGED <<limit, now, zset, expireAt, key, stamp>>
      /\ faults' \in 0..MaxFaults
      /\ cut' \subseteq Req /\ cut \subseteq cut'
      /\ pc' \in [Req -> Steps \cup {"idle", "done"}]
      /\ verdict' \in [Req -> {"none", "allowed", "rejected", "aborted"}]
  BY DEF Crash, Fault, TypeOK
<1>2. \A r \in Req : /\ InFlight(r) => pc'[r] = "done"
                     /\ ~InFlight(r) => pc'[r] = pc[r] /\ verdict'[r] = verdict[r]
                     /\ pc[r] = "expire" => r \in cut'
                     /\ r \in cut' => r \in cut \/ pc[r] = "expire"
  BY DEF Crash, At, TypeOK
<1>3. TypeOK'
  BY <1>1 DEF TypeOK
<1>4. ClockInv'
  BY <1>1, <1>2 DEF TypeOK, ClockInv, InFlight, Steps, At
<1>5. EntryInv' /\ TrimInv'
  BY <1>1, <1>2 DEF TypeOK, EntryInv, TrimInv, InFlight, Steps, At, Fresh
<1>6. TTLInv'
  BY <1>1, <1>2 DEF TTLInv, Unsettled, At, TypeOK
<1> QED
  BY <1>3, <1>4, <1>5, <1>6

LEMMA ClockSafety ==
    ASSUME SafetyInv,
           (\E k \in Key : KeyExpires(k)) \/ Tick \/ Finished \/ UNCHANGED vars
    PROVE  SafetyInv'
<1> USE DEF SafetyInv
<1>1. ASSUME NEW k \in Key, KeyExpires(k) PROVE SafetyInv'
  BY <1>1 DEF KeyExpires, TypeOK, ClockInv, EntryInv, TrimInv, TTLInv,
              Unsettled, At, Fresh, InFlight
<1>2. CASE Tick
  BY <1>2 DEF Tick, TypeOK, ClockInv, EntryInv, TrimInv, TTLInv,
              Unsettled, At, Fresh, InFlight
<1>3. CASE Finished \/ UNCHANGED vars
  BY <1>3 DEF Finished, vars, TypeOK, ClockInv, EntryInv, TrimInv, TTLInv,
              Unsettled, At, Fresh, InFlight
<1> QED
  BY <1>1, <1>2, <1>3

LEMMA NextSafety == SafetyInv /\ [Next]_vars => SafetyInv'
  BY ArriveSafety, TrimSafety, CardSafety, AddSafety, ExpireSafety,
     CrashSafety, ClockSafety DEF Next, Check

\* The inductive invariant holds in every reachable state of every instance.
THEOREM SafetyInvariant == Spec => []SafetyInv
  BY InitSafety, NextSafety, PTL DEF Spec

\* Every variable keeps its type.
THEOREM TypeCorrect == Spec => []TypeOK
<1>1. SafetyInv => TypeOK
  BY DEF SafetyInv
<1> QED
  BY <1>1, SafetyInvariant, PTL

\* Whatever calls fail and whenever the process ends, a key without a time to
\* live has nothing but entries of checks that were cut off, or are still to
\* set one: one check that comes to its end frees Redis of the key.
THEOREM StoredKeysExpire == Spec => []KeysExpire
<1>1. SafetyInv => KeysExpire
  BY DEF SafetyInv, TypeOK, TTLInv, KeysExpire
<1> QED
  BY <1>1, SafetyInvariant, PTL

-----------------------------------------------------------------------------
(* What a check counts.                                                    *)

\* Between the trim and the count the set holds at most one entry for each
\* second of the window and of the time the check has taken so far.
LEMMA WindowBound ==
    ASSUME SafetyInv, NEW r \in Req, At(r, "card")
    PROVE  /\ IsFiniteSet(zset[key[r]])
           /\ Cardinality(zset[key[r]]) <= Interval + MaxDelay
<1> USE DEF SafetyInv
<1> DEFINE S == zset[key[r]]
           lo == stamp[r] - Interval + 1
           hi == stamp[r] + MaxDelay
           f  == [e \in S |-> e.score]
<1>1. stamp[r] \in Nat /\ now \in Nat /\ now <= hi
  BY DEF TypeOK, ClockInv, At, InFlight, Steps
<1>2. \A e \in S : e.score \in lo..hi /\ e = [member |-> e.score, score |-> e.score]
  <2> SUFFICES ASSUME NEW e \in S
               PROVE  e.score \in lo..hi /\ e = [member |-> e.score, score |-> e.score]
    OBVIOUS
  <2>1. e \in Entry /\ e.member = e.score /\ e.score <= now /\ e.score + Interval > stamp[r]
    BY DEF TypeOK, EntryInv, ClockInv, TrimInv, Fresh, At
  <2> QED
    BY <1>1, <2>1 DEF Entry
<1>3. f \in Injection(S, lo..hi)
  BY <1>2 DEF Injection, IsInjective
<1>4. IsFiniteSet(lo..hi) /\ Cardinality(lo..hi) = Interval + MaxDelay
  <2>1. lo \in Int /\ hi \in Int /\ ~(lo > hi) /\ hi - lo + 1 = Interval + MaxDelay
    BY <1>1
  <2> QED
    BY <2>1, FS_Interval
<1> QED
  BY <1>3, <1>4, FS_Injection

\* With a limit above the length of the window plus the longest check, the
\* limiter never turns a request away.
THEOREM NothingRejected == Spec => []NeverRejects
<1>1. Init => NeverRejects
  BY DEF Init, NeverRejects
<1>2. SafetyInv /\ NeverRejects /\ [Next]_vars => NeverRejects'
  <2> SUFFICES ASSUME SafetyInv, NeverRejects, [Next]_vars, NEW q \in Req,
                      Interval + MaxDelay < limit'
               PROVE  verdict'[q] # "rejected"
    BY DEF NeverRejects
  <2>1. limit' = limit /\ limit \in Nat
    BY DEF Next, Arrive, Check, Trim, Card, Add, Expire, KeyExpires, Tick, Crash,
           Finished, vars, SafetyInv, TypeOK
  <2>2. verdict[q] # "rejected"
    BY <2>1 DEF NeverRejects
  <2>3. ASSUME NEW r \in Req, Card(r) PROVE verdict'[q] # "rejected"
    <3>1. Cardinality(zset[key[r]]) \in Nat /\ Cardinality(zset[key[r]]) < limit
      BY <2>1, <2>3, WindowBound, FS_CardinalityType DEF Card, At
    <3>2. ~Exceeded(Cardinality(zset[key[r]]))
      BY <2>1, <3>1 DEF Exceeded
    <3> QED
      BY <2>2, <2>3, <3>2 DEF Card, Goto, Decide, SafetyInv, TypeOK
  <2>4. ASSUME NEW r \in Req, Arrive(r) \/ Trim(r) \/ Add(r) \/ Expire(r)
        PROVE  verdict'[q] # "rejected"
    BY <2>2, <2>4 DEF Arrive, Trim, Add, Expire, Goto, Decide, SafetyInv, TypeOK
  <2>5. CASE Crash
    BY <2>2, <2>5 DEF Crash
  <2>6. CASE \/ \E k \in Key : KeyExpires(k)
             \/ Tick \/ Finished \/ UNCHANGED vars
    BY <2>2, <2>6 DEF KeyExpires, Tick, Finished, vars
  <2> QED
    BY <2>3, <2>4, <2>5, <2>6 DEF Next, Check
<1> QED
  BY <1>1, <1>2, SafetyInvariant, PTL DEF Spec

\* Whatever calls fail and whenever the process ends, no entry leaves its set
\* before its interval is over, unless its check was cut off or is still to
\* renew the time to live.
THEOREM EntriesKept == Spec => WindowKept
<1>1. SafetyInv /\ [Next]_vars =>
        [\A k \in Key : \A e \in zset[k] :
            (\A x \in zset'[k] : x.score # e.score) =>
              e.score + Interval <= now \/ Unsettled(k, e)]_vars
  <2> SUFFICES ASSUME SafetyInv, [Next]_vars, NEW k \in Key, NEW e \in zset[k],
                      \A x \in zset'[k] : x.score # e.score
               PROVE  e.score + Interval <= now \/ Unsettled(k, e)
    OBVIOUS
  <2> USE DEF SafetyInv
  <2>1. e \notin zset'[k] /\ e.score \in Nat /\ e.member = e.score
    BY DEF TypeOK, Entry, EntryInv
  <2>2. ASSUME NEW r \in Req, Trim(r) PROVE e.score + Interval <= now
    <3>1. e.score + Interval <= stamp[r]
      BY <2>1, <2>2 DEF Trim, StoreTrimmed, Fresh, TypeOK
    <3>2. stamp[r] <= now
      BY <2>2 DEF Trim, At, ClockInv
    <3> QED
      BY <2>1, <3>1, <3>2 DEF TypeOK
  <2>3. ASSUME NEW r \in Req, Add(r) PROVE FALSE
    <3>1. EntryOf(r).member = stamp[r] /\ EntryOf(r).score = stamp[r]
      BY DEF EntryOf
    <3>2. StoreAdded(r)
      BY <2>1, <2>3 DEF Add
    <3>3. \A x \in zset[key[r]] : x.member # stamp[r] => x \in zset'[key[r]]
      BY <3>1, <3>2 DEF StoreAdded, TypeOK
    <3>4. EntryOf(r) \in zset'[key[r]]
      BY <3>2 DEF StoreAdded, TypeOK
    <3>5. k # key[r] => zset'[k] = zset[k]
      BY <3>2 DEF StoreAdded, TypeOK
    <3> QED
      BY <2>1, <3>1, <3>3, <3>4, <3>5
  <2>4. CASE KeyExpires(k)
    BY <2>1, <2>4 DEF KeyExpires, TTLInv, TypeOK
  <2>5. ASSUME NEW j \in Key, KeyExpires(j), j # k PROVE FALSE
    BY <2>1, <2>5 DEF KeyExpires, TypeOK
  <2>6. CASE \/ \E r \in Req : Arrive(r) \/ Card(r) \/ Expire(r)
             \/ Tick \/ Crash \/ Finished \/ UNCHANGED vars
    BY <2>1, <2>6 DEF Arrive, Card, Expire, Tick, Crash, Finished, vars
  <2> QED
    BY <2>2, <2>3, <2>4, <2>5, <2>6 DEF Next, Check
<1> QED
  BY <1>1, SafetyInvariant, PTL DEF Spec, WindowKept

\* Every entry a check counts was left by another request of its window.
LEMMA CountedAreRivals ==
    ASSUME SafetyInv, NEW r \in Req, At(r, "card")
    PROVE  /\ IsFiniteSet(Rivals(r))
           /\ Cardinality(zset[key[r]]) <= Cardinality(Rivals(r))
<1> USE DEF SafetyInv
<1> DEFINE S == zset[key[r]]
           f == [e \in S |-> CHOOSE q \in Rivals(r) : stamp[q] = e.score]
<1>1. IsFiniteSet(Rivals(r))
  BY FS_Subset DEF Rivals
<1>2. \A e \in S : \E q \in Rivals(r) : stamp[q] = e.score
  BY DEF Rivals, EntryInv, TrimInv, Fresh, At, TypeOK
<1>3. \A e \in S : f[e] \in Rivals(r) /\ stamp[f[e]] = e.score
  BY <1>2
<1>4. \A d, e \in S : d.score = e.score => d = e
  BY DEF EntryInv, TypeOK, Entry
<1>5. f \in Injection(S, Rivals(r))
  <2>1. f \in [S -> Rivals(r)]
    BY <1>3
  <2> HIDE DEF f
  <2> QED
    BY <2>1, <1>3, <1>4 DEF Injection, IsInjective
<1> QED
  BY <1>1, <1>5, FS_Injection

\* A rejected request had at least limit rivals of its window.
THEOREM RejectionsJustified == Spec => []RejectedOnlyWhenBusy
<1>1. Init => RejectedOnlyWhenBusy
  BY DEF Init, RejectedOnlyWhenBusy
<1>2. SafetyInv /\ RejectedOnlyWhenBusy /\ [Next]_vars => RejectedOnlyWhenBusy'
  <2> SUFFICES ASSUME SafetyInv, RejectedOnlyWhenBusy, [Next]_vars,
                      NEW r \in Req, verdict'[r] = "rejected"
               PROVE  Cardinality(Rivals(r))' >= limit'
    BY DEF RejectedOnlyWhenBusy
  <2> USE DEF SafetyInv
  <2>1. /\ SafetyInv'
        /\ limit' = limit /\ limit \in Nat
        /\ key' = key
        /\ pc[r] # "idle" => stamp'[r] = stamp[r]
        /\ \A q \in Req : pc[q] # "idle" =>
              pc'[q] # "idle" /\ stamp'[q] = stamp[q]
    <3>1. SafetyInv'
      BY NextSafety
    <3>2. ASSUME NEW q \in Req, Arrive(q) \/ Check(q)
          PROVE  /\ key' = key /\ limit' = limit
                 /\ \A p \in Req : pc[p] # "idle" =>
                       pc'[p] # "idle" /\ stamp'[p] = stamp[p]
      BY <3>2 DEF Arrive, Check, Trim, Card, Add, Expire, At, Goto, Decide, TypeOK
    <3>3. ASSUME \/ \E k \in Key : KeyExpires(k)
                 \/ Tick \/ Finished \/ UNCHANGED vars
          PROVE  key' = key /\ limit' = limit /\ pc' = pc /\ stamp' = stamp
      BY <3>3 DEF KeyExpires, Tick, Finished, vars
    <3>4. /\ key' = key /\ limit' = limit
          /\ \A p \in Req : pc[p] # "idle" =>
                pc'[p] # "idle" /\ stamp'[p] = stamp[p]
      <4>1. CASE Crash
        BY <4>1 DEF Crash, InFlight, TypeOK
      <4> QED
        BY <3>2, <3>3, <4>1 DEF Next
    <3> QED
      BY <3>1, <3>4 DEF TypeOK
  <2>2. IsFiniteSet(Rivals(r)) /\ IsFiniteSet(Rivals(r)')
    BY FS_Subset DEF Rivals
  <2>3. pc[r] # "idle" => Rivals(r) \subseteq Rivals(r)'
    BY <2>1 DEF Rivals
  <2>4. Rivals(r) \subseteq Rivals(r)' =>
          /\ Cardinality(Rivals(r)) <= Cardinality(Rivals(r)')
          /\ Cardinality(Rivals(r)) \in Nat /\ Cardinality(Rivals(r)') \in Nat
    BY <2>2, FS_Subset, FS_CardinalityType
  <2>5. CASE verdict[r] = "rejected"
    BY <2>1, <2>3, <2>4, <2>5 DEF RejectedOnlyWhenBusy, ClockInv, At
  <2>6. CASE verdict[r] # "rejected" /\ Card(r)
    <3>1. At(r, "card") /\ Cardinality(zset[key[r]]) >= limit
      BY <2>6 DEF Card, Goto, Decide, Exceeded, TypeOK
    <3>2. Cardinality(zset[key[r]]) \in Nat
      BY <3>1, WindowBound, FS_CardinalityType
    <3> QED
      BY <3>1, <3>2, <2>1, <2>3, <2>4, CountedAreRivals DEF At
  <2>7. CASE verdict[r] # "rejected" /\ ~Card(r)
    <3>1. ~\E q \in Req : Arrive(q) \/ Check(q)
      BY <2>7 DEF Arrive, Check, Trim, Card, Add, Expire, Goto, Decide, TypeOK
    <3>2. ~(\/ \E k \in Key : KeyExpires(k)
            \/ Tick \/ Finished \/ UNCHANGED vars)
      BY <2>7 DEF KeyExpires, Tick, Finished, vars
    <3>3. ~Crash
      BY <2>7 DEF Crash
    <3> QED
      BY <3>1, <3>2, <3>3 DEF Next
  <2> QED
    BY <2>5, <2>6, <2>7
<1> QED
  BY <1>1, <1>2, SafetyInvariant, PTL DEF Spec

=============================================================================

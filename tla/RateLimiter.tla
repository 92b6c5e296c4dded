---------------------------- MODULE RateLimiter -----------------------------
(***************************************************************************)
(* The two gates in front of every request, socket and turn                *)
(* (security/rate_limit.py): a fixed-window counter for the caller's       *)
(* address, then one for its principal.  Counters are kept by              *)
(* MemoryRateLimiter (one process, a bounded table) or RedisRateLimiter    *)
(* (shared by replicas, a script in Redis).                                *)
(*                                                                         *)
(* Times are relative to the clock, so that time itself has no bound: a    *)
(* bucket knows how many ticks it has left.  The body of the memory        *)
(* limiter's lock holds no await and the lock is never contended, so a hit *)
(* is one step, the reading of the clock included.                         *)
(***************************************************************************)
EXTENDS Integers, FiniteSets

CONSTANTS
    Addresses, Subjects,
    Limit,          \* Limit[k]: passes of key k per window
    WindowSeconds,  \* settings.rate_limit_window_seconds
    Second,         \* ticks per second: bound on the resolution of the clock
    MaxBuckets,     \* settings.rate_limit_memory_max_buckets
    FailOpen,       \* settings.rate_limit_fail_open
    None

Keys == Addresses \cup Subjects

ASSUME KeysAssumption == IsFiniteSet(Keys) /\ Addresses \cap Subjects = {}
ASSUME LimitAssumption == Limit \in [Keys -> Nat \ {0}]
ASSUME WindowAssumption == WindowSeconds \in Nat \ {0} /\ Second \in Nat \ {0}
ASSUME BucketsAssumption == MaxBuckets \in Nat \ {0}
ASSUME PolicyAssumption == FailOpen \in BOOLEAN
ASSUME NoneAssumption == None \notin Int

VARIABLES
    backend,    \* settings.session_backend
    table,      \* _buckets, or Redis's counters
    between,    \* requests past the first gate and not yet at the second
    recent,     \* history: recent[k][a] passes of k, a ticks ago
    advised,    \* history: ticks until the memory limiter's last Retry-After for k is over
    verdict     \* history: the decision just taken, why, and if k had waited as advised

vars == <<backend, table, between, recent, advised, verdict>>

Window == WindowSeconds * Second
Ages == 0..(Window - 1)

NoBucket == [count |-> 0, left |-> 0]

\* Counts beyond the limit are all alike.
Buckets(k) == [count : 0..(Limit[k] + 1), left : 0..Window]

Reasons == {"passed", "over", "full", "unheard"}

-----------------------------------------------------------------------------
(***************************************************************************)
(* Faulty variants of the definitions below, each one plausible slip in    *)
(* rate_limit.py.  No specification uses them.                             *)
(***************************************************************************)
\* Every hit sets a new expiry.
CountedAfresh(k, b) == [count |-> IF b.count <= Limit[k] THEN b.count + 1 ELSE b.count,
                        left |-> WindowSeconds * Second]

\* `count <= limit` with the count before this hit.
WithinBefore(k, b) == b.count <= Limit[k] + 1

\* math.floor for math.ceil.
SecondsDown(ticks) == ticks \div Second

\* The table is not purged of expired buckets.
HeldUnpurged(k) == table

-----------------------------------------------------------------------------
Stored(t) == {k \in Keys : t[k] # NoBucket}

Opened == [count |-> 1, left |-> Window]

Counted(k, b) == [b EXCEPT !.count = IF @ <= Limit[k] THEN @ + 1 ELSE @]

AtLeastOne(n) == IF n < 1 THEN 1 ELSE n

\* math.ceil of ticks in seconds.
SecondsUp(ticks) == (ticks + Second - 1) \div Second

\* Redis's TTL reply, rounded to the nearest second.
SecondsNear(ticks) == (2 * ticks + Second) \div (2 * Second)

\* MemoryRateLimiter: the table before the hit, purged if k needs a place in a full one.
Purged == [k \in Keys |-> IF table[k].left > 0 THEN table[k] ELSE NoBucket]

Held(k) ==
    IF table[k] = NoBucket /\ Cardinality(Stored(table)) >= MaxBuckets THEN Purged ELSE table

Crowded(k, held) == held[k] = NoBucket /\ Cardinality(Stored(held)) >= MaxBuckets

Reopened(k, held) == IF held[k].left > 0 THEN Counted(k, held[k]) ELSE Opened

Within(k, b) == b.count <= Limit[k]

MemoryHit(k, reason, retry) ==
    /\ backend = "memory"
    /\ IF Crowded(k, Held(k))
       THEN table' = Held(k) /\ reason = "full" /\ retry = WindowSeconds
       ELSE /\ table' = [Held(k) EXCEPT ![k] = Reopened(k, Held(k))]
            /\ reason = IF Within(k, Reopened(k, Held(k))) THEN "passed" ELSE "over"
            /\ retry = AtLeastOne(SecondsUp(Reopened(k, Held(k)).left))

\* RedisRateLimiter: INCR, EXPIRE if it is the first, TTL.
Incremented(k) == IF table[k] = NoBucket THEN Opened ELSE Counted(k, table[k])

RedisHit(k, reason, retry) ==
    /\ backend = "redis"
    /\ table' = [table EXCEPT ![k] = Incremented(k)]
    /\ reason = IF Within(k, Incremented(k)) THEN "passed" ELSE "over"
    /\ retry = AtLeastOne(SecondsNear(Incremented(k).left))

\* check_limit's `except`: Redis was not reached, or its answer was not.
RedisUnheard(k, reason, retry) ==
    /\ backend = "redis"
    /\ table' \in {table, [table EXCEPT ![k] = Incremented(k)]}
    /\ reason = "unheard"
    /\ retry = WindowSeconds

Allowed(reason) == reason = "passed" \/ (reason = "unheard" /\ FailOpen)

\* One gate's decision.
Gate(k, reason, retry) ==
    /\ MemoryHit(k, reason, retry) \/ RedisHit(k, reason, retry) \/ RedisUnheard(k, reason, retry)
    /\ recent' = IF Allowed(reason) THEN [recent EXCEPT ![k][0] = @ + 1] ELSE recent
    /\ advised' = [advised EXCEPT ![k] =
                     IF Allowed(reason) \/ backend = "redis" THEN None ELSE retry * Second]
    /\ verdict' = [key |-> k, reason |-> reason, waited |-> advised[k] = 0]
    /\ UNCHANGED backend

-----------------------------------------------------------------------------
Nothing == [k \in Keys |-> [a \in Ages |-> 0]]

Quiet == [key |-> None, reason |-> "passed", waited |-> FALSE]

Init ==
    /\ backend \in {"memory", "redis"}
    /\ table = [k \in Keys |-> NoBucket]
    /\ between = {}
    /\ recent = Nothing
    /\ advised = [k \in Keys |-> None]
    /\ verdict = Quiet

\* The gate for the address: the HTTP middleware, a socket's admission, a turn's first check.
FromAddress(address, subject) ==
    /\ <<address, subject>> \notin between
    /\ \E reason \in Reasons, retry \in 1..WindowSeconds :
        /\ Gate(address, reason, retry)
        /\ between' = IF Allowed(reason) THEN between \cup {<<address, subject>>} ELSE between

\* The gate for the principal, once there is one.
FromSubject(address, subject) ==
    /\ <<address, subject>> \in between
    /\ \E reason \in Reasons, retry \in 1..WindowSeconds : Gate(subject, reason, retry)
    /\ between' = between \ {<<address, subject>>}

\* No valid token, or a route that has no principal.
WithoutSubject(address, subject) ==
    /\ <<address, subject>> \in between
    /\ between' = between \ {<<address, subject>>}
    /\ verdict' = Quiet
    /\ UNCHANGED <<backend, table, recent, advised>>

\* Memory keeps an expired bucket till somebody looks; Redis drops the key, after its last tick.
Older(b) ==
    IF b.left > 0 THEN [b EXCEPT !.left = @ - 1]
    ELSE IF backend = "redis" THEN NoBucket ELSE b

Tick ==
    /\ table' = [k \in Keys |-> Older(table[k])]
    /\ recent' = [k \in Keys |-> [a \in Ages |-> IF a = 0 THEN 0 ELSE recent[k][a - 1]]]
    /\ advised' = [k \in Keys |-> IF advised[k] \in {None, 0} THEN advised[k] ELSE advised[k] - 1]
    /\ verdict' = Quiet
    /\ UNCHANGED <<backend, between>>

\* A process with counters in memory starts again.
Restart ==
    /\ backend = "memory"
    /\ table' = [k \in Keys |-> NoBucket]
    /\ between' = {}
    /\ recent' = Nothing
    /\ advised' = [k \in Keys |-> None]
    /\ verdict' = Quiet
    /\ UNCHANGED backend

Next ==
    \/ \E address \in Addresses, subject \in Subjects :
        \/ FromAddress(address, subject)
        \/ FromSubject(address, subject)
        \/ WithoutSubject(address, subject)
    \/ Tick
    \/ Restart

Spec == Init /\ [][Next]_vars

-----------------------------------------------------------------------------
TypeOK ==
    /\ backend \in {"memory", "redis"}
    /\ DOMAIN table = Keys /\ \A k \in Keys : table[k] \in Buckets(k)
    /\ between \subseteq Addresses \X Subjects
    /\ recent \in [Keys -> [Ages -> Nat]]
    /\ advised \in [Keys -> 0..Window \cup {None}]
    /\ verdict \in [key : Keys \cup {None}, reason : Reasons, waited : BOOLEAN]

\* The passes of k in the last Window ticks, this one included.
Passes(k) == UNION {{a} \X (1..recent[k][a]) : a \in Ages}

(***************************************************************************)
(* However windows, purges, lost replies and restarts fall, no stretch of  *)
(* time as long as a window sees more than two windows' worth of passes of *)
(* one key (`fixed-window limits bound every ... request`,                 *)
(* docs/production-deployment-plan.md): less than that would take a        *)
(* sliding window.                                                         *)
(***************************************************************************)
BoundedRate == ~FailOpen => \A k \in Keys : Cardinality(Passes(k)) <= 2 * Limit[k]

(***************************************************************************)
(* The memory limiter never outgrows its table, whatever callers come      *)
(* (`Process-local fixed-window limiter with a hard cardinality bound`,    *)
(* MemoryRateLimiter).                                                     *)
(***************************************************************************)
TableBounded == backend = "memory" => Cardinality(Stored(table)) <= MaxBuckets

(***************************************************************************)
(* Nobody is refused early: the memory limiter turns a key away only if it *)
(* has used its own window up, or if as many others as the table holds     *)
(* have passed within a window; buckets that have run out do not count.    *)
(***************************************************************************)
RefusedForCause ==
    backend = "memory" =>
        /\ verdict.reason = "over" => Cardinality(Passes(verdict.key)) >= Limit[verdict.key]
        /\ verdict.reason = "full" =>
              Cardinality({k \in Keys \ {verdict.key} : Passes(k) # {}}) >= MaxBuckets

(***************************************************************************)
(* Retry-After tells the truth: a key that waits as long as the memory     *)
(* limiter advised does not find its own window still used up.             *)
(***************************************************************************)
AdviceHonoured == backend = "memory" /\ verdict.reason = "over" => ~verdict.waited

-----------------------------------------------------------------------------
Open(k) == IF backend = "memory" THEN table[k].left > 0 ELSE table[k] # NoBucket

InWindow(k) ==
    IF ~Open(k) THEN 0 ELSE IF table[k].count <= Limit[k] THEN table[k].count ELSE Limit[k]

Abstract == INSTANCE FixedWindow
    WITH used <- [k \in Keys |-> InWindow(k)],
         left <- [k \in Keys |-> IF Open(k) THEN table[k].left ELSE 0]

(***************************************************************************)
(* Both limiters implement the fixed window: purging, replacing and        *)
(* expiring buckets is invisible, and no pass goes uncounted.              *)
(***************************************************************************)
ImplementsFixedWindow == Abstract!Spec
=============================================================================

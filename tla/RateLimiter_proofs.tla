------------------------- MODULE RateLimiter_proofs -------------------------
(***************************************************************************)
(* For any keys, limits, window, clock resolution and table size: both     *)
(* limiters implement FixedWindow and bound the rate, and the memory       *)
(* limiter's table bound, causes of refusal and Retry-After hold.          *)
(***************************************************************************)
EXTENDS RateLimiter, FiniteSetTheorems, TLAPS

USE KeysAssumption, LimitAssumption, WindowAssumption, BucketsAssumption, PolicyAssumption,
    NoneAssumption

LEMMA WindowNat == Window \in Nat /\ Window >= 1
  BY DEF Window

LEMMA Below == ASSUME NEW n \in 0..Window, n # 0 PROVE n - 1 \in 0..Window
  BY WindowNat

LEMMA Scaled == \A n \in 1..WindowSeconds : n * Second \in 0..Window
<1> SUFFICES ASSUME NEW n \in 1..WindowSeconds
             PROVE  n * Second \in 0..Window
  OBVIOUS
<1>1. (WindowSeconds - n) * Second >= 0
  OBVIOUS
<1>2. (WindowSeconds - n) * Second = WindowSeconds * Second - n * Second
  OBVIOUS
<1>3. n * Second \in Nat /\ WindowSeconds * Second \in Nat
  OBVIOUS
<1>4. QED
  BY <1>1, <1>2, <1>3 DEF Window

LEMMA Monotone == \A m, n \in Int : m >= n => m * Second >= n * Second
<1> SUFFICES ASSUME NEW m \in Int, NEW n \in Int, m >= n
             PROVE  m * Second >= n * Second
  OBVIOUS
<1>1. m - n \in Nat /\ (m - n) * Second >= 0
  OBVIOUS
<1>2. (m - n) * Second = m * Second - n * Second
  OBVIOUS
<1>3. m * Second \in Int /\ n * Second \in Int
  OBVIOUS
<1>4. QED
  BY <1>1, <1>2, <1>3

\* Rounding up gives at least the time that is left.
LEMMA Upwards == \A l \in Nat : SecondsUp(l) \in Int /\ SecondsUp(l) * Second >= l
<1> SUFFICES ASSUME NEW l \in Nat
             PROVE  SecondsUp(l) \in Int /\ SecondsUp(l) * Second >= l
  OBVIOUS
<1> DEFINE n == l + Second - 1
<1>1. n \in Nat
  OBVIOUS
<1> HIDE DEF n
<1>2. n \div Second \in Int /\ n % Second \in 0..(Second - 1)
      /\ n = Second * (n \div Second) + (n % Second)
  BY <1>1
<1>3. QED
  BY <1>1, <1>2 DEF n, SecondsUp

-----------------------------------------------------------------------------
LEMMA BucketSteps ==
    ASSUME NEW k \in Keys, NEW b \in Buckets(k)
    PROVE  /\ NoBucket \in Buckets(k) /\ Opened \in Buckets(k)
           /\ Counted(k, b) \in Buckets(k) /\ Counted(k, b).left = b.left
           /\ Older(b) \in Buckets(k)
<1>1. Limit[k] \in Nat /\ Limit[k] >= 1
  OBVIOUS
<1>2. NoBucket \in Buckets(k) /\ Opened \in Buckets(k)
  BY <1>1, WindowNat DEF NoBucket, Opened, Buckets
<1>3. Counted(k, b) \in Buckets(k) /\ Counted(k, b).left = b.left
  BY <1>1 DEF Counted, Buckets
<1>4. Older(b) \in Buckets(k)
  BY <1>2, WindowNat DEF Older, Buckets
<1>5. QED
  BY <1>2, <1>3, <1>4

\* The table is a function on Keys, each of whose buckets is of its key's kind.
TableOK == table = [k \in Keys |-> table[k]] /\ \A k \in Keys : table[k] \in Buckets(k)

Typed ==
    /\ backend \in {"memory", "redis"}
    /\ TableOK
    /\ between \subseteq Addresses \X Subjects
    /\ recent \in [Keys -> [Ages -> Nat]]
    /\ advised \in [Keys -> 0..Window \cup {None}]
    /\ verdict \in [key : Keys \cup {None}, reason : Reasons, waited : BOOLEAN]

\* What a gate makes of the table, whichever limiter it asks.
LEMMA GateTable ==
    ASSUME Typed, NEW k \in Keys, NEW reason, NEW retry \in 1..WindowSeconds,
           Gate(k, reason, retry)
    PROVE  TableOK' /\ reason \in Reasons
<1> USE DEF Typed, TableOK
<1>1. \A j \in Keys : /\ NoBucket \in Buckets(j) /\ Opened \in Buckets(j)
                       /\ Counted(j, table[j]) \in Buckets(j)
  BY BucketSteps
<1>2. Held(k) = [j \in Keys |-> Held(k)[j]] /\ \A j \in Keys : Held(k)[j] \in {table[j], NoBucket}
  BY DEF Held, Purged
<1>3. Reopened(k, Held(k)) \in Buckets(k) /\ Incremented(k) \in Buckets(k)
  BY <1>1, <1>2 DEF Reopened, Incremented, NoBucket
<1>4. CASE MemoryHit(k, reason, retry)
  <2>1. CASE Crowded(k, Held(k))
    BY <1>1, <1>2, <1>4, <2>1 DEF MemoryHit, Reasons
  <2>2. CASE ~Crowded(k, Held(k))
    <3>1. /\ table' = [Held(k) EXCEPT ![k] = Reopened(k, Held(k))]
          /\ reason \in Reasons
      BY <1>4, <2>2 DEF MemoryHit, Reasons
    <3>2. TableOK'
      BY <1>1, <1>2, <1>3, <3>1
    <3> QED BY <3>1, <3>2
  <2> QED BY <2>1, <2>2
<1>5. CASE RedisHit(k, reason, retry) \/ RedisUnheard(k, reason, retry)
  BY <1>1, <1>3, <1>5 DEF RedisHit, RedisUnheard, Reasons
<1>6. QED
  BY <1>4, <1>5 DEF Gate

LEMMA GateTyped ==
    ASSUME Typed, NEW k \in Keys, NEW reason, NEW retry \in 1..WindowSeconds,
           Gate(k, reason, retry), between' \subseteq Addresses \X Subjects
    PROVE  Typed'
<1> USE DEF Typed
<1>1. 0 \in Ages /\ retry * Second \in 0..Window
  BY WindowNat, Scaled DEF Ages
<1>2. recent' \in [Keys -> [Ages -> Nat]]
  BY <1>1 DEF Gate
<1>3. advised' \in [Keys -> 0..Window \cup {None}]
  BY <1>1 DEF Gate
<1>4. verdict' \in [key : Keys \cup {None}, reason : Reasons, waited : BOOLEAN]
  BY GateTable DEF Gate
<1>5. QED
  BY <1>2, <1>3, <1>4, GateTable DEF Gate

LEMMA TypedInit == Init => Typed
<1>1. \A k \in Keys : NoBucket \in Buckets(k)
  BY DEF NoBucket, Buckets, Window
<1>2. QED
  BY <1>1 DEF Init, Typed, TableOK, Nothing, Quiet, Reasons

LEMMA TypedStep == Typed /\ [Next]_vars => Typed'
<1> SUFFICES ASSUME Typed, [Next]_vars
             PROVE  Typed'
  OBVIOUS
<1> USE DEF Typed, TableOK
<1>1. ASSUME NEW a \in Addresses, NEW s \in Subjects, FromAddress(a, s)
      PROVE  Typed'
  <2>1. PICK reason \in Reasons, retry \in 1..WindowSeconds : Gate(a, reason, retry)
    BY <1>1 DEF FromAddress
  <2>2. between' \subseteq Addresses \X Subjects
    BY <1>1 DEF FromAddress
  <2>3. QED
    BY <2>1, <2>2, GateTyped DEF Keys
<1>2. ASSUME NEW a \in Addresses, NEW s \in Subjects, FromSubject(a, s)
      PROVE  Typed'
  <2>1. PICK reason \in Reasons, retry \in 1..WindowSeconds : Gate(s, reason, retry)
    BY <1>2 DEF FromSubject
  <2>2. between' \subseteq Addresses \X Subjects
    BY <1>2 DEF FromSubject
  <2>3. QED
    BY <2>1, <2>2, GateTyped DEF Keys
<1>3. ASSUME NEW a \in Addresses, NEW s \in Subjects, WithoutSubject(a, s)
      PROVE  Typed'
  BY <1>3 DEF WithoutSubject, Quiet, Reasons
<1>4. CASE Tick
  <2>1. \A k \in Keys : Older(table[k]) \in Buckets(k)
    BY BucketSteps
  <2>2. recent' \in [Keys -> [Ages -> Nat]]
    <3>1. \A k \in Keys, a \in Ages : (IF a = 0 THEN 0 ELSE recent[k][a - 1]) \in Nat
      <4> SUFFICES ASSUME NEW k \in Keys, NEW a \in Ages, a # 0
                   PROVE  recent[k][a - 1] \in Nat
        OBVIOUS
      <4>1. a - 1 \in Ages
        BY WindowNat DEF Ages
      <4>2. QED
        BY <4>1
    <3>2. QED
      BY <1>4, <3>1 DEF Tick
  <2>3. advised' \in [Keys -> 0..Window \cup {None}]
    <3>1. \A n \in 0..Window : n # 0 => n - 1 \in 0..Window
      BY Below
    <3>2. \A k \in Keys : (IF advised[k] \in {None, 0} THEN advised[k] ELSE advised[k] - 1)
                             \in 0..Window \cup {None}
      BY <3>1
    <3>3. QED
      BY <1>4, <3>2 DEF Tick
  <2>4. QED
    BY <1>4, <2>1, <2>2, <2>3 DEF Tick, Quiet, Reasons
<1>5. CASE Restart
  <2>1. \A k \in Keys : NoBucket \in Buckets(k)
    BY BucketSteps
  <2>2. QED
    BY <1>5, <2>1 DEF Restart, Nothing, Quiet, Reasons
<1>6. CASE UNCHANGED vars
  BY <1>6 DEF vars
<1>7. QED
  BY <1>1, <1>2, <1>3, <1>4, <1>5, <1>6 DEF Next

\* The type invariant of both limiters and the gates before every request.
THEOREM TypeCorrect == Spec => []TypeOK
<1>1. Typed => TypeOK
  BY DEF Typed, TableOK, TypeOK
<1>2. QED
  BY <1>1, TypedInit, TypedStep, PTL DEF Spec

-----------------------------------------------------------------------------
(***************************************************************************)
(* The table's bound.                                                      *)
(***************************************************************************)
LEMMA StoredFinite ==
    ASSUME NEW t PROVE IsFiniteSet(Stored(t)) /\ Cardinality(Stored(t)) \in Nat
  BY FS_Subset, FS_CardinalityType DEF Stored

LEMMA StoredFewer ==
    ASSUME NEW t, NEW u, Stored(u) \subseteq Stored(t)
    PROVE  Cardinality(Stored(u)) <= Cardinality(Stored(t))
  BY StoredFinite, FS_Subset

LEMMA StoredOneMore ==
    ASSUME NEW t, NEW u, NEW k \in Keys, Stored(u) \subseteq Stored(t) \cup {k}
    PROVE  Cardinality(Stored(u)) <= Cardinality(Stored(t)) + 1
<1>1. IsFiniteSet(Stored(t) \cup {k}) /\ Cardinality(Stored(t) \cup {k}) \in Nat
      /\ Cardinality(Stored(t) \cup {k}) <= Cardinality(Stored(t)) + 1
  <2> DEFINE S == Stored(t)
  <2>1. IsFiniteSet(S) /\ Cardinality(S) \in Nat
    BY StoredFinite
  <2> HIDE DEF S
  <2>2. IsFiniteSet(S \cup {k})
        /\ (Cardinality(S \cup {k}) = Cardinality(S) \/ Cardinality(S \cup {k}) = Cardinality(S) + 1)
    BY <2>1, FS_AddElement
  <2>3. QED
    BY <2>1, <2>2 DEF S
<1>2. Cardinality(Stored(u)) <= Cardinality(Stored(t) \cup {k})
  BY <1>1, FS_Subset
<1>3. QED
  BY <1>1, <1>2, StoredFinite

LEMMA HitBounded ==
    ASSUME Typed, TableBounded, NEW k \in Keys, NEW reason, NEW retry,
           MemoryHit(k, reason, retry)
    PROVE  Cardinality(Stored(table')) <= MaxBuckets
<1> DEFINE held == Held(k)
<1>1. Stored(held) \subseteq Stored(table)
  BY DEF Stored, Held, Purged
<1>2. Cardinality(Stored(held)) <= MaxBuckets
  BY <1>1, StoredFewer, StoredFinite DEF TableBounded, MemoryHit
<1>3. CASE Crowded(k, held)
  BY <1>2, <1>3 DEF MemoryHit
<1>4. CASE ~Crowded(k, held)
  <2>1. Stored(table') \subseteq Stored(held) \cup {k}
    <3>1. \A j \in Keys : j # k => table'[j] = held[j]
      BY <1>4 DEF MemoryHit, Typed, TableOK, Held, Purged
    <3>2. QED
      BY <3>1 DEF Stored
  <2>2. CASE held[k] # NoBucket
    <3>1. Stored(table') \subseteq Stored(held)
      BY <2>1, <2>2 DEF Stored
    <3>2. QED
      BY <1>2, <3>1, StoredFewer, StoredFinite
  <2>3. CASE held[k] = NoBucket
    <3>1. Cardinality(Stored(held)) < MaxBuckets
      BY <1>4, <2>3, StoredFinite DEF Crowded
    <3>2. Cardinality(Stored(table')) <= Cardinality(Stored(held)) + 1
      BY <2>1, StoredOneMore
    <3>3. QED
      BY <3>1, <3>2, StoredFinite
  <2>4. QED
    BY <2>2, <2>3
<1>5. QED
  BY <1>3, <1>4

LEMMA BoundedStep == Typed /\ TableBounded /\ [Next]_vars => TableBounded'
<1> SUFFICES ASSUME Typed, TableBounded, [Next]_vars, backend' = "memory"
             PROVE  Cardinality(Stored(table')) <= MaxBuckets
  BY DEF TableBounded, Stored
<1>1. ASSUME NEW k \in Keys, NEW reason, NEW retry, Gate(k, reason, retry)
      PROVE  Cardinality(Stored(table')) <= MaxBuckets
  <2>1. MemoryHit(k, reason, retry)
    BY <1>1 DEF Gate, RedisHit, RedisUnheard
  <2>2. QED
    BY <2>1, HitBounded
<1>2. ASSUME NEW a \in Addresses, NEW s \in Subjects,
             FromAddress(a, s) \/ FromSubject(a, s)
      PROVE  Cardinality(Stored(table')) <= MaxBuckets
  BY <1>1, <1>2 DEF FromAddress, FromSubject, Keys
<1>3. ASSUME UNCHANGED <<backend, table>>
      PROVE  Cardinality(Stored(table')) <= MaxBuckets
  BY <1>3 DEF TableBounded
<1>4. CASE Tick
  <2>1. Stored(table') \subseteq Stored(table)
    BY <1>4 DEF Tick, Stored, Older, NoBucket
  <2>2. QED
    BY <1>4, <2>1, StoredFewer, StoredFinite DEF Tick, TableBounded
<1>5. CASE Restart
  <2>1. Stored(table') = {}
    BY <1>5 DEF Restart, Stored
  <2>2. QED
    BY <2>1, FS_EmptySet
<1>6. QED
  BY <1>2, <1>3, <1>4, <1>5 DEF Next, WithoutSubject, vars

\* MemoryRateLimiter never holds more buckets than max_buckets.
THEOREM NeverOutgrown == Spec => []TableBounded
<1>1. Init => TableBounded
  <2>1. Init => Stored(table) = {}
    BY DEF Init, Stored
  <2>2. QED
    BY <2>1, FS_EmptySet DEF TableBounded
<1>2. QED
  BY <1>1, TypedInit, TypedStep, BoundedStep, PTL DEF Spec

-----------------------------------------------------------------------------
(***************************************************************************)
(* Retry-After: what was advised is at least what the bucket has left.     *)
(***************************************************************************)
Sufficient ==
    backend = "memory" => \A k \in Keys : advised[k] # None => advised[k] >= table[k].left

AdviceInv == Sufficient /\ AdviceHonoured

LEMMA GateAdvice ==
    ASSUME Typed, AdviceInv, NEW k \in Keys, NEW reason, NEW retry \in 1..WindowSeconds,
           Gate(k, reason, retry)
    PROVE  AdviceInv'
<1> SUFFICES ASSUME backend = "memory"
             PROVE  AdviceInv'
  BY DEF AdviceInv, Sufficient, AdviceHonoured, Gate
<1> USE DEF Typed, TableOK
<1>1. MemoryHit(k, reason, retry)
  BY DEF Gate, RedisHit, RedisUnheard
<1>2. table[k].left \in 0..Window /\ Limit[k] \in Nat /\ Limit[k] >= 1
  BY DEF Buckets
<1>3. \A j \in Keys : Held(k)[j] = table[j] \/ (table[j].left = 0 /\ Held(k)[j] = NoBucket)
  <2>1. \A j \in Keys : table[j].left \in 0..Window
    BY DEF Buckets
  <2>2. QED
    BY <2>1, WindowNat DEF Held, Purged
<1>4. \A j \in Keys : j # k => table'[j] = Held(k)[j] /\ advised'[j] = advised[j]
  BY <1>1 DEF MemoryHit, Gate, Held, Purged
<1>5. \A j \in Keys : j # k /\ advised'[j] # None => advised'[j] >= table'[j].left
  BY <1>3, <1>4 DEF AdviceInv, Sufficient, NoBucket
<1>6. reason = "over" => Held(k)[k].left > 0 /\ Held(k)[k] = table[k]
  BY <1>1, <1>2, <1>3 DEF MemoryHit, Reopened, Opened, Within, NoBucket
<1>7. reason = "over" => ~(advised[k] = 0)
  BY <1>2, <1>6, NoneAssumption DEF AdviceInv, Sufficient
<1>8. advised'[k] # None => advised'[k] >= table'[k].left
  <2>1. CASE reason = "over"
    <3>1. Reopened(k, Held(k)).left = table[k].left /\ table'[k] = Reopened(k, Held(k))
      <4>1. Counted(k, table[k]).left = table[k].left
        BY BucketSteps
      <4>2. QED
        BY <1>1, <1>6, <2>1, <4>1 DEF MemoryHit, Reopened, Held, Purged
    <3>2. retry = AtLeastOne(SecondsUp(table[k].left))
      BY <1>1, <2>1, <3>1 DEF MemoryHit
    <3>3. SecondsUp(table[k].left) \in Int /\ SecondsUp(table[k].left) * Second >= table[k].left
      BY <1>2, Upwards, WindowNat
    <3>4. retry >= SecondsUp(table[k].left)
      BY <3>2, <3>3 DEF AtLeastOne
    <3>5. retry * Second >= SecondsUp(table[k].left) * Second
      BY <3>3, <3>4, Monotone
    <3>6. retry * Second >= table[k].left
      <4> DEFINE m == retry * Second
                 n == SecondsUp(table[k].left) * Second
      <4>1. m \in Int /\ n \in Int /\ m >= n /\ n >= table[k].left
        BY <3>3, <3>5
      <4> HIDE DEF m, n
      <4>2. m >= table[k].left
        BY <1>2, <4>1
      <4>3. QED
        BY <4>2 DEF m
    <3>7. advised'[k] = retry * Second
      BY <2>1 DEF Gate, Allowed
    <3>8. QED
      BY <3>1, <3>6, <3>7
  <2>2. CASE reason = "full"
    <3>1. table'[k] = NoBucket
      BY <1>1, <2>2 DEF MemoryHit, Crowded
    <3>2. advised'[k] = retry * Second
      BY <2>2 DEF Gate, Allowed
    <3>3. QED
      BY <3>1, <3>2, Scaled, WindowNat DEF NoBucket
  <2>3. CASE reason = "passed"
    BY <2>3 DEF Gate, Allowed
  <2>4. QED
    BY <1>1, <2>1, <2>2, <2>3 DEF MemoryHit
<1>9. QED
  BY <1>5, <1>7, <1>8 DEF AdviceInv, Sufficient, AdviceHonoured, Gate

LEMMA AdviceStep == Typed /\ AdviceInv /\ [Next]_vars => AdviceInv'
<1> SUFFICES ASSUME Typed, AdviceInv, [Next]_vars
             PROVE  AdviceInv'
  OBVIOUS
<1>1. ASSUME NEW a \in Addresses, NEW s \in Subjects,
             FromAddress(a, s) \/ FromSubject(a, s)
      PROVE  AdviceInv'
  <2>1. PICK k \in Keys, reason \in Reasons, retry \in 1..WindowSeconds : Gate(k, reason, retry)
    BY <1>1 DEF FromAddress, FromSubject, Keys
  <2>2. QED
    BY <2>1, GateAdvice
<1>2. ASSUME NEW a \in Addresses, NEW s \in Subjects, WithoutSubject(a, s)
      PROVE  AdviceInv'
  BY <1>2 DEF WithoutSubject, Quiet, AdviceInv, Sufficient, AdviceHonoured
<1>3. CASE Tick
  <2>1. AdviceHonoured'
    BY <1>3 DEF Tick, Quiet, AdviceHonoured
  <2>2. ASSUME backend = "memory", NEW k \in Keys, advised'[k] # None
        PROVE  advised'[k] >= table'[k].left
    <3>1. table[k].left \in 0..Window /\ advised[k] \in 0..Window \cup {None}
      BY DEF Typed, TableOK, Buckets
    <3>2. advised[k] # None /\ advised[k] >= table[k].left
      BY <1>3, <2>2, <3>1 DEF Tick, AdviceInv, Sufficient
    <3>3. advised'[k] = IF advised[k] = 0 THEN 0 ELSE advised[k] - 1
      BY <1>3, <3>2 DEF Tick
    <3>4. table'[k].left = IF table[k].left > 0 THEN table[k].left - 1 ELSE table[k].left
      BY <1>3, <2>2 DEF Tick, Older, Typed, TableOK, Buckets
    <3>5. QED
      BY <3>1, <3>2, <3>3, <3>4, WindowNat
  <2>3. QED
    BY <1>3, <2>1, <2>2 DEF Tick, AdviceInv, Sufficient
<1>4. CASE Restart
  BY <1>4 DEF Restart, Quiet, AdviceInv, Sufficient, AdviceHonoured
<1>5. CASE UNCHANGED vars
  BY <1>5 DEF vars, AdviceInv, Sufficient, AdviceHonoured
<1>6. QED
  BY <1>1, <1>2, <1>3, <1>4, <1>5 DEF Next

\* Whoever waits as long as the memory limiter advised does not find its window used up.
THEOREM AdviceTrue == Spec => []AdviceHonoured
<1>1. Init => AdviceInv
  BY DEF Init, Quiet, AdviceInv, Sufficient, AdviceHonoured
<1>2. AdviceInv => AdviceHonoured
  BY DEF AdviceInv
<1>3. QED
  BY <1>1, <1>2, TypedInit, TypedStep, AdviceStep, PTL DEF Spec

-----------------------------------------------------------------------------
(***************************************************************************)
(* Refinement: a hit uses the key's window up by one or leaves it as it    *)
(* is, and only the first kind lets anything pass.                         *)
(***************************************************************************)
Counts == \A k \in Keys : table[k] # NoBucket => table[k].count >= 1

Left(k) == IF Open(k) THEN table[k].left ELSE 0

Used(k) ==
    /\ InWindow(k) < Limit[k]
    /\ InWindow(k)' = InWindow(k) + 1
    /\ Left(k)' = IF InWindow(k) = 0 THEN Window ELSE Left(k)

Same(k) == InWindow(k)' = InWindow(k) /\ Left(k)' = Left(k)

Hit(k) == IF Open(k) THEN Counted(k, table[k]) ELSE Opened

LEMMA Antisymmetric == \A m, n \in Nat : m >= n /\ m <= n => m = n
  OBVIOUS

LEMMA HitMaps ==
    ASSUME Typed, Counts, NEW k \in Keys, UNCHANGED backend, table'[k] = Hit(k)
    PROVE  IF Within(k, Hit(k)) THEN Used(k) ELSE Same(k)
<1> USE DEF Typed, TableOK, Counts, Buckets
<1>1. Limit[k] \in Nat /\ Limit[k] >= 1
  BY WindowNat
<1>2. CASE Open(k)
  <2>1. table[k].count \in Nat /\ table[k].count >= 1 /\ table[k].left \in Nat
    <3>1. table[k].count \in 0..(Limit[k] + 1) /\ table[k].left \in 0..Window
      OBVIOUS
    <3>2. table[k] # NoBucket
      BY <1>2 DEF Open, NoBucket
    <3>3. QED
      BY <1>1, <3>1, <3>2, WindowNat
  <2>2. table'[k].left = table[k].left
        /\ table'[k].count = IF table[k].count <= Limit[k] THEN table[k].count + 1 ELSE table[k].count
    BY <1>2 DEF Hit, Counted
  <2>3. Open(k)'
    BY <1>2, <2>1, <2>2 DEF Open, NoBucket
  <2>4. Within(k, Hit(k)) <=> table[k].count + 1 <= Limit[k]
    <3>1. Hit(k) = table'[k]
      OBVIOUS
    <3>2. QED
      BY <1>1, <2>1, <2>2, <3>1 DEF Within
  <2>5. Left(k) = table[k].left /\ Left(k)' = table[k].left
    BY <1>2, <2>2, <2>3 DEF Left
  <2>6. InWindow(k) = IF table[k].count <= Limit[k] THEN table[k].count ELSE Limit[k]
    BY <1>2 DEF InWindow
  <2>7. InWindow(k)' = IF table'[k].count <= Limit[k] THEN table'[k].count ELSE Limit[k]
    BY <2>3 DEF InWindow
  <2>8. CASE Within(k, Hit(k))
    <3>1. table[k].count < Limit[k] /\ table'[k].count = table[k].count + 1
      BY <1>1, <2>1, <2>2, <2>4, <2>8
    <3>2. InWindow(k) = table[k].count /\ InWindow(k)' = table[k].count + 1
      BY <1>1, <2>1, <2>6, <2>7, <3>1
    <3>3. QED
      BY <1>1, <2>1, <2>5, <2>8, <3>1, <3>2 DEF Used
  <2>9. CASE ~Within(k, Hit(k))
    <3>1. table[k].count >= Limit[k] /\ table'[k].count \in Nat /\ table'[k].count >= Limit[k]
      BY <1>1, <2>1, <2>2, <2>4, <2>9
    <3>2. InWindow(k) = Limit[k] /\ InWindow(k)' = Limit[k]
      BY <1>1, <2>1, <2>6, <2>7, <3>1, Antisymmetric
    <3>3. QED
      BY <2>5, <2>9, <3>2 DEF Same
  <2>10. QED
    BY <2>8, <2>9
<1>3. CASE ~Open(k)
  <2>1. table'[k].left = Window /\ table'[k].count = 1 /\ Within(k, Hit(k))
    BY <1>1, <1>3 DEF Hit, Opened, Within
  <2>2. table'[k] # NoBucket /\ table'[k].left > 0
    BY <2>1, WindowNat DEF NoBucket
  <2>3. Open(k)'
    BY <2>2 DEF Open
  <2>4. InWindow(k) = 0 /\ InWindow(k)' = 1 /\ Left(k)' = Window
    BY <1>1, <1>3, <2>1, <2>3 DEF InWindow, Left
  <2>5. QED
    BY <1>1, <2>1, <2>4 DEF Used
<1>4. QED
  BY <1>2, <1>3

\* A key whose bucket is kept, or is purged with nothing left, is as it was.
LEMMA KeptMaps ==
    ASSUME Typed, NEW k \in Keys, UNCHANGED backend,
           \/ table'[k] = table[k]
           \/ backend = "memory" /\ table[k].left = 0 /\ table'[k] = NoBucket
    PROVE  Same(k)
  BY DEF Same, InWindow, Left, Open, NoBucket

\* What each limiter does to the window of the key it is asked about, and of every other.
LEMMA GateMaps ==
    ASSUME Typed, Counts, NEW k \in Keys, NEW reason, NEW retry, Gate(k, reason, retry)
    PROVE  /\ \A j \in Keys : j # k => Same(j)
           /\ \/ Used(k) /\ (backend = "memory" => reason = "passed")
              \/ Same(k) /\ reason # "passed"
<1> USE DEF Typed, TableOK
<1>1. UNCHANGED backend
  BY DEF Gate
<1>2. CASE MemoryHit(k, reason, retry)
  <2>1. backend = "memory"
    BY <1>2 DEF MemoryHit
  <2>2. \A j \in Keys : Held(k)[j] = table[j] \/ (table[j].left = 0 /\ Held(k)[j] = NoBucket)
    <3>1. \A j \in Keys : table[j].left \in 0..Window
      BY DEF Buckets
    <3>2. QED
      BY <3>1, WindowNat DEF Held, Purged
  <2>3. \A j \in Keys : table'[j] = Held(k)[j] => Same(j)
    BY <1>1, <2>1, <2>2, KeptMaps
  <2>4. CASE Crowded(k, Held(k))
    BY <1>2, <2>3, <2>4 DEF MemoryHit
  <2>5. CASE ~Crowded(k, Held(k))
    <3>1. \A j \in Keys : j # k => table'[j] = Held(k)[j]
      BY <1>2, <2>5 DEF MemoryHit, Held, Purged
    <3>2. table'[k] = Reopened(k, Held(k))
      BY <1>2, <2>5 DEF MemoryHit, Held, Purged
    <3>3. Reopened(k, Held(k)) = Hit(k)
      BY <2>1, <2>2 DEF Reopened, Hit, Open, NoBucket
    <3>4. reason = IF Within(k, Hit(k)) THEN "passed" ELSE "over"
      BY <1>2, <2>5, <3>3 DEF MemoryHit
    <3>5. QED
      BY <1>1, <2>3, <3>1, <3>2, <3>3, <3>4, HitMaps
  <2>6. QED
    BY <2>4, <2>5
<1>3. CASE RedisHit(k, reason, retry) \/ RedisUnheard(k, reason, retry)
  <2>1. backend = "redis" /\ Incremented(k) = Hit(k)
    BY <1>3 DEF RedisHit, RedisUnheard, Incremented, Hit, Open
  <2>2. \A j \in Keys : table'[j] = table[j] => Same(j)
    BY <1>1, KeptMaps
  <2>3. \A j \in Keys : j # k => table'[j] = table[j]
    BY <1>3 DEF RedisHit, RedisUnheard
  <2>4. CASE RedisHit(k, reason, retry)
    BY <1>1, <2>1, <2>2, <2>3, <2>4, HitMaps DEF RedisHit
  <2>5. CASE RedisUnheard(k, reason, retry)
    BY <1>1, <2>1, <2>2, <2>3, <2>5, HitMaps DEF RedisUnheard
  <2>6. QED
    BY <1>3, <2>4, <2>5
<1>4. QED
  BY <1>2, <1>3 DEF Gate

LEMMA CountsStep == Typed /\ Counts /\ [Next]_vars => Counts'
<1> SUFFICES ASSUME Typed, Counts, [Next]_vars
             PROVE  Counts'
  OBVIOUS
<1> USE DEF Typed, TableOK
<1>1. \A k \in Keys : Counted(k, table[k]).count >= 1 \/ table[k] = NoBucket
  <2> SUFFICES ASSUME NEW k \in Keys, table[k] # NoBucket
               PROVE  Counted(k, table[k]).count >= 1
    OBVIOUS
  <2>1. table[k].count \in Nat /\ table[k].count >= 1 /\ Limit[k] \in Nat
    BY DEF Counts, Buckets
  <2>2. Counted(k, table[k]).count = IF table[k].count <= Limit[k] THEN table[k].count + 1
                                     ELSE table[k].count
    BY DEF Counted, Buckets
  <2>3. QED
    BY <2>1, <2>2
<1>2. ASSUME NEW k \in Keys, NEW reason, NEW retry, Gate(k, reason, retry)
      PROVE  Counts'
  <2>1. \A j \in Keys : Held(k)[j] \in {table[j], NoBucket}
    BY DEF Held, Purged
  <2>2. \A j \in Keys : j # k => table'[j] \in {table[j], NoBucket}
    BY <1>2, <2>1 DEF Gate, MemoryHit, RedisHit, RedisUnheard, Held, Purged
  <2>3. \/ table'[k] \in {table[k], NoBucket, Opened}
        \/ table[k] # NoBucket /\ table'[k] = Counted(k, table[k])
    <3>1. CASE MemoryHit(k, reason, retry)
      BY <2>1, <3>1 DEF MemoryHit, Held, Purged, Reopened, NoBucket
    <3>2. CASE RedisHit(k, reason, retry) \/ RedisUnheard(k, reason, retry)
      BY <3>2 DEF RedisHit, RedisUnheard, Incremented
    <3>3. QED
      BY <1>2, <3>1, <3>2 DEF Gate
  <2>4. QED
    BY <1>1, <2>2, <2>3 DEF Counts, Opened, NoBucket
<1>3. ASSUME NEW a \in Addresses, NEW s \in Subjects,
             FromAddress(a, s) \/ FromSubject(a, s)
      PROVE  Counts'
  BY <1>2, <1>3 DEF FromAddress, FromSubject, Keys
<1>4. CASE Tick
  <2>1. \A k \in Keys : \/ Older(table[k]) \in {NoBucket, table[k]}
                        \/ Older(table[k]).count = table[k].count /\ table[k] # NoBucket
    BY DEF Older, NoBucket, Buckets
  <2>2. QED
    BY <1>4, <2>1 DEF Tick, Counts
<1>5. CASE Restart
  BY <1>5 DEF Restart, Counts
<1>6. CASE UNCHANGED table
  BY <1>6 DEF Counts
<1>7. QED
  BY <1>3, <1>4, <1>5, <1>6 DEF Next, WithoutSubject, vars

-----------------------------------------------------------------------------
LEMMA GateRefines ==
    ASSUME ~FailOpen, Typed, Counts, NEW k \in Keys, NEW reason, NEW retry,
           Gate(k, reason, retry)
    PROVE  [Abstract!Next]_(Abstract!vars)
<1> DEFINE used == [j \in Keys |-> InWindow(j)]
           left == [j \in Keys |-> IF Open(j) THEN table[j].left ELSE 0]
<1>1. \A j \in Keys : j # k => used'[j] = used[j] /\ left'[j] = left[j]
  BY GateMaps DEF Same, Left
<1>2. CASE Used(k)
  <2>1. used[k] < Limit[k] /\ used'[k] = used[k] + 1
        /\ left'[k] = IF used[k] = 0 THEN Window ELSE left[k]
    BY <1>2 DEF Used, Left
  <2>2. used' = [used EXCEPT ![k] = @ + 1]
        /\ left' = [left EXCEPT ![k] = IF used[k] = 0 THEN Window ELSE @]
    BY <1>1, <2>1
  <2>3. recent' = [recent EXCEPT ![k][0] = @ + 1] \/ recent' = recent
    BY DEF Gate
  <2>4. Abstract!Pass(k) \/ Abstract!Waste(k)
    BY <2>1, <2>2, <2>3 DEF Abstract!Pass, Abstract!Waste
  <2>5. QED
    BY <2>4 DEF Abstract!Next
<1>3. CASE Same(k) /\ reason # "passed"
  <2>1. used' = used /\ left' = left
    BY <1>1, <1>3 DEF Same, Left
  <2>2. recent' = recent
    BY <1>3 DEF Gate, Allowed
  <2>3. QED
    BY <2>1, <2>2 DEF Abstract!vars
<1>4. QED
  BY <1>2, <1>3, GateMaps

\* A tick closes the windows of the memory limiter now, and those of Redis a tick later.
LEMMA TickMaps ==
    ASSUME Typed, Counts, Tick, NEW k \in Keys
    PROVE  /\ InWindow(k)' = IF Left(k) = 0 \/ (backend = "memory" /\ Left(k) = 1) THEN 0
                             ELSE InWindow(k)
           /\ Left(k)' = IF Left(k) = 0 THEN 0 ELSE Left(k) - 1
<1> USE DEF Typed, TableOK
<1>1. /\ table'[k] = Older(table[k]) /\ backend' = backend
      /\ table[k].left \in Nat /\ table[k].count \in Nat /\ Limit[k] \in Nat
  BY WindowNat DEF Tick, Buckets
<1>2. CASE table[k].left > 0
  <2>1. table'[k].left = table[k].left - 1 /\ table'[k].count = table[k].count
    BY <1>1, <1>2 DEF Older, Buckets
  <2>2. table[k] # NoBucket /\ table[k].count >= 1
    BY <1>2 DEF Counts, NoBucket
  <2>3. Open(k) /\ (Open(k)' <=> backend = "redis" \/ table[k].left # 1)
    BY <1>1, <1>2, <2>1, <2>2 DEF Open, NoBucket
  <2>4. Left(k) = table[k].left /\ Left(k)' = table[k].left - 1
    BY <1>1, <1>2, <2>1, <2>3 DEF Left
  <2>5. InWindow(k)' = IF backend = "memory" /\ Left(k) = 1 THEN 0 ELSE InWindow(k)
    BY <1>1, <2>1, <2>3, <2>4 DEF InWindow
  <2>6. QED
    BY <1>1, <1>2, <2>4, <2>5
<1>3. CASE table[k].left = 0
  <2>1. ~Open(k)'
    BY <1>1, <1>3 DEF Older, Open, NoBucket
  <2>2. Left(k) = 0 /\ Left(k)' = 0 /\ InWindow(k)' = 0
    BY <1>3, <2>1 DEF InWindow, Left
  <2>3. QED
    BY <2>2
<1>4. QED
  BY <1>1, <1>2, <1>3

LEMMA TickRefines ==
    ASSUME Typed, Counts, Tick
    PROVE  Abstract!Next
<1> DEFINE used == [j \in Keys |-> InWindow(j)]
           left == [j \in Keys |-> IF Open(j) THEN table[j].left ELSE 0]
           closing == IF backend = "memory" THEN {j \in Keys : left[j] = 1} ELSE {}
<1> USE DEF Typed, TableOK
<1>1. ASSUME NEW k \in Keys
      PROVE  /\ used'[k] = IF left[k] = 0 \/ k \in closing THEN 0 ELSE used[k]
             /\ left'[k] = IF left[k] = 0 THEN 0 ELSE left[k] - 1
  <2>1. used[k] = InWindow(k) /\ used'[k] = InWindow(k)' /\ left[k] = Left(k) /\ left'[k] = Left(k)'
    BY <1>1 DEF Left
  <2>2. k \in closing <=> backend = "memory" /\ Left(k) = 1
    BY <1>1, <2>1
  <2>3. QED
    BY <1>1, <2>1, <2>2, TickMaps
<1>2. recent' = Abstract!Aged(recent)
  BY DEF Tick, Abstract!Aged, Ages, Abstract!Ages
<1>3. closing \subseteq {j \in Keys : left[j] = 1} /\ closing \in SUBSET Keys
  OBVIOUS
<1>4. /\ used' = [j \in Keys |-> IF left[j] = 0 \/ j \in closing THEN 0 ELSE used[j]]
      /\ left' = [j \in Keys |-> IF left[j] = 0 THEN 0 ELSE left[j] - 1]
  BY <1>1
<1>5. PICK c \in SUBSET Keys : c = closing
  BY <1>3, Zenon
<1> HIDE DEF closing
<1>6. Abstract!Tick(c)
  BY <1>2, <1>3, <1>4, <1>5 DEF Abstract!Tick
<1>7. QED
  BY <1>6 DEF Abstract!Next

LEMMA StepRefines ==
    ~FailOpen /\ Typed /\ Counts /\ [Next]_vars => [Abstract!Next]_(Abstract!vars)
<1> SUFFICES ASSUME ~FailOpen, Typed, Counts, [Next]_vars
             PROVE  [Abstract!Next]_(Abstract!vars)
  OBVIOUS
<1>1. ASSUME NEW a \in Addresses, NEW s \in Subjects,
             FromAddress(a, s) \/ FromSubject(a, s)
      PROVE  [Abstract!Next]_(Abstract!vars)
  <2>1. PICK k \in Keys, reason \in Reasons, retry \in 1..WindowSeconds : Gate(k, reason, retry)
    BY <1>1 DEF FromAddress, FromSubject, Keys
  <2>2. QED
    BY <2>1, GateRefines
<1>2. CASE Tick
  BY <1>2, TickRefines
<1>3. CASE Restart
  <2>1. \A k \in Keys : ~Open(k)'
    BY <1>3 DEF Restart, Open, NoBucket
  <2>2. Abstract!Restart
    BY <1>3, <2>1 DEF Restart, Abstract!Restart, InWindow, Nothing, Abstract!Nothing, Ages,
       Abstract!Ages
  <2>3. QED
    BY <2>2 DEF Abstract!Next
<1>4. CASE UNCHANGED <<backend, table, recent>>
  BY <1>4 DEF Abstract!vars, InWindow, Open
<1>5. QED
  BY <1>1, <1>2, <1>3, <1>4 DEF Next, WithoutSubject, vars

\* Under the fail-closed policy both limiters implement the fixed window.
THEOREM Refinement == ASSUME ~FailOpen PROVE Spec => ImplementsFixedWindow
<1>1. Init => Abstract!Init
  <2> SUFFICES ASSUME Init
               PROVE  Abstract!Init
    OBVIOUS
  <2>1. \A k \in Keys : ~Open(k)
    BY DEF Init, Open, NoBucket
  <2>2. QED
    BY <2>1 DEF Init, Abstract!Init, InWindow, Nothing, Abstract!Nothing, Ages, Abstract!Ages
<1>2. Init => Counts
  BY DEF Init, Counts
<1>3. Typed /\ Counts /\ [Next]_vars => [Abstract!Next]_(Abstract!vars)
  BY StepRefines
<1>4. QED
  BY <1>1, <1>2, <1>3, TypedInit, TypedStep, CountsStep, PTL
     DEF Spec, ImplementsFixedWindow, Abstract!Spec

-----------------------------------------------------------------------------
(***************************************************************************)
(* The rate.  Of a key's recent passes r those of the open window are e    *)
(* ticks old at the most, and those before belong to one window more: the  *)
(* window before that one was opened Window ticks before it.               *)
(***************************************************************************)
Made(r) == UNION {{a} \X (1..r[a]) : a \in Ages}

Since(r, e) == {p \in Made(r) : p[1] <= e}

Before(r, e) == {p \in Made(r) : p[1] > e}

\* r for a key with u passes in its window, which has l ticks left.
RateOK(r, u, l, limit, memory) ==
    /\ IsFiniteSet(Made(r))
    /\ ~FailOpen =>
          /\ Cardinality(Since(r, Window - l)) <= IF u > 0 THEN u ELSE limit
          /\ Cardinality(Before(r, Window - l)) <= limit
          /\ u = 0 => r[0] = 0
    /\ memory => Cardinality(Since(r, Window - l)) >= u

RateInv == \A k \in Keys : RateOK(recent[k], InWindow(k), Left(k), Limit[k], backend = "memory")

OneMore(r) == [r EXCEPT ![0] = @ + 1]

Older1(r) == [a \in Ages |-> IF a = 0 THEN 0 ELSE r[a - 1]]

LEMMA AgesAre == \A a : a \in Ages <=> a \in Nat /\ a < Window
  BY WindowNat DEF Ages

LEMMA Pairs ==
    ASSUME NEW r
    PROVE  /\ \A a, i : <<a, i>> \in Made(r) <=> a \in Ages /\ i \in 1..r[a]
           /\ \A p \in Made(r) : p = <<p[1], p[2]>> /\ p[1] \in Ages /\ p[2] \in 1..r[p[1]]
  BY DEF Made

LEMMA Portions ==
    ASSUME NEW r, IsFiniteSet(Made(r)), NEW e \in Int
    PROVE  /\ IsFiniteSet(Since(r, e)) /\ IsFiniteSet(Before(r, e))
           /\ Cardinality(Since(r, e)) \in Nat /\ Cardinality(Before(r, e)) \in Nat
           /\ Cardinality(Before(r, e)) <= Cardinality(Made(r))
           /\ e >= Window - 1 => Since(r, e) = Made(r) /\ Cardinality(Before(r, e)) = 0
<1>1. Since(r, e) \in SUBSET Made(r) /\ Before(r, e) \in SUBSET Made(r)
  BY DEF Since, Before
<1>2. IsFiniteSet(Since(r, e)) /\ IsFiniteSet(Before(r, e))
      /\ Cardinality(Before(r, e)) <= Cardinality(Made(r))
  BY <1>1, FS_Subset
<1>3. ASSUME e >= Window - 1
      PROVE  Since(r, e) = Made(r) /\ Before(r, e) = {}
  <2>1. \A p \in Made(r) : p[1] <= e /\ ~(p[1] > e)
    <3> SUFFICES ASSUME NEW p \in Made(r)
                 PROVE  p[1] <= e /\ ~(p[1] > e)
      OBVIOUS
    <3>1. p[1] \in Nat /\ p[1] < Window
      BY Pairs, AgesAre
    <3> QED BY <1>3, <3>1, WindowNat
  <2> QED BY <2>1 DEF Since, Before
<1> QED BY <1>2, <1>3, FS_CardinalityType, FS_EmptySet

LEMMA Cancels == \A m, n, d \in Int : m + d = n + d => m = n
  OBVIOUS

\* All pairs of S, moved by d ticks, are in T.
LEMMA Shifted ==
    ASSUME NEW S, NEW T, IsFiniteSet(T), NEW d \in Int,
           \A p \in S : p = <<p[1], p[2]>> /\ p[1] \in Int /\ <<p[1] + d, p[2]>> \in T
    PROVE  IsFiniteSet(S) /\ Cardinality(S) <= Cardinality(T)
<1> DEFINE f == [p \in S |-> <<p[1] + d, p[2]>>]
<1>1. f \in [S -> T]
  OBVIOUS
<1>2. ASSUME NEW p \in S, NEW q \in S, f[p] = f[q]
      PROVE  p = q
  <2>1. p[1] + d = q[1] + d /\ p[2] = q[2] /\ p[1] \in Int /\ q[1] \in Int
    BY <1>2
  <2> HIDE DEF f
  <2>2. p[1] = q[1]
    BY <2>1, Cancels
  <2> QED BY <2>1, <2>2
<1>3. f \in Injection(S, T)
  BY <1>1, <1>2 DEF Injection, IsInjective
<1> QED BY <1>3, FS_Injection

LEMMA Grown ==
    ASSUME NEW r \in [Ages -> Nat], IsFiniteSet(Made(r)), NEW e \in Nat
    PROVE  /\ IsFiniteSet(Made(OneMore(r)))
           /\ Cardinality(Since(OneMore(r), e)) = Cardinality(Since(r, e)) + 1
           /\ Before(OneMore(r), e) = Before(r, e)
<1> DEFINE n == <<0, r[0] + 1>>
<1>1. 0 \in Ages /\ r[0] \in Nat
  BY WindowNat, AgesAre
<1>2. Made(OneMore(r)) = Made(r) \cup {n} /\ n \notin Made(r)
  <2>1. ASSUME NEW a, NEW i
        PROVE  <<a, i>> \in Made(OneMore(r)) <=> <<a, i>> \in Made(r) \/ <<a, i>> = n
    <3>1. CASE a = 0
      <4>1. OneMore(r)[a] = r[0] + 1
        BY <1>1, <3>1 DEF OneMore
      <4>2. \A j : j \in 1..(r[0] + 1) <=> j \in 1..r[0] \/ j = r[0] + 1
        BY <1>1
      <4> QED BY <1>1, <3>1, <4>1, <4>2, Pairs
    <3>2. CASE a # 0
      <4>1. a \in Ages => OneMore(r)[a] = r[a]
        BY <3>2 DEF OneMore
      <4> QED BY <3>2, <4>1, Pairs
    <3> QED BY <3>1, <3>2
  <2>2. n \notin Made(r)
    BY <1>1, Pairs
  <2>3. ASSUME NEW p
        PROVE  p \in Made(OneMore(r)) <=> p \in Made(r) \cup {n}
    <3>1. p \in Made(OneMore(r)) => p \in Made(r) \cup {n}
      <4> SUFFICES ASSUME p \in Made(OneMore(r))
                   PROVE  p \in Made(r) \cup {n}
        OBVIOUS
      <4>1. PICK a, i : p = <<a, i>>
        BY Pairs
      <4> QED BY <2>1, <4>1
    <3>2. p \in Made(r) \cup {n} => p \in Made(OneMore(r))
      <4> SUFFICES ASSUME p \in Made(r) \cup {n}
                   PROVE  p \in Made(OneMore(r))
        OBVIOUS
      <4>1. PICK a, i : p = <<a, i>>
        BY Pairs
      <4> QED BY <2>1, <4>1
    <3> QED BY <3>1, <3>2
  <2> QED BY <2>2, <2>3
<1>3. IsFiniteSet(Made(OneMore(r)))
  <2> HIDE DEF n
  <2> QED BY <1>2, FS_AddElement, Zenon
<1>4. Since(OneMore(r), e) = Since(r, e) \cup {n} /\ n \notin Since(r, e)
      /\ Before(OneMore(r), e) = Before(r, e)
  BY <1>2 DEF Since, Before
<1> HIDE DEF n
<1>5. Cardinality(Since(r, e) \cup {n}) = Cardinality(Since(r, e)) + 1
  <2>1. IsFiniteSet(Since(r, e))
    BY Portions
  <2> QED BY <1>4, <2>1, FS_AddElement
<1> QED BY <1>3, <1>4, <1>5

LEMMA Aged ==
    ASSUME NEW r \in [Ages -> Nat], IsFiniteSet(Made(r)), NEW e \in Nat
    PROVE  /\ Older1(r)[0] = 0
           /\ IsFiniteSet(Made(Older1(r))) /\ Cardinality(Made(Older1(r))) <= Cardinality(Made(r))
           /\ Cardinality(Since(Older1(r), e + 1)) <= Cardinality(Since(r, e))
           /\ Cardinality(Before(Older1(r), e + 1)) <= Cardinality(Before(r, e))
           /\ e + 1 < Window => Cardinality(Since(r, e)) <= Cardinality(Since(Older1(r), e + 1))
<1> DEFINE s == Older1(r)
<1>1. s[0] = 0 /\ \A a \in Ages : a # 0 => a - 1 \in Ages /\ s[a] = r[a - 1]
  BY WindowNat, AgesAre DEF Older1
<1>2. ASSUME NEW p \in Made(s)
      PROVE  /\ p = <<p[1], p[2]>> /\ p[1] \in Int /\ <<p[1] + (-1), p[2]>> \in Made(r)
             /\ p[1] <= e + 1 => <<p[1] + (-1), p[2]>> \in Since(r, e)
             /\ p[1] > e + 1 => <<p[1] + (-1), p[2]>> \in Before(r, e)
  <2>1. p = <<p[1], p[2]>> /\ p[1] \in Ages /\ p[2] \in 1..s[p[1]]
    BY Pairs
  <2>2. p[1] # 0
    BY <1>1, <2>1
  <2>3. p[1] - 1 \in Ages /\ p[2] \in 1..r[p[1] - 1] /\ p[1] \in Nat /\ p[1] + (-1) = p[1] - 1
    BY <1>1, <2>1, <2>2, AgesAre
  <2>4. <<p[1] + (-1), p[2]>> \in Made(r)
    BY <2>3, Pairs
  <2>5. (p[1] <= e + 1 => p[1] + (-1) <= e) /\ (p[1] > e + 1 => p[1] + (-1) > e)
    BY <2>3
  <2> QED BY <2>1, <2>3, <2>4, <2>5 DEF Since, Before
<1>3. ASSUME NEW p \in Since(r, e), e + 1 < Window
      PROVE  p = <<p[1], p[2]>> /\ p[1] \in Int /\ <<p[1] + 1, p[2]>> \in Since(s, e + 1)
  <2>1. p = <<p[1], p[2]>> /\ p[1] \in Ages /\ p[2] \in 1..r[p[1]] /\ p[1] <= e
    BY Pairs DEF Since
  <2>2. p[1] \in Nat /\ p[1] + 1 \in Ages /\ p[1] + 1 # 0 /\ p[1] + 1 - 1 = p[1] /\ p[1] + 1 <= e + 1
    BY <1>3, <2>1, AgesAre, WindowNat
  <2>3. s[p[1] + 1] = r[p[1]]
    BY <1>1, <2>2
  <2>4. <<p[1] + 1, p[2]>> \in Made(s)
    BY <2>1, <2>2, <2>3, Pairs
  <2> QED BY <2>1, <2>2, <2>4 DEF Since
<1> HIDE DEF s
<1>4. IsFiniteSet(Since(r, e)) /\ IsFiniteSet(Before(r, e))
  BY Portions
<1>5. IsFiniteSet(Made(s)) /\ Cardinality(Made(s)) <= Cardinality(Made(r))
  <2>1. -1 \in Int
    OBVIOUS
  <2> QED BY <1>2, <2>1, Shifted, Zenon
<1>6. IsFiniteSet(Since(s, e + 1))
  BY <1>5, Portions
<1>7. Cardinality(Since(s, e + 1)) <= Cardinality(Since(r, e))
  <2>1. ASSUME NEW p \in Since(s, e + 1)
        PROVE  p = <<p[1], p[2]>> /\ p[1] \in Int /\ <<p[1] + (-1), p[2]>> \in Since(r, e)
    <3>1. p \in Made(s) /\ p[1] <= e + 1
      BY DEF Since
    <3> QED BY <1>2, <3>1
  <2>2. -1 \in Int
    OBVIOUS
  <2> QED BY <1>4, <2>1, <2>2, Shifted, Zenon
<1>8. Cardinality(Before(s, e + 1)) <= Cardinality(Before(r, e))
  <2>1. ASSUME NEW p \in Before(s, e + 1)
        PROVE  p = <<p[1], p[2]>> /\ p[1] \in Int /\ <<p[1] + (-1), p[2]>> \in Before(r, e)
    <3>1. p \in Made(s) /\ p[1] > e + 1
      BY DEF Before
    <3> QED BY <1>2, <3>1
  <2>2. -1 \in Int
    OBVIOUS
  <2> QED BY <1>4, <2>1, <2>2, Shifted, Zenon
<1>9. e + 1 < Window => Cardinality(Since(r, e)) <= Cardinality(Since(s, e + 1))
  <2>1. 1 \in Int
    OBVIOUS
  <2> QED BY <1>3, <1>6, <2>1, Shifted, Zenon
<1> QED BY <1>1, <1>5, <1>7, <1>8, <1>9 DEF s

-----------------------------------------------------------------------------
\* A pass, or in Redis a hit whose answer was lost, is counted in the key's window.
LEMMA RatePass ==
    ASSUME NEW r \in [Ages -> Nat], NEW u \in Nat, NEW l \in 0..Window, NEW limit \in Nat,
           NEW memory \in BOOLEAN, RateOK(r, u, l, limit, memory), u < limit, u = 0 => l = 0,
           NEW q, q = OneMore(r) \/ (q = r /\ ~memory)
    PROVE  RateOK(q, u + 1, IF u = 0 THEN Window ELSE l, limit, memory)
<1> DEFINE e == Window - l
           d == IF u = 0 THEN 0 ELSE e
<1>1. e \in Nat /\ d \in Nat /\ d = Window - (IF u = 0 THEN Window ELSE l)
  BY WindowNat
<1>2. /\ IsFiniteSet(Made(r))
      /\ ~FailOpen => /\ Cardinality(Since(r, e)) <= IF u > 0 THEN u ELSE limit
                      /\ Cardinality(Before(r, e)) <= limit
                      /\ u = 0 => r[0] = 0
      /\ memory => Cardinality(Since(r, e)) >= u
  BY DEF RateOK
<1>3. u = 0 => e = Window
  BY <1>1, WindowNat
<1>4. 0 \in Ages /\ r[0] \in Nat
  BY WindowNat, AgesAre
<1> HIDE DEF e
<1>5. /\ Cardinality(Since(r, e)) \in Nat /\ Cardinality(Before(r, e)) \in Nat
      /\ Cardinality(Since(r, d)) \in Nat /\ Cardinality(Before(r, d)) \in Nat
      /\ Cardinality(Before(r, d)) <= Cardinality(Made(r))
      /\ e >= Window - 1 => Since(r, e) = Made(r)
  <2>1. e \in Int /\ d \in Int
    BY <1>1
  <2> HIDE DEF d
  <2> QED BY <1>2, <2>1, Portions
\* What the window has now, and what went before it.
<1>6. /\ ~FailOpen => Cardinality(Since(r, d)) <= u /\ Cardinality(Before(r, d)) <= limit
      /\ memory => Cardinality(Since(r, d)) >= u
  <2>1. CASE u = 0
    <3>1. d = 0 /\ Since(r, e) = Made(r)
      BY <1>3, <1>5, <2>1, WindowNat
    <3>2. ASSUME ~FailOpen PROVE Cardinality(Since(r, 0)) = 0
      <4>1. r[0] = 0
        BY <1>2, <2>1, <3>2
      <4>2. ASSUME NEW p \in Since(r, 0) PROVE FALSE
        <5>1. p \in Made(r) /\ p[1] <= 0
          BY DEF Since
        <5>2. p[1] \in Ages /\ p[2] \in 1..r[p[1]]
          BY <5>1, Pairs
        <5>3. p[1] = 0
          BY <5>1, <5>2, AgesAre
        <5> QED BY <4>1, <5>2, <5>3
      <4>3. Since(r, 0) = {}
        BY <4>2
      <4> QED BY <4>3, FS_EmptySet
    <3>3. ~FailOpen => Cardinality(Before(r, d)) <= limit
      <4>1. ~FailOpen => Cardinality(Made(r)) <= limit
        BY <1>2, <2>1, <3>1
      <4>2. Cardinality(Made(r)) \in Nat
        BY <1>2, FS_CardinalityType
      <4> HIDE DEF d
      <4> QED BY <1>5, <4>1, <4>2
    <3> QED BY <1>5, <2>1, <3>1, <3>2, <3>3
  <2>2. CASE u # 0
    BY <1>2, <2>2
  <2> QED BY <2>1, <2>2
<1> HIDE DEF d
<1>7. CASE q = OneMore(r)
  <2>1. /\ IsFiniteSet(Made(q))
        /\ Cardinality(Since(q, d)) = Cardinality(Since(r, d)) + 1
        /\ Before(q, d) = Before(r, d)
    BY <1>1, <1>2, <1>7, Grown
  <2> QED BY <1>1, <1>5, <1>6, <2>1 DEF RateOK
<1>8. CASE q = r /\ ~memory
  BY <1>1, <1>2, <1>5, <1>6, <1>8 DEF RateOK
<1> QED BY <1>7, <1>8

\* A tick: the window is one tick older, or ends.
LEMMA RateTick ==
    ASSUME NEW r \in [Ages -> Nat], NEW u \in Nat, NEW l \in 0..Window, NEW limit \in Nat,
           NEW memory \in BOOLEAN, RateOK(r, u, l, limit, memory), u <= limit, l > 0 => u > 0,
           memory /\ u > 0 => l > 0
    PROVE  RateOK(Older1(r), IF l = 0 \/ (memory /\ l = 1) THEN 0 ELSE u,
                  IF l = 0 THEN 0 ELSE l - 1, limit, memory)
<1> DEFINE e == Window - l
           v == IF l = 0 \/ (memory /\ l = 1) THEN 0 ELSE u
           k == IF l = 0 THEN 0 ELSE l - 1
<1>1. e \in Nat /\ v \in Nat /\ k \in Nat
  BY WindowNat
<1>2. /\ IsFiniteSet(Made(r))
      /\ ~FailOpen => /\ Cardinality(Since(r, e)) <= IF u > 0 THEN u ELSE limit
                      /\ Cardinality(Before(r, e)) <= limit
      /\ memory => Cardinality(Since(r, e)) >= u
  BY DEF RateOK
<1>3. /\ Older1(r)[0] = 0
      /\ IsFiniteSet(Made(Older1(r))) /\ Cardinality(Made(Older1(r))) <= Cardinality(Made(r))
      /\ Cardinality(Since(Older1(r), e + 1)) <= Cardinality(Since(r, e))
      /\ Cardinality(Before(Older1(r), e + 1)) <= Cardinality(Before(r, e))
      /\ e + 1 < Window => Cardinality(Since(r, e)) <= Cardinality(Since(Older1(r), e + 1))
  <2> HIDE DEF e
  <2> QED BY <1>1, <1>2, Aged
<1>4. /\ Cardinality(Since(r, e)) \in Nat /\ Cardinality(Before(r, e)) \in Nat
      /\ e >= Window - 1 => Since(r, e) = Made(r)
  <2>1. e \in Int
    BY <1>1
  <2> HIDE DEF e
  <2> QED BY <1>2, <2>1, Portions
<1>5. Window - k \in Int
  BY <1>1, WindowNat
<1>6. /\ Cardinality(Since(Older1(r), Window - k)) \in Nat
      /\ Cardinality(Before(Older1(r), Window - k)) \in Nat
      /\ Window - k >= Window - 1 => /\ Since(Older1(r), Window - k) = Made(Older1(r))
                                     /\ Cardinality(Before(Older1(r), Window - k)) = 0
  <2> HIDE DEF k
  <2> QED BY <1>3, <1>5, Portions
<1>7. CASE l = 0
  <2>1. k = 0 /\ v = 0 /\ e = Window
    BY <1>7, WindowNat
  <2>2. Since(r, e) = Made(r) /\ Since(Older1(r), Window - k) = Made(Older1(r))
        /\ Cardinality(Before(Older1(r), Window - k)) = 0
    BY <1>4, <1>6, <2>1, WindowNat
  <2>3. ~FailOpen => Cardinality(Since(r, e)) <= limit
    BY <1>2, <1>4
  <2>4. ~FailOpen => Cardinality(Since(Older1(r), Window - k)) <= limit
    <3> HIDE DEF e, k
    <3> QED BY <1>3, <1>4, <1>6, <2>2, <2>3
  <2> HIDE DEF e, k, v
  <2> QED BY <1>3, <1>6, <2>1, <2>2, <2>4 DEF RateOK, v, k
<1>8. CASE l # 0
  <2>1. k = l - 1 /\ Window - k = e + 1 /\ u > 0 /\ (v = u \/ v = 0)
        /\ (memory /\ v > 0 => e + 1 < Window)
    BY <1>8, WindowNat
  <2>2. ~FailOpen => /\ Cardinality(Since(r, e)) <= u /\ Cardinality(Before(r, e)) <= limit
    BY <1>2, <2>1
  <2>3. ~FailOpen => /\ Cardinality(Since(Older1(r), Window - k)) <= u
                     /\ Cardinality(Before(Older1(r), Window - k)) <= limit
    <3> HIDE DEF e, k
    <3> QED BY <1>3, <1>4, <1>6, <2>1, <2>2
  <2>4. memory => Cardinality(Since(Older1(r), Window - k)) >= v
    <3> HIDE DEF e, k, v
    <3> QED BY <1>1, <1>2, <1>3, <1>4, <1>6, <2>1
  <2>5. ~FailOpen => Cardinality(Since(Older1(r), Window - k)) <= IF v > 0 THEN v ELSE limit
    <3> HIDE DEF e, k, v
    <3> QED BY <1>6, <2>1, <2>3
  <2> HIDE DEF e, k, v
  <2>6. RateOK(Older1(r), v, k, limit, memory)
    BY <1>3, <2>3, <2>4, <2>5 DEF RateOK
  <2> QED BY <2>6 DEF v, k
<1> QED BY <1>7, <1>8

-----------------------------------------------------------------------------
LEMMA WindowFacts ==
    ASSUME Typed, Counts, NEW k \in Keys
    PROVE  /\ InWindow(k) \in Nat /\ Left(k) \in 0..Window /\ Limit[k] \in Nat /\ Limit[k] >= 1
           /\ InWindow(k) <= Limit[k] /\ (Left(k) > 0 => InWindow(k) > 0)
           /\ InWindow(k) = 0 => Left(k) = 0
           /\ backend = "memory" /\ InWindow(k) > 0 => Left(k) > 0
<1>1. table[k].count \in Nat /\ table[k].left \in 0..Window /\ Limit[k] \in Nat /\ Limit[k] >= 1
  BY DEF Typed, TableOK, Buckets
<1>2. Open(k) => table[k].count >= 1
  BY <1>1 DEF Open, NoBucket, Counts
<1>3. InWindow(k) = IF ~Open(k) THEN 0 ELSE IF table[k].count <= Limit[k] THEN table[k].count ELSE Limit[k]
  BY DEF InWindow
<1>4. Left(k) = IF Open(k) THEN table[k].left ELSE 0
  BY DEF Left
<1>5. backend = "memory" /\ Open(k) => table[k].left > 0
  BY DEF Open
<1> QED BY <1>1, <1>2, <1>3, <1>4, <1>5, WindowNat

LEMMA RateGate ==
    ASSUME Typed, Counts, RateInv, NEW k \in Keys, NEW reason, NEW retry, Gate(k, reason, retry)
    PROVE  RateInv'
<1>1. /\ \A j \in Keys : j # k => Same(j)
      /\ \/ Used(k) /\ (backend = "memory" => reason = "passed")
         \/ Same(k) /\ reason # "passed"
  BY GateMaps
<1>2. backend' = backend /\ \A j \in Keys : j # k => recent'[j] = recent[j]
  BY DEF Gate, Typed
<1>3. recent'[k] = OneMore(recent[k]) \/ (recent'[k] = recent[k] /\ reason # "passed")
  BY DEF Gate, Typed, OneMore, Allowed
<1>4. recent[k] \in [Ages -> Nat] /\ RateOK(recent[k], InWindow(k), Left(k), Limit[k], backend = "memory")
  BY DEF Typed, RateInv
<1>5. ASSUME NEW j \in Keys, j # k
      PROVE  RateOK(recent[j], InWindow(j), Left(j), Limit[j], backend = "memory")'
  <2>1. InWindow(j)' = InWindow(j) /\ Left(j)' = Left(j) /\ recent'[j] = recent[j]
    BY <1>1, <1>2, <1>5 DEF Same
  <2>2. RateOK(recent[j], InWindow(j), Left(j), Limit[j], backend = "memory")
    BY DEF RateInv
  <2> QED BY <1>2, <2>1, <2>2
<1>6. CASE Used(k) /\ (backend = "memory" => reason = "passed")
  <2>1. InWindow(k) < Limit[k] /\ InWindow(k)' = InWindow(k) + 1
        /\ Left(k)' = IF InWindow(k) = 0 THEN Window ELSE Left(k)
    BY <1>6 DEF Used
  <2>2. /\ InWindow(k) \in Nat /\ Left(k) \in 0..Window /\ Limit[k] \in Nat
        /\ InWindow(k) = 0 => Left(k) = 0
    BY WindowFacts
  <2>3. recent'[k] = OneMore(recent[k]) \/ (recent'[k] = recent[k] /\ backend # "memory")
    BY <1>3, <1>6
  <2>4. (backend = "memory") \in BOOLEAN
    OBVIOUS
  <2>5. RateOK(recent'[k], InWindow(k) + 1, IF InWindow(k) = 0 THEN Window ELSE Left(k), Limit[k],
               backend = "memory")
    BY <1>4, <2>1, <2>2, <2>3, <2>4, RatePass
  <2>6. RateOK(recent[k], InWindow(k), Left(k), Limit[k], backend = "memory")'
    BY <1>2, <2>1, <2>5
  <2> QED BY <1>5, <2>6 DEF RateInv
<1>7. CASE Same(k) /\ reason # "passed"
  <2>1. InWindow(k)' = InWindow(k) /\ Left(k)' = Left(k)
    BY <1>7 DEF Same
  <2>2. CASE recent'[k] = recent[k]
    <3>1. RateOK(recent[k], InWindow(k), Left(k), Limit[k], backend = "memory")'
      BY <1>2, <1>4, <2>1, <2>2
    <3> QED BY <1>5, <3>1 DEF RateInv
  <2>3. CASE recent'[k] # recent[k]
    <3>1. Allowed(reason)
      BY <2>3 DEF Gate
    <3>2. FailOpen /\ backend # "memory"
      <4>1. FailOpen /\ reason = "unheard"
        BY <1>7, <3>1 DEF Allowed
      <4>2. ~MemoryHit(k, reason, retry)
        BY <4>1 DEF MemoryHit
      <4> QED BY <4>1, <4>2 DEF Gate, RedisHit, RedisUnheard
    <3>3. recent'[k] = OneMore(recent[k])
      BY <1>3, <2>3
    <3>4. IsFiniteSet(Made(OneMore(recent[k])))
      <4>1. 0 \in Nat /\ IsFiniteSet(Made(recent[k]))
        BY <1>4 DEF RateOK
      <4> QED BY <1>4, <4>1, Grown
    <3>5. RateOK(recent[k], InWindow(k), Left(k), Limit[k], backend = "memory")'
      BY <1>2, <3>2, <3>3, <3>4 DEF RateOK
    <3> QED BY <1>5, <3>5 DEF RateInv
  <2> QED BY <2>2, <2>3
<1> QED BY <1>1, <1>6, <1>7

LEMMA NothingMade ==
    ASSUME NEW r, r = [a \in Ages |-> 0], NEW limit \in Nat, NEW memory
    PROVE  RateOK(r, 0, 0, limit, memory)
<1>1. Made(r) = {} /\ r[0] = 0
  BY Pairs, AgesAre, WindowNat
<1>2. Since(r, Window - 0) = {} /\ Before(r, Window - 0) = {}
  BY <1>1 DEF Since, Before
<1>3. /\ IsFiniteSet(Made(r)) /\ Cardinality(Since(r, Window - 0)) = 0
      /\ Cardinality(Before(r, Window - 0)) = 0
  BY <1>1, <1>2, FS_EmptySet
<1> QED BY <1>1, <1>3 DEF RateOK

LEMMA RateStep == Typed /\ Counts /\ RateInv /\ [Next]_vars => RateInv'
<1> SUFFICES ASSUME Typed, Counts, RateInv, [Next]_vars
             PROVE  RateInv'
  OBVIOUS
<1>1. ASSUME NEW a \in Addresses, NEW s \in Subjects, FromAddress(a, s) \/ FromSubject(a, s)
      PROVE  RateInv'
  <2>1. PICK k \in Keys, reason \in Reasons, retry \in 1..WindowSeconds : Gate(k, reason, retry)
    BY <1>1 DEF FromAddress, FromSubject, Keys
  <2> QED BY <2>1, RateGate
<1>2. CASE Tick
  <2>1. ASSUME NEW k \in Keys
        PROVE  RateOK(recent[k], InWindow(k), Left(k), Limit[k], backend = "memory")'
    <3>1. recent'[k] = Older1(recent[k]) /\ backend' = backend /\ recent[k] \in [Ages -> Nat]
      BY <1>2 DEF Tick, Older1, Typed
    <3>2. /\ InWindow(k)' = IF Left(k) = 0 \/ (backend = "memory" /\ Left(k) = 1) THEN 0
                            ELSE InWindow(k)
          /\ Left(k)' = IF Left(k) = 0 THEN 0 ELSE Left(k) - 1
      BY <1>2, TickMaps
    <3>3. RateOK(recent[k], InWindow(k), Left(k), Limit[k], backend = "memory")
      BY DEF RateInv
    <3>4. /\ InWindow(k) \in Nat /\ Left(k) \in 0..Window /\ Limit[k] \in Nat
          /\ InWindow(k) <= Limit[k] /\ (Left(k) > 0 => InWindow(k) > 0)
          /\ backend = "memory" /\ InWindow(k) > 0 => Left(k) > 0
          /\ (backend = "memory") \in BOOLEAN
      BY WindowFacts
    <3>5. RateOK(Older1(recent[k]),
                 IF Left(k) = 0 \/ (backend = "memory" /\ Left(k) = 1) THEN 0 ELSE InWindow(k),
                 IF Left(k) = 0 THEN 0 ELSE Left(k) - 1, Limit[k], backend = "memory")
      BY <3>1, <3>3, <3>4, RateTick
    <3> QED BY <3>1, <3>2, <3>5
  <2> QED BY <2>1 DEF RateInv
<1>3. CASE Restart
  <2>1. ASSUME NEW k \in Keys
        PROVE  RateOK(recent[k], InWindow(k), Left(k), Limit[k], backend = "memory")'
    <3>1. recent'[k] = [a \in Ages |-> 0] /\ InWindow(k)' = 0 /\ Left(k)' = 0 /\ backend' = backend
      BY <1>3 DEF Restart, Nothing, InWindow, Left, Open, NoBucket
    <3>2. Limit[k] \in Nat
      OBVIOUS
    <3>3. RateOK(recent'[k], 0, 0, Limit[k], backend = "memory")
      BY <3>1, <3>2, NothingMade
    <3> QED BY <3>1, <3>3
  <2> QED BY <2>1 DEF RateInv
<1>4. CASE UNCHANGED <<backend, table, recent>>
  <2>1. ASSUME NEW k \in Keys
        PROVE  RateOK(recent[k], InWindow(k), Left(k), Limit[k], backend = "memory")'
    <3>1. InWindow(k)' = InWindow(k) /\ Left(k)' = Left(k)
      BY <1>4 DEF InWindow, Left, Open
    <3> QED BY <1>4, <3>1 DEF RateInv
  <2> QED BY <2>1 DEF RateInv
<1> QED BY <1>1, <1>2, <1>3, <1>4 DEF Next, WithoutSubject, vars

LEMMA RateInit == Init => RateInv
<1> SUFFICES ASSUME Init, NEW k \in Keys
             PROVE  RateOK(recent[k], InWindow(k), Left(k), Limit[k], backend = "memory")
  BY DEF RateInv
<1>1. recent[k] = [a \in Ages |-> 0] /\ InWindow(k) = 0 /\ Left(k) = 0
  BY DEF Init, Nothing, InWindow, Left, Open, NoBucket
<1>2. Limit[k] \in Nat
  OBVIOUS
<1> QED BY <1>1, <1>2, NothingMade

LEMMA RateBound == Typed /\ Counts /\ RateInv => BoundedRate
<1> SUFFICES ASSUME Typed, Counts, RateInv, ~FailOpen, NEW k \in Keys
             PROVE  Cardinality(Passes(k)) <= 2 * Limit[k]
  BY DEF BoundedRate
<1> DEFINE r == recent[k]
           e == Window - Left(k)
<1>1. /\ IsFiniteSet(Made(r)) /\ Cardinality(Before(r, e)) <= Limit[k]
      /\ Cardinality(Since(r, e)) <= IF InWindow(k) > 0 THEN InWindow(k) ELSE Limit[k]
  BY DEF RateInv, RateOK
<1>2. InWindow(k) \in Nat /\ Limit[k] \in Nat /\ InWindow(k) <= Limit[k] /\ e \in Int
  BY WindowFacts, WindowNat
<1>3. Passes(k) = Made(r)
  BY DEF Passes, Made
<1> HIDE DEF r, e
<1>4. /\ IsFiniteSet(Since(r, e)) /\ IsFiniteSet(Before(r, e))
      /\ Cardinality(Since(r, e)) \in Nat /\ Cardinality(Before(r, e)) \in Nat
  BY <1>1, <1>2, Portions
<1>5. Made(r) = Since(r, e) \cup Before(r, e)
  <2>1. \A p \in Made(r) : p[1] <= e \/ p[1] > e
    <3> SUFFICES ASSUME NEW p \in Made(r)
                 PROVE  p[1] <= e \/ p[1] > e
      OBVIOUS
    <3>1. p[1] \in Nat
      BY Pairs, AgesAre
    <3> QED BY <1>2, <3>1
  <2> QED BY <2>1 DEF Since, Before
<1>6. Since(r, e) \cap Before(r, e) = {}
  <2> SUFFICES ASSUME NEW p \in Made(r), p[1] <= e, p[1] > e
               PROVE  FALSE
    BY DEF Since, Before
  <2>1. p[1] \in Nat
    BY Pairs, AgesAre
  <2> QED BY <1>2, <2>1
<1>7. Cardinality(Made(r)) = Cardinality(Since(r, e)) + Cardinality(Before(r, e))
  <2>1. Cardinality(Made(r)) = Cardinality(Since(r, e)) + Cardinality(Before(r, e)) - Cardinality({})
    BY <1>4, <1>5, <1>6, FS_Union
  <2>2. Cardinality({}) = 0
    BY FS_EmptySet
  <2> QED BY <1>4, <2>1, <2>2
<1> QED BY <1>1, <1>2, <1>3, <1>4, <1>7

(***************************************************************************)
(* No stretch of time as long as a window sees more than two windows'      *)
(* worth of passes of one key, whatever the requests and the failures.     *)
(***************************************************************************)
THEOREM TwiceAtMost == Spec => []BoundedRate
<1>1. Init => Counts
  BY DEF Init, Counts
<1> QED BY <1>1, TypedInit, TypedStep, CountsStep, RateInit, RateStep, RateBound, PTL DEF Spec

-----------------------------------------------------------------------------
(***************************************************************************)
(* The cause of a refusal.  The memory limiter counts exactly what passed  *)
(* (RateOK's last part), so a bucket that is open has passes behind it.    *)
(***************************************************************************)
LEMMA OpenHasPassed ==
    ASSUME Typed, Counts, RateInv, backend = "memory", NEW k \in Keys, Open(k)
    PROVE  IsFiniteSet(Passes(k)) /\ Cardinality(Passes(k)) >= InWindow(k) /\ Passes(k) # {}
<1> DEFINE r == recent[k]
           e == Window - Left(k)
<1>1. IsFiniteSet(Made(r)) /\ Cardinality(Since(r, e)) >= InWindow(k)
  BY DEF RateInv, RateOK
<1>2. InWindow(k) \in Nat /\ Left(k) \in 0..Window
  BY WindowFacts
<1>3. Left(k) > 0
  BY WindowFacts DEF Open, Left
<1>4. InWindow(k) > 0
  BY <1>3, WindowFacts
<1>5. Passes(k) = Made(r) /\ Since(r, e) \in SUBSET Made(r)
  BY DEF Passes, Made, Since
<1> HIDE DEF r, e
<1>6. Cardinality(Since(r, e)) <= Cardinality(Made(r)) /\ IsFiniteSet(Since(r, e))
  BY <1>1, <1>5, FS_Subset
<1>7. Cardinality(Since(r, e)) \in Nat /\ Cardinality(Made(r)) \in Nat
  BY <1>1, <1>6, FS_CardinalityType
<1>8. Cardinality(Made(r)) >= InWindow(k)
  BY <1>1, <1>2, <1>6, <1>7
<1>9. Made(r) # {}
  BY <1>2, <1>4, <1>7, <1>8, FS_EmptySet
<1> QED BY <1>1, <1>5, <1>8, <1>9

LEMMA CauseGate ==
    ASSUME Typed, Counts, RateInv, NEW k \in Keys, NEW reason, NEW retry, Gate(k, reason, retry)
    PROVE  RefusedForCause'
<1> USE DEF Typed, TableOK
<1>1. verdict'.key = k /\ verdict'.reason = reason /\ backend' = backend
  BY DEF Gate
<1> SUFFICES ASSUME backend = "memory", reason \in {"over", "full"}
             PROVE  /\ reason = "over" => Cardinality(Passes(k)') >= Limit[k]
                    /\ reason = "full" =>
                          Cardinality({j \in Keys \ {k} : Passes(j)' # {}}) >= MaxBuckets
  BY <1>1 DEF RefusedForCause, Passes
<1>2. MemoryHit(k, reason, retry)
  BY DEF Gate, RedisHit, RedisUnheard
<1>3. \A j \in Keys : Passes(j)' = Passes(j)
  BY DEF Gate, Allowed, Passes
<1>4. ASSUME reason = "over"
      PROVE  Cardinality(Passes(k)) >= Limit[k]
  <2>1. ~Crowded(k, Held(k)) /\ ~Within(k, Reopened(k, Held(k)))
    BY <1>2, <1>4 DEF MemoryHit
  <2>2. Limit[k] \in Nat /\ Limit[k] >= 1 /\ table[k].count \in Nat /\ table[k].left \in Nat
    BY WindowNat DEF Buckets
  <2>3. Held(k)[k] = table[k] \/ (table[k].left = 0 /\ Held(k)[k] = NoBucket)
    BY <2>2 DEF Held, Purged
  <2>4. Held(k)[k].left > 0 /\ Held(k)[k] = table[k]
    <3>1. ~Within(k, Opened) => FALSE
      BY <2>2 DEF Within, Opened
    <3>2. Held(k)[k].left > 0
      BY <2>1, <3>1 DEF Reopened
    <3> QED BY <2>3, <3>2 DEF NoBucket
  <2>5. Open(k) /\ ~(Counted(k, table[k]).count <= Limit[k])
    BY <2>1, <2>4 DEF Open, Reopened, Within
  <2>6. table[k].count >= Limit[k]
    <3>1. Counted(k, table[k]).count = IF table[k].count <= Limit[k] THEN table[k].count + 1
                                       ELSE table[k].count
      BY DEF Counted, Buckets
    <3> QED BY <2>2, <2>5, <3>1
  <2>7. InWindow(k) = Limit[k]
    <3>1. InWindow(k) = IF table[k].count <= Limit[k] THEN table[k].count ELSE Limit[k]
      BY <2>5 DEF InWindow
    <3> QED BY <2>2, <2>6, <3>1, Antisymmetric
  <2> QED BY <2>5, <2>7, OpenHasPassed
<1>5. ASSUME reason = "full"
      PROVE  Cardinality({j \in Keys \ {k} : Passes(j) # {}}) >= MaxBuckets
  <2> DEFINE others == {j \in Keys \ {k} : Passes(j) # {}}
  <2>1. Crowded(k, Held(k))
    BY <1>2, <1>5 DEF MemoryHit
  <2>2. Held(k)[k] = NoBucket /\ Cardinality(Stored(Held(k))) >= MaxBuckets
    BY <2>1 DEF Crowded
  <2>3. Held(k) = Purged
    <3>1. CASE Held(k) = table
      <4>1. table[k] = NoBucket /\ Cardinality(Stored(table)) >= MaxBuckets
        BY <2>2, <3>1
      <4> QED BY <4>1 DEF Held
    <3> QED BY <3>1 DEF Held
  <2>4. ASSUME NEW j \in Stored(Held(k))
        PROVE  j \in others
    <3>1. j \in Keys /\ Purged[j] # NoBucket
      BY <2>3 DEF Stored
    <3>2. Open(j)
      BY <3>1 DEF Purged, Open
    <3>3. j # k
      BY <2>2, <2>3, <3>1
    <3>4. Passes(j) # {}
      BY <3>1, <3>2, OpenHasPassed
    <3> QED BY <3>1, <3>3, <3>4
  <2>5. Stored(Held(k)) \in SUBSET others
    BY <2>4
  <2>6. others \in SUBSET Keys
    OBVIOUS
  <2> HIDE DEF others
  <2>7. IsFiniteSet(others)
    BY <2>6, FS_Subset
  <2>8. Cardinality(Stored(Held(k))) <= Cardinality(others) /\ IsFiniteSet(Stored(Held(k)))
    BY <2>5, <2>7, FS_Subset
  <2>9. Cardinality(Stored(Held(k))) \in Nat /\ Cardinality(others) \in Nat
    BY <2>7, <2>8, FS_CardinalityType
  <2>10. Cardinality(others) >= MaxBuckets
    BY <2>2, <2>8, <2>9
  <2> QED BY <2>10 DEF others
<1>6. {j \in Keys \ {k} : Passes(j)' # {}} = {j \in Keys \ {k} : Passes(j) # {}}
  BY <1>3
<1> QED BY <1>3, <1>4, <1>5, <1>6

LEMMA CauseStep == Typed /\ Counts /\ RateInv /\ RefusedForCause /\ [Next]_vars => RefusedForCause'
<1> SUFFICES ASSUME Typed, Counts, RateInv, RefusedForCause, [Next]_vars
             PROVE  RefusedForCause'
  OBVIOUS
<1>1. ASSUME NEW a \in Addresses, NEW s \in Subjects, FromAddress(a, s) \/ FromSubject(a, s)
      PROVE  RefusedForCause'
  <2>1. PICK k \in Keys, reason \in Reasons, retry \in 1..WindowSeconds : Gate(k, reason, retry)
    BY <1>1 DEF FromAddress, FromSubject, Keys
  <2> QED BY <2>1, CauseGate
<1>2. CASE verdict' = Quiet
  BY <1>2 DEF RefusedForCause, Quiet
<1>3. CASE UNCHANGED vars
  BY <1>3 DEF vars, RefusedForCause, Passes
<1> QED BY <1>1, <1>2, <1>3 DEF Next, WithoutSubject, Tick, Restart

(***************************************************************************)
(* The memory limiter turns a key away only if it has used its own window  *)
(* up, or if as many others as its table holds have passed.                *)
(***************************************************************************)
THEOREM NeverEarly == Spec => []RefusedForCause
<1>1. Init => Counts /\ RefusedForCause
  BY DEF Init, Counts, RefusedForCause, Quiet
<1> QED BY <1>1, TypedInit, TypedStep, CountsStep, RateInit, RateStep, CauseStep, PTL DEF Spec
=============================================================================

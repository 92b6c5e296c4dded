------------------------- MODULE ModelGateway_proofs ------------------------
(***************************************************************************)
(* For any set of requests and any limits: the gate's counters never leak  *)
(* and the probe flag is never left behind.                                *)
(***************************************************************************)
EXTENDS ModelGateway, FiniteSetTheorems, TLAPS

Inside == {r \in Requests : phase[r] # "idle"}
InWork == {r \in Requests : Working(r)}

USE DEF Kinds, Phases

-----------------------------------------------------------------------------
(***************************************************************************)
(* Counting: what one request entering or leaving does to a cardinality.   *)
(***************************************************************************)
LEMMA Entering ==
    ASSUME NEW S, NEW x, IsFiniteSet(S), x \notin S
    PROVE  Cardinality(S \cup {x}) = Cardinality(S) + 1 /\ Cardinality(S) \in Nat
  BY FS_AddElement, FS_CardinalityType

LEMMA Leaving ==
    ASSUME NEW S, NEW x, IsFiniteSet(S), x \in S
    PROVE  Cardinality(S \ {x}) = Cardinality(S) - 1 /\ Cardinality(S) \in Nat
  BY FS_RemoveElement, FS_CardinalityType

LEMMA InsideFinite == IsFiniteSet(Inside) /\ IsFiniteSet(InWork)
  BY RequestsAssumption, FS_Subset DEF Inside, InWork

-----------------------------------------------------------------------------
\* TypeOK with the counters' ranges left to CountersAgree.
TypesOK ==
    /\ phase \in [Requests -> Phases]
    /\ kind \in [Requests -> Kinds]
    /\ probe \in [Requests -> BOOLEAN]
    /\ failures \in 0..Threshold
    /\ circuit \in {"closed", "open", "half"}
    /\ probing \in BOOLEAN

Counted ==
    /\ admitted = Cardinality(Inside)
    /\ slots = MaxConcurrency - Cardinality(InWork)
    /\ admitted <= MaxConcurrency + MaxPending
    /\ slots >= 0

GateInv == TypesOK /\ Counted

LEMMA TypesStep == TypesOK /\ [Next]_vars => TypesOK'
<1> SUFFICES ASSUME TypesOK, [Next]_vars
             PROVE  TypesOK'
  OBVIOUS
<1> USE LimitsAssumption DEF TypesOK, Goto
<1>1. ASSUME NEW p, RecordFailure(p)
      PROVE  failures' \in 0..Threshold /\ circuit' \in {"open", circuit} /\ probing' = FALSE
  BY <1>1 DEF RecordFailure
<1>2. RecordSuccess => failures' \in 0..Threshold /\ circuit' = "closed" /\ probing' = FALSE
  BY DEF RecordSuccess
<1>3. ASSUME NEW r \in Requests, Arrive(r)
      PROVE  TypesOK'
  BY <1>3 DEF Arrive, breaker
<1>4. ASSUME NEW r \in Requests, GiveUp(r) \/ Refuse(r)
      PROVE  TypesOK'
  BY <1>4 DEF GiveUp, Refuse, LeaveQueue, breaker
<1>5. ASSUME NEW r \in Requests, Start(r)
      PROVE  TypesOK'
  BY <1>5 DEF Start
<1>6. ASSUME NEW r \in Requests, Complete(r) \/ EndStream(r)
      PROVE  TypesOK'
  BY <1>2, <1>6 DEF Complete, EndStream, Leave
<1>7. ASSUME NEW r \in Requests, CloseStream(r)
      PROVE  TypesOK'
  BY <1>7 DEF CloseStream, Leave
<1>8. ASSUME NEW r \in Requests, Fail(r) \/ Cancel(r)
      PROVE  TypesOK'
  <2>1. Leave(r) /\ (RecordFailure(probe[r]) \/ RecordFailure(TRUE) \/ UNCHANGED breaker)
    BY <1>8 DEF Fail, Cancel
  <2>2. failures' \in 0..Threshold /\ circuit' \in {"open", circuit} /\ probing' \in BOOLEAN
    BY <1>1, <2>1 DEF breaker
  <2>3. QED
    BY <2>1, <2>2 DEF Leave
<1>9. CASE Recover
  BY <1>9 DEF Recover
<1>10. CASE UNCHANGED vars
  BY <1>10 DEF vars, breaker
<1>11. QED
  BY <1>3, <1>4, <1>5, <1>6, <1>7, <1>8, <1>9, <1>10 DEF Next

LEMMA CountedStep == GateInv /\ [Next]_vars => Counted'
<1> SUFFICES ASSUME GateInv, [Next]_vars
             PROVE  Counted'
  OBVIOUS
<1> USE InsideFinite, LimitsAssumption DEF GateInv, TypesOK, Counted
<1>0. Cardinality(Inside) \in Nat /\ Cardinality(InWork) \in Nat
  BY FS_CardinalityType
<1>1. ASSUME NEW r \in Requests, Arrive(r)
      PROVE  Counted'
  <2>1. Inside' = Inside \cup {r} /\ InWork' = InWork /\ r \notin Inside
    BY <1>1 DEF Arrive, Goto, Inside, InWork, Working
  <2>2. QED
    BY <1>0, <1>1, <2>1, Entering DEF Arrive
<1>2. ASSUME NEW r \in Requests, GiveUp(r) \/ Refuse(r)
      PROVE  Counted'
  <2>1. Inside' = Inside \ {r} /\ InWork' = InWork /\ r \in Inside
    BY <1>2 DEF GiveUp, Refuse, LeaveQueue, Goto, Inside, InWork, Working
  <2>2. admitted' = admitted - 1 /\ slots' = slots
    BY <1>2 DEF GiveUp, Refuse, LeaveQueue
  <2>3. QED
    BY <1>0, <2>1, <2>2, Leaving
<1>3. ASSUME NEW r \in Requests, Start(r)
      PROVE  Counted'
  <2>1. Inside' = Inside /\ InWork' = InWork \cup {r} /\ r \notin InWork
    BY <1>3 DEF Start, Goto, Inside, InWork, Working
  <2>2. admitted' = admitted /\ slots' = slots - 1 /\ slots > 0
    BY <1>3 DEF Start
  <2>3. QED
    BY <1>0, <2>1, <2>2, Entering
<1>4. ASSUME NEW r \in Requests, EndStream(r)
      PROVE  Counted'
  <2>1. Inside' = Inside /\ InWork' = InWork
    BY <1>4 DEF EndStream, Goto, Inside, InWork, Working
  <2>2. QED
    BY <1>4, <2>1 DEF EndStream
<1>5. ASSUME NEW r \in Requests, Working(r), Leave(r)
      PROVE  Counted'
  <2>1. /\ Inside' = Inside \ {r} /\ r \in Inside
        /\ InWork' = InWork \ {r} /\ r \in InWork
    BY <1>5 DEF Leave, Goto, Inside, InWork, Working
  <2>2. admitted' = admitted - 1 /\ slots' = slots + 1
    BY <1>5 DEF Leave
  <2>3. QED
    BY <1>0, <2>1, <2>2, Leaving
<1>6. ASSUME NEW r \in Requests, Complete(r) \/ CloseStream(r) \/ Fail(r) \/ Cancel(r)
      PROVE  Working(r) /\ Leave(r)
  BY <1>6 DEF Complete, CloseStream, Fail, Cancel, Working
<1>7. CASE Recover
  BY <1>7 DEF Recover, Inside, InWork, Working
<1>8. CASE UNCHANGED vars
  BY <1>8 DEF vars, Inside, InWork, Working
<1>9. QED
  BY <1>1, <1>2, <1>3, <1>4, <1>5, <1>6, <1>7, <1>8 DEF Next

\* The inductive invariant of the gate.
THEOREM GateInvariant == Spec => []GateInv
<1>1. Init => GateInv
  <2> SUFFICES ASSUME Init
               PROVE  GateInv
    OBVIOUS
  <2>1. Inside = {} /\ InWork = {}
    BY DEF Init, Inside, InWork, Working
  <2>2. Cardinality(Inside) = 0 /\ Cardinality(InWork) = 0
    BY <2>1, FS_EmptySet
  <2>3. TypesOK
    <3>1. 0 \in 0..Threshold
      BY LimitsAssumption
    <3>2. QED
      BY <3>1, Zenon DEF Init, TypesOK
  <2>4. Counted
    BY <2>2, LimitsAssumption DEF Init, Counted
  <2>5. QED
    BY <2>3, <2>4 DEF GateInv
<1>2. QED
  BY <1>1, TypesStep, CountedStep, PTL DEF Spec, GateInv

\* The counters count what they say.
THEOREM NoLeak == Spec => []CountersAgree
<1>1. GateInv => CountersAgree
  BY DEF GateInv, Counted, CountersAgree, Inside, InWork
<1>2. QED
  BY <1>1, GateInvariant, PTL

\* Admission never exceeds the configured limits.
THEOREM TypeCorrect == Spec => []TypeOK
<1>1. GateInv => TypeOK
  <2>1. Cardinality(Inside) \in Nat /\ Cardinality(InWork) \in Nat
    BY InsideFinite, FS_CardinalityType
  <2>2. QED
    BY <2>1, LimitsAssumption DEF GateInv, TypesOK, Counted, TypeOK
<1>2. QED
  BY <1>1, GateInvariant, PTL

-----------------------------------------------------------------------------
LEMMA ProbeStep == TypesOK /\ ProbeIsLive /\ [Next]_vars => ProbeIsLive'
<1> SUFFICES ASSUME TypesOK, ProbeIsLive, [Next]_vars, probing'
             PROVE  \E r \in Requests : Working(r)' /\ probe'[r]
  BY DEF ProbeIsLive
<1> USE DEF TypesOK, ProbeIsLive, Working, Goto
<1>1. ASSUME NEW r \in Requests, Arrive(r) \/ GiveUp(r) \/ Refuse(r)
      PROVE  \E q \in Requests : Working(q)' /\ probe'[q]
  <2>1. probing /\ probe' = probe /\ \A q \in Requests : Working(q) => phase'[q] = phase[q]
    BY <1>1 DEF Arrive, GiveUp, Refuse, LeaveQueue, breaker
  <2>2. QED
    BY <2>1
<1>2. ASSUME NEW r \in Requests, Start(r)
      PROVE  \E q \in Requests : Working(q)' /\ probe'[q]
  <2>1. CASE circuit = "half"
    BY <1>2, <2>1 DEF Start
  <2>2. CASE circuit # "half"
    BY <1>2, <2>2 DEF Start
  <2>3. QED
    BY <2>1, <2>2
<1>3. ASSUME NEW r \in Requests, Complete(r) \/ EndStream(r)
      PROVE  FALSE
  BY <1>3 DEF Complete, EndStream, RecordSuccess
<1>4. ASSUME NEW r \in Requests, Leave(r), probing, ~probe[r]
      PROVE  \E q \in Requests : Working(q)' /\ probe'[q]
  BY <1>4 DEF Leave
<1>5. ASSUME NEW r \in Requests, CloseStream(r) \/ Cancel(r)
      PROVE  \E q \in Requests : Working(q)' /\ probe'[q]
  <2>1. Leave(r) /\ probing /\ ~probe[r]
    BY <1>5 DEF CloseStream, Cancel, RecordFailure, breaker
  <2>2. QED
    BY <1>4, <2>1
<1>6. ASSUME NEW r \in Requests, Fail(r)
      PROVE  FALSE
  BY <1>6 DEF Fail, RecordFailure
<1>7. CASE Recover
  BY <1>7 DEF Recover
<1>8. CASE UNCHANGED vars
  BY <1>8 DEF vars, breaker
<1>9. QED
  BY <1>1, <1>2, <1>3, <1>5, <1>6, <1>7, <1>8 DEF Next

\* A set probe flag always has a probe in flight behind it.
THEOREM ProbeNeverStuck == Spec => []ProbeIsLive
<1>1. Init => ProbeIsLive
  BY DEF Init, ProbeIsLive
<1>2. GateInv => TypesOK
  BY DEF GateInv
<1>3. QED
  BY <1>1, <1>2, ProbeStep, GateInvariant, PTL DEF Spec
=============================================================================

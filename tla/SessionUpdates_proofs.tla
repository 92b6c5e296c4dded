----------------------- MODULE SessionUpdates_proofs ------------------------
(***************************************************************************)
(* For any number of turns and any number of updates: with a lease that    *)
(* outlives every turn, the lock excludes, copies stay current, no save    *)
(* loses an update and the store implements SerialSession.  Without that   *)
(* assumption all four fail (SessionLeaseOutlived.cfg), so it is a         *)
(* hypothesis of each theorem and not part of the specification.           *)
(***************************************************************************)
EXTENDS SessionUpdates, TLAPS

\* A turn inside the block owns the lock: what OneTurnInside follows from.
OwnsLock == \A t \in Turns : pc[t] \in Inside => lock = t

\* A turn's copy is what it read, or that with its own change on top.
ChangedOnce == \A t \in Turns : local[t] \in {read[t], Serial!With(read[t], t)}

IInv == TypeOK /\ OwnsLock /\ CopyIsCurrent /\ ChangedOnce

USE DEF Inside, Phases, Backends

-----------------------------------------------------------------------------
\* The store is well typed in every reachable state.
THEOREM TypeCorrect == Spec => []TypeOK
<1>1. Init => TypeOK
  BY DEF Init, StoreInit, TypeOK, Fresh
<1>2. TypeOK /\ [Next]_vars => TypeOK'
  <2> SUFFICES ASSUME TypeOK, [Next]_vars
               PROVE  TypeOK'
    OBVIOUS
  <2> USE DEF TypeOK
  <2>1. ASSUME NEW t \in Turns, Enter(t) \/ Acquire(t) \/ BlockingTimeout(t)
        PROVE  TypeOK'
    BY <2>1 DEF Enter, Acquire, BlockingTimeout, Goto
  <2>2. ASSUME NEW t \in Turns, Load(t)
        PROVE  TypeOK'
    BY <2>2 DEF Load, Goto
  <2>3. ASSUME NEW t \in Turns, Change(t)
        PROVE  TypeOK'
    BY <2>3 DEF Change
  <2>4. ASSUME NEW t \in Turns, SaveChanged(t) \/ SaveRaised(t)
        PROVE  TypeOK'
    BY <2>4 DEF SaveChanged, SaveRaised, Save, Goto
  <2>5. ASSUME NEW t \in Turns, Release(t)
        PROVE  TypeOK'
    BY <2>5 DEF Release, Goto, Forget, Fresh
  <2>6. ASSUME NEW t \in Turns, LoadFails(t) \/ SaveFails(t)
        PROVE  TypeOK'
    BY <2>6 DEF LoadFails, SaveFails, Goto
  <2>7. ASSUME NEW t \in Turns, Crash(t)
        PROVE  TypeOK'
    BY <2>7 DEF Crash, Goto, Forget, Fresh
  <2>8. CASE LeaseExpires
    BY <2>8 DEF LeaseExpires
  <2>9. CASE Restart
    BY <2>9 DEF Restart, Fresh
  <2>10. CASE Expire
    BY <2>10 DEF Expire, Fresh
  <2>11. CASE UNCHANGED vars
    BY <2>11 DEF vars, storeVars
  <2>12. QED
    BY <2>1, <2>2, <2>3, <2>4, <2>5, <2>6, <2>7, <2>8, <2>9, <2>10, <2>11
       DEF Next, Step, Trouble
<1>3. QED
  BY <1>1, <1>2, PTL DEF Spec

-----------------------------------------------------------------------------
LEMMA InvInit == Init => IInv
  BY TurnsAssumption
     DEF Init, StoreInit, IInv, TypeOK, OwnsLock, CopyIsCurrent, ChangedOnce, Fresh

\* TypeOK is left to TypeCorrect's step; each action keeps the three other conjuncts.
LEMMA InvStep ==
    ASSUME LeaseOutlivesTurn, IInv, TypeOK', [Next]_vars
    PROVE  IInv'
<1> USE TurnsAssumption DEF IInv, TypeOK, OwnsLock, CopyIsCurrent, ChangedOnce
<1>1. ASSUME NEW t \in Turns, Enter(t) \/ Acquire(t) \/ BlockingTimeout(t)
      PROVE  IInv'
  BY <1>1 DEF Enter, Acquire, BlockingTimeout, Goto
<1>2. ASSUME NEW t \in Turns, Load(t)
      PROVE  IInv'
  BY <1>2 DEF Load, Goto
<1>3. ASSUME NEW t \in Turns, Change(t)
      PROVE  IInv'
  BY <1>3 DEF Change, Serial!With
<1>4. ASSUME NEW t \in Turns, SaveChanged(t) \/ SaveRaised(t)
      PROVE  IInv'
  BY <1>4 DEF SaveChanged, SaveRaised, Save, Goto
<1>5. ASSUME NEW t \in Turns, Release(t)
      PROVE  IInv'
  BY <1>5 DEF Release, Goto, Forget
<1>6. ASSUME NEW t \in Turns, LoadFails(t) \/ SaveFails(t)
      PROVE  IInv'
  BY <1>6 DEF LoadFails, SaveFails, Goto
<1>7. ASSUME NEW t \in Turns, Crash(t)
      PROVE  IInv'
  BY <1>7 DEF Crash, Goto, Forget
<1>8. CASE LeaseExpires
  BY <1>8 DEF LeaseExpires
<1>9. CASE Restart
  BY <1>9 DEF Restart
<1>10. CASE Expire
  BY <1>10 DEF Expire
<1>11. CASE UNCHANGED vars
  BY <1>11 DEF vars, storeVars
<1>12. QED
  BY <1>1, <1>2, <1>3, <1>4, <1>5, <1>6, <1>7, <1>8, <1>9, <1>10, <1>11
     DEF Next, Step, Trouble

\* The inductive invariant of every run in which leases outlive turns.
THEOREM Invariance == ASSUME LeaseOutlivesTurn PROVE Spec => []IInv
<1>1. IInv /\ [Next]_vars /\ TypeOK' => IInv'
  BY InvStep
<1>2. QED
  BY <1>1, InvInit, TypeCorrect, PTL DEF Spec

\* No two turns of a conversation are ever inside its lock.
THEOREM Exclusion == ASSUME LeaseOutlivesTurn PROVE Spec => []OneTurnInside
<1>1. IInv => OneTurnInside
  BY DEF IInv, OwnsLock, OneTurnInside
<1>2. QED
  BY <1>1, Invariance, PTL

\* The store holds what the turn inside read, or nothing.
THEOREM CurrentCopy == ASSUME LeaseOutlivesTurn PROVE Spec => []CopyIsCurrent
<1>1. IInv => CopyIsCurrent
  BY DEF IInv
<1>2. QED
  BY <1>1, Invariance, PTL

\* What one save writes contains what it overwrites.
LEMMA SaveKeeps ==
    ASSUME IInv, IInv', [Next]_vars, NEW t \in Turns, Saves(t), NEW u \in Turns
    PROVE  stored'[u] >= stored[u]
<1> USE DEF IInv, TypeOK, CopyIsCurrent, ChangedOnce, Serial!With, Fresh, Saves
<1>1. local[t][u] >= stored[u] /\ stored[u] >= stored[u]
  <2>1. stored[u] \in Nat /\ read[t] \in [Turns -> Nat] /\ stored \in {read[t], Fresh}
    OBVIOUS
  <2>2. local[t][u] \in {read[t][u], read[t][u] + 1}
    BY SMTT(20)
  <2>3. stored[u] \in {read[t][u], 0}
    BY <2>1
  <2>4. QED
    BY <2>1, <2>2, <2>3
<1>2. stored' \in {local[t], stored}
  <2>1. ASSUME NEW v \in Turns, Enter(v) \/ Step(v) \/ Trouble(v)
        PROVE  stored' \in {local[t], stored}
    <3>1. CASE SaveChanged(v) \/ SaveRaised(v)
      BY <3>1 DEF SaveChanged, SaveRaised, Save, Goto
    <3>2. CASE ~(SaveChanged(v) \/ SaveRaised(v))
      BY <2>1, <3>2 DEF Step, Trouble, Enter, Acquire, Load, Change, Release,
           BlockingTimeout, LoadFails, SaveFails, Crash
    <3>3. QED
      BY <3>1, <3>2
  <2>2. CASE LeaseExpires
    BY <2>2 DEF LeaseExpires
  <2>3. ~Restart
    BY DEF Restart
  <2>4. ~Expire
    BY DEF Expire
  <2>5. ~UNCHANGED vars
    BY DEF vars, storeVars
  <2>6. QED
    BY <2>1, <2>2, <2>3, <2>4, <2>5 DEF Next
<1>3. QED
  BY <1>1, <1>2

\* No save takes another turn's change out of the session.
THEOREM NothingLost == ASSUME LeaseOutlivesTurn PROVE Spec => NoLostUpdate
<1>1. IInv /\ IInv' /\ [Next]_vars
        => [\A t \in Turns : Saves(t) => \A u \in Turns : stored'[u] >= stored[u]]_vars
  BY SaveKeeps
<1>2. QED
  BY <1>1, Invariance, PTL DEF Spec, NoLostUpdate

-----------------------------------------------------------------------------
(***************************************************************************)
(* The refinement.  InEffect chooses the running turn; under OwnsLock      *)
(* there is at most one, so it reads as follows in either state.           *)
(***************************************************************************)
LEMMA EffectHeld == \A t \in Turns : OwnsLock /\ pc[t] = "running" => InEffect = read[t]
<1> SUFFICES ASSUME OwnsLock, NEW t \in Turns, pc[t] = "running"
             PROVE  InEffect = read[t]
  OBVIOUS
<1> DEFINE h == CHOOSE u \in Turns : pc[u] = "running"
<1>1. h \in Turns /\ pc[h] = "running"
  OBVIOUS
<1>2. h = t
  BY <1>1 DEF OwnsLock
<1>3. QED
  BY <1>2 DEF InEffect

LEMMA EffectFree == (\A t \in Turns : pc[t] # "running") => InEffect = stored
  BY DEF InEffect

\* A step that leaves read, stored and who is running alone leaves InEffect alone.
LEMMA EffectKept ==
    ASSUME read' = read, stored' = stored,
           \A t \in Turns : pc'[t] = "running" <=> pc[t] = "running"
    PROVE  InEffect' = InEffect
<1>1. (CHOOSE t \in Turns : pc[t] = "running")' = CHOOSE t \in Turns : pc[t] = "running"
  OBVIOUS
<1>2. QED
  BY <1>1 DEF InEffect

LEMMA EffectHeldNext == (\A t \in Turns : OwnsLock /\ pc[t] = "running" => InEffect = read[t])'
  BY EffectHeld, PTL

LEMMA EffectFreeNext == ((\A t \in Turns : pc[t] # "running") => InEffect = stored)'
  BY EffectFree, PTL

Phase == [t \in Turns |-> Told(pc[t])]

LEMMA RefinementStep ==
    ASSUME LeaseOutlivesTurn, IInv, IInv', [Next]_vars
    PROVE  [Serial!Next]_(Serial!vars)
<1> USE DEF IInv, TypeOK, OwnsLock, CopyIsCurrent, ChangedOnce
<1> SUFFICES Serial!Next \/ (InEffect' = InEffect /\ Phase' = Phase)
  BY DEF Serial!vars, Phase
<1>1. ASSUME NEW t \in Turns, Enter(t)
      PROVE  Serial!Ask(t)
  <2>1. InEffect' = InEffect
    BY <1>1, EffectKept DEF Enter, Goto
  <2>2. QED
    BY <1>1, <2>1 DEF Enter, Goto, Serial!Ask, Told
<1>2. ASSUME NEW t \in Turns, Acquire(t) \/ Change(t)
      PROVE  InEffect' = InEffect /\ Phase' = Phase
  <2>1. InEffect' = InEffect
    BY <1>2, EffectKept DEF Acquire, Change, Goto
  <2>2. QED
    BY <1>2, <2>1 DEF Acquire, Change, Goto, Phase, Told
<1>3. ASSUME NEW t \in Turns, Load(t)
      PROVE  InEffect' = InEffect /\ Phase' = Phase
  <2>1. InEffect = stored
    BY <1>3, EffectFree DEF Load
  <2>2. InEffect' = read'[t]
    BY <1>3, EffectHeldNext DEF Load, Goto
  <2>3. QED
    BY <1>3, <2>1, <2>2 DEF Load, Goto, Phase, Told
<1>4. ASSUME NEW t \in Turns, SaveChanged(t) \/ SaveRaised(t) \/ SaveFails(t)
      PROVE  InEffect = read[t] /\ InEffect' = stored'
  <2>1. InEffect = read[t]
    BY <1>4, EffectHeld DEF SaveChanged, SaveRaised, SaveFails, Save
  <2>2. \A u \in Turns : pc'[u] # "running"
    BY <1>4 DEF SaveChanged, SaveRaised, SaveFails, Save, Goto
  <2>3. QED
    BY <2>1, <2>2, EffectFreeNext
<1>5. ASSUME NEW t \in Turns, SaveChanged(t)
      PROVE  Serial!Serve(t)
  BY <1>4, <1>5 DEF SaveChanged, Save, Goto, Serial!Serve, Told
<1>6. ASSUME NEW t \in Turns, SaveRaised(t) \/ SaveFails(t)
      PROVE  Serial!Fail(t)
  <2>1. CASE SaveRaised(t)
    BY <1>4, <2>1 DEF SaveRaised, Save, Goto, Serial!Fail, Serial!Nothing, Told, Fresh
  <2>2. CASE SaveFails(t)
    BY <1>4, <2>2 DEF SaveFails, Goto, Serial!Fail, Serial!Nothing, Told, Fresh
  <2>3. QED
    BY <1>6, <2>1, <2>2
<1>7. ASSUME NEW t \in Turns, BlockingTimeout(t)
      PROVE  Serial!Drop(t)
  <2>1. InEffect' = InEffect
    BY <1>7, EffectKept DEF BlockingTimeout, Goto
  <2>2. QED
    BY <1>7, <2>1 DEF BlockingTimeout, Goto, Serial!Drop, Told
<1>8. ASSUME NEW t \in Turns, LoadFails(t)
      PROVE  Serial!Fail(t)
  <2>1. InEffect' = InEffect
    BY <1>8, EffectKept DEF LoadFails, Goto
  <2>2. QED
    BY <1>8, <2>1 DEF LoadFails, Goto, Serial!Fail, Told
<1>9. ASSUME NEW t \in Turns, Release(t)
      PROVE  Serial!Leave(t)
  <2>1. (\A u \in Turns : pc[u] # "running") /\ (\A u \in Turns : pc'[u] # "running")
    BY <1>9 DEF Release, Goto
  <2>2. InEffect' = InEffect
    BY <1>9, <2>1, EffectFree, EffectFreeNext DEF Release
  <2>3. QED
    BY <1>9, <2>2 DEF Release, Goto, Serial!Leave, Told
<1>10. ASSUME NEW t \in Turns, Crash(t)
       PROVE  Serial!Drop(t)
  <2>1. InEffect' \in {InEffect, Serial!Nothing}
    <3>1. CASE pc[t] \in Inside
      <4>1. \A u \in Turns : pc'[u] # "running"
        BY <1>10, <3>1 DEF Crash, Goto
      <4>2. InEffect' = stored
        BY <1>10, <4>1, EffectFreeNext DEF Crash
      <4>3. CASE pc[t] = "running"
        BY <4>2, <4>3, EffectHeld DEF Serial!Nothing, Fresh
      <4>4. CASE pc[t] # "running"
        BY <3>1, <4>2, <4>4, EffectFree
      <4>5. QED
        BY <4>3, <4>4
    <3>2. CASE pc[t] \notin Inside
      <4>1. CASE \E u \in Turns : pc[u] = "running"
        <5>1. PICK u \in Turns : pc[u] = "running"
          BY <4>1
        <5>2. pc'[u] = "running" /\ read'[u] = read[u]
          BY <1>10, <3>2, <5>1 DEF Crash, Goto, Forget
        <5>3. QED
          BY <5>1, <5>2, EffectHeld, EffectHeldNext
      <4>2. CASE \A u \in Turns : pc[u] # "running"
        <5>1. \A u \in Turns : pc'[u] # "running"
          BY <1>10, <4>2 DEF Crash, Goto
        <5>2. QED
          BY <1>10, <4>2, <5>1, EffectFree, EffectFreeNext DEF Crash
      <4>3. QED
        BY <4>1, <4>2
    <3>3. QED
      BY <3>1, <3>2
  <2>2. QED
    BY <1>10, <2>1 DEF Crash, Goto, Serial!Drop, Told
<1>11. CASE LeaseExpires
  <2>1. InEffect' = InEffect
    BY <1>11, EffectKept DEF LeaseExpires
  <2>2. QED
    BY <1>11, <2>1 DEF LeaseExpires, Phase
<1>12. CASE Restart
  <2>1. \A u \in Turns : pc'[u] # "running"
    BY <1>12 DEF Restart
  <2>2. InEffect' = Serial!Nothing
    BY <1>12, <2>1, EffectFreeNext DEF Restart, Serial!Nothing, Fresh
  <2>3. Serial!Forget(Turns)
    BY <1>12, <2>2 DEF Restart, Serial!Forget, Told
  <2>4. QED
    BY <2>3 DEF Serial!Next
<1>13. CASE Expire
  <2>1. CASE \E u \in Turns : pc[u] = "running"
    <3>1. PICK u \in Turns : pc[u] = "running"
      BY <2>1
    <3>2. InEffect' = InEffect
      BY <1>13, <3>1, EffectHeld, EffectHeldNext DEF Expire
    <3>3. QED
      BY <1>13, <3>2 DEF Expire, Phase
  <2>2. CASE \A u \in Turns : pc[u] # "running"
    <3>1. InEffect' = Serial!Nothing
      BY <1>13, <2>2, EffectFreeNext DEF Expire, Serial!Nothing, Fresh
    <3>2. Serial!Forget({})
      BY <1>13, <3>1 DEF Expire, Serial!Forget
    <3>3. QED
      BY <3>2 DEF Serial!Next
  <2>3. QED
    BY <2>1, <2>2
<1>14. CASE UNCHANGED vars
  <2>1. InEffect' = InEffect
    BY <1>14, EffectKept DEF vars, storeVars
  <2>2. QED
    BY <1>14, <2>1 DEF vars, storeVars, Phase
<1>15. QED
  BY <1>1, <1>2, <1>3, <1>5, <1>6, <1>7, <1>8, <1>9, <1>10, <1>11, <1>12, <1>13, <1>14
     DEF Next, Step, Trouble, Serial!Next

\* Under leases that outlive turns, the locked store serves a conversation's requests
\* as if they came one at a time.
THEOREM Refinement == ASSUME LeaseOutlivesTurn PROVE Spec => ImplementsSerialSession
<1>1. Init => Serial!Init
  BY EffectFree DEF Init, StoreInit, Serial!Init, Serial!Nothing, Fresh, Told
<1>2. QED
  BY <1>1, RefinementStep, Invariance, PTL DEF Spec, ImplementsSerialSession, Serial!Spec
=============================================================================

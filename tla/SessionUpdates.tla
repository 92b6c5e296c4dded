--------------------------- MODULE SessionUpdates ---------------------------
(***************************************************************************)
(* SessionStore with the smallest turn that can lose an update: each turn  *)
(* adds one to its own counter in the session.  A session is then the      *)
(* multiset of the turns it reflects, so "lost" is "a counter went down".  *)
(***************************************************************************)
EXTENDS Naturals

CONSTANTS Turns, Free, Orphan, LeaseOutlivesTurn,
          MaxUpdates    \* bound: how often one turn may change one session

ASSUME TurnsAssumption == Free \notin Turns /\ Orphan \notin Turns /\ Free # Orphan
ASSUME LeaseAssumption == LeaseOutlivesTurn \in BOOLEAN
ASSUME BoundAssumption == MaxUpdates \in Nat \ {0}

VARIABLES backend, stored, lock, pc, local, read

Fresh == [t \in Turns |-> 0]

INSTANCE SessionStore

vars == storeVars

-----------------------------------------------------------------------------
\* The body of the `async with`: the caller changes the yielded session in place.
Change(t) ==
    /\ pc[t] = "running"
    /\ local[t] = read[t]
    /\ local[t][t] < MaxUpdates
    /\ local' = [local EXCEPT ![t][t] = @ + 1]
    /\ UNCHANGED <<backend, stored, lock, pc, read>>

\* The body ended normally.
SaveChanged(t) ==
    /\ local[t] # read[t]
    /\ Save(t, "saved")

\* The body raised, before or after changing the session; `finally` saves it all the same.
SaveRaised(t) == Save(t, "failed")

Init == StoreInit

Step(t) ==
    \/ Acquire(t) \/ Load(t) \/ Change(t) \/ SaveChanged(t) \/ Release(t)

Trouble(t) ==
    \/ BlockingTimeout(t) \/ LoadFails(t) \/ SaveRaised(t) \/ SaveFails(t) \/ Crash(t)

Next ==
    \/ \E t \in Turns : Enter(t) \/ Step(t) \/ Trouble(t)
    \/ LeaseExpires
    \/ Restart
    \/ Expire

Spec == Init /\ [][Next]_vars

(***************************************************************************)
(* Scheduling: a turn that can go on does (the event loop runs every ready *)
(* task, and a body that cannot change the session any more still leaves   *)
(* the block); a wait that is refused the lock for ever times out on       *)
(* Redis; a lease left behind by a dead replica runs out.  Acquire is weak *)
(* only: asyncio.Lock is fair, Redis polls and may be overtaken.           *)
(***************************************************************************)
Fairness ==
    /\ \A t \in Turns :
        /\ WF_vars(Load(t)) /\ WF_vars(Change(t))
        /\ WF_vars(SaveChanged(t) \/ SaveRaised(t)) /\ WF_vars(Release(t))
        /\ SF_vars(BlockingTimeout(t) \/ (backend = "memory" /\ Acquire(t)))
        /\ WF_vars(Acquire(t))
    /\ WF_vars(LeaseExpires)

FairSpec == Spec /\ Fairness

-----------------------------------------------------------------------------
TypeOK ==
    /\ backend \in Backends
    /\ stored \in [Turns -> Nat]
    /\ lock \in Turns \cup {Free, Orphan}
    /\ pc \in [Turns -> Phases]
    /\ local \in [Turns -> [Turns -> Nat]]
    /\ read \in [Turns -> [Turns -> Nat]]

(***************************************************************************)
(* The lock does its work: two turns of one conversation are never between *)
(* acquiring and releasing at once (`Load, exclusively mutate, and persist *)
(* one conversation session`, SessionStore.locked).                        *)
(***************************************************************************)
OneTurnInside == \A t, u \in Turns : pc[t] \in Inside /\ pc[u] \in Inside => t = u

(***************************************************************************)
(* While a turn is working on its copy, the store holds what that turn     *)
(* read, or nothing because the TTL ran out: nobody else wrote in between, *)
(* so the copy is never stale when it is saved.                            *)
(***************************************************************************)
CopyIsCurrent == \A t \in Turns : pc[t] = "running" => stored \in {read[t], Fresh}

(***************************************************************************)
(* No lost update (docs/security.md, Session Binding): the save that ends  *)
(* a turn never takes out of the store a change another turn has saved     *)
(* there.  Only expiry, or a restart in memory, forgets.                   *)
(***************************************************************************)
Saves(t) == pc[t] = "running" /\ pc'[t] \in {"saved", "failed"}

NoLostUpdate ==
    [][\A t \in Turns : Saves(t) => \A u \in Turns : stored'[u] >= stored[u]]_vars

-----------------------------------------------------------------------------
\* The session in effect: what the turn inside has pinned, or else the stored one.
InEffect ==
    IF \E t \in Turns : pc[t] = "running"
    THEN read[CHOOSE t \in Turns : pc[t] = "running"]
    ELSE stored

Told(phase) ==
    CASE phase \in {"waiting", "locked", "running"} -> "asked"
      [] phase = "saved" -> "answered"
      [] phase = "failed" -> "error"
      [] OTHER -> "idle"

Serial == INSTANCE SerialSession
    WITH session <- InEffect, phase <- [t \in Turns |-> Told(pc[t])]

(***************************************************************************)
(* The store implements SerialSession: under the lock the concurrent       *)
(* requests of a conversation behave as if served one at a time.           *)
(***************************************************************************)
ImplementsSerialSession == Serial!Spec

(***************************************************************************)
(* Every request that waits for the lock gets in or is told it could not:  *)
(* a turn that dies inside cannot block its conversation for ever, because *)
(* the lease it leaves runs out.                                           *)
(***************************************************************************)
EveryRequestEnds == \A t \in Turns : pc[t] = "waiting" ~> pc[t] = "idle"
=============================================================================

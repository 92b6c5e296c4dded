---------------------------- MODULE SessionStore ----------------------------
(***************************************************************************)
(* The per-conversation session record and the lock around it, as both     *)
(* back ends of security/session.py keep them: MemorySessionStore (one     *)
(* process, asyncio.Lock) and RedisSessionStore (shared by replicas, a     *)
(* lock with a lease and a blocking timeout).  One conversation is         *)
(* modelled: its key and its lock are independent of every other's.        *)
(*                                                                         *)
(* What a turn does to its copy of the session between Load and Save is    *)
(* the business of the module that instantiates this one.                  *)
(***************************************************************************)
CONSTANTS
    Turns,              \* requests that may be inside `locked` for this conversation
    Fresh,              \* Session(conversation_id=...): what get() returns for no record
    Free, Orphan,       \* no lock; a lock whose holder died and whose lease still runs
    LeaseOutlivesTurn   \* TRUE: no turn outlasts lock_timeout_seconds

VARIABLES
    backend,    \* settings.session_backend, fixed by get_session_store's lru_cache
    stored,     \* the session get() would return
    lock,       \* the turn that owns the lock, Free or Orphan
    pc,         \* where each turn is in `async with sessions.locked(...)`
    local,      \* the Session object each turn mutates
    read        \* what each turn loaded (history, for the properties)

storeVars == <<backend, stored, lock, pc, local, read>>

Backends == {"memory", "redis"}

\* "saved": left the block normally.  "failed": left it by an exception.
Phases == {"idle", "waiting", "locked", "running", "saved", "failed"}

\* Between acquiring the lock and giving it back.
Inside == {"locked", "running", "saved", "failed"}

Goto(t, phase) == pc' = [pc EXCEPT ![t] = phase]

-----------------------------------------------------------------------------
(***************************************************************************)
(* Faulty variants of the actions below.  No specification uses them: each *)
(* is what one plausible slip in session.py would do, kept to confirm that *)
(* the properties notice it.                                               *)
(***************************************************************************)
\* A lock that is granted whether or not it is held.
AcquireRegardless(t) ==
    /\ pc[t] = "waiting"
    /\ lock' = t
    /\ Goto(t, "locked")
    /\ UNCHANGED <<backend, stored, local, read>>

\* `await lock.acquire(...)` with its False result ignored.
TimeoutIgnored(t) ==
    /\ backend = "redis"
    /\ pc[t] = "waiting"
    /\ lock # Free
    /\ Goto(t, "locked")
    /\ UNCHANGED <<backend, stored, lock, local, read>>

\* No blocking_timeout: the wait for the lock is never cut short.
TimeoutNever(t) == FALSE /\ UNCHANGED storeVars

\* The SET's error is swallowed and the turn reported as done.
SaveErrorSwallowed(t) ==
    /\ backend = "redis"
    /\ pc[t] = "running"
    /\ Goto(t, "saved")
    /\ UNCHANGED <<backend, stored, lock, local, read>>

\* A lease so short that it runs out while its turn is still inside.
LeaseExpiresEarly ==
    /\ backend = "redis"
    /\ lock # Free
    /\ lock' = Free
    /\ UNCHANGED <<backend, stored, pc, local, read>>

-----------------------------------------------------------------------------
StoreInit ==
    /\ backend \in Backends
    /\ stored = Fresh
    /\ lock = Free
    /\ pc = [t \in Turns |-> "idle"]
    /\ local = [t \in Turns |-> Fresh]
    /\ read = [t \in Turns |-> Fresh]

\* A request reaches `async with self.sessions.locked(conv.id)`.
Enter(t) ==
    /\ pc[t] = "idle"
    /\ Goto(t, "waiting")
    /\ UNCHANGED <<backend, stored, lock, local, read>>

Acquire(t) ==
    /\ pc[t] = "waiting"
    /\ lock = Free
    /\ lock' = t
    /\ Goto(t, "locked")
    /\ UNCHANGED <<backend, stored, local, read>>

\* redis-py gives up after blocking_timeout and raises LockError; asyncio.Lock never does.
BlockingTimeout(t) ==
    /\ backend = "redis"
    /\ pc[t] = "waiting"
    /\ lock # Free
    /\ Goto(t, "idle")
    /\ UNCHANGED <<backend, stored, lock, local, read>>

Load(t) ==
    /\ pc[t] = "locked"
    /\ local' = [local EXCEPT ![t] = stored]
    /\ read' = [read EXCEPT ![t] = stored]
    /\ Goto(t, "running")
    /\ UNCHANGED <<backend, stored, lock>>

\* The GET fails: `async with lock` gives the lock back and nothing is saved.
LoadFails(t) ==
    /\ backend = "redis"
    /\ pc[t] = "locked"
    /\ Goto(t, "failed")
    /\ UNCHANGED <<backend, stored, lock, local, read>>

\* `finally: await self.save(session)`: the body's exception does not skip it.
Save(t, outcome) ==
    /\ pc[t] = "running"
    /\ stored' = local[t]
    /\ Goto(t, outcome)
    /\ UNCHANGED <<backend, lock, local, read>>

\* The SET itself fails: whatever the turn did elsewhere stays done.
SaveFails(t) ==
    /\ backend = "redis"
    /\ pc[t] = "running"
    /\ Goto(t, "failed")
    /\ UNCHANGED <<backend, stored, lock, local, read>>

Forget(t) ==
    /\ local' = [local EXCEPT ![t] = Fresh]
    /\ read' = [read EXCEPT ![t] = Fresh]

\* __aexit__ of the lock.  A lock no longer owned is left to its owner (LockNotOwnedError).
Release(t) ==
    /\ pc[t] \in {"saved", "failed"}
    /\ lock' = IF lock = t THEN Free ELSE lock
    /\ Goto(t, "idle")
    /\ Forget(t)
    /\ UNCHANGED <<backend, stored>>

\* Redis drops the lock key lock_timeout_seconds after it was set, holder or not.
LeaseExpires ==
    /\ backend = "redis"
    /\ lock # Free
    /\ LeaseOutlivesTurn => lock = Orphan
    /\ lock' = Free
    /\ UNCHANGED <<backend, stored, pc, local, read>>

\* The replica running t dies; Redis keeps the last saved session and the lock key.
Crash(t) ==
    /\ backend = "redis"
    /\ pc[t] # "idle"
    /\ lock' = IF lock = t THEN Orphan ELSE lock
    /\ Goto(t, "idle")
    /\ Forget(t)
    /\ UNCHANGED <<backend, stored>>

\* The only process of a memory deployment restarts: sessions and locks go with it.
Restart ==
    /\ backend = "memory"
    /\ stored' = Fresh
    /\ lock' = Free
    /\ pc' = [t \in Turns |-> "idle"]
    /\ local' = [t \in Turns |-> Fresh]
    /\ read' = [t \in Turns |-> Fresh]
    /\ UNCHANGED backend

\* The TTL (session_ttl_seconds) runs out, perhaps while a turn is inside the lock.
Expire ==
    /\ stored # Fresh
    /\ stored' = Fresh
    /\ UNCHANGED <<backend, lock, pc, local, read>>
=============================================================================

---------------------------- MODULE ModelGateway ----------------------------
(***************************************************************************)
(* The gate every language-model call of one process goes through          *)
(* (providers/openai_compat.py): a bounded admission queue in front of a   *)
(* semaphore, and a circuit breaker with a half-open recovery probe.       *)
(*                                                                         *)
(* The bodies of both asyncio locks contain no await, so each is one step. *)
(* A call suspends while queued, while the provider works on it, and, when *)
(* streaming, while the response is closed after its success was recorded. *)
(***************************************************************************)
EXTENDS Integers, FiniteSets

CONSTANTS
    Requests,
    MaxConcurrency,     \* settings.llm_max_concurrency
    MaxPending,         \* settings.llm_max_pending_requests
    Threshold           \* settings.llm_circuit_failure_threshold

ASSUME RequestsAssumption == IsFiniteSet(Requests)
ASSUME LimitsAssumption ==
    MaxConcurrency \in Nat \ {0} /\ MaxPending \in Nat /\ Threshold \in Nat \ {0}

VARIABLES
    phase,      \* where each request is in complete() or stream()
    kind,       \* which of the two it called
    probe,      \* its `recovery_probe`
    admitted,   \* _admitted
    slots,      \* permits left in _concurrency
    failures,   \* _circuit_failures, counted up to Threshold
    circuit,    \* _circuit_open_until: 0 is "closed", ahead "open", past "half"
    probing     \* _circuit_probe_in_flight

breaker == <<failures, circuit, probing>>
vars == <<phase, kind, probe, admitted, slots, breaker>>

Kinds == {"complete", "stream"}
Phases == {"idle", "queued", "active", "closing"}

\* Holding a permit of the semaphore.
Working(r) == phase[r] \in {"active", "closing"}

Goto(r, p) == phase' = [phase EXCEPT ![r] = p]

-----------------------------------------------------------------------------
(***************************************************************************)
(* Faulty variants of the definitions below, each one plausible slip in    *)
(* openai_compat.py.  No specification uses them.                          *)
(***************************************************************************)
\* `self._admitted -= 1` only for requests that got a permit.
LeaveQueueCounted(r) ==
    /\ Goto(r, "idle")
    /\ UNCHANGED <<kind, probe, admitted, slots>>

\* asyncio.wait_for left out.
GiveUpNever(r) == FALSE /\ UNCHANGED vars

\* `except asyncio.CancelledError` left out: a cancelled probe records nothing.
CancelSilently(r) ==
    /\ phase[r] = "active"
    /\ Goto(r, "idle")
    /\ probe' = [probe EXCEPT ![r] = FALSE]
    /\ admitted' = admitted - 1
    /\ slots' = slots + 1
    /\ UNCHANGED <<kind, breaker>>

\* `self._circuit_probe_in_flight = False` left out of _record_failure.
RecordFailureFlagKept(recovery_probe) ==
    /\ failures' = IF failures < Threshold THEN failures + 1 ELSE Threshold
    /\ circuit' = IF recovery_probe \/ failures' = Threshold THEN "open" ELSE circuit
    /\ UNCHANGED probing

-----------------------------------------------------------------------------
Init ==
    /\ phase = [r \in Requests |-> "idle"]
    /\ kind \in [Requests -> Kinds]
    /\ probe = [r \in Requests |-> FALSE]
    /\ admitted = 0
    /\ slots = MaxConcurrency
    /\ failures = 0
    /\ circuit = "closed"
    /\ probing = FALSE

\* _admission up to the semaphore.  A request over the limit is refused: nothing changes.
Arrive(r) ==
    /\ phase[r] = "idle"
    /\ admitted < MaxConcurrency + MaxPending
    /\ admitted' = admitted + 1
    /\ Goto(r, "queued")
    /\ kind' \in {[kind EXCEPT ![r] = k] : k \in Kinds}
    /\ UNCHANGED <<probe, slots, breaker>>

\* _admission's `finally` for a request that never got a permit.
LeaveQueue(r) ==
    /\ Goto(r, "idle")
    /\ admitted' = admitted - 1
    /\ UNCHANGED <<kind, probe, slots>>

\* The semaphore's queue timeout, or the caller's cancellation, while waiting.
GiveUp(r) ==
    /\ phase[r] = "queued"
    /\ slots = 0
    /\ LeaveQueue(r)
    /\ UNCHANGED breaker

\* A permit is free and _before_model_request refuses: it is given back at once.
Refuse(r) ==
    /\ phase[r] = "queued"
    /\ slots > 0
    /\ circuit = "open" \/ (circuit = "half" /\ probing)
    /\ LeaveQueue(r)
    /\ UNCHANGED breaker

\* _before_model_request lets the request through, as the recovery probe when half open.
Start(r) ==
    /\ phase[r] = "queued"
    /\ slots > 0
    /\ circuit = "closed" \/ (circuit = "half" /\ ~probing)
    /\ slots' = slots - 1
    /\ Goto(r, "active")
    /\ probe' = [probe EXCEPT ![r] = circuit = "half"]
    /\ probing' = (probing \/ circuit = "half")
    /\ UNCHANGED <<kind, admitted, failures, circuit>>

\* _admission's `finally` for a request that held a permit.
Leave(r) ==
    /\ Goto(r, "idle")
    /\ probe' = [probe EXCEPT ![r] = FALSE]
    /\ admitted' = admitted - 1
    /\ slots' = slots + 1
    /\ UNCHANGED kind

RecordSuccess ==
    /\ failures' = 0
    /\ circuit' = "closed"
    /\ probing' = FALSE

RecordFailure(recovery_probe) ==
    /\ failures' = IF failures < Threshold THEN failures + 1 ELSE Threshold
    /\ circuit' = IF recovery_probe \/ failures' = Threshold THEN "open" ELSE circuit
    /\ probing' = FALSE

Complete(r) ==
    /\ phase[r] = "active"
    /\ kind[r] = "complete"
    /\ RecordSuccess
    /\ Leave(r)

\* The stream's end: success is recorded, then the response is closed, which suspends.
EndStream(r) ==
    /\ phase[r] = "active"
    /\ kind[r] = "stream"
    /\ RecordSuccess
    /\ Goto(r, "closing")
    /\ UNCHANGED <<kind, probe, admitted, slots>>

\* stream()'s `finally`: a probe gives the flag back.
CloseStream(r) ==
    /\ phase[r] = "closing"
    /\ probing' = (probing /\ ~probe[r])
    /\ UNCHANGED <<failures, circuit>>
    /\ Leave(r)

\* The last attempt raised, or closing did.
Fail(r) ==
    /\ Working(r)
    /\ RecordFailure(probe[r])
    /\ Leave(r)

\* CancelledError: only a probe counts as a failure.
Cancel(r) ==
    /\ Working(r)
    /\ IF probe[r] THEN RecordFailure(TRUE) ELSE UNCHANGED breaker
    /\ Leave(r)

\* llm_circuit_recovery_seconds have passed since the breaker last opened.
Recover ==
    /\ circuit = "open"
    /\ circuit' = "half"
    /\ UNCHANGED <<phase, kind, probe, admitted, slots, failures, probing>>

Next ==
    \/ \E r \in Requests :
        \/ Arrive(r) \/ GiveUp(r) \/ Refuse(r) \/ Start(r)
        \/ Complete(r) \/ EndStream(r) \/ CloseStream(r)
        \/ Fail(r) \/ Cancel(r)
    \/ Recover

Spec == Init /\ [][Next]_vars

(***************************************************************************)
(* The queue timeout, the HTTP timeouts and the recovery timer end every   *)
(* wait, and callers keep asking.                                          *)
(***************************************************************************)
Fairness ==
    /\ \A r \in Requests :
        /\ WF_vars(GiveUp(r) \/ Refuse(r) \/ Start(r))
        /\ WF_vars(Complete(r) \/ EndStream(r) \/ Fail(r))
        /\ WF_vars(CloseStream(r))
    /\ WF_vars(\E r \in Requests : Arrive(r))
    /\ WF_vars(Recover)

FairSpec == Spec /\ Fairness

-----------------------------------------------------------------------------
TypeOK ==
    /\ phase \in [Requests -> Phases]
    /\ kind \in [Requests -> Kinds]
    /\ probe \in [Requests -> BOOLEAN]
    /\ admitted \in 0..(MaxConcurrency + MaxPending)
    /\ slots \in 0..MaxConcurrency
    /\ failures \in 0..Threshold
    /\ circuit \in {"closed", "open", "half"}
    /\ probing \in BOOLEAN

(***************************************************************************)
(* Neither counter leaks: _admitted counts exactly the requests inside     *)
(* _admission and the semaphore exactly those working, however they leave  *)
(* (answer, error, timeout, cancellation).  A leak would shrink the gate   *)
(* for the life of the process.                                            *)
(***************************************************************************)
CountersAgree ==
    /\ admitted = Cardinality({r \in Requests : phase[r] # "idle"})
    /\ slots = MaxConcurrency - Cardinality({r \in Requests : Working(r)})

(***************************************************************************)
(* The probe flag is never left behind: while it is set, a probe is in     *)
(* flight that will clear it.  Otherwise the breaker would refuse every    *)
(* call of the process for ever.                                           *)
(***************************************************************************)
ProbeIsLive == probing => \E r \in Requests : Working(r) /\ probe[r]

(***************************************************************************)
(* An open breaker is always tried again: it closes, or a probe goes out.  *)
(***************************************************************************)
BreakerIsRetried ==
    circuit = "open" ~> (circuit = "closed" \/ \E r \in Requests : Working(r) /\ probe[r])

(***************************************************************************)
(* Every request that is admitted gets an answer or an error.              *)
(***************************************************************************)
EveryCallEnds == \A r \in Requests : phase[r] = "queued" ~> phase[r] = "idle"

\* `the single half-open recovery probe` (_before_model_request's docstring).
SingleProbe == Cardinality({r \in Requests : phase[r] = "active" /\ probe[r]}) <= 1
=============================================================================

--------------------------- MODULE SerialSession ----------------------------
(***************************************************************************)
(* What a locked session promises to the requests of one conversation:     *)
(* each answered request has changed the session exactly once, on top of   *)
(* everything answered before it, as if requests ran one at a time; only   *)
(* expiry (the TTL, or the loss of a memory store) forgets, and it forgets *)
(* everything.  A request that ended in an error may have been applied or  *)
(* not, or may have found the session expired under it.                    *)
(***************************************************************************)
EXTENDS Naturals

CONSTANT Turns

VARIABLES
    session,    \* session[t]: how many of t's changes the session holds
    phase       \* what each request has been told

vars == <<session, phase>>

Nothing == [t \in Turns |-> 0]

With(s, t) == [s EXCEPT ![t] = @ + 1]

TypeOK ==
    /\ session \in [Turns -> Nat]
    /\ phase \in [Turns -> {"idle", "asked", "answered", "error"}]

Init ==
    /\ session = Nothing
    /\ phase = [t \in Turns |-> "idle"]

Ask(t) ==
    /\ phase[t] = "idle"
    /\ phase' = [phase EXCEPT ![t] = "asked"]
    /\ UNCHANGED session

Serve(t) ==
    /\ phase[t] = "asked"
    /\ session' = With(session, t)
    /\ phase' = [phase EXCEPT ![t] = "answered"]

Fail(t) ==
    /\ phase[t] = "asked"
    /\ session' \in {session, With(session, t), Nothing}
    /\ phase' = [phase EXCEPT ![t] = "error"]

Leave(t) ==
    /\ phase[t] \in {"answered", "error"}
    /\ phase' = [phase EXCEPT ![t] = "idle"]
    /\ UNCHANGED session

\* A request cut off before any answer (lock timeout, dead replica): nothing applied, but
\* the session it had pinned may have run out meanwhile.
Drop(t) ==
    /\ phase[t] # "idle"
    /\ session' \in {session, Nothing}
    /\ phase' = [phase EXCEPT ![t] = "idle"]

Forget(T) ==
    /\ session' = Nothing
    /\ phase' = [t \in Turns |-> IF t \in T THEN "idle" ELSE phase[t]]

Next ==
    \/ \E t \in Turns : Ask(t) \/ Serve(t) \/ Fail(t) \/ Leave(t) \/ Drop(t)
    \/ \E T \in {{}, Turns} : Forget(T)

Spec == Init /\ [][Next]_vars
=============================================================================

---------------------------- MODULE FixedWindow -----------------------------
(***************************************************************************)
(* What a fixed-window limiter promises: a key's window opens with its     *)
(* first pass, lasts Window ticks (and may linger for the tick in which it *)
(* ends), and lets Limit[key] through.  Refusing is always allowed, and is *)
(* no step of this specification.                                          *)
(***************************************************************************)
EXTENDS Naturals

CONSTANTS Keys, Limit, Window

VARIABLES
    used,       \* passes in the key's open window, 0 when none is open
    left,       \* ticks until it ends
    recent      \* recent[k][a]: passes of k, a ticks ago

vars == <<used, left, recent>>

Ages == 0..(Window - 1)

Nothing == [k \in Keys |-> [a \in Ages |-> 0]]

Aged(r) == [k \in Keys |-> [a \in Ages |-> IF a = 0 THEN 0 ELSE r[k][a - 1]]]

Init ==
    /\ used = [k \in Keys |-> 0]
    /\ left = [k \in Keys |-> 0]
    /\ recent = Nothing

Pass(k) ==
    /\ used[k] < Limit[k]
    /\ used' = [used EXCEPT ![k] = @ + 1]
    /\ left' = [left EXCEPT ![k] = IF used[k] = 0 THEN Window ELSE @]
    /\ recent' = [recent EXCEPT ![k][0] = @ + 1]

\* A hit whose pass nobody heard of uses the window up all the same.
Waste(k) ==
    /\ used[k] < Limit[k]
    /\ used' = [used EXCEPT ![k] = @ + 1]
    /\ left' = [left EXCEPT ![k] = IF used[k] = 0 THEN Window ELSE @]
    /\ UNCHANGED recent

\* Time passes; windows that end close now, or linger and close with the next tick.
Tick(closing) ==
    /\ closing \subseteq {k \in Keys : left[k] = 1}
    /\ used' = [k \in Keys |-> IF left[k] = 0 \/ k \in closing THEN 0 ELSE used[k]]
    /\ left' = [k \in Keys |-> IF left[k] = 0 THEN 0 ELSE left[k] - 1]
    /\ recent' = Aged(recent)

\* The counters are lost; what follows is counted from here.
Restart ==
    /\ used' = [k \in Keys |-> 0]
    /\ left' = [k \in Keys |-> 0]
    /\ recent' = Nothing

Next ==
    \/ \E k \in Keys : Pass(k) \/ Waste(k)
    \/ \E closing \in SUBSET Keys : Tick(closing)
    \/ Restart

Spec == Init /\ [][Next]_vars
=============================================================================

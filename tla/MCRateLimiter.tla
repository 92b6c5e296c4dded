--------------------------- MODULE MCRateLimiter ----------------------------
(***************************************************************************)
(* One address, two principals behind it, and room for two buckets.        *)
(***************************************************************************)
EXTENDS RateLimiter, TLC

CONSTANTS a1, s1, s2

TheLimit == [k \in {a1, s1, s2} |-> IF k = a1 THEN 2 ELSE 1]

Symmetry == Permutations({s1, s2})
=============================================================================

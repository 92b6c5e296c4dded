---------------------------- MODULE MCRetrieval ----------------------------
(***************************************************************************)
(* Two files and two texts: `auto` is one piece or, cut smaller, two; `gen` *)
(* is for every product.  The model the API serves with, which cuts small, *)
(* and another one of another dimension, used before and by another job.   *)
(***************************************************************************)
EXTENDS Retrieval

CONSTANTS auto, gen, whole, small, other, job1, job2

TextProduct == [t \in Texts |-> IF t = gen THEN None ELSE "auto"]
TextCategory == [t \in Texts |-> IF t = gen THEN "faq" ELSE "coverage"]

Cut == [x \in Texts \X Settings |->
          IF x[1] = gen THEN <<"g">> ELSE IF x[2] = small THEN <<"a", "b">> ELSE <<"ab">>]

JobSetting == [j \in Jobs |-> IF j = job1 THEN whole ELSE small]

ModelOf == [s \in Settings |-> IF s = small THEN "m1" ELSE "m2"]
DimOf == [m \in {"m1", "m2"} |-> IF m = "m1" THEN 2 ELSE 3]

Similarities ==
    [m \in {"m1", "m2"} |-> [a |-> 60, b |-> 30, g |-> 50, ab |-> 40]]
Counts == [a |-> 3, b |-> 0, g |-> 2, ab |-> 2]
Covered == [a |-> 0, b |-> 100, g |-> 50, ab |-> 100]
=============================================================================

----------------------------- MODULE MCChunking -----------------------------
(***************************************************************************)
(* Every text of up to MaxParagraphs paragraphs, each of up to MaxLength   *)
(* characters of which one inner one may be a blank, with every size and   *)
(* overlap up to MaxSize.                                                  *)
(***************************************************************************)
EXTENDS Chunking, SequencesExt

CONSTANTS MaxParagraphs, MaxLength, MaxSize

\* A paragraph: its length and the place of its blank, 0 for none.
Paragraphs ==
    {p \in (1..MaxLength) \X (0..MaxLength) : p[2] = 0 \/ p[2] \in 2..(p[1] - 1)}

\* Where the k-th paragraph begins.
Begins(ps, k) ==
    1 + FoldLeftDomain(LAMBDA sum, i : IF i < k THEN sum + ps[i][1] + 2 ELSE sum, 0, ps)

TextOf(ps) ==
    [paras |-> [k \in DOMAIN ps |->
                  [lo |-> Begins(ps, k), hi |-> Begins(ps, k) + ps[k][1] - 1]],
     blank |-> {Begins(ps, k) + ps[k][1] : k \in DOMAIN ps}
                 \cup {Begins(ps, k) + ps[k][1] + 1 : k \in DOMAIN ps}
                 \cup {Begins(ps, k) + ps[k][2] - 1 : k \in {i \in DOMAIN ps : ps[i][2] # 0}}]

Documents == {TextOf(ps) : ps \in UNION {[1..n -> Paragraphs] : n \in 0..MaxParagraphs}}

Sizes == [size : 1..MaxSize, overlap : 0..MaxSize]
=============================================================================

------------------------------ MODULE Chunking ------------------------------
(***************************************************************************)
(* Cutting a document into the passages that are embedded and cited:       *)
(* chunk_text of rag/chunking.py.  Paragraphs are packed into chunks, with *)
(* an overlap between them, and chunks that are far too long are cut up.   *)
(*                                                                         *)
(* A text is given by positions: those of its paragraphs, put together     *)
(* again with two characters ("\n\n") between them, and those that are     *)
(* white space.  All that the loops build is a stretch of this text.       *)
(***************************************************************************)
EXTENDS Integers, Sequences

CONSTANTS
    Layouts,    \* documents
    Limits      \* chunk sizes and overlaps: rag_chunk_size, rag_chunk_overlap

Stretches == [lo : Int, hi : Int]

\* What splitting at blank lines and stripping returns.
WellFormed(t) ==
    /\ t.paras \in Seq(Stretches)
    /\ \A k \in DOMAIN t.paras :
          /\ t.paras[k].lo <= t.paras[k].hi
          /\ t.paras[k].lo \notin t.blank /\ t.paras[k].hi \notin t.blank
          /\ t.paras[k].lo = IF k = 1 THEN 1 ELSE t.paras[k - 1].hi + 3

ASSUME LayoutsAssumption == \A t \in Layouts : WellFormed(t)
ASSUME LimitsAssumption ==
    \A s \in Limits : s.size \in Nat \ {0} /\ s.overlap \in Nat

VARIABLES
    text,
    setting,
    next,       \* the paragraph to be read
    current,    \* what has been packed and is in no chunk yet
    packed,     \* the chunks
    cutting,    \* 0 while paragraphs are packed, then the chunk looked at
    at,         \* how much of it has been cut off
    out         \* the pieces returned

vars == <<text, setting, next, current, packed, cutting, at, out>>

Empty == [lo |-> 1, hi |-> 0]

Length(c) == c.hi - c.lo + 1

Init ==
    /\ text \in Layouts
    /\ setting \in Limits
    /\ next = 1
    /\ current = Empty
    /\ packed = <<>>
    /\ cutting = 0
    /\ at = 0
    /\ out = <<>>

-----------------------------------------------------------------------------
\* A plausible bug: current[-0:] is all of it.
TailOfAll(c) == IF setting.overlap \in 1..Length(c) THEN c.hi - setting.overlap + 1 ELSE c.lo

\* Where the last `overlap` characters of a chunk begin; after its end if overlap is 0.
TailOf(c) == IF setting.overlap <= Length(c) THEN c.hi - setting.overlap + 1 ELSE c.lo

\* White space at the start of the tail is stripped.
Resumes(c, lo) ==
    \/ lo \in TailOf(c)..c.hi /\ lo \notin text.blank /\ (TailOf(c)..(lo - 1)) \subseteq text.blank
    \/ setting.overlap = 0 /\ lo = text.paras[next].lo

Fits(c, para) == Length(c) + Length(para) + 2 <= setting.size

\* One paragraph: it joins what is there, or that is a chunk and the next one begins.
Pack ==
    /\ cutting = 0 /\ next \in DOMAIN text.paras
    /\ \/ /\ current = Empty
          /\ current' = text.paras[next]
          /\ UNCHANGED packed
       \/ /\ current # Empty /\ Fits(current, text.paras[next])
          /\ current' = [current EXCEPT !.hi = text.paras[next].hi]
          /\ UNCHANGED packed
       \/ /\ current # Empty /\ ~Fits(current, text.paras[next])
          /\ packed' = Append(packed, current)
          /\ \E lo \in current.lo..text.paras[next].lo :
                /\ Resumes(current, lo)
                /\ current' = [lo |-> lo, hi |-> text.paras[next].hi]
    /\ next' = next + 1
    /\ UNCHANGED <<text, setting, cutting, at, out>>

\* What is left is a chunk, too.
Close ==
    /\ cutting = 0 /\ next \notin DOMAIN text.paras
    /\ packed' = IF current = Empty THEN packed ELSE Append(packed, current)
    /\ cutting' = 1
    /\ UNCHANGED <<text, setting, next, current, at, out>>

Oversized(c) == 2 * Length(c) > 3 * setting.size

Keep ==
    /\ cutting \in DOMAIN packed /\ ~Oversized(packed[cutting])
    /\ out' = Append(out, packed[cutting])
    /\ cutting' = cutting + 1
    /\ UNCHANGED <<text, setting, next, current, packed, at>>

\* A plausible bug: a character is lost between two pieces.
StrideAndOne == setting.size + 1

Stride == setting.size

\* One piece of a chunk that is too long, with no overlap.
Cut ==
    /\ cutting \in DOMAIN packed /\ Oversized(packed[cutting])
    /\ LET lo == packed[cutting].lo + at
           hi == lo + setting.size - 1
       IN  IF hi >= packed[cutting].hi
           THEN /\ out' = Append(out, [lo |-> lo, hi |-> packed[cutting].hi])
                /\ cutting' = cutting + 1 /\ at' = 0
           ELSE /\ out' = Append(out, [lo |-> lo, hi |-> hi])
                /\ at' = at + Stride /\ UNCHANGED cutting
    /\ UNCHANGED <<text, setting, next, current, packed>>

Next == Pack \/ Close \/ Keep \/ Cut

Spec == Init /\ [][Next]_vars

-----------------------------------------------------------------------------
(***************************************************************************)
(* Properties.                                                             *)
(***************************************************************************)
Positions(c) == c.lo..c.hi

TypeOK ==
    /\ text \in Layouts
    /\ setting \in Limits
    /\ next \in 1..(Len(text.paras) + 1)
    /\ current \in Stretches
    /\ packed \in Seq(Stretches)
    /\ cutting \in Nat
    /\ at \in Nat
    /\ out \in Seq(Stretches)

Returned == cutting > Len(packed)

\* Every character of every paragraph is in some piece that is returned, whatever was
\* stripped, carried over, cut or left for the end.
NothingDropped ==
    Returned =>
        \A k \in DOMAIN text.paras : \A i \in Positions(text.paras[k]) :
            \E n \in DOMAIN out : i \in Positions(out[n])

\* The pieces go through the text: each is within half as much again of the chunk size,
\* repeats at most the overlap, skips at most a paragraph break, and goes further than the
\* one before it, if the overlap is less than the size (config.py has no check of this).
PiecesGoOn ==
    /\ \A n \in DOMAIN out : out[n].lo <= out[n].hi /\ ~Oversized(out[n])
    /\ \A n \in DOMAIN out : n > 1 =>
          /\ out[n].lo >= out[n - 1].hi + 1 - setting.overlap
          /\ out[n].lo <= out[n - 1].hi + 3
          /\ setting.overlap < setting.size => out[n].hi > out[n - 1].hi
=============================================================================

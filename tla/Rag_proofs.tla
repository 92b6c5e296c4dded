----------------------------- MODULE Rag_proofs -----------------------------
(***************************************************************************)
(* For every text, chunk size and overlap, any files and settings and any  *)
(* number of jobs: cutting a document drops none of it, the knowledge base *)
(* is the image of what the last job read, and a search of it finds the    *)
(* best passages.                                                          *)
(***************************************************************************)
EXTENDS Chunking, Retrieval, FiniteSetTheorems, FunctionTheorems, TLAPS

-----------------------------------------------------------------------------
(***************************************************************************)
(* Chunking.                                                               *)
(***************************************************************************)
\* How a stretch of the text may come after another one.
Follows(c, d) ==
    /\ d.lo >= c.hi + 1 - setting.overlap
    /\ d.lo <= c.hi + 3
    /\ d.hi > c.hi

\* Only the packed paragraphs are in `current`, to the end of the last of them.
PackInv ==
    cutting = 0 =>
        /\ at = 0 /\ out = <<>>
        /\ IF next = 1 THEN current = Empty /\ packed = <<>>
           ELSE /\ current.lo <= current.hi
                /\ current.hi = text.paras[next - 1].hi
                /\ packed # <<>> => Follows(packed[Len(packed)], current)

ChunkInv ==
    \A n \in DOMAIN packed :
        /\ packed[n].lo <= packed[n].hi
        /\ n > 1 => Follows(packed[n - 1], packed[n])

InChunk(i) ==
    \/ \E n \in DOMAIN packed : i \in Positions(packed[n])
    \/ cutting = 0 /\ next > 1 /\ i \in Positions(current)

ReadInv ==
    /\ \A k \in 1..(next - 1) : \A i \in Positions(text.paras[k]) : InChunk(i)
    /\ cutting # 0 => next = Len(text.paras) + 1

InPiece(i) == \E n \in DOMAIN out : i \in Positions(out[n])

\* The chunks before the one looked at have been returned, and the first `at` of its characters.
CutInv ==
    /\ \A m \in DOMAIN packed : m < cutting => \A i \in Positions(packed[m]) : InPiece(i)
    /\ cutting <= Len(packed) + 1
    /\ cutting # 0 => out = <<>> <=> cutting = 1 /\ at = 0
    /\ cutting > 1 /\ at = 0 => out[Len(out)].hi = packed[cutting - 1].hi
    /\ at > 0 => /\ cutting \in DOMAIN packed /\ Oversized(packed[cutting])
                 /\ packed[cutting].lo + at <= packed[cutting].hi
                 /\ out[Len(out)].hi = packed[cutting].lo + at - 1
                 /\ \A i \in packed[cutting].lo..(packed[cutting].lo + at - 1) : InPiece(i)

CInv == TypeOK /\ PackInv /\ ChunkInv /\ ReadInv /\ CutInv /\ PiecesGoOn

LEMMA TextFacts ==
    ASSUME TypeOK
    PROVE  /\ setting.size \in Nat \ {0} /\ setting.overlap \in Nat
           /\ text.paras \in Seq(Stretches)
           /\ DOMAIN text.paras = 1..Len(text.paras) /\ Len(text.paras) \in Nat
           /\ \A k \in DOMAIN text.paras :
                 /\ text.paras[k] \in Stretches
                 /\ text.paras[k].lo <= text.paras[k].hi
                 /\ text.paras[k].lo = IF k = 1 THEN 1 ELSE text.paras[k - 1].hi + 3
<1>1. text \in Layouts /\ setting \in Limits
  BY DEF TypeOK
<1>2. WellFormed(text)
  BY <1>1, LayoutsAssumption
<1>3. setting.size \in Nat \ {0} /\ setting.overlap \in Nat
  BY <1>1, LimitsAssumption
<1>4. text.paras \in Seq(Stretches)
  BY <1>2 DEF WellFormed
<1>5. DOMAIN text.paras = 1..Len(text.paras) /\ Len(text.paras) \in Nat
  BY <1>4
<1>6. \A k \in DOMAIN text.paras : text.paras[k] \in Stretches
  BY <1>4
<1>7. \A k \in DOMAIN text.paras :
          /\ text.paras[k].lo <= text.paras[k].hi
          /\ text.paras[k].lo = IF k = 1 THEN 1 ELSE text.paras[k - 1].hi + 3
  BY <1>2 DEF WellFormed
<1> QED BY <1>3, <1>4, <1>5, <1>6, <1>7

LEMMA Appended ==
    ASSUME NEW s \in Seq(Stretches), NEW c \in Stretches
    PROVE  /\ Append(s, c) \in Seq(Stretches)
           /\ Len(Append(s, c)) = Len(s) + 1
           /\ DOMAIN Append(s, c) = 1..(Len(s) + 1) /\ DOMAIN s = 1..Len(s) /\ Len(s) \in Nat
           /\ Append(s, c)[Len(s) + 1] = c
           /\ \A n \in DOMAIN s : Append(s, c)[n] = s[n] /\ s[n] \in Stretches
<1>1. Append(s, c) \in Seq(Stretches) /\ Len(s) \in Nat /\ Len(Append(s, c)) = Len(s) + 1
  OBVIOUS
<1>2. DOMAIN s = 1..Len(s)
  OBVIOUS
<1>3. \A n \in 1..Len(s) : Append(s, c)[n] = s[n] /\ s[n] \in Stretches
  OBVIOUS
<1>4. Append(s, c)[Len(s) + 1] = c
  OBVIOUS
<1>5. DOMAIN Append(s, c) = 1..(Len(s) + 1)
  BY <1>1
<1> QED BY <1>1, <1>2, <1>3, <1>4, <1>5

LEMMA Beyond ==
    ASSUME NEW h \in Int, NEW lo \in Int, NEW overlap \in Nat, NEW size \in Nat
    PROVE  /\ lo >= h + 1 - overlap /\ overlap < size => lo + size - 1 > h
           /\ lo = h + 1 => lo >= h + 1 - overlap /\ lo <= h + 3
OBVIOUS

\* Where the piece ends that is cut `start` characters into a chunk.
CutEnd(from, to, start, size) ==
    IF from + start + size - 1 >= to THEN to ELSE from + start + size - 1

CutFits(from, to, start, size, end) ==
    /\ end \in Int /\ from + start <= end
    /\ end = to \/ end = from + start + size - 1
    /\ ~(2 * (end - (from + start) + 1) > 3 * size)
    /\ ~(from + start + size - 1 >= to) =>
          /\ start + size > 0 /\ end = from + (start + size) - 1
          /\ from + (start + size) <= to

LEMMA PieceEnds ==
    ASSUME NEW from \in Int, NEW to \in Int, NEW start \in Nat, NEW size \in Nat \ {0},
           from + start <= to
    PROVE  CutFits(from, to, start, size, CutEnd(from, to, start, size))
BY DEF CutEnd, CutFits

LEMMA InitInv == Init => CInv
<1> SUFFICES ASSUME Init PROVE CInv
  OBVIOUS
<1>1. TypeOK
  <2>1. text.paras \in Seq(Stretches)
    BY LayoutsAssumption DEF Init, WellFormed
  <2>2. 1 \in 1..(Len(text.paras) + 1)
    BY <2>1
  <2> QED BY <2>2 DEF Init, TypeOK, Empty, Stretches
<1>2. PackInv /\ ChunkInv
  BY DEF Init, PackInv, ChunkInv
<1>3. ReadInv /\ CutInv
  BY DEF Init, ReadInv, CutInv
<1>4. PiecesGoOn
  BY DEF Init, PiecesGoOn
<1> QED BY <1>1, <1>2, <1>3, <1>4 DEF CInv

-----------------------------------------------------------------------------
LEMMA PackStep ==
    ASSUME CInv, Pack
    PROVE  CInv'
<1> DEFINE para == text.paras[next]
<1>0. TypeOK /\ PackInv /\ ChunkInv /\ ReadInv /\ CutInv
  BY DEF CInv
<1>1. /\ next \in Nat \ {0} /\ next <= Len(text.paras) /\ para \in Stretches /\ para.lo <= para.hi
      /\ para.lo \in Int /\ para.hi \in Int
      /\ text' = text /\ setting' = setting /\ cutting = 0 /\ cutting' = 0 /\ next' = next + 1
      /\ at' = 0 /\ at = 0 /\ out' = <<>> /\ out = <<>>
      /\ setting.size \in Nat \ {0} /\ setting.overlap \in Nat
  <2>1. next \in DOMAIN text.paras /\ cutting = 0 /\ next' = next + 1
        /\ UNCHANGED <<text, setting, cutting, at, out>>
    BY DEF Pack
  <2>2. para \in Stretches /\ para.lo <= para.hi
        /\ next \in Nat \ {0} /\ next <= Len(text.paras)
    BY <1>0, <2>1, TextFacts
  <2>3. para.lo \in Int /\ para.hi \in Int
    BY <2>2 DEF Stretches
  <2>4. at = 0 /\ out = <<>>
    BY <1>0, <2>1 DEF PackInv
  <2> QED BY <1>0, <2>1, <2>2, <2>3, <2>4, TextFacts
<1>2. current = Empty <=> next = 1
  BY <1>0, <1>1 DEF PackInv, Empty
<1>3. ASSUME next # 1
      PROVE  /\ current.lo <= current.hi /\ current.lo \in Int /\ current.hi \in Int
             /\ para.lo = current.hi + 3
  <2>1. next - 1 \in DOMAIN text.paras /\ next \in DOMAIN text.paras
    BY <1>0, <1>1, <1>3, TextFacts
  <2> QED BY <2>1, <1>0, <1>1, <1>3, TextFacts DEF PackInv, TypeOK, Stretches
<1>4. /\ current' \in Stretches /\ current'.lo \in Int /\ current'.hi \in Int
      /\ current'.lo <= current'.hi /\ current'.hi = para.hi
      /\ \/ next = 1 /\ current' = para /\ packed' = packed
         \/ next # 1 /\ current'.lo = current.lo /\ packed' = packed
         \/ /\ next # 1 /\ packed' = Append(packed, current)
            /\ current'.lo <= para.lo /\ Follows(current, current')
  <2>1. CASE current = Empty
    <3>1. next = 1 /\ current' = para /\ packed' = packed
      BY <2>1, <1>2 DEF Pack
    <3> QED BY <3>1, <1>1
  <2>2. CASE current # Empty /\ Fits(current, para)
    <3>1. /\ next # 1 /\ current' = [current EXCEPT !.hi = text.paras[next].hi]
          /\ packed' = packed
      BY <2>2, <1>2 DEF Pack
    <3>2. current \in Stretches
      BY <1>0 DEF TypeOK
    <3>3. current' \in Stretches /\ current'.lo = current.lo /\ current'.hi = para.hi
      BY <3>1, <3>2, <1>1 DEF Stretches
    <3> QED BY <3>1, <3>3, <1>1, <1>3, SMTT(20)
  <2>3. CASE current # Empty /\ ~Fits(current, para)
    <3>1. PICK lo \in current.lo..para.lo :
             Resumes(current, lo) /\ current' = [lo |-> lo, hi |-> para.hi]
      BY <2>3 DEF Pack
    <3>0. /\ next # 1 /\ current.lo \in Int /\ current.hi \in Int /\ current.lo <= current.hi
          /\ para.lo = current.hi + 3 /\ lo \in Int /\ setting.overlap \in Nat
      BY <3>1, <1>1, <1>2, <1>3, <2>3
    <3>2. lo >= current.hi + 1 - setting.overlap
      <4>1. CASE setting.overlap = 0 /\ lo = text.paras[next].lo
        BY <4>1, <3>0
      <4>2. CASE lo \in TailOf(current)..current.hi
        BY <4>2, <3>0 DEF TailOf, Length
      <4> QED BY <3>1, <4>1, <4>2 DEF Resumes
    <3>3. packed' = Append(packed, current)
      BY <2>3 DEF Pack
    <3>4. current' \in Stretches /\ current'.lo = lo /\ current'.hi = para.hi
      BY <3>0, <3>1, <1>1 DEF Stretches
    <3>5. lo <= para.lo /\ lo <= current.hi + 3 /\ para.hi > current.hi
      BY <3>0, <3>1, <1>1
    <3> QED BY <3>0, <3>2, <3>3, <3>4, <3>5, <1>1 DEF Follows
  <2> QED BY <2>1, <2>2, <2>3
<1>5. TypeOK'
  <2>1. packed' \in Seq(Stretches)
    <3>1. current \in Stretches /\ packed \in Seq(Stretches)
      BY <1>0 DEF TypeOK
    <3>2. packed' = packed \/ packed' = Append(packed, current)
      BY <1>4
    <3> QED BY <3>1, <3>2, Appended
  <2>2. next' \in 1..(Len(text'.paras) + 1)
    BY <1>0, <1>1, TextFacts
  <2> QED BY <1>0, <1>1, <1>4, <2>1, <2>2 DEF TypeOK
<1>6. DOMAIN packed = 1..Len(packed) /\ Len(packed) \in Nat
      /\ \A n \in DOMAIN packed : packed[n] \in Stretches
  BY <1>0 DEF TypeOK
<1>7. packed # <<>> => Len(packed) \in DOMAIN packed /\ next # 1
  BY <1>0, <1>1, <1>6 DEF TypeOK, PackInv
<1>71. ASSUME packed' = packed, next # 1
       PROVE  current'.lo = current.lo /\ current'.hi > current.hi
  <2>1. current \in Stretches /\ packed \in Seq(Stretches) /\ Len(packed) \in Nat
    BY <1>0, <1>6 DEF TypeOK
  <2>2. Len(Append(packed, current)) = Len(packed) + 1
    BY <2>1, Appended
  <2>3. Len(packed) # Len(packed) + 1
    BY <2>1
  <2>4. packed' # Append(packed, current)
    BY <1>71, <2>2, <2>3
  <2>5. current'.lo = current.lo /\ current'.hi = para.hi
    BY <1>4, <1>71, <2>4
  <2>6. para.hi > current.hi
    BY <1>1, <1>3, <1>71
  <2> QED BY <2>5, <2>6
<1>8. PackInv'
  <2>1. packed' # <<>> => Follows(packed'[Len(packed')], current')
    <3>1. CASE packed' = packed
      <4> SUFFICES ASSUME packed # <<>> PROVE Follows(packed[Len(packed)], current')
        BY <3>1
      <4>1. /\ next # 1 /\ packed[Len(packed)] \in Stretches
            /\ Follows(packed[Len(packed)], current)
        BY <1>0, <1>1, <1>6, <1>7 DEF PackInv
      <4>2. current'.lo = current.lo /\ current'.hi > current.hi
        BY <3>1, <4>1, <1>71
      <4>3. packed[Len(packed)].hi \in Int
        BY <4>1 DEF Stretches
      <4> QED BY <4>1, <4>2, <4>3, <1>1, <1>3, <1>4, SMTT(20) DEF Follows
    <3>2. CASE packed' = Append(packed, current) /\ Follows(current, current')
      BY <3>2, <1>0, Appended DEF TypeOK
    <3> QED BY <3>1, <3>2, <1>4
  <2> QED BY <2>1, <1>1, <1>4 DEF PackInv, Follows
<1>9. ChunkInv'
  <2>1. CASE packed' = packed
    BY <2>1, <1>0, <1>1 DEF ChunkInv, Follows
  <2>2. CASE packed' = Append(packed, current) /\ next # 1
    <3>1. current \in Stretches /\ packed \in Seq(Stretches)
      BY <1>0 DEF TypeOK
    <3>2. /\ DOMAIN packed' = 1..(Len(packed) + 1)
          /\ packed'[Len(packed) + 1] = current
          /\ \A n \in DOMAIN packed : packed'[n] = packed[n]
      BY <2>2, <3>1, Appended
    <3> SUFFICES ASSUME NEW n \in 1..(Len(packed) + 1)
                 PROVE  /\ packed'[n].lo <= packed'[n].hi
                        /\ n > 1 => Follows(packed'[n - 1], packed'[n])
      BY <3>2, <1>1 DEF ChunkInv, Follows
    <3>3. CASE n = Len(packed) + 1
      <4>1. packed # <<>> => Follows(packed[Len(packed)], current)
        BY <2>2, <1>0, <1>1 DEF PackInv
      <4>2. n > 1 => packed # <<>> /\ n - 1 = Len(packed) /\ n - 1 \in DOMAIN packed
        BY <3>3, <1>6
      <4> QED BY <2>2, <3>2, <3>3, <4>1, <4>2, <1>3
    <3>4. CASE n # Len(packed) + 1
      <4>1. n \in DOMAIN packed /\ (n > 1 => n - 1 \in DOMAIN packed)
        BY <3>4, <1>6
      <4> QED BY <3>2, <4>1, <1>0 DEF ChunkInv
    <3> QED BY <3>3, <3>4
  <2> QED BY <2>1, <2>2, <1>4
<1>10. ReadInv'
  <2> SUFFICES ASSUME NEW k \in 1..next, NEW i \in Positions(text.paras[k]) PROVE InChunk(i)'
    BY <1>1 DEF ReadInv, Positions
  <2>1. CASE k = next
    BY <2>1, <1>1, <1>3, <1>4 DEF InChunk, Positions
  <2>2. CASE k < next
    <3>1. i \in Int /\ InChunk(i) /\ next # 1
      <4>1. k \in 1..(next - 1) /\ next # 1
        BY <2>2, <1>1
      <4>2. i \in Int
        BY DEF Positions
      <4> QED BY <1>0, <4>1, <4>2 DEF ReadInv
    <3>2. CASE \E n \in DOMAIN packed : i \in Positions(packed[n])
      <4>1. PICK n \in DOMAIN packed : i \in Positions(packed[n])
        BY <3>2
      <4>2. n \in DOMAIN packed' /\ packed'[n] = packed[n]
        <5>1. current \in Stretches /\ packed \in Seq(Stretches)
          BY <1>0 DEF TypeOK
        <5>2. CASE packed' = Append(packed, current)
          BY <4>1, <5>1, <5>2, <1>6, Appended
        <5> QED BY <4>1, <5>2, <1>4
      <4> QED BY <4>1, <4>2 DEF InChunk, Positions
    <3>3. CASE i \in Positions(current)
      <4>1. CASE packed' = packed
        <5>1. current'.lo = current.lo /\ current'.hi > current.hi /\ current'.hi \in Int
          BY <4>1, <3>1, <1>71, <1>4 DEF Stretches
        <5>2. current.hi \in Int /\ current.lo \in Int
          BY <1>0 DEF TypeOK, Stretches
        <5>3. i \in Positions(current')
          BY <3>1, <3>3, <5>1, <5>2 DEF Positions
        <5>4. cutting' = 0 /\ next' > 1
          BY <1>1
        <5> QED BY <5>3, <5>4 DEF InChunk, Positions
      <4>2. CASE packed' = Append(packed, current)
        BY <4>2, <3>3, <1>0, <1>6, Appended, SMTT(20) DEF InChunk, Positions, TypeOK
      <4> QED BY <4>1, <4>2, <1>4
    <3> QED BY <3>1, <3>2, <3>3 DEF InChunk
  <2> QED BY <2>1, <2>2, <1>1
<1>11. CutInv'
  BY <1>1, <1>5 DEF CutInv, TypeOK
<1>12. PiecesGoOn'
  BY <1>1 DEF PiecesGoOn
<1> QED BY <1>5, <1>8, <1>9, <1>10, <1>11, <1>12 DEF CInv

LEMMA CloseStep ==
    ASSUME CInv, Close
    PROVE  CInv'
<1>0. TypeOK /\ PackInv /\ ChunkInv /\ ReadInv /\ CutInv /\ PiecesGoOn
  BY DEF CInv
<1>1. /\ cutting = 0 /\ cutting' = 1 /\ at = 0 /\ out = <<>>
      /\ packed' = IF current = Empty THEN packed ELSE Append(packed, current)
      /\ UNCHANGED <<text, setting, next, current, at, out>>
  BY <1>0 DEF Close, PackInv
<1>2. next = Len(text.paras) + 1 /\ Len(text.paras) \in Nat
  BY <1>0, TextFacts DEF Close, TypeOK
<1>3. current = Empty <=> next = 1
  BY <1>0, <1>1 DEF PackInv, Empty
<1>4. current \in Stretches /\ packed \in Seq(Stretches)
  BY <1>0 DEF TypeOK
<1>5. TypeOK'
  BY <1>0, <1>1, <1>4, Appended DEF TypeOK
<1>6. DOMAIN packed = 1..Len(packed) /\ Len(packed) \in Nat
  BY <1>4
<1>7. CASE next = 1
  <2>1. packed' = <<>>
    BY <1>0, <1>1, <1>3, <1>7 DEF PackInv
  <2>2. ChunkInv' /\ CutInv'
    BY <2>1, <1>1 DEF ChunkInv, CutInv
  <2>3. ReadInv'
    BY <1>1, <1>2, <1>7 DEF ReadInv
  <2> QED BY <2>2, <2>3, <1>0, <1>1, <1>5 DEF CInv, PackInv, PiecesGoOn
<1>8. CASE next # 1
  <2>1. /\ Len(packed') = Len(packed) + 1 /\ DOMAIN packed' = 1..(Len(packed) + 1)
        /\ packed'[Len(packed) + 1] = current
        /\ \A n \in DOMAIN packed : packed'[n] = packed[n]
    BY <1>1, <1>3, <1>4, <1>8, Appended
  <2>2. current.lo <= current.hi /\ (packed # <<>> => Follows(packed[Len(packed)], current))
    BY <1>0, <1>1, <1>8 DEF PackInv
  <2>3. ChunkInv'
    <3> SUFFICES ASSUME NEW n \in 1..(Len(packed) + 1)
                 PROVE  /\ packed'[n].lo <= packed'[n].hi
                        /\ n > 1 => Follows(packed'[n - 1], packed'[n])
      BY <2>1, <1>1 DEF ChunkInv, Follows
    <3>1. CASE n = Len(packed) + 1
      <4>1. n > 1 => packed # <<>> /\ n - 1 = Len(packed) /\ n - 1 \in DOMAIN packed
        BY <3>1, <1>6
      <4> QED BY <2>1, <2>2, <3>1, <4>1
    <3>2. CASE n # Len(packed) + 1
      <4>1. n \in DOMAIN packed /\ (n > 1 => n - 1 \in DOMAIN packed)
        BY <3>2, <1>6
      <4> QED BY <2>1, <4>1, <1>0 DEF ChunkInv
    <3> QED BY <3>1, <3>2
  <2>4. ReadInv'
    <3> SUFFICES ASSUME NEW k \in 1..(next - 1), NEW i \in Positions(text.paras[k])
                 PROVE  InChunk(i)'
      BY <1>1, <1>2 DEF ReadInv, Positions
    <3>1. InChunk(i)
      BY <1>0 DEF ReadInv
    <3>2. CASE \E n \in DOMAIN packed : i \in Positions(packed[n])
      BY <3>2, <2>1, <1>6 DEF InChunk, Positions
    <3>3. CASE i \in Positions(current)
      BY <3>3, <2>1, <1>6 DEF InChunk, Positions
    <3> QED BY <3>1, <3>2, <3>3 DEF InChunk
  <2>5. CutInv'
    BY <2>1, <1>1, <1>6 DEF CutInv
  <2> QED BY <2>3, <2>4, <2>5, <1>0, <1>1, <1>5 DEF CInv, PackInv, PiecesGoOn
<1> QED BY <1>7, <1>8

-----------------------------------------------------------------------------
\* A piece that is returned follows on the one before it.
LEMMA PieceFollows ==
    ASSUME CInv, cutting \in DOMAIN packed, NEW c \in Stretches,
           c.lo = packed[cutting].lo + at, c.lo <= c.hi, ~Oversized(c),
           \/ c.hi = packed[cutting].hi
           \/ c.hi = c.lo + setting.size - 1,
           UNCHANGED setting, out' = Append(out, c)
    PROVE  /\ PiecesGoOn' /\ out' \in Seq(Stretches) /\ out' # <<>>
           /\ out'[Len(out')] = c
           /\ \A i \in Int : InPiece(i)' <=> InPiece(i) \/ i \in Positions(c)
<1>0. TypeOK /\ ChunkInv /\ CutInv /\ PiecesGoOn
  BY DEF CInv
<1>1. /\ out \in Seq(Stretches) /\ packed \in Seq(Stretches)
      /\ setting.size \in Nat \ {0} /\ setting.overlap \in Nat /\ at \in Nat /\ cutting \in Nat
  BY <1>0, TextFacts DEF TypeOK
<1>2. /\ out' \in Seq(Stretches) /\ DOMAIN out' = 1..(Len(out) + 1) /\ Len(out') = Len(out) + 1
      /\ out'[Len(out) + 1] = c /\ DOMAIN out = 1..Len(out) /\ Len(out) \in Nat
      /\ \A n \in DOMAIN out : out'[n] = out[n] /\ out[n] \in Stretches
  BY <1>1, Appended
<1>3. \A i \in Int : InPiece(i)' <=> InPiece(i) \/ i \in Positions(c)
  BY <1>2 DEF InPiece, Positions
<1>4. DOMAIN packed = 1..Len(packed) /\ \A n \in DOMAIN packed : packed[n] \in Stretches
  BY <1>1
<1>5. /\ c.lo \in Int /\ c.hi \in Int
      /\ packed[cutting].lo \in Int /\ packed[cutting].hi \in Int
      /\ \A n \in DOMAIN out : out[n].lo \in Int /\ out[n].hi \in Int
      /\ \A n \in DOMAIN packed : packed[n].lo \in Int /\ packed[n].hi \in Int
  BY <1>2, <1>4 DEF Stretches
<1>6. ASSUME out # <<>>
      PROVE  LET last == out[Len(out)]
             IN  /\ c.lo >= last.hi + 1 - setting.overlap
                 /\ c.lo <= last.hi + 3
                 /\ setting.overlap < setting.size => c.hi > last.hi
  <2>0. Len(out) \in DOMAIN out /\ cutting > 0
    BY <1>1, <1>2, <1>4, <1>6
  <2>1. CASE at = 0
    <3>1. cutting > 1 /\ cutting - 1 \in DOMAIN packed
          /\ out[Len(out)].hi = packed[cutting - 1].hi
      BY <2>0, <2>1, <1>0, <1>1, <1>4, <1>6 DEF CutInv
    <3>2. Follows(packed[cutting - 1], packed[cutting])
      BY <3>1, <1>0 DEF ChunkInv
    <3>3. c.lo = packed[cutting].lo
      BY <2>1, <1>5
    <3>4. /\ c.lo >= packed[cutting - 1].hi + 1 - setting.overlap
          /\ c.lo <= packed[cutting - 1].hi + 3
      BY <3>2, <3>3 DEF Follows
    <3>5. CASE c.hi = packed[cutting].hi
      BY <3>1, <3>2, <3>4, <3>5 DEF Follows
    <3>6. CASE c.hi = c.lo + setting.size - 1
      <4>1. packed[cutting - 1].hi \in Int
        BY <3>1, <1>5
      <4>2. setting.overlap < setting.size => c.hi > packed[cutting - 1].hi
        BY <3>4, <3>6, <4>1, <1>1, <1>5, Beyond
      <4> QED BY <3>1, <3>4, <4>2
    <3> QED BY <3>5, <3>6
  <2>2. CASE at > 0
    <3>1. out[Len(out)].hi = packed[cutting].lo + at - 1
      BY <2>2, <1>0 DEF CutInv
    <3>2. c.lo = out[Len(out)].hi + 1 /\ out[Len(out)].hi \in Int
      BY <2>0, <3>1, <1>1, <1>5, SMTT(20)
    <3>3. c.hi > out[Len(out)].hi
      BY <3>2, <1>5
    <3>4. /\ c.lo >= out[Len(out)].hi + 1 - setting.overlap
          /\ c.lo <= out[Len(out)].hi + 3
      BY <3>2, <1>1, <1>5, Beyond
    <3> QED BY <3>3, <3>4
  <2> QED BY <2>1, <2>2, <1>1
<1>7. PiecesGoOn'
  <2> SUFFICES ASSUME NEW n \in 1..(Len(out) + 1)
               PROVE  /\ out'[n].lo <= out'[n].hi /\ ~Oversized(out'[n])
                      /\ n > 1 => /\ out'[n].lo >= out'[n - 1].hi + 1 - setting.overlap
                                  /\ out'[n].lo <= out'[n - 1].hi + 3
                                  /\ setting.overlap < setting.size => out'[n].hi > out'[n - 1].hi
    BY <1>2 DEF PiecesGoOn, Oversized
  <2>1. CASE n = Len(out) + 1
    <3>1. n > 1 => out # <<>> /\ n - 1 = Len(out) /\ n - 1 \in DOMAIN out
      BY <2>1, <1>2
    <3> QED BY <2>1, <3>1, <1>2, <1>6
  <2>2. CASE n # Len(out) + 1
    <3>1. n \in DOMAIN out /\ (n > 1 => n - 1 \in DOMAIN out)
      BY <2>2, <1>2
    <3> QED BY <3>1, <1>0, <1>2 DEF PiecesGoOn
  <2> QED BY <2>1, <2>2
<1>8. out' # <<>> /\ out'[Len(out')] = c
  BY <1>2
<1> QED BY <1>2, <1>3, <1>7, <1>8

LEMMA KeepStep ==
    ASSUME CInv, Keep
    PROVE  CInv'
<1>0. TypeOK /\ PackInv /\ ChunkInv /\ ReadInv /\ CutInv
  BY DEF CInv
<1>1. /\ cutting \in DOMAIN packed /\ ~Oversized(packed[cutting])
      /\ out' = Append(out, packed[cutting]) /\ cutting' = cutting + 1
      /\ UNCHANGED <<text, setting, next, current, packed, at>>
  BY DEF Keep
<1>2. /\ DOMAIN packed = 1..Len(packed) /\ Len(packed) \in Nat
      /\ packed[cutting] \in Stretches /\ cutting \in Nat \ {0} /\ at \in Nat
      /\ packed[cutting].lo \in Int /\ packed[cutting].hi \in Int
  <2>1. packed \in Seq(Stretches) /\ cutting \in Nat /\ at \in Nat
    BY <1>0 DEF TypeOK
  <2>2. DOMAIN packed = 1..Len(packed) /\ Len(packed) \in Nat /\ packed[cutting] \in Stretches
    BY <2>1, <1>1
  <2>3. packed[cutting].lo \in Int /\ packed[cutting].hi \in Int
    BY <2>2 DEF Stretches
  <2> QED BY <2>1, <2>2, <2>3, <1>1
<1>3. at = 0
  BY <1>0, <1>1, <1>2 DEF CutInv
<1>4. /\ PiecesGoOn' /\ out' \in Seq(Stretches) /\ out' # <<>>
      /\ out'[Len(out')] = packed[cutting]
      /\ \A i \in Int : InPiece(i)' <=> InPiece(i) \/ i \in Positions(packed[cutting])
  <2>1. packed[cutting].lo = packed[cutting].lo + at /\ packed[cutting].lo <= packed[cutting].hi
    BY <1>0, <1>1, <1>2, <1>3 DEF ChunkInv
  <2> QED BY <2>1, <1>1, <1>2, PieceFollows
<1>5. TypeOK'
  BY <1>0, <1>1, <1>2, <1>4 DEF TypeOK
<1>6. PackInv' /\ ReadInv'
  <2>1. cutting # 0 /\ cutting' # 0
    BY <1>1, <1>2
  <2>2. \A i : InChunk(i) => InChunk(i)'
    BY <1>1, <2>1 DEF InChunk, Positions
  <2>3. ReadInv'
    BY <1>0, <1>1, <2>1, <2>2 DEF ReadInv, Positions
  <2> QED BY <2>1, <2>3 DEF PackInv
<1>7. ChunkInv'
  BY <1>0, <1>1 DEF ChunkInv, Follows
<1>8. CutInv'
  <2>1. \A m \in DOMAIN packed : m < cutting + 1 => \A i \in Positions(packed[m]) : InPiece(i)'
    <3> SUFFICES ASSUME NEW m \in DOMAIN packed, m < cutting + 1, NEW i \in Positions(packed[m])
                 PROVE  InPiece(i)'
      OBVIOUS
    <3>1. i \in Int
      BY DEF Positions
    <3>2. m = cutting \/ m < cutting
      BY <1>2
    <3> QED BY <3>1, <3>2, <1>0, <1>4 DEF CutInv
  <2> QED BY <2>1, <1>1, <1>2, <1>3, <1>4 DEF CutInv
<1> QED BY <1>4, <1>5, <1>6, <1>7, <1>8 DEF CInv

LEMMA CutStep ==
    ASSUME CInv, Cut
    PROVE  CInv'
<1> DEFINE lo == packed[cutting].lo + at
           hi == lo + setting.size - 1
           last == hi >= packed[cutting].hi
           piece == [lo |-> lo, hi |-> IF last THEN packed[cutting].hi ELSE hi]
<1>0. TypeOK /\ PackInv /\ ChunkInv /\ ReadInv /\ CutInv
  BY DEF CInv
<1>1. /\ cutting \in DOMAIN packed /\ Oversized(packed[cutting])
      /\ out' = Append(out, piece)
      /\ IF last THEN cutting' = cutting + 1 /\ at' = 0
         ELSE cutting' = cutting /\ at' = at + setting.size
      /\ UNCHANGED <<text, setting, next, current, packed>>
  BY DEF Cut, Stride
<1>2. /\ DOMAIN packed = 1..Len(packed) /\ Len(packed) \in Nat
      /\ cutting \in Nat \ {0} /\ at \in Nat
      /\ packed[cutting].lo \in Int /\ packed[cutting].hi \in Int
      /\ setting.size \in Nat \ {0}
  <2>1. packed \in Seq(Stretches) /\ cutting \in Nat /\ at \in Nat
    BY <1>0 DEF TypeOK
  <2>2. DOMAIN packed = 1..Len(packed) /\ Len(packed) \in Nat /\ packed[cutting] \in Stretches
    BY <2>1, <1>1
  <2>3. packed[cutting].lo \in Int /\ packed[cutting].hi \in Int
    BY <2>2 DEF Stretches
  <2> QED BY <2>1, <2>2, <2>3, <1>0, <1>1, TextFacts
<1>3. lo \in Int /\ hi \in Int /\ lo <= packed[cutting].hi /\ lo >= packed[cutting].lo
  <2>1. packed[cutting].lo <= packed[cutting].hi
    BY <1>0, <1>1 DEF ChunkInv
  <2>2. at > 0 => packed[cutting].lo + at <= packed[cutting].hi
    BY <1>0 DEF CutInv
  <2> QED BY <2>1, <2>2, <1>2, SMTT(30)
<1>31. CutFits(packed[cutting].lo, packed[cutting].hi, at, setting.size, piece.hi)
  <2>1. piece.hi = CutEnd(packed[cutting].lo, packed[cutting].hi, at, setting.size)
    BY DEF CutEnd
  <2>2. packed[cutting].lo + at <= packed[cutting].hi
    BY <1>3
  <2> HIDE DEF piece
  <2> QED BY <2>1, <2>2, <1>2, PieceEnds
<1>4. /\ piece \in Stretches /\ piece.lo = lo /\ piece.lo <= piece.hi
      /\ piece.hi = packed[cutting].hi \/ piece.hi = piece.lo + setting.size - 1
      /\ ~Oversized(piece)
  <2>1. piece \in Stretches /\ piece.lo = lo
    BY <1>2, <1>3 DEF Stretches
  <2> HIDE DEF piece
  <2> QED BY <2>1, <1>31 DEF CutFits, Oversized, Length
<1>5. /\ PiecesGoOn' /\ out' \in Seq(Stretches) /\ out' # <<>>
      /\ out'[Len(out')] = piece
      /\ \A i \in Int : InPiece(i)' <=> InPiece(i) \/ i \in Positions(piece)
  <2> HIDE DEF piece, last, hi
  <2> QED BY <1>1, <1>4, PieceFollows
<1>6. TypeOK'
  <2>1. cutting' \in Nat /\ at' \in Nat
    BY <1>1, <1>2, SMTT(30)
  <2> QED BY <2>1, <1>0, <1>1, <1>5 DEF TypeOK
<1>7. PackInv' /\ ReadInv'
  <2>1. cutting # 0 /\ cutting' # 0
    BY <1>1, <1>2
  <2>2. \A i : InChunk(i) => InChunk(i)'
    BY <1>1, <2>1 DEF InChunk, Positions
  <2>3. ReadInv'
    BY <1>0, <1>1, <2>1, <2>2 DEF ReadInv, Positions
  <2> QED BY <2>1, <2>3 DEF PackInv
<1>8. ChunkInv'
  BY <1>0, <1>1 DEF ChunkInv, Follows
<1>9. \A i \in packed[cutting].lo..piece.hi : InPiece(i)'
  <2> SUFFICES ASSUME NEW i \in packed[cutting].lo..piece.hi PROVE InPiece(i)'
    OBVIOUS
  <2>1. i \in Int /\ piece.hi \in Int
    BY <1>2, <1>3
  <2>2. CASE i < lo
    <3>1. at > 0 /\ i \in packed[cutting].lo..(packed[cutting].lo + at - 1)
      BY <2>1, <2>2, <1>2, <1>3, SMTT(30)
    <3> QED BY <2>1, <3>1, <1>0, <1>5 DEF CutInv
  <2>3. CASE i >= lo
    BY <2>1, <2>3, <1>3, <1>4, <1>5 DEF Positions
  <2> QED BY <2>1, <2>2, <2>3, <1>3
<1>10. \A m \in DOMAIN packed : m < cutting => \A i \in Positions(packed[m]) : InPiece(i)'
  <2> SUFFICES ASSUME NEW m \in DOMAIN packed, m < cutting, NEW i \in Positions(packed[m])
               PROVE  InPiece(i)'
    OBVIOUS
  <2>1. i \in Int
    BY DEF Positions
  <2> QED BY <2>1, <1>0, <1>5 DEF CutInv
<1>11. CutInv'
  <2>1. CASE last
    <3>1. cutting' = cutting + 1 /\ at' = 0 /\ piece.hi = packed[cutting].hi
      BY <2>1, <1>1
    <3>2. \A m \in DOMAIN packed : m < cutting' => \A i \in Positions(packed[m]) : InPiece(i)'
      <4> SUFFICES ASSUME NEW m \in DOMAIN packed, m < cutting', NEW i \in Positions(packed[m])
                   PROVE  InPiece(i)'
        OBVIOUS
      <4>1. m = cutting \/ m < cutting
        BY <3>1, <1>2
      <4> QED BY <3>1, <4>1, <1>9, <1>10 DEF Positions
    <3>3. cutting' - 1 = cutting /\ cutting' <= Len(packed) + 1 /\ cutting' # 1 /\ ~(at' > 0)
      BY <3>1, <1>1, <1>2
    <3> HIDE DEF piece, last
    <3> QED BY <3>1, <3>2, <3>3, <1>1, <1>5 DEF CutInv
  <2>2. CASE ~last
    <3>1. /\ cutting' = cutting /\ at' = at + setting.size /\ at' > 0
          /\ piece.hi = packed[cutting].lo + at' - 1
          /\ packed[cutting].lo + at' <= packed[cutting].hi
      <4>1. cutting' = cutting /\ at' = at + setting.size /\ piece.hi = hi
        BY <2>2, <1>1
      <4>2. /\ at + setting.size > 0 /\ piece.hi = packed[cutting].lo + (at + setting.size) - 1
            /\ packed[cutting].lo + (at + setting.size) <= packed[cutting].hi
        BY <2>2, <1>31 DEF CutFits
      <4> QED BY <4>1, <4>2
    <3>2. cutting <= Len(packed) + 1
      BY <1>1, <1>2
    <3>3. Oversized(packed[cutting])'
      BY <1>1, <3>1 DEF Oversized, Length
    <3>4. \A i \in packed[cutting].lo..(packed[cutting].lo + at' - 1) : InPiece(i)'
      BY <3>1, <1>9
    <3> HIDE DEF piece, last
    <3> QED BY <3>1, <3>2, <3>3, <3>4, <1>1, <1>5, <1>10 DEF CutInv
  <2> QED BY <2>1, <2>2
<1> QED BY <1>5, <1>6, <1>7, <1>8, <1>11 DEF CInv

-----------------------------------------------------------------------------
LEMMA Invariant == Spec => []CInv
<1>1. Init => CInv
  BY InitInv
<1>2. CInv /\ [Next]_vars => CInv'
  <2> SUFFICES ASSUME CInv, [Next]_vars PROVE CInv'
    OBVIOUS
  <2>1. CASE Pack
    BY <2>1, PackStep
  <2>2. CASE Close
    BY <2>2, CloseStep
  <2>3. CASE Keep
    BY <2>3, KeepStep
  <2>4. CASE Cut
    BY <2>4, CutStep
  <2>5. CASE UNCHANGED vars
    BY <2>5 DEF vars, CInv, TypeOK, PackInv, ChunkInv, ReadInv, CutInv, PiecesGoOn, Follows,
               InChunk, InPiece, Positions, Oversized, Length
  <2> QED BY <2>1, <2>2, <2>3, <2>4, <2>5 DEF Next
<1> QED BY <1>1, <1>2, PTL DEF Spec

\* A stretch that begins in the text and ends no further than one of its paragraphs.
InText(c) == 1 <= c.lo /\ \E k \in DOMAIN text.paras : c.hi <= text.paras[k].hi

SpanInv ==
    /\ cutting = 0 /\ next > 1 => InText(current)
    /\ \A n \in DOMAIN packed : InText(packed[n])
    /\ \A n \in DOMAIN out : InText(out[n])

\* What is read stays within the text: the loop over the chunks within their list, what has
\* been cut off within the chunk, and the chunks and pieces within the paragraphs.
WithinText ==
    /\ cutting \in 0..(Len(packed) + 1)
    /\ at > 0 => cutting \in DOMAIN packed /\ packed[cutting].lo + at \in Positions(packed[cutting])
    /\ SpanInv

LEMMA SpanPack ==
    ASSUME CInv, SpanInv, Pack
    PROVE  SpanInv'
<1>1. TypeOK /\ PackInv
  BY DEF CInv
<1>2. /\ cutting = 0 /\ cutting' = 0 /\ next' = next + 1 /\ text' = text /\ out' = out
      /\ next \in DOMAIN text.paras
  BY DEF Pack
<1>3. /\ next \in Nat \ {0} /\ text.paras[next] \in Stretches
      /\ next = 1 => text.paras[next].lo = 1
  BY <1>1, <1>2, TextFacts
<1>4. current \in Stretches /\ packed \in Seq(Stretches)
  BY <1>1 DEF TypeOK
<1>5. next = 1 <=> current = Empty
  BY <1>1, <1>2, <1>3 DEF PackInv, Empty
<1>6. current # Empty => 1 <= current.lo /\ InText(current)
  BY <1>2, <1>3, <1>5 DEF SpanInv, InText
<1>7. CASE current = Empty /\ current' = text.paras[next] /\ packed' = packed
  BY <1>2, <1>3, <1>5, <1>7 DEF SpanInv, InText, Stretches
<1>8. CASE current # Empty /\ current' = [current EXCEPT !.hi = text.paras[next].hi]
           /\ packed' = packed
  <2>1. current'.lo = current.lo /\ current'.hi = text.paras[next].hi
    BY <1>4, <1>8 DEF Stretches
  <2> QED BY <1>2, <1>3, <1>6, <1>8, <2>1 DEF SpanInv, InText, Stretches
<1>9. ASSUME current # Empty, packed' = Append(packed, current),
             NEW lo \in current.lo..text.paras[next].lo,
             current' = [lo |-> lo, hi |-> text.paras[next].hi]
      PROVE  SpanInv'
  <2>1. lo >= 1 /\ current'.lo = lo /\ current'.hi = text.paras[next].hi
    BY <1>3, <1>4, <1>6, <1>9 DEF Stretches
  <2>2. InText(current)'
    BY <1>2, <1>3, <2>1 DEF InText, Stretches
  <2>3. \A n \in DOMAIN packed' : packed'[n] = current \/ (n \in DOMAIN packed /\ packed'[n] = packed[n])
    BY <1>4, <1>9, Appended
  <2>4. \A n \in DOMAIN packed' : InText(packed'[n])
    BY <1>6, <1>9, <2>3 DEF SpanInv
  <2>5. \A n \in DOMAIN packed' : InText(packed[n])'
    BY <1>2, <2>4 DEF InText
  <2> QED BY <1>2, <2>2, <2>5 DEF SpanInv, InText
<1> QED BY <1>2, <1>7, <1>8, <1>9 DEF Pack

LEMMA SpanClose ==
    ASSUME CInv, SpanInv, Close
    PROVE  SpanInv'
<1>1. TypeOK /\ PackInv
  BY DEF CInv
<1>2. cutting = 0 /\ cutting' = 1 /\ text' = text /\ out' = out /\ next \in Nat \ {0}
  BY <1>1, TextFacts DEF Close, TypeOK
<1>3. current \in Stretches /\ packed \in Seq(Stretches)
  BY <1>1 DEF TypeOK
<1>4. current # Empty => InText(current)
  BY <1>1, <1>2 DEF PackInv, SpanInv
<1>5. \A n \in DOMAIN packed' :
          (current # Empty /\ packed'[n] = current) \/ (n \in DOMAIN packed /\ packed'[n] = packed[n])
  BY <1>3, Appended DEF Close
<1>6. \A n \in DOMAIN packed' : InText(packed'[n])
  BY <1>4, <1>5 DEF SpanInv
<1> QED BY <1>2, <1>6 DEF SpanInv, InText

LEMMA SpanOut ==
    ASSUME CInv, SpanInv, NEW c \in Stretches, InText(c), out' = Append(out, c),
           cutting # 0, cutting' # 0, UNCHANGED <<text, packed>>
    PROVE  SpanInv'
<1>1. out \in Seq(Stretches)
  BY DEF CInv, TypeOK
<1>2. \A n \in DOMAIN out' : out'[n] = c \/ (n \in DOMAIN out /\ out'[n] = out[n])
  BY <1>1, Appended
<1>3. \A n \in DOMAIN out' : InText(out'[n])
  BY <1>2 DEF SpanInv
<1> QED BY <1>3 DEF SpanInv, InText

LEMMA SpanCut ==
    ASSUME CInv, SpanInv, Keep \/ Cut
    PROVE  SpanInv'
<1>1. TypeOK /\ CutInv /\ ChunkInv
  BY DEF CInv
<1>2. /\ cutting \in DOMAIN packed /\ packed \in Seq(Stretches) /\ at \in Nat
      /\ cutting \in Nat \ {0} /\ packed[cutting] \in Stretches
      /\ setting.size \in Nat \ {0}
  BY <1>1, TextFacts DEF TypeOK, Keep, Cut
<1>3. InText(packed[cutting])
  BY <1>2 DEF SpanInv
<1>4. CASE Keep
  BY <1>2, <1>3, <1>4, SpanOut DEF Keep
<1>5. CASE Cut
  <2> DEFINE lo == packed[cutting].lo + at
             hi == lo + setting.size - 1
             c == IF hi >= packed[cutting].hi THEN [lo |-> lo, hi |-> packed[cutting].hi]
                  ELSE [lo |-> lo, hi |-> hi]
  <2>1. out' = Append(out, c) /\ cutting' \in {cutting, cutting + 1} /\ UNCHANGED <<text, packed>>
    BY <1>5 DEF Cut
  <2>2. c \in Stretches /\ c.lo = lo /\ c.hi <= packed[cutting].hi /\ lo >= packed[cutting].lo
    BY <1>2, SMTT(30) DEF Stretches
  <2> HIDE DEF c
  <2>3. PICK k \in DOMAIN text.paras : packed[cutting].hi <= text.paras[k].hi
    BY <1>3 DEF InText
  <2>4. text.paras[k] \in Stretches
    BY <1>1, TextFacts
  <2>5. InText(c)
    BY <1>2, <1>3, <2>2, <2>3, <2>4, SMTT(30) DEF InText, Stretches
  <2> QED BY <1>2, <2>1, <2>2, <2>5, SpanOut
<1> QED BY <1>4, <1>5

\* The counters of chunk_text's loops stay within the text and the list of chunks, and every
\* chunk and piece is a stretch of the text.
THEOREM TypeCorrect == Spec => [](TypeOK /\ WithinText)
<1>1. Init => SpanInv
  BY DEF Init, SpanInv
<1>2. CInv /\ SpanInv /\ [Next]_vars => SpanInv'
  <2> SUFFICES ASSUME CInv, SpanInv, [Next]_vars PROVE SpanInv'
    OBVIOUS
  <2>1. CASE UNCHANGED vars
    BY <2>1 DEF vars, SpanInv, InText
  <2> QED BY <2>1, SpanPack, SpanClose, SpanCut DEF Next
<1>3. CInv /\ SpanInv => TypeOK /\ WithinText
  <2> SUFFICES ASSUME CInv, SpanInv PROVE TypeOK /\ WithinText
    OBVIOUS
  <2>1. TypeOK /\ CutInv
    BY DEF CInv
  <2>2. cutting \in Nat /\ at \in Nat /\ packed \in Seq(Stretches)
    BY <2>1 DEF TypeOK
  <2>3. cutting \in 0..(Len(packed) + 1)
    BY <2>1, <2>2 DEF CutInv
  <2>4. at > 0 => cutting \in DOMAIN packed
                  /\ packed[cutting].lo + at \in Positions(packed[cutting])
    <3> SUFFICES ASSUME at > 0
                 PROVE  cutting \in DOMAIN packed
                        /\ packed[cutting].lo + at \in Positions(packed[cutting])
      OBVIOUS
    <3>1. cutting \in DOMAIN packed /\ packed[cutting].lo + at <= packed[cutting].hi
      BY <2>1 DEF CutInv
    <3>2. packed[cutting] \in Stretches
      BY <2>2, <3>1
    <3> QED BY <2>2, <3>1, <3>2 DEF Positions, Stretches
  <2> QED BY <2>1, <2>3, <2>4 DEF WithinText
<1> QED BY <1>1, <1>2, <1>3, Invariant, PTL DEF Spec

\* Whatever the text, the chunk size and the overlap, chunk_text loses no character of a
\* paragraph.
THEOREM Complete == Spec => []NothingDropped
<1>1. CInv => NothingDropped
  <2> SUFFICES ASSUME CInv, Returned, NEW k \in DOMAIN text.paras,
                      NEW i \in Positions(text.paras[k])
               PROVE  InPiece(i)
    BY DEF NothingDropped, InPiece
  <2>1. TypeOK /\ ReadInv /\ CutInv
    BY DEF CInv
  <2>2. /\ DOMAIN packed = 1..Len(packed) /\ Len(packed) \in Nat
        /\ cutting \in Nat /\ cutting > Len(packed) /\ cutting # 0
    BY <2>1 DEF TypeOK, Returned
  <2>3. k \in 1..(next - 1)
    BY <2>1, <2>2, TextFacts DEF ReadInv
  <2>4. PICK n \in DOMAIN packed : i \in Positions(packed[n])
    BY <2>1, <2>2, <2>3 DEF ReadInv, InChunk
  <2>5. n < cutting
    BY <2>2
  <2> QED BY <2>1, <2>4, <2>5 DEF CutInv
<1> QED BY <1>1, Invariant, PTL

\* Its pieces are not too long, repeat and skip little, and each adds something.
THEOREM Progress == Spec => []PiecesGoOn
<1>1. CInv => PiecesGoOn
  BY DEF CInv
<1> QED BY <1>1, Invariant, PTL

-----------------------------------------------------------------------------
(***************************************************************************)
(* Knowledge.  The rows of a document are those of its text at one         *)
(* setting, and a document with a fingerprint has been made with it; what  *)
(* a working job has read, skipped and deleted it has of the base as it    *)
(* is, because nobody else commits while it holds the lock.                *)
(***************************************************************************)
JobRecords ==
    [stage : Stages, listing : SUBSET Paths, existing : [Paths -> Documents \cup {None}],
     todo : SUBSET Paths, read : [Paths -> Texts \cup {None}], written : SUBSET Paths,
     deleted : SUBSET AllRows, overtaken : BOOLEAN]

BaseTypes ==
    /\ files \in [Paths -> Texts \cup {None}]
    /\ documents \in [Paths -> Documents \cup {None}]
    /\ chunks \subseteq AllRows
    /\ lock \in Jobs \cup {None}
    /\ jobs \in [Jobs -> JobRecords]

\* Somebody's rows of one cut of the document's text are all the rows there are.
Kept(p, s, j) ==
    /\ RowsOf(p) = Chunked(p, documents[p].text, s, j)
    /\ documents[p].print \in {None, Fingerprint(documents[p].text, s)}

RowsInv ==
    /\ \A p \in Paths :
          IF documents[p] = None THEN RowsOf(p) = {}
          ELSE \E s \in Settings, j \in Jobs \cup {None} : Kept(p, s, j)
    /\ source # None =>
          \A p \in Paths :
             /\ documents[p] = None <=> source.read[p] = None
             /\ documents[p] # None =>
                   /\ source.read[p] \in Texts /\ source.setting \in Settings
                   /\ documents[p].print = Fingerprint(source.read[p], source.setting)

\* A document that is skipped was made of the same text at the same setting.
Skipped(j, p) ==
    documents[p] # None /\ documents[p].print = Fingerprint(jobs[j].read[p], Setting[j])

Working(j) ==
    /\ jobs[j].existing = documents
    /\ jobs[j].todo \subseteq jobs[j].listing
    /\ jobs[j].written \subseteq jobs[j].listing \ jobs[j].todo
    /\ \A p \in Paths :
          IF p \in jobs[j].listing \ jobs[j].todo
          THEN jobs[j].read[p] \in Texts /\ (p \in jobs[j].written \/ Skipped(j, p))
          ELSE jobs[j].read[p] = None
    /\ jobs[j].deleted = {c \in chunks : c.path \in jobs[j].written}

Untouched(j) ==
    jobs[j].read = Nothing /\ jobs[j].written = {} /\ jobs[j].deleted = {}

InStep(j) ==
    /\ jobs[j].listing = {p \in Paths : files[p] # None}
    /\ \A p \in Paths : jobs[j].read[p] \in {None, files[p]}

JobInv(j) ==
    /\ jobs[j].stage = "working" <=> lock = j
    /\ jobs[j].stage \in {"idle", "listed"} => Untouched(j)
    /\ jobs[j].stage = "working" => Working(j)
    /\ jobs[j].stage \in {"listed", "working"} /\ ~jobs[j].overtaken => InStep(j)

BaseInv == BaseTypes /\ RowsInv /\ \A j \in Jobs : JobInv(j)

LEMMA RowFields ==
    ASSUME NEW p, NEW t, NEW s, NEW i, NEW j
    PROVE  /\ Row(p, t, s, i, j).path = p /\ Row(p, t, s, i, j).index = i
           /\ Row(p, t, s, i, j).by = j /\ Row(p, t, s, i, j).setting = s
           /\ Row(p, t, s, i, j).piece = Pieces[<<t, s>>][i]
           /\ [Row(p, t, s, i, j) EXCEPT !.by = None] = Row(p, t, s, i, None)
  BY DEF Row

LEMMA ChunkedRows ==
    ASSUME NEW p \in Paths, NEW t \in Texts, NEW s \in Settings, NEW j \in Jobs \cup {None}
    PROVE  /\ Chunked(p, t, s, j) \subseteq AllRows
           /\ \A c \in Chunked(p, t, s, j) : c.path = p
<1>1. Chunked(p, t, s, j) \subseteq AllRows
  BY DEF AllRows
<1>2. \A c \in Chunked(p, t, s, j) : c.path = p
  BY RowFields DEF Chunked
<1> QED BY <1>1, <1>2

\* A step of one job that leaves the base alone: what it owes the invariant.
LEMMA OthersKeep ==
    ASSUME BaseInv, NEW j \in Jobs, NEW r \in JobRecords, jobs' = [jobs EXCEPT ![j] = r],
           lock' \in Jobs \cup {None}, \A k \in Jobs \ {j} : lock' = k <=> lock = k,
           UNCHANGED <<files, documents, chunks, source>>, JobInv(j)'
    PROVE  BaseInv'
<1>1. \A k \in Jobs \ {j} : jobs'[k] = jobs[k]
  BY DEF BaseInv, BaseTypes
<1>2. BaseTypes'
  BY DEF BaseInv, BaseTypes
<1>3. RowsInv'
  BY DEF BaseInv, RowsInv, Kept, RowsOf
<1>4. ASSUME NEW k \in Jobs, k # j PROVE JobInv(k)'
  BY <1>1, <1>4 DEF BaseInv, JobInv, Untouched, Working, InStep, Skipped
<1> QED BY <1>2, <1>3, <1>4 DEF BaseInv

LEMMA ListKeeps ==
    ASSUME BaseInv, NEW j \in Jobs, List(j)
    PROVE  BaseInv'
<1> DEFINE r == [jobs[j] EXCEPT !.stage = "listed", !.listing = {p \in Paths : files[p] # None}]
<1>1. /\ jobs[j].stage = "idle" /\ jobs' = [jobs EXCEPT ![j] = r]
      /\ UNCHANGED <<files, documents, chunks, lock, edits, source>>
  BY DEF List, BaseInv, BaseTypes
<1>2. jobs[j] \in JobRecords
  BY DEF BaseInv, BaseTypes
<1>3. /\ r \in JobRecords /\ r.stage = "listed" /\ r.read = jobs[j].read
      /\ r.written = jobs[j].written /\ r.deleted = jobs[j].deleted
      /\ r.listing = {p \in Paths : files[p] # None}
  BY <1>2 DEF JobRecords, Stages
<1>4. jobs'[j] = r
  BY <1>1, <1>3 DEF BaseInv, BaseTypes
<1> HIDE DEF r
<1>5. Untouched(j) /\ lock # j
  BY <1>1 DEF BaseInv, JobInv
<1>6. JobInv(j)'
  BY <1>1, <1>3, <1>4, <1>5 DEF JobInv, Untouched, InStep, Nothing
<1>7. lock \in Jobs \cup {None}
  BY DEF BaseInv, BaseTypes
<1> QED BY <1>1, <1>3, <1>6, <1>7, OthersKeep

LEMMA EnterKeeps ==
    ASSUME BaseInv, NEW j \in Jobs, Enter(j)
    PROVE  BaseInv'
<1> DEFINE r == [jobs[j] EXCEPT !.stage = "working", !.todo = jobs[j].listing,
                                !.existing = documents]
<1>1. /\ jobs[j].stage = "listed" /\ lock = None /\ lock' = j
      /\ jobs' = [jobs EXCEPT ![j] = r]
      /\ UNCHANGED <<files, documents, chunks, edits, source>>
  BY DEF Enter, BaseInv, BaseTypes
<1>2. jobs[j] \in JobRecords /\ documents \in [Paths -> Documents \cup {None}]
  BY DEF BaseInv, BaseTypes
<1>3. /\ r \in JobRecords /\ r.stage = "working" /\ r.todo = jobs[j].listing
      /\ r.existing = documents /\ r.listing = jobs[j].listing /\ r.read = jobs[j].read
      /\ r.written = jobs[j].written /\ r.deleted = jobs[j].deleted
      /\ r.overtaken = jobs[j].overtaken /\ r.listing \subseteq Paths
  BY <1>2 DEF JobRecords, Stages
<1>4. jobs'[j] = r
  BY <1>1, <1>3 DEF BaseInv, BaseTypes
<1> HIDE DEF r
<1>5. Untouched(j) /\ (~jobs[j].overtaken => InStep(j))
  BY <1>1 DEF BaseInv, JobInv
<1>6. Working(j)'
  <2>1. r.listing \ r.todo = {} /\ \A p \in Paths : r.read[p] = None
    BY <1>3, <1>5 DEF Untouched, Nothing
  <2> QED BY <1>1, <1>3, <1>4, <1>5, <2>1 DEF Working, Untouched
<1>7. r.overtaken \/ InStep(j)'
  BY <1>1, <1>3, <1>4, <1>5 DEF InStep
<1>8. JobInv(j)'
  BY <1>1, <1>3, <1>4, <1>6, <1>7 DEF JobInv
<1>9. lock' \in Jobs \cup {None} /\ \A k \in Jobs \ {j} : lock' = k <=> lock = k
  BY <1>1, NoneAssumption
<1> QED BY <1>1, <1>3, <1>8, <1>9, OthersKeep

LEMMA FailKeeps ==
    ASSUME BaseInv, NEW j \in Jobs, Fail(j)
    PROVE  BaseInv'
<1> DEFINE r == [jobs[j] EXCEPT !.stage = "failed"]
<1>1. /\ jobs' = [jobs EXCEPT ![j] = r] /\ lock' = IF lock = j THEN None ELSE lock
      /\ UNCHANGED <<files, documents, chunks, edits, source>>
  BY DEF Fail, BaseInv, BaseTypes
<1>2. jobs[j] \in JobRecords /\ lock \in Jobs \cup {None}
  BY DEF BaseInv, BaseTypes
<1>3. r \in JobRecords /\ r.stage = "failed"
  BY <1>2 DEF JobRecords, Stages
<1>4. jobs'[j] = r
  BY <1>1, <1>3 DEF BaseInv, BaseTypes
<1> HIDE DEF r
<1>5. lock' # j /\ lock' \in Jobs \cup {None} /\ \A k \in Jobs \ {j} : lock' = k <=> lock = k
  BY <1>1, <1>2, NoneAssumption
<1>6. JobInv(j)'
  BY <1>3, <1>4, <1>5 DEF JobInv
<1> QED BY <1>1, <1>3, <1>5, <1>6, OthersKeep

LEMMA IngestKeeps ==
    ASSUME BaseInv, NEW j \in Jobs, NEW p \in Paths, Ingest(j, p)
    PROVE  BaseInv'
<1> DEFINE reading == [jobs[j] EXCEPT !.todo = @ \ {p}, !.read[p] = files[p]]
           rewriting == [reading EXCEPT !.written = @ \cup {p}, !.deleted = @ \cup RowsOf(p)]
           r == IF Unchanged(j, p) THEN reading ELSE rewriting
<1>1. /\ jobs[j].stage = "working" /\ p \in jobs[j].todo /\ files[p] # None
      /\ jobs' = [jobs EXCEPT ![j] = r]
      /\ UNCHANGED <<files, documents, chunks, lock, edits, source>>
  BY DEF Ingest, Upcoming
<1>2. /\ jobs[j] \in JobRecords /\ files[p] \in Texts /\ RowsOf(p) \subseteq AllRows
      /\ lock \in Jobs \cup {None}
  BY <1>1 DEF BaseInv, BaseTypes, RowsOf
<1>3. /\ reading \in JobRecords /\ reading.stage = "working"
      /\ reading.todo = jobs[j].todo \ {p} /\ reading.read = [jobs[j].read EXCEPT ![p] = files[p]]
      /\ reading.existing = jobs[j].existing /\ reading.listing = jobs[j].listing
      /\ reading.written = jobs[j].written /\ reading.deleted = jobs[j].deleted
      /\ reading.overtaken = jobs[j].overtaken
  BY <1>1, <1>2 DEF JobRecords
<1> HIDE DEF reading
<1>4. /\ rewriting \in JobRecords /\ rewriting.stage = "working"
      /\ rewriting.todo = reading.todo /\ rewriting.read = reading.read
      /\ rewriting.existing = reading.existing /\ rewriting.listing = reading.listing
      /\ rewriting.written = reading.written \cup {p}
      /\ rewriting.deleted = reading.deleted \cup RowsOf(p)
      /\ rewriting.overtaken = reading.overtaken
  BY <1>2, <1>3 DEF JobRecords
<1> HIDE DEF rewriting
<1>5. /\ r \in JobRecords /\ r.stage = "working"
      /\ r.todo = jobs[j].todo \ {p} /\ r.read = [jobs[j].read EXCEPT ![p] = files[p]]
      /\ r.existing = jobs[j].existing /\ r.listing = jobs[j].listing
      /\ r.overtaken = jobs[j].overtaken
      /\ IF Unchanged(j, p) THEN r.written = jobs[j].written /\ r.deleted = jobs[j].deleted
         ELSE r.written = jobs[j].written \cup {p} /\ r.deleted = jobs[j].deleted \cup RowsOf(p)
  BY <1>3, <1>4
<1>6. jobs'[j] = r
  BY <1>1, <1>5 DEF BaseInv, BaseTypes
<1> HIDE DEF r
<1>7. Working(j) /\ lock = j /\ (~jobs[j].overtaken => InStep(j))
  BY <1>1 DEF BaseInv, JobInv
<1>8. jobs[j].read \in [Paths -> Texts \cup {None}]
  BY <1>2 DEF JobRecords
<1>9. Working(j)'
  <2>1. /\ r.existing = documents /\ r.todo \subseteq r.listing
        /\ r.listing \ r.todo = (jobs[j].listing \ jobs[j].todo) \cup {p}
        /\ r.written \subseteq r.listing \ r.todo
    BY <1>1, <1>5, <1>7 DEF Working
  <2>2. r.deleted = {c \in chunks : c.path \in r.written}
    BY <1>5, <1>7 DEF Working, RowsOf
  <2>3. ASSUME NEW q \in Paths
        PROVE  IF q \in r.listing \ r.todo
               THEN r.read[q] \in Texts /\ (q \in r.written
                       \/ (documents[q] # None
                           /\ documents[q].print = Fingerprint(r.read[q], Setting[j])))
               ELSE r.read[q] = None
    <3>1. CASE q = p
      <4>1. r.read[p] = files[p]
        BY <1>5, <1>8
      <4>2. Unchanged(j, p) =>
              documents[p] # None /\ documents[p].print = Fingerprint(r.read[p], Setting[j])
        BY <1>7, <4>1 DEF Unchanged, Working
      <4> QED BY <1>2, <1>5, <2>1, <3>1, <4>1, <4>2
    <3>2. CASE q # p
      <4>1. r.read[q] = jobs[j].read[q]
        BY <1>5, <1>8, <3>2
      <4>2. q \in jobs[j].written => q \in r.written
        BY <1>5
      <4> QED BY <1>7, <2>1, <3>2, <4>1, <4>2 DEF Working, Skipped
    <3> QED BY <3>1, <3>2
  <2> QED BY <1>1, <1>6, <2>1, <2>2, <2>3 DEF Working, Skipped
<1>10. r.overtaken \/ InStep(j)'
  BY <1>1, <1>5, <1>6, <1>7, <1>8 DEF InStep
<1>11. JobInv(j)'
  BY <1>1, <1>5, <1>6, <1>7, <1>9, <1>10 DEF JobInv
<1> QED BY <1>1, <1>2, <1>5, <1>11, OthersKeep

LEMMA EditKeeps ==
    ASSUME BaseInv, NEW p \in Paths, NEW t \in Texts \cup {None}, Edit(p, t)
    PROVE  BaseInv'
<1>1. /\ files' = [files EXCEPT ![p] = t] /\ jobs' = Overtake
      /\ UNCHANGED <<documents, chunks, lock, source>>
  BY DEF Edit
<1>2. ASSUME NEW j \in Jobs
      PROVE  /\ jobs'[j] \in JobRecords
             /\ jobs'[j].stage = jobs[j].stage /\ jobs'[j].listing = jobs[j].listing
             /\ jobs'[j].existing = jobs[j].existing /\ jobs'[j].todo = jobs[j].todo
             /\ jobs'[j].read = jobs[j].read /\ jobs'[j].written = jobs[j].written
             /\ jobs'[j].deleted = jobs[j].deleted
             /\ jobs[j].stage \in {"listed", "working"} => jobs'[j].overtaken
  <2>1. jobs[j] \in JobRecords
    BY DEF BaseInv, BaseTypes
  <2>2. jobs'[j] = IF jobs[j].stage \in {"listed", "working"}
                   THEN [jobs[j] EXCEPT !.overtaken = TRUE] ELSE jobs[j]
    BY <1>1 DEF Overtake
  <2>3. CASE jobs[j].stage \in {"listed", "working"}
    <3> DEFINE r == [jobs[j] EXCEPT !.overtaken = TRUE]
    <3>1. /\ r \in JobRecords /\ r.overtaken
          /\ r.stage = jobs[j].stage /\ r.listing = jobs[j].listing
          /\ r.existing = jobs[j].existing /\ r.todo = jobs[j].todo
          /\ r.read = jobs[j].read /\ r.written = jobs[j].written
          /\ r.deleted = jobs[j].deleted
      BY <2>1 DEF JobRecords
    <3>2. jobs'[j] = r
      BY <2>2, <2>3
    <3> HIDE DEF r
    <3> QED BY <3>1, <3>2
  <2>4. CASE jobs[j].stage \notin {"listed", "working"}
    BY <2>1, <2>2, <2>4
  <2> QED BY <2>3, <2>4
<1>3. BaseTypes'
  <2>1. jobs' = [j \in Jobs |-> jobs'[j]]
    BY <1>1 DEF Overtake
  <2>2. files' \in [Paths -> Texts \cup {None}]
    BY <1>1 DEF BaseInv, BaseTypes
  <2>3. jobs' \in [Jobs -> JobRecords]
    BY <1>2, <2>1
  <2> QED BY <1>1, <2>2, <2>3 DEF BaseInv, BaseTypes
<1>4. RowsInv'
  BY <1>1 DEF BaseInv, RowsInv, Kept, RowsOf
<1>5. ASSUME NEW j \in Jobs PROVE JobInv(j)'
  <2>1. JobInv(j)
    BY DEF BaseInv
  <2>2. Working(j) => Working(j)'
    BY <1>1, <1>2 DEF Working, Skipped
  <2>3. Untouched(j) => Untouched(j)'
    BY <1>1, <1>2 DEF Untouched
  <2> QED BY <1>1, <1>2, <2>1, <2>2, <2>3 DEF JobInv
<1> QED BY <1>3, <1>4, <1>5 DEF BaseInv

\* What a job commits, document by document.
LEMMA CommitWrites ==
    ASSUME BaseInv, NEW j \in Jobs, Commit(j), NEW p \in Paths
    PROVE  /\ p \in jobs[j].written =>
                 /\ documents'[p] = Document(j, p) /\ jobs[j].read[p] \in Texts
                 /\ RowsOf(p)' = Chunked(p, jobs[j].read[p], Setting[j], j)
           /\ p \in jobs[j].listing /\ p \notin jobs[j].written =>
                 /\ documents'[p] = documents[p] /\ documents[p] # None
                 /\ documents[p].print = Fingerprint(jobs[j].read[p], Setting[j])
                 /\ jobs[j].read[p] \in Texts /\ RowsOf(p)' = RowsOf(p)
           /\ p \notin jobs[j].listing =>
                 documents'[p] = None /\ jobs[j].read[p] = None /\ RowsOf(p)' = {}
<1> DEFINE Made(q) == Chunked(q, jobs[j].read[q], Setting[j], j)
           kept == chunks \ (jobs[j].deleted \cup {c \in chunks : c.path \in Stale(j)})
<1>1. /\ jobs[j].stage = "working" /\ jobs[j].todo = {}
      /\ documents' = [q \in Paths |-> IF q \in Stale(j) THEN None
                                       ELSE IF q \in jobs[j].written THEN Document(j, q)
                                       ELSE documents[q]]
      /\ chunks' = kept \cup UNION {Made(q) : q \in jobs[j].written}
  BY DEF Commit
<1>2. Working(j) /\ jobs[j] \in JobRecords
  BY <1>1 DEF BaseInv, BaseTypes, JobInv
<1>3. Stale(j) = {q \in Paths : documents[q] # None} \ jobs[j].listing
  BY <1>2 DEF Stale, Working
<1>4. /\ jobs[j].written \subseteq jobs[j].listing /\ jobs[j].listing \subseteq Paths
      /\ jobs[j].deleted = {c \in chunks : c.path \in jobs[j].written}
      /\ IF p \in jobs[j].listing
         THEN jobs[j].read[p] \in Texts /\ (p \in jobs[j].written \/ Skipped(j, p))
         ELSE jobs[j].read[p] = None
  BY <1>1, <1>2 DEF Working, JobRecords
<1>5. Setting[j] \in Settings
  BY SettingAssumption
<1>6. ASSUME NEW q \in jobs[j].written PROVE \A c \in Made(q) : c.path = q
  BY RowFields DEF Chunked
<1> HIDE DEF Made, kept
<1>7. RowsOf(p)' = {c \in kept : c.path = p} \cup (IF p \in jobs[j].written THEN Made(p) ELSE {})
  BY <1>1, <1>6 DEF RowsOf
<1>8. {c \in kept : c.path = p} =
         IF p \in jobs[j].written \/ p \in Stale(j) THEN {} ELSE RowsOf(p)
  BY <1>4 DEF kept, RowsOf
<1>9. documents[p] = None => RowsOf(p) = {}
  BY DEF BaseInv, RowsInv
<1>10. CASE p \in jobs[j].written
  BY <1>1, <1>3, <1>4, <1>7, <1>8, <1>10 DEF Made
<1>11. CASE p \in jobs[j].listing /\ p \notin jobs[j].written
  BY <1>1, <1>3, <1>4, <1>7, <1>8, <1>11 DEF Skipped
<1>12. CASE p \notin jobs[j].listing
  BY <1>1, <1>3, <1>4, <1>7, <1>8, <1>9, <1>12
<1> QED BY <1>10, <1>11, <1>12, <1>4

LEMMA CommitKeeps ==
    ASSUME BaseInv, NEW j \in Jobs, Commit(j)
    PROVE  BaseInv'
<1> DEFINE r == [jobs[j] EXCEPT !.stage = "done"]
<1>1. /\ jobs[j].stage = "working" /\ lock' = None /\ jobs' = [jobs EXCEPT ![j] = r]
      /\ source' = [read |-> jobs[j].read, setting |-> Setting[j]] /\ UNCHANGED files
  BY DEF Commit
<1>2. jobs[j] \in JobRecords /\ lock = j /\ Setting[j] \in Settings
  BY <1>1, SettingAssumption DEF BaseInv, BaseTypes, JobInv
<1>3. r \in JobRecords /\ r.stage = "done"
  BY <1>2 DEF JobRecords, Stages
<1>4. jobs'[j] = r /\ \A k \in Jobs \ {j} : jobs'[k] = jobs[k]
  BY <1>1 DEF BaseInv, BaseTypes
<1> HIDE DEF r
<1>5. documents' \in [Paths -> Documents \cup {None}]
  <2>1. documents' = [p \in Paths |-> documents'[p]]
    BY DEF Commit
  <2>2. ASSUME NEW p \in Paths PROVE documents'[p] \in Documents \cup {None}
    <3>1. p \in jobs[j].written => Document(j, p) \in Documents
      BY <1>2, CommitWrites DEF Document, Documents, Fingerprint
    <3>2. documents[p] \in Documents \cup {None}
      BY DEF BaseInv, BaseTypes
    <3> QED BY <3>1, <3>2, CommitWrites
  <2> QED BY <2>1, <2>2
<1>6. chunks' \subseteq AllRows
  <2>1. jobs[j].written \subseteq Paths
    BY <1>2 DEF JobRecords
  <2>2. ASSUME NEW p \in jobs[j].written
        PROVE  Chunked(p, jobs[j].read[p], Setting[j], j) \subseteq AllRows
    BY <1>2, <2>1, CommitWrites, ChunkedRows
  <2>3. chunks \subseteq AllRows
    BY DEF BaseInv, BaseTypes
  <2>4. chunks' \subseteq chunks
                   \cup UNION {Chunked(p, jobs[j].read[p], Setting[j], j) : p \in jobs[j].written}
    BY DEF Commit
  <2> QED BY <2>2, <2>3, <2>4
<1>7. BaseTypes'
  BY <1>1, <1>3, <1>5, <1>6 DEF BaseInv, BaseTypes
<1>8. RowsInv'
  <2>1. ASSUME NEW p \in Paths
        PROVE  IF documents'[p] = None THEN RowsOf(p)' = {}
               ELSE \E s \in Settings, k \in Jobs \cup {None} : Kept(p, s, k)'
    <3>1. CASE p \in jobs[j].written
      <4>1. /\ documents'[p].text = jobs[j].read[p] /\ documents'[p] # None
            /\ documents'[p].print = Fingerprint(documents'[p].text, Setting[j])
        <5>1. Document(j, p) \in Documents
          BY <1>2, <3>1, CommitWrites DEF Document, Documents, Fingerprint
        <5> QED BY <3>1, <5>1, CommitWrites, NoneAssumption DEF Document
      <4>2. Kept(p, Setting[j], j)'
        BY <3>1, <4>1, CommitWrites DEF Kept
      <4> QED BY <1>2, <4>1, <4>2
    <3>2. CASE p \in jobs[j].listing /\ p \notin jobs[j].written
      <4>1. PICK s \in Settings, k \in Jobs \cup {None} : Kept(p, s, k)
        BY <3>2, CommitWrites DEF BaseInv, RowsInv
      <4>2. Kept(p, s, k)'
        BY <3>2, <4>1, CommitWrites DEF Kept
      <4> QED BY <3>2, <4>2, CommitWrites
    <3>3. CASE p \notin jobs[j].listing
      BY <3>3, CommitWrites
    <3>4. p \in jobs[j].written => p \in jobs[j].listing
      BY <1>1 DEF BaseInv, JobInv, Working
    <3> QED BY <3>1, <3>2, <3>3
  <2>2. ASSUME NEW p \in Paths
        PROVE  /\ documents'[p] = None <=> jobs[j].read[p] = None
               /\ documents'[p] # None =>
                     /\ jobs[j].read[p] \in Texts
                     /\ documents'[p].print = Fingerprint(jobs[j].read[p], Setting[j])
    <3>1. p \in jobs[j].written => Document(j, p) \in Documents
      BY <1>2, CommitWrites DEF Document, Documents, Fingerprint
    <3>2. p \in jobs[j].written => p \in jobs[j].listing
      BY <1>1 DEF BaseInv, JobInv, Working
    <3> QED BY <3>1, <3>2, CommitWrites, NoneAssumption DEF Document
  <2> QED BY <1>1, <1>2, <2>1, <2>2 DEF RowsInv
<1>9. ASSUME NEW k \in Jobs PROVE JobInv(k)'
  <2>1. k # j => jobs[k].stage # "working"
    BY <1>2 DEF BaseInv, JobInv
  <2>2. lock' # k
    BY <1>1, NoneAssumption
  <2>3. k # j => JobInv(k)'
    BY <1>1, <1>4, <2>1, <2>2 DEF BaseInv, JobInv, Untouched, InStep
  <2>4. JobInv(j)'
    BY <1>1, <1>3, <1>4, NoneAssumption DEF JobInv
  <2> QED BY <2>3, <2>4
<1> QED BY <1>7, <1>8, <1>9 DEF BaseInv

LEMMA BaseStarts == KInit => BaseInv
<1> SUFFICES ASSUME KInit PROVE BaseInv
  OBVIOUS
<1>1. PICK old \in SUBSET Paths, t \in Texts, s \in Legacy :
        /\ documents = [p \in Paths |-> IF p \in old THEN [text |-> t, print |-> None] ELSE None]
        /\ chunks = UNION {Chunked(p, t, s, None) : p \in old}
  BY DEF KInit
<1>2. /\ files \in [Paths -> Texts \cup {None}] /\ lock = None /\ source = None
      /\ jobs = [j \in Jobs |-> Idle]
  BY DEF KInit
<1>3. s \in Settings /\ [text |-> t, print |-> None] \in Documents
  BY SettingAssumption DEF Documents
<1>4. ASSUME NEW p \in Paths PROVE \A c \in Chunked(p, t, s, None) : c.path = p
  BY RowFields DEF Chunked
<1>5. BaseTypes
  <2>1. documents \in [Paths -> Documents \cup {None}]
    BY <1>1, <1>3
  <2>2. ASSUME NEW p \in old PROVE Chunked(p, t, s, None) \subseteq AllRows
    BY <1>3, ChunkedRows
  <2>3. chunks \subseteq AllRows
    BY <1>1, <2>2
  <2>4. Idle \in JobRecords
    BY DEF Idle, JobRecords, Stages, Nothing
  <2> QED BY <1>2, <2>1, <2>3, <2>4 DEF BaseTypes
<1>6. RowsInv
  <2>1. ASSUME NEW p \in Paths
        PROVE  IF documents[p] = None THEN RowsOf(p) = {}
               ELSE \E k \in Settings, j \in Jobs \cup {None} : Kept(p, k, j)
    <3>1. RowsOf(p) = IF p \in old THEN Chunked(p, t, s, None) ELSE {}
      BY <1>1, <1>4 DEF RowsOf
    <3>2. p \in old => documents[p].text = t /\ documents[p].print = None /\ documents[p] # None
      BY <1>1, <1>3, NoneAssumption
    <3>3. p \notin old => documents[p] = None
      BY <1>1
    <3>4. p \in old => Kept(p, s, None)
      BY <3>1, <3>2 DEF Kept
    <3> QED BY <1>3, <3>1, <3>2, <3>3, <3>4
  <2> QED BY <1>2, <2>1 DEF RowsInv
<1>7. ASSUME NEW j \in Jobs PROVE JobInv(j)
  BY <1>2, NoneAssumption DEF JobInv, Idle, Untouched
<1> QED BY <1>5, <1>6, <1>7 DEF BaseInv

LEMMA BaseSteps == BaseInv /\ [KNext]_kvars => BaseInv'
<1> SUFFICES ASSUME BaseInv, [KNext]_kvars PROVE BaseInv'
  OBVIOUS
<1>1. ASSUME NEW p \in Paths, NEW t \in Texts \cup {None}, Edit(p, t) PROVE BaseInv'
  BY <1>1, EditKeeps
<1>2. ASSUME NEW j \in Jobs, List(j) \/ Enter(j) \/ Commit(j) \/ Fail(j) PROVE BaseInv'
  BY <1>2, ListKeeps, EnterKeeps, CommitKeeps, FailKeeps
<1>3. ASSUME NEW j \in Jobs, NEW p \in Paths, Ingest(j, p) PROVE BaseInv'
  BY <1>3, IngestKeeps
<1>4. CASE UNCHANGED kvars
  BY <1>4 DEF kvars, BaseInv, BaseTypes, RowsInv, Kept, RowsOf, JobInv, Untouched, Working,
              Skipped, InStep
<1> QED BY <1>1, <1>2, <1>3, <1>4 DEF KNext

LEMMA BaseInvariant == KSpec => []BaseInv
  BY BaseStarts, BaseSteps, PTL DEF KSpec

\* Types of the directory, the tables and the jobs, and the bound on edits.
THEOREM BaseTypeCorrect == KSpec => []KTypeOK
<1> DEFINE EditsOK == edits \in 0..MaxEdits
<1>1. BaseInv /\ EditsOK => KTypeOK
  <2> SUFFICES ASSUME BaseInv, EditsOK PROVE KTypeOK
    OBVIOUS
  <2>1. \A c \in chunks : c.path \in Paths
    BY ChunkedRows DEF BaseInv, BaseTypes, AllRows
  <2> QED BY <2>1 DEF BaseInv, BaseTypes, JobRecords, KTypeOK
<1>2. KInit => EditsOK
  BY EditsAssumption DEF KInit
<1>3. EditsOK /\ [KNext]_kvars => EditsOK'
  <2> SUFFICES ASSUME EditsOK, [KNext]_kvars PROVE EditsOK'
    OBVIOUS
  <2>1. ASSUME NEW p \in Paths, NEW t \in Texts \cup {None}, Edit(p, t) PROVE EditsOK'
    BY EditsAssumption, <2>1 DEF Edit
  <2>2. ASSUME NEW j \in Jobs, List(j) \/ Enter(j) \/ Commit(j) \/ Fail(j) PROVE EditsOK'
    BY <2>2 DEF List, Enter, Commit, Fail
  <2>3. ASSUME NEW j \in Jobs, NEW p \in Paths, Ingest(j, p) PROVE EditsOK'
    BY <2>3 DEF Ingest
  <2>4. CASE UNCHANGED kvars
    BY <2>4 DEF kvars
  <2> QED BY <2>1, <2>2, <2>3, <2>4 DEF KNext
<1>4. KSpec => []EditsOK
  BY <1>2, <1>3, PTL DEF KSpec
<1> HIDE DEF EditsOK
<1> QED BY <1>1, <1>4, BaseInvariant, PTL

\* What the image says of one document: its rows are those of what the last job read, in
\* the setting it had.
LEMMA RowsOfRead ==
    ASSUME BaseInv, source # None, NEW p \in Paths, documents[p] # None
    PROVE  /\ source.read[p] \in Texts /\ source.setting \in Settings
           /\ \E j \in Jobs \cup {None} :
                 RowsOf(p) = Chunked(p, source.read[p], source.setting, j)
<1>1. PICK s \in Settings, j \in Jobs \cup {None} : Kept(p, s, j)
  BY DEF BaseInv, RowsInv
<1>2. /\ source.read[p] \in Texts /\ source.setting \in Settings
      /\ documents[p].print = Fingerprint(source.read[p], source.setting)
  BY DEF BaseInv, RowsInv
<1>3. documents[p].print # None
  BY <1>2, NoneAssumption DEF Fingerprint
<1>4. documents[p].text = source.read[p] /\ s = source.setting
  BY <1>1, <1>2, <1>3 DEF Kept, Fingerprint
<1> QED BY <1>1, <1>2, <1>4 DEF Kept

\* Whatever the jobs skip, whichever fails and however they overlap, the base is what one
\* job over an empty base would have made of what the last one read.
THEOREM ImageKept == KSpec => []BaseIsImage
<1>1. BaseInv => BaseIsImage
  <2> SUFFICES ASSUME BaseInv, source # None PROVE BaseIsImage
    BY DEF BaseIsImage
  <2> DEFINE Image(p) == Chunked(p, source.read[p], source.setting, None)
  <2>1. \A p \in Paths : documents[p] = None <=> source.read[p] = None
    BY DEF BaseInv, RowsInv
  <2>2. ASSUME NEW c \in chunks
        PROVE  /\ c.path \in Paths /\ documents[c.path] # None /\ c \in RowsOf(c.path)
               /\ \E j \in Jobs \cup {None} :
                     c \in Chunked(c.path, source.read[c.path], source.setting, j)
    <3>1. c.path \in Paths
      BY ChunkedRows DEF BaseInv, BaseTypes, AllRows
    <3>2. c \in RowsOf(c.path)
      BY DEF RowsOf
    <3>3. documents[c.path] # None
      BY <3>1, <3>2 DEF BaseInv, RowsInv
    <3> QED BY <3>1, <3>2, <3>3, RowsOfRead
  <2>3. {[c EXCEPT !.by = None] : c \in chunks}
           = UNION {Image(p) : p \in {q \in Paths : documents[q] # None}}
    <3>1. ASSUME NEW c \in chunks PROVE [c EXCEPT !.by = None] \in Image(c.path)
      BY <2>2, RowFields DEF Chunked
    <3>2. ASSUME NEW p \in Paths, documents[p] # None, NEW x \in Image(p)
          PROVE  \E c \in chunks : x = [c EXCEPT !.by = None]
      <4>1. PICK j \in Jobs \cup {None} :
                RowsOf(p) = Chunked(p, source.read[p], source.setting, j)
        BY <3>2, RowsOfRead
      <4>2. PICK i \in DOMAIN Pieces[<<source.read[p], source.setting>>] :
                x = Row(p, source.read[p], source.setting, i, None)
        BY DEF Chunked
      <4>3. Row(p, source.read[p], source.setting, i, j) \in RowsOf(p)
        BY <4>1 DEF Chunked
      <4>4. x = [Row(p, source.read[p], source.setting, i, j) EXCEPT !.by = None]
        BY <4>2, RowFields
      <4> QED BY <4>3, <4>4 DEF RowsOf
    <3> HIDE DEF Image
    <3> QED BY <2>2, <3>1, <3>2
  <2>4. ASSUME NEW c \in chunks, NEW d \in chunks, c.path = d.path, c.index = d.index
        PROVE  c = d
    <3>1. PICK j \in Jobs \cup {None} :
              RowsOf(c.path) = Chunked(c.path, source.read[c.path], source.setting, j)
      BY <2>2, RowsOfRead
    <3>2. c \in RowsOf(c.path) /\ d \in RowsOf(c.path)
      BY <2>4 DEF RowsOf
    <3>3. /\ c = Row(c.path, source.read[c.path], source.setting, c.index, j)
          /\ d = Row(c.path, source.read[c.path], source.setting, d.index, j)
      BY <3>1, <3>2, RowFields DEF Chunked
    <3> QED BY <2>4, <3>3
  <2> QED BY <2>1, <2>3, <2>4 DEF BaseIsImage
<1> QED BY <1>1, BaseInvariant, PTL

\* A job whose files stayed as it listed them leaves the base in step with the directory.
THEOREM InStepAtCommit == KSpec => SyncedUnlessOvertaken
<1> DEFINE Synced == \A j \in Jobs :
          jobs[j].stage = "working" /\ jobs'[j].stage = "done" /\ ~jobs[j].overtaken =>
             \A p \in Paths : IF files[p] = None THEN documents'[p] = None
                              ELSE documents'[p] # None /\ documents'[p].text = files[p]
<1>1. BaseInv /\ [KNext]_kvars => [Synced]_kvars
  <2> SUFFICES ASSUME BaseInv, [KNext]_kvars, NEW j \in Jobs, jobs[j].stage = "working",
                      jobs'[j].stage = "done", ~jobs[j].overtaken, NEW p \in Paths
               PROVE  IF files[p] = None THEN documents'[p] = None
                      ELSE documents'[p] # None /\ documents'[p].text = files[p]
    OBVIOUS
  <2>1. jobs[j] \in JobRecords /\ jobs \in [Jobs -> JobRecords]
    BY DEF BaseInv, BaseTypes
  <2>2. Commit(j)
    <3>1. ASSUME NEW q \in Paths, NEW t \in Texts \cup {None}, Edit(q, t) PROVE FALSE
      BY <2>1, <3>1 DEF Edit, Overtake, JobRecords
    <3>2. ASSUME NEW k \in Jobs, List(k) \/ Enter(k) \/ Fail(k) PROVE FALSE
      BY <2>1, <3>2 DEF List, Enter, Fail, JobRecords
    <3>3. ASSUME NEW k \in Jobs, NEW q \in Paths, Ingest(k, q) PROVE FALSE
      BY <2>1, <3>3 DEF Ingest, JobRecords
    <3>4. ASSUME NEW k \in Jobs, Commit(k) PROVE k = j
      BY <2>1, <3>4 DEF Commit, JobRecords
    <3>5. ~UNCHANGED kvars
      BY DEF kvars
    <3> QED BY <3>1, <3>2, <3>3, <3>4, <3>5 DEF KNext
  <2>3. InStep(j)
    BY DEF BaseInv, JobInv
  <2>4. BaseInv'
    BY BaseSteps
  <2>5. CASE p \notin jobs[j].listing
    BY <2>2, <2>3, <2>5, CommitWrites DEF InStep
  <2>6. CASE p \in jobs[j].listing
    <3>1. files[p] # None /\ jobs[j].read[p] \in Texts
      BY <2>2, <2>3, <2>6, CommitWrites DEF InStep
    <3>2. jobs[j].read[p] = files[p]
      BY <2>3, <3>1, NoneAssumption DEF InStep
    <3>3. CASE p \in jobs[j].written
      <4>1. Document(j, p) \in Documents
        BY <3>1, SettingAssumption DEF Document, Documents, Fingerprint
      <4> QED BY <2>2, <3>1, <3>2, <3>3, <4>1, CommitWrites, NoneAssumption DEF Document
    <3>4. CASE p \notin jobs[j].written
      <4>1. /\ documents'[p] = documents[p] /\ documents[p] # None
            /\ documents[p].print = <<jobs[j].read[p], Setting[j]>>
        BY <2>2, <2>6, <3>4, CommitWrites DEF Fingerprint
      <4>2. PICK s \in Settings : documents[p].print \in {None, <<documents[p].text, s>>}
        BY <4>1 DEF BaseInv, RowsInv, Kept, Fingerprint
      <4>3. documents[p].text = jobs[j].read[p]
        <5>1. <<jobs[j].read[p], Setting[j]>> # None
          BY <3>1, SettingAssumption, NoneAssumption
        <5> QED BY <4>1, <4>2, <5>1
      <4> QED BY <3>1, <3>2, <4>1, <4>3
    <3> QED BY <3>3, <3>4
  <2> QED BY <2>5, <2>6
<1>2. KSpec => [][Synced]_kvars
  BY <1>1, BaseInvariant, PTL DEF KSpec
<1> QED BY <1>2 DEF SyncedUnlessOvertaken

-----------------------------------------------------------------------------
(***************************************************************************)
(* Retrieval.  But for who wrote them the rows are the passages the last   *)
(* job read, one for one; so a search of the rows is a search of them.     *)
(***************************************************************************)
Bare(c) == [c EXCEPT !.by = None]

LEMMA RowsFinite == ASSUME BaseInv, source # None PROVE IsFiniteSet(chunks)
<1>1. ASSUME NEW p \in Paths PROVE IsFiniteSet(RowsOf(p))
  <2>1. CASE documents[p] = None
    BY <2>1, FS_EmptySet DEF BaseInv, RowsInv
  <2>2. CASE documents[p] # None
    <3>1. PICK j \in Jobs \cup {None} : RowsOf(p) = Chunked(p, source.read[p], source.setting, j)
      BY <2>2, RowsOfRead
    <3>2. source.read[p] \in Texts /\ source.setting \in Settings
      BY <2>2, RowsOfRead
    <3> DEFINE x == <<source.read[p], source.setting>>
               f == [i \in 1..Len(Pieces[x]) |-> Row(p, source.read[p], source.setting, i, j)]
    <3>3. Len(Pieces[x]) \in Nat /\ DOMAIN Pieces[x] = 1..Len(Pieces[x])
      BY <3>2, PiecesAssumption
    <3>4. f \in Surjection(1..Len(Pieces[x]), RowsOf(p))
      BY <3>1, <3>3 DEF Surjection, Chunked
    <3>5. IsFiniteSet(1..Len(Pieces[x]))
      BY <3>3, FS_Interval
    <3> HIDE DEF f, x
    <3> QED BY <3>4, <3>5, FS_Surjection
  <2> QED BY <2>1, <2>2
<1>2. IsFiniteSet({RowsOf(p) : p \in Paths})
  <2> DEFINE f == [p \in Paths |-> RowsOf(p)]
  <2>1. f \in Surjection(Paths, {RowsOf(p) : p \in Paths})
    BY DEF Surjection
  <2> HIDE DEF f
  <2> QED BY <2>1, PathsAssumption, FS_Surjection
<1>3. IsFiniteSet(UNION {RowsOf(p) : p \in Paths})
  BY <1>1, <1>2, FS_UNION
<1>4. \A c \in chunks : c.path \in Paths
  BY ChunkedRows DEF BaseInv, BaseTypes, AllRows
<1>5. chunks = UNION {RowsOf(p) : p \in Paths}
  BY <1>4 DEF RowsOf
<1> QED BY <1>3, <1>5

LEMMA BaredRows ==
    ASSUME BaseInv, BaseIsImage, source # None
    PROVE  /\ Passages = {Bare(c) : c \in chunks}
           /\ \A c, d \in chunks : Bare(c) = Bare(d) => c = d
           /\ \A c \in chunks :
                 /\ c.setting = source.setting /\ Bare(c).setting = c.setting
                 /\ Bare(c).piece = c.piece /\ Bare(c).product = c.product
                 /\ Bare(c).category = c.category
<1>1. ASSUME NEW c \in chunks
      PROVE  /\ c.setting = source.setting /\ Bare(c).setting = c.setting
             /\ Bare(c).piece = c.piece /\ Bare(c).product = c.product
             /\ Bare(c).category = c.category
             /\ Bare(c).path = c.path /\ Bare(c).index = c.index
  <2>1. c.path \in Paths
    BY ChunkedRows DEF BaseInv, BaseTypes, AllRows
  <2>2. c \in RowsOf(c.path)
    BY DEF RowsOf
  <2>3. documents[c.path] # None
    BY <2>1, <2>2 DEF BaseInv, RowsInv
  <2>4. PICK j, i :
              c = Row(c.path, source.read[c.path], source.setting, i, j)
    BY <2>1, <2>2, <2>3, RowsOfRead DEF Chunked
  <2>5. c = [path |-> c.path, index |-> i, piece |-> Pieces[<<source.read[c.path], source.setting>>][i],
             product |-> Product[source.read[c.path]], category |-> Category[source.read[c.path]],
             setting |-> source.setting, by |-> j]
    BY <2>4 DEF Row
  <2> QED BY <2>5 DEF Bare
<1>2. \A c, d \in chunks : Bare(c) = Bare(d) => c = d
  BY <1>1 DEF BaseIsImage
<1>3. Passages = {Bare(c) : c \in chunks}
  BY DEF Passages, BaseIsImage, Bare
<1> QED BY <1>1, <1>2, <1>3

-----------------------------------------------------------------------------
\* Taking the n best first, where nothing depends on who wrote a row.
LEMMA SameSize ==
    ASSUME NEW S, IsFiniteSet(S), NEW B, \A r, x \in S : B[r] = B[x] => r = x
    PROVE  IsFiniteSet({B[r] : r \in S}) /\ Cardinality({B[r] : r \in S}) = Cardinality(S)
<1> DEFINE T == {B[r] : r \in S}
           f == [r \in S |-> B[r]]
<1>1. f \in Bijection(S, T)
  BY DEF Bijection, Injection, Surjection, IsInjective
<1> HIDE DEF f, T
<1>2. ExistsBijection(S, T)
  BY <1>1 DEF ExistsBijection
<1>3. IsFiniteSet(T) /\ Cardinality(T) = Cardinality(S)
  BY <1>2, FS_Bijection
<1> QED BY <1>3 DEF T

LEMMA BestMoves ==
    ASSUME NEW S, IsFiniteSet(S), NEW B, \A r, x \in S : B[r] = B[x] => r = x,
           NEW n, NEW f, NEW g, \A r \in S : g[B[r]] = f[r], NEW T \in Best(S, n, f)
    PROVE  {B[r] : r \in T} \in Best({B[r] : r \in S}, n, g)
<1> DEFINE BS == {B[r] : r \in S}
           BT == {B[r] : r \in T}
<1>1. /\ T \in SUBSET S /\ Cardinality(T) = IF Cardinality(S) < n THEN Cardinality(S) ELSE n
      /\ \A r \in T, x \in S \ T : f[r] >= f[x]
  BY DEF Best
<1>2. IsFiniteSet(T)
  BY <1>1, FS_Subset
<1>3. Cardinality(BS) = Cardinality(S)
  BY SameSize
<1>4. Cardinality(BT) = Cardinality(T)
  BY <1>1, <1>2, SameSize
<1>5. BT \in SUBSET BS
  BY <1>1
<1>6. ASSUME NEW b \in BT, NEW y \in BS \ BT
      PROVE  g[b] >= g[y]
  <2>1. PICK r \in T, x \in S : b = B[r] /\ y = B[x]
    OBVIOUS
  <2>2. x \notin T
    BY <2>1
  <2> QED BY <1>1, <2>1, <2>2
<1>7. Cardinality(BT) = IF Cardinality(BS) < n THEN Cardinality(BS) ELSE n
  BY <1>1, <1>3, <1>4
<1> HIDE DEF BS, BT
<1>8. BT \in Best(BS, n, g)
  BY <1>5, <1>6, <1>7 DEF Best
<1> QED BY <1>8 DEF BS, BT

\* The k best, in one order, of the n best in another.
LEMMA BestOfBest ==
    ASSUME NEW S, IsFiniteSet(S), NEW k \in Nat, NEW n \in Nat, k <= n, NEW score, NEW order,
           NEW pool \in Best(S, n, score), NEW found \in Best(pool, k, order)
    PROVE  /\ found \subseteq S
           /\ Cardinality(found) = k \/ (found = S /\ Cardinality(S) < k)
           /\ \A x \in S \ found :
                 \/ \A r \in found : order[r] >= order[x]
                 \/ /\ \A r \in found : score[r] >= score[x]
                    /\ \A m \in Nat : m <= n =>
                          Cardinality({y \in S \ {x} : score[y] >= score[x]}) >= m
<1>1. /\ pool \in SUBSET S /\ Cardinality(pool) = IF Cardinality(S) < n THEN Cardinality(S) ELSE n
      /\ \A r \in pool, x \in S \ pool : score[r] >= score[x]
  BY DEF Best
<1>2. /\ found \in SUBSET pool
      /\ Cardinality(found) = IF Cardinality(pool) < k THEN Cardinality(pool) ELSE k
      /\ \A r \in found, x \in pool \ found : order[r] >= order[x]
  BY DEF Best
<1>3. IsFiniteSet(pool) /\ Cardinality(pool) \in Nat /\ Cardinality(S) \in Nat
  BY <1>1, FS_Subset, FS_CardinalityType
<1>4. Cardinality(S) < n => pool = S
  BY <1>1, <1>3, FS_Subset
<1>5. Cardinality(pool) < k => found = pool
  BY <1>2, <1>3, FS_Subset
<1>6. Cardinality(found) = k \/ (found = S /\ Cardinality(S) < k)
  <2>1. CASE Cardinality(pool) < k
    <3>1. Cardinality(S) < n
      BY <1>1, <1>3, <2>1
    <3> QED BY <1>4, <1>5, <2>1, <3>1
  <2>2. CASE ~(Cardinality(pool) < k)
    BY <1>2, <2>2
  <2> QED BY <2>1, <2>2
<1>7. ASSUME NEW x \in S \ found, x \notin pool
      PROVE  /\ \A r \in found : score[r] >= score[x]
             /\ \A m \in Nat : m <= n => Cardinality({y \in S \ {x} : score[y] >= score[x]}) >= m
  <2> DEFINE ahead == {y \in S \ {x} : score[y] >= score[x]}
  <2>1. pool \in SUBSET ahead /\ ahead \in SUBSET S
    BY <1>1, <1>7
  <2>2. Cardinality(pool) = n
    BY <1>1, <1>4, <1>7
  <2> HIDE DEF ahead
  <2>3. IsFiniteSet(ahead)
    BY <2>1, FS_Subset
  <2>4. Cardinality(pool) <= Cardinality(ahead) /\ Cardinality(ahead) \in Nat
    BY <2>1, <2>3, FS_Subset, FS_CardinalityType
  <2>5. \A m \in Nat : m <= n => Cardinality(ahead) >= m
    BY <2>2, <2>4
  <2>6. \A r \in found : score[r] >= score[x]
    BY <1>1, <1>2, <1>7
  <2> QED BY <2>5, <2>6 DEF ahead
<1> QED BY <1>1, <1>2, <1>6, <1>7

\* The rows a search looks at are those of the passages it should look at, one for one,
\* and score the same.
LEMMA MatchingMoves ==
    ASSUME BaseInv, BaseIsImage, source # None, NEW product, NEW category
    PROVE  /\ Matching(Passages, product, category)
                 = {Bare(r) : r \in Matching(chunks, product, category)}
           /\ Matching(chunks, product, category) \in SUBSET chunks
<1>1. \A c \in chunks : Bare(c).product = c.product /\ Bare(c).category = c.category
  BY BaredRows
<1>2. Passages = {Bare(c) : c \in chunks}
  BY BaredRows
<1> QED BY <1>1, <1>2 DEF Matching

LEMMA ScoresMove ==
    ASSUME NEW rows, \A r \in rows : Bare(r).piece = r.piece /\ Bare(r).setting = r.setting,
           NEW backend
    PROVE  \A r \in rows :
              Scores(backend, {Bare(c) : c \in rows})[Bare(r)] = Scores(backend, rows)[r]
<1> DEFINE fit == {Bare(c) : c \in rows}
<1>1. {Terms[r.piece] : r \in fit} = {Terms[r.piece] : r \in rows}
  OBVIOUS
<1>2. ASSUME NEW r \in rows
      PROVE  BM25(fit)[Bare(r)] = BM25(rows)[r] /\ Similarity(fit)[Bare(r)] = Similarity(rows)[r]
  <2>1. Bare(r) \in fit /\ Bare(r).piece = r.piece /\ Bare(r).setting = r.setting
    OBVIOUS
  <2> DEFINE best == Largest({Terms[x.piece] : x \in rows})
  <2>2. BM25(fit)[Bare(r)] = IF best > 0 THEN (100 * Terms[Bare(r).piece]) \div best ELSE 0
    BY <1>1, <2>1 DEF BM25
  <2>3. BM25(rows)[r] = IF best > 0 THEN (100 * Terms[r.piece]) \div best ELSE 0
    BY DEF BM25
  <2>4. Similarity(fit)[Bare(r)] = Similarity(rows)[r]
    BY <2>1 DEF Similarity
  <2> QED BY <2>1, <2>2, <2>3, <2>4
<1> QED BY <1>2 DEF Scores

\* In a base made with the model of the server no row is passed over for its dimension.
LEMMA PoolClears ==
    ASSUME NEW rows, IsFiniteSet(rows), NEW backend \in BackEnds,
           backend = "bm25" \/ \A r \in rows : Model[r.setting] = Model[Serving],
           NEW k \in Nat \ {0}, NEW pool \in Pools(backend, rows, k)
    PROVE  /\ backend # "hnsw" =>
                 pool \in Best(Clearing(rows, Scores(backend, rows)), PoolSize(k),
                              Scores(backend, rows))
           /\ pool \in SUBSET Clearing(rows, Scores(backend, rows))
           /\ Cardinality(pool) <= PoolSize(k)
<1> DEFINE clear == Clearing(rows, Scores(backend, rows))
           scored == IF backend \in Native THEN Near(rows) ELSE rows
<1>1. scored = rows
  BY DEF Near, Dimension, Native
<1>2. PoolSize(k) \in Nat \ {0}
  BY PoolAssumption DEF PoolSize
<1>3. CASE rows = {}
  <2>1. pool = {} /\ clear = {}
    BY <1>1, <1>3 DEF Pools, Clearing
  <2>2. Cardinality({}) = 0
    BY FS_EmptySet
  <2> QED BY <1>2, <2>1, <2>2 DEF Best
<1>4. CASE rows # {} /\ backend = "hnsw"
  BY <1>1, <1>4 DEF Pools
<1>5. CASE rows # {} /\ backend # "hnsw"
  <2>1. pool \in Best(clear, PoolSize(k), Scores(backend, rows))
    BY <1>1, <1>5 DEF Pools
  <2> HIDE DEF clear
  <2>2. /\ pool \in SUBSET clear
        /\ Cardinality(pool) = IF Cardinality(clear) < PoolSize(k) THEN Cardinality(clear)
                               ELSE PoolSize(k)
    BY <2>1 DEF Best
  <2>3. clear \in SUBSET rows
    BY DEF clear, Clearing
  <2>4. Cardinality(clear) \in Nat
    BY <2>3, FS_Subset, FS_CardinalityType
  <2>5. Cardinality(pool) <= PoolSize(k)
    BY <1>2, <2>2, <2>4
  <2> QED BY <1>5, <2>1, <2>2, <2>5 DEF clear
<1> QED BY <1>3, <1>4, <1>5

LEMMA SearchFinds ==
    ASSUME BaseInv, BaseIsImage, source # None, NEW backend \in BackEnds,
           backend = "bm25" \/ Model[source.setting] = Model[Serving],
           NEW k \in Nat \ {0}
    PROVE  FindsBest(backend, k)
<1> SUFFICES ASSUME NEW reranks \in BOOLEAN,
                    NEW product \in Products, NEW category \in Categories
             PROVE  LET fit == Matching(Passages, product, category)
                        score == Scores(backend, fit)
                        clear == Clearing(fit, score)
                    IN  /\ ~Raises(backend, Matching(chunks, product, category))
                        /\ \A rows \in Search(backend, reranks, product, category, k) :
                              LET found == {[r EXCEPT !.by = None] : r \in rows}
                              IN  IF backend = "hnsw" THEN Relevant(found, clear, k)
                                  ELSE Answers(found, clear, score, reranks, k)
  BY DEF FindsBest
<1> DEFINE rows == Matching(chunks, product, category)
           fit == Matching(Passages, product, category)
           held == Scores(backend, rows)
           score == Scores(backend, fit)
           clear == Clearing(rows, held)
           fair == Clearing(fit, score)
           B == [c \in chunks |-> Bare(c)]
<1>1. rows \in SUBSET chunks /\ fit = {Bare(r) : r \in rows}
  BY MatchingMoves
<1>2. \A r \in rows : /\ r.setting = source.setting /\ Bare(r).setting = r.setting
                      /\ Bare(r).piece = r.piece
  BY <1>1, BaredRows
<1>3. \A r \in rows : score[Bare(r)] = held[r]
  <2> HIDE DEF rows, fit
  <2>1. \A r \in rows : Scores(backend, {Bare(c) : c \in rows})[Bare(r)] = Scores(backend, rows)[r]
    BY <1>2, ScoresMove
  <2> QED BY <1>1, <2>1
<1>4. backend = "bm25" \/ \A r \in rows : Model[r.setting] = Model[Serving]
  BY <1>2
<1>5. ~Raises(backend, rows)
  BY <1>4 DEF Raises, Near, Dimension
<1> SUFFICES ASSUME NEW found \in Search(backend, reranks, product, category, k)
             PROVE  IF backend = "hnsw" THEN Relevant({Bare(r) : r \in found}, fair, k)
                    ELSE Answers({Bare(r) : r \in found}, fair, score, reranks, k)
  BY <1>5 DEF Bare
<1> DEFINE order(pool) == IF reranks THEN Blended(pool, held) ELSE held
           kept == IF reranks THEN Blended(fair, score) ELSE score
<1>6. PICK pool \in Pools(backend, rows, k) : found \in Best(pool, k, order(pool))
  BY DEF Search
<1>7. backend # "hnsw" => pool \in Best(clear, PoolSize(k), held)
  <2>1. IsFiniteSet(rows)
    BY <1>1, RowsFinite, FS_Subset, Zenon
  <2> HIDE DEF rows
  <2> QED BY <1>4, <2>1, PoolClears
<1>8. clear \in SUBSET rows /\ pool \in SUBSET clear /\ found \in SUBSET pool
  <2>1. IsFiniteSet(rows)
    BY <1>1, RowsFinite, FS_Subset, Zenon
  <2>2. pool \in SUBSET clear
    <3> HIDE DEF rows
    <3> QED BY <1>4, <2>1, PoolClears
  <2>3. found \in SUBSET pool /\ clear \in SUBSET rows
    BY <1>6 DEF Clearing, Best
  <2> QED BY <2>2, <2>3
<1>9. IsFiniteSet(clear) /\ IsFiniteSet(pool)
  <2> HIDE DEF rows, held, clear
  <2>1. clear \in SUBSET chunks /\ pool \in SUBSET clear
    BY <1>1, <1>8
  <2>2. IsFiniteSet(chunks)
    BY RowsFinite
  <2>3. IsFiniteSet(clear)
    BY <2>1, <2>2, FS_Subset, Zenon
  <2>4. IsFiniteSet(pool)
    BY <2>1, <2>3, FS_Subset, Zenon
  <2> QED BY <2>3, <2>4
<1>10. \A r, x \in chunks : B[r] = B[x] => r = x
  BY BaredRows
<1>11. fair = {B[r] : r \in clear}
  <2>1. \A r \in rows : B[r] = Bare(r)
    BY <1>1
  <2> HIDE DEF rows, fit, held, score, B
  <2>2. \A x \in fair : \E r \in clear : x = B[r]
    BY <1>1, <1>3, <2>1 DEF Clearing
  <2>3. \A r \in clear : B[r] \in fair
    BY <1>1, <1>3, <2>1 DEF Clearing
  <2> HIDE DEF clear, fair
  <2> QED BY <2>2, <2>3
<1>12. \A r \in clear : score[B[r]] = held[r]
  BY <1>1, <1>3, <1>8
<1>13. \A r \in pool : kept[B[r]] = order(pool)[r]
  <2>1. ASSUME NEW r \in pool PROVE Blended(fair, score)[B[r]] = Blended(pool, held)[r]
    <3>1. r \in clear /\ r \in rows /\ B[r] = Bare(r) /\ B[r] \in fair
      BY <1>1, <1>8, <1>11
    <3>2. B[r].piece = r.piece /\ score[B[r]] = held[r]
      BY <1>2, <1>12, <3>1
    <3> HIDE DEF rows, fit, held, score, clear, fair, B
    <3> QED BY <3>1, <3>2 DEF Blended
  <2> HIDE DEF rows, fit, held, score, clear, fair, B
  <2> QED BY <1>8, <1>12, <2>1
<1> HIDE DEF rows, fit, held, score, clear, fair, B, order, kept
<1>14. backend # "hnsw" => {B[r] : r \in pool} \in Best(fair, PoolSize(k), score)
  <2> SUFFICES ASSUME backend # "hnsw"
               PROVE  {B[r] : r \in pool} \in Best(fair, PoolSize(k), score)
    OBVIOUS
  <2>1. {B[r] : r \in pool} \in Best({B[r] : r \in clear}, PoolSize(k), score)
    BY <1>1, <1>7, <1>8, <1>9, <1>10, <1>12, BestMoves
  <2> QED BY <1>11, <2>1
<1>15. {B[r] : r \in found} \in Best({B[r] : r \in pool}, k, kept)
  BY <1>1, <1>6, <1>8, <1>9, <1>10, <1>13, BestMoves
<1>16. IsFiniteSet(fair)
  BY <1>1, <1>8, <1>9, <1>10, <1>11, SameSize
<1>17. k \in Nat /\ PoolSize(k) \in Nat /\ k <= PoolSize(k) /\ CandidatePool <= PoolSize(k)
       /\ CandidatePool \in Nat
  BY PoolAssumption DEF PoolSize
<1> DEFINE bare == {B[r] : r \in found}
<1>18. bare = {Bare(r) : r \in found}
  BY <1>1, <1>8 DEF B
<1>19. CASE backend = "hnsw"
  <2>1. /\ found \in SUBSET pool
        /\ Cardinality(found) = IF Cardinality(pool) < k THEN Cardinality(pool) ELSE k
    BY <1>6 DEF Best
  <2>2. IsFiniteSet(found) /\ Cardinality(pool) \in Nat
    BY <1>9, <2>1, FS_Subset, FS_CardinalityType
  <2>3. \A r, x \in found : B[r] = B[x] => r = x
    BY <1>1, <1>8, <1>10
  <2>4. Cardinality(bare) = Cardinality(found)
    BY <2>2, <2>3, SameSize
  <2>5. bare \subseteq fair
    BY <1>8, <1>11
  <2>6. Cardinality(bare) <= k
    <3> HIDE DEF bare
    <3> QED BY <2>1, <2>2, <2>4
  <2> QED BY <1>18, <1>19, <2>5, <2>6 DEF Relevant
<1>20. CASE backend # "hnsw"
  <2>1. /\ bare \subseteq fair
        /\ Cardinality(bare) = k \/ (bare = fair /\ Cardinality(fair) < k)
        /\ \A x \in fair \ bare :
              \/ \A r \in bare : kept[r] >= kept[x]
              \/ /\ \A r \in bare : score[r] >= score[x]
                 /\ \A m \in Nat : m <= PoolSize(k) =>
                       Cardinality({y \in fair \ {x} : score[y] >= score[x]}) >= m
    <3> DEFINE top == {B[r] : r \in pool}
    <3>1. top \in Best(fair, PoolSize(k), score) /\ bare \in Best(top, k, kept)
      BY <1>14, <1>15, <1>20 DEF bare
    <3> HIDE DEF bare, top
    <3> QED BY <1>16, <1>17, <3>1, BestOfBest
  <2> HIDE DEF bare
  <2>2. CASE reranks
    <3>1. kept = Blended(fair, score)
      BY <2>2 DEF kept
    <3> QED BY <1>17, <1>18, <1>20, <2>1, <2>2, <3>1 DEF Answers
  <2>3. CASE ~reranks
    <3>1. kept = score
      BY <2>3 DEF kept
    <3> QED BY <1>18, <1>20, <2>1, <2>3, <3>1 DEF Answers
  <2> QED BY <2>2, <2>3
<1> QED BY <1>19, <1>20

\* A base of another dimension than the server's: the rows that match are all of it.
LEMMA SearchFindsNothing ==
    ASSUME BaseInv, BaseIsImage, source # None, NEW backend \in BackEnds \ {"bm25"},
           Dim[Model[source.setting]] # Dim[Model[Serving]], NEW k \in Nat \ {0}
    PROVE  FindsNothing(backend, k)
<1> SUFFICES ASSUME NEW reranks \in BOOLEAN, NEW product \in Products, NEW category \in Categories
             PROVE  LET rows == Matching(chunks, product, category)
                    IN  IF backend = "cosine" /\ rows # {} THEN Raises(backend, rows)
                        ELSE Search(backend, reranks, product, category, k) = {{}}
  BY DEF FindsNothing
<1> DEFINE rows == Matching(chunks, product, category)
           scored == IF backend \in Native THEN Near(rows) ELSE rows
           held == Scores(backend, rows)
           order(pool) == IF reranks THEN Blended(pool, held) ELSE held
<1>1. Near(rows) = {}
  BY BaredRows DEF Near, Dimension, Matching
<1>2. CASE backend = "cosine" /\ rows # {}
  BY <1>1, <1>2 DEF Raises
<1>3. CASE ~(backend = "cosine" /\ rows # {})
  <2>1. scored = {}
    BY <1>1, <1>3 DEF BackEnds, Native
  <2>2. Pools(backend, rows, k) = {{}}
    BY <2>1 DEF Pools
  <2>3. Search(backend, reranks, product, category, k)
          = UNION {Best(pool, k, order(pool)) : pool \in Pools(backend, rows, k)}
    BY DEF Search
  <2> HIDE DEF rows, held, order
  <2>4. Search(backend, reranks, product, category, k) = Best({}, k, order({}))
    BY <2>2, <2>3
  <2>5. Best({}, k, order({})) = {{}}
    <3>1. Cardinality({}) = 0
      BY FS_EmptySet
    <3> QED BY <3>1 DEF Best
  <2> QED BY <1>3, <2>4, <2>5 DEF rows
<1> QED BY <1>2, <1>3

-----------------------------------------------------------------------------
\* Once a job has run, every search by a server with the model the base was made with, or
\* that scores words, returns the best passages of the files that job read, whether it
\* reranks or not and for any number of results; from the approximate index it returns
\* some of them; and with a model of another dimension none: Retriever.search over what
\* ingest_directory has left, after any overlap and failure of jobs.
THEOREM AnySearch ==
    ASSUME NEW k \in Nat \ {0}
    PROVE  KSpec => []SearchIsTopKFor(k)
<1>1. BaseInv /\ BaseIsImage => SearchIsTopKFor(k)
  BY SearchFinds, SearchFindsNothing DEF SearchIsTopKFor
<1> QED BY <1>1, BaseInvariant, ImageKept, PTL

\* The same for the numbers of results the run tries.
THEOREM FindsTheBest == KSpec => []SearchIsTopK
<1>1. BaseInv /\ BaseIsImage => SearchIsTopK
  <2>1. \A k \in 1..2 : k \in Nat \ {0}
    OBVIOUS
  <2> QED BY <2>1, SearchFinds, SearchFindsNothing DEF SearchIsTopK, SearchIsTopKFor
<1> QED BY <1>1, BaseInvariant, ImageKept, PTL
=============================================================================

-------------------------- MODULE VoiceCall_proofs --------------------------
(***************************************************************************)
(* For any number of utterances and chunks: one answer at a time, none     *)
(* after its interruption, no statement left in flight, a transcript in    *)
(* the order of the conversation, a call that settles in a conversation,   *)
(* and a page that keeps in step with the answers.                         *)
(***************************************************************************)
EXTENDS VoiceCall, SequenceTheorems, TLAPS

USE UtterancesAssumption, ChunksAssumption

Messages == [kind : {"barge_in"}]
            \cup [kind : {"utterance_text"}, turn : Turns, conversation : Turns \cup {None}]

Frames == [kind : Kinds, turn : Turns]

Rows == [role : {"user", "assistant"}, turn : Turns]

LEMMA Utterance ==
    ASSUME NEW m \in Messages, m.kind = "utterance_text"
    PROVE  m.turn \in Turns /\ m.conversation \in Turns \cup {None}
  BY DEF Messages

LEMMA Appended ==
    ASSUME NEW S, NEW s \in Seq(S), NEW e \in S
    PROVE  /\ Append(s, e) \in Seq(S) /\ Len(Append(s, e)) = Len(s) + 1
           /\ \A i \in 1..Len(s) : Append(s, e)[i] = s[i]
           /\ Append(s, e)[Len(s) + 1] = e
  OBVIOUS

\* What is left of a sequence from position m to position n.
LEMMA Part ==
    ASSUME NEW S, NEW s \in Seq(S), NEW m \in Nat \ {0}, NEW n \in 0..Len(s)
    PROVE  /\ SubSeq(s, m, n) \in Seq(S)
           /\ \A i \in 1..Len(SubSeq(s, m, n)) :
                 i + m - 1 \in 1..n /\ SubSeq(s, m, n)[i] = s[i + m - 1]
<1>1. Len(s) \in Nat
  OBVIOUS
<1>2. \A i \in m..n : i \in 1..Len(s) /\ s[i] \in S
  BY <1>1, ElementOfSeq
<1>3. SubSeq(s, m, n) \in Seq(S) /\ Len(SubSeq(s, m, n)) = (IF m <= n THEN n - m + 1 ELSE 0)
      /\ \A i \in 1..(n - m + 1) : SubSeq(s, m, n)[i] = s[m + i - 1]
  BY <1>1, <1>2, SubSeqProperties
<1>4. QED
  BY <1>1, <1>3

-----------------------------------------------------------------------------
(***************************************************************************)
(* The type invariant.                                                     *)
(***************************************************************************)
Typed == TypeOK /\ (listening => spoken < MaxUtterances)

\* What a step does to the queue of chunks, when the new ones come from it.
LEMMA Played ==
    ASSUME NEW q \in Seq(Turns), NEW n \in 1..(Len(q) + 1), PlayNext(q, n)
    PROVE  /\ queue' \in Seq(Turns) /\ playing' \in Turns \cup {None}
           /\ playing' # None => \E j \in 1..Len(q) : playing' = q[j]
           /\ \A i \in 1..Len(queue') : \E j \in 1..Len(q) : queue'[i] = q[j]
<1>1. Len(q) \in Nat
  OBVIOUS
<1>2. CASE Len(q) < n
  BY <1>2 DEF PlayNext
<1>3. CASE ~(Len(q) < n)
  <2>1. n \in 1..Len(q) /\ playing' = q[n] /\ queue' = SubSeq(q, n + 1, Len(q))
    BY <1>1, <1>3 DEF PlayNext
  <2>2. /\ queue' \in Seq(Turns)
        /\ \A i \in 1..Len(queue') :
              i + (n + 1) - 1 \in 1..Len(q) /\ queue'[i] = q[i + (n + 1) - 1]
    <3>1. n + 1 \in Nat \ {0} /\ Len(q) \in 0..Len(q)
      BY <1>1, <2>1
    <3>2. QED
      BY <2>1, <3>1, Part, SMTT(20)
  <2>3. playing' \in Turns
    BY <2>1, ElementOfSeq
  <2>4. \A i \in 1..Len(queue') : \E j \in 1..Len(q) : queue'[i] = q[j]
    BY <2>2
  <2>5. \E j \in 1..Len(q) : playing' = q[j]
    BY <2>1
  <2>6. QED
    BY <2>2, <2>3, <2>4, <2>5
<1>4. QED
  BY <1>2, <1>3

LEMMA TypedInit == Init => Typed
<1> SUFFICES ASSUME Init
             PROVE  Typed
  OBVIOUS
<1> USE DEF Init, Turns, None
<1>1. \A S : <<>> \in Seq(S)
  OBVIOUS
<1>2. spoken = 0 /\ listening = FALSE
  OBVIOUS
<1>3. /\ {conversation, rendered, conversationRef, active, playing, acked, named, task}
            \subseteq Turns \cup {None}
      /\ line \in {"opening", "up", "down"} /\ loop \in {"closed", "receiving"}
  OBVIOUS
<1>4. /\ ended \in [Turns -> Turns \cup {None}] /\ conv \in [Turns -> Turns \cup {None}]
      /\ stop \in [Turns -> BOOLEAN] /\ sent \in [Turns -> 0..Chunks]
      /\ stage \in [Turns -> Stages] /\ work \in [Turns -> Works]
  BY DEF Stages, Works, InFlight
<1>5. 0 \in 0..MaxUtterances /\ unnamed \in 0..spoken
  OBVIOUS
<1>6. QED
  BY <1>1, <1>2, <1>3, <1>4, <1>5 DEF Typed, TypeOK

LEMMA TypedBrowser ==
    ASSUME Typed,
           Open \/ StartListening \/ NothingHeard \/ Say \/ ChunkOver \/ Disconnect
           \/ ReceiveAudio \/ ReceiveInterrupted \/ ReceiveDone \/ Render \/ Effect
    PROVE  Typed'
<1> USE DEF Typed, TypeOK, page, browser, socket, receiver, tasks
<1>m. inbox \in Seq(Messages) /\ outbox \in Seq(Frames)
  BY DEF Messages, Frames
<1>f. ASSUME NEW kind, Receive(kind)
      PROVE  /\ Head(outbox) \in Frames /\ outbox' \in Seq(Frames)
             /\ Head(outbox).turn \in Turns
    <2>1. outbox # <<>> /\ outbox' = Tail(outbox)
      BY <1>f DEF Receive
    <2>2. Head(outbox) \in Frames /\ outbox' \in Seq(Frames)
      BY <1>m, <2>1, HeadTailProperties
    <2>3. QED
      BY <2>2 DEF Frames
<1>1. CASE Open
  BY <1>1 DEF Open
<1>2. CASE StartListening
  <2>1. [kind |-> "barge_in"] \in Messages
    BY DEF Messages
  <2>2. Append(inbox, [kind |-> "barge_in"]) \in Seq(Messages)
    BY <1>m, <2>1, Appended
  <2>3. inbox' \in Seq(Messages) /\ playing' \in Turns \cup {None} /\ queue' \in Seq(Turns)
    <3>1. CASE playing # None
      <4>1. ToServer([kind |-> "barge_in"]) /\ playing' = None /\ queue' = <<>>
        BY <1>2, <3>1, Zenon DEF StartListening
      <4>2. inbox' \in Seq(Messages)
        BY <1>m, <2>2, <4>1 DEF ToServer
      <4>3. <<>> \in Seq(Turns)
        OBVIOUS
      <4>4. QED
        BY <4>1, <4>2, <4>3
    <3>2. CASE playing = None
      <4>1. inbox' = inbox /\ playing' = playing /\ queue' = queue
        BY <1>2, <3>2, Zenon DEF StartListening
      <4>2. QED
        BY <1>m, <4>1
    <3>3. QED
      BY <3>1, <3>2
  <2>4. /\ listening' \in BOOLEAN /\ spoken' = spoken /\ spoken < MaxUtterances
        /\ UNCHANGED <<page, active, ended, acked, line, outbox, receiver, stop, tasks>>
    BY <1>2 DEF StartListening
  <2>5. QED
    BY <2>3, <2>4, SMTT(30) DEF Messages
<1>3. CASE NothingHeard
  BY <1>3 DEF NothingHeard
<1>4. CASE Say
  <2>1. spoken + 1 \in Turns /\ spoken + 1 \in 0..MaxUtterances
    BY <1>4 DEF Say, Turns
  <2>2. [kind |-> "utterance_text", turn |-> spoken + 1, conversation |-> conversationRef]
           \in Messages
    BY <2>1 DEF Messages
  <2>3. inbox' \in Seq(Messages)
    BY <1>4, <1>m, <2>2, Appended DEF Say, ToServer
  <2>4. unnamed' \in 0..spoken'
    BY <1>4 DEF Say
  <2>5. /\ spoken' \in 0..MaxUtterances /\ listening' = FALSE /\ active' \in Turns \cup {None}
        /\ UNCHANGED <<conversation, rendered, conversationRef, ended, playing, queue, acked, line,
                       outbox, receiver, stop, tasks>>
    BY <1>4, <2>1 DEF Say, ToServer
  <2>6. {conversation, rendered, conversationRef, active, playing, acked, named, task}'
           \subseteq Turns \cup {None}
    BY <2>5
  <2>7. spoken' \in 0..MaxUtterances /\ listening' = FALSE
    BY <2>5
  <2>8. /\ ended' = ended /\ queue' = queue /\ line' = line /\ outbox' = outbox
        /\ loop' = loop /\ stop' = stop /\ stage' = stage /\ work' = work
        /\ conv' = conv /\ sent' = sent /\ transcript' = transcript
    BY <2>5
  <2>9. /\ ended' \in [Turns -> Turns \cup {None}] /\ queue' \in Seq(Turns)
        /\ line' \in {"opening", "up", "down"} /\ loop' \in {"closed", "receiving"}
        /\ stage' \in [Turns -> Stages] /\ stop' \in [Turns -> BOOLEAN]
        /\ work' \in [Turns -> Works] /\ conv' \in [Turns -> Turns \cup {None}]
        /\ sent' \in [Turns -> 0..Chunks]
    BY <2>8
  <2>10. /\ inbox' \in Seq([kind : {"barge_in"}]
                     \cup [kind : {"utterance_text"}, turn : Turns, conversation : Turns \cup {None}])
         /\ outbox' \in Seq([kind : Kinds, turn : Turns])
         /\ transcript' \in Seq([role : {"user", "assistant"}, turn : Turns])
    BY <2>3, <2>8 DEF Messages
  <2>11. spoken' \in 0..MaxUtterances /\ listening' \in BOOLEAN
         /\ (listening' => spoken' < MaxUtterances)
    BY <2>7
  <2>12. QED
    BY <2>4, <2>6, <2>9, <2>10, <2>11, Zenon
<1>5. CASE ChunkOver
  <2>1. queue' \in Seq(Turns) /\ playing' \in Turns \cup {None}
    BY <1>5, Played DEF ChunkOver
  <2>2. QED
    BY <1>5, <2>1, SMTT(30) DEF ChunkOver
<1>6. CASE Disconnect
  <2>1. \A n \in 0..Len(inbox) : SubSeq(inbox, 1, n) \in Seq(Messages)
    BY <1>m, Part
  <2>2. QED
    BY <1>6, <2>1, SMTT(30) DEF Disconnect, Messages
<1>7. CASE ReceiveAudio
  <2>1. Head(outbox).turn \in Turns /\ outbox' \in Seq(Frames)
    BY <1>7, <1>f DEF ReceiveAudio
  <2>2. /\ Append(queue, Head(outbox).turn) \in Seq(Turns)
        /\ Len(Append(queue, Head(outbox).turn)) = Len(queue) + 1 /\ Len(queue) \in Nat
    BY <2>1, Appended
  <2>3. queue' \in Seq(Turns) /\ playing' \in Turns \cup {None}
    <3>1. CASE playing = None
      <4>1. PlayNext(Append(queue, Head(outbox).turn), 1)
        BY <1>7, <3>1 DEF ReceiveAudio
      <4>2. 1 \in 1..(Len(Append(queue, Head(outbox).turn)) + 1)
        BY <2>2
      <4>3. QED
        BY <2>2, <4>1, <4>2, Played
    <3>2. CASE playing # None
      BY <1>7, <2>2, <3>2 DEF ReceiveAudio
    <3>3. QED
      BY <3>1, <3>2
  <2>4. UNCHANGED <<page, active, ended, acked, spoken, listening, line, inbox, receiver, stop, tasks>>
    BY <1>7, Zenon DEF ReceiveAudio, Receive
  <2>5. {conversation, rendered, conversationRef, active, playing, acked, named, task}'
           \subseteq Turns \cup {None}
    BY <2>3, <2>4
  <2>6. QED
    BY <2>1, <2>3, <2>4, <2>5, SMTT(30) DEF Frames
<1>8. CASE ReceiveInterrupted
  <2>1. Head(outbox).turn \in Turns /\ outbox' \in Seq(Frames)
    BY <1>8, <1>f DEF ReceiveInterrupted
  <2>2. /\ playing' = None /\ queue' = <<>> /\ acked' = Head(outbox).turn
        /\ UNCHANGED <<page, active, ended, spoken, listening, line, inbox, receiver, stop, tasks>>
    BY <1>8 DEF ReceiveInterrupted, Receive
  <2>3. queue' \in Seq(Turns) /\ playing' \in Turns \cup {None} /\ acked' \in Turns \cup {None}
    BY <2>1, <2>2
  <2>4. QED
    BY <2>1, <2>2, <2>3, SMTT(30) DEF Frames
<1>9. CASE ReceiveDone
  <2>1. Head(outbox).turn \in Turns /\ outbox' \in Seq(Frames)
    BY <1>9, <1>f DEF ReceiveDone
  <2>2. /\ conversation' = conv[Head(outbox).turn] /\ active' = None
        /\ ended' = ended \/ ended' = [ended EXCEPT ![active] = Head(outbox).turn]
        /\ UNCHANGED <<rendered, conversationRef, unnamed, playing, queue, acked, spoken, listening,
                       line, inbox, receiver, stop, tasks>>
    BY <1>9 DEF ReceiveDone, Receive
  <2>3. /\ conversation' \in Turns \cup {None} /\ active' \in Turns \cup {None}
        /\ ended' \in [Turns -> Turns \cup {None}]
    BY <2>1, <2>2
  <2>4. {conversation, rendered, conversationRef, active, playing, acked, named, task}'
           \subseteq Turns \cup {None}
    BY <2>2, <2>3
  <2>5. /\ spoken' = spoken /\ listening' = listening /\ queue' = queue /\ line' = line
        /\ inbox' = inbox /\ loop' = loop /\ stop' = stop
        /\ UNCHANGED <<unnamed, stage, work, conv, sent, transcript>>
    BY <2>2
  <2>6. QED
    BY <2>1, <2>3, <2>4, <2>5 DEF Frames
<1>10. CASE Render
  BY <1>10, SMTT(30) DEF Render
<1>11. CASE Effect
  BY <1>11, SMTT(30) DEF Effect
<1>12. QED
  BY <1>1, <1>2, <1>3, <1>4, <1>5, <1>6, <1>7, <1>8, <1>9, <1>10, <1>11

\* The first message, when it is one to act on.
LEMMA FirstUtterance ==
    ASSUME Typed, Admit
    PROVE  /\ inbox \in Seq(Messages) /\ inbox # <<>>
           /\ Head(inbox) \in Messages /\ Head(inbox) = inbox[1] /\ Len(inbox) \in Nat \ {0}
           /\ Head(inbox).turn \in Turns /\ Head(inbox).conversation \in Turns \cup {None}
           /\ inbox' = Tail(inbox) /\ inbox' \in Seq(Messages)
           /\ Len(inbox') = Len(inbox) - 1
           /\ \A i \in 1..Len(inbox') : inbox'[i] = inbox[i + 1]
<1>1. inbox \in Seq(Messages) /\ inbox # <<>> /\ inbox' = Tail(inbox)
      /\ Head(inbox).kind = "utterance_text"
  BY DEF Typed, TypeOK, Messages, Admit
<1>2. Head(inbox) \in Messages
  BY <1>1, HeadTailProperties
<1>3. QED
  BY <1>1, <1>2, HeadTailProperties, Utterance

LEMMA Sent ==
    ASSUME outbox \in Seq(Frames), NEW f \in Frames, ToBrowser(f)
    PROVE  outbox' \in Seq(Frames)
  BY Appended DEF ToBrowser

LEMMA CancelledType == TypeOK => Cancelled \in [Turns -> BOOLEAN]
  BY DEF TypeOK, Cancelled

LEMMA TypedServer ==
    ASSUME Typed, BargeIn \/ Admit \/ Leave
    PROVE  Typed'
<1> USE DEF Typed, TypeOK, page, browser, socket, receiver, tasks
<1>m. inbox \in Seq(Messages) /\ outbox \in Seq(Frames)
  BY DEF Messages, Frames
<1>1. CASE BargeIn
  <2>1. inbox' \in Seq(Messages)
    BY <1>1, <1>m, HeadTailProperties DEF BargeIn
  <2>2. task # None => Frame("interrupted", task) \in Frames
    BY DEF Frame, Frames, Kinds
  <2>3. outbox' \in Seq(Frames)
    BY <1>1, <1>m, <2>2, Sent DEF BargeIn
  <2>4. QED
    BY <1>1, <2>1, <2>3, CancelledType DEF BargeIn, Messages, Frames
<1>2. CASE Admit
  <2>1. Named(Head(inbox)) \in Turns \cup {None}
    BY <1>2, FirstUtterance DEF Named
  <2>2. QED
    BY <1>2, <2>1, FirstUtterance, CancelledType, SMTT(20) DEF Admit, Messages, Stages
<1>3. CASE Leave
  BY <1>3, CancelledType, SMTT(20) DEF Leave
<1>4. QED
  BY <1>1, <1>2, <1>3

LEMMA TypedTask ==
    ASSUME Typed, NEW t \in Turns, Step(t)
    PROVE  Typed'
<1> USE DEF Typed, TypeOK, page, browser, socket, receiver, Goto, Does, Stages, Works, InFlight
<1>m. outbox \in Seq(Frames) /\ transcript \in Seq(Rows)
  BY DEF Frames, Rows
<1>f. \A kind \in Kinds : Frame(kind, t) \in Frames
  BY DEF Frame, Frames
<1>1. CASE Transcribe(t)
  BY <1>1 DEF Transcribe
<1>2. CASE Enter(t)
  BY <1>2 DEF Enter
<1>3. CASE StoreUtterance(t)
  <2>1. [role |-> "user", turn |-> t] \in Rows
    BY DEF Rows
  <2>2. transcript' \in Seq(Rows)
    BY <1>3, <1>m, <2>1, Appended DEF StoreUtterance
  <2>3. QED
    BY <1>3, <2>2 DEF StoreUtterance, Rows
<1>4. CASE Planned(t)
  BY <1>4 DEF Planned
<1>5. CASE WorkFails(t)
  BY <1>5 DEF WorkFails
<1>6. CASE Speak(t)
  BY <1>6 DEF Speak
<1>7. CASE Send(t)
  <2>1. outbox' \in Seq(Frames)
    BY <1>7, <1>m, <1>f, Sent DEF Send, Kinds
  <2>2. sent[t] \in 0..Chunks /\ sent[t] < Chunks
    BY <1>7 DEF Send
  <2>3. sent[t] + 1 \in 0..Chunks
    BY <2>2, SMTT(30)
  <2>4. QED
    BY <1>7, <2>1, <2>3 DEF Send, Frames
<1>8. CASE Finish(t)
  BY <1>8 DEF Finish
<1>9. CASE StoreAnswer(t)
  <2>1. [role |-> "assistant", turn |-> t] \in Rows
    BY DEF Rows
  <2>2. transcript' \in Seq(Rows)
    BY <1>9, <1>m, <2>1, Appended DEF StoreAnswer
  <2>3. QED
    BY <1>9, <2>2 DEF StoreAnswer, Rows
<1>10. CASE Stored(t)
  BY <1>10 DEF Stored
<1>11. CASE Tell(t)
  <2>1. outbox' \in Seq(Frames)
    BY <1>11, <1>m, <1>f, Sent DEF Tell, Kinds
  <2>2. QED
    BY <1>11, <2>1 DEF Tell, Frames
<1>12. CASE Raise(t)
  BY <1>12 DEF Raise
<1>13. CASE Unwind(t)
  BY <1>13 DEF Unwind
<1>14. QED
  BY <1>1, <1>2, <1>3, <1>4, <1>5, <1>6, <1>7, <1>8, <1>9, <1>10, <1>11, <1>12, <1>13 DEF Step

LEMMA TypedNext == Typed /\ [Next]_vars => Typed'
<1> SUFFICES ASSUME Typed, [Next]_vars
             PROVE  Typed'
  OBVIOUS
<1>1. CASE UNCHANGED vars
  BY <1>1 DEF Typed, TypeOK, vars, page, browser, socket, receiver, tasks
<1>2. CASE Next
  BY <1>2, TypedBrowser, TypedServer, TypedTask DEF Next
<1>3. QED
  BY <1>1, <1>2

(***************************************************************************)
(* The type invariant of VoiceCall.                                        *)
(***************************************************************************)
THEOREM TypeCorrect == Spec => []TypeOK
<1>1. Typed => TypeOK
  BY DEF Typed
<1>2. QED
  BY TypedInit, TypedNext, <1>1, PTL DEF Spec

-----------------------------------------------------------------------------
(***************************************************************************)
(* Utterances are taken up in the order in which they were said, each of   *)
(* them once; only the two shielded parts of a task have work going on.    *)
(***************************************************************************)
IsUtterance(i) == inbox[i].kind = "utterance_text"

InOrder ==
    /\ task <= spoken
    /\ \A i \in 1..Len(inbox) : IsUtterance(i) => task < inbox[i].turn /\ inbox[i].turn <= spoken
    /\ \A i, j \in 1..Len(inbox) :
          IsUtterance(i) /\ IsUtterance(j) /\ i < j => inbox[i].turn < inbox[j].turn

NotYet == \A t \in Turns : t > task => stage[t] = "none"

Shielded == \A t \in Turns : stage[t] \notin {"preparing", "finishing"} => work[t] = "none"

CallInv == Typed /\ InOrder /\ NotYet /\ Shielded /\ OneVoice

LEMMA CallInit == Init => CallInv
<1> SUFFICES ASSUME Init
             PROVE  CallInv
  OBVIOUS
<1>1. Len(inbox) = 0 /\ task = 0 /\ spoken = 0
  BY DEF Init, None
<1>2. \A t \in Turns : stage[t] = "none" /\ work[t] = "none"
  BY DEF Init
<1>3. QED
  BY <1>1, <1>2, TypedInit DEF CallInv, InOrder, NotYet, Shielded, OneVoice, Running

\* A message more that is not an utterance, or one later than all before.
LEMMA OrderKept ==
    ASSUME Typed, InOrder, NEW m \in Messages, task' = task,
           spoken' \in Nat, spoken' >= spoken,
           m.kind = "utterance_text" => spoken < m.turn /\ m.turn <= spoken',
           inbox' = inbox \/ inbox' = Append(inbox, m)
    PROVE  InOrder'
<1>1. /\ inbox \in Seq(Messages) /\ Len(inbox) \in Nat
      /\ spoken \in Nat /\ task \in Nat /\ task <= spoken
  <2>1. inbox \in Seq(Messages)
    BY DEF Typed, TypeOK, Messages
  <2>2. spoken \in 0..MaxUtterances /\ task \in Turns \cup {None}
    BY DEF Typed, TypeOK
  <2>3. QED
    BY <2>1, <2>2 DEF InOrder, Turns, None
<1>2. \A i \in 1..Len(inbox) : inbox[i] \in Messages
  BY <1>1, ElementOfSeq
<1>3. \A i \in 1..Len(inbox) : IsUtterance(i) => inbox[i].turn \in Nat
  BY <1>2, Utterance DEF IsUtterance, Turns
<1>4. m.kind = "utterance_text" => m.turn \in Nat
  BY Utterance DEF Turns
<1>5. CASE inbox' = inbox
  BY <1>1, <1>3, <1>5 DEF InOrder, IsUtterance
<1>6. CASE inbox' = Append(inbox, m)
  <2>1. /\ Len(inbox') = Len(inbox) + 1
        /\ \A i \in 1..Len(inbox) : inbox'[i] = inbox[i]
        /\ inbox'[Len(inbox) + 1] = m
    BY <1>1, <1>6, Appended
  <2>2. ASSUME NEW i \in 1..Len(inbox'), IsUtterance(i)'
        PROVE  task < inbox'[i].turn /\ inbox'[i].turn <= spoken'
    BY <1>1, <1>3, <1>4, <2>1, <2>2 DEF InOrder, IsUtterance
  <2>3. ASSUME NEW i \in 1..Len(inbox'), NEW j \in 1..Len(inbox'),
               IsUtterance(i)', IsUtterance(j)', i < j
        PROVE  inbox'[i].turn < inbox'[j].turn
    <3>1. i \in 1..Len(inbox) /\ inbox'[i] = inbox[i] /\ IsUtterance(i)
      BY <1>1, <2>1, <2>3 DEF IsUtterance
    <3>2. inbox[i].turn \in Nat /\ inbox[i].turn <= spoken
      BY <1>3, <3>1 DEF InOrder
    <3>3. CASE j \in 1..Len(inbox)
      BY <2>1, <2>3, <3>1, <3>3 DEF InOrder, IsUtterance
    <3>4. CASE j = Len(inbox) + 1
      <4>1. inbox'[j] = m /\ m.kind = "utterance_text"
        BY <2>1, <2>3, <3>4 DEF IsUtterance
      <4>2. QED
        BY <1>1, <1>4, <3>1, <3>2, <4>1
    <3>5. QED
      BY <1>1, <2>1, <3>3, <3>4
  <2>4. task' <= spoken'
    BY <1>1
  <2>5. QED
    BY <2>2, <2>3, <2>4, Zenon DEF InOrder
<1>7. QED
  BY <1>5, <1>6

\* A part of the messages.
LEMMA OrderOfPart ==
    ASSUME Typed, InOrder, task' = task, spoken' = spoken, NEW k \in Nat,
           Len(inbox') \in Nat,
           \A i \in 1..Len(inbox') : i + k \in 1..Len(inbox) /\ inbox'[i] = inbox[i + k]
    PROVE  InOrder'
<1>1. ASSUME NEW i \in 1..Len(inbox'), IsUtterance(i)'
      PROVE  task' < inbox'[i].turn /\ inbox'[i].turn <= spoken'
  BY <1>1 DEF InOrder, IsUtterance
<1>2. ASSUME NEW i \in 1..Len(inbox'), NEW j \in 1..Len(inbox'),
             IsUtterance(i)', IsUtterance(j)', i < j
      PROVE  inbox'[i].turn < inbox'[j].turn
  <2>1. i + k \in 1..Len(inbox) /\ j + k \in 1..Len(inbox) /\ i + k < j + k
    BY <1>2
  <2>2. IsUtterance(i + k) /\ IsUtterance(j + k)
    BY <1>2 DEF IsUtterance
  <2>3. inbox[i + k].turn < inbox[j + k].turn
    BY <2>1, <2>2 DEF InOrder
  <2>4. QED
    BY <2>3
<1>3. task' <= spoken'
  BY DEF InOrder
<1>4. QED
  BY <1>1, <1>2, <1>3, Zenon DEF InOrder

\* A step that neither takes an utterance up nor stops fewer tasks than were stopped.
LEMMA Quieter ==
    ASSUME Typed, NotYet, OneVoice, task' = task,
           loop' = loop \/ \A t \in Turns : Running(t) => stop'[t],
           \A t \in Turns : stage'[t] = stage[t] \/ (Running(t) /\ stage'[t] # "none"),
           \A t \in Turns : stop[t] => stop'[t]
    PROVE  NotYet' /\ OneVoice'
<1>1. \A t \in Turns : Running(t)' => Running(t)
  BY DEF Running
<1>2. \A t \in Turns : t > task => ~Running(t)
  BY DEF NotYet, Running
<1>3. NotYet'
  BY <1>2 DEF NotYet
<1>4. OneVoice'
  BY <1>1 DEF OneVoice
<1>5. QED
  BY <1>3, <1>4

LEMMA Stopped ==
    ASSUME Typed, OneVoice, stop' = Cancelled
    PROVE  /\ \A t \in Turns : stop[t] => stop'[t]
           /\ \A t \in Turns : Running(t) => stop'[t]
  BY DEF Typed, TypeOK, OneVoice, Cancelled, None, Turns

LEMMA CallBrowser ==
    ASSUME CallInv,
           Open \/ StartListening \/ NothingHeard \/ Say \/ ChunkOver \/ Disconnect
           \/ ReceiveAudio \/ ReceiveInterrupted \/ ReceiveDone \/ Render \/ Effect
    PROVE  InOrder' /\ NotYet' /\ Shielded' /\ OneVoice'
<1> USE DEF CallInv
<1>1. /\ task' = task /\ stage' = stage /\ work' = work /\ stop' = stop
      /\ loop' = loop \/ (Open /\ loop' = "receiving")
  BY DEF Open, StartListening, NothingHeard, Say, ChunkOver, Disconnect, Receive, ReceiveAudio,
         ReceiveInterrupted, ReceiveDone, Render, Effect, receiver, tasks
<1>2. Shielded'
  BY <1>1 DEF Shielded
<1>3. NotYet'
  BY <1>1 DEF NotYet
<1>4. OneVoice'
  BY <1>1 DEF OneVoice, Running
<1>5. inbox \in Seq(Messages) /\ Len(inbox) \in Nat /\ spoken \in Nat
  BY DEF Typed, TypeOK, Messages
<1>6. [kind |-> "barge_in"] \in Messages
  BY DEF Messages
<1>7. CASE Say
  <2>1. spoken + 1 \in Turns
    BY <1>7 DEF Say, Typed, TypeOK, Turns
  <2> DEFINE m == [kind |-> "utterance_text", turn |-> spoken + 1, conversation |-> conversationRef]
  <2>2. m \in Messages
    BY <2>1 DEF Messages, Typed, TypeOK
  <2>3. m.turn = spoken + 1 /\ spoken' = spoken + 1
    BY <1>7 DEF Say
  <2>4. inbox' = inbox \/ inbox' = Append(inbox, m)
    BY <1>7 DEF Say, ToServer
  <2> HIDE DEF m
  <2>5. InOrder'
    BY <1>1, <1>5, <2>2, <2>3, <2>4, OrderKept
  <2>6. QED
    BY <1>2, <1>3, <1>4, <2>5
<1>8. CASE StartListening
  <2>1. inbox' = inbox \/ inbox' = Append(inbox, [kind |-> "barge_in"])
    BY <1>8 DEF StartListening, ToServer
  <2>2. spoken' = spoken
    BY <1>8 DEF StartListening
  <2>3. InOrder'
    BY <1>1, <1>5, <1>6, <2>1, <2>2, OrderKept
  <2>4. QED
    BY <1>2, <1>3, <1>4, <2>3
<1>9. CASE Disconnect
  <2>1. spoken' = spoken
    BY <1>9 DEF Disconnect, browser
  <2>2. PICK n \in 0..Len(inbox) : inbox' = SubSeq(inbox, 1, n)
    BY <1>9 DEF Disconnect
  <2>3. /\ Len(inbox') \in Nat
        /\ \A i \in 1..Len(inbox') : i + 0 \in 1..Len(inbox) /\ inbox'[i] = inbox[i + 0]
    <3>1. inbox' \in Seq(Messages)
          /\ \A i \in 1..Len(inbox') : i + 1 - 1 \in 1..n /\ inbox'[i] = inbox[i + 1 - 1]
      BY <1>5, <2>2, Part
    <3>2. QED
      BY <1>5, <3>1
  <2>4. InOrder'
    BY <1>1, <2>1, <2>3, OrderOfPart
  <2>5. QED
    BY <1>2, <1>3, <1>4, <2>4
<1>10. CASE Open \/ NothingHeard \/ ChunkOver \/ ReceiveAudio \/ ReceiveInterrupted \/ ReceiveDone
            \/ Render \/ Effect
  <2>1. inbox' = inbox /\ spoken' = spoken
    BY <1>10 DEF Open, NothingHeard, ChunkOver, Receive, ReceiveAudio, ReceiveInterrupted,
                 ReceiveDone, Render, Effect, browser, socket
  <2>2. InOrder'
    BY <1>1, <1>5, <1>6, <2>1, OrderKept
  <2>3. QED
    BY <1>2, <1>3, <1>4, <2>2
<1>11. QED
  BY <1>7, <1>8, <1>9, <1>10

LEMMA CallServer ==
    ASSUME CallInv, BargeIn \/ Admit \/ Leave
    PROVE  InOrder' /\ NotYet' /\ Shielded' /\ OneVoice'
<1> USE DEF CallInv
<1>1. inbox \in Seq(Messages) /\ Len(inbox) \in Nat /\ spoken \in Nat /\ task \in Nat
  <2>1. inbox \in Seq(Messages)
    BY DEF Typed, TypeOK, Messages
  <2>2. spoken \in 0..MaxUtterances /\ task \in Turns \cup {None}
    BY DEF Typed, TypeOK
  <2>3. QED
    BY <2>1, <2>2 DEF Turns, None
<1>2. CASE BargeIn
  <2>1. /\ task' = task /\ spoken' = spoken /\ loop' = loop /\ stage' = stage /\ work' = work
        /\ inbox # <<>> /\ inbox' = Tail(inbox) /\ stop' = Cancelled
    BY <1>2 DEF BargeIn, browser, receiver, tasks
  <2>2. /\ Len(inbox') \in Nat
        /\ \A i \in 1..Len(inbox') : i + 1 \in 1..Len(inbox) /\ inbox'[i] = inbox[i + 1]
    BY <1>1, <2>1, HeadTailProperties
  <2>3. InOrder'
    BY <2>1, <2>2, OrderOfPart
  <2>4. NotYet' /\ OneVoice'
    BY <2>1, Quieter, Stopped
  <2>5. QED
    BY <2>1, <2>3, <2>4 DEF Shielded
<1>3. CASE Leave
  <2>1. /\ task' = task /\ spoken' = spoken /\ stage' = stage /\ work' = work
        /\ Len(inbox') = 0 /\ stop' = Cancelled
    BY <1>3 DEF Leave, browser, tasks
  <2>2. InOrder'
    BY <2>1 DEF InOrder
  <2>3. NotYet' /\ OneVoice'
    BY <2>1, Quieter, Stopped
  <2>4. QED
    BY <2>1, <2>2, <2>3 DEF Shielded
<1>4. CASE Admit
  <2> DEFINE k == Head(inbox).turn
  <2>1. /\ k \in Turns /\ task < k /\ k <= spoken
        /\ \A i \in 1..Len(inbox') : i + 1 \in 1..Len(inbox) /\ inbox'[i] = inbox[i + 1]
        /\ \A i \in 1..Len(inbox') : IsUtterance(i + 1) => k < inbox[i + 1].turn
    <3>1. k \in Turns /\ Head(inbox) = inbox[1] /\ Len(inbox) \in Nat \ {0}
          /\ Len(inbox') = Len(inbox) - 1 /\ \A i \in 1..Len(inbox') : inbox'[i] = inbox[i + 1]
      BY <1>4, FirstUtterance
    <3>2. IsUtterance(1)
      BY <1>4, <3>1 DEF Admit, IsUtterance
    <3>3. \A i \in 1..Len(inbox') : i + 1 \in 1..Len(inbox) /\ 1 < i + 1
      BY <3>1
    <3>4. QED
      BY <3>1, <3>2, <3>3 DEF InOrder
  <2>2. /\ task' = k /\ spoken' = spoken /\ loop' = loop /\ loop = "receiving" /\ work' = work
        /\ stage' = [stage EXCEPT ![k] = "starting"] /\ stop' = Cancelled
    BY <1>4 DEF Admit, browser
  <2> HIDE DEF k
  <2>3. Turns \subseteq Nat
    BY DEF Turns
  <2>4. InOrder'
    <3>1. ASSUME NEW i \in 1..Len(inbox'), IsUtterance(i)'
          PROVE  task' < inbox'[i].turn /\ inbox'[i].turn <= spoken'
      BY <2>1, <2>2, <3>1 DEF InOrder, IsUtterance
    <3>2. ASSUME NEW i \in 1..Len(inbox'), NEW j \in 1..Len(inbox'),
                 IsUtterance(i)', IsUtterance(j)', i < j
          PROVE  inbox'[i].turn < inbox'[j].turn
      <4>1. /\ i + 1 \in 1..Len(inbox) /\ j + 1 \in 1..Len(inbox) /\ i + 1 < j + 1
            /\ IsUtterance(i + 1) /\ IsUtterance(j + 1)
        BY <2>1, <3>2 DEF IsUtterance
      <4>2. inbox[i + 1].turn < inbox[j + 1].turn
        BY <4>1 DEF InOrder
      <4>3. QED
        BY <2>1, <4>2
    <3>3. task' <= spoken'
      BY <2>1, <2>2
    <3>4. QED
      BY <3>1, <3>2, <3>3, Zenon DEF InOrder
  <2>5. stage \in [Turns -> Stages]
    BY DEF Typed, TypeOK
  <2>6. NotYet'
    BY <1>1, <2>1, <2>2, <2>3, <2>5 DEF NotYet
  <2>7. OneVoice'
    <3>1. \A t \in Turns : Running(t) => stop'[t]
      BY <2>2, Stopped
    <3>2. \A t \in Turns : t # k => stage'[t] = stage[t]
      BY <2>1, <2>2, <2>5
    <3>3. QED
      BY <2>2, <3>1, <3>2 DEF OneVoice, Running
  <2>8. Shielded'
    <3>1. stage[k] = "none" /\ work[k] = "none"
      BY <2>1 DEF NotYet, Shielded
    <3>2. QED
      BY <2>2, <2>5, <3>1 DEF Shielded
  <2>9. QED
    BY <2>4, <2>6, <2>7, <2>8
<1>5. QED
  BY <1>2, <1>3, <1>4

LEMMA CallTask ==
    ASSUME CallInv, NEW t \in Turns, Step(t)
    PROVE  InOrder' /\ NotYet' /\ Shielded' /\ OneVoice'
<1> USE DEF CallInv
<1>t. /\ stage \in [Turns -> Stages] /\ work \in [Turns -> Works]
      /\ inbox \in Seq(Messages) /\ Len(inbox) \in Nat /\ spoken \in Nat
  BY SMTT(30) DEF Typed, TypeOK, Messages
<1>1. /\ task' = task /\ spoken' = spoken /\ loop' = loop /\ stop' = stop /\ inbox' = inbox
      /\ stage' = stage \/ (Running(t) /\ \E s \in Stages \ {"none"} :
                               stage' = [stage EXCEPT ![t] = s])
  BY <1>t DEF Step, Transcribe, Enter, StoreUtterance, Planned, WorkFails, Speak, Send, Finish,
         StoreAnswer, Stored, Tell, Raise, Unwind, Goto, Does, Running, Stages, browser, socket,
         receiver, tasks
<1>2. \A u \in Turns : stage'[u] = stage[u] \/ (Running(u) /\ stage'[u] # "none")
  BY <1>t, <1>1
<1>3. NotYet' /\ OneVoice'
  BY <1>1, <1>2, Quieter
<1>4. Shielded'
  BY <1>t DEF Shielded, Step, Transcribe, Enter, StoreUtterance, Planned, WorkFails, Speak, Send,
         Finish, StoreAnswer, Stored, Tell, Raise, Unwind, Goto, Does, Running, InFlight
<1>5. [kind |-> "barge_in"] \in Messages
  BY DEF Messages
<1>6. InOrder'
  BY <1>t, <1>1, <1>5, OrderKept
<1>7. QED
  BY <1>3, <1>4, <1>6

LEMMA CallNext == CallInv /\ [Next]_vars => CallInv'
<1> SUFFICES ASSUME CallInv, [Next]_vars
             PROVE  CallInv'
  OBVIOUS
<1>1. Typed'
  BY TypedNext DEF CallInv
<1>2. CASE UNCHANGED vars
  BY <1>1, <1>2 DEF CallInv, InOrder, IsUtterance, NotYet, Shielded, OneVoice, Running, vars,
                    browser, socket, receiver, tasks
<1>3. CASE Next
  <2>1. InOrder' /\ NotYet' /\ Shielded' /\ OneVoice'
    BY <1>3, CallBrowser, CallServer, CallTask DEF Next
  <2>2. QED
    BY <1>1, <2>1 DEF CallInv
<1>4. QED
  BY <1>2, <1>3

(***************************************************************************)
(* At most one answer is on its way to the caller, that of the last        *)
(* utterance taken up, and none once nobody listens for an interruption.   *)
(***************************************************************************)
THEOREM OneSpeaks == Spec => []OneVoice
<1>1. CallInv => OneVoice
  BY DEF CallInv
<1>2. QED
  BY CallInit, CallNext, <1>1, PTL DEF Spec

(***************************************************************************)
(* No cancellation leaves a statement in flight: whoever is cancelled in   *)
(* prepare_message or finish_message stays until it has ended.             *)
(***************************************************************************)
THEOREM NothingInFlight == Spec => []StatementsDrained
<1>1. CallInv => StatementsDrained
  BY DEF CallInv, Shielded, StatementsDrained, InFlight
<1>2. QED
  BY CallInit, CallNext, <1>1, PTL DEF Spec

-----------------------------------------------------------------------------
(***************************************************************************)
(* Interruptions.  Nobody up to k has a voice any more; so what is sent    *)
(* behind the interruption of k is of a later turn.                        *)
(***************************************************************************)
Silent(k) == k <= task /\ \A t \in Turns : t <= k => ~Running(t) \/ stop[t]

Later(k, f) == f.kind = "interrupted" \/ f.turn > k

HushInv ==
    /\ acked # None => Silent(acked)
    /\ InterruptedIsFinal
    /\ \A i \in 1..Len(outbox) : outbox[i].kind = "interrupted" => Silent(outbox[i].turn)
    /\ \A i, j \in 1..Len(outbox) :
          outbox[i].kind = "interrupted" /\ i < j => Later(outbox[i].turn, outbox[j])

LEMMA HushInit == Init => HushInv
<1> SUFFICES ASSUME Init
             PROVE  HushInv
  OBVIOUS
<1>1. acked = None /\ Len(outbox) = 0
  BY DEF Init
<1>2. QED
  BY <1>1 DEF HushInv, InterruptedIsFinal

\* Who is silent stays so, since a task is begun for a later utterance only.
LEMMA SilentStays ==
    ASSUME CallInv, [Next]_vars, NEW k \in Nat, Silent(k)
    PROVE  Silent(k)'
<1> USE DEF CallInv
<1>t. /\ stage \in [Turns -> Stages] /\ stop \in [Turns -> BOOLEAN]
      /\ task \in Nat /\ Turns \subseteq Nat
  <2>1. /\ stage \in [Turns -> Stages] /\ stop \in [Turns -> BOOLEAN]
        /\ task \in Turns \cup {None}
    BY DEF Typed, TypeOK
  <2>2. QED
    BY <2>1 DEF Turns, None
<1>1. CASE Admit
  <2>1. /\ Head(inbox).turn \in Turns /\ Head(inbox) = inbox[1] /\ 1 \in 1..Len(inbox)
        /\ IsUtterance(1)
    BY <1>1, FirstUtterance DEF Admit, IsUtterance
  <2>2. task < Head(inbox).turn
    BY <2>1 DEF InOrder
  <2>3. /\ task' = Head(inbox).turn /\ stop' = Cancelled
        /\ stage' = [stage EXCEPT ![Head(inbox).turn] = "starting"]
    BY <1>1 DEF Admit
  <2>4. \A t \in Turns : t <= k => stage'[t] = stage[t]
    BY <1>t, <2>1, <2>2, <2>3 DEF Silent
  <2>5. \A t \in Turns : stop[t] => stop'[t]
    BY <2>3, Stopped
  <2>6. QED
    BY <1>t, <2>1, <2>2, <2>3, <2>4, <2>5, SMTT(20) DEF Silent, Running
<1>2. CASE BargeIn \/ Leave
  <2>1. task' = task /\ stage' = stage /\ stop' = Cancelled
    BY <1>2 DEF BargeIn, Leave, receiver, tasks
  <2>2. \A t \in Turns : stop[t] => stop'[t]
    BY <2>1, Stopped
  <2>3. QED
    BY <2>1, <2>2 DEF Silent, Running
<1>3. ASSUME NEW t \in Turns, Step(t)
      PROVE  Silent(k)'
  <2>1. /\ task' = task /\ stop' = stop
        /\ stage' = stage \/ (Running(t) /\ \E s \in Stages : stage' = [stage EXCEPT ![t] = s])
    BY <1>3 DEF Step, Transcribe, Enter, StoreUtterance, Planned, WorkFails, Speak, Send, Finish,
                StoreAnswer, Stored, Tell, Raise, Unwind, Goto, Does, Running, Stages, receiver
  <2>2. \A u \in Turns : Running(u)' => Running(u)
    BY <1>t, <2>1 DEF Running
  <2>3. QED
    BY <2>1, <2>2 DEF Silent
<1>4. CASE Open \/ StartListening \/ NothingHeard \/ Say \/ ChunkOver \/ Disconnect
           \/ ReceiveAudio \/ ReceiveInterrupted \/ ReceiveDone \/ Render \/ Effect
  <2>1. task' = task /\ stage' = stage /\ stop' = stop
    BY <1>4 DEF Open, StartListening, NothingHeard, Say, ChunkOver, Disconnect, Receive,
                ReceiveAudio, ReceiveInterrupted, ReceiveDone, Render, Effect, receiver, tasks
  <2>2. QED
    BY <2>1 DEF Silent, Running
<1>5. CASE UNCHANGED vars
  BY <1>5 DEF vars, receiver, tasks, Silent, Running
<1>6. QED
  BY <1>1, <1>2, <1>3, <1>4, <1>5 DEF Next

\* Silent, after the step.
SilentThen(k) == k <= task' /\ \A t \in Turns : t <= k => stage'[t] \in {"none", "over"} \/ stop'[t]

LEMMA SilentLater ==
    ASSUME CallInv, [Next]_vars
    PROVE  \A k \in Nat : Silent(k) => SilentThen(k)
<1> SUFFICES ASSUME NEW k \in Nat, Silent(k)
             PROVE  SilentThen(k)
  OBVIOUS
<1>1. Silent(k)'
  BY SilentStays
<1>2. QED
  BY <1>1 DEF Silent, SilentThen, Running

\* HushInv after the step, in terms of the state after it.
LEMMA HushThen ==
    ASSUME acked' # None => SilentThen(acked'),
           InterruptedIsFinal',
           \A i \in 1..Len(outbox') :
              outbox'[i].kind = "interrupted" => SilentThen(outbox'[i].turn),
           \A i, j \in 1..Len(outbox') :
              outbox'[i].kind = "interrupted" /\ i < j => Later(outbox'[i].turn, outbox'[j])
    PROVE  HushInv'
<1>1. (acked # None => Silent(acked))'
  BY DEF Silent, SilentThen, Running
<1>2. (\A i \in 1..Len(outbox) : outbox[i].kind = "interrupted" => Silent(outbox[i].turn))'
  BY DEF Silent, SilentThen, Running
<1>3. (\A i, j \in 1..Len(outbox) :
          outbox[i].kind = "interrupted" /\ i < j => Later(outbox[i].turn, outbox[j]))'
  BY DEF Later
<1>4. QED
  BY <1>1, <1>2, <1>3 DEF HushInv

LEMMA FramesType ==
    ASSUME CallInv
    PROVE  /\ outbox \in Seq(Frames) /\ Len(outbox) \in Nat
           /\ \A i \in 1..Len(outbox) : outbox[i] \in Frames /\ outbox[i].turn \in Nat
           /\ acked \in Nat /\ task \in Nat /\ queue \in Seq(Turns) /\ Turns \subseteq Nat
<1>1. /\ outbox \in Seq(Frames) /\ acked \in Turns \cup {None} /\ task \in Turns \cup {None}
      /\ queue \in Seq(Turns)
  BY DEF CallInv, Typed, TypeOK, Frames
<1>2. \A i \in 1..Len(outbox) : outbox[i] \in Frames
  BY <1>1, ElementOfSeq
<1>3. Turns \subseteq Nat
  BY DEF Turns
<1>4. \A f \in Frames : f.turn \in Nat
  BY <1>3 DEF Frames
<1>5. QED
  BY <1>1, <1>2, <1>3, <1>4 DEF None

\* Nothing is received; at most frames are lost.
LEMMA FramesKept ==
    ASSUME CallInv, HushInv, [Next]_vars,
           UNCHANGED <<acked, playing, queue>>, outbox' = outbox \/ outbox' = <<>>
    PROVE  HushInv'
<1>1. /\ acked' = acked /\ playing' = playing /\ queue' = queue
      /\ outbox' = outbox \/ Len(outbox') = 0
  OBVIOUS
<1>2. acked' # None => SilentThen(acked')
  BY <1>1, SilentLater, FramesType DEF HushInv
<1>3. InterruptedIsFinal'
  BY <1>1 DEF HushInv, InterruptedIsFinal
<1>4. \A i \in 1..Len(outbox') : outbox'[i].kind = "interrupted" => SilentThen(outbox'[i].turn)
  BY <1>1, SilentLater, FramesType DEF HushInv
<1>5. \A i, j \in 1..Len(outbox') :
         outbox'[i].kind = "interrupted" /\ i < j => Later(outbox'[i].turn, outbox'[j])
  BY <1>1 DEF HushInv
<1>6. QED
  BY <1>2, <1>3, <1>4, <1>5, HushThen

\* The server sends a frame: an interruption of a turn that has no voice, or of a later turn than
\* all that were interrupted.
LEMMA FrameSent ==
    ASSUME CallInv, HushInv, [Next]_vars, UNCHANGED <<acked, playing, queue>>,
           NEW f \in Frames, outbox' = Append(outbox, f),
           \/ f.kind = "interrupted" /\ SilentThen(f.turn)
           \/ f.kind # "interrupted" /\ Running(f.turn) /\ ~stop[f.turn]
    PROVE  HushInv'
<1>t. f.turn \in Turns /\ f.turn \in Nat
  BY FramesType DEF Frames
<1>1. /\ acked' = acked /\ playing' = playing /\ queue' = queue
      /\ Len(outbox') = Len(outbox) + 1 /\ outbox'[Len(outbox) + 1] = f
      /\ \A i \in 1..Len(outbox) : outbox'[i] = outbox[i]
  BY Appended, FramesType
<1>2. \A k \in Nat : Silent(k) => Later(k, f)
  BY <1>t DEF Silent, Later
<1>3. acked' # None => SilentThen(acked')
  BY <1>1, SilentLater, FramesType DEF HushInv
<1>4. InterruptedIsFinal'
  <2>1. acked # None => f.kind = "interrupted" \/ f.turn > acked
    BY <1>2, FramesType DEF HushInv, Later
  <2>2. QED
    BY <1>1, <2>1, FramesType DEF HushInv, InterruptedIsFinal
<1>5. ASSUME NEW i \in 1..Len(outbox'), outbox'[i].kind = "interrupted"
      PROVE  SilentThen(outbox'[i].turn)
  <2>1. CASE i \in 1..Len(outbox)
    BY <1>1, <1>5, <2>1, SilentLater, FramesType DEF HushInv
  <2>2. CASE i = Len(outbox) + 1
    BY <1>1, <1>5, <2>2
  <2>3. QED
    BY <1>1, <2>1, <2>2, FramesType
<1>6. ASSUME NEW i \in 1..Len(outbox'), NEW j \in 1..Len(outbox'),
             outbox'[i].kind = "interrupted", i < j
      PROVE  Later(outbox'[i].turn, outbox'[j])
  <2>1. i \in 1..Len(outbox) /\ outbox'[i] = outbox[i]
    BY <1>1, <1>6, FramesType
  <2>2. CASE j \in 1..Len(outbox)
    BY <1>1, <1>6, <2>1, <2>2 DEF HushInv
  <2>3. CASE j = Len(outbox) + 1
    BY <1>1, <1>2, <1>6, <2>1, <2>3, FramesType DEF HushInv
  <2>4. QED
    BY <1>1, <2>2, <2>3, FramesType
<1>7. QED
  BY <1>3, <1>4, <1>5, <1>6, HushThen

LEMMA HushBrowser ==
    ASSUME CallInv, HushInv, [Next]_vars,
           Open \/ StartListening \/ NothingHeard \/ Say \/ ChunkOver \/ Disconnect
           \/ ReceiveAudio \/ ReceiveInterrupted \/ ReceiveDone \/ Render \/ Effect
    PROVE  HushInv'
<1>1. CASE Open \/ NothingHeard \/ Say \/ Disconnect \/ Render \/ Effect
  <2>1. UNCHANGED <<acked, playing, queue>> /\ (outbox' = outbox \/ outbox' = <<>>)
    BY <1>1 DEF Open, NothingHeard, Say, Disconnect, Render, Effect, browser, socket
  <2>2. QED
    BY <2>1, FramesKept
\* What is played and queued is no more than it was.
<1>2. ASSUME acked' = acked, outbox' = outbox,
             playing' # None => playing' = playing \/ \E j \in 1..Len(queue) : playing' = queue[j],
             \A i \in 1..Len(queue') : \E j \in 1..Len(queue) : queue'[i] = queue[j]
      PROVE  HushInv'
  <2>1. acked' # None => SilentThen(acked')
    BY <1>2, SilentLater, FramesType DEF HushInv
  <2>2. InterruptedIsFinal'
    BY <1>2 DEF HushInv, InterruptedIsFinal
  <2>3. \A i \in 1..Len(outbox') : outbox'[i].kind = "interrupted" => SilentThen(outbox'[i].turn)
    BY <1>2, SilentLater, FramesType DEF HushInv
  <2>4. \A i, j \in 1..Len(outbox') :
           outbox'[i].kind = "interrupted" /\ i < j => Later(outbox'[i].turn, outbox'[j])
    BY <1>2 DEF HushInv
  <2>5. QED
    BY <2>1, <2>2, <2>3, <2>4, HushThen
<1>3. CASE StartListening
  <2>1. /\ acked' = acked /\ outbox' = outbox
        /\ (playing' = playing /\ queue' = queue) \/ (playing' = None /\ queue' = <<>>)
    <3>1. CASE playing # None
      BY <1>3, <3>1, Zenon DEF StartListening
    <3>2. CASE ~(playing # None)
      BY <1>3, <3>2, Zenon DEF StartListening
    <3>3. QED
      BY <3>1, <3>2
  <2>2. /\ playing' # None => playing' = playing
        /\ \A i \in 1..Len(queue') : \E j \in 1..Len(queue) : queue'[i] = queue[j]
    BY <2>1
  <2>3. QED
    BY <1>2, <2>1, <2>2
<1>4. CASE ChunkOver
  <2>1. PICK n \in 1..(Len(queue) + 1) : PlayNext(queue, n)
    BY <1>4 DEF ChunkOver
  <2>2. acked' = acked /\ outbox' = outbox
    BY <1>4 DEF ChunkOver, socket
  <2>3. QED
    BY <1>2, <2>1, <2>2, Played, FramesType
<1>5. ASSUME NEW kind, Receive(kind)
      PROVE  /\ Head(outbox) = outbox[1] /\ 1 \in 1..Len(outbox) /\ Head(outbox).kind = kind
             /\ Len(outbox') = Len(outbox) - 1
             /\ \A i \in 1..Len(outbox') : i + 1 \in 1..Len(outbox) /\ outbox'[i] = outbox[i + 1]
             /\ \A i \in 1..Len(outbox') :
                   outbox'[i].kind = "interrupted" => SilentThen(outbox'[i].turn)
             /\ \A i, j \in 1..Len(outbox') :
                   outbox'[i].kind = "interrupted" /\ i < j => Later(outbox'[i].turn, outbox'[j])
  <2>1. outbox # <<>> /\ outbox' = Tail(outbox) /\ Head(outbox).kind = kind
    BY <1>5 DEF Receive
  <2>2. /\ Head(outbox) = outbox[1] /\ 1 \in 1..Len(outbox)
        /\ Len(outbox') = Len(outbox) - 1
        /\ \A i \in 1..Len(outbox') : i + 1 \in 1..Len(outbox) /\ outbox'[i] = outbox[i + 1]
    BY <2>1, FramesType, HeadTailProperties
  <2>3. \A i \in 1..Len(outbox') : outbox'[i].kind = "interrupted" => SilentThen(outbox'[i].turn)
    BY <2>2, SilentLater, FramesType DEF HushInv
  <2>4. ASSUME NEW i \in 1..Len(outbox'), NEW j \in 1..Len(outbox'),
               outbox'[i].kind = "interrupted", i < j
        PROVE  Later(outbox'[i].turn, outbox'[j])
    <3>1. i + 1 \in 1..Len(outbox) /\ j + 1 \in 1..Len(outbox) /\ i + 1 < j + 1
          /\ outbox'[i] = outbox[i + 1] /\ outbox'[j] = outbox[j + 1]
      BY <2>2, <2>4
    <3>2. QED
      BY <2>4, <3>1 DEF HushInv
  <2>5. QED
    BY <2>1, <2>2, <2>3, <2>4
<1>6. CASE ReceiveInterrupted
  <2>1. /\ playing' = None /\ Len(queue') = 0 /\ acked' = Head(outbox).turn
        /\ Receive("interrupted")
    BY <1>6 DEF ReceiveInterrupted
  <2>2. Silent(Head(outbox).turn) /\ Head(outbox).turn \in Nat
    <3>1. Head(outbox) = outbox[1] /\ 1 \in 1..Len(outbox) /\ Head(outbox).kind = "interrupted"
      BY <1>5, <2>1
    <3>2. QED
      BY <3>1, FramesType DEF HushInv
  <2>3. SilentThen(acked')
    BY <2>1, <2>2, SilentLater
  <2>4. \A i \in 1..Len(outbox') : Later(acked', outbox'[i])
    <3>1. \A i \in 1..Len(outbox') : 1 < i + 1 /\ i + 1 \in 1..Len(outbox)
                                     /\ outbox'[i] = outbox[i + 1]
      BY <1>5, <2>1
    <3>2. QED
      BY <1>5, <2>1, <3>1 DEF HushInv
  <2>5. InterruptedIsFinal'
    BY <2>1, <2>4 DEF InterruptedIsFinal, Later
  <2>6. QED
    BY <1>5, <2>1, <2>3, <2>5, HushThen
<1>7. CASE ReceiveDone
  <2>1. UNCHANGED <<playing, queue, acked>> /\ Receive("done")
    BY <1>7 DEF ReceiveDone
  <2>2. acked' # None => SilentThen(acked')
    BY <2>1, SilentLater, FramesType DEF HushInv
  <2>3. InterruptedIsFinal'
    BY <1>5, <2>1 DEF HushInv, InterruptedIsFinal
  <2>4. QED
    BY <1>5, <2>1, <2>2, <2>3, HushThen
<1>8. CASE ReceiveAudio
  <2> DEFINE n == Head(outbox).turn
             q == Append(queue, n)
  <2>1. acked' = acked /\ Receive("audio")
    BY <1>8 DEF ReceiveAudio
  <2>2. n \in Turns
    BY <1>5, <2>1, FramesType DEF Frames
  <2>3. q \in Seq(Turns) /\ Len(q) = Len(queue) + 1 /\ Len(queue) \in Nat
        /\ \A i \in 1..Len(queue) : q[i] = queue[i]
        /\ q[Len(queue) + 1] = n
    BY <2>2, Appended, FramesType
  <2>4. acked # None => n > acked /\ \A j \in 1..Len(q) : q[j] > acked
    <3>1. acked # None => n > acked
      BY <1>5, <2>1 DEF HushInv, InterruptedIsFinal
    <3>2. \A j \in 1..Len(q) : j \in 1..Len(queue) \/ j = Len(queue) + 1
      BY <2>3
    <3>3. QED
      BY <2>3, <3>1, <3>2 DEF HushInv, InterruptedIsFinal
  <2>5. /\ playing' # None => playing' = playing \/ \E j \in 1..Len(q) : playing' = q[j]
        /\ \A i \in 1..Len(queue') : \E j \in 1..Len(q) : queue'[i] = q[j]
    <3>1. CASE playing = None
      <4>1. PlayNext(q, 1)
        BY <1>8, <3>1 DEF ReceiveAudio
      <4>2. 1 \in 1..(Len(q) + 1)
        BY <2>3
      <4> HIDE DEF q
      <4>3. QED
        BY <2>3, <4>1, <4>2, Played
    <3>2. CASE playing # None
      BY <1>8, <3>2 DEF ReceiveAudio
    <3>3. QED
      BY <3>1, <3>2
  <2> HIDE DEF n, q
  <2>6. acked' # None => SilentThen(acked')
    BY <2>1, SilentLater, FramesType DEF HushInv
  <2>7. InterruptedIsFinal'
    <3>1. acked # None /\ playing' # None => playing' > acked
      BY <2>4, <2>5 DEF HushInv, InterruptedIsFinal
    <3>2. acked # None => \A i \in 1..Len(queue') : queue'[i] > acked
      BY <2>4, <2>5
    <3>3. acked # None => \A i \in 1..Len(outbox') :
                             outbox'[i].kind = "interrupted" \/ outbox'[i].turn > acked
      BY <1>5, <2>1 DEF HushInv, InterruptedIsFinal
    <3>4. QED
      BY <2>1, <3>1, <3>2, <3>3 DEF InterruptedIsFinal
  <2>8. QED
    BY <1>5, <2>1, <2>6, <2>7, HushThen
<1>9. QED
  BY <1>1, <1>3, <1>4, <1>6, <1>7, <1>8

LEMMA HushServer ==
    ASSUME CallInv, HushInv, [Next]_vars, BargeIn \/ Admit \/ Leave
    PROVE  HushInv'
<1>1. UNCHANGED <<acked, playing, queue>>
  BY DEF BargeIn, Admit, Leave, browser
<1>2. CASE Admit \/ Leave
  <2>1. outbox' = outbox \/ outbox' = <<>>
    BY <1>2 DEF Admit, Leave
  <2>2. QED
    BY <1>1, <2>1, FramesKept
<1>3. CASE BargeIn /\ outbox' = outbox
  BY <1>1, <1>3, FramesKept
<1>4. CASE BargeIn /\ outbox' # outbox
  <2>1. /\ task # None /\ outbox' = Append(outbox, Frame("interrupted", task))
        /\ stop' = Cancelled /\ task' = task /\ stage' = stage
    BY <1>4 DEF BargeIn, ToBrowser, receiver, tasks
  <2>2. task \in Turns
    BY <2>1 DEF CallInv, Typed, TypeOK
  <2> DEFINE f == Frame("interrupted", task)
  <2>3. f \in Frames /\ f.kind = "interrupted" /\ f.turn = task
    BY <2>2 DEF Frame, Frames, Kinds
  <2> HIDE DEF f
  <2>4. \A t \in Turns : Running(t) => stop'[t]
    BY <2>1, Stopped DEF CallInv
  <2>5. SilentThen(task)
    BY <2>1, <2>4, FramesType DEF SilentThen, Running
  <2>6. outbox' = Append(outbox, f)
    BY <2>1 DEF f
  <2>7. QED
    BY <1>1, <2>3, <2>5, <2>6, FrameSent
<1>5. QED
  BY <1>2, <1>3, <1>4

LEMMA HushTask ==
    ASSUME CallInv, HushInv, [Next]_vars, NEW t \in Turns, Step(t)
    PROVE  HushInv'
<1>1. UNCHANGED <<acked, playing, queue>>
  BY DEF Step, Transcribe, Enter, StoreUtterance, Planned, WorkFails, Speak, Send, Finish,
         StoreAnswer, Stored, Tell, Raise, Unwind, browser
<1>2. \/ outbox' = outbox
      \/ \E kind \in {"audio", "done"} :
            outbox' = Append(outbox, Frame(kind, t)) /\ Running(t) /\ ~stop[t]
  BY DEF Step, Transcribe, Enter, StoreUtterance, Planned, WorkFails, Speak, Send, Finish,
         StoreAnswer, Stored, Tell, Raise, Unwind, socket, ToBrowser, Running
<1>3. CASE outbox' = outbox
  BY <1>1, <1>3, FramesKept
<1>4. ASSUME NEW kind \in {"audio", "done"}, outbox' = Append(outbox, Frame(kind, t)),
             Running(t), ~stop[t]
      PROVE  HushInv'
  <2> DEFINE f == Frame(kind, t)
  <2>1. f \in Frames /\ f.kind # "interrupted" /\ f.turn = t
    BY DEF Frame, Frames, Kinds
  <2>2. outbox' = Append(outbox, f)
    BY <1>4
  <2> HIDE DEF f
  <2>3. QED
    BY <1>1, <1>4, <2>1, <2>2, FrameSent
<1>5. QED
  BY <1>2, <1>3, <1>4

LEMMA HushNext == CallInv /\ HushInv /\ [Next]_vars => HushInv'
<1> SUFFICES ASSUME CallInv, HushInv, [Next]_vars
             PROVE  HushInv'
  OBVIOUS
<1>1. CASE UNCHANGED vars
  <2>1. UNCHANGED <<acked, playing, queue>> /\ outbox' = outbox
    BY <1>1 DEF vars, browser, socket
  <2>2. QED
    BY <2>1, FramesKept
<1>2. CASE Next
  BY <1>2, HushBrowser, HushServer, HushTask DEF Next
<1>3. QED
  BY <1>1, <1>2

(***************************************************************************)
(* Once the browser was told of an interruption, nothing of that answer or *)
(* of an earlier one is played, queued or on its way.                      *)
(***************************************************************************)
THEOREM HushedForGood == Spec => []InterruptedIsFinal
<1>1. HushInv => InterruptedIsFinal
  BY DEF HushInv
<1>2. QED
  BY CallInit, CallNext, HushInit, HushNext, <1>1, PTL DEF Spec

-----------------------------------------------------------------------------
(***************************************************************************)
(* What is told.  A task whose work has got into the session lock has a    *)
(* conversation, and keeps it; its utterance is in the transcript from the *)
(* moment the work plans, so long before its answer is.                    *)
(***************************************************************************)
Fits(t) ==
    /\ work[t] \in {"begun", "inside", "planning"} => stage[t] = "preparing"
    /\ work[t] = "storing" => stage[t] = "finishing"

Placed(t) ==
    \/ work[t] \in {"inside", "planning"}
    \/ stage[t] \in {"speaking", "finishing", "telling"}
    \/ stage[t] = "preparing" /\ work[t] = "done"

Known(t) == t <= task /\ conv[t] # None

Asked(t) == \E j \in 1..Len(transcript) : transcript[j] = [role |-> "user", turn |-> t]

PlacedInv ==
    /\ \A t \in Turns : Fits(t) /\ conv[t] <= t /\ (Placed(t) => conv[t] # None)
    /\ \A t \in Turns : t > task => conv[t] = None
    /\ named <= task
    /\ \A i \in 1..Len(outbox) : outbox[i].kind = "done" => Known(outbox[i].turn)
    /\ \A i \in 1..Len(transcript) : Known(transcript[i].turn)

ToldInv ==
    /\ TranscriptTold
    /\ \A t \in Turns : Placed(t) /\ work[t] # "inside" /\ stage[t] # "telling" => Asked(t)
    /\ \A t \in Turns : stage[t] = "finishing" => sent[t] = Chunks

(***************************************************************************)
(* Where the caller stays.  The name that the page took over goes from its *)
(* state to a render and from there to the reference that an utterance is  *)
(* sent with; what is said after that is sent with a name, and is given    *)
(* its conversation when it is taken up.                                   *)
(***************************************************************************)
Settled(t) == t > unnamed

StayInv ==
    /\ active \in {None, spoken}
    /\ conversation <= spoken /\ rendered <= spoken /\ conversationRef <= spoken
    /\ conversationRef # None => rendered # None
    /\ rendered # None => conversation # None
    /\ conversationRef = None => unnamed = spoken
    /\ \A b \in Turns : ended[b] # None => b <= spoken
    /\ \A i \in 1..Len(inbox) : IsUtterance(i) =>
          /\ inbox[i].conversation < inbox[i].turn
          /\ Settled(inbox[i].turn) => inbox[i].conversation # None
    /\ \A t \in Turns : Settled(t) => conv[t] # t /\ (stage[t] # "none" => conv[t] # None)

LEMMA CallTypes ==
    ASSUME CallInv
    PROVE  /\ Turns \subseteq Nat /\ None = 0
           /\ spoken \in Nat /\ task \in Nat /\ named \in Nat /\ conversation \in Nat
           /\ rendered \in Nat /\ conversationRef \in Nat /\ unnamed \in 0..spoken
           /\ conversationRef \in Turns \cup {None}
           /\ active \in Turns \cup {None} /\ conversation \in Turns \cup {None}
           /\ named \in Turns \cup {None}
           /\ stage \in [Turns -> Stages] /\ work \in [Turns -> Works]
           /\ conv \in [Turns -> Turns \cup {None}] /\ \A t \in Turns : conv[t] \in Nat
           /\ sent \in [Turns -> 0..Chunks] /\ stop \in [Turns -> BOOLEAN]
           /\ ended \in [Turns -> Turns \cup {None}]
           /\ outbox \in Seq(Frames) /\ Len(outbox) \in Nat
           /\ \A i \in 1..Len(outbox) : outbox[i] \in Frames /\ outbox[i].turn \in Turns
           /\ transcript \in Seq(Rows) /\ Len(transcript) \in Nat
           /\ \A i \in 1..Len(transcript) :
                 /\ transcript[i].role \in {"user", "assistant"} /\ transcript[i].turn \in Turns
<1>1. /\ {conversation, rendered, conversationRef, active, playing, acked, named, task}
            \subseteq Turns \cup {None}
      /\ spoken \in 0..MaxUtterances /\ unnamed \in 0..spoken
      /\ stage \in [Turns -> Stages] /\ work \in [Turns -> Works]
      /\ conv \in [Turns -> Turns \cup {None}]
      /\ sent \in [Turns -> 0..Chunks] /\ stop \in [Turns -> BOOLEAN]
      /\ ended \in [Turns -> Turns \cup {None}]
      /\ outbox \in Seq(Frames) /\ transcript \in Seq(Rows)
  BY DEF CallInv, Typed, TypeOK, Frames, Rows
<1>2. Turns \subseteq Nat /\ None = 0
  BY DEF Turns, None
<1>3. \A i \in 1..Len(outbox) : outbox[i] \in Frames
  BY <1>1, ElementOfSeq
<1>4. \A i \in 1..Len(transcript) : transcript[i] \in Rows
  BY <1>1, ElementOfSeq
<1>5. Len(outbox) \in Nat /\ Len(transcript) \in Nat
  BY <1>1
<1>6. /\ spoken \in Nat /\ task \in Nat /\ named \in Nat /\ conversation \in Nat
      /\ rendered \in Nat /\ conversationRef \in Nat
      /\ \A t \in Turns : conv[t] \in Nat
  <2>1. task \in Turns \cup {None} /\ named \in Turns \cup {None}
        /\ conversation \in Turns \cup {None} /\ rendered \in Turns \cup {None}
        /\ conversationRef \in Turns \cup {None}
    BY <1>1
  <2>2. /\ task \in Nat /\ named \in Nat /\ conversation \in Nat
        /\ rendered \in Nat /\ conversationRef \in Nat
    BY <1>2, <2>1
  <2>3. ASSUME NEW t \in Turns PROVE conv[t] \in Nat
    <3>1. conv \in [Turns -> Turns \cup {None}]
      BY DEF CallInv, Typed, TypeOK
    <3>2. conv[t] \in Turns \cup {None}
      BY <3>1
    <3>3. CASE conv[t] \in Turns
      BY <3>3 DEF Turns
    <3>4. CASE conv[t] = None
      BY <3>4 DEF None
    <3> QED BY <3>2, <3>3, <3>4
  <2>4. spoken \in Nat
    BY <1>1
  <2> QED BY <2>2, <2>3, <2>4
<1> QED BY <1>1, <1>2, <1>3, <1>4, <1>5, <1>6 DEF Frames, Rows

\* What a step can do to a task: take its utterance up, be its own, or nothing.
LEMMA AtTask ==
    ASSUME CallInv, [Next]_vars, NEW u \in Turns
    PROVE  \/ /\ stage'[u] = stage[u] /\ work'[u] = work[u] /\ conv'[u] = conv[u]
              /\ sent'[u] = sent[u]
           \/ Admit /\ u = Head(inbox).turn
           \/ Step(u)
<1> DEFINE Same == /\ stage'[u] = stage[u] /\ work'[u] = work[u] /\ conv'[u] = conv[u]
                   /\ sent'[u] = sent[u]
<1>1. CASE UNCHANGED vars
  BY <1>1 DEF vars, tasks
<1>2. CASE Open \/ StartListening \/ NothingHeard \/ Say \/ ChunkOver \/ Disconnect
           \/ ReceiveAudio \/ ReceiveInterrupted \/ ReceiveDone \/ Render \/ Effect \/ BargeIn
           \/ Leave
  BY <1>2 DEF Open, StartListening, NothingHeard, Say, ChunkOver, Disconnect, Receive,
              ReceiveAudio, ReceiveInterrupted, ReceiveDone, Render, Effect, BargeIn, Leave, tasks
<1>3. CASE Admit /\ u # Head(inbox).turn
  BY <1>3, CallTypes DEF Admit
<1>4. ASSUME NEW t \in Turns, t # u, Step(t)
      PROVE  Same
  BY <1>4, CallTypes DEF Step, Transcribe, Enter, StoreUtterance, Planned, WorkFails, Speak, Send,
       Finish, StoreAnswer, Stored, Tell, Raise, Unwind, Goto, Does
<1> QED BY <1>1, <1>2, <1>3, <1>4 DEF Next

\* The utterance that is taken up is later than all before, and new to the server.
LEMMA TakenUp ==
    ASSUME CallInv, Admit
    PROVE  LET m == Head(inbox)
           IN  /\ m.turn \in Turns /\ task < m.turn /\ task' = m.turn /\ m.turn <= spoken
               /\ m = inbox[1] /\ 1 \in 1..Len(inbox) /\ IsUtterance(1)
               /\ stage[m.turn] = "none" /\ work[m.turn] = "none"
               /\ stage'[m.turn] = "starting" /\ work' = work /\ sent' = sent
               /\ conv'[m.turn] = Named(m) /\ named' = Named(m)
               /\ transcript' = transcript /\ outbox' = outbox
<1> DEFINE m == Head(inbox)
<1>1. m.turn \in Turns /\ m = inbox[1] /\ 1 \in 1..Len(inbox)
  BY FirstUtterance DEF CallInv
<1>2. IsUtterance(1)
  BY <1>1 DEF Admit, IsUtterance
<1>3. task < m.turn /\ m.turn <= spoken
  BY <1>1, <1>2 DEF CallInv, InOrder
<1>4. stage[m.turn] = "none" /\ work[m.turn] = "none"
  BY <1>1, <1>3, CallTypes DEF CallInv, NotYet, Shielded
<1>5. /\ task' = m.turn /\ stage'[m.turn] = "starting" /\ work' = work /\ sent' = sent
      /\ conv'[m.turn] = Named(m) /\ named' = Named(m)
      /\ transcript' = transcript /\ outbox' = outbox
  BY <1>1, CallTypes DEF Admit
<1> QED BY <1>1, <1>2, <1>3, <1>4, <1>5

\* The step of a task that is in step with its work.
LEMMA TaskStep ==
    ASSUME CallInv, NEW u \in Turns, Fits(u), Step(u)
    PROVE  /\ stage[u] \notin {"none", "over"} /\ u <= task /\ stage'[u] # "none"
           /\ task' = task /\ named' = named /\ stop' = stop
           /\ Fits(u)'
           /\ conv'[u] = IF work[u] = "begun" /\ Enter(u) /\ conv[u] = None THEN u ELSE conv[u]
           /\ Placed(u)' => Placed(u) \/ Enter(u)
           /\ Enter(u) => work[u] = "begun" /\ conv'[u] # None
           /\ sent[u] = Chunks => sent'[u] = sent[u]
<1>1. /\ stage[u] \in Stages /\ work[u] \in Works /\ Turns \subseteq Nat /\ None = 0
      /\ stage \in [Turns -> Stages] /\ work \in [Turns -> Works]
      /\ conv \in [Turns -> Turns \cup {None}] /\ sent \in [Turns -> 0..Chunks]
      /\ task \in Nat
  BY CallTypes
<1>2. stage[u] \notin {"preparing", "finishing"} => work[u] = "none"
  BY DEF CallInv, Shielded
<1> USE DEF Goto, Does, Fits, Placed, InFlight, Running, receiver
<1>3. stage[u] \notin {"none", "over"}
  BY <1>2 DEF Step, Transcribe, Enter, StoreUtterance, Planned, WorkFails, Speak, Send, Finish,
       StoreAnswer, Stored, Tell, Raise, Unwind
<1>4. u <= task
  BY <1>1, <1>3 DEF CallInv, NotYet
<1>5. task' = task /\ named' = named /\ stop' = stop
  BY DEF Step, Transcribe, Enter, StoreUtterance, Planned, WorkFails, Speak, Send, Finish,
     StoreAnswer, Stored, Tell, Raise, Unwind
<1>6. CASE Enter(u)
  <2>1. /\ work[u] = "begun" /\ work'[u] = "inside" /\ stage'[u] = stage[u]
        /\ conv'[u] = (IF conv[u] = None THEN u ELSE conv[u]) /\ sent'[u] = sent[u]
    BY <1>1, <1>6 DEF Enter
  <2> QED BY <1>1, <1>3, <1>4, <1>5, <1>6, <2>1 DEF Turns
<1>7. CASE ~Enter(u)
  <2>1. conv'[u] = conv[u]
    BY <1>7 DEF Step, Transcribe, StoreUtterance, Planned, WorkFails, Speak, Send, Finish,
       StoreAnswer, Stored, Tell, Raise, Unwind
  <2>2. sent[u] = Chunks => sent'[u] = sent[u]
    BY <1>1, <1>7 DEF Step, Transcribe, StoreUtterance, Planned, WorkFails, Speak, Send, Finish,
       StoreAnswer, Stored, Tell, Raise, Unwind
  <2>3. stage'[u] # "none" /\ Fits(u)'
    BY <1>1, <1>2, <1>3, <1>7 DEF Step, Transcribe, StoreUtterance, Planned, WorkFails, Speak, Send,
       Finish, StoreAnswer, Stored, Tell, Raise, Unwind
  <2>4. Placed(u)' => Placed(u)
    BY <1>1, <1>2, <1>3, <1>7 DEF Step, Transcribe, StoreUtterance, Planned, WorkFails, Speak, Send,
       Finish, StoreAnswer, Stored, Tell, Raise, Unwind
  <2> QED BY <1>3, <1>4, <1>5, <1>7, <2>1, <2>2, <2>3, <2>4
<1> QED BY <1>6, <1>7

\* Only an utterance that is taken up moves the receive loop on.
LEMMA LoopMoves == ASSUME [Next]_vars PROVE Admit \/ (task' = task /\ named' = named)
  BY DEF Next, Open, StartListening, NothingHeard, Say, ChunkOver, Disconnect, Receive,
     ReceiveAudio, ReceiveInterrupted, ReceiveDone, Render, Effect, BargeIn, Leave, Step,
     Transcribe, Enter, StoreUtterance, Planned, WorkFails, Speak, Send, Finish, StoreAnswer, Stored,
     Tell, Raise, Unwind, receiver, vars

\* A conversation a task has is kept, and so is the place of its utterance.
LEMMA KnownStays ==
    ASSUME CallInv, PlacedInv, [Next]_vars, NEW t \in Turns, Known(t)
    PROVE  t <= task' /\ conv'[t] = conv[t] /\ conv'[t] # None
<1>1. t \in Nat /\ task \in Nat
  BY CallTypes
<1>2. CASE Admit
  <2>1. Head(inbox).turn \in Turns /\ task < Head(inbox).turn /\ task' = Head(inbox).turn
    BY <1>2, TakenUp
  <2>2. Head(inbox).turn \in Nat /\ t # Head(inbox).turn
    <3>1. Head(inbox).turn \in Nat
      BY <2>1 DEF Turns
    <3>2. t <= task
      BY DEF Known
    <3> QED BY <1>1, <2>1, <3>1, <3>2
  <2>3. conv'[t] = conv[t]
    <3>1. conv' = [conv EXCEPT ![Head(inbox).turn] = Named(Head(inbox))]
      BY <1>2 DEF Admit
    <3>2. DOMAIN conv = Turns
      BY CallTypes
    <3> QED BY <2>2, <3>1, <3>2
  <2> QED BY <1>1, <2>1, <2>2, <2>3 DEF Known
<1>3. CASE ~Admit
  <2>1. task' = task
    BY <1>3, LoopMoves
  <2>2. conv'[t] = conv[t]
    BY <1>3, AtTask, TaskStep DEF PlacedInv, Known
  <2> QED BY <2>1, <2>2 DEF Known
<1> QED BY <1>2, <1>3

\* Rows are only added: an utterance's by its work, or an answer's.
LEMMA NewRow ==
    ASSUME CallInv, [Next]_vars
    PROVE  \/ transcript' = transcript
           \/ \E t \in Turns :
                 \/ StoreUtterance(t) /\ transcript' = Append(transcript, [role |-> "user", turn |-> t])
                 \/ StoreAnswer(t)
                    /\ transcript' = Append(transcript, [role |-> "assistant", turn |-> t])
<1>1. CASE Open \/ StartListening \/ NothingHeard \/ Say \/ ChunkOver \/ Disconnect
           \/ ReceiveAudio \/ ReceiveInterrupted \/ ReceiveDone \/ Render \/ Effect \/ BargeIn
           \/ Leave \/ Admit
  BY <1>1 DEF Open, StartListening, NothingHeard, Say, ChunkOver, Disconnect, Receive,
              ReceiveAudio, ReceiveInterrupted, ReceiveDone, Render, Effect, BargeIn, Leave, Admit,
              tasks
<1>2. ASSUME NEW t \in Turns, Step(t)
      PROVE  \/ transcript' = transcript
             \/ StoreUtterance(t) /\ transcript' = Append(transcript, [role |-> "user", turn |-> t])
             \/ StoreAnswer(t)
                /\ transcript' = Append(transcript, [role |-> "assistant", turn |-> t])
  BY <1>2 DEF Step, Transcribe, Enter, StoreUtterance, Planned, WorkFails, Speak, Send, Finish,
              StoreAnswer, Stored, Tell, Raise, Unwind
<1>3. CASE UNCHANGED vars
  BY <1>3 DEF vars, tasks
<1> QED BY <1>1, <1>2, <1>3 DEF Next

\* A row of a step's transcript is an old one in its old place, or the last and new.
LEMMA RowsAfter ==
    ASSUME CallInv, PlacedInv, ToldInv, [Next]_vars
    PROVE  /\ Len(transcript') \in Nat /\ Len(transcript) <= Len(transcript')
           /\ \A i \in 1..Len(transcript) : transcript'[i] = transcript[i]
           /\ \A i \in 1..Len(transcript') :
                 \/ i \in 1..Len(transcript)
                 \/ /\ i = Len(transcript') /\ i = Len(transcript) + 1
                    /\ \E t \in Turns :
                          /\ transcript'[i].turn = t /\ Known(t) /\ Running(t) /\ stop' = stop
                          /\ transcript'[i].role = "assistant" =>
                                Asked(t) /\ sent[t] = Chunks /\ sent' = sent
<1>1. Len(transcript) \in Nat
  BY CallTypes
<1>2. CASE transcript' = transcript
  BY <1>1, <1>2
<1>3. ASSUME NEW t \in Turns, NEW role \in {"user", "assistant"},
             transcript' = Append(transcript, [role |-> role, turn |-> t]),
             IF role = "user" THEN StoreUtterance(t) ELSE StoreAnswer(t)
      PROVE  /\ Known(t) /\ Running(t) /\ stop' = stop /\ sent' = sent
             /\ role = "assistant" => Asked(t) /\ sent[t] = Chunks
  <2>1. stop' = stop /\ sent' = sent
    BY <1>3 DEF StoreUtterance, StoreAnswer
  <2>2. /\ role = "user" => work[t] = "inside" /\ stage[t] = "preparing"
        /\ role = "assistant" => work[t] = "storing" /\ stage[t] = "finishing"
    BY <1>3 DEF StoreUtterance, StoreAnswer, PlacedInv, Fits
  <2>3. Placed(t) /\ Running(t)
    BY <2>2 DEF Placed, Running
  <2>4. t <= task
    <3>1. stage[t] # "none" /\ t \in Nat /\ task \in Nat
      BY <1>3, <2>2, CallTypes
    <3>2. ~(t > task)
      BY <3>1 DEF CallInv, NotYet
    <3> QED BY <3>1, <3>2
  <2>5. conv[t] # None
    BY <2>3 DEF PlacedInv
  <2>6. role = "assistant" => Asked(t) /\ sent[t] = Chunks
    BY <2>2, <2>3 DEF ToldInv
  <2> QED BY <2>1, <2>3, <2>4, <2>5, <2>6 DEF Known
<1>4. ASSUME NEW t \in Turns, NEW role \in {"user", "assistant"},
             transcript' = Append(transcript, [role |-> role, turn |-> t]),
             IF role = "user" THEN StoreUtterance(t) ELSE StoreAnswer(t)
      PROVE  /\ Len(transcript') \in Nat /\ Len(transcript) <= Len(transcript')
             /\ \A i \in 1..Len(transcript) : transcript'[i] = transcript[i]
             /\ \A i \in 1..Len(transcript') :
                   \/ i \in 1..Len(transcript)
                   \/ /\ i = Len(transcript') /\ i = Len(transcript) + 1
                      /\ transcript'[i].turn = t /\ Known(t) /\ Running(t) /\ stop' = stop
                      /\ transcript'[i].role = "assistant" =>
                            Asked(t) /\ sent[t] = Chunks /\ sent' = sent
  <2> DEFINE r == [role |-> role, turn |-> t]
  <2>1. r \in Rows /\ r.turn = t /\ r.role = role
    BY DEF Rows
  <2> HIDE DEF r
  <2>2. transcript' = Append(transcript, r) /\ transcript \in Seq(Rows)
    BY <1>4, CallTypes DEF r
  <2>3. /\ Len(transcript') = Len(transcript) + 1
        /\ \A i \in 1..Len(transcript) : transcript'[i] = transcript[i]
        /\ transcript'[Len(transcript) + 1] = r
    BY <2>1, <2>2, Appended
  <2>4. /\ Known(t) /\ Running(t) /\ stop' = stop /\ sent' = sent
        /\ role = "assistant" => Asked(t) /\ sent[t] = Chunks
    BY <1>3, <1>4
  <2>5. \A i \in 1..Len(transcript') : i \in 1..Len(transcript) \/ i = Len(transcript) + 1
    BY <1>1, <2>3
  <2> QED BY <1>1, <2>1, <2>3, <2>4, <2>5
<1> QED BY <1>2, <1>4, NewRow

\* What is stopped stays stopped.
LEMMA StopStays == ASSUME CallInv, [Next]_vars, NEW t \in Turns, stop[t] PROVE stop'[t]
<1>1. CASE BargeIn \/ Admit \/ Leave
  BY <1>1, Stopped DEF BargeIn, Admit, Leave, CallInv
<1>2. CASE ~(BargeIn \/ Admit \/ Leave)
  BY <1>2 DEF Next, Open, StartListening, NothingHeard, Say, ChunkOver, Disconnect, Receive,
     ReceiveAudio, ReceiveInterrupted, ReceiveDone, Render, Effect, Step, Transcribe, Enter,
     StoreUtterance, Planned, WorkFails, Speak, Send, Finish, StoreAnswer, Stored, Tell, Raise,
     Unwind, vars
<1> QED BY <1>1, <1>2

\* A frame that says an answer is done was there, or its task tells it now.
LEMMA NewFrame ==
    ASSUME CallInv, [Next]_vars, NEW i \in 1..Len(outbox'), outbox'[i].kind = "done"
    PROVE  \/ \E j \in 1..Len(outbox) : outbox'[i] = outbox[j]
           \/ \E t \in Turns : outbox'[i].turn = t /\ Tell(t)
<1>1. outbox \in Seq(Frames) /\ Len(outbox) \in Nat /\ task \in Nat
  BY CallTypes
<1>2. CASE outbox' = outbox
  BY <1>2
<1>3. CASE outbox' = <<>>
  BY <1>3
<1>4. CASE outbox # <<>> /\ outbox' = Tail(outbox)
  BY <1>1, <1>4, HeadTailProperties
<1>5. ASSUME NEW f \in Frames, outbox' = Append(outbox, f),
             f.kind # "done" \/ (f.turn \in Turns /\ Tell(f.turn))
      PROVE  \/ \E j \in 1..Len(outbox) : outbox'[i] = outbox[j]
             \/ \E t \in Turns : outbox'[i].turn = t /\ Tell(t)
  <2>1. /\ Len(outbox') = Len(outbox) + 1 /\ outbox'[Len(outbox) + 1] = f
        /\ \A j \in 1..Len(outbox) : outbox'[j] = outbox[j]
    BY <1>1, <1>5, Appended
  <2>2. i \in 1..Len(outbox) \/ i = Len(outbox) + 1
    BY <1>1, <2>1
  <2> QED BY <1>5, <2>1, <2>2
<1>6. CASE BargeIn /\ outbox' # outbox
  <2>1. task # None /\ outbox' = Append(outbox, Frame("interrupted", task))
    BY <1>6 DEF BargeIn, ToBrowser
  <2>2. task \in Turns
    BY <2>1 DEF CallInv, Typed, TypeOK
  <2>3. Frame("interrupted", task) \in Frames /\ Frame("interrupted", task).kind # "done"
    BY <2>2 DEF Frame, Frames, Kinds
  <2> QED BY <1>5, <2>1, <2>3
<1>7. ASSUME NEW t \in Turns, Send(t) \/ Tell(t), outbox' # outbox
      PROVE  \/ \E j \in 1..Len(outbox) : outbox'[i] = outbox[j]
             \/ \E u \in Turns : outbox'[i].turn = u /\ Tell(u)
  <2>1. CASE Send(t)
    <3>1. outbox' = Append(outbox, Frame("audio", t))
      BY <1>7, <2>1 DEF Send, ToBrowser
    <3>2. Frame("audio", t) \in Frames /\ Frame("audio", t).kind # "done"
      BY DEF Frame, Frames, Kinds
    <3> QED BY <1>5, <3>1, <3>2
  <2>2. CASE Tell(t)
    <3>1. outbox' = Append(outbox, Frame("done", t))
      BY <1>7, <2>2 DEF Tell, ToBrowser
    <3>2. Frame("done", t) \in Frames /\ Frame("done", t).turn = t
      BY DEF Frame, Frames, Kinds
    <3> QED BY <1>5, <2>2, <3>1, <3>2
  <2> QED BY <1>7, <2>1, <2>2
<1>8. \/ outbox' = outbox \/ outbox' = <<>> \/ (outbox # <<>> /\ outbox' = Tail(outbox))
      \/ BargeIn \/ \E t \in Turns : Send(t) \/ Tell(t)
  BY DEF Next, Open, StartListening, NothingHeard, Say, ChunkOver, Disconnect, Receive,
     ReceiveAudio, ReceiveInterrupted, ReceiveDone, Render, Effect, Admit, Leave, Step, Transcribe,
     Enter, StoreUtterance, Planned, WorkFails, Speak, Finish, StoreAnswer, Stored, Raise,
     Unwind, vars, socket
<1> QED BY <1>2, <1>3, <1>4, <1>6, <1>7, <1>8

\* The conversation an utterance is put in is an earlier one.
LEMMA NamedBefore ==
    ASSUME CallInv, PlacedInv, StayInv, Admit
    PROVE  LET m == Head(inbox)
           IN  /\ Named(m) \in Nat /\ Named(m) < m.turn
               /\ Settled(m.turn) => Named(m) # None
<1> DEFINE m == Head(inbox)
<1>1. m = inbox[1] /\ 1 \in 1..Len(inbox) /\ IsUtterance(1) /\ task < m.turn
  BY TakenUp
<1>2. m.conversation < m.turn /\ (Settled(m.turn) => m.conversation # None)
  BY <1>1 DEF StayInv
<1>3. m.turn \in Turns /\ m.conversation \in Turns \cup {None}
  BY FirstUtterance DEF CallInv
<1>4. m.turn \in Nat /\ m.conversation \in Nat
  <2>1. \A t \in Turns : t \in Nat
    BY DEF Turns
  <2>2. None \in Nat
    BY DEF None
  <2> QED BY <1>3, <2>1, <2>2
<1>5. named \in Nat /\ task \in Nat
  BY CallTypes
<1>6. named <= task
  BY DEF PlacedInv
<1>7. Named(m) \in Nat /\ Named(m) < m.turn
  BY <1>1, <1>2, <1>4, <1>5, <1>6 DEF Named
<1>8. Settled(m.turn) => Named(m) # None
  BY <1>2 DEF Named
<1> QED BY <1>7, <1>8

\* The task that an utterance gets, or that takes a step, is in its place.
LEMMA PlacedTask ==
    ASSUME CallInv, PlacedInv, StayInv, [Next]_vars, NEW u \in Turns
    PROVE  Fits(u)' /\ conv'[u] <= u /\ (Placed(u)' => conv'[u] # None)
<1>1. u \in Nat /\ u > 0 /\ conv[u] \in Nat /\ conv[u] <= u /\ None = 0
  BY CallTypes, SMTT(30) DEF PlacedInv, Turns
<1>2. Fits(u) /\ (Placed(u) => conv[u] # None)
  BY DEF PlacedInv
<1>3. CASE stage'[u] = stage[u] /\ work'[u] = work[u] /\ conv'[u] = conv[u]
  BY <1>1, <1>2, <1>3 DEF Fits, Placed
<1>4. CASE Admit /\ u = Head(inbox).turn
  <2>1. stage'[u] = "starting" /\ work'[u] = "none" /\ conv'[u] = Named(Head(inbox))
    BY <1>4, TakenUp
  <2>2. Named(Head(inbox)) \in Nat /\ Named(Head(inbox)) < u
    BY <1>4, NamedBefore
  <2> QED BY <1>1, <2>1, <2>2 DEF Fits, Placed
<1>5. CASE Step(u)
  <2>1. /\ Fits(u)' /\ (Placed(u)' => Placed(u) \/ Enter(u))
        /\ conv'[u] = conv[u] \/ conv'[u] = u
        /\ Enter(u) => conv'[u] # None
        /\ conv[u] # None => conv'[u] # None
    BY <1>1, <1>2, <1>5, TaskStep
  <2> QED BY <1>1, <1>2, <2>1
<1> QED BY <1>3, <1>4, <1>5, AtTask

LEMMA PlacedNext ==
    ASSUME CallInv, PlacedInv, ToldInv, StayInv, [Next]_vars
    PROVE  PlacedInv'
<1>1. task \in Nat /\ named \in Nat /\ named <= task
  BY CallTypes DEF PlacedInv
<1>2. task' \in Nat /\ task <= task' /\ named' <= task'
  <2>1. CASE Admit
    <3>1. Head(inbox).turn \in Turns /\ task < Head(inbox).turn /\ task' = Head(inbox).turn
          /\ named' = Named(Head(inbox))
      BY <2>1, TakenUp
    <3>2. Named(Head(inbox)) \in Nat /\ Named(Head(inbox)) < Head(inbox).turn
      BY <2>1, NamedBefore
    <3>3. Head(inbox).turn \in Nat
      BY <3>1 DEF Turns
    <3> QED BY <1>1, <3>1, <3>2, <3>3
  <2>2. CASE task' = task /\ named' = named
    BY <1>1, <2>2
  <2> QED BY <2>1, <2>2, LoopMoves
<1>3. ASSUME NEW t \in Turns, t > task'
      PROVE  conv'[t] = None
  <2>1. t \in Nat /\ t > task
    BY <1>1, <1>2, <1>3 DEF Turns
  <2>2. conv[t] = None
    BY <2>1 DEF PlacedInv
  <2>3. ~(Admit /\ t = Head(inbox).turn)
    <3>1. SUFFICES ASSUME Admit
                   PROVE  t # Head(inbox).turn
      OBVIOUS
    <3>2. task' = Head(inbox).turn
      BY <3>1, TakenUp
    <3> QED BY <1>2, <1>3, <2>1, <3>2
  <2>4. ~Step(t)
    <3>1. SUFFICES ASSUME Step(t)
                   PROVE  t <= task
      BY <1>1, <2>1
    <3> QED BY <3>1, TaskStep DEF PlacedInv
  <2> QED BY <2>2, <2>3, <2>4, AtTask
<1>4. ASSUME NEW i \in 1..Len(outbox'), outbox'[i].kind = "done"
      PROVE  outbox'[i].turn <= task' /\ conv'[outbox'[i].turn] # None
  <2>1. CASE \E j \in 1..Len(outbox) : outbox'[i] = outbox[j]
    <3>1. PICK j \in 1..Len(outbox) : outbox'[i] = outbox[j]
      BY <2>1
    <3>2. outbox[j].turn \in Turns
      BY CallTypes
    <3>3. Known(outbox[j].turn)
      BY <1>4, <3>1 DEF PlacedInv
    <3>4. outbox[j].turn <= task' /\ conv'[outbox[j].turn] # None
      BY <3>2, <3>3, KnownStays
    <3> QED BY <3>1, <3>4
  <2>2. ASSUME NEW t \in Turns, outbox'[i].turn = t, Tell(t)
        PROVE  outbox'[i].turn <= task' /\ conv'[outbox'[i].turn] # None
    <3>1. stage[t] = "telling"
      BY <2>2 DEF Tell
    <3>2. Fits(t) /\ Step(t)
      BY <2>2 DEF PlacedInv, Step
    <3>3. Known(t)
      BY <3>1, <3>2, TaskStep DEF PlacedInv, Known, Placed
    <3>4. t <= task' /\ conv'[t] # None
      BY <3>3, KnownStays
    <3> QED BY <2>2, <3>4
  <2> QED BY <1>4, <2>1, <2>2, NewFrame
<1>5. ASSUME NEW i \in 1..Len(transcript')
      PROVE  transcript'[i].turn <= task' /\ conv'[transcript'[i].turn] # None
  <2>1. transcript'[i].turn \in Turns /\ Known(transcript'[i].turn)
    <3>1. CASE i \in 1..Len(transcript)
      <4>1. transcript'[i] = transcript[i]
        BY <3>1, RowsAfter
      <4> QED BY <3>1, <4>1, CallTypes DEF PlacedInv
    <3>2. CASE i \notin 1..Len(transcript)
      BY <1>5, <3>2, RowsAfter
    <3> QED BY <3>1, <3>2
  <2> QED BY <2>1, KnownStays
<1>6. \A t \in Turns : Fits(t)' /\ conv'[t] <= t /\ (Placed(t)' => conv'[t] # None)
  BY PlacedTask
<1>7. \A i \in 1..Len(outbox') : outbox'[i].kind = "done" => Known(outbox[i].turn)'
  BY <1>4 DEF Known
<1>8. \A i \in 1..Len(transcript') : Known(transcript[i].turn)'
  BY <1>5 DEF Known
<1> QED BY <1>2, <1>3, <1>6, <1>7, <1>8 DEF PlacedInv

\* A task goes on to answer only what is in the transcript, and stores an answer that is sent.
LEMMA ToldTask ==
    ASSUME CallInv, PlacedInv, ToldInv, [Next]_vars, NEW u \in Turns
    PROVE  /\ (Placed(u) /\ work[u] # "inside" /\ stage[u] # "telling")' =>
                 Asked(u) \/ StoreUtterance(u)
           /\ stage'[u] = "finishing" => sent'[u] = Chunks
           /\ sent[u] = Chunks => sent'[u] = Chunks
<1> DEFINE Planning == Placed(u) /\ work[u] # "inside" /\ stage[u] # "telling"
<1>1. /\ Fits(u)
      /\ Planning => Asked(u)
      /\ stage[u] = "finishing" => sent[u] = Chunks
  BY DEF PlacedInv, ToldInv
<1>2. CASE stage'[u] = stage[u] /\ work'[u] = work[u] /\ sent'[u] = sent[u]
  BY <1>1, <1>2 DEF Placed
<1>3. CASE Admit /\ u = Head(inbox).turn
  <2>1. stage'[u] = "starting" /\ work'[u] = "none" /\ sent' = sent
    BY <1>3, TakenUp
  <2> QED BY <2>1 DEF Placed
<1>4. CASE Step(u)
  <2>1. stage \in [Turns -> Stages] /\ work \in [Turns -> Works]
    BY CallTypes
  <2>2. sent[u] = Chunks => sent'[u] = sent[u]
    BY <1>1, <1>4, TaskStep
  <2>3. stage[u] \notin {"preparing", "finishing"} => work[u] = "none"
    BY DEF CallInv, Shielded
  <2>4. Planning' => Planning \/ StoreUtterance(u)
    BY <1>1, <1>4, <2>1, <2>3 DEF Placed, Fits, InFlight, Step, Transcribe, Enter, StoreUtterance,
       Planned, WorkFails, Speak, Send, Finish, StoreAnswer, Stored, Tell, Raise, Unwind, Goto, Does
  <2>5. stage'[u] = "finishing" => stage[u] = "finishing" \/ sent[u] = Chunks
    BY <1>4, <2>1 DEF Step, Transcribe, Enter, StoreUtterance, Planned, WorkFails, Speak, Send,
       Finish, StoreAnswer, Stored, Tell, Raise, Unwind, Goto, Does
  <2> QED BY <1>1, <2>2, <2>4, <2>5
<1> QED BY <1>2, <1>3, <1>4, AtTask

LEMMA ToldNext ==
    ASSUME CallInv, PlacedInv, ToldInv, [Next]_vars
    PROVE  ToldInv'
<1>1. /\ Len(transcript) \in Nat /\ Len(transcript') \in Nat /\ Len(transcript) <= Len(transcript')
      /\ \A i \in 1..Len(transcript) : transcript'[i] = transcript[i]
  BY CallTypes, RowsAfter
<1>2. ASSUME NEW i \in 1..Len(transcript)
      PROVE  /\ transcript[i].turn \in Turns /\ transcript[i].turn \in Nat
             /\ transcript[i].turn <= task
             /\ conv'[transcript[i].turn] = conv[transcript[i].turn]
  <2>1. transcript[i].turn \in Turns /\ Known(transcript[i].turn)
    BY CallTypes DEF PlacedInv
  <2> QED BY <2>1, KnownStays, CallTypes DEF Known
\* The last row, when it is new.
<1>3. ASSUME NEW j \in 1..Len(transcript'), j \notin 1..Len(transcript)
      PROVE  /\ j = Len(transcript) + 1 /\ transcript'[j].turn \in Turns
             /\ transcript'[j].turn = task \/ stop'[transcript'[j].turn]
             /\ transcript'[j].role = "assistant" =>
                   Asked(transcript'[j].turn) /\ sent'[transcript'[j].turn] = Chunks
  <2>1. PICK t \in Turns :
              /\ j = Len(transcript) + 1 /\ transcript'[j].turn = t
              /\ Running(t) /\ stop' = stop
              /\ transcript'[j].role = "assistant" => Asked(t) /\ sent[t] = Chunks /\ sent' = sent
    BY <1>3, RowsAfter
  <2>2. t = task \/ stop[t]
    BY <2>1 DEF CallInv, OneVoice
  <2> QED BY <2>1, <2>2
<1>4. ASSUME NEW i \in 1..Len(transcript'), NEW j \in (i + 1)..Len(transcript'),
             conv'[transcript'[i].turn] = conv'[transcript'[j].turn]
      PROVE  transcript'[i].turn <= transcript'[j].turn \/ stop'[transcript'[j].turn]
  <2>1. i \in 1..Len(transcript) /\ transcript'[i] = transcript[i]
    <3>1. i \in 1..Len(transcript)
      BY <1>1, <1>3, <1>4
    <3> QED BY <1>1, <3>1
  <2>2. CASE j \in 1..Len(transcript)
    <3>1. transcript'[j] = transcript[j] /\ j \in (i + 1)..Len(transcript)
      BY <1>1, <2>2
    <3>2. conv[transcript[i].turn] = conv[transcript[j].turn]
      BY <1>2, <1>4, <2>1, <2>2, <3>1
    <3>3. transcript[i].turn <= transcript[j].turn \/ stop[transcript[j].turn]
      BY <2>1, <3>1, <3>2 DEF ToldInv, TranscriptTold
    <3>4. stop[transcript[j].turn] => stop'[transcript[j].turn]
      BY <1>2, <2>2, StopStays
    <3> QED BY <2>1, <3>1, <3>3, <3>4
  <2>3. CASE j \notin 1..Len(transcript)
    <3>1. j \in 1..Len(transcript')
      BY <1>1
    <3>2. transcript'[j].turn = task \/ stop'[transcript'[j].turn]
      BY <1>3, <2>3, <3>1
    <3> QED BY <1>2, <2>1, <3>2
  <2> QED BY <2>2, <2>3
<1>5. ASSUME NEW i \in 1..Len(transcript'), transcript'[i].role = "assistant"
      PROVE  /\ sent'[transcript'[i].turn] = Chunks
             /\ \E j \in 1..(i - 1) :
                   transcript'[j] = [role |-> "user", turn |-> transcript'[i].turn]
  <2>1. CASE i \in 1..Len(transcript)
    <3>1. transcript'[i] = transcript[i] /\ transcript[i].turn \in Turns
      BY <1>1, <1>2, <2>1
    <3>2. sent[transcript[i].turn] = Chunks
      BY <1>5, <2>1, <3>1 DEF ToldInv, TranscriptTold
    <3>3. PICK j \in 1..(i - 1) : transcript[j] = [role |-> "user", turn |-> transcript[i].turn]
      BY <1>5, <2>1, <3>1 DEF ToldInv, TranscriptTold
    <3>4. transcript'[j] = transcript[j]
      BY <1>1, <2>1
    <3>5. sent'[transcript[i].turn] = Chunks
      BY <3>1, <3>2, ToldTask
    <3> QED BY <3>1, <3>3, <3>4, <3>5
  <2>2. CASE i \notin 1..Len(transcript)
    <3>1. /\ i = Len(transcript) + 1 /\ sent'[transcript'[i].turn] = Chunks
          /\ Asked(transcript'[i].turn)
      BY <1>3, <1>5, <2>2
    <3>2. PICK j \in 1..Len(transcript) :
                transcript[j] = [role |-> "user", turn |-> transcript'[i].turn]
      BY <3>1 DEF Asked
    <3>3. j \in 1..(i - 1) /\ transcript'[j] = transcript[j]
      BY <1>1, <3>1
    <3> QED BY <3>1, <3>2, <3>3
  <2> QED BY <2>1, <2>2
<1>6. TranscriptTold'
  BY <1>4, <1>5 DEF TranscriptTold
<1>7. ASSUME NEW u \in Turns, (Placed(u) /\ work[u] # "inside" /\ stage[u] # "telling")'
      PROVE  Asked(u)'
  <2>1. CASE Asked(u)
    BY <1>1, <2>1 DEF Asked
  <2>2. CASE StoreUtterance(u)
    <3> DEFINE r == [role |-> "user", turn |-> u]
    <3>1. transcript' = Append(transcript, r) /\ r \in Rows /\ transcript \in Seq(Rows)
      BY <2>2, CallTypes DEF StoreUtterance, Rows
    <3> HIDE DEF r
    <3>2. transcript'[Len(transcript) + 1] = r /\ Len(transcript') = Len(transcript) + 1
      BY <3>1, Appended
    <3>3. Len(transcript) + 1 \in 1..Len(transcript')
      BY <1>1, <3>2
    <3> QED BY <3>2, <3>3 DEF Asked, r
  <2> QED BY <1>7, <2>1, <2>2, ToldTask
<1>8. \A t \in Turns : stage'[t] = "finishing" => sent'[t] = Chunks
  BY ToldTask
<1> QED BY <1>6, <1>7, <1>8 DEF ToldInv

\* An utterance on its way was on its way, or is said now.
LEMMA NewMessage ==
    ASSUME CallInv, [Next]_vars, NEW i \in 1..Len(inbox'), IsUtterance(i)'
    PROVE  \/ \E j \in 1..Len(inbox) : inbox'[i] = inbox[j]
           \/ /\ Say
              /\ inbox'[i].turn = spoken + 1 /\ inbox'[i].conversation = conversationRef
<1> DEFINE Goal == \/ \E j \in 1..Len(inbox) : inbox'[i] = inbox[j]
                   \/ /\ Say
                      /\ inbox'[i].turn = spoken + 1 /\ inbox'[i].conversation = conversationRef
<1>1. inbox \in Seq(Messages) /\ Len(inbox) \in Nat
  BY DEF CallInv, Typed, TypeOK, Messages
<1>2. CASE inbox' = inbox
  BY <1>2
<1>3. CASE inbox' = <<>>
  BY <1>3
<1>4. CASE inbox # <<>> /\ inbox' = Tail(inbox)
  BY <1>1, <1>4, HeadTailProperties
<1>5. CASE \E n \in 0..Len(inbox) : inbox' = SubSeq(inbox, 1, n)
  <2>1. PICK n \in 0..Len(inbox) : inbox' = SubSeq(inbox, 1, n)
    BY <1>5
  <2>2. i + 1 - 1 \in 1..n /\ inbox'[i] = inbox[i + 1 - 1]
    BY <1>1, <2>1, Part
  <2> QED BY <2>2
<1>6. ASSUME NEW m \in Messages, inbox' = Append(inbox, m),
             IF m.kind = "utterance_text"
             THEN Say /\ m.turn = spoken + 1 /\ m.conversation = conversationRef
             ELSE TRUE
      PROVE  Goal
  <2>1. /\ Len(inbox') = Len(inbox) + 1 /\ inbox'[Len(inbox) + 1] = m
        /\ \A j \in 1..Len(inbox) : inbox'[j] = inbox[j]
    BY <1>1, <1>6, Appended
  <2>2. i \in 1..Len(inbox) \/ i = Len(inbox) + 1
    BY <1>1, <2>1
  <2> QED BY <1>6, <2>1, <2>2 DEF IsUtterance
<1>7. CASE Say
  <2> DEFINE m == [kind |-> "utterance_text", turn |-> spoken + 1, conversation |-> conversationRef]
  <2>1. spoken + 1 \in Turns
    BY <1>7 DEF CallInv, Typed, TypeOK, Say, Turns
  <2>2. m \in Messages /\ m.turn = spoken + 1 /\ m.conversation = conversationRef
    BY <2>1, CallTypes DEF Messages
  <2>3. inbox' = inbox \/ inbox' = Append(inbox, m)
    BY <1>7 DEF Say, ToServer
  <2> HIDE DEF m
  <2> QED BY <1>2, <1>6, <1>7, <2>2, <2>3
<1>8. CASE StartListening
  <2> DEFINE m == [kind |-> "barge_in"]
  <2>1. m \in Messages /\ m.kind # "utterance_text"
    BY DEF Messages
  <2>2. inbox' = inbox \/ inbox' = Append(inbox, m)
    BY <1>8 DEF StartListening, ToServer
  <2> HIDE DEF m
  <2> QED BY <1>2, <1>6, <2>1, <2>2
<1>9. \/ inbox' = inbox \/ inbox' = <<>> \/ (inbox # <<>> /\ inbox' = Tail(inbox))
      \/ (\E n \in 0..Len(inbox) : inbox' = SubSeq(inbox, 1, n)) \/ Say \/ StartListening
  BY DEF Next, Open, NothingHeard, ChunkOver, Disconnect, Receive, ReceiveAudio,
     ReceiveInterrupted, ReceiveDone, Render, Effect, BargeIn, Admit, Leave, Step, Transcribe,
     Enter, StoreUtterance, Planned, WorkFails, Speak, Send, Finish, StoreAnswer, Stored, Tell,
     Raise, Unwind, vars, socket
<1> QED BY <1>2, <1>3, <1>4, <1>5, <1>7, <1>8, <1>9

\* What the page does to a bubble, to the utterances and to the name of the conversation.
LEMMA PageMoves ==
    ASSUME [Next]_vars
    PROVE  /\ \/ ReceiveDone
              \/ /\ ended' = ended /\ conversation' = conversation
                 /\ \/ spoken' = spoken /\ active' = active
                    \/ Say /\ spoken' = spoken + 1 /\ active' = spoken'
           /\ \/ /\ Say /\ UNCHANGED <<rendered, conversationRef>>
                 /\ unnamed' = IF conversationRef = None THEN spoken' ELSE unnamed
              \/ /\ spoken' = spoken /\ unnamed' = unnamed
                 /\ \/ UNCHANGED <<rendered, conversationRef>>
                    \/ rendered' = conversation /\ conversationRef' = rendered
                    \/ rendered' = rendered /\ conversationRef' = rendered
<1>1. CASE Say
  BY <1>1 DEF Say
<1>2. CASE StartListening \/ NothingHeard \/ ChunkOver \/ Render \/ Effect
  BY <1>2 DEF StartListening, NothingHeard, ChunkOver, Render, Effect, page
<1>3. CASE ReceiveAudio \/ ReceiveInterrupted
  <2>1. ended' = ended /\ active' = active /\ UNCHANGED page
    BY <1>3 DEF ReceiveAudio, ReceiveInterrupted
  <2>2. Receive("audio") \/ Receive("interrupted")
    BY <1>3 DEF ReceiveAudio, ReceiveInterrupted
  <2>3. spoken' = spoken
    BY <2>2 DEF Receive
  <2> QED BY <2>1, <2>3 DEF page
<1>4. CASE ReceiveDone
  BY <1>4 DEF ReceiveDone, Receive
<1>5. CASE Open \/ Disconnect \/ BargeIn \/ Admit \/ Leave \/ \E t \in Turns : Step(t)
  <2>1. UNCHANGED browser
    BY <1>5, Zenon DEF Open, Disconnect, BargeIn, Admit, Leave, Step, Transcribe, Enter,
       StoreUtterance, Planned, WorkFails, Speak, Send, Finish, StoreAnswer, Stored, Tell, Raise,
       Unwind
  <2> QED BY <2>1 DEF browser, page
<1>6. CASE UNCHANGED vars
  BY <1>6 DEF vars, browser, page
<1> QED BY <1>1, <1>2, <1>3, <1>4, <1>5, <1>6 DEF Next

\* An answer that ends a bubble names the conversation that it is in.
LEMMA DoneArrives ==
    ASSUME CallInv, PlacedInv, ReceiveDone
    PROVE  /\ conversation' # None /\ conversation' \in Nat /\ conversation' <= spoken
           /\ spoken' = spoken /\ active' = None
           /\ \A b \in Turns : ended'[b] = ended[b] \/ (active # None /\ b = active)
<1> DEFINE d == Head(outbox).turn
<1>1. outbox # <<>> /\ Head(outbox).kind = "done"
  BY DEF ReceiveDone, Receive
<1>2. 1 \in 1..Len(outbox) /\ Head(outbox) = outbox[1]
  BY <1>1, CallTypes, HeadTailProperties
<1>3. d \in Turns /\ Known(d)
  BY <1>1, <1>2, CallTypes DEF PlacedInv
<1>4. conv[d] # None /\ conv[d] \in Nat /\ d \in Nat /\ conv[d] <= d /\ d <= task
  BY <1>3, CallTypes DEF PlacedInv, Known
<1>5. task \in Nat /\ spoken \in Nat /\ task <= spoken
  BY CallTypes DEF CallInv, InOrder
<1>6. /\ conversation' = conv[d] /\ spoken' = spoken /\ active' = None
      /\ ended' = IF active = None THEN ended ELSE [ended EXCEPT ![active] = d]
  BY DEF ReceiveDone, Receive
<1>7. \A b \in Turns : ended'[b] = ended[b] \/ (active # None /\ b = active)
  BY <1>6, CallTypes
<1> QED BY <1>4, <1>5, <1>6, <1>7

\* An utterance that was said with a name keeps that; one that is said now has the name there is.
LEMMA SettledBefore ==
    ASSUME CallInv, StayInv, [Next]_vars, NEW t \in Turns, Settled(t)'
    PROVE  /\ t <= spoken => Settled(t)
           /\ t = spoken' /\ t > spoken => conversationRef # None
<1>1. t \in Nat /\ spoken \in Nat /\ unnamed \in Nat /\ unnamed <= spoken
  BY CallTypes DEF Turns
<1>2. /\ unnamed' = unnamed \/ (Say /\ spoken' = spoken + 1 /\ unnamed' = spoken'
                                    /\ conversationRef = None)
      /\ spoken' > spoken => Say /\ unnamed' = IF conversationRef = None THEN spoken' ELSE unnamed
  <2>1. Say => spoken' = spoken + 1
    BY DEF Say
  <2> QED BY <1>1, <2>1, PageMoves
<1> QED BY <1>1, <1>2 DEF Settled

LEMMA StayNext ==
    ASSUME CallInv, PlacedInv, StayInv, [Next]_vars
    PROVE  StayInv'
<1>1. /\ spoken \in Nat /\ conversation \in Nat /\ task \in Nat /\ None = 0 /\ task <= spoken
      /\ rendered \in Nat /\ conversationRef \in Nat /\ unnamed \in Nat /\ unnamed <= spoken
      /\ conversation <= spoken /\ active \in {None, spoken}
      /\ \A b \in Turns : b \in Nat /\ b > 0
  BY CallTypes DEF CallInv, InOrder, StayInv, Turns
<1>2. /\ spoken' \in Nat /\ spoken <= spoken'
      /\ active' \in {None, spoken'} /\ conversation' <= spoken'
      /\ conversation # None => conversation' # None
  BY <1>1, PageMoves, DoneArrives
<1>3. /\ rendered' <= spoken' /\ conversationRef' <= spoken'
      /\ conversationRef' # None => rendered' # None
      /\ rendered' # None => conversation' # None
      /\ conversationRef' = None => unnamed' = spoken'
  BY <1>1, <1>2, PageMoves DEF StayInv
<1>4. ASSUME NEW b \in Turns, ended'[b] # None
      PROVE  b <= spoken'
  <2>1. CASE ended'[b] = ended[b]
    BY <1>1, <1>2, <1>4, <2>1 DEF StayInv
  <2>2. CASE ended'[b] # ended[b]
    <3>1. ReceiveDone
      BY <2>2, PageMoves
    <3> QED BY <1>1, <2>2, <3>1, DoneArrives
  <2> QED BY <2>1, <2>2
<1>5. ASSUME NEW i \in 1..Len(inbox'), IsUtterance(i)'
      PROVE  /\ inbox'[i].conversation < inbox'[i].turn
             /\ Settled(inbox[i].turn)' => inbox'[i].conversation # None
  <2>1. CASE \E j \in 1..Len(inbox) : inbox'[i] = inbox[j]
    <3>1. PICK j \in 1..Len(inbox) : inbox'[i] = inbox[j]
      BY <2>1
    <3>2. IsUtterance(j)
      BY <1>5, <3>1 DEF IsUtterance
    <3>3. inbox[j].turn \in Turns /\ inbox[j].turn <= spoken
      <4>1. inbox[j] \in Messages
        BY ElementOfSeq DEF CallInv, Typed, TypeOK, Messages
      <4> QED BY <3>2, <4>1, Utterance DEF CallInv, InOrder, IsUtterance
    <3>4. /\ inbox[j].conversation < inbox[j].turn
          /\ Settled(inbox[j].turn) => inbox[j].conversation # None
      BY <3>2 DEF StayInv
    <3>5. PICK t \in Turns : t = inbox[j].turn
      BY <3>3
    <3>6. Settled(t)' => Settled(t)
      BY <3>3, <3>5, SettledBefore
    <3>7. Settled(inbox[i].turn)' => Settled(t)'
      BY <3>1, <3>5 DEF Settled
    <3> QED BY <3>1, <3>4, <3>5, <3>6, <3>7
  <2>2. CASE Say /\ inbox'[i].turn = spoken + 1 /\ inbox'[i].conversation = conversationRef
    <3>1. spoken + 1 \in Turns /\ spoken' = spoken + 1
      BY <2>2 DEF CallInv, Typed, TypeOK, Say, Turns
    <3>2. PICK t \in Turns : t = spoken + 1
      BY <3>1
    <3>3. Settled(t)' => conversationRef # None
      BY <1>1, <3>1, <3>2, SettledBefore
    <3>4. Settled(inbox[i].turn)' => Settled(t)'
      BY <2>2, <3>2 DEF Settled
    <3> QED BY <1>1, <2>2, <3>3, <3>4 DEF StayInv
  <2> QED BY <1>5, <2>1, <2>2, NewMessage
<1>6. ASSUME NEW t \in Turns, Settled(t)'
      PROVE  conv'[t] # t /\ (stage'[t] # "none" => conv'[t] # None)
  <2>1. CASE t > spoken
    <3>1. stage[t] = "none" /\ conv[t] = None
      BY <1>1, <2>1 DEF CallInv, NotYet, PlacedInv
    <3>2. ~(Admit /\ t = Head(inbox).turn)
      BY <1>1, <2>1, TakenUp
    <3>3. ~Step(t)
      BY <3>1, TaskStep DEF PlacedInv
    <3> QED BY <1>1, <3>1, <3>2, <3>3, AtTask
  <2>2. CASE t <= spoken
    <3>1. Settled(t)
      BY <1>6, <2>2, SettledBefore
    <3>2. conv[t] # t /\ (stage[t] # "none" => conv[t] # None)
      BY <3>1 DEF StayInv
    <3>3. CASE Admit /\ t = Head(inbox).turn
      <4>1. conv'[t] = Named(Head(inbox)) /\ Named(Head(inbox)) \in Nat
            /\ Named(Head(inbox)) < t /\ Named(Head(inbox)) # None
        BY <3>1, <3>3, TakenUp, NamedBefore
      <4> QED BY <1>1, <4>1
    <3>4. CASE Step(t)
      <4>1. stage[t] # "none" /\ (conv[t] # None => conv'[t] = conv[t])
        BY <3>4, TaskStep DEF PlacedInv
      <4> QED BY <3>2, <4>1
    <3> QED BY <3>2, <3>3, <3>4, AtTask
  <2> QED BY <1>1, <2>1, <2>2
<1>7. \A i \in 1..Len(inbox') : IsUtterance(i)' =>
         /\ inbox'[i].conversation < inbox'[i].turn
         /\ Settled(inbox[i].turn)' => inbox'[i].conversation # None
  BY <1>5
<1> QED BY <1>2, <1>3, <1>4, <1>6, <1>7 DEF StayInv

-----------------------------------------------------------------------------
HeldInv == PlacedInv /\ ToldInv /\ StayInv

LEMMA HeldInit == Init => HeldInv
<1> SUFFICES ASSUME Init
             PROVE  HeldInv
  OBVIOUS
<1>1. /\ \A t \in Turns : /\ stage[t] = "none" /\ work[t] = "none" /\ conv[t] = 0 /\ ended[t] = None
                          /\ t \in Nat /\ t > 0
      /\ named = 0 /\ task = 0 /\ None = 0 /\ active = None /\ conversation = 0 /\ spoken = 0
      /\ rendered = 0 /\ conversationRef = 0 /\ unnamed = 0
      /\ Len(inbox) = 0 /\ Len(outbox) = 0 /\ Len(transcript) = 0
  BY DEF Init, None, Turns
<1>2. PlacedInv
  BY <1>1 DEF PlacedInv, Fits, Placed
<1>3. ToldInv
  BY <1>1 DEF ToldInv, TranscriptTold, Placed
<1>4. StayInv
  BY <1>1 DEF StayInv
<1> QED BY <1>2, <1>3, <1>4 DEF HeldInv

LEMMA HeldNext == CallInv /\ HeldInv /\ [Next]_vars => HeldInv'
  BY PlacedNext, ToldNext, StayNext DEF HeldInv

(***************************************************************************)
(* The transcript tells the conversation in the order it was held, but for *)
(* an interrupted turn, and holds no answer that was not sent in full.     *)
(***************************************************************************)
THEOREM ToldInOrder == Spec => []TranscriptTold
<1>1. HeldInv => TranscriptTold
  BY DEF HeldInv, ToldInv
<1> QED BY CallInit, CallNext, HeldInit, HeldNext, <1>1, PTL DEF Spec

(***************************************************************************)
(* Once the page has put a name into conversationIdRef, nothing that is    *)
(* said begins another conversation.                                       *)
(***************************************************************************)
THEOREM GoesOn == Spec => []SettlesInConversation
<1>1. CallInv /\ HeldInv => SettlesInConversation
  <2> SUFFICES ASSUME CallInv, HeldInv, NEW t \in Turns, conv[t] = t
               PROVE  t <= unnamed
    BY DEF SettlesInConversation
  <2>1. t \in Nat /\ unnamed \in Nat /\ ~Settled(t)
    BY CallTypes DEF HeldInv, StayInv, Turns
  <2> QED BY <2>1 DEF Settled
<1> QED BY CallInit, CallNext, HeldInit, HeldNext, <1>1, PTL DEF Spec

-----------------------------------------------------------------------------
(***************************************************************************)
(* How the page keeps in step.  Answers are told in the order of their     *)
(* utterances, since only the last task is not stopped; what was said and  *)
(* has come through is a stretch without gaps, up to the last word for as  *)
(* long as the line is up.                                                 *)
(***************************************************************************)
IsDone(i) == outbox[i].kind = "done"

EndedInv ==
    /\ \A b \in Turns : ended[b] # None =>
          ended[b] <= b /\ ended[b] <= task /\ stage[ended[b]] = "over"
    /\ \A b, c \in Turns : b < c /\ ended[b] # None /\ ended[c] # None => ended[b] < ended[c]
    /\ \A i \in 1..Len(outbox) : IsDone(i) =>
          /\ outbox[i].turn <= task /\ stage[outbox[i].turn] = "over"
          /\ \A b \in Turns : ended[b] # None => ended[b] < outbox[i].turn
    /\ \A i, j \in 1..Len(outbox) : IsDone(i) /\ IsDone(j) /\ i < j => outbox[i].turn < outbox[j].turn

Waiting(t) == \E i \in 1..Len(inbox) : IsUtterance(i) /\ inbox[i].turn = t

Through(t) == stage[t] # "none" \/ Waiting(t)

GapInv ==
    /\ line = "opening" => \A t \in Turns : ~Through(t)
    /\ \A t, u, v \in Turns : t < u /\ u < v /\ Through(t) /\ Through(v) => Through(u)
    /\ line = "up" => \A t, u \in Turns : t < u /\ u <= spoken /\ Through(t) => Through(u)

\* A task that is over or not begun stays so, unless its utterance is taken up.
LEMMA OverStays ==
    ASSUME CallInv, PlacedInv, [Next]_vars, NEW t \in Turns
    PROVE  /\ stage[t] = "over" => stage'[t] = "over"
           /\ stage[t] # "none" => stage'[t] # "none"
<1>1. CASE stage'[t] = stage[t]
  BY <1>1
<1>2. CASE Admit /\ t = Head(inbox).turn
  BY <1>2, TakenUp
<1>3. CASE Step(t)
  BY <1>3, TaskStep DEF PlacedInv
<1> QED BY <1>1, <1>2, <1>3, AtTask

\* The frames after a step are those of before, in their order, or there is one more.
Fewer == \E d \in {0, 1} : \A i \in 1..Len(outbox') :
            i + d \in 1..Len(outbox) /\ outbox'[i] = outbox[i + d]

OneMore ==
    /\ Len(outbox') = Len(outbox) + 1
    /\ \A i \in 1..Len(outbox) : outbox'[i] = outbox[i]
    /\ \/ outbox'[Len(outbox')].kind # "done"
       \/ \E t \in Turns : outbox'[Len(outbox')] = Frame("done", t) /\ Tell(t)

LEMMA DoneFrames == ASSUME CallInv, [Next]_vars PROVE Fewer \/ OneMore
<1>1. outbox \in Seq(Frames) /\ Len(outbox) \in Nat
  BY CallTypes
<1>2. CASE outbox' = outbox \/ outbox' = <<>>
  <2>1. \A i \in 1..Len(outbox') : i + 0 \in 1..Len(outbox) /\ outbox'[i] = outbox[i + 0]
    BY <1>1, <1>2
  <2> QED BY <2>1 DEF Fewer
<1>3. CASE outbox # <<>> /\ outbox' = Tail(outbox)
  <2>1. \A i \in 1..Len(outbox') : i + 1 \in 1..Len(outbox) /\ outbox'[i] = outbox[i + 1]
    BY <1>1, <1>3, HeadTailProperties
  <2> QED BY <2>1 DEF Fewer
<1>4. ASSUME NEW f \in Frames, outbox' = Append(outbox, f),
             f.kind # "done" \/ \E t \in Turns : f = Frame("done", t) /\ Tell(t)
      PROVE  Fewer \/ OneMore
  <2>1. /\ Len(outbox') = Len(outbox) + 1 /\ outbox'[Len(outbox) + 1] = f
        /\ \A j \in 1..Len(outbox) : outbox'[j] = outbox[j]
    BY <1>1, <1>4, Appended
  <2> QED BY <1>4, <2>1 DEF OneMore
<1>5. CASE BargeIn /\ outbox' # outbox
  <2>1. task # None /\ outbox' = Append(outbox, Frame("interrupted", task))
    BY <1>5 DEF BargeIn, ToBrowser
  <2>2. task \in Turns
    BY <2>1 DEF CallInv, Typed, TypeOK
  <2>3. Frame("interrupted", task) \in Frames /\ Frame("interrupted", task).kind # "done"
    BY <2>2 DEF Frame, Frames, Kinds
  <2> QED BY <1>4, <2>1, <2>3
<1>6. ASSUME NEW t \in Turns, Send(t) \/ Tell(t), outbox' # outbox
      PROVE  Fewer \/ OneMore
  <2>1. CASE Send(t)
    <3>1. outbox' = Append(outbox, Frame("audio", t))
      BY <1>6, <2>1 DEF Send, ToBrowser
    <3>2. Frame("audio", t) \in Frames /\ Frame("audio", t).kind # "done"
      BY DEF Frame, Frames, Kinds
    <3> QED BY <1>4, <3>1, <3>2
  <2>2. CASE Tell(t)
    <3>1. outbox' = Append(outbox, Frame("done", t))
      BY <1>6, <2>2 DEF Tell, ToBrowser
    <3>2. Frame("done", t) \in Frames
      BY DEF Frame, Frames, Kinds
    <3> QED BY <1>4, <2>2, <3>1, <3>2
  <2> QED BY <1>6, <2>1, <2>2
<1>7. \/ outbox' = outbox \/ outbox' = <<>> \/ (outbox # <<>> /\ outbox' = Tail(outbox))
      \/ BargeIn \/ \E t \in Turns : Send(t) \/ Tell(t)
  BY DEF Next, Open, StartListening, NothingHeard, Say, ChunkOver, Disconnect, Receive,
     ReceiveAudio, ReceiveInterrupted, ReceiveDone, Render, Effect, Admit, Leave, Step, Transcribe, Enter,
     StoreUtterance, Planned, WorkFails, Speak, Finish, StoreAnswer, Stored, Raise, Unwind, vars,
     socket
<1> QED BY <1>2, <1>3, <1>5, <1>6, <1>7

LEMMA EndedNext ==
    ASSUME CallInv, PlacedInv, StayInv, EndedInv, [Next]_vars
    PROVE  EndedInv'
<1>1. /\ outbox \in Seq(Frames) /\ Len(outbox) \in Nat /\ Turns \subseteq Nat /\ None = 0
      /\ \A i \in 1..Len(outbox) : outbox[i].turn \in Turns
      /\ ended \in [Turns -> Turns \cup {None}] /\ task \in Nat /\ spoken \in Nat
      /\ task <= spoken /\ active \in {None, spoken} /\ active \in Turns \cup {None}
  BY CallTypes DEF StayInv, CallInv, InOrder
<1>2. task' \in Nat /\ task <= task'
  <2>1. CASE Admit
    <3>1. task' = Head(inbox).turn /\ Head(inbox).turn \in Turns /\ task < task'
      BY <2>1, TakenUp
    <3> QED BY <1>1, <3>1
  <2>2. CASE task' = task
    BY <1>1, <2>2
  <2> QED BY <2>1, <2>2, LoopMoves
\* An answer that ends, and what was told of ends before, are over.
<1>3. ASSUME NEW t \in Turns, Tell(t)
      PROVE  /\ t = task /\ stage'[t] = "over" /\ task' = task /\ ended' = ended
             /\ \A u \in Turns : u <= task /\ stage[u] = "over" => u < t
  <2>1. stage[t] = "telling" /\ ~stop[t] /\ task' = task /\ ended' = ended /\ stage'[t] = "over"
    <3>1. /\ stage[t] = "telling" /\ ~stop[t] /\ UNCHANGED <<browser, receiver>>
          /\ stage' = [stage EXCEPT ![t] = "over"] /\ stage \in [Turns -> Stages]
      BY <1>3, CallTypes DEF Tell, Goto
    <3> QED BY <3>1 DEF receiver, browser
  <2>2. t = task
    BY <2>1 DEF CallInv, OneVoice, Running
  <2>3. \A u \in Turns : u <= task /\ stage[u] = "over" => u < t
    BY <1>1, <2>1, <2>2
  <2> QED BY <2>1, <2>2, <2>3
<1>4. CASE ended' = ended
  <2>1. ASSUME NEW b \in Turns, ended'[b] # None
        PROVE  ended'[b] <= b /\ ended'[b] <= task' /\ stage'[ended'[b]] = "over"
    <3>1. ended[b] \in Turns /\ ended[b] <= b /\ ended[b] <= task /\ stage[ended[b]] = "over"
      BY <1>1, <1>4, <2>1 DEF EndedInv
    <3>2. stage'[ended[b]] = "over"
      BY <3>1, OverStays
    <3> QED BY <1>1, <1>2, <1>4, <3>1, <3>2
  <2>2. \A b, c \in Turns : b < c /\ ended'[b] # None /\ ended'[c] # None => ended'[b] < ended'[c]
    BY <1>4 DEF EndedInv
\* A frame that was there.
  <2>3. ASSUME NEW j \in 1..Len(outbox), IsDone(j)
        PROVE  /\ outbox[j].turn \in Turns
               /\ outbox[j].turn <= task /\ stage[outbox[j].turn] = "over"
               /\ outbox[j].turn <= task' /\ stage'[outbox[j].turn] = "over"
               /\ \A b \in Turns : ended'[b] # None => ended'[b] < outbox[j].turn
    <3>1. /\ outbox[j].turn \in Turns /\ outbox[j].turn <= task /\ stage[outbox[j].turn] = "over"
          /\ \A b \in Turns : ended[b] # None => ended[b] < outbox[j].turn
      BY <1>1, <2>3 DEF EndedInv
    <3>2. PICK t \in Turns : t = outbox[j].turn
      BY <3>1
    <3>3. stage'[t] = "over"
      BY <3>1, <3>2, OverStays
    <3>4. t \in Nat /\ t <= task'
      BY <1>1, <1>2, <3>1, <3>2
    <3> QED BY <1>4, <3>1, <3>2, <3>3, <3>4
  <2>4. CASE Fewer
    <3>1. PICK d \in {0, 1} : \A i \in 1..Len(outbox') :
                 i + d \in 1..Len(outbox) /\ outbox'[i] = outbox[i + d]
      BY <2>4 DEF Fewer
    <3>2. ASSUME NEW i \in 1..Len(outbox'), IsDone(i)'
          PROVE  /\ outbox'[i].turn <= task' /\ stage'[outbox'[i].turn] = "over"
                 /\ \A b \in Turns : ended'[b] # None => ended'[b] < outbox'[i].turn
      BY <2>3, <3>1, <3>2 DEF IsDone
    <3>3. ASSUME NEW i \in 1..Len(outbox'), NEW j \in 1..Len(outbox'), IsDone(i)', IsDone(j)', i < j
          PROVE  outbox'[i].turn < outbox'[j].turn
      <4>1. /\ i + d \in 1..Len(outbox) /\ j + d \in 1..Len(outbox) /\ i + d < j + d
            /\ outbox'[i] = outbox[i + d] /\ outbox'[j] = outbox[j + d]
        BY <3>1, <3>3
      <4> QED BY <3>3, <4>1 DEF EndedInv, IsDone
    <3> QED BY <2>1, <2>2, <3>2, <3>3 DEF EndedInv
  <2>5. CASE OneMore
    <3> DEFINE n == Len(outbox) + 1
    <3>1. /\ Len(outbox') = n /\ n \in Nat
          /\ \A i \in 1..Len(outbox) : outbox'[i] = outbox[i]
          /\ \A i \in 1..n : i \in 1..Len(outbox) \/ i = n
      BY <1>1, <2>5 DEF OneMore
    <3>2. ASSUME outbox'[n].kind = "done"
          PROVE  /\ outbox'[n].turn <= task' /\ stage'[outbox'[n].turn] = "over"
                 /\ \A b \in Turns : ended'[b] # None => ended'[b] < outbox'[n].turn
                 /\ \A j \in 1..Len(outbox) : IsDone(j) => outbox[j].turn < outbox'[n].turn
      <4>1. PICK t \in Turns : outbox'[n] = Frame("done", t) /\ Tell(t)
        BY <2>5, <3>1, <3>2 DEF OneMore
      <4>2. outbox'[n].turn = t
        BY <4>1 DEF Frame
      <4>3. /\ t <= task' /\ stage'[t] = "over"
            /\ \A u \in Turns : u <= task /\ stage[u] = "over" => u < t
        BY <1>1, <1>3, <4>1
      <4>4. \A b \in Turns : ended'[b] # None => ended'[b] < t
        BY <1>1, <1>4, <4>3 DEF EndedInv
      <4>5. \A j \in 1..Len(outbox) : IsDone(j) => outbox[j].turn < t
        BY <2>3, <4>3
      <4> QED BY <4>2, <4>3, <4>4, <4>5
    <3> HIDE DEF n
    <3>3. ASSUME NEW i \in 1..Len(outbox'), IsDone(i)'
          PROVE  /\ outbox'[i].turn <= task' /\ stage'[outbox'[i].turn] = "over"
                 /\ \A b \in Turns : ended'[b] # None => ended'[b] < outbox'[i].turn
      BY <2>3, <3>1, <3>2, <3>3 DEF IsDone
    <3>4. ASSUME NEW i \in 1..Len(outbox'), NEW j \in 1..Len(outbox'), IsDone(i)', IsDone(j)', i < j
          PROVE  outbox'[i].turn < outbox'[j].turn
      <4>1. i \in 1..Len(outbox) /\ outbox'[i] = outbox[i]
        BY <1>1, <3>1, <3>4 DEF n
      <4>2. CASE j \in 1..Len(outbox)
        BY <3>1, <3>4, <4>1, <4>2 DEF EndedInv, IsDone
      <4>3. CASE j = n
        BY <3>2, <3>4, <4>1, <4>3 DEF IsDone
      <4> QED BY <3>1, <3>4, <4>2, <4>3
    <3> QED BY <2>1, <2>2, <3>3, <3>4 DEF EndedInv
  <2> QED BY <2>4, <2>5, DoneFrames
<1>5. CASE ReceiveDone /\ ended' # ended
  <2> DEFINE d == Head(outbox).turn
  <2>1. /\ outbox # <<>> /\ outbox' = Tail(outbox) /\ Head(outbox).kind = "done"
        /\ UNCHANGED <<spoken, receiver, tasks>>
    BY <1>5 DEF ReceiveDone, Receive
  <2>2. /\ Head(outbox) = outbox[1] /\ 1 \in 1..Len(outbox) /\ Len(outbox') \in Nat
        /\ \A i \in 1..Len(outbox') : /\ i + 1 \in 1..Len(outbox) /\ 1 < i + 1
                                      /\ outbox'[i] = outbox[i + 1]
    BY <1>1, <2>1, HeadTailProperties
  <2>3. active = spoken /\ active \in Turns /\ ended' = [ended EXCEPT ![active] = d]
    BY <1>1, <1>5 DEF ReceiveDone
  <2>4. /\ d \in Turns /\ d <= task /\ stage[d] = "over"
        /\ \A b \in Turns : ended[b] # None => ended[b] < d
    BY <1>1, <2>1, <2>2 DEF EndedInv, IsDone
  <2>5. task' = task /\ stage' = stage
    BY <2>1 DEF receiver, tasks
  <2> HIDE DEF d
  <2>6. ended'[active] = d /\ \A b \in Turns : b # active => ended'[b] = ended[b]
    BY <1>1, <2>3
  <2>7. \A b \in Turns : ended'[b] # None =>
           ended'[b] <= b /\ ended'[b] <= task' /\ stage'[ended'[b]] = "over"
    BY <1>1, <2>3, <2>4, <2>5, <2>6 DEF EndedInv
  <2>8. ASSUME NEW b \in Turns, NEW c \in Turns, b < c, ended'[b] # None, ended'[c] # None
        PROVE  ended'[b] < ended'[c]
    <3>1. CASE c = active
      BY <1>1, <2>4, <2>6, <2>8, <3>1
    <3>2. CASE c # active
      <4>1. ended'[c] = ended[c] /\ c <= spoken
        BY <2>6, <2>8, <3>2 DEF StayInv
      <4>2. b # active
        BY <1>1, <2>3, <2>8, <4>1
      <4> QED BY <2>6, <2>8, <4>1, <4>2 DEF EndedInv
    <3> QED BY <3>1, <3>2
  <2>9. ASSUME NEW i \in 1..Len(outbox'), IsDone(i)'
        PROVE  /\ outbox'[i].turn <= task' /\ stage'[outbox'[i].turn] = "over"
               /\ \A b \in Turns : ended'[b] # None => ended'[b] < outbox'[i].turn
    <3>1. /\ i + 1 \in 1..Len(outbox) /\ 1 < i + 1 /\ outbox'[i] = outbox[i + 1]
          /\ IsDone(i + 1) /\ IsDone(1)
      BY <2>1, <2>2, <2>9 DEF IsDone
    <3>2. /\ outbox[i + 1].turn <= task /\ stage[outbox[i + 1].turn] = "over"
          /\ \A b \in Turns : ended[b] # None => ended[b] < outbox[i + 1].turn
          /\ d < outbox[i + 1].turn
      BY <2>2, <3>1 DEF EndedInv, d
    <3> QED BY <2>5, <2>6, <3>1, <3>2
  <2>10. ASSUME NEW i \in 1..Len(outbox'), NEW j \in 1..Len(outbox'), IsDone(i)', IsDone(j)', i < j
         PROVE  outbox'[i].turn < outbox'[j].turn
    <3>1. /\ i + 1 \in 1..Len(outbox) /\ j + 1 \in 1..Len(outbox) /\ i + 1 < j + 1
          /\ outbox'[i] = outbox[i + 1] /\ outbox'[j] = outbox[j + 1]
      BY <2>2, <2>10
    <3> QED BY <2>10, <3>1 DEF EndedInv, IsDone
  <2> QED BY <2>7, <2>8, <2>9, <2>10 DEF EndedInv
<1> QED BY <1>4, <1>5, PageMoves

\* The messages after a step: those of before, or the first of them, or all but the first, or none.
LEMMA Messaged ==
    ASSUME CallInv, [Next]_vars
    PROVE  \/ UNCHANGED <<inbox, line>>
           \/ Open \/ Say \/ StartListening \/ BargeIn \/ Admit \/ Disconnect \/ Leave
  BY DEF Next, NothingHeard, ChunkOver, Receive, ReceiveAudio, ReceiveInterrupted, ReceiveDone,
     Render, Effect, Step, Transcribe, Enter, StoreUtterance, Planned, WorkFails, Speak, Send, Finish,
     StoreAnswer, Stored, Tell, Raise, Unwind, vars, socket

\* What has come through stays, unless the line is gone and what is behind it is lost as well.
LEMMA ThroughStays ==
    ASSUME CallInv, PlacedInv, [Next]_vars, NEW t \in Turns, Through(t), ~Through(t)'
    PROVE  line' = "down" /\ \A v \in Turns : Through(v)' => v < t
<1>1. /\ inbox \in Seq(Messages) /\ Len(inbox) \in Nat /\ task \in Nat /\ Turns \subseteq Nat
      /\ \A i \in 1..Len(inbox) : IsUtterance(i) => inbox[i].turn \in Turns
  <2>1. inbox \in Seq(Messages)
    BY DEF CallInv, Typed, TypeOK, Messages
  <2>2. \A i \in 1..Len(inbox) : inbox[i] \in Messages
    BY <2>1, ElementOfSeq
  <2>3. ASSUME NEW i \in 1..Len(inbox), IsUtterance(i) PROVE inbox[i].turn \in Turns
    BY <2>2, <2>3, Utterance DEF IsUtterance
  <2>4. Len(inbox) \in Nat
    BY <2>1
  <2>5. task \in Nat /\ Turns \subseteq Nat
    BY CallTypes
  <2> QED BY <2>1, <2>3, <2>4, <2>5
<1>2. PICK i \in 1..Len(inbox) : IsUtterance(i) /\ inbox[i].turn = t
  <2>1. stage'[t] = "none"
    BY DEF Through
  <2>2. stage[t] = "none"
    BY <2>1, OverStays
  <2> QED BY <2>2 DEF Through, Waiting
<1>3. stage'[t] = "none" /\ ~Waiting(t)' /\ task < t
  BY <1>2 DEF Through, CallInv, InOrder
<1>4. ASSUME NEW k \in 1..Len(inbox'), inbox'[k] = inbox[i]
      PROVE  FALSE
  BY <1>2, <1>3, <1>4 DEF Waiting, IsUtterance
<1>5. CASE inbox' = inbox
  BY <1>2, <1>4, <1>5
<1>6. ASSUME NEW m \in Messages, inbox' = Append(inbox, m)
      PROVE  FALSE
  <2>1. Len(inbox') = Len(inbox) + 1 /\ inbox'[i] = inbox[i]
    BY <1>1, <1>2, <1>6, Appended
  <2> QED BY <1>1, <1>2, <1>4, <2>1
<1>7. CASE Say \/ StartListening
  <2>1. CASE Say
    <3> DEFINE m == [kind |-> "utterance_text", turn |-> spoken + 1,
                     conversation |-> conversationRef]
    <3>1. spoken + 1 \in Turns
      BY <2>1 DEF CallInv, Typed, TypeOK, Say, Turns
    <3>2. m \in Messages
      BY <3>1, CallTypes DEF Messages
    <3>3. inbox' = inbox \/ inbox' = Append(inbox, m)
      BY <2>1 DEF Say, ToServer
    <3> HIDE DEF m
    <3> QED BY <1>5, <1>6, <3>2, <3>3, <1>2, <1>4
  <2>2. CASE StartListening
    <3> DEFINE m == [kind |-> "barge_in"]
    <3>1. m \in Messages
      BY DEF Messages
    <3>2. inbox' = inbox \/ inbox' = Append(inbox, m)
      BY <2>2 DEF StartListening, ToServer
    <3> HIDE DEF m
    <3> QED BY <1>2, <1>4, <1>6, <3>1, <3>2
  <2> QED BY <1>7, <2>1, <2>2
<1>8. CASE BargeIn \/ Admit
  <2>1. inbox # <<>> /\ inbox' = Tail(inbox)
    BY <1>8 DEF BargeIn, Admit
  <2>2. /\ Len(inbox') = Len(inbox) - 1 /\ Head(inbox) = inbox[1]
        /\ \A k \in 1..Len(inbox') : inbox'[k] = inbox[k + 1]
    BY <1>1, <2>1, HeadTailProperties
  <2>3. CASE i = 1
    <3>1. ~BargeIn
      BY <1>2, <2>2, <2>3 DEF BargeIn, IsUtterance
    <3>2. Admit /\ Head(inbox).turn = t
      BY <1>2, <1>8, <2>2, <2>3, <3>1
    <3>3. stage'[t] = "starting"
      BY <3>2, TakenUp
    <3> QED BY <1>3, <3>3
  <2>4. CASE i # 1
    <3>1. i - 1 \in 1..Len(inbox') /\ inbox'[i - 1] = inbox[i]
      BY <1>1, <1>2, <2>2, <2>4
    <3> QED BY <1>4, <3>1
  <2> QED BY <2>3, <2>4
<1>9. CASE Disconnect
  <2>1. PICK n \in 0..Len(inbox) : inbox' = SubSeq(inbox, 1, n)
    BY <1>9 DEF Disconnect
  <2>2. line' = "down" /\ stage' = stage
    BY <1>9 DEF Disconnect, tasks
  <2>3. \A k \in 1..Len(inbox') : k \in 1..n /\ inbox'[k] = inbox[k]
    <3>1. \A k \in 1..Len(inbox') : k + 1 - 1 \in 1..n /\ inbox'[k] = inbox[k + 1 - 1]
      BY <1>1, <2>1, Part
    <3> QED BY <3>1
  <2>4. Len(inbox') = n
    BY <1>1, <2>1
  <2>5. n < i
    BY <1>1, <1>2, <1>4, <2>3, <2>4
  <2>6. ASSUME NEW v \in Turns, Through(v)' PROVE v < t
    <3>1. CASE stage'[v] # "none"
      BY <1>1, <1>3, <2>2, <3>1 DEF CallInv, NotYet
    <3>2. CASE Waiting(v)'
      <4>1. PICK k \in 1..Len(inbox') : IsUtterance(k)' /\ inbox'[k].turn = v
        BY <3>2 DEF Waiting
      <4>2. k \in 1..Len(inbox) /\ k < i /\ IsUtterance(k) /\ inbox[k].turn = v
        BY <1>1, <2>3, <2>5, <4>1 DEF IsUtterance
      <4> QED BY <1>2, <4>2 DEF CallInv, InOrder
    <3> QED BY <2>6, <3>1, <3>2 DEF Through
  <2> QED BY <2>2, <2>6
<1>10. CASE Leave
  <2>1. line' = "down" /\ stage' = stage /\ Len(inbox') = 0
    BY <1>10 DEF Leave, tasks
  <2>2. ASSUME NEW v \in Turns, Through(v)' PROVE v < t
    <3>1. stage[v] # "none"
      BY <2>1, <2>2 DEF Through, Waiting
    <3> QED BY <1>1, <1>3, <3>1 DEF CallInv, NotYet
  <2> QED BY <2>1, <2>2
<1>11. CASE Open
  BY <1>5, <1>11 DEF Open
<1> QED BY <1>5, <1>7, <1>8, <1>9, <1>10, <1>11, Messaged

\* What comes through was through before, or is said now on a line that is up.
LEMMA ThroughBefore ==
    ASSUME CallInv, PlacedInv, [Next]_vars, NEW t \in Turns, Through(t)'
    PROVE  Through(t) \/ (Say /\ t = spoken + 1 /\ line = "up")
<1>1. CASE Waiting(t)'
  <2>1. PICK i \in 1..Len(inbox') : IsUtterance(i)' /\ inbox'[i].turn = t
    BY <1>1 DEF Waiting
  <2>2. CASE \E j \in 1..Len(inbox) : inbox'[i] = inbox[j]
    BY <2>1, <2>2 DEF Through, Waiting, IsUtterance
  <2>3. CASE Say /\ t = spoken + 1
    <3>1. CASE inbox' = inbox
      BY <2>1, <3>1 DEF Through, Waiting, IsUtterance
    <3>2. CASE inbox' # inbox
      BY <2>3, <3>2 DEF Say, ToServer
    <3> QED BY <3>1, <3>2
  <2> QED BY <2>1, <2>2, <2>3, NewMessage
<1>2. CASE stage'[t] # "none"
  <2>1. CASE Admit /\ t = Head(inbox).turn
    BY <2>1, TakenUp DEF Through, Waiting
  <2>2. CASE Step(t)
    BY <2>2, TaskStep DEF PlacedInv, Through
  <2>3. CASE stage'[t] = stage[t]
    BY <1>2, <2>3 DEF Through
  <2> QED BY <2>1, <2>2, <2>3, AtTask
<1> QED BY <1>1, <1>2 DEF Through

LEMMA ThroughSaid == ASSUME CallInv, NEW t \in Turns, Through(t) PROVE t <= spoken
<1>1. t \in Nat /\ task \in Nat /\ spoken \in Nat /\ task <= spoken
  BY CallTypes DEF CallInv, InOrder
<1>2. CASE stage[t] # "none"
  BY <1>1, <1>2 DEF CallInv, NotYet
<1>3. CASE Waiting(t)
  BY <1>3 DEF Waiting, CallInv, InOrder
<1> QED BY <1>2, <1>3 DEF Through

LEMMA GapNext ==
    ASSUME CallInv, PlacedInv, GapInv, [Next]_vars
    PROVE  GapInv'
<1>1. spoken \in Nat /\ Turns \subseteq Nat
  BY CallTypes
<1>2. /\ line' = "opening" => line = "opening"
      /\ line' = "up" => line = "up" \/ line = "opening"
      /\ Say => line' = line
  <2>1. CASE UNCHANGED line
    BY <2>1
  <2>2. CASE Open \/ Say \/ StartListening \/ BargeIn \/ Admit \/ Disconnect \/ Leave
    BY <2>2 DEF Open, Say, StartListening, BargeIn, Admit, Disconnect, Leave
  <2>3. Say => UNCHANGED line
    BY DEF Say
  <2> QED BY <2>1, <2>2, <2>3, Messaged
<1>3. /\ spoken' \in Nat /\ (spoken' = spoken \/ (Say /\ spoken' = spoken + 1))
  <2>1. CASE ReceiveDone
    BY <1>1, <2>1 DEF ReceiveDone, Receive
  <2> QED BY <1>1, <2>1, PageMoves
<1>4. line' = "opening" => \A t \in Turns : ~Through(t)'
  BY <1>2, ThroughBefore DEF GapInv
<1>5. ASSUME NEW t \in Turns, NEW u \in Turns, NEW v \in Turns, t < u, u < v,
             Through(t)', Through(v)'
      PROVE  Through(u)'
  <2>1. Through(t)
    <3>1. CASE Say /\ t = spoken + 1 /\ line = "up"
      <4>1. v # spoken + 1
        BY <1>1, <1>5, <3>1
      <4>2. Through(v)
        BY <1>5, <4>1, ThroughBefore
      <4>3. v <= spoken
        BY <4>2, ThroughSaid
      <4> QED BY <1>1, <1>5, <3>1, <4>3
    <3> QED BY <1>5, <3>1, ThroughBefore
  <2>2. Through(u)
    <3>1. CASE Through(v)
      BY <1>5, <2>1, <3>1 DEF GapInv
    <3>2. CASE Say /\ v = spoken + 1 /\ line = "up"
      <4>1. u <= spoken
        BY <1>1, <1>5, <3>2
      <4> QED BY <1>5, <2>1, <3>2, <4>1 DEF GapInv
    <3> QED BY <1>5, <3>1, <3>2, ThroughBefore
  <2>3. ASSUME ~Through(u)' PROVE FALSE
    <3>1. v < u
      BY <1>5, <2>2, <2>3, ThroughStays
    <3> QED BY <1>1, <1>5, <3>1
  <2> QED BY <2>3
<1>6. ASSUME line' = "up", NEW t \in Turns, NEW u \in Turns, t < u, u <= spoken', Through(t)'
      PROVE  Through(u)'
  <2>1. line = "up"
    <3>1. CASE line = "opening"
      <4>1. ~Through(t)
        BY <3>1 DEF GapInv
      <4> QED BY <1>6, <3>1, <4>1, ThroughBefore
    <3> QED BY <1>2, <1>6, <3>1
  <2>2. CASE u <= spoken
    <3>1. Through(t)
      BY <1>1, <1>6, <2>2, ThroughBefore
    <3>2. Through(u)
      BY <1>6, <2>1, <2>2, <3>1 DEF GapInv
    <3> QED BY <1>6, <3>2, ThroughStays
  <2>3. CASE u > spoken
    <3>1. Say /\ u = spoken + 1
      BY <1>1, <1>3, <1>6, <2>3
    <3> DEFINE m == [kind |-> "utterance_text", turn |-> spoken + 1,
                     conversation |-> conversationRef]
    <3>2. inbox' = Append(inbox, m) /\ m \in Messages /\ m.kind = "utterance_text" /\ m.turn = u
      BY <2>1, <3>1, CallTypes DEF Say, ToServer, Messages
    <3> HIDE DEF m
    <3>3. inbox \in Seq(Messages) /\ Len(inbox) \in Nat
      BY DEF CallInv, Typed, TypeOK, Messages
    <3>4. Len(inbox') = Len(inbox) + 1 /\ inbox'[Len(inbox) + 1] = m
      BY <3>2, <3>3, Appended
    <3>5. Len(inbox) + 1 \in 1..Len(inbox')
      BY <3>3, <3>4
    <3> QED BY <3>2, <3>4, <3>5 DEF Through, Waiting, IsUtterance
  <2> QED BY <1>1, <1>6, <2>2, <2>3
<1> QED BY <1>4, <1>5, <1>6 DEF GapInv

LEMMA StepInit == Init => EndedInv /\ GapInv
<1> SUFFICES ASSUME Init
             PROVE  EndedInv /\ GapInv
  OBVIOUS
<1>1. /\ \A t \in Turns : stage[t] = "none" /\ ended[t] = None
      /\ Len(inbox) = 0 /\ Len(outbox) = 0
  BY DEF Init
<1>2. EndedInv
  BY <1>1 DEF EndedInv
<1>3. \A t \in Turns : ~Through(t)
  BY <1>1 DEF Through, Waiting
<1> QED BY <1>2, <1>3 DEF GapInv

LEMMA StepNext ==
    CallInv /\ HeldInv /\ EndedInv /\ GapInv /\ [Next]_vars => EndedInv' /\ GapInv'
  BY EndedNext, GapNext DEF HeldInv

(***************************************************************************)
(* Bubbles end in the order of the answers, each with an answer to its own *)
(* utterance or an earlier one, and the server takes up what was said      *)
(* without a gap.                                                          *)
(***************************************************************************)
THEOREM InStep == Spec => []AnsweredInStep
<1>1. CallInv /\ EndedInv /\ GapInv => AnsweredInStep
  <2> SUFFICES ASSUME CallInv, EndedInv, GapInv, NEW b \in Turns, NEW c \in Turns, b < c
               PROVE  /\ ended[b] # None => ended[b] <= b
                      /\ ended[b] # None /\ ended[c] # None => ended[b] < ended[c]
                      /\ stage[b] # "none" /\ stage[c] # "none" =>
                            \A u \in (b + 1)..(c - 1) : stage[u] # "none"
    BY DEF AnsweredInStep
  <2>1. ASSUME stage[b] # "none", stage[c] # "none", NEW u \in (b + 1)..(c - 1)
        PROVE  stage[u] # "none"
    <3>1. u \in Turns /\ b < u /\ u < c /\ task \in Nat /\ c \in Nat /\ u \in Nat
      BY CallTypes DEF Turns
    <3>2. Through(b) /\ Through(c)
      BY <2>1 DEF Through
    <3>3. Through(u)
      BY <3>1, <3>2 DEF GapInv
    <3>4. u <= task
      BY <2>1, <3>1 DEF CallInv, NotYet
    <3>5. ~Waiting(u)
      BY <3>1, <3>4 DEF Waiting, CallInv, InOrder
    <3> QED BY <3>3, <3>5 DEF Through
  <2> QED BY <2>1 DEF EndedInv
<1> QED BY CallInit, CallNext, HeldInit, HeldNext, StepInit, StepNext, <1>1, PTL DEF Spec
=============================================================================

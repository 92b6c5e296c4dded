----------------------------- MODULE VoiceCall ------------------------------
(***************************************************************************)
(* One voice call: the browser (useVoice and CustomerPage), the socket's   *)
(* two ordered channels, the server's receive loop (ws_voice) and the      *)
(* response task of each utterance (_run_response), whose database work    *)
(* runs under uninterruptible().                                           *)
(*                                                                         *)
(* An utterance, its task, its answer and its bubble on the page share a   *)
(* number, in the order in which they were said; a conversation is named   *)
(* by the first utterance said in it.                                      *)
(***************************************************************************)
EXTENDS Naturals, Sequences

CONSTANTS
    MaxUtterances,  \* bound: what the caller says in one call
    Chunks          \* chunks of speech in an answer

ASSUME UtterancesAssumption == MaxUtterances \in Nat \ {0}
ASSUME ChunksAssumption == Chunks \in Nat \ {0}

Turns == 1..MaxUtterances

None == 0

VARIABLES
    \* The browser.
    spoken,         \* utterances said so far
    listening,      \* speech recognition is on
    conversation,   \* conversationId, the state of the page
    rendered,       \* conversationId in the last render: the effect's dependency
    conversationRef, \* conversationIdRef.current, which the effect of a render sets
    unnamed,        \* history: the last utterance sent without a conversation
    active,         \* activeAssistantId: the bubble that the answer goes to
    ended,          \* ended[b]: the answer that bubble b ended with
    playing, queue, \* the chunk in the audio element, and those behind it
    acked,          \* history: the last task whose interruption the browser was told of
    \* The socket.
    line,           \* "opening", "up" or "down"
    inbox, outbox,  \* to the server, to the browser
    \* The server.
    loop,           \* the receive loop: "closed" or "receiving"
    named,          \* ws_voice's conversation_id
    task,           \* ws_voice's task: the last one created
    stage,          \* where each task is in _run_response
    stop,           \* cancel() was called on it
    work,           \* the coroutine under uninterruptible()
    conv,           \* the conversation each task works for
    sent,           \* chunks of its answer sent
    transcript      \* the Message rows, in the order of their commits

page == <<conversation, rendered, conversationRef, unnamed>>
browser == <<spoken, listening, page, active, ended, playing, queue, acked>>
socket == <<line, inbox, outbox>>
receiver == <<loop, named, task>>
tasks == <<stage, work, conv, sent, transcript>>
vars == <<browser, socket, receiver, stop, tasks>>

Stages == {"none", "starting", "preparing", "speaking", "finishing", "telling", "over"}

\* Statements of the coroutine may be in flight.
InFlight == {"begun", "inside", "planning", "storing"}

Works == InFlight \cup {"none", "done", "failed"}

Frame(kind, t) == [kind |-> kind, turn |-> t]

Running(t) == stage[t] \notin {"none", "over"}

-----------------------------------------------------------------------------
(***************************************************************************)
(* Faulty variants of the definitions below, each one plausible slip in    *)
(* routes_voice.py or cancellation.py.  No specification uses them.        *)
(***************************************************************************)
\* `supplied and conversation_id`
NamedBoth(m) == IF m.conversation # None THEN named ELSE None

\* The task before it goes on.
AdmitAlongside ==
    /\ loop = "receiving"
    /\ inbox # <<>> /\ Head(inbox).kind = "utterance_text"
    /\ LET m == Head(inbox)
            c == IF m.conversation # None THEN m.conversation ELSE named IN
        /\ named' = c
        /\ task' = m.turn
        /\ stage' = [stage EXCEPT ![m.turn] = "starting"]
        /\ conv' = [conv EXCEPT ![m.turn] = c]
    /\ inbox' = Tail(inbox)
    /\ UNCHANGED <<browser, line, outbox, loop, stop, work, sent, transcript>>

\* The deferred CancelledError is not raised.
SpeakRegardless(t) ==
    /\ stage[t] = "preparing" /\ work[t] = "done"
    /\ stage' = [stage EXCEPT ![t] = "speaking"]
    /\ work' = [work EXCEPT ![t] = "none"]
    /\ stop' = [stop EXCEPT ![t] = FALSE]
    /\ UNCHANGED <<browser, socket, receiver, conv, sent, transcript>>

\* A bare asyncio.shield.
UnwindAtOnce(t) ==
    /\ stop[t] /\ Running(t)
    /\ stage' = [stage EXCEPT ![t] = "over"]
    /\ UNCHANGED <<browser, socket, receiver, stop, work, conv, sent, transcript>>

\* `continue` whether or not the future is done.
UnwindNever(t) ==
    /\ stop[t] /\ Running(t)
    /\ stage[t] \notin {"preparing", "finishing"}
    /\ stage' = [stage EXCEPT ![t] = "over"]
    /\ UNCHANGED <<browser, socket, receiver, stop, work, conv, sent, transcript>>

-----------------------------------------------------------------------------
(***************************************************************************)
(* The browser.                                                            *)
(***************************************************************************)
\* ensureSocket's socket opens.
Open ==
    /\ line = "opening"
    /\ line' = "up"
    /\ loop' = "receiving"
    /\ UNCHANGED <<browser, inbox, outbox, named, task, stop, tasks>>

\* safeSend drops what it cannot send.
ToServer(m) == inbox' = IF line = "up" THEN Append(inbox, m) ELSE inbox

\* recognition.onstart: barge in on what is being played.
StartListening ==
    /\ ~listening
    /\ spoken < MaxUtterances
    /\ line # "down"
    /\ listening' = TRUE
    /\ IF playing # None
       THEN /\ ToServer([kind |-> "barge_in"])
            /\ playing' = None
            /\ queue' = <<>>
       ELSE UNCHANGED <<inbox, playing, queue>>
    /\ UNCHANGED <<spoken, page, active, ended, acked, line, outbox, receiver, stop, tasks>>

\* recognition.onend with nothing recognized.
NothingHeard ==
    /\ listening
    /\ listening' = FALSE
    /\ UNCHANGED <<spoken, page, active, ended, playing, queue, acked, socket,
                   receiver, stop, tasks>>

\* recognition.onresult with a final text: a new bubble, and the utterance goes out.
Say ==
    /\ listening
    /\ listening' = FALSE
    /\ spoken' = spoken + 1
    /\ active' = spoken + 1
    /\ ToServer([kind |-> "utterance_text", turn |-> spoken + 1, conversation |-> conversationRef])
    /\ unnamed' = IF conversationRef = None THEN spoken + 1 ELSE unnamed
    /\ UNCHANGED <<conversation, rendered, conversationRef, ended, playing, queue, acked, line,
                   outbox, receiver, stop, tasks>>

\* playNext; it is called more than once for a chunk that cannot be played (from onerror and from
\* play()) and for one whose play() the next chunk interrupts.
PlayNext(q, n) ==
    /\ playing' = IF Len(q) < n THEN None ELSE q[n]
    /\ queue' = IF Len(q) < n THEN <<>> ELSE SubSeq(q, n + 1, Len(q))

ChunkOver ==
    /\ playing # None
    /\ \E n \in 1..(Len(queue) + 1) : PlayNext(queue, n)
    /\ UNCHANGED <<spoken, listening, page, active, ended, acked, socket, receiver, stop, tasks>>

\* A frame of this kind arrives.
Receive(kind) ==
    /\ line = "up"
    /\ outbox # <<>> /\ Head(outbox).kind = kind
    /\ outbox' = Tail(outbox)
    /\ UNCHANGED <<spoken, listening, line, inbox, receiver, stop, tasks>>

\* enqueueAudio
ReceiveAudio ==
    /\ Receive("audio")
    /\ IF playing = None THEN PlayNext(Append(queue, Head(outbox).turn), 1)
       ELSE queue' = Append(queue, Head(outbox).turn) /\ UNCHANGED playing
    /\ UNCHANGED <<page, active, ended, acked>>

ReceiveInterrupted ==
    /\ Receive("interrupted")
    /\ playing' = None
    /\ queue' = <<>>
    /\ acked' = Head(outbox).turn
    /\ UNCHANGED <<page, active, ended>>

\* onAssistantDone, with finalizeAssistantMessage
ReceiveDone ==
    /\ Receive("done")
    /\ conversation' = conv[Head(outbox).turn]
    /\ ended' = IF active = None THEN ended ELSE [ended EXCEPT ![active] = Head(outbox).turn]
    /\ active' = None
    /\ UNCHANGED <<rendered, conversationRef, unnamed, playing, queue, acked>>

\* React renders the page anew with the conversation; effects that are still due run before it.
Render ==
    /\ rendered # conversation
    /\ rendered' = conversation
    /\ conversationRef' = rendered
    /\ UNCHANGED <<spoken, listening, conversation, unnamed, active, ended, playing, queue, acked,
                   socket, receiver, stop, tasks>>

\* The effect of the render, some time after it.
Effect ==
    /\ conversationRef # rendered
    /\ conversationRef' = rendered
    /\ UNCHANGED <<spoken, listening, conversation, rendered, unnamed, active, ended, playing,
                   queue, acked, socket, receiver, stop, tasks>>

\* The page is closed, the connection refused, or the network fails: of what is on its way to the
\* server some has been received, the rest is lost.
Disconnect ==
    /\ line # "down"
    /\ line' = "down"
    /\ \E n \in 0..Len(inbox) :
          inbox' = SubSeq(inbox, 1, n)
    /\ outbox' = <<>>
    /\ UNCHANGED <<browser, receiver, stop, tasks>>

-----------------------------------------------------------------------------
(***************************************************************************)
(* The receive loop.                                                       *)
(***************************************************************************)
\* `if task and not task.done(): task.cancel()`
Cancelled == IF task # None /\ Running(task) THEN [stop EXCEPT ![task] = TRUE] ELSE stop

\* What is sent after the line went down is lost, and may raise.
ToBrowser(f) == outbox' = IF line = "up" THEN Append(outbox, f) ELSE outbox

BargeIn ==
    /\ loop = "receiving"
    /\ inbox # <<>> /\ Head(inbox).kind = "barge_in"
    /\ inbox' = Tail(inbox)
    /\ stop' = Cancelled
    /\ IF task # None /\ Running(task) THEN ToBrowser(Frame("interrupted", task))
       ELSE UNCHANGED outbox
    /\ UNCHANGED <<browser, line, receiver, tasks>>

\* The conversation the browser named, or else the last one it named.
Named(m) == IF m.conversation # None THEN m.conversation ELSE named

\* An utterance that the rate limiter passes; until it does, the utterance is as good as unread.
Admit ==
    /\ loop = "receiving"
    /\ inbox # <<>> /\ Head(inbox).kind = "utterance_text"
    /\ LET m == Head(inbox) IN
        /\ named' = Named(m)
        /\ task' = m.turn
        /\ stop' = Cancelled
        /\ stage' = [stage EXCEPT ![m.turn] = "starting"]
        /\ conv' = [conv EXCEPT ![m.turn] = Named(m)]
    /\ inbox' = Tail(inbox)
    /\ UNCHANGED <<browser, line, outbox, loop, work, sent, transcript>>

\* The limit, an expired token, or the end of the connection: `finally` cancels the last task.
Leave ==
    /\ loop = "receiving"
    /\ inbox # <<>> \/ line = "down"
    /\ loop' = "closed"
    /\ stop' = Cancelled
    /\ line' = "down"
    /\ inbox' = <<>>
    /\ outbox' = <<>>
    /\ UNCHANGED <<browser, named, task, tasks>>

-----------------------------------------------------------------------------
(***************************************************************************)
(* The response task.                                                      *)
(***************************************************************************)
Goto(t, s) == stage' = [stage EXCEPT ![t] = s]

Does(t, w) == work' = [work EXCEPT ![t] = w]

\* Speech recognition, and the transcript frame, of which the browser makes nothing.
Transcribe(t) ==
    /\ stage[t] = "starting" /\ ~stop[t]
    /\ Goto(t, "preparing")
    /\ Does(t, "begun")
    /\ UNCHANGED <<browser, socket, receiver, stop, conv, sent, transcript>>

\* Whoever is in the session lock of conversation c.
Holders(c) == {t \in Turns : work[t] \in {"inside", "planning"} /\ conv[t] = c}

\* prepare_message: the conversation is there, or created, and its lock is had.
Enter(t) ==
    /\ work[t] = "begun"
    /\ conv[t] # None => Holders(conv[t]) = {}
    /\ Does(t, "inside")
    /\ conv' = [conv EXCEPT ![t] = IF @ = None THEN t ELSE @]
    /\ UNCHANGED <<browser, socket, receiver, stop, stage, sent, transcript>>

StoreUtterance(t) ==
    /\ work[t] = "inside"
    /\ Does(t, "planning")
    /\ transcript' = Append(transcript, [role |-> "user", turn |-> t])
    /\ UNCHANGED <<browser, socket, receiver, stop, stage, conv, sent>>

Planned(t) ==
    /\ work[t] = "planning"
    /\ Does(t, "done")
    /\ UNCHANGED <<browser, socket, receiver, stop, stage, conv, sent, transcript>>

\* No lock in time, no access, a tool or a commit that raises.
WorkFails(t) ==
    /\ work[t] \in InFlight
    /\ Does(t, "failed")
    /\ UNCHANGED <<browser, socket, receiver, stop, stage, conv, sent, transcript>>

\* uninterruptible() returns the result of prepare_message.
Speak(t) ==
    /\ stage[t] = "preparing" /\ work[t] = "done" /\ ~stop[t]
    /\ Goto(t, "speaking")
    /\ Does(t, "none")
    /\ UNCHANGED <<browser, socket, receiver, stop, conv, sent, transcript>>

\* The stream of tokens drives the synthesis; the page only adds them to the text of a bubble.
Send(t) ==
    /\ stage[t] = "speaking" /\ ~stop[t]
    /\ sent[t] < Chunks
    /\ sent' = [sent EXCEPT ![t] = @ + 1]
    /\ ToBrowser(Frame("audio", t))
    /\ UNCHANGED <<browser, line, inbox, receiver, stop, stage, work, conv, transcript>>

\* finish_message begins.
Finish(t) ==
    /\ stage[t] = "speaking" /\ ~stop[t]
    /\ sent[t] = Chunks
    /\ Goto(t, "finishing")
    /\ Does(t, "storing")
    /\ UNCHANGED <<browser, socket, receiver, stop, conv, sent, transcript>>

StoreAnswer(t) ==
    /\ work[t] = "storing"
    /\ Does(t, "done")
    /\ transcript' = Append(transcript, [role |-> "assistant", turn |-> t])
    /\ UNCHANGED <<browser, socket, receiver, stop, stage, conv, sent>>

Stored(t) ==
    /\ stage[t] = "finishing" /\ work[t] = "done" /\ ~stop[t]
    /\ Goto(t, "telling")
    /\ Does(t, "none")
    /\ UNCHANGED <<browser, socket, receiver, stop, conv, sent, transcript>>

Tell(t) ==
    /\ stage[t] = "telling" /\ ~stop[t]
    /\ Goto(t, "over")
    /\ ToBrowser(Frame("done", t))
    /\ UNCHANGED <<browser, line, inbox, receiver, stop, work, conv, sent, transcript>>

\* Speech recognition or synthesis fails, or a frame cannot be sent, or the work did; it is logged.
Raise(t) ==
    /\ \/ stage[t] \in {"starting", "speaking"} /\ ~stop[t]
       \/ stage[t] = "telling" /\ line = "down" /\ ~stop[t]
       \/ stage[t] \in {"preparing", "finishing"} /\ work[t] = "failed"
    /\ Goto(t, "over")
    /\ Does(t, "none")
    /\ UNCHANGED <<browser, socket, receiver, stop, conv, sent, transcript>>

\* The CancelledError gets out: at once, or after the work under uninterruptible() has ended.
Unwind(t) ==
    /\ stop[t] /\ Running(t)
    /\ stage[t] \in {"preparing", "finishing"} => work[t] = "done"
    /\ Goto(t, "over")
    /\ Does(t, "none")
    /\ UNCHANGED <<browser, socket, receiver, stop, conv, sent, transcript>>

-----------------------------------------------------------------------------
Init ==
    /\ spoken = 0 /\ listening = FALSE
    /\ conversation = None /\ rendered = None /\ conversationRef = None /\ unnamed = 0
    /\ active = None
    /\ ended = [t \in Turns |-> None]
    /\ playing = None /\ queue = <<>> /\ acked = None
    /\ line = "opening" /\ inbox = <<>> /\ outbox = <<>>
    /\ loop = "closed" /\ named = None /\ task = None
    /\ stage = [t \in Turns |-> "none"]
    /\ stop = [t \in Turns |-> FALSE]
    /\ work = [t \in Turns |-> "none"]
    /\ conv = [t \in Turns |-> None]
    /\ sent = [t \in Turns |-> 0]
    /\ transcript = <<>>

Step(t) ==
    \/ Transcribe(t) \/ Enter(t) \/ StoreUtterance(t) \/ Planned(t) \/ WorkFails(t) \/ Speak(t)
    \/ Send(t) \/ Finish(t) \/ StoreAnswer(t) \/ Stored(t) \/ Tell(t) \/ Raise(t) \/ Unwind(t)

Next ==
    \/ Open \/ StartListening \/ NothingHeard \/ Say \/ ChunkOver
    \/ ReceiveAudio \/ ReceiveInterrupted \/ ReceiveDone \/ Render \/ Effect
    \/ Disconnect
    \/ BargeIn \/ Admit \/ Leave
    \/ \E t \in Turns : Step(t)

Spec == Init /\ [][Next]_vars

(***************************************************************************)
(* The event loop does not idle while a task is ready; providers and       *)
(* statements end, one way or another (they have timeouts).                *)
(***************************************************************************)
Fairness == WF_vars(\E t \in Turns : Step(t))

FairSpec == Spec /\ Fairness

-----------------------------------------------------------------------------
Kinds == {"audio", "done", "interrupted"}

TypeOK ==
    /\ spoken \in 0..MaxUtterances /\ listening \in BOOLEAN
    /\ {conversation, rendered, conversationRef, active, playing, acked, named, task}
          \subseteq Turns \cup {None}
    /\ unnamed \in 0..spoken
    /\ ended \in [Turns -> Turns \cup {None}]
    /\ queue \in Seq(Turns)
    /\ line \in {"opening", "up", "down"}
    /\ inbox \in Seq([kind : {"barge_in"}]
                     \cup [kind : {"utterance_text"}, turn : Turns, conversation : Turns \cup {None}])
    /\ outbox \in Seq([kind : Kinds, turn : Turns])
    /\ loop \in {"closed", "receiving"}
    /\ stage \in [Turns -> Stages]
    /\ stop \in [Turns -> BOOLEAN]
    /\ work \in [Turns -> Works]
    /\ conv \in [Turns -> Turns \cup {None}]
    /\ sent \in [Turns -> 0..Chunks]
    /\ transcript \in Seq([role : {"user", "assistant"}, turn : Turns])

(***************************************************************************)
(* No cancellation leaves a statement in flight on a database session that *)
(* is closed (`it just never abandons a statement mid-flight`,             *)
(* docs/voice-pipeline.md).                                                *)
(***************************************************************************)
StatementsDrained == \A t \in Turns : work[t] \in InFlight => stage[t] \in {"preparing", "finishing"}

(***************************************************************************)
(* However utterances, interruptions and the end of the call fall, at most *)
(* one answer is on its way to the caller: the last one, as long as        *)
(* somebody listens for an interruption.                                   *)
(***************************************************************************)
OneVoice == \A t \in Turns : Running(t) /\ ~stop[t] => t = task /\ loop # "closed"

(***************************************************************************)
(* Once the browser was told that an answer is interrupted, nothing of it  *)
(* or of an earlier one is played, queued or still on its way.             *)
(***************************************************************************)
InterruptedIsFinal ==
    acked # None =>
        /\ playing # None => playing > acked
        /\ \A i \in 1..Len(queue) : queue[i] > acked
        /\ \A i \in 1..Len(outbox) : outbox[i].kind = "interrupted" \/ outbox[i].turn > acked

(***************************************************************************)
(* The transcript tells the conversation in the order it was held, except  *)
(* that an interrupted turn may come late; and it holds no answer that the *)
(* caller was not sent in full.                                            *)
(***************************************************************************)
TranscriptTold ==
    \A i \in 1..Len(transcript) :
        /\ \A j \in (i + 1)..Len(transcript) :
              conv[transcript[i].turn] = conv[transcript[j].turn] =>
                  transcript[i].turn <= transcript[j].turn \/ stop[transcript[j].turn]
        /\ transcript[i].role = "assistant" =>
              /\ sent[transcript[i].turn] = Chunks
              /\ \E j \in 1..(i - 1) : transcript[j] = [role |-> "user", turn |-> transcript[i].turn]

(***************************************************************************)
(* The call settles in a conversation: once conversationIdRef has a name,  *)
(* nothing that is said begins another one, whatever utterances without a  *)
(* name are still on their way or waiting for their turn.                  *)
(***************************************************************************)
SettlesInConversation == \A t \in Turns : conv[t] = t => t <= unnamed

(***************************************************************************)
(* The page keeps in step with the answers, although frames carry no turn  *)
(* and what is sent outside the life of the socket is dropped: a bubble is *)
(* ended by the answer to its own utterance or an earlier one, never by    *)
(* one older than an answer shown above it; and the server takes up what   *)
(* was said without a gap.                                                 *)
(***************************************************************************)
AnsweredInStep ==
    \A b, c \in Turns : b < c =>
        /\ ended[b] # None => ended[b] <= b
        /\ ended[b] # None /\ ended[c] # None => ended[b] < ended[c]
        /\ stage[b] # "none" /\ stage[c] # "none" =>
              \A u \in (b + 1)..(c - 1) : stage[u] # "none"

(***************************************************************************)
(* Every utterance that was taken up comes to an end, whatever was         *)
(* cancelled, failed or waits for the lock before it.                      *)
(***************************************************************************)
EveryTurnEnds == \A t \in Turns : []<>~Running(t)

(***************************************************************************)
(* The barge-in `prevents the assistant from talking over the user`        *)
(* (docs/voice-pipeline.md, Barge-in and Interruption): nothing is played  *)
(* while the caller is listened to.                                        *)
(***************************************************************************)
NotTalkedOver == ~(listening /\ playing # None)

(***************************************************************************)
(* What getConversationId is there for (CustomerPage.tsx): a caller who    *)
(* saw an answer end goes on in that conversation.  It does not hold of    *)
(* what is said between the `done` frame and the effect of its render.     *)
(***************************************************************************)
StaysInConversation ==
    \A t \in Turns : (\E b \in 1..(t - 1) : ended[b] # None) => conv[t] # t
=============================================================================

# Formal models of the insurance assistant

This directory holds TLA+ models of the insurance voice and chat assistant in `src/`, the TLC
configurations that check them on small instances, and TLAPS proofs of their main results.
Paths below are relative to `src/`; `api/` stands for `apps/api/insurance_ai/`.

- [1 The system](#1-the-system): components, state, operations, hard behaviours
- [2 The models](#2-the-models): which module stands for which code, and how
- [3 What is checked](#3-what-is-checked): runs, bounds, fairness
- [4 What is proved](#4-what-is-proved)
- [5 Disagreements between the code and its documentation](#5-disagreements-between-the-code-and-its-documentation)
- [6 What is left out](#6-what-is-left-out)
- [7 Plan](#7-plan)

`PROJECT.json` maps every definition to the lines it translates, and lists the runs, the
hazards with the properties that cover them, the faulty variants of definitions with which
each property was seen to fail, and the theorems.

To check a run, `tlc -config Payments.cfg Payments.tla`; to check proofs,
`tlapm Payments_proofs.tla`.

## 1 The system

A FastAPI service answers policyholders by web chat, by a chat socket and by a voice socket.
A message goes through `ConversationService` (`api/api/service.py`), which loads the
conversation's row, enters the session lock, runs the orchestrator
(`api/agents/orchestrator.py`), and leaves the lock; the answer is then streamed from a
language model. Everything runs on asyncio in one process, or in several replicas that share
PostgreSQL and Redis. A step can be interleaved with another at every `await`.

| component | state it keeps | operations | hard behaviour | correct when |
|---|---|---|---|---|
| Session store and lock (`api/security/session.py`) | one `Session` per conversation, with a TTL; one lock per conversation (asyncio.Lock, or a Redis lock with a lease and a blocking timeout) | `get`, `save`, `locked` | interleaved requests, dead replicas, lock timeouts, leases and TTLs that run out inside the block, a save that fails | one turn inside at a time; no stale copy written back; nobody waits for ever |
| Payment by chat (`api/tools/billing.py`, `api/payments/`) | `pending_payment` in the session, `Invoice`, `Payment` rows, the provider's own books | ask, confirm, withdraw, charge, commit | the invoice is read before and written after the provider call; crash or failing commit after the charge; lost answers | the books never claim money that was not taken; a prompt is charged once |
| Model gateway (`api/providers/openai_compat.py`) | `_admitted`, the semaphore, the breaker's failure count, open-until time and probe flag | `complete`, `stream` | cancellation and timeout at each await; calls that end after the breaker opened | no leaked permit, no probe flag left behind, an open breaker is tried again |
| Conversation requests (`api/api/service.py`, `api/api/routes_chat.py`, `api/agents/`) | `Conversation` row, the session, agent steps | chat message, voice text, `/verify` | the row is loaded before the lock; errors half-way; state spread over row and session | verified means proven; a prompt is answered by the reply that follows it; claims and handoffs are neither doubled nor lost |
| Identity verification (`api/security/verification.py`) | attempts, status and customer in the session | `verify_identity` | failed tries also bind; expiry between tries | a session is verified only for a customer of whom a detail was given and is true |
| Escalation (`api/tools/escalation.py`) | tickets, `escalated` in row and session | `transfer_to_human`, `create_support_ticket` | flag written back by other turns from older copies | a handed-over conversation stays flagged |
| Rate limiter (`api/security/rate_limit.py`) | fixed-window buckets in memory (bounded) or Redis | `allow` | full table, window boundaries, Redis down | at most the limit from the opening of a window to its end, hence at most twice the limit in any stretch as long as a window; a caller told to wait is served after it |
| Voice socket (`api/api/routes_voice.py`, `api/db/cancellation.py`) | the last response task, the conversation last named, audio received | audio, text, barge-in, end | a new utterance cancels the task before it at any await; the shielded part runs on | one answer at a time; database work ends before its task does; every turn ends |
| Assistant answer (`finish_message`, grounding check) | `Message` rows | stream, validate, store | stored outside the session lock, after it was sent | what is stored was sent in full, in the order of the conversation |
| Intent detection and the specialists (`api/agents/intent.py`, `specialists.py`, `orchestrator.py`) | entities shared by the specialists of a turn; `pending_claim`, `collecting_claim`, `pending_payment` between turns | `detect`, `augment`, `plan`, `post_process`, `compose`, `validate_grounded_rewrite` | specialists act on what others have resolved; what one does, another's question may hide; the model rewrites the draft | a caller hears only of own records, and of everything put on record |
| Knowledge (`api/rag/`) | files; `KnowledgeDocument`, `DocumentChunk` rows; the advisory lock | `ingest_directory`, `Retriever.search`, rerank | overlapping jobs, files that change after they were listed, failures half-way, settings changed between releases | the base is the image of what the last job read; an exact search finds the best of it, the approximate index nothing but relevant passages |
| Chunking (`api/rag/chunking.py`) | none | `chunk_text` | overlap, separators, hard splits, sizes at the boundary | no text is lost; pieces advance and stay below the limit |
| Numbered records and other writes of tools (`api/tools/`) | `Claim`, `SupportTicket`, `Appointment`, `Customer` rows | `next_number` and the five tools that use it; appointments; contact details | the count and the insert are apart, and nothing is locked | what a caller was told is on file; only a real race fails |
| Identity, origin and socket admission (`api/security/`) | none | token checks | none | - |
| Telephony and payment webhooks | none (stubs) | - | none | - |
| Metrics, middleware | counters | increments | thread lock | - |
| Other providers (speech, embeddings, mock model) | none | - | answers are data | - |
| Data model, seed, configuration, admin, evaluation | schema and read-only listings | - | - | - |
| Web client (`apps/web/src/`) | recognition, audio queue, active bubble, conversation | listen, say, play, barge-in, frames | frames that are on their way when the caller barges in or says more | nothing of an interrupted answer is played; bubbles and answers keep in step; once the page can name its conversation the call stays in it |

How they interact: a request (socket, or HTTP) -> rate limiter and identity -> conversation
row -> session lock -> verification -> orchestrator -> specialists -> tools (which commit rows,
and for a payment call the provider; a search reads the knowledge base) -> row projection ->
session save -> lock release -> language model through the gateway -> `finish_message`. The session is the only state under the lock;
the invoice, the claims, the tickets and the gateway are shared between conversations and are
not protected by it.

## 2 The models

```
 SerialSession  <== refined by ==  SessionUpdates ---- INSTANCE ---> SessionStore
                                                                          ^
 MCConversation -- EXTENDS --> Conversation ---------- INSTANCE ----------+
 FixedWindow    <== refined by ==  RateLimiter  <--- EXTENDS --- MCRateLimiter
 MCRetrieval ---- EXTENDS ---> Retrieval -- EXTENDS --> Knowledge
 MCSpecialists -- EXTENDS ---> Specialists -- EXTENDS --> Records
 MCFollowUps ---- EXTENDS ---> FollowUps ---- EXTENDS --> Records
 MCChunking ----- EXTENDS ---> Chunking
 Payments              ModelGateway         VoiceCall
 SessionUpdates_proofs Conversation_proofs  Payments_proofs   ModelGateway_proofs
 RateLimiter_proofs    VoiceCall_proofs            (EXTENDS theirs, and TLAPS)
 Tools_proofs          (Specialists and FollowUps)
 Rag_proofs            (Chunking, Knowledge and Retrieval)
```

### SessionStore

Both back ends of one conversation's session. `backend` is chosen once. `pc` says where each
request is in `async with sessions.locked(...)`; `stored` is what `get` would return (a fresh
session when there is no record); `lock` is the owner, `Free`, or `Orphan` when the owner's
replica is dead and the lease still runs; `local` is the object a turn mutates.

| action | code |
|---|---|
| `Acquire`, `BlockingTimeout`, `Release` | the lock's `__aenter__` and `__aexit__`; a timed out `acquire` raises in redis-py, asyncio.Lock never times out; a lock no longer owned is left alone |
| `Load`, `LoadFails` | `get` at the start of the block |
| `Save`, `SaveFails` | `finally: await self.save(session)`, which an exception in the block does not skip |
| `LeaseExpires` | `timeout=lock_timeout_seconds`; with `LeaseOutlivesTurn = TRUE` only an orphan's lease runs out |
| `Crash`, `Restart`, `Expire` | a dead replica (Redis), a restarted process (memory), the session TTL |

`MemorySessionStore` hands out the live object, not a copy. Under the lock no request can
tell the difference, so both back ends share `Load` and `Save`. The modules that instantiate
`SessionStore` say what a turn does between `Load` and `Save`:

- **SessionUpdates**: each turn adds one to its own counter. A session is then the multiset
  of the changes it reflects, so that a lost update is a counter that went down.
- **SerialSession** is the abstract promise: an answered request changed the session once, on
  top of everything answered before it; an error may or may not have been applied. The
  mapping (`InEffect`, `Told`) takes the session in effect to be what the turn inside has
  loaded, or else what is stored; without that, a TTL that runs out *under* a turn, whose save
  brings the old content back, would have no serial counterpart.
- **Conversation**: the real turns.

### Payments

Several conversations pay one invoice. `Confirm` checks the balance (`amount > balance`) and
remembers the invoice as read; `ChargeAccepted`, `ChargeRefused` and `ChargeUnheard` (the money
is taken, the answer lost; the code takes it for a failure) are the await of the provider;
`Commit` writes the payment row and, for a success, `amount_paid` as *read plus amount* and the
status (only columns whose value differs from the one read, as the ORM does); `SaveSession`
stores the cleared prompt at the end of the turn. `CommitFails`, `SaveFails` and `Crash` are
allowed by the constant `Faults`. `charged` counts what the provider took, `recorded` the PAID
rows; `mishaps` remembers which of overlap, unrecorded charge and unsaved session happened.
Amounts are whole cents: the code's tolerance on floats is then exact equality.

### ModelGateway

One process's gate. `Arrive` is `_admission` up to the semaphore, `Start` and `Refuse` are
`_before_model_request` once a permit is there, `GiveUp` the queue timeout or a cancellation,
`Complete`, `EndStream`/`CloseStream`, `Fail` and `Cancel` the ways out. The bodies of the two
asyncio locks hold no await, so each is one step with what precedes it. Time is abstract: the
breaker is `closed`, `open`, or `half` once `llm_circuit_recovery_seconds` have passed. The
failure count matters only up to the threshold and is capped there. Retries inside a call
change nothing in the gate.

### Conversation

Chat and voice text (`prepare_message` and the orchestrator) and `POST /verify`, several at
once for one conversation, over `SessionStore`.

- `Ask` loads the row into the turn's `copy` *before* the lock, as the code does, and
  `expire_on_commit=False` means nothing refreshes it.
- `Deny`, `Bind` and `Verify` are what follows the load of the session: the check of the
  session's customer against the authorized one, then the binding.
- `Think` is `Orchestrator.run` up to the agents: dropping or answering a pending payment,
  keeping or leaving a claim in collection, `_maybe_verify`. The regular expressions' verdicts
  on a sentence are an *utterance* record; `MCConversation` lists six sentences with theirs.
- `Charge`, `Prompt`, `Bill`, `Claim`, `Escalate`, `Look` are the agents with the tools they
  run. An agent runs only when it is at the head of `todo`.
- `Sync` is the projection of the session on the row; `Flushed` writes only the columns whose
  value differs from the turn's copy, which is how the ORM writes.
- `Raise`, `ChargeUnwritten`, `EscalateFails`, `SaveLost`, `Unread`, `TurnedAway`, `Die`,
  `DieAll`, `TimeToLiveOver` are what goes wrong; at most `MaxMishaps` per behaviour.

Faithful and perhaps surprising:

- a failed tool commit ends the turn by an exception, although `Tool.run` catches it: the
  rollback expires the conversation object, whose id the log sink then reads;
- a failed verification try binds the session to the candidate, and takes a verified status
  back when it comes through `/verify`;
- the number of a policy counts as a factor of its own; in a session that is bound already, so
  does a number of somebody else's policy, or of none (section 5);
- `/verify` without a token's customer does not take the customer from the row, so after the
  TTL ran out it may verify somebody else than the row names; the properties hold all the same.

### RateLimiter

The two gates of a request: the caller's address, then its principal. `backend` is chosen
once; `table` is `_buckets`, or the counters in Redis.

| action or operator | code |
|---|---|
| `FromAddress` | the HTTP middleware, a socket's admission, the first check of a socket's turn |
| `FromSubject`, `WithoutSubject` | the second check; a request that has no valid token or no principal never reaches it |
| `MemoryHit` | `MemoryRateLimiter.hit`: purge of a full table if the key has no bucket, refusal if it is still full, reopening or counting |
| `RedisHit`, `RedisUnheard` | the script; a failing call, whose script ran or not, answered by `rate_limit_fail_open` |
| `Tick`, `Restart` | the clock; a new process, in memory only |

The body of the memory limiter's lock holds no await, so the lock is never waited for and the
clock read just before it is the one the hit uses: a hit is one step. Times are relative to the
clock (a bucket has so many ticks left), which leaves time itself unbounded. Counts beyond the
limit are alike and capped one above it. Redis's key lives through its last tick and its TTL
reply is rounded to the nearest second (both external), so `Retry-After` can be up to half a
second early there: `AdviceHonoured` is said of the memory limiter only. `between` holds a
pair of address and principal once. **FixedWindow** is the promise: a window opens with the
first pass, lasts its length and lets the limit through; a hit whose answer was lost may use
it up.

### VoiceCall

One voice call end to end. An utterance, its task, its answer and its bubble share a number;
a conversation is named by the first utterance said in it.

| state or action | code |
|---|---|
| `Open`, `ToServer`, `Disconnect` | the hook's socket; `safeSend` drops what it cannot send; of what is on its way when the line fails, the server gets some first part |
| `StartListening`, `NothingHeard`, `Say` | `onstart` (with the barge-in), `onend`, a final `onresult` |
| `PlayNext`, `ChunkOver` | `playNext`, called once more by each chunk that ends, and several times for chunks that fail or are replaced while they start |
| `ReceiveAudio`, `ReceiveInterrupted`, `ReceiveDone` | the frames that change something; tokens, transcripts and metrics are only displayed |
| `Render`, `Effect` | React renders the page with the conversation that a `done` frame has set, and the effect of that render sets `conversationIdRef`, which is what an utterance is sent with (`apps/web/src/pages/CustomerPage.tsx:88`) |
| `BargeIn`, `Admit`, `Leave` | the receive loop; `Admit` is an utterance with its rate limit, `Leave` every way out, with `finally` |
| `stage`, `stop`, `work` | where a task is in `_run_response`, whether `cancel()` was called on it, and how far the coroutine is that it awaits under `uninterruptible()` |
| `Transcribe` ... `Tell` | `_run_response` from await to await; `Enter`, `StoreUtterance`, `Planned` are `prepare_message` under the session lock, `StoreAnswer` is `finish_message` |
| `WorkFails`, `Raise`, `Unwind` | the work fails; the task ends by an exception; the CancelledError gets out: at once, or, in `preparing` and `finishing`, once the work has ended |

A cancelled task takes no step but `Unwind` (or `Raise`, when its work failed): asyncio delivers
the error at the next resumption. Of the page's rendering only that of the conversation matters,
and is apart from the frame that causes it. The lock is the one `SessionUpdates` checks, here only as far as it orders turns of the
same conversation.

### Specialists

One conversation, turn by turn, from the message to what the caller hears. A message is a set
of phrases and the record numbers it names; the phrases are chosen so that each regular
expression of `intent.py` and `specialists.py` matches a message exactly when it matches one of
its phrases, and an expression is the set of phrases it matches. Routing is then computed, not
assumed: `Detected` scores, selects and orders the specialists as `detect` does.

| action | code |
|---|---|
| `Receive` | `Orchestrator.run` up to the specialists: the prompt before it goes, a claim in collection goes on or is left, `_maybe_verify` |
| `Handle` | `Specialist.handle` of the next one: `augment`, `plan`, the tools with their gates and results, `post_process` |
| `Compose`, `Raise` | `compose` with the notice of a verification; a failed commit, which ends the turn in an error before any other specialist has its turn |
| `Render`, `End` | `stream_result`: the model may leave a statement out or add one, and the draft is used when validation finds a difference; the end of the turn |

`entities` is one object for all specialists of a turn, as in the code, so that what billing
resolves is what policy acts on. Rows come in any order. An answer is a set of facts, each about
a record or about none. `meant` (history) says whether a record acted on was named by the
caller or was the only candidate.

### Knowledge and Retrieval

Jobs of `ingest_directory` on PostgreSQL. `List` comes before `Enter`, since the code lists
the directory before it asks for the advisory lock. `Ingest` is the handling of one file: read,
compare fingerprints, embed, replace. What a job has written stays with the job until `Commit`,
because nobody else sees it; `Fail` is any exception or loss, with rollback and release. `Edit`
changes a file at any time. The base may start with documents of a release that kept no
fingerprint. `source` (history) is what the last committed job had read.

`Retrieval` adds `Retriever.search`: an operator on `chunks`, as a search reads them in one
statement. Back ends BM25, cosine in process, and pgvector twice: exact, as for any dimension but
the default, and by the HNSW index that migration 0002 makes for the default one. The index is
approximate and the filters come after it, so it is modelled as returning any of the rows that
pass, at most as many as the pool holds. Filters, threshold, candidate pool, lexical reranking. Similarity and term counts are constants of a piece of text; scores are whole
percentages. `Raises` is the error of the in-process search when a row has another dimension than
the query. `Passages` and `Answers` are the reference: a full ranking of all that should be there.

### Records and FollowUps

`Records` declares the customers and `None`, which the two modules about tools have in common.
Several conversations, each in one tool at a time with its own database session. `Begin` is a
tool that passed its gate, read what it is about and counted; `CommitClaim` and `CommitTicket`
insert under count + 1. `Collide` is the unique index: `Tool.run` swallows the IntegrityError
(`api/tools/base.py:104`), but the session is rolled back and the turn raises at the next use of
a row; `NextTurn` is the caller asking again. `Schedule`, `Revise`, `UpdateContact` are the tools
that write a row in place. Nobody deletes a row while the service runs. `overtaken` and `told`
are history.

### Chunking

`chunk_text` loop by loop over positions: paragraphs are stretches of the text, `blank` its
white space. `Pack` is one paragraph (join, or close the chunk and begin with the stripped tail
of it), `Close` the end of packing, `Keep` and `Cut` the second loop, which cuts up a chunk of more than one
and a half sizes. `current[-0:]`, which Python takes for all of it, is guarded in the code and
in `TailOf`.

History variables (`recent`, `advised` and `verdict` in RateLimiter, `acked` in VoiceCall,
`unnamed` there too, `charged`, `filed`, `begun`, `unsaved`, `ticket`, and in the session `proven`, `unanswered`,
`filings`; `changed` and `meant` in Specialists, `source` and
`overtaken` in Knowledge, `told` and `overtaken` in FollowUps) are read by no guard.

## 3 What is checked

| run | question | bounds | distinct states |
|---|---|---|---|
| SessionUpdates | exclusion, no stale copy, no lost update, serial behaviour, no request waits for ever | 3 turns, 2 changes each, any number of failures | 6,924 |
| Payments | the three ledgers under every failure | 2 conversations, 2 cents due, at most 5 cents taken | 239,618 |
| PaymentsOverlap | *violation*: two conversations pay the same invoice | no failure allowed | - |
| ModelGateway | counters, probe flag, retry, every call ends | 4 calls, 2 permits, queue of 1, threshold 2 | 17,024 |
| Conversation | verification, prompts, claims, handoffs, customer of the row | 2 turns at once, 4 requests, 6 sentences, 2 sets of factors (one with a policy number of nobody), 2 customers, 2 attempts, 1 mishap | 1,545,514 |
| RateLimiter | rate over any stretch, no refusal without cause, true `Retry-After`, fixed windows | 1 address, 2 principals, limits 1 and 2, window of 2 s in half seconds, table of 2, Redis failing anywhere, closed policy | 153,158 |
| VoiceCall | one answer at a time, no torn statement, nothing after an interruption, the transcript's order, bubbles in step, one conversation, every turn ends | 3 utterances, answers of one chunk, failures and disconnection anywhere | 628,729 |
| Specialists | what is heard, and about whom; what is done, and whether it is told | every sequence of messages of 2 phrases (some of 3) and at most a number, 24 phrases, 2 customers, any session at the start, 1 claim to file | 193,269 |
| SpecialistsGuess | *violation*: a record the caller did not choose is acted on | the same | - |
| Retrieval | the base, and what any search of it finds, after any history of jobs | 2 jobs of different settings, 2 files, 2 texts, 3 settings with models of 2 dimensions, 1 edit at any time, failures anywhere | 85,772 |
| FollowUps | collisions, and what callers were told | 3 conversations, 2 customers, 1 claim at the start, at most 2 claims, 2 tickets and 1 appointment | 1,334,784 |
| Chunking | every way of cutting | every text of up to 3 paragraphs of up to 5 characters, sizes 1 to 6, overlaps 0 to 6 | 795,841 |

Properties, and why each could fail:

- `OneTurnInside`, `CopyIsCurrent`, `NoLostUpdate`: depend on the lease, the timeout, and on
  who releases what after a crash. `ImplementsSerialSession` puts them together.
- `EveryRequestEnds`: a dead holder must not block a conversation for ever.
- `InvoiceIsBacked`: overlapping commits and partial failures never make the
  books claim money that was not taken. `PaidWithinDue`: two confirmations that checked the
  same balance still record no more than was due (each writes *read plus amount*).
  `BooksAgree` says exactly what it takes for the ledgers to part: an overlap or an
  unrecorded charge. `OneChargePerPrompt`: only an unsaved session lets a prompt be charged twice.
- `CountersAgree`, `ProbeIsLive`, `BreakerIsRetried`, `EveryCallEnds`: every way out of a
  call gives back what it took.
- `VerifiedIsProven`: "verified" is said of a customer for whom a try passed that held a true
  detail besides the policy number, although sessions are bound, rebound from stale rows and
  forgotten. `NeverRepointed`: a stored session
  that names a customer goes on naming that one until it expires, through binding, failed tries
  and copies of the row that are out of date. `ChargeAnswersPrompt`: a "yes" that comes after something else was
  said charges nothing. `ClaimsWereAskedFor`: details added over several turns file one claim
  per request. `HandoffSticks`: turns that write the flag from an older copy do not clear it.
- `BoundedRate`: twice the limit is the true bound of fixed windows over a stretch as long as
  a window; it fails as soon as a window closes early, a bucket is purged alive, or a count
  starts late. `RefusedForCause`: a full table refuses only while as many others as it holds
  have passed within a window. `AdviceHonoured`: who waits as told is not refused on its own
  account, whatever the rounding. `ImplementsFixedWindow`: expired, purged and replaced
  buckets cannot be told from closed windows.
- `StatementsDrained`: every cancellation, a repeated one too, waits for the work under
  `uninterruptible()`. `OneVoice`: the loop knows only the last task, so a task that nobody
  stopped must be that one, and none once the loop is gone. `InterruptedIsFinal` relates the
  server's order (cancel, then `interrupted`), the channel and the playback queue.
  `TranscriptTold`: rows of overlapping tasks, which queue for the lock or store their answers
  outside it, come in the order of the conversation, except those of interrupted turns, and an
  answer is stored only after all of it was sent. `SettlesInConversation`: once the page's
  reference has a name, nothing that is said begins another conversation, whatever was sent
  without one and still waits. `AnsweredInStep`: frames carry no turn and `safeSend` drops what it
  cannot send; still a bubble ends with the answer to its own utterance or to an earlier one, in
  order, and the server takes up what was said without a gap.
  `EveryTurnEnds`: no cancellation is lost and no lock waited for in a circle.
- `HeardIsOwn`: specialists resolve records from shared entities and several from one message,
  a rewriting may add statements, and the session may be bound but not verified; still nothing
  is heard about a record of somebody else. (Of a number that is nobody's, the draft says only that
  it was not found; a rewriting may keep the number and say something else of it, which validation
  accepts, since the number is in the draft.) `ActionsAreTold`: claims are filed, disputes opened
  and prompts set by one specialist while another asks a question, which replaces no fact, or
  for verification, which replaces all of them. (A handover may be hidden from an unverified
  caller; section 5.) `VerdictIsRecorded` relates "yes" and "no" to the schedules.
- `BaseIsImage`: skipping by fingerprint, replacing, removing and rolling back come to the same
  as ingesting everything into an empty base. `SearchIsTopK` says so of each search that is exact:
  filter, threshold, pool and reranking lose nothing that belongs among the first k, and what is
  skipped or stale in the base is never served. Of the approximate index it says only the last,
  since the index may miss passages. With a server's model of another dimension than the base's
  the search in process must raise and the native one find nothing; of two models of one dimension,
  which nothing in the code tells apart, it says nothing. `SyncedUnlessOvertaken`: the base also matches the
  directory, unless a file was changed since the listing. Another job that commits in between
  does no harm by itself: both have listed the same files. `EveryJobEnds`: the lock is
  given back by every way out of a job, so that none waits for ever.
- `FailsForCause`: a commit collides
  exactly when another one came first. `ToldIsOnFile`: whatever was told to the caller is on
  file, for that conversation and about that claim, across collisions and repeated turns.
- `NothingDropped`, `PiecesGoOn`: stripping, overlap and hard splits lose no character, skip at
  most a paragraph break, repeat at most the overlap, and advance whenever overlap < size.

Are the bounds enough? Three turns give a holder, a waiter and an overtaker; two changes each
let a session move on under somebody who read it. Two conversations and two cents give
partial, whole, overlapping and repeated payments; the invoice admits at most two overlapping
whole charges, and five cents leave room for a retry of each. Two permits, a queue of one and
four calls fill the gate and refuse one; threshold 2 tells "one failure" from "open". Four
requests are the shortest stories with all parts: verify, ask, say something else, say yes;
or verify, begin a claim, add details, add more details. Three keys and two buckets fill the
table; half seconds tell rounding up from rounding down; limits of one and two tell the first
pass from the last. Three utterances are one turn cancelled, one that waits behind it and one
that overtakes both. Messages of two phrases make any two specialists meet in a turn, and the
triples any three that share entities; two claims and two policies of one customer, one of
another and a number of nobody give each gate each answer. Two jobs of different chunk sizes
over a base of an older model skip, replace, remove and overtake; one edit falls anywhere.
Three conversations make two collide under a third, and two rows leave one collision of each
table. Three paragraphs give a chunk with a chunk on either side, six is above the longest
paragraph and five with size one gives hard splits of any number of pieces. The faulty variants of definitions
in each module, which no specification uses, confirm it: every property fails for one of them
within these bounds.

Bounds by name: `MaxUtterances` (VoiceCall), `MaxUpdates` (SessionUpdates), `MaxCharged`
(Payments: no charge once it would pass the bound), `MaxRequests` and `MaxMishaps`
(Conversation), `Second` (RateLimiter: ticks per second), `ClaimNumbers` (Specialists: those
nobody has bound the claims filed), `MaxEdits` (Knowledge), `MaxRows` and `MaxAppointments`
(FollowUps), `MaxParagraphs`, `MaxLength` and `MaxSize` (MCChunking). Runs with a bound on
requests, utterances or rows, Payments, whose invoice is settled in the end, and Retrieval and
Chunking, whose work is done in the end, stop on purpose and check no deadlock;
SessionUpdates, ModelGateway, RateLimiter and Specialists do check it.

Each module states its type invariant, which is a theorem (`TypeCorrect`, `TurnsTypeCorrect`,
`BaseTypeCorrect`). `Conversation.cfg` uses symmetry in the turns,
which appear in no property as individuals, and `RateLimiter.cfg` in the principals of equal
limit; neither checks liveness.

**Fairness** is assumed in four runs only, where liveness is checked:

- `SessionUpdates!Fairness`: a ready task runs (the event loop's own fairness), an orphan's
  lease runs out (Redis key expiry), and a waiter that finds the lock taken again and again is
  answered in the end: by its blocking timeout on Redis (strong fairness: the clock runs
  whether or not the lock is free for a moment), by its turn in memory (asyncio.Lock is
  first-come first-served). On Redis acquiring is only weakly fair, since pollers overtake.
- `ModelGateway!Fairness`: a call at the head of the semaphore goes on, gives up or is refused
  (queue timeout), an active call ends (HTTP timeouts), a stream is closed, the recovery time
  passes, and somebody keeps asking: without callers an open breaker stays as it is.
- `VoiceCall!Fairness`: the event loop does not idle while a task of the call is ready, and
  providers and statements end, with a result or an error (they have timeouts). Nothing is
  assumed of the browser, the network or the caller, nor of one task against another.
- `Knowledge!KSpec`: a job at work goes on or fails (calls of the embedding provider and of the
  database return or raise), and one that waits gets the lock when it stays free. That it may
  fail while it waits is allowed and not relied on.

## 4 What is proved

For every value of the constants that satisfies the named assumptions:

| module | theorem | says |
|---|---|---|
| SessionUpdates_proofs | `TypeCorrect` | the type invariant, whatever the lease |
| | `Exclusion`, `CurrentCopy`, `NothingLost` | `OneTurnInside`, `CopyIsCurrent`, `NoLostUpdate`, if leases outlive turns |
| | `Refinement` | `Spec => ImplementsSerialSession`, if leases outlive turns |
| Payments_proofs | `TypeCorrect`, `WithinDue`, `Backed`, `OncePerPrompt`, `Agreement` | the type invariant, `PaidWithinDue`, `InvoiceIsBacked`, `OneChargePerPrompt`, `BooksAgree`, for any number of conversations, any amount due and any faults |
| ModelGateway_proofs | `TypeCorrect`, `NoLeak`, `ProbeNeverStuck` | the type invariant, `CountersAgree`, `ProbeIsLive`, for any limits and threshold |
| Conversation_proofs | `TypeCorrect`, `VerifiedRightly`, `HandedOver` | the type invariant, `VerifiedIsProven`, `HandoffSticks`, for any requests, sentences, factors and failures, whatever the lease |
| | `KeepsCustomer`, `FiledOnlyAsAsked`, `ChargesAreAnswers` | `NeverRepointed`, `ClaimsWereAskedFor`, `ChargeAnswersPrompt`, if leases outlive turns |
| RateLimiter_proofs | `TypeCorrect`, `NeverOutgrown`, `AdviceTrue` | the type invariant, `TableBounded`, `AdviceHonoured`, for any keys, limits, window, clock and table |
| | `TwiceAtMost`, `NeverEarly` | `BoundedRate` (under the closed policy), `RefusedForCause`, for the same |
| | `Refinement` | `Spec => ImplementsFixedWindow`, under the closed policy |
| VoiceCall_proofs | `TypeCorrect`, `OneSpeaks`, `NothingInFlight`, `HushedForGood` | the type invariant, `OneVoice`, `StatementsDrained`, `InterruptedIsFinal`, for any number of utterances and chunks |
| | `ToldInOrder`, `GoesOn`, `InStep` | `TranscriptTold`, `SettlesInConversation`, `AnsweredInStep`, for the same |
| Tools_proofs (Specialists) | `TurnsTypeCorrect`, `NobodyElsesRecords`, `NothingDoneUntold`, `VerdictsAreTrue` | the type invariant, `HeardIsOwn`, `ActionsAreTold`, `VerdictIsRecorded`, for any messages, records, owners, coverages and sessions at the start |
| Tools_proofs (FollowUps) | `TypeCorrect`, `Density`, `Causes`, `Promises` | the type invariant; `NumbersAreDense`, that the numbers in use are those from 1 on, so that count + 1 is free when it is computed; `FailsForCause`, `ToldIsOnFile`, for any conversations, customers, rows at the start and bounds |
| Rag_proofs (Chunking) | `TypeCorrect`, `Complete`, `Progress` | the type invariant with `WithinText` (counters, chunks and pieces stay within the text), `NothingDropped`, `PiecesGoOn`, for every text, chunk size and overlap |
| Rag_proofs (Knowledge) | `BaseTypeCorrect`, `ImageKept`, `InStepAtCommit` | the type invariant, `BaseIsImage`, `SyncedUnlessOvertaken`, for any files, texts, settings, edits and jobs |
| Rag_proofs (Retrieval) | `FindsTheBest`, `AnySearch` | `SearchIsTopK`, and the same for any number of results (`SearchIsTopKFor`), for any scores, thresholds and pool |

The arguments:

- *Sessions.* None of the three invariants is inductive alone. `IInv` adds `OwnsLock` (who is
  inside owns the lock) and `ChangedOnce` (a running turn's copy is what it read, plus at most
  one change of its own). Exclusion follows from ownership; the stored session is then what
  the turn inside has read, or empty; so its save can only add, and each step maps to a step
  of `SerialSession`. `LeaseOutlivesTurn` is an assumption of these theorems and not of the
  code: section 5 says what happens without it.
- *Payments.* `LedgerInv` adds to the two ledger facts what is known of turns in flight
  (`FlightOK`): the invoice such a turn has read is covered by what is recorded and charged
  now, the amount was within its balance, an accepted charge has been taken. Since a commit
  writes *read plus amount* of one turn, each of these bounds survives other turns' commits.
  `BooksAgree` needs its own invariant, that without overlap a turn in flight has read the
  invoice as it is now.
- *Gateway.* `GateInv` is the type invariant with the two cardinality equations and
  `ProbeIsLive`; the steps rest on what adding or taking one request does to the size of a
  finite set.
- *Conversation.* `CInv` adds to the type invariant what the stored session may be, where in
  its turn a request may stand (`Placed`) and the handoff: a verified session, in the store or
  in a turn's hands, is proven for its own customer. The two action properties also need the
  lock: `LockInv` says who is inside owns it and works on what is stored, so that the prompt
  a turn answers is the stored one. `FiledOnlyAsAsked` counts: `FilingInv` says that the requests
  begun and the sessions lost unsaved cover the claims filed and, besides, one for each request that
  is still open, in the stored session or in the hands of the turn inside. A turn that files takes
  the open one; a save that fails leaves one open that was filed, and `unsaved` pays for it. That a
  turn runs its claims agent once is an assumption on the sentences (`OnceAssumption`), which
  `detect` guarantees (`api/agents/intent.py:335`).
- *Rate limiter.* The table bound is an induction over hits: a purge only takes buckets away,
  and a bucket is added only below the bound. `AdviceHonoured` follows from `Sufficient`, what
  was advised covers what the bucket has left, which rounding up secures. The refinement needs
  that a bucket there is has counted something; a hit then uses its window up by one or
  leaves it alone, and only the first kind passes. `RateInv`, for the rate itself, cuts the passes
  of the last window at the age of the open bucket: those since are what the bucket has counted,
  so at most the limit, and those before came within one window earlier, so at most the limit too;
  a window that opens turns the first kind into the second. `NeverEarly` reads it the other way: a
  bucket that counts to the limit, or is there at all, has passes to show within the window.
- *Voice call.* `CallInv` adds to the types that utterances are taken up once, in their order
  (`InOrder`, `NotYet`), and that only the two shielded stages have work going on (`Shielded`);
  `OneVoice` is then inductive, since `Admit` and `Leave` stop the last task, which is the only
  one not stopped. For `InterruptedIsFinal`, `HushInv` says that the turn an `interrupted` frame
  names, sent or received, is silent with all before it: a frame behind it comes from a task
  that is not stopped, hence from a later turn. For the transcript, `PlacedInv` ties the stage of a
  turn to the conversation it is in, which is that of an earlier utterance or its own, and
  `ToldInv` adds that a turn past its first statement has its question on record, and that an
  answer about to be stored was sent whole: so a row is added in order, whoever is overtaken.
  `StayInv` says that whatever was said after `unnamed`, the last utterance without a name, carries
  one until the server has it, and that the server then opens none. For `AnsweredInStep`,
  `EndedInv` says that the `done` frames on their way are of tasks that are over, in order, and later
  than those that have ended a bubble; `GapInv` that the utterances that reached the server or are
  on their way to it have no gap, and, while the line is up, lack none at the end.
- *Specialists.* `DraftInv` says of the draft what the three properties say of what is heard: each
  fact is about a record of the verified customer (or says that nothing was found), each record that
  was changed has its fact, and "yes" and "no" agree with the schedules. It is inductive over the
  specialists of a turn whatever the entities they share, because each fact comes through a
  gate, which asks the session and not the entities. Composing, and rendering by way of validation,
  then keep it.
- *FollowUps.* `CountInv` says that both tables are dense (their numbers are 1 to some k), and
  that what a conversation has counted is at most the number of rows, and less exactly when it
  has been overtaken. Adding the number after the last keeps a table dense and adds one to its
  size (`DenseGrows`); so a number is taken exactly when the count is out of date. `Promises`
  needs that no step takes a row away or changes whose it is.
- *Chunking.* `CInv` follows the text through the loops: what is packed ends where the last
  paragraph read ends (`PackInv`), each chunk follows the one before it (`ChunkInv`: `Follows`
  bounds how far it may go back and how much it may skip), every paragraph read is in some chunk
  or in `current` (`ReadInv`), and what is cut off is in the pieces (`CutInv`). `NothingDropped`
  is `ReadInv` and `CutInv` at the end.
- *Knowledge.* `BaseInv` says that the rows of each path are exactly the pieces of the text and of
  the settings its document names, by one job (`RowsInv`; documents without a fingerprint are of a
  setting of their release), and of the job that has the lock, what it has read, skipped and
  written, and that documents are still as it found them (`JobInv`). A commit then replaces
  what differs and keeps what has the same fingerprint, hence the same pieces. `InStep` is the part
  of it about the directory: what a job that nobody's edit overtook has listed and read is there.
- *Retrieval.* By `ImageKept` the rows are, but for who wrote them, the passages of the files, one
  for one (`BaredRows`), so scores and filters agree (`ScoresMove`, `MatchingMoves`) and a way of
  taking the n best of the one is a way of taking the n best of the other (`BestMoves`). What is
  left is `BestOfBest`: among the k best of the n best, only what n others score as well as is
  lost to a second order. What the approximate index returns clears the threshold
  (`PoolClears`), which is all that is asked of it; with another dimension no row is near
  (`SearchFindsNothing`).

Besides `LeaseOutlivesTurn`, the theorems assume only the ASSUMEs of the modules, which TLC
evaluates on every run: that None is no customer, that limits are natural numbers, that the texts given to
Chunking are what splitting at blank lines and stripping returns, that the numbers of policies,
claims and invoices differ (they have different prefixes), that a specialist runs once in a turn.

Every invariant and action property that a run checks is thereby also a theorem. Only model-checked
is liveness (`EveryRequestEnds`, `BreakerIsRetried`, `EveryCallEnds`, `EveryTurnEnds`,
`EveryJobEnds`): it needs fairness and ENABLED, which are beyond this prover. The two
disagreements that runs find (section 5) are counterexamples of theirs.

## 5 Disagreements between the code and its documentation

The first two are runs that TLC ends with a counterexample. The next seven were found the same way;
the property each breaks is in its module, and the change to a configuration that shows it is
given. The others were noticed while modelling.

1. **Two conversations can pay more for an invoice than is due** (`PaymentsOverlap`).
   `api/tools/billing.py:95` checks an amount against the invoice it has read and awaits the provider;
   nothing guards the invoice until the commit at `:129`. In the trace 2 cents are due; one
   conversation is charged, and before it has committed the other reads the invoice as unpaid and
   is charged too, together more than 2.
   `docs/production-deployment-plan.md:196` asks that confirmations cannot execute twice.
2. **A record is acted on that nobody chose** (`SpecialistsGuess`). `api/agents/specialists.py:344`
   disputes the first of the caller's claims, in whatever order the database returns them. In the
   trace a caller with two claims says "a dispute" and names none.
   `docs/agent-system.md:74` speaks of "the single relevant policy or claim".
3. **A turn that outlasts its lock lease loses updates** (`SessionUpdates!NoLostUpdate` with
   `LeaseOutlivesTurn = FALSE`). `api/security/session.py:179` saves without asking whether
   the lock is still held, while `docs/security.md` promises no lost updates. The lease is 180 s
   by default; language-model calls are made outside the lock, so it takes a stalled provider or
   database to get there.
4. **A crash between charge and save leaves the prompt answerable** (`Payments!ChargeResolvesPrompt`
   as INVARIANT, one conversation, `Faults = {"crash"}`), against the comment at
   `api/tools/billing.py:116`.
5. **Two recovery probes at once** (`ModelGateway!SingleProbe` as INVARIANT). `_record_failure`
   clears the probe flag whoever failed (`api/providers/openai_compat.py:220`).
6. **The row lags behind the session** (`Conversation!RowMirrorsSession` as INVARIANT,
   `MaxRequests = 3`, `MaxMishaps = 0`). A turn that waited for the lock compares with a row
   loaded before, and writes nothing where its stale copy already agrees (`api/api/service.py:147`).
7. **The caller is talked over** (`VoiceCall!NotTalkedOver` as INVARIANT). The hook barges in only
   on what plays when recognition starts; `enqueueAudio` (`apps/web/src/useVoice.ts:111`) plays
   whatever arrives while the caller speaks. `docs/voice-pipeline.md:45` says that barge-in
   "prevents the assistant from talking over the user".
8. **What is said before the page has rendered begins one more conversation**
   (`VoiceCall!StaysInConversation` as INVARIANT). The hook sends `conversationIdRef.current`, which
   an effect sets after the render that follows the `done` frame
   (`apps/web/src/pages/CustomerPage.tsx:88`); what is said in between goes out without a name.
9. **A factor may count unchecked** (`Conversation!FactorsAreChecked` as INVARIANT).
   `docs/security.md:48` says that each factor is checked against the session-bound customer's
   record, and the comment at `api/security/verification.py:105` that the policy number was proven
   to resolve to this customer. That is so only where the number has chosen the customer: in a session
   bound already, any policy number given counts as a strong factor, somebody else's or nobody's too,
   so that with a true ZIP code it verifies.
10. **The directory is listed before the lock** (`api/rag/ingest.py:23` and `:29`): a job that has
   waited takes away documents that the job before it added. `SyncedUnlessOvertaken`
   without `~overtaken` fails.
11. **After a change of model, the back ends differ** (`api/rag/retriever.py:280`): in process, a
   row of another dimension is an error; on pgvector it is passed over, and the search is empty.
   `SearchIsTopK` has both. Another model of the same dimension is not noticed by any of them.
12. **"No" is said of policies nobody looked at**: when a coverage lookup is refused or fails, the
    answer still is "No - your policy does not include" it (`api/agents/specialists.py:270`).
    `VerdictIsRecorded` speaks only of policies whose coverages were found.
13. **A handover may be silent**: one that is opened in a turn that also asks for verification is
    not told, since the request replaces all facts (`ActionsAreTold` has the exception).
14. **A document search follows a concrete number**: `api/agents/specialists.py:456` says that it
    never does; "why did my premium go up" after a billing lookup does both.
15. **Hard splits have no overlap** (`api/rag/chunking.py:68`), while `docs/rag.md:18` says that
    passages overlap; and nothing requires that the overlap be less than the size.
16. **`next_number` is "collision-free"** (`api/tools/_util.py:16`) for one filing at a time: two
    at once collide, and the later one ends its turn in an error (`FailsForCause`).

## 6 What is left out

- Language: what the model, the speech and the embedding providers make of their input is data.
  Messages of Specialists carry no amounts, explicit dates or one-time codes. Wording, log lines
  and steps shown to the caller are left out.
- `reset` of the stores has no caller outside the tests.
- Voice: audio frames and server-side recognition, malformed messages, which are answered by an
  error (a transcript that is empty or too long still names its conversation and cancels the task
  before it; the hook sends no empty one), the new socket the hook opens after a lost one, and text sent on the
  same page, which sets its conversation too. The effects of a turn under the lock are those of `Conversation`;
  a voice turn is never cancelled under the lock, which is what `StatementsDrained` says.
- The text chat socket beyond its request: one message, one answer, then it is closed.
- `add_claim_information`, which no specialist plans: it rewrites the list of notes, so that one
  of two simultaneous notes is lost (`api/tools/claims.py:119`), and no other state depends on it.
- Knowledge: SQLite, where there is no advisory lock; the cross-encoder; `sanitize`;
  `parse_document`, whose product and category are constants of a text. Seeding, which empties all
  tables, while the service runs.
- Reading rows under concurrent writes in Specialists: a turn there has the database to itself.
  The writes of several conversations are FollowUps and Payments.
- A stream that its consumer abandons between two pieces: the orchestrator drains each one.
- Stateless parts (token checks, webhooks, adapters, schema, pages), and the metrics.

## 7 Plan

Done, in this order: SessionStore with SerialSession (everything else rests on it), Payments,
ModelGateway, Conversation, RateLimiter with FixedWindow, VoiceCall, and the proofs of the six;
then Specialists, Knowledge with Retrieval, FollowUps and Chunking, and the proofs of these.

Next, the most important first:

1. Proofs: what the theorems under `LeaseOutlivesTurn` leave when a lease runs out inside a turn;
   the rate from `FixedWindow` alone, so that `BoundedRate` follows from the refinement.
2. A composition of a turn's rows, its answer and its session in one state.
3. `client_ip` as a pure algorithm; the buffer of audio frames on the voice socket.

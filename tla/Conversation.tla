---------------------------- MODULE Conversation ----------------------------
(***************************************************************************)
(* The requests of one conversation: POST /api/chat and the chat and voice *)
(* sockets (ConversationService.prepare_message and the orchestrator it    *)
(* runs) and POST /api/verify.  Each loads the conversation's row, then    *)
(* enters the session lock of SessionStore, then works on its copy of the  *)
(* session.  The row is loaded before the lock and not again               *)
(* (expire_on_commit=False), so a turn that waited holds a stale copy.     *)
(*                                                                         *)
(* What the regular expressions of agents/intent.py make of a message is   *)
(* data: an utterance is the record of their verdicts.                     *)
(***************************************************************************)
EXTENDS Integers, Sequences

CONSTANTS
    Turns, Free, Orphan, LeaseOutlivesTurn,     \* as in SessionStore
    Customers,
    None,
    Unknown,        \* what stands for a policy number that nobody has
    Principals,     \* the customers, if any, access tokens name
    MaxAttempts,    \* settings.verification_max_attempts
    SinglePolicy,   \* customers for whom _resolve_single_policy finds one
    Utterances,     \* what callers say
    Claims,         \* what callers send to /verify
    MaxRequests,    \* bound: requests in one behaviour
    MaxMishaps      \* bound: errors, crashes, restarts and expiries in one behaviour

ASSUME TurnsAssumption == Free \notin Turns /\ Orphan \notin Turns /\ Free # Orphan
ASSUME BoundsAssumption == MaxRequests \in Nat /\ MaxMishaps \in Nat
ASSUME NoneAssumption == None \notin Customers /\ Unknown \notin Customers \cup {None}
ASSUME PrincipalsAssumption == Principals \subseteq Customers \cup {None}
ASSUME AttemptsAssumption == MaxAttempts \in Nat \ {0}
ASSUME SinglePolicyAssumption == SinglePolicy \subseteq Customers

\* A VerificationClaim: the owner of the policy it names, and how many of its weak (last
\* name, zip) and strong (date of birth, code) factors are true of each customer.
ClaimTypes == [policy : Customers \cup {Unknown, None},
               weak : [Customers -> 0..2], strong : [Customers -> 0..2]]

ASSUME ClaimsAssumption == Claims \subseteq ClaimTypes

Agents == {"billing", "claims", "escalation", "scheduling", "other"}

\* reply: reply_polarity.  proves: _looks_like_verification.  claim: the factors it holds.
\* cancels, files: _CANCEL_RE; _FILE_CLAIM_RE and not _is_conceptual.  detail: has_detail.
\* loss, date: it names a loss, a date of loss.  invoice: whose invoice it asks to pay.
UtteranceTypes == [agents : Seq(Agents), reply : {"affirm", "decline", None},
                   proves : BOOLEAN, claim : ClaimTypes, cancels : BOOLEAN,
                   files : BOOLEAN, detail : BOOLEAN, loss : BOOLEAN, date : BOOLEAN,
                   invoice : Customers \cup {None}]

ASSUME UtterancesAssumption == Utterances \subseteq UtteranceTypes

\* detect names no agent twice; "other" stands for several.
ASSUME OnceAssumption ==
    \A u \in Utterances : \A i, j \in DOMAIN u.agents :
        u.agents[i] = u.agents[j] /\ u.agents[i] # "other" => i = j

VARIABLES
    backend, stored, lock, pc, local, read,     \* SessionStore's
    principal,  \* principal.customer_id of the owner of the conversation
    row,        \* the conversation's committed row
    copy,       \* each turn's copy of it, as loaded or last flushed
    request,    \* what each turn was asked: an utterance or a VerificationClaim
    at,         \* where in the block each turn is
    todo,       \* agents the turn has still to run
    served,     \* requests so far
    mishaps,    \* what went wrong so far
    charged,    \* history: charges taken
    filed,      \* history: claims filed
    begun,      \* history: turns that asked to file a claim
    unsaved,    \* history: turns that filed one and saved no session
    ticket      \* history: a handoff ticket exists

Statuses == {"unverified", "in_progress", "verified", "failed"}

NoClaim == [policy |-> None, loss |-> FALSE, date |-> FALSE]

\* Session.  payment: the owner of the invoice of pending_payment.  collecting and claim:
\* pending_claim.  The rest is history: the customer whose verification passed with a detail of
\* theirs, that nothing but bare replies was said since the payment prompt, and how many claims it has filed.
Fresh == [customer |-> None, status |-> "unverified", attempts |-> 0, escalated |-> FALSE,
          payment |-> None, collecting |-> FALSE, claim |-> NoClaim,
          proven |-> None, unanswered |-> TRUE, filings |-> 0]

INSTANCE SessionStore

store == <<backend, stored, lock, pc, local, read>>
ledger == <<charged, filed, begun, unsaved, ticket>>
turnVars == <<copy, request, at, todo>>
vars == <<store, principal, row, turnVars, served, mishaps, ledger>>

\* Conversation, as get_or_create_conversation adds it for a caller without a customer.
Blank == [customer |-> None, status |-> "unverified", escalated |-> FALSE]

\* "bind": the session was loaded.  "think": bound, the message saved.  "agents":
\* specialists run.  "sync": /verify has its answer.  "done", "raised": leaving.
Steps == {"bind", "think", "agents", "sync", "done", "raised"}

IsChat(t) == request[t] \in Utterances

At(t, step) == pc[t] = "running" /\ at[t] = step

Become(t, session) == local' = [local EXCEPT ![t] = session]

Move(t, step) == at' = [at EXCEPT ![t] = step]

Mishap == mishaps < MaxMishaps /\ mishaps' = mishaps + 1

KeepStore == UNCHANGED <<backend, stored, lock, pc, read>>

-----------------------------------------------------------------------------
(***************************************************************************)
(* Faulty variants of the definitions below, each one plausible slip in    *)
(* the code.  No specification uses them.                                  *)
(***************************************************************************)
\* `session.pending_payment = None` left out of the orchestrator.
PaymentDroppedNever(s, u) == s

\* `ctx.session.pending_claim = None` left out after create_claim.
FiledKept(s) == [s EXCEPT !.filings = @ + 1]

\* The `bound_customer_id` branch left out.
CandidateUnbound(s, claim) == IF claim.policy \in Customers THEN claim.policy ELSE s.customer

\* UPDATE with every column of the copy.
FlushedWhole(t, new) == new

\* The session's customer not compared with the one the request is authorized for.
StrangerNever(t, c) == FALSE

-----------------------------------------------------------------------------
(***************************************************************************)
(* verify_identity.                                                        *)
(***************************************************************************)
\* Two factors, one of them strong.  A policy number counts without a look at whose it is:
\* an unbound session was matched by it, but a bound one takes any.
Passed(claim, c) ==
    LET named == IF claim.policy # None THEN 1 ELSE 0
    IN  /\ named + claim.weak[c] + claim.strong[c] >= 2
        /\ named + claim.strong[c] >= 1

\* _resolve_customer: a bound session verifies against its customer only.
Candidate(s, claim) == IF s.customer # None THEN s.customer ELSE IF claim.policy \in Customers THEN claim.policy ELSE None

\* sess.attempts, counted up to the maximum: attempts_remaining is never below 0.
Tried(s) == IF s.attempts < MaxAttempts THEN s.attempts + 1 ELSE MaxAttempts

\* A failed try binds the candidate too and takes a verified session back.
Verified(s, claim) ==
    LET c == Candidate(s, claim)
        passed == c # None /\ Passed(claim, c)
    IN  [s EXCEPT
            !.attempts = Tried(s),
            !.customer = c,
            !.proven = IF ~passed THEN @
                       ELSE IF claim.weak[c] + claim.strong[c] >= 1 THEN c ELSE None,
            !.status = IF passed THEN "verified"
                       ELSE IF Tried(s) = MaxAttempts THEN "failed" ELSE "in_progress"]

-----------------------------------------------------------------------------
(***************************************************************************)
(* The orchestrator's routing of an utterance, given what is pending.      *)
(***************************************************************************)
\* A bare reply goes to billing; anything else drops the prompt.
PaymentRouted(s, u) ==
    IF s.payment # None /\ u.reply # None THEN <<"billing">> ELSE u.agents

PaymentDropped(s, u) == IF u.reply = None THEN [s EXCEPT !.payment = None] ELSE s

\* A first notice of loss goes on unless cancelled or clearly left.
ClaimLeft(u, agents) ==
    \/ u.cancels
    \/ /\ \E i \in DOMAIN agents : agents[i] \in {"billing", "scheduling", "escalation"}
       /\ ~u.detail

ClaimDropped(s) == [s EXCEPT !.collecting = FALSE, !.claim = NoClaim]

Routed(s, u) ==
    LET agents == PaymentRouted(s, u)
        paid == PaymentDropped(s, u)
        heard == [paid EXCEPT !.unanswered = @ /\ u.reply # None]
    IN  IF ~s.collecting THEN [session |-> heard, agents |-> agents]
        ELSE IF ClaimLeft(u, agents) THEN [session |-> ClaimDropped(heard), agents |-> agents]
        ELSE [session |-> heard, agents |-> <<"claims">>]

\* _maybe_verify: a verified session is left alone.
MaybeVerified(s, u) ==
    IF s.status # "verified" /\ u.proves THEN Verified(s, u.claim) ELSE s

-----------------------------------------------------------------------------
(***************************************************************************)
(* The claims agent's collection of a first notice of loss.                *)
(***************************************************************************)
Filing(s, u) == u.files \/ s.collecting

\* _fnol_fields after augment: this message, the caller's one policy, then what is known.
Fields(s, u) ==
    [policy |-> IF u.claim.policy # None THEN u.claim.policy
                ELSE IF s.status = "verified" /\ s.customer \in SinglePolicy THEN s.customer
                ELSE s.claim.policy,
     loss |-> u.loss \/ s.claim.loss,
     date |-> u.date \/ s.claim.date]

Complete(f) == f.policy # None /\ f.loss /\ f.date

\* create_claim succeeds: the caller is verified and owns the policy.
Accepted(s, f) == Complete(f) /\ s.status = "verified" /\ f.policy = s.customer

\* post_process when nothing was filed.
Collected(s, f) ==
    IF s.status # "verified" THEN ClaimDropped(s)
    ELSE [s EXCEPT !.collecting = TRUE, !.claim = f]

\* post_process when it was.
Filed(s) == [ClaimDropped(s) EXCEPT !.filings = @ + 1]

-----------------------------------------------------------------------------
(***************************************************************************)
(* Writing the row.  The ORM writes the columns whose value differs from   *)
(* the one the turn's copy was loaded or last flushed with.                *)
(***************************************************************************)
Flushed(t, new) ==
    [f \in DOMAIN row |-> IF new[f] = copy[t][f] THEN row[f] ELSE new[f]]

\* What the turn makes of its copy: /verify has no say in `escalated`.
Projected(t) ==
    LET s == local[t]
        old == copy[t]
    IN  [customer |-> IF s.customer # None THEN s.customer ELSE old.customer,
         status |-> s.status,
         escalated |-> old.escalated \/ (IsChat(t) /\ s.escalated)]

-----------------------------------------------------------------------------
Init ==
    /\ StoreInit
    /\ principal \in Principals
    /\ row = [Blank EXCEPT !.customer = principal]
    /\ copy = [t \in Turns |-> Blank]
    /\ request = [t \in Turns |-> None]
    /\ at = [t \in Turns |-> "done"]
    /\ todo = [t \in Turns |-> <<>>]
    /\ served = 0
    /\ mishaps = 0
    /\ charged = 0
    /\ filed = 0
    /\ begun = 0
    /\ unsaved = 0
    /\ ticket = FALSE

\* The row is loaded (get_or_create_conversation, require_conversation), then the lock awaited.
Ask(t, r) ==
    /\ served < MaxRequests
    /\ Enter(t)
    /\ served' = served + 1
    /\ copy' = [copy EXCEPT ![t] = row]
    /\ request' = [request EXCEPT ![t] = r]
    /\ UNCHANGED <<principal, row, at, todo, mishaps, ledger>>

Begin(t) ==
    /\ Load(t)
    /\ Move(t, "bind")
    /\ UNCHANGED <<principal, row, copy, request, todo, served, mishaps, ledger>>

\* The customer a request may act for: /verify goes by the token alone.
Authorized(t) ==
    IF principal = None /\ IsChat(t) THEN copy[t].customer ELSE principal

Stranger(t, c) == c # None /\ local[t].customer \notin {None, c}

\* 403: nothing is done, but leaving the block saves the session.
Deny(t) ==
    /\ At(t, "bind")
    /\ Stranger(t, Authorized(t))
    /\ Move(t, "raised")
    /\ UNCHANGED <<store, principal, row, copy, request, todo, served, mishaps, ledger>>

Bound(t) ==
    IF Authorized(t) = None THEN local[t] ELSE [local[t] EXCEPT !.customer = Authorized(t)]

\* prepare_message: the session is bound and the user's message committed.
Bind(t) ==
    /\ At(t, "bind")
    /\ IsChat(t)
    /\ ~Stranger(t, Authorized(t))
    /\ Become(t, Bound(t))
    /\ Move(t, "think")
    /\ KeepStore
    /\ UNCHANGED <<principal, row, copy, request, todo, served, mishaps, ledger>>

\* POST /api/verify.
Verify(t) ==
    /\ At(t, "bind")
    /\ ~IsChat(t)
    /\ ~Stranger(t, Authorized(t))
    /\ Become(t, Verified(Bound(t), request[t]))
    /\ Move(t, "sync")
    /\ KeepStore
    /\ UNCHANGED <<principal, row, copy, request, todo, served, mishaps, ledger>>

\* Orchestrator.run up to the specialists.
Think(t) ==
    /\ At(t, "think")
    /\ LET plan == Routed(local[t], request[t])
       IN  /\ Become(t, MaybeVerified(plan.session, request[t]))
           /\ todo' = [todo EXCEPT ![t] = plan.agents]
    /\ begun' = IF request[t].files THEN begun + 1 ELSE begun
    /\ Move(t, "agents")
    /\ KeepStore
    /\ UNCHANGED <<principal, row, copy, request, served, mishaps, charged, filed, unsaved, ticket>>

\* The turn of one agent comes, and after it the turn of the next.
Agent(t, name) ==
    /\ At(t, "agents")
    /\ todo[t] # <<>>
    /\ Head(todo[t]) = name
    /\ todo' = [todo EXCEPT ![t] = Tail(@)]
    /\ KeepStore
    /\ UNCHANGED <<principal, request, served, begun, unsaved>>

Owes(t, owner) ==
    local[t].status = "verified" /\ owner # None /\ local[t].customer = owner

\* A bare "yes" to a prompt: make_payment charges and the prompt is gone either way.
Answer(t) ==
    /\ Agent(t, "billing")
    /\ request[t].reply = "affirm"
    /\ request[t].invoice = None
    /\ Owes(t, local[t].payment)
    /\ Become(t, [local[t] EXCEPT !.payment = None])
    /\ charged' \in {charged, charged + 1}
    /\ UNCHANGED <<row, copy, filed, ticket>>

Charge(t) == Answer(t) /\ UNCHANGED <<at, mishaps>>

\* make_payment's commit fails.  Tool.run catches that, but the rollback has expired the row
\* object whose id its log sink then reads, and the turn raises.
ChargeUnwritten(t) == Answer(t) /\ Move(t, "raised") /\ Mishap

\* "pay INV-...": make_payment prompts, if the caller owns the invoice.
Prompt(t) ==
    /\ Agent(t, "billing")
    /\ Owes(t, request[t].invoice)
    /\ Become(t, [local[t] EXCEPT !.payment = request[t].invoice, !.unanswered = TRUE])
    /\ UNCHANGED <<row, copy, at, mishaps, charged, filed, ticket>>

\* Everything else billing does with a message: a bare "no" withdraws the prompt; a lookup,
\* a payment the caller may not make or an amount over the balance changes nothing.
Bill(t) ==
    /\ Agent(t, "billing")
    /\ IF request[t].reply = "decline" /\ request[t].invoice = None
       THEN Become(t, [local[t] EXCEPT !.payment = None])
       ELSE UNCHANGED local
    /\ UNCHANGED <<row, copy, at, mishaps, charged, filed, ticket>>

\* The claims agent: create_claim when the notice is complete, or collecting goes on.
Claim(t) ==
    LET s == local[t]
        f == Fields(s, request[t])
    IN  /\ Agent(t, "claims")
        /\ IF ~Filing(s, request[t]) THEN UNCHANGED <<local, filed>>
           ELSE IF Accepted(s, f) THEN Become(t, Filed(s)) /\ filed' = filed + 1
           ELSE Become(t, Collected(s, f)) /\ UNCHANGED filed
        /\ UNCHANGED <<row, copy, at, mishaps, charged, ticket>>

\* transfer_to_human: the ticket and the row's flag in one commit.
HandOver(t) ==
    /\ Agent(t, "escalation")
    /\ Become(t, [local[t] EXCEPT !.escalated = TRUE])
    /\ UNCHANGED <<charged, filed>>

Escalate(t) ==
    /\ HandOver(t)
    /\ row' = [row EXCEPT !.escalated = TRUE]
    /\ copy' = [copy EXCEPT ![t].escalated = TRUE]
    /\ ticket' = TRUE
    /\ UNCHANGED <<at, mishaps>>

\* Its commit fails.
EscalateFails(t) ==
    /\ HandOver(t)
    /\ Move(t, "raised")
    /\ Mishap
    /\ UNCHANGED <<row, copy, ticket>>

\* Agents that only read.
Look(t) ==
    /\ \E name \in {"scheduling", "other"} : Agent(t, name)
    /\ UNCHANGED <<local, row, copy, at, mishaps, charged, filed, ticket>>

\* The conversation's projection, when the last agent is through.
Sync(t) ==
    /\ At(t, "sync") \/ (At(t, "agents") /\ todo[t] = <<>>)
    /\ row' = Flushed(t, Projected(t))
    /\ copy' = [copy EXCEPT ![t] = Projected(t)]
    /\ Move(t, "done")
    /\ UNCHANGED <<store, principal, request, todo, served, mishaps, ledger>>

\* A query or a commit raises: the turn ends there, what it did to the session stays done.
Raise(t) ==
    /\ \E step \in {"bind", "think", "agents", "sync"} : At(t, step)
    /\ Mishap
    /\ Move(t, "raised")
    /\ UNCHANGED <<store, principal, row, copy, request, todo, served, ledger>>

Finish(t) ==
    /\ \/ At(t, "done") /\ Save(t, "saved")
       \/ At(t, "raised") /\ Save(t, "failed")
    /\ UNCHANGED <<principal, row, turnVars, served, mishaps, ledger>>

\* The turn is over: its database session and its objects go.
Over(t) ==
    /\ copy' = [copy EXCEPT ![t] = Blank]
    /\ request' = [request EXCEPT ![t] = None]
    /\ Move(t, "done")
    /\ todo' = [todo EXCEPT ![t] = <<>>]
    /\ UNCHANGED <<principal, row, served, charged, filed, begun, ticket>>

Lost(t) == unsaved' = unsaved + (local[t].filings - read[t].filings)

Leave(t) == Release(t) /\ Over(t) /\ UNCHANGED <<mishaps, unsaved>>

\* The lock is never had: nothing was done.
TurnedAway(t) == BlockingTimeout(t) /\ Over(t) /\ Mishap /\ UNCHANGED unsaved

\* The session cannot be read.
Unread(t) ==
    /\ LoadFails(t)
    /\ Mishap
    /\ UNCHANGED <<principal, row, turnVars, served, ledger>>

\* The session cannot be written: the rows the turn committed stay.
SaveLost(t) ==
    /\ at[t] \in {"done", "raised"}
    /\ SaveFails(t)
    /\ Lost(t)
    /\ Mishap
    /\ UNCHANGED <<principal, row, turnVars, served, charged, filed, begun, ticket>>

Die(t) ==
    /\ Crash(t)
    /\ Over(t)
    /\ Mishap
    /\ IF pc[t] = "running" THEN Lost(t) ELSE UNCHANGED unsaved

DieAll ==
    /\ Restart
    /\ Mishap
    /\ copy' = [t \in Turns |-> Blank]
    /\ request' = [t \in Turns |-> None]
    /\ at' = [t \in Turns |-> "done"]
    /\ todo' = [t \in Turns |-> <<>>]
    /\ UNCHANGED <<principal, row, served, ledger>>

Granted(t) == Acquire(t) /\ UNCHANGED <<principal, row, turnVars, served, mishaps, ledger>>

LeaseOver == LeaseExpires /\ UNCHANGED <<principal, row, turnVars, served, mishaps, ledger>>

TimeToLiveOver == Expire /\ Mishap /\ UNCHANGED <<principal, row, turnVars, served, ledger>>

Next ==
    \/ \E t \in Turns :
        \/ \E r \in Utterances \cup Claims : Ask(t, r)
        \/ Granted(t) \/ Begin(t)
        \/ Deny(t) \/ Bind(t) \/ Verify(t) \/ Think(t)
        \/ Charge(t) \/ ChargeUnwritten(t) \/ Prompt(t) \/ Bill(t)
        \/ Claim(t) \/ Escalate(t) \/ EscalateFails(t) \/ Look(t)
        \/ Sync(t) \/ Raise(t) \/ Finish(t) \/ Leave(t)
        \/ TurnedAway(t) \/ Unread(t) \/ SaveLost(t) \/ Die(t)
    \/ DieAll
    \/ LeaseOver
    \/ TimeToLiveOver

Spec == Init /\ [][Next]_vars

-----------------------------------------------------------------------------
Rows == [customer : Customers \cup {None}, status : Statuses, escalated : BOOLEAN]

Sessions == [customer : Customers \cup {None}, status : Statuses,
             attempts : 0..MaxAttempts, escalated : BOOLEAN,
             payment : Customers \cup {None}, collecting : BOOLEAN,
             claim : [policy : Customers \cup {Unknown, None}, loss : BOOLEAN, date : BOOLEAN],
             proven : Customers \cup {None}, unanswered : BOOLEAN, filings : Nat]

TypeOK ==
    /\ backend \in Backends
    /\ stored \in Sessions
    /\ lock \in Turns \cup {Free, Orphan}
    /\ pc \in [Turns -> Phases]
    /\ local \in [Turns -> Sessions] /\ read \in [Turns -> Sessions]
    /\ principal \in Principals
    /\ row \in Rows /\ copy \in [Turns -> Rows]
    /\ request \in [Turns -> Utterances \cup Claims \cup {None}]
    /\ at \in [Turns -> Steps]
    /\ todo \in [Turns -> Seq(Agents)]
    /\ served \in 0..MaxRequests /\ mishaps \in 0..MaxMishaps
    /\ charged \in Nat /\ filed \in Nat /\ begun \in Nat /\ unsaved \in Nat
    /\ ticket \in BOOLEAN

(***************************************************************************)
(* A session that says "verified" says it of a customer for whom a try     *)
(* passed that held a detail of theirs besides the policy number, whatever *)
(* requests, stale rows and expiries came in between (verify_identity; the *)
(* customer check of prepare_message).                                     *)
(***************************************************************************)
VerifiedIsProven ==
    \A s \in {stored} \cup {local[t] : t \in Turns} :
        s.status = "verified" => s.customer = s.proven /\ s.customer # None

(***************************************************************************)
(* A session never changes hands: once bound it keeps its customer until   *)
(* it expires (`If the conversation is already bound to a customer, only   *)
(* that customer can be verified against`, _resolve_customer).             *)
(***************************************************************************)
NeverRepointed ==
    [][stored.customer # None /\ stored'.customer # None
       => stored'.customer = stored.customer]_vars

\* Nothing but bare replies was said since the prompt, whoever is running agents.
Unanswered == \A t \in Turns : at[t] = "agents" => local[t].unanswered

(***************************************************************************)
(* Money moves only on a "yes" that answers the prompt: once the caller    *)
(* has said anything else, and that turn was saved, no later "yes"         *)
(* completes the charge (`a stray "yes" on a later, unrelated turn can     *)
(* never complete it`, Orchestrator.run).                                  *)
(***************************************************************************)
ChargeAnswersPrompt == [][charged' # charged => Unanswered]_vars

(***************************************************************************)
(* One request to file a claim files at most one, through any number of    *)
(* turns that add details; only a turn whose session was never saved can   *)
(* be filed again.                                                         *)
(***************************************************************************)
ClaimsWereAskedFor == filed <= begun + unsaved

(***************************************************************************)
(* A conversation handed to a human stays flagged, although every other    *)
(* turn writes the flag back from a copy that may be older (Sync).         *)
(***************************************************************************)
HandoffSticks == ticket => row.escalated

\* `Sync the auditable conversation projection before the session lock is released`
\* (ConversationService.prepare_message): after a turn the row says what the session says.
RowMirrorsSession ==
    \A t \in Turns : pc[t] = "saved" /\ stored # Fresh => row.status = stored.status

\* docs/security.md:48 and verification.py:105: a factor counts once it was checked against
\* the bound customer.  No run checks this: it is false in a session bound already, for a
\* policy number of somebody else or of nobody.
FactorsAreChecked ==
    \A claim \in Claims :
        LET c == Candidate(stored, claim)
            owns == IF claim.policy = c THEN 1 ELSE 0
        IN  c # None /\ Passed(claim, c) =>
                /\ owns + claim.weak[c] + claim.strong[c] >= 2
                /\ owns + claim.strong[c] >= 1
=============================================================================

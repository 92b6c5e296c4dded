------------------------ MODULE Conversation_proofs -------------------------
(***************************************************************************)
(* For any number of turns, requests and mishaps, any utterances and any   *)
(* customers.                                                              *)
(***************************************************************************)
EXTENDS Conversation, TLAPS

\* "verified" names the customer who was verified with a detail of theirs.
Honest(s) == s.status = "verified" => s.customer = s.proven /\ s.customer # None

\* A prompt is open only as long as nothing but bare replies was said.
Pressing(s) == s.payment # None => s.unanswered

Good(s) == s \in Sessions /\ Honest(s) /\ Pressing(s)

\* What a turn may make of a session: the customer stays, claims are only added.
Grown(s, new) ==
    /\ s.customer # None => new.customer = s.customer
    /\ new.filings >= s.filings

USE NoneAssumption, AttemptsAssumption

-----------------------------------------------------------------------------
LEMMA FreshGood == Good(Fresh)
  BY DEF Good, Honest, Pressing, Sessions, Fresh, NoClaim, Statuses

\* Verification, whoever the candidate is.
LEMMA VerifiedGood ==
    ASSUME NEW s, Good(s), NEW claim \in ClaimTypes
    PROVE  Good(Verified(s, claim)) /\ Grown(s, Verified(s, claim))
<1> DEFINE c == Candidate(s, claim)
<1> USE DEF Good, Sessions, Statuses
<1>1. c \in Customers \cup {None} /\ (s.customer # None => c = s.customer)
  BY DEF Candidate, ClaimTypes
<1>2. Tried(s) \in 0..MaxAttempts
  BY DEF Tried
<1> HIDE DEF c
<1>3. Verified(s, claim) \in Sessions
  BY <1>1, <1>2 DEF Verified, c
<1>p. c # None /\ Passed(claim, c) => claim.weak[c] + claim.strong[c] >= 1
  <2> SUFFICES ASSUME c # None, Passed(claim, c) PROVE claim.weak[c] + claim.strong[c] >= 1
    OBVIOUS
  <2>1. claim.weak[c] \in 0..2 /\ claim.strong[c] \in 0..2
    BY <1>1 DEF ClaimTypes
  <2> QED BY <2>1 DEF Passed
<1>4. Honest(Verified(s, claim)) /\ Pressing(Verified(s, claim))
  <2> DEFINE passed == c # None /\ Passed(claim, c)
  <2>1. Verified(s, claim).status = "verified" => passed
    BY DEF Verified, c
  <2>2. passed => Verified(s, claim).proven = c /\ Verified(s, claim).customer = c
    BY <1>p DEF Verified, c
  <2>3. Honest(Verified(s, claim))
    BY <2>1, <2>2 DEF Honest
  <2>4. Pressing(Verified(s, claim))
    BY DEF Verified, Pressing
  <2> QED BY <2>3, <2>4
<1>5. Grown(s, Verified(s, claim))
  BY <1>1 DEF Verified, Grown, c
<1>6. QED
  BY <1>3, <1>4, <1>5

LEMMA RoutedGood ==
    ASSUME NEW s, Good(s), NEW u \in UtteranceTypes
    PROVE  /\ Good(Routed(s, u).session) /\ Grown(s, Routed(s, u).session)
           /\ Routed(s, u).agents \in Seq(Agents)
<1> USE DEF Good, Sessions
<1>0. <<"billing">> \in Seq(Agents) /\ <<"claims">> \in Seq(Agents)
  BY DEF Agents
<1>1. PaymentRouted(s, u) \in Seq(Agents)
  BY <1>0 DEF PaymentRouted, UtteranceTypes
<1> DEFINE paid == PaymentDropped(s, u)
           heard == [paid EXCEPT !.unanswered = @ /\ u.reply # None]
<1>a. Good(paid) /\ Grown(s, paid) /\ (u.reply = None => paid.payment = None)
  BY DEF PaymentDropped, Honest, Pressing, Grown
<1> HIDE DEF paid
<1>b. (paid.unanswered /\ u.reply # None) \in BOOLEAN
  OBVIOUS
<1>2. Good(heard) /\ Grown(s, heard)
  <2>1. heard \in Sessions
    BY <1>a, <1>b
  <2>2. /\ heard.customer = paid.customer /\ heard.status = paid.status
        /\ heard.proven = paid.proven /\ heard.payment = paid.payment
        /\ heard.filings = paid.filings /\ heard.unanswered = (paid.unanswered /\ u.reply # None)
    BY <1>a
  <2>3. Honest(heard) /\ Grown(s, heard)
    BY <1>a, <2>2 DEF Honest, Grown
  <2>4. Pressing(heard)
    BY <1>a, <2>2 DEF Pressing
  <2> QED BY <2>1, <2>3, <2>4
<1> HIDE DEF heard
<1>3. Good(ClaimDropped(heard)) /\ Grown(s, ClaimDropped(heard))
  <2>1. ClaimDropped(heard) \in Sessions
    BY <1>2 DEF ClaimDropped, NoClaim
  <2>2. Honest(ClaimDropped(heard)) /\ Pressing(ClaimDropped(heard))
    BY <1>2 DEF ClaimDropped, Honest, Pressing
  <2>3. Grown(s, ClaimDropped(heard))
    BY <1>2 DEF ClaimDropped, Grown
  <2> QED BY <2>1, <2>2, <2>3
<1>4. Routed(s, u).session \in {heard, ClaimDropped(heard)}
      /\ Routed(s, u).agents \in {PaymentRouted(s, u), <<"claims">>}
  BY DEF Routed, heard, paid
<1>5. QED
  BY <1>0, <1>1, <1>2, <1>3, <1>4

LEMMA MaybeVerifiedGood ==
    ASSUME NEW s, Good(s), NEW u \in UtteranceTypes
    PROVE  Good(MaybeVerified(s, u)) /\ Grown(s, MaybeVerified(s, u))
<1>1. u.claim \in ClaimTypes
  BY DEF UtteranceTypes
<1>2. Grown(s, s)
  BY DEF Grown, Good, Sessions
<1>3. QED
  BY <1>1, <1>2, VerifiedGood DEF MaybeVerified

LEMMA CollectedGood ==
    ASSUME NEW s, Good(s), NEW u \in UtteranceTypes
    PROVE  /\ Good(Collected(s, Fields(s, u))) /\ Grown(s, Collected(s, Fields(s, u)))
           /\ Good(Filed(s)) /\ Grown(s, Filed(s)) /\ Filed(s).filings = s.filings + 1
           /\ Collected(s, Fields(s, u)).filings = s.filings
<1> USE DEF Good, Sessions
<1>1. Fields(s, u) \in [policy : Customers \cup {Unknown, None}, loss : BOOLEAN, date : BOOLEAN]
  BY DEF Fields, UtteranceTypes, ClaimTypes
<1>2. ClaimDropped(s) \in Sessions
  BY DEF ClaimDropped, NoClaim
<1>3. Good(Collected(s, Fields(s, u))) /\ Grown(s, Collected(s, Fields(s, u)))
      /\ Collected(s, Fields(s, u)).filings = s.filings
  <2> DEFINE f == Fields(s, u)
  <2> HIDE DEF f
  <2>1. [s EXCEPT !.collecting = TRUE, !.claim = f] \in Sessions
    BY <1>1 DEF f
  <2>2. QED
    BY <1>2, <2>1 DEF Collected, ClaimDropped, Honest, Pressing, Grown, f
<1>4. Good(Filed(s)) /\ Grown(s, Filed(s)) /\ Filed(s).filings = s.filings + 1
  <2> DEFINE d == ClaimDropped(s)
  <2>1. d \in Sessions /\ Honest(d) /\ Pressing(d) /\ d.filings = s.filings
        /\ d.customer = s.customer
    BY <1>2 DEF ClaimDropped, Honest, Pressing
  <2> HIDE DEF d
  <2>2. [d EXCEPT !.filings = @ + 1] \in Sessions
    BY <2>1
  <2>3. QED
    BY <2>1, <2>2 DEF Filed, d, Honest, Pressing, Grown
<1>5. QED
  BY <1>3, <1>4

\* A flush keeps a well-typed row, and the flag once it is up.
LEMMA FlushedRow ==
    ASSUME TypeOK, NEW t \in Turns
    PROVE  /\ Projected(t) \in Rows /\ Flushed(t, Projected(t)) \in Rows
           /\ row.escalated => Flushed(t, Projected(t)).escalated
<1> DEFINE new == Projected(t)
<1> USE DEF TypeOK, Rows
<1>1. new \in Rows /\ (copy[t].escalated => new.escalated)
  BY DEF Projected, Sessions
<1> HIDE DEF new
<1>2. DOMAIN row = {"customer", "status", "escalated"}
  OBVIOUS
<1>3. Flushed(t, new) = [customer |-> Flushed(t, new).customer, status |-> Flushed(t, new).status, escalated |-> Flushed(t, new).escalated]
  BY <1>2 DEF Flushed
<1>4. QED
  BY <1>1, <1>2, <1>3 DEF Flushed, new

-----------------------------------------------------------------------------
\* The session store's part of the invariant.
StoreOK ==
    /\ backend \in Backends
    /\ lock \in Turns \cup {Free, Orphan}
    /\ pc \in [Turns -> Phases]
    /\ local \in [Turns -> Sessions] /\ read \in [Turns -> Sessions]
    /\ Good(stored)
    /\ \A t \in Turns : Good(local[t]) /\ Good(read[t]) /\ Grown(read[t], local[t])

\* What a turn is at agrees with what it was asked and with its hold on the session.
Placed(t) ==
    /\ pc[t] # "idle" => request[t] \in Utterances \cup Claims
    /\ at[t] \in {"bind", "think", "agents", "sync"} => pc[t] = "running"
    /\ at[t] \in {"think", "agents"} => IsChat(t)

CInv == TypeOK /\ StoreOK /\ (\A t \in Turns : Placed(t)) /\ HandoffSticks

LEMMA GrownSame == ASSUME NEW s, Good(s) PROVE Grown(s, s)
  BY DEF Grown, Good, Sessions

LEMMA GrownOn ==
    ASSUME NEW r, NEW s, NEW new, Good(r), Good(s), Good(new), Grown(r, s), Grown(s, new)
    PROVE  Grown(r, new)
  BY DEF Grown, Good, Sessions

\* A step of a turn on its own copy.
LEMMA BecomeStore ==
    ASSUME StoreOK, NEW t \in Turns, NEW new, Become(t, new), KeepStore,
           Good(new), Grown(local[t], new)
    PROVE  StoreOK'
<1>1. \A u \in Turns : Good(local'[u]) /\ Grown(read[u], local'[u])
  BY GrownOn DEF StoreOK, Become
<1>2. local' \in [Turns -> Sessions]
  BY DEF StoreOK, Become, Good
<1>3. QED
  BY <1>1, <1>2 DEF StoreOK, KeepStore

\* A step of the store that changes nobody's copy but to load or forget it.
LEMMA StoreStep ==
    ASSUME StoreOK, NEW t \in Turns, NEW outcome \in {"saved", "failed"},
           \/ Enter(t) \/ Acquire(t) \/ BlockingTimeout(t) \/ Load(t) \/ LoadFails(t)
           \/ Save(t, outcome) \/ SaveFails(t) \/ Release(t) \/ Crash(t)
           \/ LeaseExpires \/ Restart \/ Expire \/ UNCHANGED store
    PROVE  StoreOK'
<1> USE DEF StoreOK, Goto, Phases
<1>0. Good(Fresh) /\ Grown(Fresh, Fresh) /\ Fresh \in Sessions
  BY FreshGood, GrownSame DEF Good
<1>1. CASE Enter(t) \/ Acquire(t) \/ BlockingTimeout(t) \/ LoadFails(t) \/ SaveFails(t)
  BY <1>1 DEF Enter, Acquire, BlockingTimeout, LoadFails, SaveFails
<1>2. CASE Load(t)
  <2>1. Grown(stored, stored) /\ stored \in Sessions
    BY GrownSame DEF Good
  <2>2. QED
    BY <1>2, <2>1 DEF Load
<1>3. CASE Save(t, outcome)
  BY <1>3 DEF Save
<1>4. CASE Release(t) \/ Crash(t)
  BY <1>0, <1>4 DEF Release, Crash, Forget
<1>5. CASE LeaseExpires
  BY <1>5 DEF LeaseExpires
<1>6. CASE Restart \/ Expire
  BY <1>0, <1>6 DEF Restart, Expire
<1>7. CASE UNCHANGED store
  BY <1>7 DEF store
<1>8. QED
  BY <1>1, <1>2, <1>3, <1>4, <1>5, <1>6, <1>7

\* The customer a request may act for is a customer or nobody.
LEMMA BoundGood ==
    ASSUME TypeOK, StoreOK, NEW t \in Turns, ~Stranger(t, Authorized(t))
    PROVE  Good(Bound(t)) /\ Grown(local[t], Bound(t))
<1> DEFINE c == Authorized(t)
<1>1. c \in Customers \cup {None}
  BY PrincipalsAssumption DEF Authorized, TypeOK, Rows
<1>2. c # None => local[t].customer \in {None, c}
  BY DEF Stranger
<1> HIDE DEF c
<1>3. Good(local[t]) /\ Grown(local[t], local[t])
  BY GrownSame DEF StoreOK
<1>4. [local[t] EXCEPT !.customer = c] \in Sessions
  BY <1>1, <1>3 DEF Good, Sessions
<1>5. c # None => Good([local[t] EXCEPT !.customer = c])
                  /\ Grown(local[t], [local[t] EXCEPT !.customer = c])
  BY <1>2, <1>3, <1>4 DEF Good, Honest, Pressing, Grown, Sessions
<1>6. QED
  BY <1>3, <1>5 DEF Bound, c

\* What the agents do to a session other than collecting a claim.
LEMMA EditGood ==
    ASSUME NEW s, Good(s), NEW owner \in Customers \cup {None}
    PROVE  /\ Good([s EXCEPT !.payment = None]) /\ Grown(s, [s EXCEPT !.payment = None])
           /\ Good([s EXCEPT !.payment = owner, !.unanswered = TRUE])
           /\ Grown(s, [s EXCEPT !.payment = owner, !.unanswered = TRUE])
           /\ Good([s EXCEPT !.escalated = TRUE]) /\ Grown(s, [s EXCEPT !.escalated = TRUE])
<1> USE DEF Good, Honest, Pressing, Grown, Sessions
<1>1. Good([s EXCEPT !.payment = None]) /\ Grown(s, [s EXCEPT !.payment = None])
  OBVIOUS
<1>2. Good([s EXCEPT !.payment = owner, !.unanswered = TRUE])
  OBVIOUS
<1>3. Grown(s, [s EXCEPT !.payment = owner, !.unanswered = TRUE])
  OBVIOUS
<1>4. Good([s EXCEPT !.escalated = TRUE])
  OBVIOUS
<1>5. Grown(s, [s EXCEPT !.escalated = TRUE])
  OBVIOUS
<1>6. QED
  BY <1>1, <1>2, <1>3, <1>4, <1>5

\* Steps of a turn between loading and saving the session.
LEMMA TurnStore ==
    ASSUME CInv, NEW t \in Turns,
           \/ Deny(t) \/ Bind(t) \/ Verify(t) \/ Think(t)
           \/ Charge(t) \/ ChargeUnwritten(t) \/ Prompt(t) \/ Bill(t)
           \/ Claim(t) \/ Escalate(t) \/ EscalateFails(t) \/ Look(t)
           \/ Sync(t) \/ Raise(t)
    PROVE  StoreOK'
<1> USE DEF CInv
<1>1. Good(local[t]) /\ Grown(local[t], local[t]) /\ local[t] \in Sessions
  BY GrownSame DEF StoreOK
<1>2. IsChat(t) => request[t] \in UtteranceTypes
  BY UtterancesAssumption DEF IsChat
<1>3. CASE Deny(t) \/ Look(t) \/ Sync(t) \/ Raise(t)
  <2>1. UNCHANGED store
    BY <1>3 DEF Deny, Look, Agent, KeepStore, Sync, Raise, store
  <2>2. QED
    BY <2>1, StoreStep
<1>4. CASE Bind(t)
  BY <1>4, BoundGood, BecomeStore DEF Bind
<1>5. CASE Verify(t)
  <2>1. request[t] \in ClaimTypes
    BY <1>5, ClaimsAssumption DEF Verify, At, Placed, IsChat
  <2>2. Good(Bound(t)) /\ Grown(local[t], Bound(t))
    BY <1>5, BoundGood DEF Verify
  <2>3. Good(Verified(Bound(t), request[t]))
        /\ Grown(Bound(t), Verified(Bound(t), request[t]))
    BY <2>1, <2>2, VerifiedGood
  <2>4. Grown(local[t], Verified(Bound(t), request[t]))
    BY <1>1, <2>2, <2>3, GrownOn
  <2>5. QED
    BY <1>5, <2>3, <2>4, BecomeStore DEF Verify
<1>6. CASE Think(t)
  <2> DEFINE u == request[t]
             s == Routed(local[t], u).session
  <2>1. u \in UtteranceTypes
    BY <1>2, <1>6 DEF Think, At, Placed
  <2>2. Good(s) /\ Grown(local[t], s)
    BY <1>1, <2>1, RoutedGood
  <2> HIDE DEF s
  <2>3. Good(MaybeVerified(s, u)) /\ Grown(s, MaybeVerified(s, u))
    BY <2>1, <2>2, MaybeVerifiedGood
  <2>4. Grown(local[t], MaybeVerified(s, u))
    BY <1>1, <2>2, <2>3, GrownOn
  <2>5. Become(t, MaybeVerified(s, u)) /\ KeepStore
    BY <1>6 DEF Think, s
  <2>6. QED
    BY <2>3, <2>4, <2>5, BecomeStore
<1>7. CASE \/ Charge(t) \/ ChargeUnwritten(t) \/ Prompt(t) \/ Bill(t)
           \/ Escalate(t) \/ EscalateFails(t)
  <2> DEFINE owner == request[t].invoice
  <2>1. IsChat(t) /\ KeepStore
    BY <1>7 DEF Charge, ChargeUnwritten, Answer, Prompt, Bill, Escalate, EscalateFails,
         HandOver, Agent, At, Placed
  <2>2. owner \in Customers \cup {None}
    BY <1>2, <2>1 DEF UtteranceTypes
  <2> HIDE DEF owner
  <2>3. \/ UNCHANGED store
        \/ Become(t, [local[t] EXCEPT !.payment = None])
        \/ Become(t, [local[t] EXCEPT !.payment = owner, !.unanswered = TRUE])
        \/ Become(t, [local[t] EXCEPT !.escalated = TRUE])
    BY <1>7, <2>1 DEF Charge, ChargeUnwritten, Answer, Prompt, Bill, Escalate,
         EscalateFails, HandOver, KeepStore, store, owner
  <2>4. CASE UNCHANGED store
    BY <2>4, StoreStep
  <2>5. CASE Become(t, [local[t] EXCEPT !.payment = None])
    BY <1>1, <2>1, <2>2, <2>5, EditGood, BecomeStore
  <2>6. CASE Become(t, [local[t] EXCEPT !.payment = owner, !.unanswered = TRUE])
    BY <1>1, <2>1, <2>2, <2>6, EditGood, BecomeStore
  <2>7. CASE Become(t, [local[t] EXCEPT !.escalated = TRUE])
    BY <1>1, <2>1, <2>2, <2>7, EditGood, BecomeStore
  <2>8. QED
    BY <2>3, <2>4, <2>5, <2>6, <2>7
<1>8. CASE Claim(t)
  <2> DEFINE u == request[t]
             collected == Collected(local[t], Fields(local[t], u))
             done == Filed(local[t])
  <2>1. u \in UtteranceTypes /\ KeepStore
    BY <1>2, <1>8 DEF Claim, Agent, At, Placed
  <2>2. Good(collected) /\ Grown(local[t], collected) /\ Good(done) /\ Grown(local[t], done)
    BY <1>1, <2>1, CollectedGood
  <2>3. UNCHANGED store \/ Become(t, collected) \/ Become(t, done)
    BY <1>8, <2>1 DEF Claim, KeepStore, store
  <2> HIDE DEF collected, done
  <2>4. QED
    BY <2>1, <2>2, <2>3, BecomeStore, StoreStep
<1>9. QED
  BY <1>3, <1>4, <1>5, <1>6, <1>7, <1>8

-----------------------------------------------------------------------------
\* The rest of the invariant, which the store's steps alone do not settle.
RestOK ==
    /\ principal \in Principals
    /\ row \in Rows /\ copy \in [Turns -> Rows]
    /\ request \in [Turns -> Utterances \cup Claims \cup {None}]
    /\ at \in [Turns -> Steps]
    /\ todo \in [Turns -> Seq(Agents)]
    /\ served \in 0..MaxRequests /\ mishaps \in 0..MaxMishaps
    /\ charged \in Nat /\ filed \in Nat /\ begun \in Nat /\ unsaved \in Nat
    /\ ticket \in BOOLEAN
    /\ \A t \in Turns : Placed(t)
    /\ HandoffSticks

LEMMA Parts == CInv <=> StoreOK /\ RestOK
  BY DEF CInv, StoreOK, RestOK, TypeOK, Good

LEMMA RowsTyped == Blank \in Rows /\ \A p \in Principals : [Blank EXCEPT !.customer = p] \in Rows
  BY PrincipalsAssumption DEF Blank, Rows, Statuses

LEMMA RestInit == Init => CInv
<1> SUFFICES ASSUME Init
             PROVE  CInv
  OBVIOUS
<1>1. StoreOK
  BY FreshGood, GrownSame DEF Init, StoreInit, StoreOK, Phases, Good
<1>2. RestOK
  <2>1. <<>> \in Seq(Agents)
    OBVIOUS
  <2>2. row \in Rows /\ copy \in [Turns -> Rows]
    BY RowsTyped DEF Init
  <2>3. \A t \in Turns : Placed(t)
    BY DEF Init, StoreInit, Placed
  <2>4. served \in 0..MaxRequests /\ mishaps \in 0..MaxMishaps
    BY BoundsAssumption DEF Init
  <2>5. QED
    BY <2>1, <2>2, <2>3, <2>4 DEF Init, RestOK, Steps, HandoffSticks
<1>3. QED
  BY <1>1, <1>2, Parts

LEMMA TurnRest ==
    ASSUME CInv, NEW t \in Turns,
           \/ Deny(t) \/ Bind(t) \/ Verify(t) \/ Think(t)
           \/ Charge(t) \/ ChargeUnwritten(t) \/ Prompt(t) \/ Bill(t)
           \/ Claim(t) \/ Escalate(t) \/ EscalateFails(t) \/ Look(t)
           \/ Sync(t) \/ Raise(t)
    PROVE  RestOK'
<1> USE BoundsAssumption DEF RestOK, Placed, HandoffSticks, At, Move, IsChat, KeepStore, Mishap,
                             ledger, turnVars, store
<1>0. StoreOK /\ RestOK
  BY Parts
<1>1. CASE Deny(t) \/ Raise(t)
  <2>1. CASE Deny(t)
    BY <1>0, <2>1 DEF Deny, Steps
  <2>2. CASE Raise(t)
    BY <1>0, <2>2 DEF Raise, Steps
  <2>3. QED
    BY <1>1, <2>1, <2>2
<1>2. CASE Bind(t) \/ Verify(t)
  <2>1. CASE Bind(t)
    BY <1>0, <2>1 DEF Bind, Steps
  <2>2. CASE Verify(t)
    BY <1>0, <2>2 DEF Verify, Steps
  <2>3. QED
    BY <1>2, <2>1, <2>2
<1>3. CASE Think(t)
  <2>1. Routed(local[t], request[t]).agents \in Seq(Agents)
    BY <1>0, <1>3, RoutedGood, UtterancesAssumption DEF Think, StoreOK
  <2>2. QED
    BY <1>0, <1>3, <2>1 DEF Think, Steps
<1>4. CASE Charge(t) \/ ChargeUnwritten(t) \/ Prompt(t) \/ Bill(t) \/ Claim(t) \/ Look(t)
  <2>1. \E name : Agent(t, name)
    BY <1>4 DEF Charge, ChargeUnwritten, Answer, Prompt, Bill, Claim, Look
  <2>2. Tail(todo[t]) \in Seq(Agents) /\ todo' = [todo EXCEPT ![t] = Tail(@)]
    BY <1>0, <2>1 DEF Agent
  <2>3. UNCHANGED <<row, copy, ticket, pc, principal, request, served, begun, unsaved>>
    BY <1>4, <2>1 DEF Agent, Charge, ChargeUnwritten, Answer, Prompt, Bill, Claim, Look
  <2>4. \/ UNCHANGED <<at, mishaps>>
        \/ Move(t, "raised") /\ Mishap
    BY <1>4 DEF Charge, ChargeUnwritten, Prompt, Bill, Claim, Look
  <2>5. charged' \in {charged, charged + 1} /\ filed' \in {filed, filed + 1}
    BY <1>4 DEF Charge, ChargeUnwritten, Answer, Prompt, Bill, Claim, Look
  <2>6. todo' \in [Turns -> Seq(Agents)]
    BY <1>0, <2>2
  <2>7. mishaps' \in 0..MaxMishaps
    BY <1>0, <2>4
  <2>8. /\ at' \in [Turns -> Steps]
        /\ \A x \in Turns : at'[x] = at[x] \/ at'[x] = "raised"
    BY <1>0, <2>4 DEF Steps
  <2>9. \A x \in Turns : Placed(x)'
    BY <1>0, <2>3, <2>8
  <2>10. QED
    BY <1>0, <2>3, <2>5, <2>6, <2>7, <2>8, <2>9
<1>5. CASE Escalate(t) \/ EscalateFails(t)
  <2>1. HandOver(t) /\ Agent(t, "escalation")
    BY <1>5 DEF Escalate, EscalateFails, HandOver
  <2>2. Tail(todo[t]) \in Seq(Agents) /\ todo' = [todo EXCEPT ![t] = Tail(@)]
    BY <1>0, <2>1 DEF Agent
  <2>3. UNCHANGED <<pc, principal, request, served, begun, unsaved, charged, filed>>
    BY <2>1 DEF Agent, HandOver
  <2>4. CASE Escalate(t)
    BY <1>0, <2>2, <2>3, <2>4 DEF Escalate, Rows
  <2>5. CASE EscalateFails(t)
    BY <1>0, <2>2, <2>3, <2>5 DEF EscalateFails, Steps
  <2>6. QED
    BY <1>5, <2>4, <2>5
<1>6. CASE Sync(t)
  <2>1. Projected(t) \in Rows /\ Flushed(t, Projected(t)) \in Rows
        /\ (row.escalated => Flushed(t, Projected(t)).escalated)
    BY FlushedRow DEF CInv
  <2>2. QED
    BY <1>0, <1>6, <2>1 DEF Sync, Steps
<1>7. QED
  BY <1>1, <1>2, <1>3, <1>4, <1>5, <1>6

\* The steps of the session store as this module composes them.
StoreSteps(t) ==
    \/ \E r \in Utterances \cup Claims : Ask(t, r)
    \/ Granted(t) \/ Begin(t) \/ Finish(t) \/ Leave(t)
    \/ TurnedAway(t) \/ Unread(t) \/ SaveLost(t) \/ Die(t)

\* What a turn has filed and does not save is a natural number of claims.
LEMMA LostTyped ==
    ASSUME StoreOK, unsaved \in Nat, NEW t \in Turns, Lost(t)
    PROVE  unsaved' \in Nat
<1>1. local[t].filings \in Nat /\ read[t].filings \in Nat
      /\ local[t].filings >= read[t].filings
  BY DEF StoreOK, Good, Sessions, Grown
<1>2. QED
  BY <1>1 DEF Lost

LEMMA StoreStepsStore ==
    ASSUME StoreOK,
           (\E t \in Turns : StoreSteps(t)) \/ DieAll \/ LeaseOver \/ TimeToLiveOver
    PROVE  StoreOK'
<1>1. ASSUME NEW t \in Turns, StoreSteps(t)
      PROVE  StoreOK'
  BY <1>1, StoreStep DEF StoreSteps, Ask, Granted, Begin, Finish, Leave, TurnedAway, Unread,
       SaveLost, Die
<1>2. CASE Turns = {}
  BY <1>2, FreshGood, GrownSame DEF StoreSteps, DieAll, LeaseOver, TimeToLiveOver, Restart,
       LeaseExpires, Expire, StoreOK, Phases
<1>3. ASSUME NEW t \in Turns, DieAll \/ LeaseOver \/ TimeToLiveOver
      PROVE  StoreOK'
  BY <1>3, StoreStep DEF DieAll, LeaseOver, TimeToLiveOver
<1>4. QED
  BY <1>1, <1>2, <1>3

LEMMA StoreStepsRest ==
    ASSUME CInv,
           (\E t \in Turns : StoreSteps(t)) \/ DieAll \/ LeaseOver \/ TimeToLiveOver
    PROVE  RestOK'
<1> USE BoundsAssumption DEF RestOK, Placed, HandoffSticks, At, IsChat, Mishap, ledger, turnVars,
                             store, Goto, Phases, Steps
<1>0. StoreOK /\ RestOK /\ <<>> \in Seq(Agents) /\ Blank \in Rows
  BY Parts, RowsTyped DEF Blank, Rows, Statuses
<1>1. ASSUME NEW t \in Turns, StoreSteps(t)
      PROVE  RestOK'
  <2>1. ASSUME NEW r \in Utterances \cup Claims, Ask(t, r)
        PROVE  RestOK'
    BY <1>0, <2>1 DEF Ask, Enter, StoreOK
  <2>2. CASE Granted(t)
    BY <1>0, <2>2 DEF Granted, Acquire, StoreOK
  <2>3. CASE Begin(t)
    BY <1>0, <2>3 DEF Begin, Load, Move, StoreOK
  <2>4. CASE Finish(t)
    BY <1>0, <2>4 DEF Finish, Save, StoreOK
  <2>5. CASE Leave(t)
    BY <1>0, <2>5 DEF Leave, Release, Over, Move, StoreOK
  <2>6. CASE TurnedAway(t)
    BY <1>0, <2>6 DEF TurnedAway, BlockingTimeout, Over, Move, StoreOK
  <2>7. CASE Unread(t)
    BY <1>0, <2>7 DEF Unread, LoadFails, StoreOK
  <2>8. CASE SaveLost(t)
    <3>1. unsaved' \in Nat
      BY <1>0, <2>8, LostTyped DEF SaveLost
    <3>2. QED
      BY <1>0, <2>8, <3>1 DEF SaveLost, SaveFails, StoreOK
  <2>9. CASE Die(t)
    <3>1. unsaved' \in Nat
      BY <1>0, <2>9, LostTyped DEF Die
    <3>2. QED
      BY <1>0, <2>9, <3>1 DEF Die, Crash, Over, Move, StoreOK
  <2>10. QED
    BY <1>1, <2>1, <2>2, <2>3, <2>4, <2>5, <2>6, <2>7, <2>8, <2>9 DEF StoreSteps
<1>2. CASE DieAll
  BY <1>0, <1>2 DEF DieAll, Restart
<1>3. CASE LeaseOver \/ TimeToLiveOver
  BY <1>0, <1>3 DEF LeaseOver, TimeToLiveOver, LeaseExpires, Expire
<1>4. QED
  BY <1>1, <1>2, <1>3

LEMMA StutterInv == ASSUME CInv, UNCHANGED vars PROVE CInv'
  BY DEF CInv, TypeOK, StoreOK, Placed, IsChat, HandoffSticks, vars, store, turnVars, ledger

LEMMA StepInv == ASSUME CInv, [Next]_vars PROVE CInv'
<1>1. ASSUME NEW t \in Turns,
             \/ Deny(t) \/ Bind(t) \/ Verify(t) \/ Think(t)
             \/ Charge(t) \/ ChargeUnwritten(t) \/ Prompt(t) \/ Bill(t)
             \/ Claim(t) \/ Escalate(t) \/ EscalateFails(t) \/ Look(t)
             \/ Sync(t) \/ Raise(t)
      PROVE  StoreOK' /\ RestOK'
  BY <1>1, TurnStore, TurnRest
<1>2. ASSUME (\E t \in Turns : StoreSteps(t)) \/ DieAll \/ LeaseOver \/ TimeToLiveOver
      PROVE  StoreOK' /\ RestOK'
  BY <1>2, StoreStepsStore, StoreStepsRest DEF CInv
<1>3. CInv' <=> StoreOK' /\ RestOK'
  BY Parts, PTL
<1>4. QED
  BY <1>1, <1>2, <1>3, StutterInv DEF Next, StoreSteps

\* Sessions, rows and turns stay well formed whatever interleaves and fails.
THEOREM Invariance == Spec => []CInv
  BY RestInit, StepInv, PTL DEF Spec

\* The type invariant.
THEOREM TypeCorrect == Spec => []TypeOK
<1>1. CInv => TypeOK
  BY DEF CInv
<1>2. QED
  BY <1>1, Invariance, PTL

\* A verified session is verified for the customer whose details passed.
THEOREM VerifiedRightly == Spec => []VerifiedIsProven
<1>1. CInv => VerifiedIsProven
  BY DEF CInv, StoreOK, Good, Honest, VerifiedIsProven
<1>2. QED
  BY <1>1, Invariance, PTL

\* No turn takes a conversation back from the human it was handed to.
THEOREM HandedOver == Spec => []HandoffSticks
<1>1. CInv => HandoffSticks
  BY DEF CInv
<1>2. QED
  BY <1>1, Invariance, PTL

-----------------------------------------------------------------------------
(***************************************************************************)
(* What rests on the lock, and so on leases that outlive turns.            *)
(***************************************************************************)
\* Who is inside the lock owns it.
OwnsLock == \A t \in Turns : pc[t] \in Inside => lock = t

\* The store holds what the turn inside has read, or nothing.
Current == \A t \in Turns : pc[t] = "running" => stored \in {read[t], Fresh}

LockInv == OwnsLock /\ Current

LEMMA LockStep ==
    ASSUME LeaseOutlivesTurn, StoreOK, LockInv,
           \/ \E t \in Turns :
                \/ Enter(t) \/ Acquire(t) \/ BlockingTimeout(t) \/ Load(t) \/ LoadFails(t)
                \/ Save(t, "saved") \/ Save(t, "failed") \/ SaveFails(t)
                \/ Release(t) \/ Crash(t)
           \/ LeaseExpires \/ Restart \/ Expire \/ KeepStore
    PROVE  LockInv'
<1> USE TurnsAssumption DEF LockInv, OwnsLock, Current, Inside, Goto, StoreOK
<1>1. ASSUME NEW t \in Turns, Enter(t) \/ Acquire(t) \/ BlockingTimeout(t) \/ Load(t)
      PROVE  LockInv'
  BY <1>1 DEF Enter, Acquire, BlockingTimeout, Load
<1>2. ASSUME NEW t \in Turns,
             Save(t, "saved") \/ Save(t, "failed") \/ LoadFails(t) \/ SaveFails(t)
      PROVE  LockInv'
  BY <1>2 DEF Save, LoadFails, SaveFails
<1>3. ASSUME NEW t \in Turns, Release(t) \/ Crash(t)
      PROVE  LockInv'
  BY <1>3 DEF Release, Crash, Forget
<1>4. CASE LeaseExpires \/ Restart \/ Expire \/ KeepStore
  BY <1>4 DEF LeaseExpires, Restart, Expire, KeepStore
<1>5. QED
  BY <1>1, <1>2, <1>3, <1>4

\* How each step of a conversation looks to the store.
LEMMA StoreView ==
    ASSUME [Next]_vars
    PROVE  \/ \E t \in Turns :
                \/ Enter(t) \/ Acquire(t) \/ BlockingTimeout(t) \/ Load(t) \/ LoadFails(t)
                \/ Save(t, "saved") \/ Save(t, "failed") \/ SaveFails(t)
                \/ Release(t) \/ Crash(t)
           \/ LeaseExpires \/ Restart \/ Expire \/ KeepStore
<1>1. ASSUME NEW t \in Turns,
             \/ Deny(t) \/ Bind(t) \/ Verify(t) \/ Think(t)
             \/ Charge(t) \/ ChargeUnwritten(t) \/ Prompt(t) \/ Bill(t)
             \/ Claim(t) \/ Escalate(t) \/ EscalateFails(t) \/ Look(t)
             \/ Sync(t) \/ Raise(t)
      PROVE  KeepStore
  BY <1>1 DEF KeepStore, Deny, Bind, Verify, Think, Charge, ChargeUnwritten, Answer, Prompt,
       Bill, Claim, Escalate, EscalateFails, HandOver, Look, Agent, Sync, Raise, store
<1>2. CASE UNCHANGED vars
  BY <1>2 DEF vars, store, KeepStore
<1>3. QED
  BY <1>1, <1>2 DEF Next, Ask, Granted, Begin, Finish, Leave, TurnedAway, Unread, SaveLost,
       Die, DieAll, LeaseOver, TimeToLiveOver

THEOREM LockHeld == ASSUME LeaseOutlivesTurn PROVE Spec => []LockInv
<1>1. Init => LockInv
  BY DEF Init, StoreInit, LockInv, OwnsLock, Current, Inside
<1>2. CInv /\ LockInv /\ [Next]_vars => LockInv'
  BY LockStep, StoreView DEF CInv
<1>3. QED
  BY <1>1, <1>2, Invariance, PTL DEF Spec

\* A session never changes hands: it keeps its customer until it expires.
THEOREM KeepsCustomer == ASSUME LeaseOutlivesTurn PROVE Spec => NeverRepointed
<1>1. ASSUME CInv, LockInv, [Next]_vars, stored.customer # None, stored'.customer # None
      PROVE  stored'.customer = stored.customer
  <2>1. Fresh.customer = None
    BY DEF Fresh
  <2>2. ASSUME NEW t \in Turns, Save(t, "saved") \/ Save(t, "failed")
        PROVE  stored'.customer = stored.customer
    <3>1. stored = read[t] /\ stored' = local[t]
      BY <1>1, <2>1, <2>2 DEF Save, LockInv, Current
    <3>2. Grown(read[t], local[t])
      BY <1>1 DEF CInv, StoreOK
    <3>3. QED
      BY <1>1, <3>1, <3>2 DEF Grown
  <2>3. CASE stored' \in {stored, Fresh}
    BY <1>1, <2>1, <2>3
  <2>4. QED
    BY <1>1, <2>2, <2>3, StoreView DEF Enter, Acquire, BlockingTimeout, Load, LoadFails,
         SaveFails, Release, Crash, LeaseExpires, Restart, Expire, KeepStore
<1>2. CInv /\ LockInv /\ [Next]_vars
        => [stored.customer # None /\ stored'.customer # None
              => stored'.customer = stored.customer]_vars
  BY <1>1
<1>3. QED
  BY <1>2, Invariance, LockHeld, PTL DEF Spec, NeverRepointed

\* Money moves only on the "yes" that answers the prompt.
THEOREM ChargesAreAnswers == ASSUME LeaseOutlivesTurn PROVE Spec => ChargeAnswersPrompt
<1>1. ASSUME CInv, LockInv, [Next]_vars, charged' # charged,
             NEW u \in Turns, at[u] = "agents"
      PROVE  local[u].unanswered
  <2>1. PICK t \in Turns : Answer(t)
    <3>1. CASE UNCHANGED vars
      BY <1>1, <3>1 DEF vars, ledger
    <3>2. QED
      BY <1>1, <3>1 DEF Next, Ask, Granted, Begin, Deny, Bind, Verify, Think, Charge,
           ChargeUnwritten, Prompt, Bill, Claim, Escalate, EscalateFails, HandOver, Look, Sync,
           Raise, Finish, Leave, Over, TurnedAway, Unread, SaveLost, Die, DieAll, LeaseOver,
           TimeToLiveOver, ledger
  <2>2. pc[t] = "running" /\ local[t].payment # None
    BY <2>1 DEF Answer, Agent, At, Owes
  <2>3. local[t].unanswered
    BY <1>1, <2>2 DEF CInv, StoreOK, Good, Pressing
  <2>4. pc[u] = "running"
    BY <1>1 DEF CInv, Placed
  <2>5. u = t
    BY <1>1, <2>2, <2>4 DEF LockInv, OwnsLock, Inside
  <2>6. QED
    BY <2>3, <2>5
<1>2. CInv /\ LockInv /\ [Next]_vars
        => [charged' # charged => Unanswered]_vars
  BY <1>1 DEF Unanswered
<1>3. QED
  BY <1>2, Invariance, LockHeld, PTL DEF Spec, ChargeAnswersPrompt

-----------------------------------------------------------------------------
(***************************************************************************)
(* Claims.  A request to file pays for one claim.  What is paid for is     *)
(* held by the turn that runs, as a claims agent still ahead of it or as   *)
(* the notice it collects, and otherwise by the stored session.  A turn    *)
(* whose session is lost gives back the notice it read, and what it filed  *)
(* counts as unsaved.                                                      *)
(***************************************************************************)
Open(s) == IF s.collecting THEN 1 ELSE 0

Ahead(t) == \E i \in DOMAIN todo[t] : todo[t][i] = "claims"

Single(t) ==
    \A i, j \in DOMAIN todo[t] : todo[t][i] = "claims" /\ todo[t][j] = "claims" => i = j

Due(t) ==
    IF local[t].collecting \/ (at[t] = "agents" /\ request[t].files /\ Ahead(t)) THEN 1 ELSE 0

Paid(t) ==
    /\ filed + Due(t) <= begun + unsaved
    /\ filed + Open(read[t]) <= begun + unsaved + (local[t].filings - read[t].filings)

FilingInv ==
    /\ \A t \in Turns : Single(t)
    /\ \A t \in Turns : pc[t] = "running" => Paid(t)
    /\ (\A t \in Turns : pc[t] # "running") => filed + Open(stored) <= begun + unsaved

\* What anybody but the claims agent makes of a notice: it may be dropped.
Lapses(s, new) ==
    /\ new.collecting => s.collecting
    /\ new.filings = s.filings

LEMMA VerifiedLapses ==
    ASSUME NEW s \in Sessions, NEW claim
    PROVE  Lapses(s, Verified(s, claim))
  BY DEF Lapses, Verified, Sessions

LEMMA RoutedLapses ==
    ASSUME NEW s \in Sessions, NEW u
    PROVE  /\ Lapses(s, Routed(s, u).session)
           /\ Routed(s, u).agents \in {<<"billing">>, u.agents, <<"claims">>}
<1> DEFINE paid == PaymentDropped(s, u)
           heard == [paid EXCEPT !.unanswered = @ /\ u.reply # None]
<1>1. /\ DOMAIN paid = DOMAIN s /\ paid.collecting = s.collecting /\ paid.filings = s.filings
      /\ {"collecting", "filings"} \subseteq DOMAIN s
  BY DEF PaymentDropped, Sessions
<1> HIDE DEF paid
<1>2. DOMAIN heard = DOMAIN s /\ heard.collecting = s.collecting /\ heard.filings = s.filings
  BY <1>1
<1> HIDE DEF heard
<1>3. ~ClaimDropped(heard).collecting /\ ClaimDropped(heard).filings = s.filings
  BY <1>1, <1>2 DEF ClaimDropped
<1>4. /\ Routed(s, u).session \in {heard, ClaimDropped(heard)}
      /\ Routed(s, u).agents \in {PaymentRouted(s, u), <<"claims">>}
  BY DEF Routed, heard, paid
<1> QED BY <1>2, <1>3, <1>4 DEF Lapses, PaymentRouted

LEMMA ClaimsOnce ==
    ASSUME NEW agents, agents \in {<<"billing">>, <<"claims">>} \cup {u.agents : u \in Utterances}
    PROVE  \A i, j \in DOMAIN agents : agents[i] = "claims" /\ agents[j] = "claims" => i = j
  BY OnceAssumption

LEMMA TailAhead ==
    ASSUME NEW s \in Seq(Agents), s # <<>>,
           \A i, j \in DOMAIN s : s[i] = "claims" /\ s[j] = "claims" => i = j
    PROVE  /\ \A i, j \in DOMAIN Tail(s) :
                 Tail(s)[i] = "claims" /\ Tail(s)[j] = "claims" => i = j
           /\ \A i \in DOMAIN Tail(s) :
                 Tail(s)[i] = "claims" =>
                    Head(s) # "claims" /\ \E j \in DOMAIN s : s[j] = "claims"
<1>1. /\ Len(s) \in Nat /\ Len(s) >= 1 /\ DOMAIN s = 1..Len(s) /\ Head(s) = s[1]
      /\ DOMAIN Tail(s) = 1..(Len(s) - 1)
      /\ \A i \in 1..(Len(s) - 1) : Tail(s)[i] = s[i + 1]
  OBVIOUS
<1>2. ASSUME NEW i \in DOMAIN Tail(s)
      PROVE  i + 1 \in DOMAIN s /\ Tail(s)[i] = s[i + 1] /\ i + 1 # 1
  BY <1>1
<1>3. 1 \in DOMAIN s
  BY <1>1
<1>4. ASSUME NEW i \in DOMAIN Tail(s), NEW j \in DOMAIN Tail(s),
             Tail(s)[i] = "claims", Tail(s)[j] = "claims"
      PROVE  i = j
  <2>1. i + 1 = j + 1
    BY <1>2, <1>4
  <2> QED BY <2>1, <1>1
<1> QED BY <1>1, <1>2, <1>3, <1>4

\* A turn at work is the only one: what its step owes the invariant.
LEMMA SoleTurnPays ==
    ASSUME LockInv, FilingInv, NEW t \in Turns, pc[t] = "running", UNCHANGED <<pc, stored>>,
           Single(t)', Paid(t)', \A u \in Turns \ {t} : todo'[u] = todo[u]
    PROVE  FilingInv'
<1>1. \A u \in Turns : pc[u] = "running" => u = t
  BY DEF LockInv, OwnsLock, Inside
<1>2. ASSUME NEW u \in Turns, u # t PROVE Single(u)'
  BY <1>2 DEF FilingInv, Single
<1> QED BY <1>1, <1>2 DEF FilingInv

\* A step of a turn that leaves claims alone, or drops a notice.
LEMMA LapsePays ==
    ASSUME CInv, FilingInv, NEW t \in Turns, pc[t] = "running",
           Lapses(local[t], local'[t]), UNCHANGED <<read, request, filed, begun, unsaved>>,
           at'[t] = "agents" => at[t] = "agents", Ahead(t)' => Ahead(t)
    PROVE  Paid(t)'
<1>1. Paid(t)
  BY DEF FilingInv
<1>2. /\ filed \in Nat /\ begun \in Nat /\ unsaved \in Nat
      /\ local[t].filings \in Nat /\ read[t].filings \in Nat
  BY DEF CInv, TypeOK, Sessions
<1>3. Due(t)' \in {0, 1} /\ Due(t) \in {0, 1} /\ Open(read[t]) \in {0, 1} /\ Open(read[t])' = Open(read[t])
  BY DEF Due, Open
<1>4. Due(t)' <= Due(t)
  BY DEF Due, Lapses
<1>5. local'[t].filings = local[t].filings
  BY DEF Lapses
<1> QED BY <1>1, <1>2, <1>3, <1>4, <1>5 DEF Paid

LEMMA ThinkPays ==
    ASSUME CInv, FilingInv, NEW t \in Turns, Think(t)
    PROVE  Single(t)' /\ Paid(t)'
<1> DEFINE u == request[t]
           s == Routed(local[t], u).session
<1>1. /\ at[t] = "think" /\ pc[t] = "running" /\ at'[t] = "agents"
      /\ local'[t] = MaybeVerified(s, u) /\ todo'[t] = Routed(local[t], u).agents
      /\ begun' = IF u.files THEN begun + 1 ELSE begun
      /\ UNCHANGED <<read, request, filed, unsaved>>
  BY DEF Think, At, Become, Move, KeepStore, CInv, TypeOK
<1>2. u \in Utterances /\ Good(local[t])
  BY <1>1 DEF CInv, StoreOK, Placed, IsChat
<1>3. Good(s) /\ Lapses(local[t], s) /\ Routed(local[t], u).agents \in {<<"billing">>, u.agents, <<"claims">>}
  BY <1>2, RoutedGood, RoutedLapses, UtterancesAssumption DEF Good
<1> HIDE DEF s
<1>4. Lapses(s, MaybeVerified(s, u))
  BY <1>3, VerifiedLapses DEF MaybeVerified, Good, Lapses
<1>5. Lapses(local[t], local'[t])
  BY <1>1, <1>3, <1>4 DEF Lapses
<1>6. Single(t)'
  BY <1>1, <1>2, <1>3, ClaimsOnce DEF Single
<1>7. Paid(t)'
  <2>1. Paid(t)
    BY <1>1 DEF FilingInv
  <2>2. /\ filed \in Nat /\ begun \in Nat /\ unsaved \in Nat
        /\ local[t].filings \in Nat /\ read[t].filings \in Nat
    BY DEF CInv, TypeOK, Sessions
  <2>3. /\ Due(t)' \in {0, 1} /\ Due(t) \in {0, 1} /\ Open(read[t]) \in {0, 1}
        /\ Open(read[t])' = Open(read[t]) /\ local'[t].filings = local[t].filings
    BY <1>1, <1>5 DEF Due, Open, Lapses
  <2>4. u.files \/ Due(t)' <= Due(t)
    BY <1>1, <1>5 DEF Due, Lapses
  <2>5. CASE u.files
    BY <1>1, <2>1, <2>2, <2>3, <2>5 DEF Paid
  <2>6. CASE ~u.files
    BY <1>1, <2>1, <2>2, <2>3, <2>4, <2>6 DEF Paid
  <2> QED BY <2>5, <2>6
<1> QED BY <1>6, <1>7

\* An agent's turn: it is no longer ahead.
LEMMA AgentAhead ==
    ASSUME CInv, FilingInv, NEW t \in Turns, NEW name, Agent(t, name)
    PROVE  /\ pc[t] = "running" /\ at[t] = "agents" /\ Single(t)'
           /\ Ahead(t)' => Ahead(t) /\ name # "claims"
           /\ name = "claims" => Ahead(t)
           /\ \A u \in Turns \ {t} : todo'[u] = todo[u]
           /\ UNCHANGED <<pc, stored, read, request, begun, unsaved>>
<1>1. /\ todo[t] # <<>> /\ todo[t] \in Seq(Agents) /\ Head(todo[t]) = name
      /\ todo' = [todo EXCEPT ![t] = Tail(todo[t])] /\ todo'[t] = Tail(todo[t])
  BY DEF Agent, CInv, TypeOK
<1>2. Single(t)
  BY DEF FilingInv
<1>3. Single(t)' /\ (Ahead(t)' => Ahead(t) /\ name # "claims")
  <2>1. /\ \A i, j \in DOMAIN Tail(todo[t]) :
              Tail(todo[t])[i] = "claims" /\ Tail(todo[t])[j] = "claims" => i = j
        /\ \A i \in DOMAIN Tail(todo[t]) : Tail(todo[t])[i] = "claims" =>
              Head(todo[t]) # "claims" /\ \E j \in DOMAIN todo[t] : todo[t][j] = "claims"
    <3>1. \A i, j \in DOMAIN todo[t] :
             todo[t][i] = "claims" /\ todo[t][j] = "claims" => i = j
      BY <1>2 DEF Single
    <3> QED BY <1>1, <3>1, TailAhead
  <2>2. Single(t)'
    BY <1>1, <2>1 DEF Single
  <2>3. Ahead(t)' => Ahead(t) /\ name # "claims"
    BY <1>1, <2>1 DEF Ahead
  <2> QED BY <2>2, <2>3
<1>4. 1 \in DOMAIN todo[t] /\ todo[t][1] = name
  BY <1>1
<1> QED BY <1>1, <1>3, <1>4 DEF Agent, At, KeepStore, Ahead, CInv, TypeOK

LEMMA ClaimPays ==
    ASSUME CInv, FilingInv, NEW t \in Turns, Claim(t)
    PROVE  Paid(t)'
<1> DEFINE u == request[t]
           s == local[t]
           f == Fields(s, u)
<1>1. Agent(t, "claims") /\ UNCHANGED at
  BY DEF Claim
<1>2. /\ pc[t] = "running" /\ at[t] = "agents" /\ Ahead(t) /\ ~Ahead(t)'
      /\ UNCHANGED <<read, request, begun, unsaved>>
  BY <1>1, AgentAhead
<1>3. /\ Due(t)' = (IF local'[t].collecting THEN 1 ELSE 0)
      /\ Due(t) = (IF Filing(s, u) THEN 1 ELSE 0)
  BY <1>1, <1>2 DEF Due, Filing
<1>4. Paid(t)
  BY <1>2 DEF FilingInv
<1>5. /\ filed \in Nat /\ begun \in Nat /\ unsaved \in Nat
      /\ local[t].filings \in Nat /\ read[t].filings \in Nat /\ Open(read[t]) \in {0, 1}
      /\ Open(read[t])' = Open(read[t])
  BY <1>2 DEF CInv, TypeOK, Sessions, Open
<1>6. /\ Filed(s).filings = s.filings + 1 /\ ~Filed(s).collecting
      /\ Collected(s, f).filings = s.filings
  <2>1. u \in UtteranceTypes
    BY <1>1, UtterancesAssumption DEF Agent, At, CInv, Placed, IsChat
  <2>2. Good(s) /\ s \in Sessions
    BY DEF CInv, StoreOK, Good
  <2>3. ~ClaimDropped(s).collecting /\ DOMAIN ClaimDropped(s) = DOMAIN s
    BY <2>2 DEF ClaimDropped, Sessions
  <2>4. ~Filed(s).collecting
    BY <2>3 DEF Filed
  <2> HIDE DEF s, u
  <2> QED BY <2>1, <2>2, <2>4, CollectedGood DEF f
<1>7. CASE ~Filing(s, u)
  <2>1. local'[t] = local[t] /\ filed' = filed /\ ~local[t].collecting
    BY <1>7 DEF Claim, Filing
  <2> QED BY <1>2, <1>3, <1>4, <1>5, <1>7, <2>1 DEF Paid
<1>8. CASE Filing(s, u) /\ Accepted(s, f)
  <2>1. local'[t] = Filed(s) /\ filed' = filed + 1
    BY <1>8 DEF Claim, Become, CInv, TypeOK
  <2>2. Due(t)' = 0 /\ Due(t) = 1 /\ local'[t].filings = local[t].filings + 1
    BY <1>3, <1>6, <1>8, <2>1
  <2> QED BY <1>2, <1>4, <1>5, <2>1, <2>2 DEF Paid
<1>9. CASE Filing(s, u) /\ ~Accepted(s, f)
  <2>1. local'[t] = Collected(s, f) /\ filed' = filed
    BY <1>9 DEF Claim, Become, CInv, TypeOK
  <2>2. Due(t)' \in {0, 1} /\ Due(t) = 1 /\ local'[t].filings = local[t].filings
    BY <1>3, <1>6, <1>9, <2>1
  <2> QED BY <1>2, <1>4, <1>5, <2>1, <2>2 DEF Paid
<1> QED BY <1>7, <1>8, <1>9

\* Steps of a turn between loading and saving the session.
LEMMA TurnPays ==
    ASSUME CInv, LockInv, FilingInv, NEW t \in Turns,
           \/ Deny(t) \/ Bind(t) \/ Verify(t) \/ Think(t)
           \/ Charge(t) \/ ChargeUnwritten(t) \/ Prompt(t) \/ Bill(t)
           \/ Claim(t) \/ Escalate(t) \/ EscalateFails(t) \/ Look(t)
           \/ Sync(t) \/ Raise(t)
    PROVE  FilingInv'
<1>1. local[t] \in Sessions /\ Single(t) /\ local \in [Turns -> Sessions] /\ at \in [Turns -> Steps]
  BY DEF CInv, TypeOK, FilingInv
<1>2. CASE Deny(t) \/ Bind(t) \/ Verify(t) \/ Sync(t) \/ Raise(t)
  <2>1. /\ pc[t] = "running" /\ at'[t] # "agents" /\ UNCHANGED <<pc, stored, read, request, todo>>
        /\ UNCHANGED <<filed, begun, unsaved>>
    BY <1>1, <1>2 DEF Deny, Bind, Verify, Sync, Raise, At, Move, Placed, KeepStore, store, ledger,
       CInv
  <2>2. Lapses(local[t], Bound(t)) /\ Bound(t).filings = local[t].filings
    BY <1>1 DEF Lapses, Bound, Sessions
  <2>3. Lapses(local[t], local'[t])
    <3>1. CASE Deny(t) \/ Sync(t) \/ Raise(t)
      BY <3>1 DEF Deny, Sync, Raise, store, Lapses
    <3>2. CASE Bind(t)
      BY <1>1, <2>2, <3>2 DEF Bind, Become
    <3>3. CASE Verify(t)
      <4>1. Bound(t) \in Sessions
        BY <3>3, BoundGood DEF Verify, CInv, Good
      <4>2. Lapses(Bound(t), Verified(Bound(t), request[t]))
        BY <4>1, VerifiedLapses
      <4>3. local'[t] = Verified(Bound(t), request[t])
        BY <1>1, <3>3 DEF Verify, Become
      <4> QED BY <2>2, <4>2, <4>3 DEF Lapses
    <3> QED BY <1>2, <3>1, <3>2, <3>3
  <2>4. Single(t)' /\ (Ahead(t)' => Ahead(t))
    BY <1>1, <2>1 DEF Single, Ahead
  <2> QED BY <2>1, <2>3, <2>4, LapsePays, SoleTurnPays
<1>3. CASE Think(t)
  <2>1. /\ pc[t] = "running" /\ UNCHANGED <<pc, stored>>
        /\ \A u \in Turns \ {t} : todo'[u] = todo[u]
    BY <1>3 DEF Think, At, KeepStore, CInv, TypeOK
  <2> QED BY <1>3, <2>1, ThinkPays, SoleTurnPays
<1>4. CASE \/ Charge(t) \/ ChargeUnwritten(t) \/ Prompt(t) \/ Bill(t)
           \/ Escalate(t) \/ EscalateFails(t) \/ Look(t)
  <2>1. PICK name : Agent(t, name)
    BY <1>4 DEF Charge, ChargeUnwritten, Answer, Prompt, Bill, Escalate, EscalateFails, HandOver,
       Look
  <2>2. filed' = filed
    BY <1>4 DEF Charge, ChargeUnwritten, Answer, Prompt, Bill, Escalate, EscalateFails, HandOver,
       Look
  <2>3. Lapses(local[t], local'[t])
    <3>1. \/ local'[t] = local[t]
          \/ local'[t] = [local[t] EXCEPT !.payment = None]
          \/ local'[t] = [local[t] EXCEPT !.payment = request[t].invoice, !.unanswered = TRUE]
          \/ local'[t] = [local[t] EXCEPT !.escalated = TRUE]
      BY <1>1, <1>4 DEF Charge, ChargeUnwritten, Answer, Prompt, Bill, Escalate, EscalateFails,
         HandOver, Look, Become
    <3> QED BY <1>1, <3>1 DEF Lapses, Sessions
  <2> QED BY <2>1, <2>2, <2>3, AgentAhead, LapsePays, SoleTurnPays
<1>5. CASE Claim(t)
  <2>1. Agent(t, "claims")
    BY <1>5 DEF Claim
  <2> QED BY <1>5, <2>1, AgentAhead, ClaimPays, SoleTurnPays
<1> QED BY <1>2, <1>3, <1>4, <1>5

\* Steps of the session store.
LEMMA StorePays ==
    ASSUME CInv, LockInv, FilingInv,
           (\E t \in Turns : StoreSteps(t)) \/ DieAll \/ LeaseOver \/ TimeToLiveOver
    PROVE  FilingInv'
<1>0. /\ filed \in Nat /\ begun \in Nat /\ unsaved \in Nat
      /\ pc \in [Turns -> Phases] /\ todo \in [Turns -> Seq(Agents)]
      /\ local \in [Turns -> Sessions] /\ read \in [Turns -> Sessions]
      /\ \A t \in Turns : Single(t)
  BY DEF CInv, TypeOK, FilingInv
<1>1. \A t, u \in Turns : pc[t] \in Inside /\ pc[u] \in Inside => t = u
  BY DEF LockInv, OwnsLock
<1>2. Open(Fresh) = 0 /\ Open(stored) \in {0, 1}
  BY DEF Open, Fresh
<1>3. filed <= begun + unsaved
  <2>1. ASSUME NEW t \in Turns, pc[t] = "running" PROVE filed <= begun + unsaved
    <3>1. filed + Due(t) <= begun + unsaved
      BY <2>1 DEF FilingInv, Paid
    <3>2. Due(t) \in {0, 1}
      BY DEF Due
    <3> QED BY <1>0, <3>1, <3>2
  <2>2. ASSUME \A t \in Turns : pc[t] # "running" PROVE filed <= begun + unsaved
    <3>1. filed + Open(stored) <= begun + unsaved
      BY <2>2 DEF FilingInv
    <3> QED BY <1>0, <1>2, <3>1
  <2> QED BY <2>1, <2>2
\* Whoever runs goes on running; nobody starts.
<1>4. ASSUME UNCHANGED <<filed, begun, unsaved>>, \A t \in Turns : Single(t)',
             stored' \in {stored, Fresh},
             \A t \in Turns : pc'[t] = "running" <=> pc[t] = "running",
             \A t \in Turns : pc[t] = "running" =>
                /\ local'[t] = local[t] /\ read'[t] = read[t] /\ at'[t] = at[t]
                /\ request'[t] = request[t] /\ todo'[t] = todo[t]
      PROVE  FilingInv'
  <2>1. ASSUME NEW t \in Turns, pc[t] = "running" PROVE Paid(t)'
    <3>1. Paid(t)
      BY <2>1 DEF FilingInv
    <3>2. /\ local'[t] = local[t] /\ read'[t] = read[t] /\ at'[t] = at[t]
          /\ request'[t] = request[t] /\ todo'[t] = todo[t]
      BY <1>4, <2>1
    <3> QED BY <1>4, <3>1, <3>2 DEF Paid, Due, Open, Ahead
  <2>2. (\A t \in Turns : pc[t] # "running") => filed + Open(stored') <= begun + unsaved
    BY <1>0, <1>2, <1>3, <1>4 DEF FilingInv
  <2> QED BY <1>4, <2>1, <2>2 DEF FilingInv
<1>5. ASSUME NEW t \in Turns, StoreSteps(t)
      PROVE  FilingInv'
  <2>1. Single(t)' /\ \A u \in Turns \ {t} : Single(u)'
    <3>1. \A u \in Turns : todo'[u] \in {todo[u], <<>>}
      BY <1>0, <1>5 DEF StoreSteps, Ask, Granted, Begin, Finish, Leave, Over, TurnedAway, Unread,
         SaveLost, Die, turnVars
    <3>2. ASSUME NEW u \in Turns PROVE Single(u)'
      <4>1. todo'[u] = todo[u] \/ DOMAIN todo'[u] = {}
        BY <3>1
      <4>2. Single(u)
        BY <1>0
      <4> QED BY <4>1, <4>2 DEF Single
    <3> QED BY <3>2
  <2>2. CASE \E r \in Utterances \cup Claims : Ask(t, r)
    <3>1. PICK r \in Utterances \cup Claims : Ask(t, r)
      BY <2>2
    <3> QED BY <1>0, <1>4, <2>1, <3>1 DEF Ask, Enter, Goto, ledger
  <2>3. CASE Granted(t)
    BY <1>0, <1>4, <2>1, <2>3 DEF Granted, Acquire, Goto, turnVars, ledger
  <2>4. CASE TurnedAway(t)
    BY <1>0, <1>4, <2>1, <2>4 DEF TurnedAway, BlockingTimeout, Goto, Over, Move
  <2>5. CASE Unread(t)
    BY <1>0, <1>4, <2>1, <2>5 DEF Unread, LoadFails, Goto, turnVars, ledger
  <2>6. CASE Leave(t)
    BY <1>0, <1>4, <2>1, <2>6 DEF Leave, Release, Goto, Forget, Over, Move
  <2>7. CASE Die(t) /\ pc[t] # "running"
    BY <1>0, <1>4, <2>1, <2>7 DEF Die, Crash, Goto, Forget, Over, Move
  <2>8. CASE Begin(t)
    <3>1. /\ pc[t] = "locked" /\ pc' = [pc EXCEPT ![t] = "running"]
          /\ local'[t] = stored /\ read'[t] = stored /\ at'[t] = "bind"
          /\ UNCHANGED <<stored, filed, begun, unsaved>>
      BY <1>0, <2>8 DEF Begin, Load, Goto, Move, ledger, CInv, TypeOK
    <3>2. \A u \in Turns : pc[u] # "running"
      BY <1>1, <3>1 DEF Inside
    <3>3. filed + Open(stored) <= begun + unsaved
      BY <3>2 DEF FilingInv
    <3>4. stored.filings \in Nat
      BY DEF CInv, TypeOK, Sessions
    <3>5. Due(t)' = Open(stored)
      BY <3>1 DEF Due, Open
    <3>6. Paid(t)'
      BY <1>0, <1>2, <3>1, <3>3, <3>4, <3>5 DEF Paid
    <3>7. \A u \in Turns : pc'[u] = "running" => u = t
      BY <1>0, <3>1, <3>2
    <3>8. pc'[t] = "running"
      BY <1>0, <3>1
    <3> QED BY <2>1, <3>6, <3>7, <3>8 DEF FilingInv
  <2>9. CASE Finish(t) \/ SaveLost(t) \/ (Die(t) /\ pc[t] = "running")
    <3>1. pc[t] = "running" /\ Paid(t)
      BY <2>9 DEF Finish, Save, SaveLost, SaveFails, FilingInv
    <3>2. \A u \in Turns : pc'[u] # "running"
      BY <1>0, <1>1, <2>9, <3>1 DEF Finish, Save, SaveLost, SaveFails, Die, Crash, Goto, Inside
    <3>3. filed' = filed /\ begun' = begun
      BY <2>9 DEF Finish, SaveLost, Die, Over, ledger
    <3>4. filed + Open(stored') <= begun + unsaved'
      <4>1. CASE Finish(t)
        <5>1. stored' = local[t] /\ unsaved' = unsaved
          BY <4>1 DEF Finish, Save, ledger
        <5>2. Open(local[t]) <= Due(t) /\ Due(t) \in {0, 1}
          BY DEF Open, Due
        <5>3. filed + Due(t) <= begun + unsaved /\ Open(local[t]) \in {0, 1}
          BY <3>1 DEF Paid, Open
        <5> QED BY <1>0, <5>1, <5>2, <5>3
      <4>2. CASE SaveLost(t) \/ Die(t)
        <5>1. /\ stored' = stored
              /\ unsaved' = unsaved + (local[t].filings - read[t].filings)
          BY <3>1, <4>2 DEF SaveLost, SaveFails, Die, Crash, Lost
        <5>2. stored \in {read[t], Fresh}
          BY <3>1 DEF LockInv, Current
        <5>3. local[t].filings \in Nat /\ read[t].filings \in Nat
          BY <1>0 DEF Sessions
        <5>4. /\ Open(stored) <= Open(read[t])
              /\ Open(stored) \in {0, 1} /\ Open(read[t]) \in {0, 1}
          BY <5>2 DEF Open, Fresh
        <5>5. filed + Open(read[t]) <= begun + unsaved + (local[t].filings - read[t].filings)
          BY <3>1 DEF Paid
        <5>6. stored' = stored => Open(stored') = Open(stored)
          OBVIOUS
        <5> HIDE DEF Open
        <5> QED BY <1>0, <5>1, <5>3, <5>4, <5>5, <5>6
      <4> QED BY <2>9, <4>1, <4>2
    <3> QED BY <2>1, <3>2, <3>3, <3>4 DEF FilingInv
  <2> QED BY <1>5, <2>2, <2>3, <2>4, <2>5, <2>6, <2>7, <2>8, <2>9 DEF StoreSteps
<1>6. CASE DieAll
  <2>1. /\ stored' = Fresh /\ UNCHANGED <<filed, begun, unsaved>>
        /\ \A t \in Turns : pc'[t] = "idle" /\ todo'[t] = <<>>
    BY <1>6 DEF DieAll, Restart, ledger
  <2> QED BY <1>0, <1>2, <1>3, <2>1 DEF FilingInv, Single
<1>7. CASE LeaseOver \/ TimeToLiveOver
  <2>1. UNCHANGED <<pc, local, read, at, request, todo, filed, begun, unsaved>>
    BY <1>7 DEF LeaseOver, LeaseExpires, TimeToLiveOver, Expire, turnVars, ledger
  <2>2. stored' \in {stored, Fresh}
    BY <1>7 DEF LeaseOver, LeaseExpires, TimeToLiveOver, Expire
  <2>3. \A t \in Turns : Single(t)'
    BY <1>0, <2>1 DEF Single
  <2> QED BY <1>4, <2>1, <2>2, <2>3
<1> QED BY <1>5, <1>6, <1>7

LEMMA FilingSteps == CInv /\ LockInv /\ FilingInv /\ [Next]_vars => FilingInv'
<1> SUFFICES ASSUME CInv, LockInv, FilingInv, [Next]_vars PROVE FilingInv'
  OBVIOUS
<1>1. CASE UNCHANGED vars
  BY <1>1 DEF vars, store, turnVars, ledger, FilingInv, Single, Paid, Due, Open, Ahead
<1> QED BY <1>1, TurnPays, StorePays DEF Next, StoreSteps

\* However many turns add details, are lost or are repeated, no more claims are filed than
\* were asked for and than lost turns had filed before.
THEOREM FiledOnlyAsAsked == ASSUME LeaseOutlivesTurn PROVE Spec => []ClaimsWereAskedFor
<1>1. Init => FilingInv
  BY DEF Init, StoreInit, FilingInv, Single, Open, Fresh
<1>2. CInv /\ FilingInv => ClaimsWereAskedFor
  <2> SUFFICES ASSUME CInv, FilingInv PROVE ClaimsWereAskedFor
    OBVIOUS
  <2>1. /\ filed \in Nat /\ begun \in Nat /\ unsaved \in Nat /\ Open(stored) \in {0, 1}
        /\ \A t \in Turns : Due(t) \in {0, 1}
    BY DEF CInv, TypeOK, Open, Due
  <2> QED BY <2>1 DEF FilingInv, Paid, ClaimsWereAskedFor
<1> QED BY <1>1, <1>2, FilingSteps, Invariance, LockHeld, PTL DEF Spec
=============================================================================

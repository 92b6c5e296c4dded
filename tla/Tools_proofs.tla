---------------------------- MODULE Tools_proofs ----------------------------
(***************************************************************************)
(* For any records, messages and number of conversations: what callers are *)
(* told by the specialists of Specialists, and what next_number's count    *)
(* can be relied on for in FollowUps.                                      *)
(***************************************************************************)
EXTENDS Specialists, FollowUps, FiniteSetTheorems, TLAPS

-----------------------------------------------------------------------------
(***************************************************************************)
(* Specialists.  The inductive invariant says of the draft what            *)
(* HeardIsOwn, ActionsAreTold and VerdictIsRecorded say of what is heard.  *)
(***************************************************************************)
Entities == [policies : Seq(Policies), claims : Seq(ClaimNumbers), invoices : Seq(Invoices)]

\* What each tool is asked about.
PlannedCalls ==
    [tool : PolicyLookups \cup BillingLookups \cup {"request_policy_change", "create_claim"},
     about : Policies]
    \cup [tool : ClaimLookups \cup {"escalate_claim_dispute"}, about : ClaimNumbers]
    \cup [tool : {"make_payment"}, about : Invoices]
    \cup [tool : AccountLookups \cup {"search_knowledge", "transfer_to_human"}, about : {None}]

\* A statement of the draft is about a record of the caller, or of nobody.  An invoice is
\* only ever mentioned to be paid, or not found.
Grounded(f) ==
    /\ f.about \in Numbers \cup {None}
    /\ f.kind \in AccountLookups => session.verified
    /\ f.about # None =>
         /\ session.verified
         /\ IF f.kind = "not_found" THEN OwnerOf(f.about) \in {session.customer, None}
            ELSE OwnerOf(f.about) = session.customer
    /\ f.about \in Invoices =>
         f.kind = "make_payment" \/ (f.kind = "not_found" /\ Owner[f.about] = None)

NoVerdict(text) ==
    /\ Say("yes") \notin text /\ Say("no") \notin text
    /\ \A p \in Policies : Fact("lookup_coverages", p) \notin text

TrueVerdict(text) ==
    /\ Say("yes") \in text =>
           \E p \in Policies : Owner[p] = session.customer /\ Asked(message) \in Covers[p]
    /\ Say("no") \in text =>
           \A p \in Policies : Fact("lookup_coverages", p) \in text =>
                                  Asked(message) \notin Covers[p]

Recorded ==
    /\ \A c \in changed : /\ c.kind \in Writes
                          /\ c.kind # "transfer_to_human" => session.verified
                          /\ Fact(c.kind, c.about) \in draft.segments
    /\ stage # "idle" /\ session.prompt # None =>
          session.verified /\ Fact("make_payment", session.prompt) \in draft.segments

DraftInv ==
    /\ session.verified => session.customer # None
    /\ entities \in Entities
    /\ notice \in {None, "verified", "not matched"}
    /\ \A f \in draft.segments : f = Fact(f.kind, f.about) /\ Grounded(f)
    /\ draft.needs => ~session.verified
    /\ TrueVerdict(draft.segments)
    /\ "policy" \in todo => NoVerdict(draft.segments)
    /\ Recorded
    /\ stage \in {"idle", "agents"} => heard = {}
    /\ stage = "idle" => draft = NothingYet /\ changed = {}
    /\ stage # "idle" => message \in Messages
    /\ stage = "composed" => heard = Composed
-----------------------------------------------------------------------------
LEMMA SomeElement ==
    ASSUME NEW S, NEW q \in Seq(S)
    PROVE  /\ Elements(q) \subseteq S
           /\ q # <<>> => q[1] \in S
  BY DEF Elements

\* The rows of a finite table are a sequence, whatever their order.
LEMMA OrdersAreSequences ==
    ASSUME NEW S, NEW T, S \subseteq T, IsFiniteSet(T)
    PROVE  Orders(S) \subseteq Seq(T)
<1>1. Cardinality(S) \in Nat
  BY FS_Subset, FS_CardinalityType
<1>2. \A q \in [1..Cardinality(S) -> S] : q \in Seq(T)
  BY <1>1
<1> QED BY <1>2 DEF Orders

\* augment leaves entities that name records.
LEMMA AugmentedEntities ==
    ASSUME NEW a, NEW m \in Messages, NEW e \in Entities, NEW d \in Augmented(a, m, e)
    PROVE  d \in Entities
<1>1. Relevant(m) \subseteq Policies /\ Single(m) \subseteq Policies
  BY DEF Relevant, Single
<1>2. OwnClaims \subseteq ClaimNumbers
  BY DEF OwnClaims
<1>3. IsFiniteSet(Policies) /\ IsFiniteSet(ClaimNumbers)
  BY NumbersAssumption, FS_Subset DEF Numbers
<1>4. \A S \in SUBSET Policies : WithPolicies(e, S) \subseteq Entities
  BY <1>3, OrdersAreSequences DEF WithPolicies, Entities
<1>5. \A S \in SUBSET ClaimNumbers : WithClaims(e, S) \subseteq Entities
  BY <1>3, OrdersAreSequences DEF WithClaims, Entities
<1>6. PolicyAugment(m, e) \subseteq Entities
  BY <1>1, <1>4 DEF PolicyAugment
<1>7. ClaimsAugment(m, e) \subseteq Entities
  BY <1>1, <1>2, <1>4, <1>5 DEF ClaimsAugment
<1>8. BillingAugment(m, e) \subseteq Entities
  BY <1>1, <1>4 DEF BillingAugment
<1> QED BY <1>6, <1>7, <1>8 DEF Augmented

LEMMA FnolType ==
    ASSUME NEW m \in Messages, NEW e \in Entities, TypeOK
    PROVE  Fnol(m, e) \in [policy : Policies \cup {None}, loss : BOOLEAN, date : BOOLEAN,
                           meant : BOOLEAN]
<1>1. session.claim \in [policy : Policies \cup {None}, loss : BOOLEAN, date : BOOLEAN,
                         meant : BOOLEAN]
  BY DEF TypeOK, Sessions
<1>2. e.policies # <<>> => e.policies[1] \in Policies
  BY SomeElement DEF Entities
<1> QED BY <1>1, <1>2 DEF Fnol, Hits

LEMMA CallTypes ==
    /\ \A p \in Policies :
          \A t \in PolicyLookups \cup BillingLookups \cup {"request_policy_change", "create_claim"} :
             Call(t, p) \in PlannedCalls
    /\ \A n \in ClaimNumbers :
          \A t \in ClaimLookups \cup {"escalate_claim_dispute"} : Call(t, n) \in PlannedCalls
    /\ \A i \in Invoices : Call("make_payment", i) \in PlannedCalls
    /\ \A t \in AccountLookups \cup {"search_knowledge", "transfer_to_human"} :
          Call(t, None) \in PlannedCalls
    /\ Search \in PlannedCalls
  BY DEF PlannedCalls, Call, Search

\* A specialist asks each tool about a record of its kind.
LEMMA PlanTypes ==
    ASSUME NEW a \in Agents, NEW m \in Messages, NEW e \in Entities, TypeOK
    PROVE  Plan(a, m, e) \subseteq PlannedCalls
<1> USE CallTypes DEF PolicyLookups, ClaimLookups, BillingLookups, AccountLookups
<1>1. /\ Elements(e.policies) \subseteq Policies
      /\ Elements(e.claims) \subseteq ClaimNumbers
      /\ e.claims # <<>> => e.claims[1] \in ClaimNumbers
      /\ e.invoices # <<>> => e.invoices[1] \in Invoices
  BY SomeElement DEF Entities
<1>2. PolicyPlan(m, e) \subseteq PlannedCalls
  <2> DEFINE lookup == IF Hits(m, {"the deductible"}) THEN "lookup_coverages"
                       ELSE IF Hits(m, {"add a driver"}) THEN "lookup_insured_assets"
                       ELSE "lookup_policy"
  <2>1. {Call(lookup, p) : p \in Elements(e.policies)} \subseteq PlannedCalls
    BY <1>1
  <2>2. {Call("request_policy_change", p) :
           p \in {q \in Elements(e.policies) : Changing(m)}} \subseteq PlannedCalls
    BY <1>1
  <2> QED BY <2>1, <2>2 DEF PolicyPlan
<1>3. ClaimsPlan(m, e) \subseteq PlannedCalls
  <2>1. Elements(e.claims) # {} => e.claims # <<>>
    BY DEF Elements
  <2>2. Fnol(m, e).policy # None => Call("create_claim", Fnol(m, e).policy) \in PlannedCalls
    BY FnolType
  <2>3. {Call("get_claim_status", n) : n \in Elements(e.claims)} \subseteq PlannedCalls
    BY <1>1
  <2> QED BY <1>1, <2>1, <2>2, <2>3 DEF ClaimsPlan
<1>4. BillingPlan(m, e) \subseteq PlannedCalls
  <2>1. {Call("get_billing_status", p) : p \in Elements(e.policies)} \subseteq PlannedCalls
    BY <1>1
  <2> QED BY <1>1, <2>1 DEF BillingPlan, Hits
<1>5. AccountPlan(m) \subseteq PlannedCalls
  BY DEF AccountPlan
<1>6. GeneralPlan(m) \subseteq PlannedCalls /\ EscalationPlan \subseteq PlannedCalls
  BY DEF GeneralPlan, EscalationPlan
<1>7. a \in {"policy", "claims", "billing", "account", "scheduling", "escalation", "general"}
  BY DEF Agents, Patterns
<1> QED BY <1>2, <1>3, <1>4, <1>5, <1>6, <1>7 DEF Plan

\* What post_process leaves alone, and the little it adds: nothing about a record.
Finished(p, s) ==
    /\ p.session \in Sessions
    /\ p.session.customer = s.customer /\ p.session.verified = s.verified
    /\ p.session.prompt = s.prompt
    /\ p.needs => ~s.verified
    /\ \A f \in p.facts \cup p.asks :
          \E kind \in {"yes", "no", "which policy", "missing details", "no claims",
                      "which billing", "which time", "welcome"} : f = Say(kind)

Unjudged(p) == Say("yes") \notin p.facts \cup p.asks /\ Say("no") \notin p.facts \cup p.asks

LEMMA PostFinishes ==
    ASSUME NEW a \in Agents, NEW m \in Messages, NEW e \in Entities, TypeOK,
           NEW calls, NEW failed, NEW s \in Sessions
    PROVE  /\ Finished(Post(a, m, e, calls, failed, s), s)
           /\ a # "policy" => Unjudged(Post(a, m, e, calls, failed, s))
<1> USE DEF Finish, Finished, Unjudged, Say, Fact
<1>1. Finished(PolicyPost(m, calls, failed, s), s)
  <2>1. Verdict(m, calls, failed) \subseteq {Say("yes"), Say("no")}
    BY DEF Verdict
  <2> QED BY <2>1 DEF PolicyPost
<1>2. Finished(ClaimsPost(m, e, calls, failed, s), s) /\ Unjudged(ClaimsPost(m, e, calls, failed, s))
  <2>1. /\ [s EXCEPT !.collecting = FALSE, !.claim = NoClaim] \in Sessions
        /\ [s EXCEPT !.collecting = TRUE, !.claim = Fnol(m, e)] \in Sessions
    BY FnolType DEF Sessions, NoClaim
  <2>2. \A x, y : [s EXCEPT !.collecting = x, !.claim = y].customer = s.customer
               /\ [s EXCEPT !.collecting = x, !.claim = y].verified = s.verified
               /\ [s EXCEPT !.collecting = x, !.claim = y].prompt = s.prompt
    BY DEF Sessions
  <2> QED BY <2>1, <2>2 DEF ClaimsPost
<1>3. Finished(BillingPost(m, e, calls, s), s) /\ Unjudged(BillingPost(m, e, calls, s))
  BY DEF BillingPost
<1>4. Finished(SchedulingPost(s), s) /\ Unjudged(SchedulingPost(s))
  BY DEF SchedulingPost
<1>5. Finished(GeneralPost(calls, s), s) /\ Unjudged(GeneralPost(calls, s))
  BY DEF GeneralPost
<1>6. Finished(Finish({}, FALSE, {}, s), s) /\ Unjudged(Finish({}, FALSE, {}, s))
  OBVIOUS
<1> HIDE DEF Finish, Finished, Unjudged, Say, Fact
<1>7. a \in {"policy", "claims", "billing", "account", "scheduling", "escalation", "general"}
  BY DEF Agents, Patterns
<1> QED BY <1>1, <1>2, <1>3, <1>4, <1>5, <1>6, <1>7 DEF Post

\* No one else looks up coverages.
LEMMA CoveragesAreThePolicyAgents ==
    ASSUME NEW a \in Agents, a # "policy", NEW m, NEW e, NEW c \in Plan(a, m, e)
    PROVE  c.tool # "lookup_coverages"
<1>1. a \in {"claims", "billing", "account", "scheduling", "escalation", "general"}
  BY DEF Agents, Patterns
<1>2. \A t, n : t # "lookup_coverages" => Call(t, n).tool # "lookup_coverages"
  BY DEF Call
<1>3. Search.tool # "lookup_coverages"
  BY <1>2 DEF Search
<1>4. ASSUME NEW d \in ClaimsPlan(m, e) PROVE d.tool # "lookup_coverages"
  <2>1. \/ d = Search
        \/ \E n : \/ d = Call("create_claim", n) \/ d = Call("get_adjuster_info", n)
                  \/ d = Call("escalate_claim_dispute", n) \/ d = Call("get_claim_status", n)
    BY <1>4 DEF ClaimsPlan, Hits
  <2> QED BY <1>2, <1>3, <2>1
<1>5. ASSUME NEW d \in BillingPlan(m, e) PROVE d.tool # "lookup_coverages"
  <2>1. \/ d = Search
        \/ \E n : d = Call("make_payment", n) \/ d = Call("get_billing_status", n)
    BY <1>5 DEF BillingPlan, Hits
  <2> QED BY <1>2, <1>3, <2>1
<1>6. ASSUME NEW d \in AccountPlan(m) PROVE d.tool # "lookup_coverages"
  <2>1. \E n : \/ d = Call("list_policies", n) \/ d = Call("list_claims", n)
               \/ d = Call("lookup_customer", n)
    BY <1>6 DEF AccountPlan, Hits
  <2> QED BY <1>2, <2>1
<1>7. \A d \in GeneralPlan(m) \cup EscalationPlan : d.tool # "lookup_coverages"
  BY DEF GeneralPlan, EscalationPlan, Call, Search
<1> QED BY <1>1, <1>4, <1>5, <1>6, <1>7 DEF Plan

-----------------------------------------------------------------------------
\* What comes of a call that the gate stops, and of one it lets through.
LEMMA Results ==
    ASSUME NEW c \in PlannedCalls, NEW failed, TypeOK, session.verified => session.customer # None
    PROVE  /\ Result(c, failed) \in {"ok", "not_verified", "not_found", "forbidden", "miss",
                                    "nothing_due", "tool_error"}
           /\ Result(c, failed) = "not_verified" => ~session.verified
           /\ Result(c, failed) = "ok" /\ c.tool \notin {"search_knowledge", "transfer_to_human"} =>
                  session.verified /\ (c.about # None => OwnerOf(c.about) = session.customer)
           /\ Result(c, failed) = "not_found" =>
                  session.verified /\ c.about # None /\ OwnerOf(c.about) = None
<1>1. Gate(c) \in {"ok", "not_verified", "not_found", "forbidden"}
  BY DEF Gate
<1>2. Failure(c) \in {"miss", "nothing_due", "tool_error"}
  BY DEF Failure
<1> QED BY <1>1, <1>2 DEF Result, Gate

LEMMA AbsorbedIsGrounded ==
    ASSUME NEW c \in PlannedCalls, NEW failed, TypeOK, session.verified => session.customer # None
    PROVE  /\ Grounded(Absorbed(c, failed))
           /\ Absorbed(c, failed) # Say("yes") /\ Absorbed(c, failed) # Say("no")
           /\ Result(c, failed) = "ok" => Absorbed(c, failed) = Fact(c.tool, c.about)
           /\ Absorbed(c, failed).kind = "lookup_coverages" =>
                  Result(c, failed) = "ok" /\ c.tool = "lookup_coverages"
<1> DEFINE r == Result(c, failed)
<1>1. Absorbed(c, failed) = [kind |-> IF r = "ok" THEN c.tool ELSE r,
                             about |-> IF r \in {"ok", "not_found"} THEN c.about ELSE None]
  BY DEF Absorbed, Fact, Say
<1>2. c.tool \notin {"yes", "no"} /\ r \notin {"yes", "no", "lookup_coverages"}
  BY Results DEF PlannedCalls, PolicyLookups, ClaimLookups, BillingLookups, AccountLookups
<1>3. c.about \in Numbers \cup {None}
  BY DEF PlannedCalls, Numbers
<1>4. c.about \in Invoices => c.tool = "make_payment" /\ OwnerOf(c.about) = Owner[c.about]
  BY NumbersAssumption DEF PlannedCalls, Numbers, OwnerOf
<1>5. c.tool \in AccountLookups =>
        c.tool \notin {"search_knowledge", "transfer_to_human", "not_found"}
  BY DEF AccountLookups
<1>6. c.about # None => c.tool \notin {"search_knowledge", "transfer_to_human", "not_found"}
  BY NumbersAssumption DEF PlannedCalls, Numbers, PolicyLookups, ClaimLookups, BillingLookups,
                           AccountLookups
<1>7. r \notin AccountLookups
  BY Results DEF AccountLookups
<1>8. None \notin Invoices
  BY NumbersAssumption DEF Numbers
<1> HIDE DEF r
<1>9. CASE r = "ok"
  <2>1. Absorbed(c, failed).kind = c.tool /\ Absorbed(c, failed).about = c.about
    BY <1>1, <1>9
  <2> QED BY <1>2, <1>3, <1>4, <1>5, <1>6, <1>9, <2>1, Results DEF Grounded, r, Fact, Say, Absorbed
<1>10. CASE r = "not_found"
  <2>1. Absorbed(c, failed).kind = "not_found" /\ Absorbed(c, failed).about = c.about
    BY <1>1, <1>10
  <2> QED BY <1>3, <1>4, <1>7, <1>10, <2>1, Results DEF Grounded, r, Say, Fact
<1>11. CASE r \notin {"ok", "not_found"}
  <2>1. Absorbed(c, failed).kind = r /\ Absorbed(c, failed).about = None
    BY <1>1, <1>11
  <2> QED BY <1>2, <1>7, <1>8, <1>11, <2>1 DEF Grounded, r, Say, Fact
<1> QED BY <1>9, <1>10, <1>11

\* A claim filed gets a number that was nobody's.
Filed ==
    /\ claimants' \in [ClaimNumbers -> Customers \cup {None}]
    /\ \A n \in ClaimNumbers : \/ claimants'[n] = claimants[n]
                               \/ claimants[n] = None /\ claimants'[n] = session.customer

LEMMA GroundedStays ==
    ASSUME NEW f, Grounded(f), Filed, session.verified => session.customer # None,
           session'.customer = session.customer, session'.verified = session.verified
    PROVE  Grounded(f)'
<1>1. \/ OwnerOf(f.about)' = OwnerOf(f.about)
      \/ OwnerOf(f.about) = None /\ OwnerOf(f.about)' = session.customer
  BY DEF Filed, OwnerOf
<1>2. f.about \in Numbers \cup {None} /\ (f.kind \in AccountLookups => session'.verified)
  BY DEF Grounded
<1>3. ASSUME f.about # None
      PROVE  /\ session'.verified
             /\ IF f.kind = "not_found" THEN OwnerOf(f.about)' \in {session'.customer, None}
                ELSE OwnerOf(f.about)' = session'.customer
  <2>1. /\ session.verified
        /\ f.kind = "not_found" => OwnerOf(f.about) \in {session.customer, None}
        /\ f.kind # "not_found" => OwnerOf(f.about) = session.customer
    BY <1>3 DEF Grounded
  <2>2. session'.verified /\ session.customer # None
    BY <2>1
  <2>3. f.kind = "not_found" => OwnerOf(f.about)' \in {session'.customer, None}
    BY <1>1, <2>1
  <2>4. f.kind # "not_found" => OwnerOf(f.about)' = session'.customer
    BY <1>1, <2>1, <2>2
  <2> QED BY <2>2, <2>3, <2>4
<1> QED BY <1>2, <1>3 DEF Grounded, OwnerOf

LEMMA FiledOnly ==
    ASSUME TypeOK, NEW filed, File(filed)
    PROVE  Filed
<1>1. session.customer \in Customers \cup {None}
  BY DEF TypeOK, Sessions
<1>2. claimants \in [ClaimNumbers -> Customers \cup {None}]
  BY DEF TypeOK
<1>3. CASE claimants' = claimants
  BY <1>2, <1>3 DEF Filed
<1>4. CASE \E n \in Unfiled : claimants' = [claimants EXCEPT ![n] = session.customer]
  BY <1>1, <1>2, <1>4 DEF Filed, Unfiled
<1> QED BY <1>3, <1>4 DEF File

-----------------------------------------------------------------------------
\* The session a turn hands to post_process differs in the prompt only, if it prompts.
LEMMA Prompts ==
    ASSUME TypeOK, NEW done \in SUBSET PlannedCalls
    PROVE  /\ Prompting(done) \in Sessions
           /\ Prompting(done).customer = session.customer
           /\ Prompting(done).verified = session.verified
           /\ \/ Prompting(done).prompt = session.prompt
              \/ \E c \in done : c.tool = "make_payment" /\ c.about = Prompting(done).prompt
<1> DEFINE prompted == {c.about : c \in {d \in done : d.tool = "make_payment"}}
<1>1. prompted \subseteq Invoices
  BY DEF PlannedCalls, PolicyLookups, BillingLookups, ClaimLookups, AccountLookups
<1>2. CASE prompted = {}
  <2>1. Prompting(done) = session
    BY <1>2 DEF Prompting
  <2> QED BY <2>1 DEF TypeOK
<1>3. CASE prompted # {}
  <2>1. PICK i \in prompted : Prompting(done) = [session EXCEPT !.prompt = i]
    BY <1>3 DEF Prompting
  <2>2. /\ Prompting(done).customer = session.customer
        /\ Prompting(done).verified = session.verified
        /\ Prompting(done).prompt = i
    BY <2>1 DEF TypeOK, Sessions
  <2>3. Prompting(done) \in Sessions
    BY <1>1, <2>1 DEF TypeOK, Sessions
  <2> QED BY <2>2, <2>3
<1> QED BY <1>2, <1>3

\* "Yes" and "no" rest on the coverages that were found.
LEMMA VerdictIsTrue ==
    ASSUME TypeOK, NEW m, NEW calls \in SUBSET PlannedCalls, NEW failed,
           session.verified => session.customer # None
    PROVE  /\ Say("yes") \in Verdict(m, calls, failed) =>
                  \E p \in Policies : Owner[p] = session.customer /\ Asked(m) \in Covers[p]
           /\ Say("no") \in Verdict(m, calls, failed) =>
                  \A c \in calls : c.tool = "lookup_coverages" /\ Result(c, failed) = "ok" =>
                                      Asked(m) \notin Covers[c.about]
<1> DEFINE found == {c.about : c \in {d \in {f \in calls : f.tool = "lookup_coverages"} :
                                        Result(d, failed) = "ok"}}
<1>1. \A p \in found : p \in Policies /\ Owner[p] = session.customer
  <2> SUFFICES ASSUME NEW c \in calls, c.tool = "lookup_coverages", Result(c, failed) = "ok"
               PROVE  c.about \in Policies /\ Owner[c.about] = session.customer
    OBVIOUS
  <2>1. c.about \in Policies
    BY DEF PlannedCalls, PolicyLookups, BillingLookups, ClaimLookups, AccountLookups
  <2>2. c.about # None /\ OwnerOf(c.about) = Owner[c.about]
    BY <2>1, NumbersAssumption DEF OwnerOf, Numbers
  <2> QED BY <2>1, <2>2, Results
<1>2. Say("yes") # Say("no")
  BY DEF Say, Fact
<1>3. ASSUME Say("yes") \in Verdict(m, calls, failed)
      PROVE  Included(found, Asked(m))
  BY <1>2, <1>3 DEF Verdict
<1>4. ASSUME Say("no") \in Verdict(m, calls, failed)
      PROVE  ~Included(found, Asked(m))
  BY <1>2, <1>4 DEF Verdict
<1>5. \A c \in calls : c.tool = "lookup_coverages" /\ Result(c, failed) = "ok" => c.about \in found
  OBVIOUS
<1> HIDE DEF found
<1> QED BY <1>1, <1>3, <1>4, <1>5 DEF Included

-----------------------------------------------------------------------------
\* A specialist's turn: what it says of records is the caller's, and what it does it says.
LEMMA FinishesKeeps ==
    ASSUME TypeOK, DraftInv, NEW a \in Agents, stage = "agents", stage' = "agents",
           message' = message, a \in todo, todo' = todo \ {a}, heard' = heard,
           NEW e \in Entities, entities' = e, notice' = notice,
           NEW calls \in SUBSET Plan(a, message, e), NEW failed, Finishes(a, e, calls, failed)
    PROVE  TypeOK' /\ DraftInv'
<1> DEFINE done == Done(calls, failed)
           s == Prompting(done)
           codes == {Result(c, failed) : c \in calls}
           post == IF "tool_error" \in codes THEN Finish({}, FALSE, {}, s)
                   ELSE Post(a, message, e, calls, failed, s)
           facts == {Absorbed(c, failed) : c \in calls} \cup post.facts
           added == IF facts # {} THEN facts ELSE post.asks
<1>1. /\ message \in Messages /\ heard = {}
      /\ session.verified => session.customer # None
  BY DEF DraftInv
<1>2. calls \subseteq PlannedCalls /\ done \subseteq calls
  BY <1>1, PlanTypes DEF Done
<1>3. /\ s \in Sessions /\ s.customer = session.customer /\ s.verified = session.verified
      /\ \/ s.prompt = session.prompt
         \/ \E c \in done : c.tool = "make_payment" /\ c.about = s.prompt
  BY <1>2, Prompts
<1>4. Finished(post, s) /\ (a # "policy" => Unjudged(post))
  <2>1. CASE "tool_error" \in codes
    <3>1. post = Finish({}, FALSE, {}, s)
      BY <2>1
    <3> HIDE DEF s, codes, post
    <3> QED BY <1>3, <3>1 DEF Finish, Finished, Unjudged
  <2>2. CASE "tool_error" \notin codes
    <3>1. post = Post(a, message, e, calls, failed, s)
      BY <2>2
    <3> HIDE DEF s, codes, post
    <3> QED BY <1>1, <1>3, <3>1, PostFinishes
  <2> QED BY <2>1, <2>2
<1>5. /\ session' = post.session
      /\ draft' = [segments |-> draft.segments \cup added,
                   needs  |-> draft.needs \/ post.needs \/ "not_verified" \in codes,
                   broken |-> draft.broken \/ "tool_error" \in codes]
      /\ changed' = changed \cup
             {[kind |-> c.tool, about |-> c.about, meant |-> Meant(c, e)] :
                 c \in {d \in done : d.tool \in Writes}}
  BY DEF Finishes
<1>6. Filed
  BY FiledOnly DEF Finishes
<1>7. /\ session' \in Sessions /\ session'.customer = session.customer
      /\ session'.verified = session.verified /\ session'.prompt = s.prompt
  BY <1>3, <1>4, <1>5 DEF Finished
<1>8. draft'.segments = draft.segments \cup added
  BY <1>5
<1>9. draft'.needs = (draft.needs \/ post.needs \/ "not_verified" \in codes)
  BY <1>5
<1>10. \A c \in done : Absorbed(c, failed) = Fact(c.tool, c.about) /\ Fact(c.tool, c.about) \in added
  <2> SUFFICES ASSUME NEW c \in done
               PROVE  Absorbed(c, failed) = Fact(c.tool, c.about) /\ Fact(c.tool, c.about) \in added
    OBVIOUS
  <2>1. c \in calls /\ c \in PlannedCalls /\ Result(c, failed) = "ok"
    BY <1>2 DEF Done
  <2>2. Absorbed(c, failed) = Fact(c.tool, c.about)
    BY <1>1, <2>1, AbsorbedIsGrounded
  <2>3. Absorbed(c, failed) \in facts
    BY <2>1 DEF facts
  <2>4. facts # {} /\ added = facts
    BY <2>3 DEF added
  <2> QED BY <2>2, <2>3, <2>4
<1>11. ASSUME NEW f \in added
       PROVE  \/ \E c \in calls : f = Absorbed(c, failed)
              \/ \E kind \in {"yes", "no", "which policy", "missing details", "no claims",
                      "which billing", "which time", "welcome"} : f = Say(kind)
  <2>1. f \in {Absorbed(c, failed) : c \in calls} \/ f \in post.facts \cup post.asks
    BY DEF facts, added
  <2>2. CASE f \in {Absorbed(c, failed) : c \in calls}
    BY <2>2
  <2>3. CASE f \in post.facts \cup post.asks
    <3> HIDE DEF s, codes, post, facts, added
    <3> QED BY <1>4, <2>3 DEF Finished
  <2> QED BY <2>1, <2>2, <2>3
<1> HIDE DEF s, post, facts, added
<1>12. TypeOK'
  BY <1>6, <1>7 DEF TypeOK, Filed
<1>13. \A f \in added : Grounded(f)
  <2> SUFFICES ASSUME NEW f \in added PROVE Grounded(f)
    OBVIOUS
  <2>1. CASE \E c \in calls : f = Absorbed(c, failed)
    BY <1>1, <1>2, <2>1, AbsorbedIsGrounded
  <2>2. CASE \E kind \in {"yes", "no", "which policy", "missing details", "no claims",
                      "which billing", "which time", "welcome"} : f = Say(kind)
    <3>0. \A kind : Say(kind).about = None /\ Say(kind).kind = kind
      BY DEF Say, Fact
    <3>1. f.about = None /\ f.kind \notin AccountLookups
      BY <2>2, <3>0 DEF AccountLookups
    <3>2. f.about \notin Invoices
      BY <3>1, NumbersAssumption DEF Numbers
    <3> QED BY <3>1, <3>2, Zenon DEF Grounded
  <2> QED BY <1>11, <2>1, <2>2
<1>13a. \A f \in added : f = Fact(f.kind, f.about)
  <2>1. \A k, n : Fact(k, n) = Fact(Fact(k, n).kind, Fact(k, n).about)
    BY DEF Fact
  <2>2. \A c : \/ Absorbed(c, failed) = Fact(c.tool, c.about)
               \/ Absorbed(c, failed) = Fact("not_found", c.about)
               \/ Absorbed(c, failed) = Fact(Result(c, failed), None)
    BY DEF Absorbed, Say
  <2>3. ASSUME NEW f \in added PROVE \E k, n : f = Fact(k, n)
    <3>1. (\E c \in calls : f = Absorbed(c, failed)) \/ \E k : f = Say(k)
      BY <1>11
    <3> QED BY <2>2, <3>1, Zenon DEF Say
  <2> QED BY <2>1, <2>3
<1>14. \A f \in draft'.segments : f = Fact(f.kind, f.about) /\ Grounded(f)'
  <2>1. \A f \in draft'.segments : f = Fact(f.kind, f.about) /\ Grounded(f)
    BY <1>8, <1>13, <1>13a DEF DraftInv
  <2> QED BY <1>1, <1>6, <1>7, <2>1, GroundedStays
<1>15. draft'.needs => ~session'.verified
  <2>1. post.needs => ~session.verified
    BY <1>3, <1>4 DEF Finished
  <2>2. "not_verified" \in codes => ~session.verified
    BY <1>1, <1>2, Results
  <2> QED BY <1>7, <1>9, <2>1, <2>2 DEF DraftInv
<1>16. TrueVerdict(draft.segments)' /\ ("policy" \in todo' => NoVerdict(draft.segments)')
  <2>1. \A f \in added : f \in {Absorbed(c, failed) : c \in calls} \cup post.facts \cup post.asks
    BY DEF added, facts
  <2>2. \A f \in added : f.kind = "lookup_coverages" =>
          \E c \in calls : /\ f = Absorbed(c, failed) /\ c.tool = "lookup_coverages"
                           /\ Result(c, failed) = "ok"
    <3>1. \A kind : Say(kind).kind = kind
      BY DEF Say, Fact
    <3> SUFFICES ASSUME NEW f \in added, f.kind = "lookup_coverages"
                 PROVE  \E c \in calls : /\ f = Absorbed(c, failed) /\ c.tool = "lookup_coverages"
                                         /\ Result(c, failed) = "ok"
      OBVIOUS
    <3>2. PICK c \in calls : f = Absorbed(c, failed)
      BY <1>11, <3>1
    <3>3. c \in PlannedCalls
      BY <1>2
    <3> QED BY <1>1, <3>2, <3>3, AbsorbedIsGrounded
  <2>3. \A p : Fact("lookup_coverages", p).kind = "lookup_coverages"
                /\ Fact("lookup_coverages", p).about = p
    BY DEF Fact
  <2>4. CASE a # "policy"
    <3>1. Say("yes") \notin added /\ Say("no") \notin added
      BY <1>1, <1>2, <1>4, <2>1, <2>4, AbsorbedIsGrounded DEF Unjudged
    <3>2. \A p : Fact("lookup_coverages", p) \notin added
      BY <2>2, <2>3, <2>4, CoveragesAreThePolicyAgents
    <3> QED BY <1>1, <1>7, <1>8, <3>1, <3>2 DEF DraftInv, TrueVerdict, NoVerdict
  <2>5. CASE a = "policy"
    <3>1. "policy" \notin todo' /\ NoVerdict(draft.segments)
      BY <2>5 DEF DraftInv
    <3>2. post = PolicyPost(message, calls, failed, s) \/ post = Finish({}, FALSE, {}, s)
      BY <2>5 DEF post, Post
    <3>3. /\ Say("yes") \in post.facts \cup post.asks => Say("yes") \in Verdict(message, calls, failed)
          /\ Say("no") \in post.facts \cup post.asks => Say("no") \in Verdict(message, calls, failed)
      <4>1. /\ Say("yes") # Say("which policy")
            /\ Say("no") # Say("which policy")
        BY DEF Say, Fact
      <4>2. CASE post = PolicyPost(message, calls, failed, s)
        BY <4>1, <4>2 DEF PolicyPost, Finish
      <4>3. CASE post = Finish({}, FALSE, {}, s)
        BY <4>3 DEF Finish
      <4> QED BY <3>2, <4>2, <4>3
    <3>4. /\ Say("yes") \in added => Say("yes") \in Verdict(message, calls, failed)
          /\ Say("no") \in added => Say("no") \in Verdict(message, calls, failed)
      BY <1>1, <1>2, <2>1, <3>3, AbsorbedIsGrounded
    <3>5. Say("yes") \in added =>
            \E p \in Policies : Owner[p] = session.customer /\ Asked(message) \in Covers[p]
      BY <1>1, <1>2, <3>4, VerdictIsTrue
    <3>6. ASSUME Say("no") \in added, NEW p \in Policies, Fact("lookup_coverages", p) \in added
          PROVE  Asked(message) \notin Covers[p]
      <4>1. PICK c \in calls : /\ Fact("lookup_coverages", p) = Absorbed(c, failed)
                               /\ c.tool = "lookup_coverages" /\ Result(c, failed) = "ok"
        BY <2>2, <2>3, <3>6
      <4>2. c.about = p
        BY <1>1, <1>2, <2>3, <4>1, AbsorbedIsGrounded DEF Fact
      <4> QED BY <1>1, <1>2, <3>4, <3>6, <4>1, <4>2, VerdictIsTrue
    <3> QED BY <1>1, <1>7, <1>8, <3>1, <3>5, <3>6 DEF TrueVerdict, NoVerdict
  <2> QED BY <2>4, <2>5
<1>17. Recorded'
  <2>1. \A c \in changed' : /\ c.kind \in Writes
                            /\ c.kind # "transfer_to_human" => session'.verified
                            /\ Fact(c.kind, c.about) \in draft'.segments
    <3> SUFFICES ASSUME NEW c \in changed'
                 PROVE  /\ c.kind \in Writes
                        /\ c.kind # "transfer_to_human" => session'.verified
                        /\ Fact(c.kind, c.about) \in draft'.segments
      OBVIOUS
    <3>1. CASE c \in changed
      BY <1>7, <1>8, <3>1 DEF DraftInv, Recorded
    <3>2. CASE c \notin changed
      <4>1. PICK d \in done : /\ d.tool \in Writes
                              /\ c = [kind |-> d.tool, about |-> d.about, meant |-> Meant(d, e)]
        BY <1>5, <3>2
      <4>2. c.kind = d.tool /\ c.about = d.about
        BY <4>1
      <4>3. d \in PlannedCalls /\ Result(d, failed) = "ok"
        BY <1>2 DEF Done
      <4>4. d.tool # "transfer_to_human" => session.verified
        <5>1. d.tool # "search_knowledge"
          BY <4>1 DEF Writes
        <5> QED BY <1>1, <4>3, <5>1, Results
      <4> QED BY <1>7, <1>8, <1>10, <4>1, <4>2, <4>4
    <3> QED BY <3>1, <3>2
  <2>2. ASSUME session'.prompt # None
        PROVE  session'.verified /\ Fact("make_payment", session'.prompt) \in draft'.segments
    <3>1. CASE s.prompt = session.prompt
      BY <1>7, <1>8, <2>2, <3>1 DEF DraftInv, Recorded
    <3>2. CASE \E c \in done : c.tool = "make_payment" /\ c.about = s.prompt
      <4>1. PICK c \in done : c.tool = "make_payment" /\ c.about = s.prompt
        BY <3>2
      <4>2. session.verified
        BY <1>1, <1>2, <4>1, Results DEF Done
      <4> QED BY <1>7, <1>8, <1>10, <4>1, <4>2
    <3> QED BY <1>3, <3>1, <3>2
  <2> QED BY <2>1, <2>2 DEF Recorded
<1> QED BY <1>1, <1>7, <1>12, <1>14, <1>15, <1>16, <1>17 DEF DraftInv

LEMMA HandleKeeps ==
    ASSUME TypeOK, DraftInv, NEW a \in Agents, Handle(a)
    PROVE  TypeOK' /\ DraftInv'
<1>1. /\ stage = "agents" /\ stage' = stage /\ message' = message /\ heard' = heard
      /\ notice' = notice /\ a \in todo /\ todo' = todo \ {a}
  BY DEF Handle
<1>2. PICK e \in Augmented(a, message, entities) :
         /\ entities' = e
         /\ \E calls \in SUBSET Plan(a, message, e) : \E failed : Finishes(a, e, calls, failed)
  <2>1. PICK e \in Augmented(a, message, entities) :
           /\ entities' = e
           /\ LET calls == {c \in Plan(a, message, e) : c.tool \in Scope(a)}
              IN  \E failed \in SUBSET {c \in calls : c.tool \in MayFail} :
                     Finishes(a, e, calls, failed)
    BY DEF Handle
  <2> DEFINE calls == {c \in Plan(a, message, e) : c.tool \in Scope(a)}
  <2>2. calls \in SUBSET Plan(a, message, e)
    OBVIOUS
  <2>3. \E failed : Finishes(a, e, calls, failed)
    BY <2>1
  <2> HIDE DEF calls
  <2> QED BY <2>1, <2>2, <2>3
<1>3. e \in Entities
  BY <1>1, AugmentedEntities DEF DraftInv
<1> QED BY <1>1, <1>2, <1>3, FinishesKeeps

-----------------------------------------------------------------------------
LEMMA ReceiveKeeps ==
    ASSUME TypeOK, DraftInv, NEW m \in Messages, Receive(m)
    PROVE  TypeOK' /\ DraftInv'
<1>1. /\ stage = "idle" /\ stage' = "agents" /\ message' = m /\ claimants' = claimants
      /\ draft' = draft /\ heard' = heard /\ changed' = changed
      /\ entities' = [policies |-> m.policies, claims |-> m.claims, invoices |-> m.invoices]
      /\ todo' = IF session.collecting /\ ~Leaves(m) THEN {"claims"} ELSE Detected(m)
  BY DEF Receive
<1>2. draft = NothingYet /\ heard = {} /\ changed = {}
  BY <1>1 DEF DraftInv
<1>3. m.policies \in Seq(Policies) /\ entities' \in Entities
  BY <1>1, MessagesAssumption DEF Entities
<1>4. todo' \subseteq Agents
  <2>1. {"claims", "general"} \subseteq Agents
    BY DEF Agents, Patterns
  <2>2. Detected(m) \subseteq Agents
    BY <2>1 DEF Detected
  <2> QED BY <1>1, <2>1, <2>2
<1>5. /\ Routed(m) \in Sessions /\ Routed(m).prompt = None
      /\ Routed(m).verified = session.verified /\ Routed(m).customer = session.customer
  BY DEF Routed, TypeOK, Sessions, NoClaim
<1>6. Proves(m) => Candidate(m) \in Customers \cup {None}
  <2>1. m.policies # <<>> => m.policies[1] \in Policies
    BY <1>3, SomeElement
  <2> QED BY <2>1, OwnerAssumption DEF Proves, Candidate, TypeOK, Sessions
<1>7. /\ session' \in Sessions /\ session'.prompt = None
      /\ session'.verified => session'.customer # None
      /\ notice' \in {None, "verified", "not matched"}
  <2>1. CASE session.verified \/ ~Proves(m)
    <3>1. notice' = None /\ session' = Routed(m)
      BY <2>1 DEF Receive
    <3> QED BY <1>5, <3>1 DEF DraftInv
  <2>2. CASE ~(session.verified \/ ~Proves(m))
    <3>1. PICK right \in {r \in BOOLEAN : r => Candidate(m) # None} :
             /\ notice' = IF right THEN "verified" ELSE "not matched"
             /\ session' = [Routed(m) EXCEPT !.customer = Candidate(m), !.verified = right]
      BY <2>2 DEF Receive
    <3>2. /\ session' \in Sessions /\ session'.prompt = None /\ session'.verified = right
          /\ session'.customer = Candidate(m)
      BY <1>5, <1>6, <2>2, <3>1 DEF Sessions
    <3> QED BY <3>1, <3>2
  <2> QED BY <2>1, <2>2
<1>8. TypeOK'
  BY <1>1, <1>4, <1>7 DEF TypeOK
<1>9. TrueVerdict(draft.segments)' /\ NoVerdict(draft.segments)' /\ Recorded' /\ ~draft'.needs
  BY <1>1, <1>2, <1>7 DEF TrueVerdict, NoVerdict, Recorded, NothingYet
<1>10. draft'.segments = {}
  BY <1>1, <1>2 DEF NothingYet
<1> QED BY <1>1, <1>2, <1>3, <1>7, <1>8, <1>9, <1>10 DEF DraftInv

LEMMA InitDraft == Init => TypeOK /\ DraftInv
<1> SUFFICES ASSUME Init PROVE TypeOK /\ DraftInv
  OBVIOUS
<1>1. TypeOK
  BY ClaimantsAssumption DEF Init, TypeOK
<1>2. entities \in Entities
  BY DEF Init, NoEntities, Entities
<1>3. draft.segments = {} /\ ~draft.needs
  BY DEF Init, NothingYet
<1> QED BY <1>1, <1>2, <1>3 DEF Init, DraftInv, TrueVerdict, NoVerdict, Recorded

\* Once every specialist has run the draft changes no more.
LEMMA RestKeeps ==
    ASSUME TypeOK, DraftInv, Compose \/ Raise \/ Render
    PROVE  TypeOK' /\ DraftInv'
<1>1. /\ claimants' = claimants /\ session' = session /\ message' = message
      /\ entities' = entities /\ todo' \subseteq todo /\ notice' = notice /\ draft' = draft
      /\ changed' = changed /\ stage # "idle"
      /\ stage' \in {"composed", "told"}
      /\ stage' = "composed" => heard' = Composed
  BY DEF Compose, Raise, Render
<1>2. Composed' = Composed
  BY <1>1 DEF Composed
<1>3. TypeOK'
  BY <1>1 DEF TypeOK
<1>4. \A f : Grounded(f)' <=> Grounded(f)
  BY <1>1 DEF Grounded, OwnerOf
<1>5. TrueVerdict(draft.segments)' /\ ("policy" \in todo' => NoVerdict(draft.segments)')
  BY <1>1 DEF DraftInv, TrueVerdict, NoVerdict
<1>6. Recorded'
  BY <1>1 DEF DraftInv, Recorded
<1> QED BY <1>1, <1>2, <1>3, <1>4, <1>5, <1>6 DEF DraftInv

LEMMA EndKeeps ==
    ASSUME TypeOK, DraftInv, End
    PROVE  TypeOK' /\ DraftInv'
<1>1. /\ claimants' = claimants /\ session' = session /\ todo' = todo /\ stage' = "idle"
      /\ message' = None /\ entities' = NoEntities /\ notice' = None /\ draft' = NothingYet
      /\ heard' = {} /\ changed' = {}
  BY DEF End
<1>2. TypeOK'
  BY <1>1 DEF TypeOK
<1>3. draft'.segments = {} /\ ~draft'.needs
  BY <1>1 DEF NothingYet
<1>4. entities' \in Entities
  BY <1>1 DEF NoEntities, Entities
<1> QED BY <1>1, <1>2, <1>3, <1>4 DEF DraftInv, TrueVerdict, NoVerdict, Recorded

-----------------------------------------------------------------------------
\* compose says what the draft does, and leaves out only what an unverified caller did.
LEMMA ComposedSays ==
    ASSUME TypeOK, DraftInv, stage = "composed"
    PROVE  /\ \A f \in heard : \/ f \in draft.segments
                               \/ \E kind \in {"please verify", "not enough", "verified", "not matched"} :
                                     f = Say(kind)
           /\ session.verified => \A f \in draft.segments : f \in heard
           /\ \A f \in draft.segments : f \in heard \/ draft.needs
<1>1. heard = Composed /\ notice \in {None, "verified", "not matched"}
  BY DEF DraftInv
<1>2. draft.needs => ~session.verified
  BY DEF DraftInv
<1> QED BY <1>1, <1>2 DEF Composed

LEMMA ComposedIsGrounded ==
    ASSUME TypeOK, DraftInv, stage = "composed", NEW f \in heard
    PROVE  f = Fact(f.kind, f.about) /\ Grounded(f)
<1>1. CASE f \in draft.segments
  BY <1>1 DEF DraftInv
<1>2. ASSUME NEW kind \in {"please verify", "not enough", "verified", "not matched"}, f = Say(kind)
      PROVE  f = Fact(f.kind, f.about) /\ Grounded(f)
  <2>1. f.kind = kind /\ f.about = None /\ f = Fact(f.kind, f.about)
    BY <1>2 DEF Say, Fact
  <2>2. f.about \notin Invoices /\ f.kind \notin AccountLookups
    BY <2>1, NumbersAssumption DEF Numbers, AccountLookups
  <2> QED BY <2>1, <2>2, Zenon DEF Grounded
<1> QED BY <1>1, <1>2, ComposedSays

\* What is put on record, or prompted for, is in the composed answer.
LEMMA ComposedTells ==
    ASSUME TypeOK, DraftInv, stage = "composed"
    PROVE  /\ \A c \in changed : /\ c.kind \in Writes
                                 /\ \/ Fact(c.kind, c.about) \in heard
                                    \/ c.kind = "transfer_to_human" /\ ~session.verified
           /\ session.prompt # None =>
                  session.verified /\ Fact("make_payment", session.prompt) \in heard
<1>1. \A c \in changed : /\ c.kind \in Writes
                         /\ c.kind # "transfer_to_human" => session.verified
                         /\ Fact(c.kind, c.about) \in draft.segments
  BY DEF DraftInv, Recorded
<1>2. session.prompt # None =>
          session.verified /\ Fact("make_payment", session.prompt) \in draft.segments
  BY DEF DraftInv, Recorded
<1>3. draft.needs => ~session.verified
  BY DEF DraftInv
<1> QED BY <1>1, <1>2, <1>3, ComposedSays

\* The language model adds nothing about a record that the draft does not mention.
LEMMA RewritingIsGrounded ==
    ASSUME TypeOK, DraftInv, stage = "composed", NEW text \in Rewritings(heard),
           Valid(heard, text), NEW f \in text
    PROVE  \/ f \in heard
           \/ \E g \in heard : \E n \in ClaimNumbers :
                 f = Fact("get_claim_status", n) /\ g.about = n
<1> SUFFICES ASSUME f \notin heard
             PROVE  \E g \in heard : \E n \in ClaimNumbers :
                       f = Fact("get_claim_status", n) /\ g.about = n
  OBVIOUS
<1>1. PICK n \in ClaimNumbers : f = Fact("get_claim_status", n)
  BY DEF Rewritings
<1>2. f.kind = "get_claim_status" /\ f.about = n /\ n # None
  BY <1>1, NumbersAssumption DEF Fact, Numbers
<1>3. Fact("number", n) \in Protected(text)
  BY <1>2 DEF Protected
<1>4. Fact("number", n) \in Protected(heard)
  BY <1>3 DEF Valid
<1>5. Fact("number", n).kind \notin Writes
  BY DEF Fact, Writes
<1>6. PICK g \in heard : Fact("number", n) = Fact("number", g.about)
  BY <1>4, <1>5 DEF Protected
<1>7. g.about = n
  BY <1>6 DEF Fact
<1> QED BY <1>1, <1>7

\* And what the draft mentions of records it leaves in.
LEMMA RewritingTells ==
    ASSUME NEW text, Valid(heard, text)
    PROVE  /\ \A f \in heard : f.kind \in Writes => f \in text
           /\ \A f \in heard :
                 f.about # None /\ f.kind \notin {"request_policy_change", "create_claim"} =>
                     \E g \in text : g.about = f.about
<1>1. Protected(heard) = Protected(text)
  BY DEF Valid
<1>2. ASSUME NEW f \in heard, f.kind \in Writes
      PROVE  f \in text
  <2>1. f \in Protected(text)
    BY <1>1, <1>2 DEF Protected
  <2>2. \A n : Fact("number", n).kind \notin Writes
    BY DEF Fact, Writes
  <2> QED BY <1>2, <2>1, <2>2 DEF Protected
<1>3. ASSUME NEW f \in heard, f.about # None,
             f.kind \notin {"request_policy_change", "create_claim"}
      PROVE  \E g \in text : g.about = f.about
  <2>1. Fact("number", f.about) \in Protected(text)
    BY <1>1, <1>3 DEF Protected
  <2>2. Fact("number", f.about).kind \notin Writes
    BY DEF Fact, Writes
  <2>3. PICK g \in text : Fact("number", f.about) = Fact("number", g.about)
    BY <2>1, <2>2 DEF Protected
  <2> QED BY <2>3 DEF Fact
<1> QED BY <1>2, <1>3

-----------------------------------------------------------------------------
\* What the caller is told, before and after the rewriting.
HeardInv == TypeOK /\ DraftInv /\ HeardIsOwn /\ ActionsAreTold

LEMMA BeforeTold == TypeOK /\ DraftInv /\ stage # "told" => HeardIsOwn /\ ActionsAreTold
<1> SUFFICES ASSUME TypeOK, DraftInv, stage # "told"
             PROVE  HeardIsOwn /\ ActionsAreTold
  OBVIOUS
<1>1. ActionsAreTold
  BY DEF ActionsAreTold
<1>2. CASE stage = "composed"
  <2> SUFFICES ASSUME NEW f \in heard
               PROVE  /\ f.kind \in AccountLookups => session.verified
                      /\ f.about # None =>
                            session.verified /\ OwnerOf(f.about) \in {session.customer, None}
                      /\ f.about # None /\ f.kind # "not_found" /\ stage = "composed" =>
                            OwnerOf(f.about) = session.customer
    BY <1>1 DEF HeardIsOwn
  <2> QED BY <1>2, ComposedIsGrounded DEF Grounded
<1>3. CASE stage # "composed"
  <2>1. heard = {}
    BY <1>3 DEF TypeOK, DraftInv
  <2> QED BY <1>1, <2>1 DEF HeardIsOwn
<1> QED BY <1>2, <1>3

LEMMA RenderTells ==
    ASSUME TypeOK, DraftInv, Render
    PROVE  HeardIsOwn' /\ ActionsAreTold'
<1>1. /\ stage = "composed" /\ stage' = "told" /\ session' = session
      /\ claimants' = claimants /\ changed' = changed
  BY DEF Render
<1>2. PICK text \in Rewritings(heard) : heard' = IF Valid(heard, text) THEN text ELSE heard
  BY DEF Render
<1>3. ASSUME NEW f \in heard'
      PROVE  \/ f \in heard
             \/ \E g \in heard : \E n \in ClaimNumbers :
                   f = Fact("get_claim_status", n) /\ g.about = n
  BY <1>1, <1>2, RewritingIsGrounded
<1>4. HeardIsOwn'
  <2> SUFFICES ASSUME NEW f \in heard'
               PROVE  /\ f.kind \in AccountLookups => session.verified
                      /\ f.about # None =>
                            session.verified /\ OwnerOf(f.about) \in {session.customer, None}
    BY <1>1 DEF HeardIsOwn, OwnerOf
  <2>1. CASE f \in heard
    BY <1>1, <2>1, ComposedIsGrounded DEF Grounded
  <2>2. ASSUME NEW g \in heard, NEW n \in ClaimNumbers,
               f = Fact("get_claim_status", n), g.about = n
        PROVE  /\ f.kind \in AccountLookups => session.verified
               /\ f.about # None =>
                     session.verified /\ OwnerOf(f.about) \in {session.customer, None}
    <3>1. f.kind \notin AccountLookups /\ f.about = n /\ n # None
      BY <2>2, NumbersAssumption DEF Fact, AccountLookups, Numbers
    <3>2. Grounded(g)
      BY <1>1, ComposedIsGrounded
    <3> QED BY <2>2, <3>1, <3>2 DEF Grounded
  <2> QED BY <1>3, <2>1, <2>2
<1>5. ASSUME NEW c \in changed
      PROVE  \/ Fact(c.kind, c.about) \in heard'
             \/ c.kind = "transfer_to_human" /\ ~session.verified
  <2>1. Fact(c.kind, c.about).kind = c.kind
    BY DEF Fact
  <2> QED BY <1>1, <1>2, <2>1, ComposedTells, RewritingTells
<1>6. ASSUME session.prompt # None
      PROVE  Fact("make_payment", session.prompt) \in heard'
  <2> DEFINE prompt == session.prompt
  <2>1. Fact("make_payment", prompt) \in heard
    BY <1>1, <1>6, ComposedTells
  <2>2. Fact("make_payment", prompt).kind = "make_payment" /\ Fact("make_payment", prompt).about = prompt
    BY DEF Fact
  <2>3. prompt \in Invoices /\ prompt \notin ClaimNumbers
    BY <1>6, NumbersAssumption DEF TypeOK, Sessions
  <2>4. session.customer # None /\ Owner[prompt] = session.customer
    <3>1. session.verified /\ OwnerOf(prompt) = session.customer
      BY <1>1, <1>6, <2>1, <2>2, ComposedIsGrounded DEF Grounded
    <3> QED BY <2>3, <3>1 DEF OwnerOf, DraftInv
  <2>5. CASE heard' = heard
    BY <2>1, <2>5
  <2>6. CASE Valid(heard, text) /\ heard' = text
    <3>1. PICK g \in text : g.about = prompt
      BY <1>6, <2>1, <2>2, <2>6, RewritingTells
    <3>2. g \in heard
      <4>1. \A n : Fact("get_claim_status", n).about = n
        BY DEF Fact
      <4> QED BY <1>3, <2>3, <2>6, <3>1, <4>1
    <3>3. g = Fact("make_payment", prompt)
      BY <1>1, <2>3, <2>4, <3>1, <3>2, ComposedIsGrounded DEF Grounded
    <3> QED BY <2>6, <3>3
  <2> QED BY <1>2, <2>5, <2>6
<1> QED BY <1>1, <1>4, <1>5, <1>6 DEF ActionsAreTold

LEMMA RaiseTells ==
    ASSUME Raise
    PROVE  HeardIsOwn' /\ ActionsAreTold'
<1>1. heard' = {Say("error")} /\ stage' = "told"
  BY DEF Raise
<1>2. Say("error").kind \notin AccountLookups /\ Say("error").about = None
  BY DEF Say, Fact, AccountLookups
<1> QED BY <1>1, <1>2 DEF HeardIsOwn, ActionsAreTold

LEMMA BeforeToldNext == (TypeOK /\ DraftInv /\ stage # "told" => HeardIsOwn /\ ActionsAreTold)'
  BY BeforeTold, PTL

LEMMA StepHeard == HeardInv /\ [Next]_vars => HeardInv'
<1> SUFFICES ASSUME HeardInv, [Next]_vars PROVE HeardInv'
  OBVIOUS
<1>0. TypeOK /\ DraftInv
  BY DEF HeardInv
<1>1. ASSUME NEW m \in Messages, Receive(m) PROVE HeardInv'
  <2>1. TypeOK' /\ DraftInv' /\ stage' # "told"
    BY <1>0, <1>1, ReceiveKeeps DEF Receive
  <2>2. HeardIsOwn' /\ ActionsAreTold'
    BY <2>1, BeforeToldNext
  <2> QED BY <2>1, <2>2 DEF HeardInv
<1>2. ASSUME NEW a \in Agents, Handle(a) PROVE HeardInv'
  <2>1. TypeOK' /\ DraftInv' /\ stage' # "told"
    BY <1>0, <1>2, HandleKeeps DEF Handle
  <2>2. HeardIsOwn' /\ ActionsAreTold'
    BY <2>1, BeforeToldNext
  <2> QED BY <2>1, <2>2 DEF HeardInv
<1>3. CASE Compose
  <2>1. TypeOK' /\ DraftInv' /\ stage' # "told"
    BY <1>0, <1>3, RestKeeps DEF Compose
  <2>2. HeardIsOwn' /\ ActionsAreTold'
    BY <2>1, BeforeToldNext
  <2> QED BY <2>1, <2>2 DEF HeardInv
<1>4. CASE Raise
  BY <1>0, <1>4, RestKeeps, RaiseTells DEF HeardInv
<1>5. CASE Render
  BY <1>0, <1>5, RestKeeps, RenderTells DEF HeardInv
<1>6. CASE End
  <2>1. TypeOK' /\ DraftInv' /\ stage' # "told"
    BY <1>0, <1>6, EndKeeps DEF End
  <2>2. HeardIsOwn' /\ ActionsAreTold'
    BY <2>1, BeforeToldNext
  <2> QED BY <2>1, <2>2 DEF HeardInv
<1>7. CASE UNCHANGED vars
  <2>1. TypeOK'
    BY <1>0, <1>7 DEF vars, TypeOK
  <2>2. DraftInv'
    <3>1. \A f : Grounded(f)' <=> Grounded(f)
      BY <1>7 DEF vars, Grounded, OwnerOf
    <3>2. Composed' = Composed
      BY <1>7 DEF vars, Composed
    <3>3. /\ TrueVerdict(draft.segments)' <=> TrueVerdict(draft.segments)
          /\ NoVerdict(draft.segments)' <=> NoVerdict(draft.segments)
          /\ Recorded' <=> Recorded
      BY <1>7 DEF vars, TrueVerdict, NoVerdict, Recorded
    <3> QED BY <1>0, <1>7, <3>1, <3>2, <3>3 DEF vars, DraftInv
  <2>3. HeardIsOwn' /\ ActionsAreTold'
    BY <1>7 DEF vars, HeardInv, HeardIsOwn, ActionsAreTold, OwnerOf
  <2> QED BY <2>1, <2>2, <2>3 DEF HeardInv
<1> QED BY <1>1, <1>2, <1>3, <1>4, <1>5, <1>6, <1>7 DEF Next

LEMMA HeardInvariance == Spec => []HeardInv
<1>1. Init => HeardInv
  <2> SUFFICES ASSUME Init PROVE HeardInv
    OBVIOUS
  <2>1. TypeOK /\ DraftInv
    BY InitDraft
  <2>2. stage # "told"
    BY DEF Init
  <2> QED BY <2>1, <2>2, BeforeTold DEF HeardInv
<1> QED BY <1>1, StepHeard, PTL DEF Spec

\* The session, the shared entities and the stages of a turn keep their types.
THEOREM TurnsTypeCorrect == Spec => []TypeOK
<1>1. HeardInv => TypeOK
  BY DEF HeardInv
<1> QED BY <1>1, HeardInvariance, PTL

\* Whatever is planned, absorbed, composed and rewritten, a caller hears only of own records.
THEOREM NobodyElsesRecords == Spec => []HeardIsOwn
<1>1. HeardInv => HeardIsOwn
  BY DEF HeardInv
<1> QED BY <1>1, HeardInvariance, PTL

\* What a turn has put on record or prompted for survives compose and the language model.
THEOREM NothingDoneUntold == Spec => []ActionsAreTold
<1>1. HeardInv => ActionsAreTold
  BY DEF HeardInv
<1> QED BY <1>1, HeardInvariance, PTL

\* "Yes" and "no" about a coverage are what the caller's schedules say.
THEOREM VerdictsAreTrue == Spec => []VerdictIsRecorded
<1>1. HeardInv => VerdictIsRecorded
  <2> SUFFICES ASSUME TypeOK, DraftInv, stage = "composed"
               PROVE  TrueVerdict(heard)
    BY DEF HeardInv, VerdictIsRecorded, TrueVerdict
  <2>1. TrueVerdict(draft.segments)
    BY DEF DraftInv
  <2>2. /\ Say("yes") \in heard => Say("yes") \in draft.segments
        /\ Say("no") \in heard => Say("no") \in draft.segments
        /\ \A p \in Policies : Fact("lookup_coverages", p) \in heard =>
                                  Fact("lookup_coverages", p) \in draft.segments
    BY ComposedSays DEF Say, Fact
  <2> QED BY <2>1, <2>2 DEF TrueVerdict
<1> QED BY <1>1, HeardInvariance, PTL

-----------------------------------------------------------------------------
(***************************************************************************)
(* FollowUps.  A table's numbers are 1..k, so that the count a filing took *)
(* is short exactly when another filing was committed since.               *)
(***************************************************************************)
Dense(S) == \E k \in Nat : S = 1..k

\* What a conversation counted is out of date exactly when it has been overtaken.
Counted(c) ==
    /\ Busy(c, FilingTools) => /\ call[c].count <= Count(call[c].tool)
                               /\ c \in overtaken <=> call[c].count < Count(call[c].tool)
    /\ Busy(c, FilingTools \ Open) => CustomerOf[c] # None
    /\ Busy(c, {"escalate_claim_dispute"}) => call[c].about \in DOMAIN claims
    /\ call[c] = Idle => c \notin overtaken
    /\ call[c] = Raised => c \in overtaken

CountInv ==
    /\ Dense(DOMAIN claims) /\ Dense(DOMAIN tickets)
    /\ overtaken \subseteq Conversations
    /\ \A c \in Conversations : Counted(c)

USE DEF FilingTools, TicketTools, Open, Idle, Raised, Busy

-----------------------------------------------------------------------------
LEMMA DenseSize ==
    ASSUME NEW S, Dense(S)
    PROVE  Cardinality(S) \in Nat /\ S = 1..Cardinality(S)
<1>1. PICK k \in Nat : S = 1..k
  BY DEF Dense
<1>2. Cardinality(1..k) = IF 1 > k THEN 0 ELSE k - 1 + 1
  BY FS_Interval
<1> QED BY <1>1, <1>2

\* The number after the last is the only one that keeps a table dense, and adds one row.
LEMMA DenseGrows ==
    ASSUME NEW S, Dense(S), NEW n, n = Cardinality(S) + 1
    PROVE  Dense(S \cup {n}) /\ Cardinality(S \cup {n}) = n
<1>1. Cardinality(S) \in Nat /\ S = 1..Cardinality(S)
  BY DenseSize
<1>2. n \in Nat /\ S = 1..(n - 1) /\ n > 0
  BY <1>1
<1>3. \A x : x \in S \cup {n} <=> x \in 1..n
  <2>1. \A x : x \in S <=> x \in 1..(n - 1)
    BY <1>2
  <2> QED BY <1>2, <2>1
<1>4. S \cup {n} = 1..n
  BY <1>3
<1>5. Dense(S \cup {n})
  BY <1>2, <1>4 DEF Dense
<1>6. Cardinality(1..n) = n
  <2>1. Cardinality(1..n) = IF 1 > n THEN 0 ELSE n - 1 + 1
    BY <1>2, FS_Interval
  <2> QED BY <1>2, <2>1
<1> QED BY <1>4, <1>5, <1>6

LEMMA CountIsNatural ==
    ASSUME Dense(DOMAIN claims), Dense(DOMAIN tickets), NEW tool
    PROVE  Count(tool) \in Nat /\ DOMAIN Table(tool) = 1..Count(tool)
<1>1. /\ Cardinality(DOMAIN claims) \in Nat /\ DOMAIN claims = 1..Cardinality(DOMAIN claims)
      /\ Cardinality(DOMAIN tickets) \in Nat /\ DOMAIN tickets = 1..Cardinality(DOMAIN tickets)
  BY DenseSize
<1> QED BY <1>1 DEF Count, Table

-----------------------------------------------------------------------------
LEMMA InitTypes == FInit => FTypeOK
<1> SUFFICES ASSUME FInit PROVE FTypeOK
  OBVIOUS
<1>1. \A n \in DOMAIN SeedClaims : SeedClaims[n] \in Customers
  BY SeedAssumption
<1>2. call \in [Conversations -> Calls]
  BY DEF FInit, Calls
<1> QED BY <1>1, <1>2 DEF FInit, FTypeOK

\* No step takes a row away, so that what a call is about stays on file.
LEMMA StepTypes ==
    ASSUME FTypeOK, CountInv, [FNext]_fvars
    PROVE  FTypeOK'
<1>0. ASSUME UNCHANGED <<claims, tickets>>, contact' \in [Customers -> Contacts],
             overtaken' \subseteq Conversations, call' \in [Conversations -> Calls]
      PROVE  FTypeOK'
  BY <1>0 DEF FTypeOK, Calls
<1>1. ASSUME NEW c \in Conversations, NEW tool \in FilingTools, Begin(c, tool)
      PROVE  FTypeOK'
  <2>1. PICK n \in Subjects(c, tool) :
           call' = [call EXCEPT ![c] = [tool |-> tool, about |-> n, count |-> Count(tool)]]
    BY <1>1 DEF Begin
  <2>2. n \in DOMAIN claims \cup {None}
    BY DEF Subjects, Own
  <2>3. Count(tool) \in Nat
    BY CountIsNatural DEF CountInv
  <2>4. call' \in [Conversations -> Calls]
    BY <2>1, <2>2, <2>3 DEF FTypeOK, Calls
  <2> QED BY <1>0, <1>1, <2>4 DEF Begin, FTypeOK
<1>2. ASSUME NEW c \in Conversations, CommitClaim(c)
      PROVE  FTypeOK'
  <2>1. CustomerOf[c] \in Customers
    BY <1>2, CustomerAssumption DEF CommitClaim, CountInv, Counted
  <2>2. \A n \in DOMAIN claims' :
           claims'[n] \in [customer : Customers, disputed : BOOLEAN,
                          by : Conversations \cup {None}]
    BY <1>2, <2>1 DEF CommitClaim, FTypeOK
  <2>3. DOMAIN claims \subseteq DOMAIN claims' /\ tickets' = tickets
    BY <1>2 DEF CommitClaim
  <2>4. \A n \in DOMAIN tickets' :
           tickets'[n] \in [customer : Customers \cup {None}, tool : TicketTools,
                           about : DOMAIN claims' \cup {None}, by : Conversations]
    BY <2>3 DEF FTypeOK
  <2>5. call' \in [Conversations -> Calls']
    BY <1>2, <2>3 DEF CommitClaim, Answered, FTypeOK, Calls
  <2> QED BY <1>2, <2>2, <2>4, <2>5 DEF CommitClaim, Overtake, FTypeOK
<1>3. ASSUME NEW c \in Conversations, CommitTicket(c)
      PROVE  FTypeOK'
  <2>1. /\ call[c].tool \in TicketTools /\ call[c].about \in DOMAIN claims \cup {None}
        /\ CustomerOf[c] \in Customers \cup {None}
    BY <1>3, CustomerAssumption DEF CommitTicket, FTypeOK, Calls
  <2>2. Row(c) \in [customer : Customers \cup {None}, tool : TicketTools,
                   about : DOMAIN claims \cup {None}, by : Conversations]
    BY <2>1 DEF Row
  <2>3. DOMAIN claims' = DOMAIN claims
    BY <1>3 DEF CommitTicket
  <2>4. \A n \in DOMAIN tickets' :
           tickets'[n] \in [customer : Customers \cup {None}, tool : TicketTools,
                           about : DOMAIN claims' \cup {None}, by : Conversations]
    BY <1>3, <2>2, <2>3 DEF CommitTicket, FTypeOK
  <2>5. \A n \in DOMAIN claims' :
           claims'[n] \in [customer : Customers, disputed : BOOLEAN,
                          by : Conversations \cup {None}]
    <3> SUFFICES ASSUME NEW n \in DOMAIN claims
                 PROVE  claims'[n] \in [customer : Customers, disputed : BOOLEAN,
                                       by : Conversations \cup {None}]
      BY <2>3
    <3>1. claims'[n] = claims[n] \/ claims'[n] = [claims[n] EXCEPT !.disputed = TRUE]
      BY <1>3 DEF CommitTicket
    <3> QED BY <3>1 DEF FTypeOK
  <2>6. call' \in [Conversations -> Calls']
    BY <1>3, <2>3 DEF CommitTicket, Answered, FTypeOK, Calls
  <2> QED BY <1>3, <2>4, <2>5, <2>6 DEF CommitTicket, Overtake, FTypeOK
<1>4. ASSUME NEW c \in Conversations, Collide(c) \/ NextTurn(c)
      PROVE  FTypeOK'
  <2>1. call' \in [Conversations -> Calls]
    BY <1>4 DEF Collide, NextTurn, FTypeOK, Calls
  <2> QED BY <1>0, <1>4, <2>1 DEF Collide, NextTurn, FTypeOK
<1>5. ASSUME NEW c \in Conversations, Schedule(c) \/ Revise(c) \/ UpdateContact(c)
      PROVE  FTypeOK'
  BY <1>0, <1>5 DEF Schedule, Revise, UpdateContact, FTypeOK
<1>6. CASE UNCHANGED fvars
  BY <1>0, <1>6 DEF fvars, FTypeOK
<1> QED BY <1>1, <1>2, <1>3, <1>4, <1>5, <1>6 DEF FNext

-----------------------------------------------------------------------------
LEMMA InitCounts == FInit => CountInv
<1> SUFFICES ASSUME FInit PROVE CountInv
  OBVIOUS
<1>1. DOMAIN claims = 1..Len(SeedClaims) /\ Len(SeedClaims) \in Nat
  BY SeedAssumption DEF FInit
<1>2. DOMAIN tickets = 1..0
  BY DEF FInit
<1>3. Dense(DOMAIN claims) /\ Dense(DOMAIN tickets)
  BY <1>1, <1>2 DEF Dense
<1>4. \A c \in Conversations : Counted(c)
  BY DEF FInit, Counted
<1> QED BY <1>3, <1>4 DEF FInit, CountInv

\* A new row: whoever counted that table is overtaken, nobody else is.
LEMMA RowAdded ==
    ASSUME FTypeOK, CountInv, NEW c \in Conversations, Busy(c, FilingTools),
           call' = [call EXCEPT ![c] = Idle], overtaken' = Overtake(c),
           DOMAIN claims \subseteq DOMAIN claims',
           \A t \in FilingTools : Count(t)' = IF (t = "create_claim") = (call[c].tool = "create_claim")
                                        THEN Count(t) + 1 ELSE Count(t)
    PROVE  \A d \in Conversations : Counted(d)'
<1> SUFFICES ASSUME NEW d \in Conversations
             PROVE  Counted(d)'
  OBVIOUS
<1>1. CASE d = c
  <2>1. call'[d] = Idle /\ d \notin overtaken'
    BY <1>1 DEF FTypeOK, Overtake
  <2> QED BY <2>1 DEF Counted
<1>2. CASE d # c
  <2>1. call'[d] = call[d] /\ call[d] \in Calls /\ Counted(d)
    BY <1>2 DEF FTypeOK, CountInv
  <2>2. d \in overtaken' <=> \/ d \in overtaken
                             \/ /\ Busy(d, FilingTools)
                                /\ (call[d].tool = "create_claim") = (call[c].tool = "create_claim")
    BY <1>2 DEF Overtake
  <2>3. ASSUME Busy(d, FilingTools)
        PROVE  Counted(d)'
    <3>1. call[d].tool \in FilingTools /\ call[d].count \in Nat /\ Count(call[d].tool) \in Nat
      BY <2>1, <2>3, CountIsNatural DEF Calls, CountInv
    <3>2. Count(call[d].tool)' =
             IF (call[d].tool = "create_claim") = (call[c].tool = "create_claim")
             THEN Count(call[d].tool) + 1 ELSE Count(call[d].tool)
      BY <2>1, <3>1
    <3>3. /\ call[d].count <= Count(call[d].tool)
          /\ d \in overtaken <=> call[d].count < Count(call[d].tool)
          /\ Busy(d, FilingTools \ Open) => CustomerOf[d] # None
          /\ Busy(d, {"escalate_claim_dispute"}) => call[d].about \in DOMAIN claims
      BY <2>1, <2>3 DEF Counted
    <3>4. call[d] # Idle /\ call[d] # Raised
      BY <2>3
    <3> QED BY <2>1, <2>2, <3>1, <3>2, <3>3, <3>4 DEF Counted
  <2>4. CASE ~Busy(d, FilingTools)
    BY <2>1, <2>2, <2>4 DEF Counted
  <2> QED BY <2>3, <2>4
<1> QED BY <1>1, <1>2

\* The number a commit gets through with is the next one.
LEMMA NextNumber ==
    ASSUME FTypeOK, CountInv, NEW c \in Conversations, Busy(c, FilingTools),
           Number(c) \notin DOMAIN Table(call[c].tool)
    PROVE  Number(c) = Count(call[c].tool) + 1
<1>1. /\ Count(call[c].tool) \in Nat
      /\ DOMAIN Table(call[c].tool) = 1..Count(call[c].tool)
  BY CountIsNatural DEF CountInv
<1>2. call[c].count \in Nat /\ call[c].count <= Count(call[c].tool)
  BY DEF FTypeOK, Calls, CountInv, Counted
<1> QED BY <1>1, <1>2 DEF Number

LEMMA StepCounts ==
    ASSUME FTypeOK, CountInv, [FNext]_fvars
    PROVE  CountInv'
<1>0. ASSUME UNCHANGED <<claims, tickets>>, overtaken' \subseteq Conversations,
             \A c \in Conversations : Counted(c)'
      PROVE  CountInv'
  BY <1>0 DEF CountInv
<1>1. ASSUME UNCHANGED <<claims, tickets>>
      PROVE  \A tool : Count(tool)' = Count(tool) /\ Table(tool)' = Table(tool)
  BY <1>1 DEF Count, Table
<1>2. ASSUME NEW c \in Conversations, NEW tool \in FilingTools, Begin(c, tool)
      PROVE  CountInv'
  <2>1. PICK n \in Subjects(c, tool) :
           call' = [call EXCEPT ![c] = [tool |-> tool, about |-> n, count |-> Count(tool)]]
    BY <1>2 DEF Begin
  <2>2. UNCHANGED <<claims, tickets>> /\ UNCHANGED overtaken /\ call[c] = Idle
    BY <1>2 DEF Begin
  <2>3. Count(tool) \in Nat
    BY CountIsNatural DEF CountInv
  <2>4. ASSUME NEW d \in Conversations
        PROVE  Counted(d)'
    <3>1. CASE d = c
      <4>1. call'[d] = [tool |-> tool, about |-> n, count |-> Count(tool)] /\ d \notin overtaken'
        BY <2>1, <2>2, <3>1 DEF FTypeOK, CountInv, Counted
      <4>2. tool \in FilingTools \ Open => CustomerOf[c] # None
        BY <1>2 DEF Begin
      <4>3. tool = "escalate_claim_dispute" => n \in DOMAIN claims
        BY DEF Subjects, Own
      <4> QED BY <1>1, <2>2, <2>3, <3>1, <4>1, <4>2, <4>3 DEF Counted
    <3>2. CASE d # c
      <4>1. call'[d] = call[d] /\ Counted(d)
        BY <2>1, <3>2 DEF FTypeOK, CountInv
      <4> QED BY <1>1, <2>2, <4>1 DEF Counted
    <3> QED BY <3>1, <3>2
  <2> QED BY <1>0, <2>2, <2>4 DEF CountInv
<1>3. ASSUME NEW c \in Conversations, CommitClaim(c)
      PROVE  CountInv'
  <2>1. /\ call[c].tool = "create_claim" /\ Busy(c, FilingTools)
        /\ Number(c) \notin DOMAIN Table(call[c].tool)
    BY <1>3 DEF CommitClaim, Table
  <2>2. Number(c) = Cardinality(DOMAIN claims) + 1
    BY <2>1, NextNumber DEF Count, Table
  <2>3. DOMAIN claims' = DOMAIN claims \cup {Number(c)} /\ tickets' = tickets
    BY <1>3 DEF CommitClaim
  <2>4. Dense(DOMAIN claims') /\ Cardinality(DOMAIN claims') = Cardinality(DOMAIN claims) + 1
    BY <2>2, <2>3, DenseGrows DEF CountInv
  <2>5. \A t \in FilingTools : Count(t)' = IF (t = "create_claim") = (call[c].tool = "create_claim")
                                     THEN Count(t) + 1 ELSE Count(t)
    BY <2>1, <2>3, <2>4 DEF Count, Table
  <2>6. call' = [call EXCEPT ![c] = Idle] /\ overtaken' = Overtake(c)
    BY <1>3 DEF CommitClaim, Answered
  <2>7. \A d \in Conversations : Counted(d)'
    <3>1. DOMAIN claims \subseteq DOMAIN claims' /\ Busy(c, FilingTools)
      BY <2>1, <2>3
    <3> QED BY <3>1, <2>5, <2>6, RowAdded
  <2>8. Dense(DOMAIN tickets') /\ overtaken' \subseteq Conversations
    BY <2>3, <2>6 DEF CountInv, Overtake
  <2> QED BY <2>4, <2>7, <2>8 DEF CountInv
<1>4. ASSUME NEW c \in Conversations, CommitTicket(c)
      PROVE  CountInv'
  <2>1. /\ call[c].tool # "create_claim" /\ Busy(c, FilingTools)
        /\ Number(c) \notin DOMAIN Table(call[c].tool)
    BY <1>4 DEF CommitTicket, Table
  <2>2. Number(c) = Cardinality(DOMAIN tickets) + 1
    BY <2>1, NextNumber DEF Count, Table
  <2>3. DOMAIN tickets' = DOMAIN tickets \cup {Number(c)} /\ DOMAIN claims' = DOMAIN claims
    BY <1>4 DEF CommitTicket
  <2>4. Dense(DOMAIN tickets') /\ Cardinality(DOMAIN tickets') = Cardinality(DOMAIN tickets) + 1
    BY <2>2, <2>3, DenseGrows DEF CountInv
  <2>5. \A t \in FilingTools : Count(t)' = IF (t = "create_claim") = (call[c].tool = "create_claim")
                                     THEN Count(t) + 1 ELSE Count(t)
    BY <2>1, <2>3, <2>4 DEF Count, Table
  <2>6. call' = [call EXCEPT ![c] = Idle] /\ overtaken' = Overtake(c)
    BY <1>4 DEF CommitTicket, Answered
  <2>7. \A d \in Conversations : Counted(d)'
    <3>1. DOMAIN claims \subseteq DOMAIN claims' /\ Busy(c, FilingTools)
      BY <2>1, <2>3
    <3> QED BY <3>1, <2>5, <2>6, RowAdded
  <2>8. Dense(DOMAIN claims') /\ overtaken' \subseteq Conversations
    BY <2>3, <2>6 DEF CountInv, Overtake
  <2> QED BY <2>4, <2>7, <2>8 DEF CountInv
<1>5. ASSUME NEW c \in Conversations, Collide(c)
      PROVE  CountInv'
  <2>1. c \in overtaken
    <3>1. /\ Count(call[c].tool) \in Nat
          /\ DOMAIN Table(call[c].tool) = 1..Count(call[c].tool)
      BY CountIsNatural DEF CountInv
    <3>2. call[c].count \in Nat /\ Counted(c) /\ Busy(c, FilingTools)
      BY <1>5 DEF Collide, FTypeOK, Calls, CountInv
    <3> QED BY <1>5, <3>1, <3>2 DEF Collide, Counted, Number
  <2>2. /\ call' = [call EXCEPT ![c] = Raised]
        /\ UNCHANGED <<claims, tickets>> /\ UNCHANGED overtaken
    BY <1>5 DEF Collide
  <2>3. \A d \in Conversations : Counted(d)'
    BY <1>1, <2>1, <2>2 DEF FTypeOK, CountInv, Counted
  <2> QED BY <1>0, <2>2, <2>3 DEF CountInv
<1>6. ASSUME NEW c \in Conversations, NextTurn(c)
      PROVE  CountInv'
  <2>1. /\ call' = [call EXCEPT ![c] = Idle]
        /\ UNCHANGED <<claims, tickets>> /\ overtaken' = overtaken \ {c}
    BY <1>6 DEF NextTurn
  <2>2. \A d \in Conversations : Counted(d)'
    BY <1>1, <2>1 DEF FTypeOK, CountInv, Counted
  <2> QED BY <1>0, <2>1, <2>2 DEF CountInv
<1>7. CASE UNCHANGED <<claims, tickets, call, overtaken>>
  BY <1>0, <1>1, <1>7 DEF CountInv, Counted
<1>8. ASSUME NEW c \in Conversations, Schedule(c) \/ Revise(c) \/ UpdateContact(c)
      PROVE  CountInv'
  BY <1>7, <1>8 DEF Schedule, Revise, UpdateContact
<1> QED BY <1>2, <1>3, <1>4, <1>5, <1>6, <1>7, <1>8 DEF FNext, fvars

-----------------------------------------------------------------------------
LEMMA Invariance == FSpec => [](FTypeOK /\ CountInv)
<1>1. FInit => FTypeOK /\ CountInv
  BY InitTypes, InitCounts
<1>2. FTypeOK /\ CountInv /\ [FNext]_fvars => (FTypeOK /\ CountInv)'
  BY StepTypes, StepCounts
<1> QED BY <1>1, <1>2, PTL DEF FSpec

\* The tables, the calls and the contact details are well typed in every reachable state.
THEOREM TypeCorrect == FSpec => []FTypeOK
BY Invariance, PTL

\* Numbers never leave a gap, so that the next one is always count + 1.
THEOREM Density == FSpec => []NumbersAreDense
<1>1. CountInv => NumbersAreDense
  BY DenseSize DEF CountInv, NumbersAreDense
<1> QED BY <1>1, Invariance, PTL

\* A filing collides exactly when another was committed since it counted.
THEOREM Causes == FSpec => []FailsForCause
<1>1. FTypeOK /\ CountInv => FailsForCause
  <2> SUFFICES ASSUME FTypeOK, CountInv, NEW c \in Conversations
               PROVE  /\ Busy(c, FilingTools) =>
                            (Number(c) \in DOMAIN Table(call[c].tool) <=> c \in overtaken)
                      /\ call[c] = Raised => c \in overtaken
    BY DEF FailsForCause
  <2>1. ASSUME Busy(c, FilingTools)
        PROVE  Number(c) \in DOMAIN Table(call[c].tool) <=> c \in overtaken
    <3>1. /\ Count(call[c].tool) \in Nat
          /\ DOMAIN Table(call[c].tool) = 1..Count(call[c].tool)
      BY CountIsNatural DEF CountInv
    <3>2. call[c].count \in Nat /\ Counted(c)
      BY <2>1 DEF FTypeOK, Calls, CountInv
    <3> QED BY <2>1, <3>1, <3>2 DEF Counted, Number
  <2> QED BY <2>1 DEF CountInv, Counted
<1> QED BY <1>1, Invariance, PTL

\* What callers were told is on file, and stays so.
THEOREM Promises == FSpec => []ToldIsOnFile
<1>1. FInit => ToldIsOnFile
  BY DEF FInit, ToldIsOnFile
<1>2. ASSUME FTypeOK, CountInv, ToldIsOnFile, [FNext]_fvars
      PROVE  ToldIsOnFile'
  <2>1. CASE UNCHANGED <<claims, tickets, told>>
    BY <1>2, <2>1 DEF ToldIsOnFile, ClaimOnFile, TicketOnFile
  <2>2. ASSUME NEW c \in Conversations, CommitClaim(c)
        PROVE  ToldIsOnFile'
    <3>1. /\ told' = told \cup {Told(c, "create_claim", Number(c), None)}
          /\ tickets' = tickets
          /\ \A n \in DOMAIN claims : n \in DOMAIN claims' /\ claims'[n] = claims[n]
          /\ Number(c) \in DOMAIN claims' /\ claims'[Number(c)].by = c
          /\ claims'[Number(c)].customer = CustomerOf[c]
      BY <2>2 DEF CommitClaim, Answered
    <3>2. ASSUME NEW t \in told
          PROVE  IF t.tool = "create_claim" THEN ClaimOnFile(t)' ELSE TicketOnFile(t)'
      BY <1>2, <3>1 DEF ToldIsOnFile, ClaimOnFile, TicketOnFile
    <3> QED BY <3>1, <3>2 DEF ToldIsOnFile, Told, ClaimOnFile
  <2>3. ASSUME NEW c \in Conversations, CommitTicket(c)
        PROVE  ToldIsOnFile'
    <3>1. \A t \in told' : t \in told \/ t = Told(c, call[c].tool, Number(c), call[c].about)
      BY <2>3 DEF CommitTicket, Answered
    <3>2. /\ DOMAIN claims' = DOMAIN claims
          /\ DOMAIN tickets' = DOMAIN tickets \cup {Number(c)} /\ tickets'[Number(c)] = Row(c)
          /\ \A n \in DOMAIN tickets : tickets'[n] = tickets[n]
      BY <2>3 DEF CommitTicket
    <3>3. \A n \in DOMAIN claims :
             /\ claims'[n].by = claims[n].by
             /\ claims'[n].customer = claims[n].customer
             /\ claims[n].disputed => claims'[n].disputed
      <4> SUFFICES ASSUME NEW n \in DOMAIN claims
                   PROVE  /\ claims'[n].by = claims[n].by
                          /\ claims'[n].customer = claims[n].customer
                          /\ claims[n].disputed => claims'[n].disputed
        OBVIOUS
      <4>1. claims'[n] = claims[n] \/ claims'[n] = [claims[n] EXCEPT !.disputed = TRUE]
        BY <2>3 DEF CommitTicket
      <4> QED BY <1>2, <4>1 DEF FTypeOK
    <3>4. ASSUME call[c].tool = "escalate_claim_dispute"
          PROVE  call[c].about \in DOMAIN claims /\ claims'[call[c].about].disputed
      <4>1. call[c].about \in DOMAIN claims
        BY <1>2, <3>4 DEF CountInv, Counted
      <4>2. claims'[call[c].about] = [claims[call[c].about] EXCEPT !.disputed = TRUE]
        BY <2>3, <3>4, <4>1 DEF CommitTicket
      <4> QED BY <1>2, <4>1, <4>2 DEF FTypeOK
    <3>5. ASSUME NEW t, t = Told(c, call[c].tool, Number(c), call[c].about)
          PROVE  TicketOnFile(t)' /\ t.tool # "create_claim"
      <4>1. /\ t.to = c /\ t.tool = call[c].tool
            /\ t.number = Number(c) /\ t.about = call[c].about
        BY <3>5 DEF Told
      <4>2. call[c].tool # "create_claim"
        BY <2>3 DEF CommitTicket
      <4>3. /\ tickets'[Number(c)].by = c /\ tickets'[Number(c)].tool = call[c].tool
            /\ tickets'[Number(c)].about = call[c].about
        BY <3>2 DEF Row
      <4> QED BY <3>2, <3>4, <4>1, <4>2, <4>3 DEF TicketOnFile
    <3>6. ASSUME NEW t \in told, t.tool = "create_claim"
          PROVE  ClaimOnFile(t)'
      <4>1. ClaimOnFile(t)
        BY <1>2, <3>6 DEF ToldIsOnFile
      <4>2. t.number \in DOMAIN claims /\ t.number \in DOMAIN claims'
        BY <3>2, <4>1 DEF ClaimOnFile
      <4>3. /\ claims'[t.number].by = claims[t.number].by
            /\ claims'[t.number].customer = claims[t.number].customer
        BY <3>3, <4>2
      <4> QED BY <4>1, <4>2, <4>3 DEF ClaimOnFile
    <3>7. ASSUME NEW t \in told, t.tool # "create_claim"
          PROVE  TicketOnFile(t)'
      <4>1. TicketOnFile(t)
        BY <1>2, <3>7 DEF ToldIsOnFile
      <4>2. /\ t.number \in DOMAIN tickets /\ t.number \in DOMAIN tickets'
            /\ tickets'[t.number] = tickets[t.number]
        BY <3>2, <4>1 DEF TicketOnFile
      <4>3. t.tool = "escalate_claim_dispute" =>
               t.about \in DOMAIN claims' /\ claims'[t.about].disputed
        <5> SUFFICES ASSUME t.tool = "escalate_claim_dispute"
                     PROVE  t.about \in DOMAIN claims' /\ claims'[t.about].disputed
          OBVIOUS
        <5>1. t.about \in DOMAIN claims /\ claims[t.about].disputed
          BY <4>1 DEF TicketOnFile
        <5>2. claims[t.about].disputed => claims'[t.about].disputed
          BY <3>3, <5>1
        <5> QED BY <3>2, <5>1, <5>2
      <4> QED BY <4>1, <4>2, <4>3 DEF TicketOnFile
    <3> SUFFICES ASSUME NEW t \in told'
                 PROVE  IF t.tool = "create_claim" THEN ClaimOnFile(t)' ELSE TicketOnFile(t)'
      BY DEF ToldIsOnFile
    <3> QED BY <3>1, <3>5, <3>6, <3>7
  <2> QED BY <1>2, <2>1, <2>2, <2>3
       DEF FNext, fvars, Begin, Collide, NextTurn, Schedule, Revise, UpdateContact
<1> QED BY <1>1, <1>2, Invariance, PTL DEF FSpec
=============================================================================

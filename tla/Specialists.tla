---------------------------- MODULE Specialists ----------------------------
(***************************************************************************)
(* What one conversation is answered, turn by turn: Orchestrator.run from  *)
(* detect to compose, the seven specialists with the tools they plan, and  *)
(* the rewriting of the draft by the language model.  Conversation has the *)
(* lock, the row and the bare replies around this; here no message is a    *)
(* bare yes or no, and the database is read and written by one turn at a   *)
(* time.                                                                   *)
(*                                                                         *)
(* A message is a set of phrases and the record numbers it names.  The     *)
(* phrases stand for texts ("a new claim", "why the premium went up")      *)
(* chosen so that each regular expression of agents/intent.py and          *)
(* agents/specialists.py matches a message exactly when it matches one of  *)
(* its parts (said in the order of Phrases); an expression is written as   *)
(* the set of parts it matches.  No number is named twice.                 *)
(***************************************************************************)
EXTENDS Integers, Sequences, FiniteSets, Records

CONSTANTS
    Policies, ClaimNumbers, Invoices,   \* numbers, on record or not
    Owner,      \* policies and invoices to customers; None: there is no such record
    Claimants,  \* claims to customers, at the start; None: not given out yet
    Product,    \* policies to their product
    Covers,     \* policies to the coverages on their schedule
    Messages

Numbers == Policies \cup ClaimNumbers \cup Invoices

\* They have different prefixes.
ASSUME NumbersAssumption ==
    /\ None \notin Numbers /\ IsFiniteSet(Numbers)
    /\ Policies \cap ClaimNumbers = {} /\ Policies \cap Invoices = {}
    /\ ClaimNumbers \cap Invoices = {}
ASSUME OwnerAssumption == Owner \in [Policies \cup Invoices -> Customers \cup {None}]
ASSUME ClaimantsAssumption == Claimants \in [ClaimNumbers -> Customers \cup {None}]

Phrases == {"my policy", "what policies", "the deductible", "a rental car", "add a driver",
            "my home", "a new claim", "my claims", "a theft", "today",
            "what happens next", "a dispute", "the adjuster", "forget it", "my balance",
            "pay", "why the premium went up", "my account", "an appointment", "a human",
            "explain insurance", "hello", "zip", "change it"}

\* What a number looks like to an expression that is not looking for it.
Prefixes == {"AUTO-", "HOME-", "CLAIM-"}

ASSUME MessagesAssumption ==
    Messages \subseteq [says : SUBSET Phrases, policies : Seq(Policies),
                        claims : Seq(ClaimNumbers), invoices : Seq(Invoices)]
ASSUME ProductAssumption == Product \in [Policies -> {"auto", "homeowners"}]

VARIABLES
    claimants,  \* the claims on file
    session,    \* what the conversation keeps between turns
    stage,      \* "idle": awaiting a message; "agents"; "composed"; "told"
    message,
    entities,   \* intent.entities, shared by the specialists of a turn
    todo,       \* specialists still to run
    notice,     \* verify_msg
    draft,      \* what the specialists have found so far
    heard,      \* what the caller is told
    changed     \* history: what this turn has put on record

vars == <<claimants, session, stage, message, entities, todo, notice, draft, heard, changed>>

NoClaim == [policy |-> None, loss |-> FALSE, date |-> FALSE, meant |-> FALSE]

\* collecting, claim: pending_claim; meant is history: its policy was named by the caller
\* or the only one.  prompt: pending_payment.
Sessions == [customer : Customers \cup {None}, verified : BOOLEAN, collecting : BOOLEAN,
             claim : [policy : Policies \cup {None}, loss : BOOLEAN, date : BOOLEAN,
                      meant : BOOLEAN],
             prompt : Invoices \cup {None}]

Elements(q) == {q[i] : i \in DOMAIN q}

\* Rows come in no particular order.
Orders(S) == {q \in [1..Cardinality(S) -> S] : Elements(q) = S}

Fact(kind, number) == [kind |-> kind, about |-> number]
Say(kind) == Fact(kind, None)

-----------------------------------------------------------------------------
(***************************************************************************)
(* Reading a message: agents/intent.py.                                    *)
(***************************************************************************)
Parts(m) ==
    m.says \cup {IF Product[m.policies[i]] = "auto" THEN "AUTO-" ELSE "HOME-" :
                    i \in DOMAIN m.policies}
           \cup {"CLAIM-" : i \in DOMAIN m.claims}

Hits(m, expression) == Parts(m) \cap expression # {}

Patterns ==
    [policy     |-> [policy |-> {"my policy", "what policies"}, deductible |-> {"the deductible"},
                     rental |-> {"a rental car"}, add |-> {"add a driver"}],
     claims     |-> [claim |-> {"a new claim", "my claims", "CLAIM-"},
                     adjuster |-> {"the adjuster"}, dispute |-> {"a dispute"}],
     billing    |-> [pay |-> {"pay"}, premium |-> {"why the premium went up"},
                     balance |-> {"my balance"}, wentUp |-> {"why the premium went up"}],
     account    |-> [mine |-> {"my account"}, policies |-> {"what policies"}],
     scheduling |-> [appointment |-> {"an appointment"}],
     escalation |-> [human |-> {"a human"}],
     general    |-> [explain |-> {"explain insurance"}]]

Agents == DOMAIN Patterns

Score(m, a) == Cardinality({p \in DOMAIN Patterns[a] : Hits(m, Patterns[a][p])})

Largest(S) == CHOOSE n \in S : \A k \in S : k <= n

\* The strongest specialist sets the bar; "general" counts only when there is none.
Top(m) ==
    LET best == Largest({Score(m, a) : a \in Agents \ {"general"}})
    IN  IF best > 0 THEN best ELSE Score(m, "general")

HasContext(m) ==
    \/ m.policies # <<>> \/ m.claims # <<>> \/ m.invoices # <<>>
    \/ Hits(m, {"my policy", "my home", "my claims", "my balance", "my account"})

Detected(m) ==
    LET bar == IF Top(m) > 2 THEN Top(m) - 1 ELSE 1
        selected == {a \in Agents : Score(m, a) >= bar}
    IN  IF selected = {} THEN {"general"}
        ELSE IF Cardinality(selected) > 1 /\ HasContext(m) THEN selected \ {"general"}
        ELSE selected

Rank == [account |-> 1, billing |-> 2, claims |-> 3, escalation |-> 4, general |-> 5,
         policy |-> 6, scheduling |-> 7]

\* Higher scores first, then by name.
Before(m, a, b) ==
    \/ Score(m, a) > Score(m, b)
    \/ Score(m, a) = Score(m, b) /\ Rank[a] < Rank[b]

Hints == [auto |-> [auto |-> {"AUTO-"}, car |-> {"a rental car"}, driver |-> {"add a driver"},
                    rental |-> {"a rental car"}],
          homeowners |-> [home |-> {"my home", "HOME-"}]]

\* infer_product: the product with the most hints, the first one listed on a tie.
InferProduct(m) ==
    LET count(p) == Cardinality({h \in DOMAIN Hints[p] : Hits(m, Hints[p][h])})
    IN  IF count("auto") = 0 /\ count("homeowners") = 0 THEN None
        ELSE IF count("auto") >= count("homeowners") THEN "auto" ELSE "homeowners"

Conceptual(m) == Hits(m, {"what happens next", "why the premium went up", "explain insurance"})

-----------------------------------------------------------------------------
(***************************************************************************)
(* Faulty variants of the definitions below, each one plausible slip in    *)
(* the code.  No specification uses them.                                  *)
(***************************************************************************)
\* `policy.customer_id != ctx.session.customer_id` left out.
GateForAnyone(call) ==
    IF call.tool \in {"search_knowledge", "transfer_to_human"} \/ session.verified THEN "ok"
    ELSE "not_verified"

\* `and not ctx.session.is_verified` left out of BillingAgent.post_process.
BillingAsksAnyone(m, e, calls, s) ==
    [facts |-> {}, needs |-> Hits(m, {"my balance"}), asks |-> {}, session |-> s]

\* The label left out of the comparison: any coverage found will do.
IncludedAny(policies, label) == policies # {}

-----------------------------------------------------------------------------
(***************************************************************************)
(* The tools: who may use them, whom they serve, what they answer.         *)
(***************************************************************************)
Call(tool, number) == [tool |-> tool, about |-> number]
Search == Call("search_knowledge", None)

\* Each states something about the one record it is asked for, or about the account.
PolicyLookups == {"lookup_policy", "lookup_coverages", "lookup_insured_assets"}
ClaimLookups == {"get_claim_status", "get_adjuster_info"}
BillingLookups == {"get_billing_status"}
AccountLookups == {"list_policies", "list_claims", "lookup_customer"}

\* Each puts something on record.
Writes == {"request_policy_change", "escalate_claim_dispute", "create_claim",
           "transfer_to_human"}

\* Tool.agents: the tools a specialist may call.
Scope(a) ==
    CASE a = "policy"     -> PolicyLookups \cup {"request_policy_change", "search_knowledge"}
      [] a = "claims"     -> ClaimLookups \cup {"escalate_claim_dispute", "create_claim",
                                               "search_knowledge"}
      [] a = "billing"    -> BillingLookups \cup {"make_payment", "search_knowledge"}
      [] a = "account"    -> AccountLookups \cup PolicyLookups
                               \cup {"request_policy_change", "search_knowledge"}
      [] a = "scheduling" -> {}
      [] a = "escalation" -> {"transfer_to_human"}
      [] a = "general"    -> {"search_knowledge"}

OwnerOf(number) == IF number \in ClaimNumbers THEN claimants[number] ELSE Owner[number]

\* require_verified and require_owned_policy, _claim, _invoice.
Gate(call) ==
    IF call.tool \in {"search_knowledge", "transfer_to_human"} THEN "ok"
    ELSE IF ~session.verified THEN "not_verified"
    ELSE IF call.about = None THEN "ok"
    ELSE IF OwnerOf(call.about) = None THEN "not_found"
    ELSE IF OwnerOf(call.about) # session.customer THEN "forbidden"
    ELSE "ok"

\* What else may come of a call that is let through: no passage above the threshold, an
\* invoice that is paid, a commit that fails.
Failure(call) ==
    CASE call.tool = "search_knowledge" -> "miss"
      [] call.tool = "make_payment"     -> "nothing_due"
      [] OTHER                          -> "tool_error"

MayFail == Writes \cup {"search_knowledge", "make_payment"}

Result(call, failed) ==
    IF Gate(call) # "ok" THEN Gate(call)
    ELSE IF call \in failed THEN Failure(call) ELSE "ok"

\* _absorb and fact_from_data.
Absorbed(call, failed) ==
    LET result == Result(call, failed)
    IN  IF result = "ok" THEN Fact(call.tool, call.about)
        ELSE IF result = "not_found" THEN Fact("not_found", call.about)
        ELSE Say(result)

-----------------------------------------------------------------------------
(***************************************************************************)
(* The specialists.  augment resolves what the caller did not name, plan   *)
(* chooses the calls, post_process finishes the turn.                      *)
(***************************************************************************)
\* The verified caller's policies, narrowed to the product spoken of if that leaves any.
Relevant(m) ==
    LET mine == IF session.verified THEN {p \in Policies : Owner[p] = session.customer} ELSE {}
        matching == {p \in mine : Product[p] = InferProduct(m)}
    IN  IF matching # {} THEN matching ELSE mine

Single(m) == IF Cardinality(Relevant(m)) = 1 THEN Relevant(m) ELSE {}

OwnClaims ==
    IF session.verified THEN {n \in ClaimNumbers : claimants[n] = session.customer} ELSE {}

\* A claim is being filed, or goes on being filed.
Filing(m) == session.collecting \/ (Hits(m, {"a new claim"}) /\ ~Conceptual(m))

\* What augment may make of the entities: the records of S, in some order.
WithPolicies(e, S) == {[e EXCEPT !.policies = q] : q \in Orders(S)}
WithClaims(e, S) == {[e EXCEPT !.claims = q] : q \in Orders(S)}

Changing(m) == Hits(m, {"add a driver", "change it"})

PolicyAugment(m, e) ==
    IF e.policies # <<>> THEN {e}
    ELSE IF Changing(m) THEN WithPolicies(e, Single(m))
    ELSE IF Hits(m, {"the deductible", "my policy"}) THEN WithPolicies(e, Relevant(m))
    ELSE {e}

ClaimsAugment(m, e) ==
    IF Filing(m) THEN IF e.policies # <<>> THEN {e} ELSE WithPolicies(e, Single(m))
    ELSE IF /\ e.claims = <<>>
            /\ Hits(m, {"a new claim", "my claims", "the adjuster", "a dispute"})
         THEN WithClaims(e, OwnClaims)
    ELSE {e}

BillingAugment(m, e) ==
    IF /\ e.policies = <<>> /\ e.invoices = <<>>
       /\ Hits(m, {"my balance", "why the premium went up"})
    THEN WithPolicies(e, Relevant(m))
    ELSE {e}

Augmented(a, m, e) ==
    CASE a = "policy"  -> PolicyAugment(m, e)
      [] a = "claims"  -> ClaimsAugment(m, e)
      [] a = "billing" -> BillingAugment(m, e)
      [] OTHER         -> {e}

PolicyPlan(m, e) ==
    LET named == Elements(e.policies)
        lookup == IF Hits(m, {"the deductible"}) THEN "lookup_coverages"
                  ELSE IF Hits(m, {"add a driver"}) THEN "lookup_insured_assets"
                  ELSE "lookup_policy"
    IN  {Call(lookup, p) : p \in named}
        \cup {Call("request_policy_change", p) :
                 p \in {q \in named : Changing(m)}}
        \cup {c \in {Search} : /\ (named = {} \/ ~Hits(m, {"the deductible"}))
                               /\ (Hits(m, {"the deductible", "a rental car"}) \/ Conceptual(m))}

\* _fnol_fields: this message, then what is known.
Fnol(m, e) ==
    LET known == session.claim
        policy == IF e.policies # <<>> THEN e.policies[1] ELSE known.policy
    IN  [policy |-> policy,
         loss   |-> known.loss \/ Hits(m, {"a theft"}),
         date   |-> known.date \/ Hits(m, {"today"}),
         meant  |-> IF e.policies = <<>> THEN known.meant
                    ELSE policy \in Elements(m.policies) \/ {policy} = Single(m)]

ClaimsPlan(m, e) ==
    LET f == Fnol(m, e)
        named == Elements(e.claims)
    IN  IF Filing(m) THEN {c \in {Call("create_claim", f.policy)} :
                              f.policy # None /\ f.loss /\ f.date}
        ELSE {c \in {Search} : Hits(m, {"what happens next"})}
             \cup IF named = {} THEN {}
                  ELSE IF Hits(m, {"the adjuster"}) THEN {Call("get_adjuster_info", e.claims[1])}
                  ELSE IF Hits(m, {"a dispute"}) THEN {Call("escalate_claim_dispute", e.claims[1])}
                  ELSE {Call("get_claim_status", n) : n \in named}

BillingPlan(m, e) ==
    LET lookups == IF e.invoices # <<>> /\ Hits(m, {"pay"})
                   THEN {Call("make_payment", e.invoices[1])}
                   ELSE {Call("get_billing_status", p) : p \in Elements(e.policies)}
    IN  lookups \cup {c \in {Search} : \/ Hits(m, {"why the premium went up"})
                                       \/ (lookups = {} /\ Conceptual(m))}

AccountPlan(m) ==
    LET lists == {c \in {Call("list_policies", None)} : Hits(m, {"what policies"})}
                 \cup {c \in {Call("list_claims", None)} : Hits(m, {"my claims"})}
    IN  IF lists # {} THEN lists
        ELSE {c \in {Call("lookup_customer", None)} : Hits(m, {"my account"})}

Greeting(m) == Parts(m) = {"hello"} /\ m.invoices = <<>>

GeneralPlan(m) == {c \in {Search} : ~Greeting(m)}

EscalationPlan == {Call("transfer_to_human", None)}

Plan(a, m, e) ==
    CASE a = "policy"     -> PolicyPlan(m, e)
      [] a = "claims"     -> ClaimsPlan(m, e)
      [] a = "billing"    -> BillingPlan(m, e)
      [] a = "account"    -> AccountPlan(m)
      [] a = "scheduling" -> {}
      [] a = "escalation" -> EscalationPlan
      [] a = "general"    -> GeneralPlan(m)

Finish(facts, needs, asks, s) ==
    [facts |-> facts, needs |-> needs, asks |-> asks, session |-> s]

\* The coverage a question is about: the first of _COVERAGE_QUERY that matches.
Asked(m) == IF Hits(m, {"a rental car"}) THEN "rental_reimbursement"
            ELSE IF Hits(m, {"a theft"}) THEN "comprehensive" ELSE None

Included(policies, label) == \E p \in policies : label \in Covers[p]

\* "Yes - your policy includes ...", once coverages were looked up.
Verdict(m, calls, failed) ==
    LET looked == {c \in calls : c.tool = "lookup_coverages"}
        found == {c.about : c \in {d \in looked : Result(d, failed) = "ok"}}
    IN  IF looked = {} \/ Asked(m) = None THEN {}
        ELSE IF Included(found, Asked(m)) THEN {Say("yes")} ELSE {Say("no")}

PolicyPost(m, calls, failed, s) ==
    IF Hits(m, {"my policy", "my home"}) /\ ~s.verified THEN Finish({}, TRUE, {}, s)
    ELSE Finish(Verdict(m, calls, failed), FALSE,
                {f \in {Say("which policy")} : calls = {} /\ Hits(m, {"my policy"})}, s)

ClaimsPost(m, e, calls, failed, s) ==
    LET dropped == [s EXCEPT !.collecting = FALSE, !.claim = NoClaim]
        filed == \E c \in calls : c.tool = "create_claim" /\ Result(c, failed) = "ok"
    IN  IF Filing(m) /\ filed THEN Finish({}, FALSE, {}, dropped)
        ELSE IF Filing(m) /\ ~s.verified THEN Finish({}, TRUE, {}, dropped)
        ELSE IF Filing(m) THEN Finish({}, FALSE, {Say("missing details")},
                                      [s EXCEPT !.collecting = TRUE, !.claim = Fnol(m, e)])
        ELSE IF calls # {} \/ ~Hits(m, {"my claims"}) THEN Finish({}, FALSE, {}, s)
        ELSE IF s.verified THEN Finish({}, FALSE, {Say("no claims")}, s)
        ELSE Finish({}, TRUE, {}, s)

BillingPost(m, e, calls, s) ==
    IF Hits(m, {"my balance"}) /\ ~s.verified THEN Finish({}, TRUE, {}, s)
    ELSE Finish({}, FALSE,
                {f \in {Say("which billing")} :
                    /\ calls = {} /\ e.policies = <<>> /\ e.invoices = <<>>
                    /\ Hits(m, {"pay", "my balance", "why the premium went up"})}, s)

SchedulingPost(s) == Finish({}, FALSE, {Say("which time")}, s)

GeneralPost(calls, s) == Finish({}, FALSE, {f \in {Say("welcome")} : calls = {}}, s)

Post(a, m, e, calls, failed, s) ==
    CASE a = "policy"     -> PolicyPost(m, calls, failed, s)
      [] a = "claims"     -> ClaimsPost(m, e, calls, failed, s)
      [] a = "billing"    -> BillingPost(m, e, calls, s)
      [] a = "scheduling" -> SchedulingPost(s)
      [] a = "general"    -> GeneralPost(calls, s)
      [] OTHER            -> Finish({}, FALSE, {}, s)

-----------------------------------------------------------------------------
(***************************************************************************)
(* The turn.                                                               *)
(***************************************************************************)
NoEntities == [policies |-> <<>>, claims |-> <<>>, invoices |-> <<>>]

NothingYet == [segments |-> {}, needs |-> FALSE, broken |-> FALSE]

\* A caller may come in authenticated, and may have verified by /verify.
Init ==
    /\ claimants = Claimants
    /\ session \in {s \in Sessions : /\ ~s.collecting /\ s.claim = NoClaim /\ s.prompt = None
                                     /\ s.verified => s.customer # None}
    /\ stage = "idle"
    /\ message = None
    /\ entities = NoEntities
    /\ todo = {}
    /\ notice = None
    /\ draft = NothingYet
    /\ heard = {}
    /\ changed = {}

HasDetail(m) == m.policies # <<>> \/ Hits(m, {"a theft", "today", "a new claim"})

\* A first notice of loss goes on unless cancelled or clearly left.
Leaves(m) ==
    \/ Hits(m, {"forget it"})
    \/ Detected(m) \cap {"billing", "scheduling", "escalation"} # {} /\ ~HasDetail(m)

\* _looks_like_verification.
Proves(m) == m.policies # <<>> /\ Hits(m, {"zip"})

\* The prompt of the turn before goes: this is no bare yes.
Routed(m) ==
    LET unprompted == [session EXCEPT !.prompt = None]
    IN  IF session.collecting /\ Leaves(m)
        THEN [unprompted EXCEPT !.collecting = FALSE, !.claim = NoClaim] ELSE unprompted

\* verify_identity: the bound customer, or the one whose policy is named; the ZIP is right
\* or not.
Candidate(m) == IF session.customer # None THEN session.customer ELSE Owner[m.policies[1]]

Receive(m) ==
    /\ stage = "idle"
    /\ message' = m
    /\ entities' = [policies |-> m.policies, claims |-> m.claims, invoices |-> m.invoices]
    /\ todo' = IF session.collecting /\ ~Leaves(m) THEN {"claims"} ELSE Detected(m)
    /\ IF session.verified \/ ~Proves(m)
       THEN notice' = None /\ session' = Routed(m)
       ELSE \E right \in {r \in BOOLEAN : r => Candidate(m) # None} :
                /\ notice' = IF right THEN "verified" ELSE "not matched"
                /\ session' = [Routed(m) EXCEPT !.customer = Candidate(m), !.verified = right]
    /\ stage' = "agents"
    /\ UNCHANGED <<claimants, draft, heard, changed>>

Unfiled == {n \in ClaimNumbers : claimants[n] = None}

\* create_claim gives out a number; the ClaimNumbers that are left bound the claims filed.
File(filed) ==
    IF filed = {} THEN UNCHANGED claimants
    ELSE \E n \in Unfiled : claimants' = [claimants EXCEPT ![n] = session.customer]

\* Was the record a call changes the caller's choice: named in the message or the only one?
Meant(call, e) ==
    CASE call.tool = "request_policy_change" ->
            \/ call.about \in Elements(message.policies) \/ {call.about} = Single(message)
      [] call.tool = "escalate_claim_dispute" ->
            call.about \in Elements(message.claims) \/ {call.about} = OwnClaims
      [] call.tool = "create_claim" -> Fnol(message, e).meant
      [] OTHER -> TRUE

Done(calls, failed) == {c \in calls : Result(c, failed) = "ok"}

\* make_payment prompts: the payment is made once the caller says yes.
Prompting(done) ==
    LET prompted == {c.about : c \in {d \in done : d.tool = "make_payment"}}
    IN  IF prompted = {} THEN session
        ELSE [session EXCEPT !.prompt = CHOOSE i \in prompted : TRUE]

\* What the turn of `a` adds to the draft, once the tools have answered.  A commit that
\* failed has expired the conversation's row: the record of that call raises.
Finishes(a, e, calls, failed) ==
    LET done == Done(calls, failed)
        codes == {Result(c, failed) : c \in calls}
        post == IF "tool_error" \in codes THEN Finish({}, FALSE, {}, Prompting(done))
                ELSE Post(a, message, e, calls, failed, Prompting(done))
        facts == {Absorbed(c, failed) : c \in calls} \cup post.facts
    IN  /\ session' = post.session
        /\ draft' = [segments |-> draft.segments \cup IF facts # {} THEN facts ELSE post.asks,
                      needs  |-> draft.needs \/ post.needs \/ "not_verified" \in codes,
                      broken |-> draft.broken \/ "tool_error" \in codes]
        /\ File({c \in done : c.tool = "create_claim"})
        /\ changed' = changed \cup
             {[kind |-> c.tool, about |-> c.about, meant |-> Meant(c, e)] :
                 c \in {d \in done : d.tool \in Writes}}

\* Specialist.handle: `a` augments the shared entities, plans, calls its tools, finishes.
Handle(a) ==
    /\ stage = "agents" /\ ~draft.broken
    /\ a \in todo
    /\ \A b \in todo \ {a} : Before(message, a, b)
    /\ \E e \in Augmented(a, message, entities) :
         /\ entities' = e
         /\ LET calls == {c \in Plan(a, message, e) : c.tool \in Scope(a)}
            IN  \E failed \in SUBSET {c \in calls : c.tool \in MayFail} :
                   Finishes(a, e, calls, failed)
    /\ todo' = todo \ {a}
    /\ UNCHANGED <<stage, message, notice, heard>>

\* compose, and the outcome of a verification that leads it.
Composed ==
    LET body == IF draft.needs THEN {Say("please verify")}
                ELSE IF draft.segments = {} THEN {Say("not enough")} ELSE draft.segments
    IN  IF notice = None THEN body
        ELSE IF session.verified THEN {Say(notice)} \cup body
        ELSE IF draft.needs THEN {Say(notice)} ELSE body

Compose ==
    /\ stage = "agents" /\ todo = {} /\ ~draft.broken
    /\ heard' = Composed
    /\ stage' = "composed"
    /\ UNCHANGED <<claimants, session, message, entities, todo, notice, draft, changed>>

\* The turn ends there: no other agent runs.
Raise ==
    /\ stage = "agents" /\ draft.broken
    /\ heard' = {Say("error")}
    /\ stage' = "told" /\ todo' = {}
    /\ UNCHANGED <<claimants, session, message, entities, notice, draft, changed>>

\* What validate_grounded_rewrite compares: the record numbers stated, and the number each
\* action gives out, which no other text has.
Protected(text) ==
    {f \in text : f.kind \in Writes}
    \cup {Fact("number", f.about) :
             f \in {g \in text : /\ g.about # None
                                 /\ g.kind \notin {"request_policy_change", "create_claim"}}}

Valid(text, rewritten) ==
    rewritten # {} /\ Protected(text) = Protected(rewritten)

\* The model leaves a statement out, or adds one about some record.
Rewritings(text) ==
    {text} \cup {text \ {f} : f \in text}
           \cup {text \cup {Fact("get_claim_status", n)} : n \in ClaimNumbers}

\* stream_result: the rewriting if it is valid, else the draft.
Render ==
    /\ stage = "composed"
    /\ \E text \in Rewritings(heard) :
         heard' = IF Valid(heard, text) THEN text ELSE heard
    /\ stage' = "told"
    /\ UNCHANGED <<claimants, session, message, entities, todo, notice, draft, changed>>

\* Between turns there is the session, and what is on record.
End ==
    /\ stage = "told"
    /\ stage' = "idle"
    /\ message' = None /\ entities' = NoEntities /\ notice' = None /\ draft' = NothingYet
    /\ heard' = {} /\ changed' = {}
    /\ UNCHANGED <<claimants, session, todo>>

Next ==
    \/ \E m \in Messages : Receive(m)
    \/ \E a \in Agents : Handle(a)
    \/ Compose
    \/ Raise
    \/ Render
    \/ End

Spec == Init /\ [][Next]_vars

-----------------------------------------------------------------------------
(***************************************************************************)
(* Properties.                                                             *)
(***************************************************************************)
\* Every variable holds what the orchestrator may put there.
TypeOK ==
    /\ claimants \in [ClaimNumbers -> Customers \cup {None}]
    /\ session \in Sessions
    /\ stage \in {"idle", "agents", "composed", "told"}
    /\ message \in Messages \cup {None}
    /\ todo \subseteq Agents

\* A statement about an account reaches only its verified owner, whichever specialist
\* resolved the record and whatever the language model made of the draft.  Of a number that
\* is nobody's the draft says no more than that it was not found; the model might.
HeardIsOwn ==
    \A f \in heard :
        /\ f.kind \in AccountLookups => session.verified
        /\ f.about # None => session.verified /\ OwnerOf(f.about) \in {session.customer, None}
        /\ f.about # None /\ f.kind # "not_found" /\ stage = "composed" =>
               OwnerOf(f.about) = session.customer

\* What a turn puts on record it tells, unless it ends in an error: no question, refusal,
\* request to verify or rewriting hides a claim filed, a change or dispute opened, or the
\* payment that a yes would now make.  (A handoff may be hidden from an unverified caller.)
ActionsAreTold ==
    stage = "told" /\ Say("error") \notin heard =>
        /\ \A c \in changed : \/ Fact(c.kind, c.about) \in heard
                              \/ (c.kind = "transfer_to_human" /\ ~session.verified)
        /\ session.prompt # None => Fact("make_payment", session.prompt) \in heard

\* "Yes - your policy includes it" is said only if a policy of the caller has that
\* coverage, and "No" only if no policy whose coverages were found has it.
VerdictIsRecorded ==
    stage = "composed" =>
        /\ Say("yes") \in heard =>
               \E p \in Policies : Owner[p] = session.customer /\ Asked(message) \in Covers[p]
        /\ Say("no") \in heard =>
               \A p \in Policies : Fact("lookup_coverages", p) \in heard =>
                                      Asked(message) \notin Covers[p]

\* specialists.py:25: an agent acts on a record the caller did not name only if it is the
\* one relevant policy (or claim): "no silent guessing".
NoSilentGuess == \A c \in changed : c.meant
=============================================================================

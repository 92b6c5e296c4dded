--------------------------- MODULE MCSpecialists ---------------------------
(***************************************************************************)
(* What TLC lets the callers of Specialists own and say.  Ann has a car, a *)
(* house, two claims and an invoice, Bob a car and an invoice; one number  *)
(* is nobody's.                                                            *)
(***************************************************************************)
EXTENDS Specialists

CONSTANTS ann, bob, auto1, home1, auto2, ghost, claim1, claim2, claim3, spare, inv1, inv2

Owners == [r \in Policies \cup Invoices |->
              CASE r \in {auto1, home1, inv1} -> ann [] r \in {auto2, inv2} -> bob
                [] r = ghost -> None]

OnFile == [n \in ClaimNumbers |->
              CASE n \in {claim1, claim2} -> ann [] n = claim3 -> bob [] n = spare -> None]

Products == [p \in Policies |-> IF p = home1 THEN "homeowners" ELSE "auto"]

Schedules == [p \in Policies |-> IF p = auto1 THEN {"rental_reimbursement", "comprehensive"}
                                 ELSE IF p = auto2 THEN {"comprehensive"} ELSE {"dwelling"}]

Message(says, policies, claims, invoices) ==
    [says |-> says, policies |-> policies, claims |-> claims, invoices |-> invoices]

\* Two phrases with or without a policy number, or three that make sense together.
Pairs == {{p, q} : p, q \in Phrases}

Triples == {{"a new claim", "a theft", "today"}, {"a new claim", "my balance", "a theft"},
            {"my balance", "the deductible", "change it"}, {"a human", "my balance", "pay"},
            {"a rental car", "the deductible", "my policy"}}

Spoken == {Message(s, <<>>, <<>>, <<>>) : s \in Pairs \cup Triples}

Named == {Message({s, t}, <<p>>, <<>>, <<>>) : s, t \in Phrases, p \in {auto1, auto2}}
         \cup {Message({s}, <<p>>, <<>>, <<>>) : s \in Phrases, p \in {home1, ghost}}
         \cup {Message({s}, <<>>, <<n>>, <<>>) : s \in Phrases, n \in {claim1, claim3, spare}}
         \cup {Message({s}, <<>>, <<>>, <<i>>) : s \in {"pay", "hello"}, i \in Invoices}
         \cup {Message({"pay", s}, <<>>, <<>>, <<inv1>>) : s \in Phrases}

Sayings == Spoken \cup Named
=============================================================================

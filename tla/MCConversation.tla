--------------------------- MODULE MCConversation ---------------------------
(***************************************************************************)
(* The sentences and factors with which TLC checks Conversation.  Each     *)
(* utterance is the verdict of detect, extract_entities and the regular    *)
(* expressions of orchestrator.py and specialists.py on the sentence       *)
(* above it, with alice owning AUTO-10024 (ZIP 78701) and its invoices.    *)
(***************************************************************************)
EXTENDS Conversation, TLC

CONSTANTS alice, bob

Nobody == [c \in Customers |-> 0]
Only(c) == [Nobody EXCEPT ![c] = 1]

NoFactors == [policy |-> None, weak |-> Nobody, strong |-> Nobody]

Silence == [agents |-> <<"other">>, reply |-> None, proves |-> FALSE, claim |-> NoFactors,
            cancels |-> FALSE, files |-> FALSE, detail |-> FALSE, loss |-> FALSE,
            date |-> FALSE, invoice |-> None]

\* "yes"
Yes == [Silence EXCEPT !.reply = "affirm"]

\* "never mind"
NeverMind == [Silence EXCEPT !.reply = "decline", !.cancels = TRUE]

\* "my policy is AUTO-10024, zip 78701"
Details == [Silence EXCEPT !.proves = TRUE, !.detail = TRUE,
                           !.claim = [policy |-> alice, weak |-> Only(alice), strong |-> Nobody]]

\* "file a claim and pay invoice INV-10024-03"
FileAndPay == [Silence EXCEPT !.agents = <<"billing", "claims">>, !.files = TRUE,
                              !.detail = TRUE, !.invoice = alice]

\* "AUTO-10024 collision 2024-05-01"
Loss == [Silence EXCEPT !.proves = TRUE, !.detail = TRUE, !.loss = TRUE, !.date = TRUE,
                        !.claim = [policy |-> alice, weak |-> Nobody, strong |-> Nobody]]

\* "I want to speak to a representative"
Human == [Silence EXCEPT !.agents = <<"escalation">>]

Sentences == {Yes, Details, FileAndPay, Loss, Human, NeverMind}

\* /verify: bob's policy with his ZIP, and alice's ZIP with a number that is no policy.
BobsFactors == [policy |-> bob, weak |-> Only(bob), strong |-> Nobody]
Mistyped == [policy |-> Unknown, weak |-> Only(alice), strong |-> Nobody]
FactorSets == {BobsFactors, Mistyped}

Tokens == {None, alice}

Symmetry == Permutations(Turns)
=============================================================================

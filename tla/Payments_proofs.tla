--------------------------- MODULE Payments_proofs --------------------------
(***************************************************************************)
(* For any number of conversations, any amount due and any set of faults:  *)
(* what the books of an invoice can be trusted for.  RowsAreBacked stays   *)
(* with TLC: it needs a sum over the conversations in flight.              *)
(***************************************************************************)
EXTENDS Payments, TLAPS

InFlight(c) == turn[c].at \in {"charging", "charged"}

\* What a turn in flight knows of the invoice still bounds what it will write.
FlightOK(c) ==
    /\ turn[c].seen.paid + turn[c].amount <= Due
    /\ turn[c].seen.paid <= recorded
    /\ turn[c].seen.paid <= charged
    /\ Taken(c) => turn[c].seen.paid + turn[c].amount <= charged

LedgerInv ==
    /\ PaidWithinDue
    /\ InvoiceIsBacked
    /\ \A c \in Conversations : InFlight(c) => FlightOK(c)

USE DEF Phases, Mishaps, NoPrompt, Answers, Rows

-----------------------------------------------------------------------------
\* The ledgers are well typed in every reachable state.
THEOREM TypeCorrect == Spec => []TypeOK
<1>1. Init => TypeOK
  BY DEF Init, TypeOK, Idle
<1>2. TypeOK /\ [Next]_vars => TypeOK'
  <2> SUFFICES ASSUME TypeOK, [Next]_vars
               PROVE  TypeOK'
    OBVIOUS
  <2> USE DEF TypeOK
  <2>1. ASSUME NEW c \in Conversations, NEW a \in 1..Due, Ask(c, a)
        PROVE  TypeOK'
    BY <2>1, DueAssumption DEF Ask
  <2>2. ASSUME NEW c \in Conversations, Withdraw(c)
        PROVE  TypeOK'
    BY <2>2 DEF Withdraw, Clear
  <2>3. ASSUME NEW c \in Conversations, Confirm(c)
        PROVE  TypeOK'
    BY <2>3 DEF Confirm, Idle
  <2>4. ASSUME NEW c \in Conversations, ChargeAccepted(c) \/ ChargeRefused(c) \/ ChargeUnheard(c)
        PROVE  TypeOK'
    <3>1. PICK answer \in Answers : Answered(c, answer)
      BY <2>4 DEF ChargeAccepted, ChargeRefused, ChargeUnheard
    <3>2. turn' = [turn EXCEPT ![c] = [@ EXCEPT !.at = "charged", !.answer = answer]]
      BY <3>1 DEF Answered
    <3>3. turn[c] \in [at : Phases, seen : Rows, amount : Nat, answer : Answers]
      OBVIOUS
    <3>4. [turn[c] EXCEPT !.at = "charged", !.answer = answer]
            \in [at : Phases, seen : Rows, amount : Nat, answer : Answers]
      BY <3>3
    <3>5. turn' \in [Conversations -> [at : Phases, seen : Rows, amount : Nat, answer : Answers]]
      BY <3>2, <3>4
    <3>6. charged' \in Nat /\ answers' \in [Conversations -> Nat] /\ mishaps' \subseteq Mishaps
      <4>1. turn[c].amount \in Nat /\ answers[c] \in Nat
        OBVIOUS
      <4>2. ASSUME Take(c)
            PROVE  charged' \in Nat /\ answers' \in [Conversations -> Nat]
        BY <4>1, <4>2 DEF Take
      <4>3. CASE ChargeRefused(c)
        BY <4>3 DEF ChargeRefused
      <4>4. mishaps' \subseteq Mishaps
        BY <2>4 DEF ChargeAccepted, ChargeRefused, ChargeUnheard
      <4>5. QED
        BY <2>4, <4>2, <4>3, <4>4 DEF ChargeAccepted, ChargeUnheard
    <3>7. QED
      BY <3>1, <3>5, <3>6 DEF Answered
  <2>5. ASSUME NEW c \in Conversations, Commit(c)
        PROVE  TypeOK'
    BY <2>5 DEF Commit, StatusFor
  <2>6. ASSUME NEW c \in Conversations, CommitFails(c)
        PROVE  TypeOK'
    BY <2>6 DEF CommitFails
  <2>7. ASSUME NEW c \in Conversations, SaveSession(c)
        PROVE  TypeOK'
    BY <2>7 DEF SaveSession, Clear, Rest, Idle
  <2>8. ASSUME NEW c \in Conversations, SaveFails(c)
        PROVE  TypeOK'
    BY <2>8 DEF SaveFails, Rest, Idle
  <2>9. ASSUME NEW c \in Conversations, Crash(c)
        PROVE  TypeOK'
    BY <2>9 DEF Crash, Rest, Idle
  <2>10. CASE UNCHANGED vars
    BY <2>10 DEF vars
  <2>11. QED
    BY <2>1, <2>2, <2>3, <2>4, <2>5, <2>6, <2>7, <2>8, <2>9, <2>10 DEF Next
<1>3. QED
  BY <1>1, <1>2, PTL DEF Spec

-----------------------------------------------------------------------------
LEMMA LedgerStep == TypeOK /\ LedgerInv /\ [Next]_vars => LedgerInv'
<1> SUFFICES ASSUME TypeOK, LedgerInv, [Next]_vars
             PROVE  LedgerInv'
  OBVIOUS
<1> USE DueAssumption
    DEF TypeOK, LedgerInv, PaidWithinDue, InvoiceIsBacked, InFlight, FlightOK, Taken
<1>1. ASSUME NEW c \in Conversations, NEW a \in 1..Due, Ask(c, a)
      PROVE  LedgerInv'
  BY <1>1 DEF Ask
<1>2. ASSUME NEW c \in Conversations, Withdraw(c)
      PROVE  LedgerInv'
  BY <1>2 DEF Withdraw, Clear
<1>3. ASSUME NEW c \in Conversations, Confirm(c)
      PROVE  LedgerInv'
  BY <1>3 DEF Confirm, Idle, Balance
<1>4. ASSUME NEW c \in Conversations, ChargeAccepted(c) \/ ChargeRefused(c) \/ ChargeUnheard(c)
      PROVE  LedgerInv'
  <2>1. PICK answer \in Answers : Answered(c, answer)
    BY <1>4 DEF ChargeAccepted, ChargeRefused, ChargeUnheard
  <2>2. turn'[c] = [turn[c] EXCEPT !.at = "charged", !.answer = answer]
    BY <2>1 DEF Answered
  <2>3. turn'[c].seen = turn[c].seen /\ turn'[c].amount = turn[c].amount /\ turn'[c].answer = answer
    BY <2>2
  <2>4. FlightOK(c) /\ turn[c].amount \in Nat /\ charged \in Nat /\ turn[c].seen.paid \in Nat
    BY <2>1 DEF Answered
  <2>5. /\ charged' \in {charged, charged + turn[c].amount}
        /\ answer # "refused" => charged' = charged + turn[c].amount
    <3>1. \A a : Answered(c, a) => turn'[c].answer = a
      BY DEF Answered
    <3>2. CASE ChargeRefused(c)
      BY <2>3, <3>1, <3>2 DEF ChargeRefused
    <3>3. CASE ChargeAccepted(c) \/ ChargeUnheard(c)
      BY <3>3 DEF ChargeAccepted, ChargeUnheard, Take
    <3>4. QED
      BY <1>4, <3>2, <3>3
  <2>6. charged' >= charged /\ charged' \in Nat
    BY <2>4, <2>5
  <2>7. UNCHANGED <<invoice, recorded>>
    BY <2>1 DEF Answered
  <2>8. FlightOK(c)'
    BY <2>3, <2>4, <2>5, <2>6, <2>7
  <2>9. \A d \in Conversations \ {c} : turn'[d] = turn[d]
    BY <2>1 DEF Answered
  <2>10. \A d \in Conversations \ {c} : InFlight(d)' => FlightOK(d)'
    <3> SUFFICES ASSUME NEW d \in Conversations \ {c}, InFlight(d)'
                 PROVE  FlightOK(d)'
      OBVIOUS
    <3>1. FlightOK(d) /\ turn[d].seen.paid \in Nat /\ turn[d].amount \in Nat
      BY <2>9
    <3>2. QED
      BY <2>4, <2>6, <2>7, <2>9, <3>1
  <2>11. PaidWithinDue' /\ InvoiceIsBacked'
    BY <2>4, <2>6, <2>7
  <2>12. QED
    BY <2>8, <2>10, <2>11
<1>5. ASSUME NEW c \in Conversations, Commit(c)
      PROVE  LedgerInv'
  BY <1>5 DEF Commit, StatusFor
<1>6. ASSUME NEW c \in Conversations, CommitFails(c)
      PROVE  LedgerInv'
  BY <1>6 DEF CommitFails
<1>7. ASSUME NEW c \in Conversations, SaveSession(c) \/ SaveFails(c) \/ Crash(c)
      PROVE  LedgerInv'
  <2>1. UNCHANGED <<invoice, recorded, charged>> /\ turn' = [turn EXCEPT ![c] = Idle]
    BY <1>7 DEF SaveSession, SaveFails, Crash, Rest
  <2>2. ~InFlight(c)'
    BY <2>1 DEF Idle
  <2>3. \A d \in Conversations \ {c} : turn'[d] = turn[d]
    BY <2>1
  <2>4. QED
    BY <2>1, <2>2, <2>3
<1>8. CASE UNCHANGED vars
  BY <1>8 DEF vars
<1>9. QED
  BY <1>1, <1>2, <1>3, <1>4, <1>5, <1>6, <1>7, <1>8 DEF Next

THEOREM LedgerInvariant == Spec => []LedgerInv
<1>1. Init => LedgerInv
  BY DueAssumption DEF Init, LedgerInv, PaidWithinDue, InvoiceIsBacked, InFlight, Idle
<1>2. QED
  BY <1>1, LedgerStep, TypeCorrect, PTL DEF Spec

\* The invoice is never recorded as paid beyond what was due.
THEOREM WithinDue == Spec => []PaidWithinDue
<1>1. LedgerInv => PaidWithinDue
  BY DEF LedgerInv
<1>2. QED
  BY <1>1, LedgerInvariant, PTL

\* The invoice never claims money that was not taken and recorded.
THEOREM Backed == Spec => []InvoiceIsBacked
<1>1. LedgerInv => InvoiceIsBacked
  BY DEF LedgerInv
<1>2. QED
  BY <1>1, LedgerInvariant, PTL

-----------------------------------------------------------------------------
(***************************************************************************)
(* At most one charge per prompt.                                          *)
(***************************************************************************)
Uncharged(c) ==
    \/ turn[c].at = "idle" /\ pending[c] # NoPrompt
    \/ turn[c].at = "charging"
    \/ turn[c].at \in {"charged", "answered"} /\ ~Taken(c)

PromptInv ==
    /\ \A c \in Conversations : turn[c].at = "charging" => ~Taken(c)
    /\ "unsaved" \notin mishaps =>
        \A c \in Conversations : answers[c] <= 1 /\ (Uncharged(c) => answers[c] = 0)

LEMMA PromptStep == TypeOK /\ PromptInv /\ [Next]_vars => PromptInv'
<1> SUFFICES ASSUME TypeOK, PromptInv, [Next]_vars
             PROVE  PromptInv'
  OBVIOUS
<1> USE DEF TypeOK, PromptInv, Uncharged, Taken
<1>1. ASSUME NEW c \in Conversations, NEW a \in 1..Due, Ask(c, a)
      PROVE  PromptInv'
  BY <1>1 DEF Ask
<1>2. ASSUME NEW c \in Conversations, Withdraw(c)
      PROVE  PromptInv'
  BY <1>2 DEF Withdraw, Clear
<1>3. ASSUME NEW c \in Conversations, Confirm(c)
      PROVE  PromptInv'
  BY <1>3 DEF Confirm, Idle
<1>4. ASSUME NEW c \in Conversations, NEW answer \in Answers \ {"none"}, Answered(c, answer),
             answer # "refused" => answers' = [answers EXCEPT ![c] = @ + 1],
             answer = "refused" => answers' = answers,
             "unsaved" \notin mishaps' => "unsaved" \notin mishaps
      PROVE  PromptInv'
  <2>1. turn'[c] = [turn[c] EXCEPT !.at = "charged", !.answer = answer]
    BY <1>4 DEF Answered
  <2>2. turn'[c].at = "charged" /\ turn'[c].answer = answer /\ turn[c].at = "charging"
    BY <1>4, <2>1 DEF Answered
  <2>3. \A d \in Conversations \ {c} : turn'[d] = turn[d] /\ answers'[d] = answers[d]
    BY <1>4 DEF Answered
  <2>4. pending' = pending
    BY <1>4 DEF Answered
  <2>5. \A d \in Conversations : turn'[d].at = "charging" => ~Taken(d)'
    BY <2>2, <2>3
  <2>6. ASSUME "unsaved" \notin mishaps'
        PROVE  answers'[c] <= 1 /\ (Uncharged(c)' => answers'[c] = 0)
    <3>1. answers[c] = 0
      BY <1>4, <2>2, <2>6
    <3>2. CASE answer = "refused"
      BY <1>4, <3>1, <3>2
    <3>3. CASE answer # "refused"
      BY <1>4, <2>2, <3>1, <3>3
    <3>4. QED
      BY <3>2, <3>3
  <2>7. QED
    BY <1>4, <2>3, <2>4, <2>5, <2>6
<1>5. ASSUME NEW c \in Conversations, Commit(c) \/ CommitFails(c)
      PROVE  PromptInv'
  <2>1. turn' = [turn EXCEPT ![c].at = "answered"] /\ turn[c].at = "charged"
    BY <1>5 DEF Commit, CommitFails
  <2>2. answers' = answers /\ pending' = pending
    BY <1>5 DEF Commit, CommitFails
  <2>3. "unsaved" \in mishaps' <=> "unsaved" \in mishaps
    BY <1>5 DEF Commit, CommitFails
  <2>4. turn'[c].at = "answered" /\ turn'[c].answer = turn[c].answer
    BY <2>1
  <2>5. \A d \in Conversations \ {c} : turn'[d] = turn[d]
    BY <2>1
  <2>6. QED
    BY <2>1, <2>2, <2>3, <2>4, <2>5
<1>6. ASSUME NEW c \in Conversations, SaveSession(c)
      PROVE  PromptInv'
  BY <1>6 DEF SaveSession, Clear, Rest, Idle
<1>7. ASSUME NEW c \in Conversations, SaveFails(c) \/ Crash(c)
      PROVE  PromptInv'
  <2>1. turn' = [turn EXCEPT ![c] = Idle] /\ turn[c].at # "idle"
    BY <1>7 DEF SaveFails, Crash, Rest
  <2>2. answers' = answers /\ pending' = pending
    BY <1>7 DEF SaveFails, Crash
  <2>3. mishaps \subseteq mishaps' /\ (Taken(c) => "unsaved" \in mishaps')
    BY <1>7 DEF SaveFails, Crash
  <2>4. turn'[c].at = "idle" /\ turn'[c].answer = "none"
    BY <2>1 DEF Idle
  <2>5. \A d \in Conversations \ {c} : turn'[d] = turn[d]
    BY <2>1
  <2>6. QED
    BY <2>1, <2>2, <2>3, <2>4, <2>5
<1>8. CASE UNCHANGED vars
  BY <1>8 DEF vars
<1>9. ASSUME NEW c \in Conversations,
             ChargeAccepted(c) \/ ChargeRefused(c) \/ ChargeUnheard(c)
      PROVE  PromptInv'
  <2>1. CASE ChargeAccepted(c)
    BY <1>4, <2>1 DEF ChargeAccepted, Take
  <2>2. CASE ChargeRefused(c)
    BY <1>4, <2>2 DEF ChargeRefused
  <2>3. CASE ChargeUnheard(c)
    BY <1>4, <2>3 DEF ChargeUnheard, Take
  <2>4. QED
    BY <1>9, <2>1, <2>2, <2>3
<1>10. QED
  BY <1>1, <1>2, <1>3, <1>5, <1>6, <1>7, <1>8, <1>9 DEF Next

\* A prompt is charged twice only by way of a turn that charged and could not save.
THEOREM OncePerPrompt == Spec => []OneChargePerPrompt
<1>1. Init => PromptInv
  BY DEF Init, PromptInv, Uncharged, Taken, Idle
<1>2. PromptInv => OneChargePerPrompt
  BY DEF PromptInv, OneChargePerPrompt
<1>3. QED
  BY <1>1, <1>2, PromptStep, TypeCorrect, PTL DEF Spec

-----------------------------------------------------------------------------
(***************************************************************************)
(* While nothing has overlapped and nothing went unrecorded, at most one   *)
(* payment is in flight; it knows the invoice as it is, and the ledgers    *)
(* differ by what it has taken and not yet recorded.                       *)
(***************************************************************************)
Clean == mishaps \cap {"overlap", "unrecorded"} = {}

InHand(c) == IF Taken(c) THEN turn[c].amount ELSE 0

CleanOK ==
    /\ \A c, d \in Conversations : InFlight(c) /\ InFlight(d) => c = d
    /\ invoice.paid = recorded
    /\ invoice.status = "paid" <=> invoice.paid = Due
    /\ \A c \in Conversations : InFlight(c) =>
        /\ turn[c].seen = invoice
        /\ turn[c].answer # "unheard"
        /\ charged = recorded + InHand(c)
    /\ AtRest => charged = recorded

AgreeInv ==
    /\ \A c \in Conversations : turn[c].at = "charging" => ~Taken(c)
    /\ Clean => CleanOK

\* Within what is due, StatusFor says "paid" for the full amount and nothing less.
LEMMA PaidExactly == \A n \in Nat : n <= Due => (StatusFor(n) = "paid" <=> n = Due)
  BY DueAssumption DEF StatusFor

LEMMA AgreeStep == TypeOK /\ LedgerInv /\ AgreeInv /\ [Next]_vars => AgreeInv'
<1> SUFFICES ASSUME TypeOK, LedgerInv, AgreeInv, [Next]_vars
             PROVE  AgreeInv'
  OBVIOUS
<1> USE DueAssumption DEF TypeOK, AgreeInv, Clean, CleanOK, AtRest, InFlight, InHand, Taken
<1>1. ASSUME NEW c \in Conversations, (\E a \in 1..Due : Ask(c, a)) \/ Withdraw(c)
      PROVE  AgreeInv'
  BY <1>1 DEF Ask, Withdraw
<1>2. ASSUME NEW c \in Conversations, Confirm(c)
      PROVE  AgreeInv'
  <2>1. turn' = [turn EXCEPT ![c] = [Idle EXCEPT !.at = "charging", !.seen = invoice,
                                                 !.amount = pending[c]]]
    BY <1>2 DEF Confirm
  <2>2. /\ turn'[c].at = "charging" /\ turn'[c].seen = invoice
        /\ turn'[c].answer = "none"
    BY <2>1 DEF Idle
  <2>3. \A d \in Conversations \ {c} : turn'[d] = turn[d]
    BY <2>1
  <2>4. /\ UNCHANGED <<invoice, recorded, charged>>
        /\ Clean' => Clean /\ \A d \in Conversations : ~InFlight(d)
    BY <1>2 DEF Confirm
  <2>5. ASSUME Clean'
        PROVE  CleanOK'
    <3>1. (\A d \in Conversations : ~InFlight(d)) /\ charged = recorded
      BY <2>4, <2>5
    <3>2. \A d \in Conversations \ {c} : ~InFlight(d)'
      BY <2>3, <3>1
    <3>3. InHand(c)' = 0 /\ InFlight(c)'
      BY <2>2
    <3>4. invoice.paid = recorded /\ (invoice.status = "paid" <=> invoice.paid = Due)
      BY <2>4, <2>5
    <3>5. QED
      BY <2>2, <2>4, <3>1, <3>2, <3>3, <3>4
  <2>6. QED
    BY <2>2, <2>3, <2>5
<1>3. ASSUME NEW c \in Conversations, NEW answer \in Answers, Answered(c, answer),
             charged' = charged + (IF answer = "accepted" THEN turn[c].amount ELSE 0)
                \/ answer = "unheard",
             Clean' => Clean /\ answer # "unheard"
      PROVE  AgreeInv'
  <2>1. turn'[c] = [turn[c] EXCEPT !.at = "charged", !.answer = answer]
    BY <1>3 DEF Answered
  <2>2. /\ turn'[c].at = "charged" /\ turn'[c].answer = answer
        /\ turn'[c].seen = turn[c].seen /\ turn'[c].amount = turn[c].amount
    BY <2>1
  <2>3. /\ \A d \in Conversations \ {c} : turn'[d] = turn[d]
        /\ UNCHANGED <<invoice, recorded>>
        /\ turn[c].at = "charging"
    BY <1>3 DEF Answered
  <2>4. ASSUME Clean'
        PROVE  CleanOK'
    <3>1. /\ \A d \in Conversations \ {c} : ~InFlight(d)'
          /\ turn[c].seen = invoice /\ charged = recorded
      BY <1>3, <2>3, <2>4
    <3>2. charged' = recorded + InHand(c)'
      BY <1>3, <2>2, <2>4, <3>1
    <3>3. turn'[c].seen = invoice' /\ turn'[c].answer # "unheard" /\ InFlight(c)'
      BY <1>3, <2>2, <2>3, <2>4, <3>1
    <3>4. invoice'.paid = recorded' /\ (invoice'.status = "paid" <=> invoice'.paid = Due)
      BY <1>3, <2>3, <2>4
    <3>5. \A d, e \in Conversations : InFlight(d)' /\ InFlight(e)' => d = e
      BY <3>1
    <3>6. QED
      BY <2>3, <3>1, <3>2, <3>3, <3>4, <3>5
  <2>5. QED
    BY <2>2, <2>3, <2>4
<1>4. ASSUME NEW c \in Conversations,
             ChargeAccepted(c) \/ ChargeRefused(c) \/ ChargeUnheard(c)
      PROVE  AgreeInv'
  <2>1. CASE ChargeAccepted(c)
    BY <1>3, <2>1 DEF ChargeAccepted, Take
  <2>2. CASE ChargeRefused(c)
    BY <1>3, <2>2 DEF ChargeRefused
  <2>3. CASE ChargeUnheard(c)
    BY <1>3, <2>3 DEF ChargeUnheard, Take
  <2>4. QED
    BY <1>4, <2>1, <2>2, <2>3
<1>5. ASSUME NEW c \in Conversations, Commit(c)
      PROVE  AgreeInv'
  <2>1. turn' = [turn EXCEPT ![c].at = "answered"] /\ turn[c].at = "charged"
    BY <1>5 DEF Commit
  <2>2. /\ \A d \in Conversations \ {c} : turn'[d] = turn[d]
        /\ turn'[c].at = "answered"
    BY <2>1
  <2>3. charged' = charged /\ mishaps' = mishaps
    BY <1>5 DEF Commit
  <2>4. ASSUME Clean
        PROVE  CleanOK'
    <3>1. \A d \in Conversations : ~InFlight(d)'
      BY <2>1, <2>2, <2>4
    <3>2. CASE turn[c].answer = "accepted"
      <4>1. /\ recorded' = recorded + turn[c].amount
            /\ invoice'.paid = turn[c].seen.paid + turn[c].amount
            /\ LET status == StatusFor(turn[c].seen.paid + turn[c].amount)
               IN  invoice'.status = IF status = turn[c].seen.status
                                     THEN invoice.status ELSE status
        BY <1>5, <3>2 DEF Commit
      <4>2. turn[c].seen = invoice /\ charged = recorded + turn[c].amount
        BY <2>1, <2>4, <3>2
      <4>3. invoice'.status = StatusFor(invoice'.paid)
        BY <4>1, <4>2
      <4>4. invoice'.paid <= Due /\ invoice'.paid \in Nat
        BY <2>1, <4>1 DEF LedgerInv, FlightOK
      <4>5. invoice'.status = "paid" <=> invoice'.paid = Due
        BY <4>3, <4>4, PaidExactly
      <4>6. invoice.paid = recorded /\ recorded \in Nat /\ turn[c].amount \in Nat
        BY <2>4
      <4>7. invoice'.paid = recorded' /\ charged' = recorded'
        BY <2>3, <4>1, <4>2, <4>6
      <4>8. QED
        BY <3>1, <4>5, <4>7
    <3>3. CASE turn[c].answer # "accepted"
      <4>1. UNCHANGED <<recorded, invoice>>
        BY <1>5, <3>3 DEF Commit
      <4>2. charged = recorded
        BY <2>1, <2>4, <3>3
      <4>3. QED
        BY <2>3, <2>4, <3>1, <4>1, <4>2
    <3>4. QED
      BY <3>2, <3>3
  <2>5. QED
    BY <2>2, <2>3, <2>4
<1>6. ASSUME NEW c \in Conversations, CommitFails(c) \/ SaveSession(c) \/ SaveFails(c) \/ Crash(c)
      PROVE  AgreeInv'
  <2>1. UNCHANGED <<invoice, recorded, charged>>
    BY <1>6 DEF CommitFails, SaveSession, SaveFails, Crash
  <2>2. turn' \in {[turn EXCEPT ![c].at = "answered"], [turn EXCEPT ![c] = Idle]}
    BY <1>6 DEF CommitFails, SaveSession, SaveFails, Crash, Rest
  <2>3. ~InFlight(c)' /\ turn'[c].at # "charging"
    BY <2>2 DEF Idle
  <2>4. \A d \in Conversations \ {c} : turn'[d] = turn[d]
    BY <2>2
  <2>5. Clean' => Clean /\ ~(turn[c].at = "charged" /\ Taken(c))
    BY <1>6 DEF CommitFails, SaveSession, SaveFails, Crash
  <2>6. ASSUME Clean'
        PROVE  CleanOK'
    <3>1. AtRest' => charged = recorded
      BY <2>3, <2>4, <2>5, <2>6
    <3>2. QED
      BY <2>1, <2>3, <2>4, <2>5, <2>6, <3>1
  <2>7. QED
    BY <2>3, <2>4, <2>6
<1>7. CASE UNCHANGED vars
  BY <1>7 DEF vars
<1>8. QED
  BY <1>1, <1>2, <1>4, <1>5, <1>6, <1>7 DEF Next

\* Without overlap or unrecorded charge the three ledgers and the status agree.
THEOREM Agreement == Spec => []BooksAgree
<1>1. Init => AgreeInv
  BY DueAssumption
     DEF Init, AgreeInv, Clean, CleanOK, AtRest, InFlight, InHand, Taken, Idle
<1>2. TypeOK /\ LedgerInv /\ AgreeInv => BooksAgree
  BY DEF TypeOK, LedgerInv, PaidWithinDue, AgreeInv, Clean, CleanOK, BooksAgree
<1>3. QED
  BY <1>1, <1>2, AgreeStep, LedgerInvariant, TypeCorrect, PTL DEF Spec
=============================================================================

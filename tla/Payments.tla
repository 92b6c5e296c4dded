------------------------------ MODULE Payments ------------------------------
(***************************************************************************)
(* Paying one invoice by chat: tools/billing.py make_payment, the pending  *)
(* confirmation it leaves in the session, the payment provider and the     *)
(* rows it commits.  Several conversations of the owning customer may pay  *)
(* the same invoice at once; the requests of one conversation come one at  *)
(* a time (SerialSession, which SessionUpdates proves of the store).       *)
(*                                                                         *)
(* The caller is verified and owns the invoice throughout.  Amounts are    *)
(* whole cents, so the 0.001 of slack in the comparisons is no amount.     *)
(***************************************************************************)
EXTENDS Integers

CONSTANTS
    Conversations,
    Due,            \* invoice.amount_due
    Faults,         \* which failures happen: a subset of FaultKinds
    MaxCharged      \* bound: the provider takes no more than this in one behaviour

FaultKinds == {"crash", "commit", "save", "unheard"}

ASSUME DueAssumption == Due \in Nat \ {0}
ASSUME FaultsAssumption == Faults \subseteq FaultKinds
ASSUME BoundAssumption == MaxCharged \in Nat

VARIABLES
    invoice,    \* the committed row: paid (amount_paid) and status
    recorded,   \* sum of the committed Payment rows with status PAID
    charged,    \* what the provider has taken for this invoice
    pending,    \* stored session.pending_payment's amount, NoPrompt when None
    turn,       \* the bare "yes" each conversation is executing
    answers,    \* history: charges taken on each conversation's current prompt
    mishaps     \* history: what went wrong so far, a subset of Mishaps

vars == <<invoice, recorded, charged, pending, turn, answers, mishaps>>

NoPrompt == 0

\* overlap: a confirmation read the invoice while another was between its read and its
\* commit.  unrecorded: money taken, no row.  unsaved: a charge whose turn saved no session.
Mishaps == {"overlap", "unrecorded", "unsaved"}

\* "charging": checked, pending_payment cleared, provider called.  "charged": the provider
\* has answered.  "answered": the commit is over, the session not yet saved.
Phases == {"idle", "charging", "charged", "answered"}

Idle == [at |-> "idle", seen |-> [paid |-> 0, status |-> "pending"],
         amount |-> 0, answer |-> "none"]

\* What became of the charge.  "unheard": taken, but the provider's call raised, which is
\* reported as a charge that failed.
Answers == {"none", "accepted", "refused", "unheard"}

Taken(c) == turn[c].answer \in {"accepted", "unheard"}

Rows == [paid : Nat, status : {"pending", "past_due", "paid"}]

Balance == Due - invoice.paid

Rest(c) == turn' = [turn EXCEPT ![c] = Idle]

\* pending_payment = None in the stored session, at the end of a turn or by expiry.
Clear(c) == pending' = [pending EXCEPT ![c] = NoPrompt]

-----------------------------------------------------------------------------
(***************************************************************************)
(* Faulty variants of the definitions below, each one plausible slip in    *)
(* make_payment.  No specification uses them.                              *)
(***************************************************************************)
\* `if amount > balance` left out.
ConfirmUnchecked(c) ==
    /\ turn[c].at = "idle"
    /\ pending[c] # NoPrompt
    /\ turn' = [turn EXCEPT ![c] = [Idle EXCEPT !.at = "charging", !.seen = invoice,
                                                !.amount = pending[c]]]
    /\ mishaps' = IF \E d \in Conversations : turn[d].at \in {"charging", "charged"}
                  THEN mishaps \cup {"overlap"} ELSE mishaps
    /\ UNCHANGED <<invoice, recorded, charged, pending, answers>>

\* Fully paid only when more than the amount due was paid.
StatusForOver(paid) == IF paid > Due THEN "paid" ELSE "pending"

\* `if result.ok` left out around the invoice.
CommitAnyway(c) ==
    /\ turn[c].at = "charged"
    /\ recorded' = IF turn[c].answer = "accepted" THEN recorded + turn[c].amount ELSE recorded
    /\ invoice' = [invoice EXCEPT !.paid = turn[c].seen.paid + turn[c].amount]
    /\ turn' = [turn EXCEPT ![c].at = "answered"]
    /\ UNCHANGED <<charged, pending, answers, mishaps>>

\* `ctx.session.pending_payment = None` left out before the charge.
SavePromptKept(c) ==
    /\ turn[c].at = "answered"
    /\ Rest(c)
    /\ UNCHANGED <<invoice, recorded, charged, pending, answers, mishaps>>

-----------------------------------------------------------------------------
\* Invoices are seeded unpaid, due or past due.
Init ==
    /\ invoice \in [paid : {0}, status : {"pending", "past_due"}]
    /\ recorded = 0
    /\ charged = 0
    /\ pending = [c \in Conversations |-> NoPrompt]
    /\ turn = [c \in Conversations |-> Idle]
    /\ answers = [c \in Conversations |-> 0]
    /\ mishaps = {}

\* "pay INV-... [$a]": never charges; the prompt it leaves replaces the one before.
Ask(c, a) ==
    /\ turn[c].at = "idle"
    /\ 0 < a /\ a <= Balance
    /\ pending' = [pending EXCEPT ![c] = a]
    /\ answers' = [answers EXCEPT ![c] = 0]
    /\ UNCHANGED <<invoice, recorded, charged, turn, mishaps>>

\* "no", any other message (a refused "pay" too) or the TTL: the prompt is gone.  The TTL
\* may run out under a turn, which then saves the session it loaded.
Withdraw(c) ==
    /\ pending[c] # NoPrompt
    /\ Clear(c)
    /\ UNCHANGED <<invoice, recorded, charged, turn, answers, mishaps>>

\* A bare "yes": the amount is checked against the row as read now, then cleared from the
\* turn's session before the charge.  A refused amount changes nothing: the prompt stays.
Confirm(c) ==
    /\ turn[c].at = "idle"
    /\ pending[c] # NoPrompt
    /\ pending[c] <= Balance
    /\ turn' = [turn EXCEPT ![c] = [Idle EXCEPT !.at = "charging", !.seen = invoice,
                                                !.amount = pending[c]]]
    /\ mishaps' = IF \E d \in Conversations : turn[d].at \in {"charging", "charged"}
                  THEN mishaps \cup {"overlap"} ELSE mishaps
    /\ UNCHANGED <<invoice, recorded, charged, pending, answers>>

\* provider.charge.
Answered(c, answer) ==
    /\ turn[c].at = "charging"
    /\ turn' = [turn EXCEPT ![c] = [@ EXCEPT !.at = "charged", !.answer = answer]]
    /\ UNCHANGED <<invoice, recorded, pending>>

Take(c) ==
    /\ charged + turn[c].amount <= MaxCharged
    /\ charged' = charged + turn[c].amount
    /\ answers' = [answers EXCEPT ![c] = @ + 1]

ChargeAccepted(c) == Answered(c, "accepted") /\ Take(c) /\ UNCHANGED mishaps

ChargeRefused(c) == Answered(c, "refused") /\ UNCHANGED <<charged, answers, mishaps>>

ChargeUnheard(c) ==
    /\ "unheard" \in Faults
    /\ Answered(c, "unheard")
    /\ Take(c)
    /\ mishaps' = mishaps \cup {"unrecorded"}

StatusFor(paid) == IF paid >= Due THEN "paid" ELSE "pending"

\* The Payment row and, when the charge went through, the invoice: amount_paid as read plus
\* the amount.  The ORM writes only columns that differ from what this turn loaded.
Commit(c) ==
    LET t == turn[c]
        paid == t.seen.paid + t.amount
        status == StatusFor(paid)
    IN  /\ t.at = "charged"
        /\ IF t.answer = "accepted"
           THEN /\ recorded' = recorded + t.amount
                /\ invoice' = [paid |-> paid,
                               status |-> IF status = t.seen.status
                                          THEN invoice.status ELSE status]
           ELSE UNCHANGED <<recorded, invoice>>
        /\ turn' = [turn EXCEPT ![c].at = "answered"]
        /\ UNCHANGED <<charged, pending, answers, mishaps>>

\* The commit raises: neither row is written, and the turn ends by an error.
CommitFails(c) ==
    /\ "commit" \in Faults
    /\ turn[c].at = "charged"
    /\ turn' = [turn EXCEPT ![c].at = "answered"]
    /\ mishaps' = IF Taken(c) THEN mishaps \cup {"unrecorded"} ELSE mishaps
    /\ UNCHANGED <<invoice, recorded, charged, pending, answers>>

\* Leaving the session lock: the cleared prompt is stored.
SaveSession(c) ==
    /\ turn[c].at = "answered"
    /\ Clear(c)
    /\ Rest(c)
    /\ UNCHANGED <<invoice, recorded, charged, answers, mishaps>>

SaveFails(c) ==
    /\ "save" \in Faults
    /\ turn[c].at = "answered"
    /\ Rest(c)
    /\ mishaps' = IF Taken(c) THEN mishaps \cup {"unsaved"} ELSE mishaps
    /\ UNCHANGED <<invoice, recorded, charged, pending, answers>>

\* The replica dies during the turn: the stored session still holds the prompt.
Crash(c) ==
    /\ "crash" \in Faults
    /\ turn[c].at # "idle"
    /\ Rest(c)
    /\ mishaps' = mishaps
         \cup (IF Taken(c) THEN {"unsaved"} ELSE {})
         \cup (IF Taken(c) /\ turn[c].at = "charged" THEN {"unrecorded"} ELSE {})
    /\ UNCHANGED <<invoice, recorded, charged, pending, answers>>

-----------------------------------------------------------------------------
Next ==
    \E c \in Conversations :
        \/ \E a \in 1..Due : Ask(c, a)
        \/ Withdraw(c)
        \/ Confirm(c)
        \/ ChargeAccepted(c) \/ ChargeRefused(c) \/ ChargeUnheard(c)
        \/ Commit(c) \/ CommitFails(c)
        \/ SaveSession(c) \/ SaveFails(c)
        \/ Crash(c)

Spec == Init /\ [][Next]_vars

-----------------------------------------------------------------------------
TypeOK ==
    /\ invoice \in Rows
    /\ recorded \in Nat
    /\ charged \in Nat
    /\ pending \in [Conversations -> Nat]
    /\ turn \in [Conversations ->
                    [at : Phases, seen : Rows, amount : Nat, answer : Answers]]
    /\ answers \in [Conversations -> Nat]
    /\ mishaps \subseteq Mishaps

(***************************************************************************)
(* The invoice never claims money that was not taken: what it says is paid *)
(* is covered by PAID payment rows and by real charges, whatever overlaps, *)
(* crashes, failed commits or lost answers happened (`Never claim success  *)
(* when the charge failed`, make_payment).                                 *)
(***************************************************************************)
InvoiceIsBacked == invoice.paid <= recorded /\ invoice.paid <= charged

(***************************************************************************)
(* Nor do the payment rows: the PAID ones add up to no more than was taken.*)
(***************************************************************************)
RowsAreBacked == recorded <= charged

(***************************************************************************)
(* The invoice is never recorded as paid beyond what was due, even by      *)
(* confirmations that checked the same balance.                            *)
(***************************************************************************)
PaidWithinDue == invoice.paid <= Due

AtRest == \A c \in Conversations : turn[c].at \notin {"charging", "charged"}

(***************************************************************************)
(* As long as no two confirmations overlapped and every charge was         *)
(* recorded, the three ledgers agree exactly whenever no payment is in     *)
(* flight, nothing beyond the amount due was taken, and the invoice says   *)
(* "paid" exactly when it is.  So over-collection takes an overlap or an   *)
(* unrecorded charge; a lost session save alone cannot cause it.           *)
(***************************************************************************)
BooksAgree ==
    (mishaps \cap {"overlap", "unrecorded"} = {} /\ AtRest) =>
        /\ invoice.paid = recorded /\ recorded = charged
        /\ charged <= Due
        /\ invoice.status = "paid" <=> invoice.paid = Due

(***************************************************************************)
(* One prompt is charged at most once, however often the caller says yes,  *)
(* unless the turn that charged it could not save its session.             *)
(***************************************************************************)
OneChargePerPrompt ==
    "unsaved" \notin mishaps => \A c \in Conversations : answers[c] <= 1

\* `Concurrent payment or claim confirmations cannot execute twice`
\* (docs/production-deployment-plan.md, P0.3 exit gate): an invoice is not paid for twice.
ConfirmationsDoNotAddUp == charged <= Due

\* `A confirmed charge resolves any pending confirmation for this session` (make_payment):
\* a prompt whose charge went through is not charged again.
ChargeResolvesPrompt == \A c \in Conversations : answers[c] <= 1
=============================================================================

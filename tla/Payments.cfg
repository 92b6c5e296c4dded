SPECIFICATION Spec
CONSTANTS
    Conversations = {web, phone}
    Due = 2
    Faults = {"crash", "commit", "save", "unheard"}
    MaxCharged = 5
INVARIANTS InvoiceIsBacked PaidWithinDue BooksAgree OneChargePerPrompt
\* a paid invoice with no open prompt offers nothing more to pay
CHECK_DEADLOCK FALSE

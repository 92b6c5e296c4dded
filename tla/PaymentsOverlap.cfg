SPECIFICATION Spec
CONSTANTS
    Conversations = {web, phone}
    Due = 2
    Faults = {}
    MaxCharged = 5
INVARIANT ConfirmationsDoNotAddUp
\* a paid invoice with no open prompt offers nothing more to pay
CHECK_DEADLOCK FALSE

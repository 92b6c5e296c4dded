SPECIFICATION FSpec
CONSTANTS
    None = None
    ann = ann
    bob = bob
    ann1 = ann1
    ann2 = ann2
    anon = anon
    Conversations = {ann1, ann2, anon}
    Customers = {ann, bob}
    CustomerOf <- VerifiedAs
    SeedClaims <- OnFile
    Disputed = {}
    Contacts = {"email"}
    MaxRows = 2
    MaxAppointments = 1
INVARIANTS FailsForCause ToldIsOnFile
\* the bounds on rows end every behaviour
CHECK_DEADLOCK FALSE

SPECIFICATION Spec
CONSTANTS
    Turns = {t1, t2}
    Free = Free
    Orphan = Orphan
    LeaseOutlivesTurn = TRUE
    alice = alice
    bob = bob
    Customers = {alice, bob}
    None = None
    Unknown = Unknown
    Principals <- Tokens
    MaxAttempts = 2
    SinglePolicy = {alice}
    Utterances <- Sentences
    Claims <- FactorSets
    MaxRequests = 4
    MaxMishaps = 1
SYMMETRY Symmetry
INVARIANTS VerifiedIsProven ClaimsWereAskedFor HandoffSticks
PROPERTIES NeverRepointed ChargeAnswersPrompt
\* the bound on requests ends every behaviour
CHECK_DEADLOCK FALSE

SPECIFICATION Spec
CONSTANTS
    ann = ann
    bob = bob
    auto1 = auto1
    home1 = home1
    auto2 = auto2
    ghost = ghost
    claim1 = claim1
    claim2 = claim2
    claim3 = claim3
    spare = spare
    inv1 = inv1
    inv2 = inv2
    None = None
    Customers = {ann, bob}
    Policies = {auto1, home1, auto2, ghost}
    ClaimNumbers = {claim1, claim2, claim3, spare}
    Invoices = {inv1, inv2}
    Owner <- Owners
    Claimants <- OnFile
    Product <- Products
    Covers <- Schedules
    Messages <- Sayings
INVARIANTS HeardIsOwn ActionsAreTold VerdictIsRecorded

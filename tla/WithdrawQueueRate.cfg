SPECIFICATION Spec
CONSTANTS
    alice = alice  bob = bob
    Owner = {alice}
    SF = 2
    Seed = 1
    DepositLimit = 6
    MinValue = 1
    Prices = {1}
    Enforced = {TRUE, FALSE}
    Accruals <- MixedAccruals
    Amounts = {1, 2}
    MaxTickets = 2
    MaxDebt = 6
    MaxAssets = 8
    MaxMint = 4
    MaxI64 = 3
    Now = 1
    CapSettings <- OptionalCap
    Destinations = {"valid"}
    SwitchSets <- AlwaysOpen
INVARIANT NeverUnderwater
INVARIANT CoveredHeadMoves
PROPERTY RateNeverDrops
PROPERTY QueueFirst
CHECK_DEADLOCK FALSE

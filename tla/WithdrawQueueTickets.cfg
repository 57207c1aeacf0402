SPECIFICATION Spec
CONSTANTS
    alice = alice  bob = bob
    Owner = {alice, bob}
    SF = 1
    Seed = 1
    DepositLimit = 4
    MinValue = 1
    Prices = {1}
    Enforced = {FALSE}
    Accruals <- QuietAccruals
    Amounts = {1, 2}
    MaxTickets = 3
    MaxDebt = 1
    MaxAssets = 4
    MaxMint = 4
    MaxI64 = 2
    Now = 1
    CapSettings <- NoCap
    Destinations = {"valid", "missing", "invalid"}
    SwitchSets <- EverySetting
SYMMETRY Symmetry
INVARIANT TypeOK
INVARIANT TicketWindow
INVARIANT QueueBacked
CHECK_DEADLOCK FALSE

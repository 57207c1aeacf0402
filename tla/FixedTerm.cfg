SPECIFICATION Spec
CONSTANTS
    ReserveId = {"fix", "open"}
    SF = 2
    market <- Market
    max_borrow_rate_bps <- MaxRates
    queued <- Queued
    allowed_borrow_value = 4
    InitialTerm <- FirstTerm
    InitialMaturity <- FirstMaturity
    InitialAvailable <- Liquidity
    Terms = {0, 2}
    Maturities = {2}
    OrderConfigs <- Orders
    Amounts = {1}
    Configured = {"fix"}
    Rates = {0, 2}
    MinTerms = {0, 1}
    MaxNow = 3
    Never = 6
INVARIANTS TermPromised IntegrityKept
PROPERTIES NoBlindUpdate CaptureOfThisTerm
CHECK_DEADLOCK FALSE

SPECIFICATION Spec
CONSTANTS
    SF = 100
    ReserveId = {"c1", "d1", "d2"}
    Collaterals = {"c1"}
    Debts = {"d1", "d2"}
    market <- TermMarket
    config <- TermConfig
    Group = {}
    elevation <- TermElevation
    Prices <- TermPrices
    OrderSlot = {1}
    OrderConfigs = {}
    Amounts <- TermAmounts
    MaxDeposit = 4
    MaxDay = 5
    Targets = {20}
INVARIANT TermThrottle
PROPERTY SafeStaysSafe
CHECK_DEADLOCK FALSE

SPECIFICATION Spec
CONSTANTS
    SF = 100
    ReserveId = {"c1", "c2", "d1"}
    Collaterals = {"c1", "c2"}
    Debts = {"d1"}
    market <- LtvMarket
    config <- LtvConfig
    Group = {1}
    elevation <- LtvElevation
    Prices <- LtvPrices
    OrderSlot = {1}
    OrderConfigs <- LtvOrders
    Amounts <- LtvAmounts
    MaxDeposit = 2
    MaxDay = 1
    Targets = {}
INVARIANTS OrderSizeRespected LiquidationPossible
PROPERTIES OrdersSupported SafeStaysSafe LiquidationHelps
CHECK_DEADLOCK FALSE

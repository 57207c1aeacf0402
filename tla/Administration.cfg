SPECIFICATION Spec
CONSTANTS
    Key = {a, b, c}
    Nobody = Nobody
    FirstAdmin = a
    FirstOwner = b
    FirstUser = b
    Nominees = {a, b}
    MaxTime = 3
    MAX = 9
    MIN_INITIAL_DEPOSIT_AMOUNT = 1
    MarketValues <- MCMarketValues
    ReserveValues <- MCReserveValues
    Sources <- MCSources
    MaxSupply = 2
    Collateral = Collateral
    Debt = Debt
    FirstTokenInfo <- MCFirstTokenInfo
    TokenValues <- MCTokenValues
    Unreadable = Unreadable
    PythMessages <- MCPythMessages
    SwitchboardMessages <- MCSwitchboardMessages
    ScopeMessages <- MCScopeMessages
    Triggers = {100}
    FirstNow = 10
    LastNow = 12
    MaxAhead = 1
    Reserve = {"r1", "r2"}
    FirstLedger <- MCFirstLedger
    MarketSwitchValues <- MCMarketSwitchValues
    ReserveSwitchValues <- MCReserveSwitchValues
    MaxSupplied = 1
    MaxOwed = 1
INVARIANTS
    TransferAgreed
    OrderOfOwner
    OpenReserveSound
    PricesYoung
    ExitOpen
PROPERTIES
    ProposerConfined
    SwitchesObeyed
CHECK_DEADLOCK FALSE

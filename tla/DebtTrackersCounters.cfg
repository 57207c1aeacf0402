SPECIFICATION Spec
CONSTANTS
    o1 = o1  o2 = o2  usdc = usdc  sol = sol  msol = msol
    ObligationId = {o1, o2}
    ReserveId = {usdc, sol}
    Group <- OneGroup
    debt_reserve <- DebtReserves
    elevation_groups <- Membership
    max_reserves_as_collateral <- OneCollateral
    borrow_limit_outside_elevation_group <- OutsideLimit
    borrow_limit_against_this_collateral <- AgainstLimit
    SF = 2
    Amounts = {1, 2}
    Borrowed_sf = {1, 2}
    MaxDebt_sf = 2
    MaxDeposit = 1
    MaxRate = 3
SYMMETRY Symmetry
INVARIANT CountersAgree
INVARIANT NoDrift
CHECK_DEADLOCK FALSE

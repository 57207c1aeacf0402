SPECIFICATION Spec
CONSTANTS
    o1 = o1  o2 = o2  usdc = usdc  sol = sol  msol = msol
    ObligationId = {o1}
    ReserveId = {usdc, sol, msol}
    Group <- TwoGroups
    debt_reserve <- DebtReserves
    elevation_groups <- Membership
    max_reserves_as_collateral <- OneCollateral
    borrow_limit_outside_elevation_group <- OutsideLimit
    borrow_limit_against_this_collateral <- AgainstLimit
    SF = 2
    Amounts = {1}
    Borrowed_sf = {2}
    MaxDebt_sf = 4
    MaxDeposit = 2
    MaxRate = 3
INVARIANT GroupClosed
CHECK_DEADLOCK FALSE

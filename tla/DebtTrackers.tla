----------------------------- MODULE DebtTrackers -----------------------------
(***************************************************************************)
(* klend's bookkeeping of who owes how much in which elevation group.      *)
(*                                                                         *)
(* A reserve limits how much of it may be borrowed outside elevation       *)
(* groups, and how much may be borrowed against it inside each group.  No  *)
(* instruction can visit all obligations, so each reserve keeps counters,  *)
(* each obligation keeps its own share of every counter, and all           *)
(* instructions on obligations move both (lending_operations.rs).          *)
(*                                                                         *)
(* Accounts are valid for one slot after a refresh and until the next      *)
(* instruction that marks them stale.  `status` of a reserve is "old" when *)
(* its last_update.slot is not the current slot, else "fresh", or          *)
(* "touched" once marked stale.                                            *)
(*                                                                         *)
(* Left out, because they only refuse more: values, health and prices,     *)
(* liquidity, withdrawal caps, permissions, switches, debt terms, the      *)
(* sizes of the deposit and borrow arrays.  What a liquidation settles and *)
(* withdraws depends on values; any amounts are taken.                     *)
(* Settings of markets and reserves are constant.                          *)
(***************************************************************************)
EXTENDS Reserve, FiniteSets, Functions

CONSTANTS ObligationId, ReserveId,
          Group,              \* ids of the elevation groups
          debt_reserve,       \* of each group
          elevation_groups,   \* of each reserve: the groups it is in
          max_reserves_as_collateral,                  \* of each group
          borrow_limit_outside_elevation_group,        \* of each reserve
          borrow_limit_against_this_collateral,        \* of each reserve in each group
          Amounts,            \* bound: whole amounts tried
          Borrowed_sf,        \* bound: amounts borrowed, with fractions
          MaxDebt_sf,         \* bound: debt of one obligation in one reserve
          MaxDeposit,         \* bound: collateral of one obligation in one reserve
          MaxRate             \* bound: cumulative borrow rate

VARIABLES reserve, obligation

vars == <<reserve, obligation>>

ELEVATION_GROUP_NONE == 0

ASSUME GroupAssumption ==
    /\ IsFiniteSet(ObligationId) /\ IsFiniteSet(ReserveId)
    /\ Group \subseteq Nat \ {ELEVATION_GROUP_NONE}
    /\ debt_reserve \in [Group -> ReserveId]
    /\ elevation_groups \in [ReserveId -> SUBSET Group]
    /\ max_reserves_as_collateral \in [Group -> Nat \ {0}]
    /\ borrow_limit_outside_elevation_group \in [ReserveId -> Nat]
    /\ borrow_limit_against_this_collateral \in [ReserveId -> [Group -> Nat]]
    /\ Amounts \subseteq Nat \ {0} /\ Borrowed_sf \subseteq Nat \ {0}
    /\ MaxDebt_sf \in Nat /\ MaxDeposit \in Nat /\ MaxRate \in Nat \ {0}

ReserveAccount ==
    [rate : Nat \ {0},               \* liquidity.cumulative_borrow_rate_bsf
     status : {"old", "fresh", "touched"},
     outside : Nat,                  \* borrowed_amount_outside_elevation_group
     against : [Group -> Nat]]       \* borrowed_amounts_against_this_reserve_in_elevation_groups

\* Deposit and borrow entries by reserve; an entry in its default state is 0.
ObligationAccount ==
    [group : Group \cup {ELEVATION_GROUP_NONE},
     fresh : BOOLEAN,
     deposited : [ReserveId -> Nat],
     against : [ReserveId -> Nat],   \* borrowed_amount_against_this_collateral_...
     borrowed_sf : [ReserveId -> Nat],
     rate : [ReserveId -> Nat],      \* cumulative_borrow_rate_bsf of the borrow
     outside : [ReserveId -> Nat]]   \* borrowed_amount_outside_elevation_groups

Zero == [r \in ReserveId |-> 0]
NewObligation ==
    [group |-> ELEVATION_GROUP_NONE, fresh |-> FALSE, deposited |-> Zero,
     against |-> Zero, borrowed_sf |-> Zero, rate |-> Zero, outside |-> Zero]

Init ==
    /\ reserve = [r \in ReserveId |-> [rate |-> SF, status |-> "old", outside |-> 0,
                                       against |-> [g \in Group |-> 0]]]
    /\ obligation = [o \in ObligationId |-> NewObligation]

-----------------------------------------------------------------------------
(* The operations work on s.res, all reserves, and s.ob, one obligation.   *)

At(o) == [res |-> reserve, ob |-> obligation[o]]
Becomes(o, s) == reserve' = s.res /\ obligation' = [obligation EXCEPT ![o] = s.ob]

Ceil(x_sf) == DivCeil(x_sf, SF)
InGroup(ob) == ob.group # ELEVATION_GROUP_NONE
Deposits(ob) == {r \in ReserveId : ob.deposited[r] # 0}
Borrows(ob) == {r \in ReserveId : ob.borrowed_sf[r] # 0}

Fresh(s, r) == s.res[r].status = "fresh"
refreshed(s, r) == [s EXCEPT !.res[r].status = "fresh"]
touched(s, r) == [s EXCEPT !.res[r].status = "touched"]
stale(s) == [s EXCEPT !.ob.fresh = FALSE]

\* get_borrowed_amount_if_single_token
SingleDebt(ob) == \A r, q \in Borrows(ob) : r = q
borrowed_amount(ob) ==
    IF Borrows(ob) = {} THEN 0 ELSE Ceil(ob.borrowed_sf[CHOOSE r \in Borrows(ob) : TRUE])

-----------------------------------------------------------------------------
(* Counters and shares                                                     *)

on_borrow(s, r, n) ==
    LET mine == Deposits(s.ob)
    IN  IF InGroup(s.ob)
        THEN [res |-> [q \in ReserveId |->
                         IF q \in mine THEN [s.res[q] EXCEPT !.against[s.ob.group] = @ + n]
                                       ELSE s.res[q]],
              ob |-> [s.ob EXCEPT !.against = [q \in ReserveId |->
                         IF q \in mine THEN @[q] + n ELSE @[q]]]]
        ELSE [s EXCEPT !.res[r].outside = @ + n, !.ob.outside[r] = @ + n]

on_repay(s, r, n) ==
    LET mine == Deposits(s.ob)
    IN  IF InGroup(s.ob)
        THEN [res |-> [q \in ReserveId |->
                         IF q \in mine
                         THEN [s.res[q] EXCEPT !.against[s.ob.group] = saturating_sub(@, n)]
                         ELSE s.res[q]],
              ob |-> [s.ob EXCEPT !.against = [q \in ReserveId |->
                         IF q \in mine THEN saturating_sub(@[q], n) ELSE @[q]]]]
        ELSE [s EXCEPT !.res[r].outside = saturating_sub(@, n),
                       !.ob.outside[r] = saturating_sub(@, n)]

\* The entry's share is given by the caller: the entry itself is gone.
on_full_withdraw(s, q, share) ==
    IF InGroup(s.ob)
    THEN [s EXCEPT !.res[q].against[s.ob.group] = saturating_sub(@, share)]
    ELSE s

\* Faulty variant: the new collateral starts without the debt it backs.
on_new_deposit_unbacked(s, r) == s

on_new_deposit(s, r) ==
    IF InGroup(s.ob)
    THEN [s EXCEPT !.res[r].against[s.ob.group] = @ + borrowed_amount(s.ob),
                   !.ob.against[r] = borrowed_amount(s.ob)]
    ELSE s

on_rollover(s, r, t, n) ==
    [s EXCEPT !.res[r].outside = saturating_sub(@, n),
              !.res[t].outside = @ + n,
              !.ob.outside[r] = IF r \in Borrows(s.ob) THEN saturating_sub(@, n) ELSE @,
              !.ob.outside[t] = @ + n]

reset_elevation_group_debts(s) ==
    IF InGroup(s.ob)
    THEN [res |-> [q \in ReserveId |->
                     IF q \in Deposits(s.ob)
                     THEN [s.res[q] EXCEPT !.against[s.ob.group] = saturating_sub(@, s.ob.against[q])]
                     ELSE s.res[q]],
          ob |-> [s.ob EXCEPT !.against = [q \in ReserveId |->
                     IF q \in Deposits(s.ob) THEN 0 ELSE @[q]]]]
    ELSE [res |-> [r \in ReserveId |->
                     IF r \in Borrows(s.ob)
                     THEN [s.res[r] EXCEPT !.outside = saturating_sub(@, s.ob.outside[r])]
                     ELSE s.res[r]],
          ob |-> [s.ob EXCEPT !.outside = [r \in ReserveId |->
                     IF r \in Borrows(s.ob) THEN 0 ELSE @[r]]]]

-----------------------------------------------------------------------------
(* Refreshing an obligation                                                *)

\* What refresh_obligation_borrows and refresh_obligation_deposits require.
CanRefresh(s, g) ==
    /\ \A r \in Deposits(s.ob) \cup Borrows(s.ob) : Fresh(s, r)
    /\ g # ELEVATION_GROUP_NONE =>
          /\ \A r \in Deposits(s.ob) : g \in elevation_groups[r] /\ r # debt_reserve[g]
          /\ \A r \in Borrows(s.ob) : g \in elevation_groups[r] /\ r = debt_reserve[g]

\* ObligationLiquidity::accrue_interest
accrue_interest(s) ==
    [s EXCEPT
       !.ob.borrowed_sf = [r \in ReserveId |->
           IF r \in Borrows(s.ob) THEN (@[r] * s.res[r].rate) \div s.ob.rate[r] ELSE @[r]],
       !.ob.rate = [r \in ReserveId |-> IF r \in Borrows(s.ob) THEN s.res[r].rate ELSE @[r]]]

refresh_obligation_borrows(s0, g) ==
    LET s == accrue_interest(s0)
    IN  IF g # ELEVATION_GROUP_NONE THEN s
        ELSE [res |-> [r \in ReserveId |->
                         IF r \in Borrows(s.ob)
                         THEN [s.res[r] EXCEPT !.outside = saturating_sub(@, s.ob.outside[r])
                                                           + Ceil(s.ob.borrowed_sf[r])]
                         ELSE s.res[r]],
              ob |-> [s.ob EXCEPT !.outside = [r \in ReserveId |->
                         IF r \in Borrows(s.ob) THEN Ceil(s.ob.borrowed_sf[r]) ELSE @[r]]]]

refresh_obligation_deposits(s, g) ==
    LET debt == borrowed_amount(s.ob)
        mine == Deposits(s.ob)
    IN  IF g = ELEVATION_GROUP_NONE THEN s
        ELSE [res |-> [r \in ReserveId |->
                         IF r \in mine
                         THEN [s.res[r] EXCEPT !.against[g] =
                                 saturating_sub(@, s.ob.against[r]) + debt]
                         ELSE s.res[r]],
              ob |-> [s.ob EXCEPT !.against = [r \in ReserveId |->
                         IF r \in mine THEN debt ELSE @[r]]]]

refresh_obligation(s) ==
    [refresh_obligation_deposits(refresh_obligation_borrows(s, s.ob.group), s.ob.group)
       EXCEPT !.ob.fresh = TRUE]

-----------------------------------------------------------------------------
(* Entries of an obligation                                                *)

\* What n whole units settle of a debt.
calculate_repay(s, r, n) == Lesser(n * SF, s.ob.borrowed_sf[r])

\* Obligation::repay
settled(s, r, amount_sf) ==
    IF amount_sf = s.ob.borrowed_sf[r]
    THEN [s EXCEPT !.ob.borrowed_sf[r] = 0, !.ob.rate[r] = 0, !.ob.outside[r] = 0]
    ELSE [s EXCEPT !.ob.borrowed_sf[r] = @ - amount_sf]

\* find_or_add_liquidity_to_borrows, ObligationLiquidity::borrow
owed(s, r, amount_sf) ==
    [s EXCEPT !.ob.borrowed_sf[r] = @ + amount_sf,
              !.ob.rate[r] = IF r \in Borrows(s.ob) THEN @ ELSE s.res[r].rate]

\* Obligation::withdraw
withdrawn(s, q, c) ==
    IF c = s.ob.deposited[q]
    THEN [s EXCEPT !.ob.deposited[q] = 0, !.ob.against[q] = 0]
    ELSE [s EXCEPT !.ob.deposited[q] = @ - c]

\* Faulty variant: any number of collaterals.
WithinMaxAlways(ob, g) == TRUE

WithinMax(ob, g) ==
    g # ELEVATION_GROUP_NONE => Cardinality(Deposits(ob)) <= max_reserves_as_collateral[g]

CanWithdraw(s, q, c) ==
    Fresh(s, q) /\ s.ob.fresh /\ c \in 1..s.ob.deposited[q]

CanDeposit(s, r, counted) ==
    /\ Fresh(s, r) /\ s.ob.fresh
    /\ InGroup(s.ob) => s.ob.group \in elevation_groups[r]
    /\ InGroup(s.ob) /\ r \notin Deposits(s.ob) =>
          /\ r # debt_reserve[s.ob.group]
          /\ counted => Cardinality(Deposits(s.ob)) + 1 <= max_reserves_as_collateral[s.ob.group]
          /\ SingleDebt(s.ob)

deposit_obligation_collateral(s, r, c) ==
    LET counted == IF r \in Deposits(s.ob) THEN s ELSE on_new_deposit(s, r)
    IN  stale(touched([counted EXCEPT !.ob.deposited[r] = @ + c], r))

withdraw_obligation_collateral(s, q, c) ==
    LET left == stale(withdrawn(s, q, c))
    IN  IF q \in Deposits(left.ob) THEN left ELSE on_full_withdraw(left, q, s.ob.against[q])

-----------------------------------------------------------------------------
(* Instructions on reserves                                                *)

\* The slot ends: nothing is up to date any more.
Tick ==
    /\ reserve' = [r \in ReserveId |-> [reserve[r] EXCEPT !.status = "old"]]
    /\ obligation' = [o \in ObligationId |-> [obligation[o] EXCEPT !.fresh = FALSE]]

\* Interest is compounded once per slot; a second refresh changes nothing.
RefreshReserve(r, growth) ==
    /\ reserve[r].status # "fresh"
    /\ growth # 0 => reserve[r].status = "old"
    /\ reserve[r].rate + growth <= MaxRate
    /\ reserve' = [reserve EXCEPT ![r].status = "fresh", ![r].rate = @ + growth]
    /\ UNCHANGED obligation

\* Any other instruction on the reserve: deposits, redemptions, flash loans, ...
TouchReserve(r) ==
    /\ reserve[r].status = "fresh"
    /\ reserve' = [reserve EXCEPT ![r].status = "touched"]
    /\ UNCHANGED obligation

-----------------------------------------------------------------------------
(* Instructions on obligations                                             *)

RefreshObligation(o) ==
    /\ CanRefresh(At(o), obligation[o].group)
    /\ Becomes(o, refresh_obligation(At(o)))

DepositCollateral(o, r, c) ==
    /\ CanDeposit(At(o), r, TRUE)
    /\ obligation[o].deposited[r] + c <= MaxDeposit
    /\ Becomes(o, deposit_obligation_collateral(At(o), r, c))

\* An account left without entries is closed; its owner may open it again.
closed_if_empty(s) ==
    IF Deposits(s.ob) = {} /\ Borrows(s.ob) = {} THEN [s EXCEPT !.ob = NewObligation] ELSE s

\* With or without the redemption of the collateral, which touches the reserve.
WithdrawCollateral(o, q, c, redeemed) ==
    /\ CanWithdraw(At(o), q, c)
    /\ LET s == withdraw_obligation_collateral(At(o), q, c)
       IN  Becomes(o, closed_if_empty(IF redeemed THEN touched(s, q) ELSE s))

check_obligation_fully_refreshed_and_not_null(s) == s.ob.fresh /\ Deposits(s.ob) # {}

CanBorrow(s, r, n) ==
    /\ Fresh(s, r) /\ check_obligation_fully_refreshed_and_not_null(s)
    /\ IF InGroup(s.ob)
       THEN /\ s.ob.group \in elevation_groups[r]
            /\ r = debt_reserve[s.ob.group]
            /\ \A q \in Deposits(s.ob) :
                  s.res[q].against[s.ob.group] + n
                    <= borrow_limit_against_this_collateral[q][s.ob.group]
       ELSE s.res[r].outside + n <= borrow_limit_outside_elevation_group[r]

Borrow(o, r, amount_sf) ==
    /\ CanBorrow(At(o), r, Ceil(amount_sf))
    /\ obligation[o].borrowed_sf[r] + amount_sf <= MaxDebt_sf
    /\ Becomes(o, on_borrow(stale(touched(owed(At(o), r, amount_sf), r)), r, Ceil(amount_sf)))

\* The counters are told the whole units that cover what is settled.
repaid(s, r, amount_sf) ==
    stale(touched(settled(on_repay(s, r, Ceil(amount_sf)), r, amount_sf), r))

Repay(o, r, n) ==
    LET s == At(o)
    IN  /\ Fresh(s, r) /\ s.ob.fresh /\ r \in Borrows(s.ob)
        /\ Becomes(o, repaid(s, r, calculate_repay(s, r, n)))

\* What is left of a debt nobody can be made to pay.
SocializeLoss(o, r, n) ==
    LET s == At(o)
    IN  /\ Fresh(s, r) /\ s.ob.fresh
        /\ Deposits(s.ob) = {} /\ r \in Borrows(s.ob)
        /\ Becomes(o, repaid(s, r, calculate_repay(s, r, n)))

\* Faulty variant: the share is read before the repayment lowers it.
liquidated_late(s, r, q, amount_sf, c) ==
    LET left == withdrawn(repaid(s, r, amount_sf), q, c)
    IN  IF q \in Deposits(left.ob) THEN left ELSE on_full_withdraw(left, q, s.ob.against[q])

liquidated(s, r, q, amount_sf, c) ==
    LET paid == repaid(s, r, amount_sf)
        left == withdrawn(paid, q, c)
    IN  IF q \in Deposits(left.ob) THEN left ELSE on_full_withdraw(left, q, paid.ob.against[q])

\* Collateral is paid out as ctokens when the reserve has no free liquidity.
Liquidate(o, r, q, amount_sf, c, redeemed) ==
    LET s == At(o)
        l == refreshed(liquidated(s, r, q, amount_sf, c), q)
    IN  /\ Fresh(s, r) /\ Fresh(s, q) /\ s.ob.fresh
        /\ amount_sf \in 1..s.ob.borrowed_sf[r] /\ c \in 1..s.ob.deposited[q]
        /\ Becomes(o, IF redeemed THEN touched(l, q) ELSE l)

RequestElevationGroup(o, g) ==
    LET s == At(o)
        cleared == reset_elevation_group_debts(s)
        counted == refresh_obligation_deposits(refresh_obligation_borrows(cleared, g), g)
    IN  /\ check_obligation_fully_refreshed_and_not_null(s) /\ g # s.ob.group
        /\ WithinMax(s.ob, g) /\ CanRefresh(s, g)
        /\ IF g = ELEVATION_GROUP_NONE
           THEN \A r \in Borrows(s.ob) :
                   counted.res[r].outside <= borrow_limit_outside_elevation_group[r]
           ELSE \A q \in Deposits(s.ob) :
                   counted.res[q].against[g] <= borrow_limit_against_this_collateral[q][g]
        /\ Becomes(o, stale([counted EXCEPT !.ob.group = g]))

\* Debt of an expiring loan moves from reserve r to reserve t.
Rollover(o, r, t, n) ==
    LET s == At(o)
        paid_sf == calculate_repay(s, r, n)
        moved == owed(settled(s, r, paid_sf), t, n * SF)
    IN  /\ ~InGroup(s.ob) /\ r # t /\ r \in Borrows(s.ob)
        /\ Fresh(s, r) /\ Fresh(s, t) /\ check_obligation_fully_refreshed_and_not_null(s)
        /\ n <= Ceil(s.ob.borrowed_sf[r])
        /\ s.res[t].outside + n <= borrow_limit_outside_elevation_group[t]
        /\ s.ob.borrowed_sf[t] + n * SF <= MaxDebt_sf
        /\ Becomes(o, stale(touched(touched(on_rollover(moved, r, t, n), r), t)))

\* Into the same reserve: new terms, same debt.
RolloverInPlace(o, r) ==
    LET s == At(o)
    IN  /\ ~InGroup(s.ob) /\ r \in Borrows(s.ob)
        /\ Fresh(s, r) /\ check_obligation_fully_refreshed_and_not_null(s)
        /\ s.res[r].outside <= borrow_limit_outside_elevation_group[r]
        /\ Becomes(o, stale(s))

\* One collateral for another in one instruction; the number of collaterals
\* is counted at the end only.
DepositAndWithdraw(o, r, q, c, d) ==
    LET deposited == refreshed(deposit_obligation_collateral(At(o), r, c), r)
        up_to_date == refresh_obligation(deposited)
        left == refreshed(touched(withdraw_obligation_collateral(up_to_date, q, d), q), q)
    IN  /\ r # q /\ Deposits(obligation[o]) # {}
        /\ CanDeposit(At(o), r, FALSE)
        /\ obligation[o].deposited[r] + c <= MaxDeposit
        /\ CanRefresh(deposited, obligation[o].group)
        /\ CanWithdraw(up_to_date, q, d)
        /\ CanRefresh(left, obligation[o].group)
        /\ WithinMax(left.ob, left.ob.group)
        /\ Becomes(o, stale(touched(refresh_obligation(left), q)))

-----------------------------------------------------------------------------
Next ==
    \/ Tick
    \/ \E r \in ReserveId :
          TouchReserve(r) \/ \E growth \in {0, 1} : RefreshReserve(r, growth)
    \/ \E o \in ObligationId :
          \/ RefreshObligation(o)
          \/ \E g \in Group \cup {ELEVATION_GROUP_NONE} : RequestElevationGroup(o, g)
          \/ \E r \in ReserveId :
                \/ \E c \in Amounts :
                      \/ DepositCollateral(o, r, c) \/ Repay(o, r, c) \/ SocializeLoss(o, r, c)
                      \/ \E redeemed \in BOOLEAN : WithdrawCollateral(o, r, c, redeemed)
                \/ \E amount_sf \in Borrowed_sf : Borrow(o, r, amount_sf)
                \/ RolloverInPlace(o, r)
                \/ \E q \in ReserveId, c \in Amounts :
                      \/ Rollover(o, r, q, c)
                      \/ \E d \in Amounts : DepositAndWithdraw(o, r, q, c, d)
                      \/ \E amount_sf \in Borrowed_sf, redeemed \in BOOLEAN :
                            Liquidate(o, r, q, amount_sf, c, redeemed)

Spec == Init /\ [][Next]_vars

-----------------------------------------------------------------------------
(* Properties                                                              *)

TypeOK ==
    /\ reserve \in [ReserveId -> ReserveAccount]
    /\ obligation \in [ObligationId -> ObligationAccount]

\* Every counter is the sum of the shares that obligations hold of it, whoever
\* borrowed, repaid, was liquidated, changed group or left in which order: no
\* debt stays behind in a counter, and none disappears in a saturating_sub.
CountersAgree ==
    \A r \in ReserveId :
        /\ reserve[r].outside =
              SumFunctionOnSet([o \in ObligationId |-> obligation[o].outside[r]], ObligationId)
        /\ \A g \in Group :
              LET members == {o \in ObligationId : obligation[o].group = g}
              IN  reserve[r].against[g] =
                      SumFunctionOnSet([o \in members |-> obligation[o].against[r]], members)

Near(a, b) == a <= b + 1 /\ b <= a + 1

\* Instructions count in whole units while debts have fractions; the roundings
\* do not add up.  A share is never more than one unit from the debt it stands
\* for, and an obligation has no share in a counter that is not for it.
NoDrift ==
    \A o \in ObligationId, r \in ReserveId :
        LET ob == obligation[o]
        IN  IF InGroup(ob)
            THEN /\ ob.outside[r] = 0
                 /\ r \in Deposits(ob) => Near(ob.against[r], borrowed_amount(ob))
            ELSE /\ ob.against[r] = 0
                 /\ Near(ob.outside[r], Ceil(ob.borrowed_sf[r]))

\* The premise of an elevation group's high loan-to-value: its members borrow
\* the one debt reserve, against the group's other reserves only, and not more
\* of them than the market owner allowed.  Accounts stay well formed.
GroupClosed ==
    /\ TypeOK
    /\ \A o \in ObligationId :
          LET ob == obligation[o]
          IN  InGroup(ob) =>
                  /\ Borrows(ob) \subseteq {debt_reserve[ob.group]}
                  /\ \A r \in Deposits(ob) :
                        ob.group \in elevation_groups[r] /\ r # debt_reserve[ob.group]
                  /\ Cardinality(Deposits(ob)) <= max_reserves_as_collateral[ob.group]
=============================================================================

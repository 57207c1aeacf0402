------------------------------- MODULE Position -------------------------------
(***************************************************************************)
(* The health of one klend obligation: what its owner may borrow and       *)
(* withdraw, who may liquidate it, why, for how much and at which bonus.   *)
(*                                                                         *)
(* Values of an obligation are computed when it is refreshed, from the     *)
(* prices saved on its reserves, and are good for one slot or until the    *)
(* next instruction on it.  `valued` is the prices of the last refresh: a  *)
(* reserve may be refreshed again in the slot, at another price, and the   *)
(* obligation then still counts as up to date.                             *)
(*                                                                         *)
(* A Fraction is an integer over SF (100 makes it a percentage), and every *)
(* product and quotient rounds down as U68F60 does.  A price is that of    *)
(* one unit of collateral or of debt, so the exchange rate of collateral   *)
(* is part of it.  Time passes in days.  Interest is left out: what a debt *)
(* is worth moves with its price.  So are permissions, caps, liquidity and *)
(* the switches that only refuse an instruction.  Whether the others'      *)
(* deposits or debts exceed a reserve's limits is the environment's choice.*)
(***************************************************************************)
EXTENDS Reserve, FiniteSetsExt

CONSTANTS ReserveId, Collaterals, Debts,
          market,          \* settings of the lending market
          config,          \* settings of each reserve
          Group,           \* ids of the elevation groups
          elevation,       \* settings of each group
          Prices,          \* bound: prices each reserve may have
          OrderSlot,       \* slots of the obligation for orders
          OrderConfigs,    \* bound: orders its owner tries
          Amounts,         \* bound: whole amounts asked for; MAX asks for everything
          MaxDeposit,      \* bound: collateral in one reserve
          MaxDay,          \* bound: days
          Targets          \* bound: target LTVs of a margin call, in percent

VARIABLES price,      \* saved on each reserve by its last refresh
          fresh,      \* the reserves refreshed and not marked stale since
          limits,     \* per reserve: is a limit crossed, and since when as recorded
          now,        \* the day; 0 stands for a timestamp that is not set
          ob,         \* the obligation; term_settled is what was liquidated of each
                      \* debt because its term had ended, and is not in the code
          filled      \* per order slot: what the order in it was for, and what it settled

vars == <<price, fresh, limits, now, ob, filled>>

ELEVATION_GROUP_NONE == 0
MAX == 1000000                  \* u64::MAX as an amount, u8::MAX as an LTV
DUST_LAMPORT_THRESHOLD == 1

Condition == {"Never", "Always", "LtvAbove", "LtvBelow", "RatioAbove", "RatioBelow", "CloserThan"}
Order == [cond : Condition, threshold : Nat, opportunity : {"All", "Single"}, size : Nat,
          min_bonus : Nat, max_bonus : Nat]
MarketSettings ==
    [min_value_skip_ltv : Nat, min_value_skip_bf : Nat, global_allowed_borrow_value : Nat,
     price_triggered_liquidation_disabled : BOOLEAN, autodeleverage : BOOLEAN,
     margin_call_period : Nat, mature_reserve_debt_liquidation : BOOLEAN,
     debt_term_liquidation : BOOLEAN, order_execution : BOOLEAN, order_creation : BOOLEAN,
     full_liquidation_days : Nat, insolvency_risk_ltv : Nat, close_factor : Nat,
     max_at_once : Nat, min_full_liquidation_value : Nat, min_net_value : Nat]
\* In percent, as validate_reserve_config_integrity bounds them, and in days.
ReserveSettings ==
    [ltv : 0..99, threshold : 0..100, borrow_factor : Nat \ 0..99, min_bonus : 0..100,
     max_bonus : 0..100, bad_debt_bonus : 0..1, autodeleverage : BOOLEAN,
     margin_call_period : Nat, threshold_decrease : Nat, min_delev_bonus : 0..100,
     bonus_increase : Nat, maturity : Nat, term : Nat]
GroupSettings ==
    [ltv : 0..100, threshold : 0..100, max_bonus : 0..100, members : SUBSET ReserveId,
     debt_reserve : ReserveId]

ASSUME PositionAssumption ==
    /\ SF >= 100                \* a percentage is a Fraction
    /\ IsFiniteSet(ReserveId)
    /\ Collaterals \subseteq ReserveId /\ Debts \subseteq ReserveId
    /\ Collaterals \cap Debts = {}
    /\ Group \subseteq Nat \ {ELEVATION_GROUP_NONE}
    /\ market \in MarketSettings /\ config \in [ReserveId -> ReserveSettings]
    /\ elevation \in [Group -> GroupSettings]
    /\ \A r \in ReserveId : Prices[r] \subseteq Nat \ {0} /\ Prices[r] # {}
    /\ OrderSlot \subseteq Nat /\ OrderConfigs \subseteq Order
    /\ Amounts \subseteq Nat /\ Targets \subseteq Nat
    /\ MaxDeposit \in Nat /\ MaxDay \in Nat \ {0}

Mul(a, b) == (a * b) \div SF
Div(a, b) == (a * SF) \div b
Pct(p) == (p * SF) \div 100
ONE == SF

-----------------------------------------------------------------------------
(* Orders an owner leaves for liquidators                                  *)

NoOrder == [cond |-> "Never", threshold |-> 0, opportunity |-> "All",
            size |-> 0, min_bonus |-> 0, max_bonus |-> 0]
PriceRatio == {"RatioAbove", "RatioBelow"}
IsActive(order) == order.cond # "Never"

Deposits(o) == {r \in Collaterals : o.deposited[r] # 0}
Borrows(o) == {r \in Debts : o.borrowed_sf[r] # 0}
HasDebt(o) == Borrows(o) # {}
InGroup(o) == o.group # ELEVATION_GROUP_NONE
IsMarked(o) == o.margin_call # 0

is_supported_by(order, o) ==
    /\ order.cond \in PriceRatio =>
          Cardinality(Deposits(o)) = 1 /\ Cardinality(Borrows(o)) = 1
    /\ IsActive(order) /\ order.opportunity = "Single" => Cardinality(Borrows(o)) = 1

\* Faulty variant: any order is let through.
check_orders_ignored(o) == TRUE

check_orders_supported_after_user_operation(o) ==
    \A i \in OrderSlot : is_supported_by(o.orders[i], o)

validate_order(order) ==
    \/ order = NoOrder
    \/ /\ CASE order.cond \in PriceRatio -> order.threshold > 0
            [] order.cond = "Always" -> order.threshold = 0 /\ order.min_bonus = order.max_bonus
            [] order.cond \in {"LtvAbove", "LtvBelow", "CloserThan"} ->
                   order.threshold \in Pct(1)..(ONE - 1)
            [] OTHER -> FALSE
       /\ (order.opportunity = "Single") = (order.size > 0)   \* 0 for Fraction::MAX
       /\ order.min_bonus <= order.max_bonus /\ order.max_bonus <= Pct(10)

\* Orders go when the last debt does.
clear_obligation_orders_if_no_debt(o) ==
    IF HasDebt(o) THEN o ELSE [o EXCEPT !.orders = [i \in OrderSlot |-> NoOrder]]

-----------------------------------------------------------------------------
(* Values at the prices of the last refresh                                *)

get_max_ltv_and_liquidation_threshold(o, r) ==
    IF InGroup(o) THEN [ltv |-> elevation[o.group].ltv, threshold |-> elevation[o.group].threshold]
                  ELSE [ltv |-> config[r].ltv, threshold |-> config[r].threshold]
threshold_pct(o, r) == get_max_ltv_and_liquidation_threshold(o, r).threshold
ltv_pct(o, r) == get_max_ltv_and_liquidation_threshold(o, r).ltv
borrow_factor_f(o, r) == IF InGroup(o) THEN ONE ELSE Pct(config[r].borrow_factor)

collateral_mv(o, p, r) == o.deposited[r] * SF * p[r]
debt_mv(o, p, r) == o.borrowed_sf[r] * p[r]

\* Faulty variant: the thresholds of the elevation group are forgotten.
lowest_liquidation_ltv_outside(o, p) == Min({MAX} \cup {config[r].threshold : r \in Deposits(o)})

\* Entries of little value, or whose threshold is 0, do not hold up the others.
lowest_liquidation_ltv(o, p) ==
    Min({MAX} \cup {threshold_pct(o, r) : r \in
             {q \in Deposits(o) : /\ collateral_mv(o, p, q) >= market.min_value_skip_ltv
                                  /\ threshold_pct(o, q) > 0}})

refreshed_deposits(o, p) ==
    LET mv(r) == collateral_mv(o, p, r)
        D == Deposits(o)
    IN  [deposited |-> SumFunctionOnSet([r \in D |-> mv(r)], D),
         allowed |-> SumFunctionOnSet([r \in D |-> Mul(mv(r), Pct(ltv_pct(o, r)))], D),
         unhealthy |-> SumFunctionOnSet([r \in D |-> Mul(mv(r), Pct(threshold_pct(o, r)))], D),
         lowest_liquidation_ltv |-> lowest_liquidation_ltv(o, p),
         lowest_max_ltv |-> Min({MAX} \cup {ltv_pct(o, r) : r \in D})]

refreshed_borrows(o, p) ==
    LET mv(r) == debt_mv(o, p, r)
        B == Borrows(o)
    IN  [borrowed |-> SumFunctionOnSet([r \in B |-> mv(r)], B),
         debt |-> SumFunctionOnSet([r \in B |-> Mul(mv(r), borrow_factor_f(o, r))], B),
         highest_borrow_factor |->
             Max({ONE} \cup {borrow_factor_f(o, r) : r \in
                         {q \in B : mv(q) >= market.min_value_skip_bf}})]

\* The values refresh_obligation writes on the obligation.
Values(o, p) ==
    LET d == refreshed_deposits(o, p)
        b == refreshed_borrows(o, p)
    IN  [deposited |-> d.deposited,
         allowed |-> Lesser(d.allowed, market.global_allowed_borrow_value),
         unhealthy |-> d.unhealthy, borrowed |-> b.borrowed, debt |-> b.debt,
         lowest_liquidation_ltv |-> d.lowest_liquidation_ltv,
         lowest_max_ltv |-> d.lowest_max_ltv,
         highest_borrow_factor |-> b.highest_borrow_factor]

loan_to_value(v) == Div(v.debt, v.deposited)
no_bf_loan_to_value(v) == Div(v.borrowed, v.deposited)
unhealthy_loan_to_value(v) == Div(v.unhealthy, v.deposited)

-----------------------------------------------------------------------------
(* Grounds for a liquidation of debt r against collateral q.  Each check   *)
(* gives the empty set, or the set of one record: the reason and the bonus.*)

emode_max_bonus(o, r, q) ==
    LET most == IF InGroup(o) THEN elevation[o.group].max_bonus ELSE 0
    IN  IF /\ InGroup(o) /\ {q, r} \subseteq elevation[o.group].members
           /\ most \in 1..Lesser(config[q].max_bonus, config[r].max_bonus)
        THEN most ELSE MAX

to_bad_debt(v) == saturating_sub(ONE, no_bf_loan_to_value(v))

\* Faulty variant: the bonus may eat what is left of the collateral's value.
calculate_liquidation_bonus_uncapped(o, v, r, q) ==
    Lesser(Pct(Max({config[q].max_bonus, config[r].max_bonus})),
           loan_to_value(v) - unhealthy_loan_to_value(v))

calculate_liquidation_bonus(o, v, r, q) ==
    LET bad_debt == Pct(Lesser(config[q].bad_debt_bonus, config[r].bad_debt_bonus))
        excess == loan_to_value(v) - unhealthy_loan_to_value(v)
        least == Pct(Max({config[q].min_bonus, config[r].min_bonus}))
        most == Pct(Lesser(Max({config[q].max_bonus, config[r].max_bonus}),
                           emode_max_bonus(o, r, q)))
    IN  IF no_bf_loan_to_value(v) >= Pct(99)
        THEN Max({bad_debt, to_bad_debt(v)})
        ELSE Min({Max({least, excess}), most, to_bad_debt(v)})

calculate_autodeleverage_bonus_rate(c, emode, days, v) ==
    Min({Pct(c.min_delev_bonus + c.bonus_increase * days),
           Pct(Lesser(c.max_bonus, emode)), to_bad_debt(v)})

\* The settings that give the liquidator more.
selected_reserve_config(r, q) ==
    LET key(c) == <<c.max_bonus, c.bonus_increase, c.min_delev_bonus>>
        above(a, b) == \E i \in 1..3 : a[i] > b[i] /\ \A j \in 1..(i - 1) : a[j] = b[j]
    IN  IF above(key(config[q]), key(config[r])) THEN config[q] ELSE config[r]

Grounds(hit, reason, slot, bonus) ==
    IF hit THEN {[reason |-> reason, slot |-> slot, bonus |-> bonus]} ELSE {}

check_liquidate_obligation(o, v, r, q) ==
    Grounds(/\ loan_to_value(v) >= unhealthy_loan_to_value(v)
            /\ ~market.price_triggered_liquidation_disabled,
            "LtvExceeded", 0, calculate_liquidation_bonus(o, v, r, q))

\* The owner was given margin_call_period days to lower the LTV.
check_individual_autodeleverage_obligation(o, v, r, q) ==
    LET since == now - o.margin_call - market.margin_call_period
    IN  Grounds(/\ IsMarked(o) /\ market.autodeleverage /\ market.margin_call_period # 0
                /\ loan_to_value(v) > Pct(o.target) /\ since >= 0,
                "Individual", 0,
                calculate_autodeleverage_bonus_rate(selected_reserve_config(r, q),
                                                    emode_max_bonus(o, r, q), since, v))

\* A limit of the reserve has been crossed for longer than its margin call
\* period.  The LTV from which positions are deleveraged falls by the day.
limit_grounds(v, r) ==
    LET since == now - limits[r].since - config[r].margin_call_period
    IN  Grounds(/\ config[r].autodeleverage /\ limits[r].crossed /\ limits[r].since # 0
                /\ since >= 0
                /\ loan_to_value(v) >= saturating_sub(ONE, Pct(config[r].threshold_decrease * since)),
                "MarketWide", 0,
                calculate_autodeleverage_bonus_rate(config[r], MAX, since, v))

check_market_wide_autodeleverage_obligation(v, r, q) ==
    IF ~market.autodeleverage THEN {}
    ELSE IF limit_grounds(v, q) # {} THEN limit_grounds(v, q) ELSE limit_grounds(v, r)

check_reserve_debt_maturity_reached(v, r) ==
    Grounds(/\ config[r].maturity # 0 /\ now >= config[r].maturity
            /\ market.mature_reserve_debt_liquidation,
            "Maturity", 0,
            calculate_autodeleverage_bonus_rate(config[r], MAX, now - config[r].maturity, v))

\* get_secs_since_reserve_debt_term_end, negative before the end
TermEnded(o, r) == config[r].term # 0 /\ o.since[r] # 0 /\ now >= o.since[r] + config[r].term
days_since_term_end(o, r) == now - (o.since[r] + config[r].term)

check_borrow_reserve_debt_term_reached(o, v, r, q) ==
    Grounds(TermEnded(o, r) /\ market.debt_term_liquidation,
            "Term", 0,
            calculate_autodeleverage_bonus_rate(selected_reserve_config(r, q),
                                                emode_max_bonus(o, r, q),
                                                days_since_term_end(o, r), v))

\* How far a value is beyond a threshold: {} when it is not.
evaluate_stop_loss(current, from, liquidation) ==
    IF current <= from THEN {}
    ELSE {IF from >= liquidation THEN ONE ELSE Div(current - from, liquidation - from)}
evaluate_take_profit(current, from) ==
    IF current >= from THEN {} ELSE {Div(from - current, from)}

\* An Always order has a constant bonus, so its distance does not matter.
evaluate_order_condition(order, v, r, q) ==
    LET ltv == loan_to_value(v)
        unhealthy == unhealthy_loan_to_value(v)
        ratio == Div(price[r], price[q])
    IN  CASE order.cond = "Never" -> {}
          [] order.cond = "Always" -> {0}
          [] order.cond = "LtvAbove" -> evaluate_stop_loss(ltv, order.threshold, unhealthy)
          [] order.cond = "LtvBelow" -> evaluate_take_profit(ltv, order.threshold)
          [] order.cond = "RatioAbove" ->
                 IF ltv = 0 THEN {}  \* the division panics
                 ELSE evaluate_stop_loss(ratio, order.threshold, Div(Mul(ratio, unhealthy), ltv))
          [] order.cond = "RatioBelow" -> evaluate_take_profit(ratio, order.threshold)
          [] order.cond = "CloserThan" ->
                 evaluate_stop_loss(ltv, saturating_sub(unhealthy, order.threshold), unhealthy)

is_price_triggered(order) == order.cond \notin {"Never", "Always"}

\* The first order whose condition is hit.
find_applicable_obligation_order(o, v, r, q) ==
    LET hit == {i \in OrderSlot :
                  /\ evaluate_order_condition(o.orders[i], v, r, q) # {}
                  /\ ~(is_price_triggered(o.orders[i])
                       /\ market.price_triggered_liquidation_disabled)}
    IN  IF hit = {} THEN {} ELSE {Min(hit)}

calculate_order_execution_bonus_rate(order, distance, v) ==
    Lesser(order.min_bonus + Mul(distance, order.max_bonus - order.min_bonus), to_bad_debt(v))

check_obligation_order_execution(o, v, r, q) ==
    UNION {Grounds(market.order_execution, "Order", i,
                   calculate_order_execution_bonus_rate(o.orders[i],
                       CHOOSE d \in evaluate_order_condition(o.orders[i], v, r, q) : TRUE, v)) :
             i \in find_applicable_obligation_order(o, v, r, q)}

FirstOf(a, b) == IF a # {} THEN a ELSE b

\* What applies first decides, and the debt or collateral to start with is
\* prescribed for most reasons.
get_liquidation_params(o, v, r, q) ==
    LET grounds == FirstOf(check_liquidate_obligation(o, v, r, q),
                   FirstOf(check_individual_autodeleverage_obligation(o, v, r, q),
                   FirstOf(check_market_wide_autodeleverage_obligation(v, r, q),
                   FirstOf(check_reserve_debt_maturity_reached(v, r),
                   FirstOf(check_borrow_reserve_debt_term_reached(o, v, r, q),
                           check_obligation_order_execution(o, v, r, q))))))
    IN  {g \in grounds :
           /\ g.reason = "LtvExceeded" =>
                 Pct(config[r].borrow_factor) >= v.highest_borrow_factor
           /\ g.reason \notin {"Individual", "MarketWide"} =>
                 threshold_pct(o, q) <= v.lowest_liquidation_ltv}

-----------------------------------------------------------------------------
(* Amounts of a liquidation                                                *)

\* Faulty variant: an expired loan may be liquidated in full at once.
throttle_protected_none(o, r) == 0

throttle_protected_amount(o, r) ==
    IF market.full_liquidation_days = 0 THEN 0
    ELSE (o.at_expiration[r] * SF
            * saturating_sub(market.full_liquidation_days, days_since_term_end(o, r)))
         \div market.full_liquidation_days

order_size(o, i, r) ==
    IF o.orders[i].opportunity = "Single" THEN Lesser(o.orders[i].size, o.borrowed_sf[r])
                                          ELSE o.borrowed_sf[r]

max_liquidatable_borrowed_amount(o, v, p, r, g) ==
    CASE g.reason = "Order" -> order_size(o, g.slot, r)
      [] g.reason = "Maturity" -> o.borrowed_sf[r]
      [] g.reason = "Term" -> saturating_sub(o.borrowed_sf[r], throttle_protected_amount(o, r))
      [] OTHER ->
           LET factor == IF loan_to_value(v) > Pct(market.insolvency_risk_ltv)
                         THEN ONE ELSE Pct(market.close_factor)
               most == Min({Mul(v.borrowed, factor), debt_mv(o, p, r), market.max_at_once})
           IN  Mul(o.borrowed_sf[r], Div(most, debt_mv(o, p, r)))

\* settle is taken off the debt, repay paid for it, withdraw taken in return.
calculate_liquidation_amounts(o, p, q, total, amount, full) ==
    LET value == collateral_mv(o, p, q)
        repaid == Mul(amount, Div(value, total))
        taken_f == Mul(o.deposited[q] * SF, Div(total, value))
        result(settle, withdraw) ==
            [settle |-> settle, repay |-> DivCeil(settle, SF), withdraw |-> withdraw]
    IN  IF total > value THEN result(IF full THEN amount ELSE repaid, o.deposited[q])
        ELSE IF total = value THEN result(amount, o.deposited[q])
        ELSE result(amount, IF full /\ taken_f < DUST_LAMPORT_THRESHOLD * SF
                            THEN DUST_LAMPORT_THRESHOLD ELSE taken_f \div SF)

\* A small debt is settled as a whole or not at all.
below_min_full_liquidation(o, p, r, g) ==
    g.reason # "Order" /\ debt_mv(o, p, r) < market.min_full_liquidation_value

calculate_liquidation(o, v, p, r, q, n, g) ==
    LET full == below_min_full_liquidation(o, p, r, g)
        asked == Lesser(n * SF, o.borrowed_sf[r])
        amount == IF full THEN o.borrowed_sf[r]
                  ELSE Lesser(max_liquidatable_borrowed_amount(o, v, p, r, g), asked)
        total == Mul(Mul(debt_mv(o, p, r), Div(amount, o.borrowed_sf[r])), ONE + g.bonus)
    IN  IF full /\ asked < o.borrowed_sf[r]
        THEN [settle |-> 0, repay |-> 0, withdraw |-> 0]
        ELSE calculate_liquidation_amounts(o, p, q, total, amount, full)

\* Obligation::repay
settled(o, r, amount_sf) ==
    IF amount_sf = o.borrowed_sf[r]
    THEN [o EXCEPT !.borrowed_sf[r] = 0, !.since[r] = 0, !.at_expiration[r] = 0,
                   !.term_settled[r] = 0]
    ELSE [o EXCEPT !.borrowed_sf[r] = @ - amount_sf]

\* Faulty variant: an order may be used any number of times.
consume_nothing(order, paid) == order

consume(order, paid) ==
    IF order.opportunity = "All" THEN order
    ELSE IF order.size <= paid * SF THEN NoOrder ELSE [order EXCEPT !.size = @ - paid * SF]

-----------------------------------------------------------------------------
(* Checks on what an owner does                                            *)

Stale == [r \in ReserveId |-> 0]
Fresh(o) == o.valued # Stale
stale(o) == [o EXCEPT !.valued = Stale]
refreshed(o) ==
    [o EXCEPT !.valued = price,
              !.at_expiration = [r \in ReserveId |->
                  IF r \in Borrows(o) /\ @[r] = 0 /\ TermEnded(o, r)
                  THEN DivCeil(o.borrowed_sf[r], SF) ELSE @[r]]]

\* An entry is empty or worth keeping.
NetValueOk(mv) == mv = 0 \/ mv >= market.min_net_value

max_withdraw_value(o, v, q, check) ==
    LET highest == IF check = "Threshold" THEN saturating_sub(v.unhealthy, 1) ELSE v.allowed
        pct == IF check = "Threshold" THEN threshold_pct(o, q) ELSE ltv_pct(o, q)
    IN  IF highest <= v.debt THEN 0
        ELSE IF pct = 0 THEN collateral_mv(o, o.valued, q)
        ELSE ((highest - v.debt) * 100) \div pct

\* The amount withdrawn; 0 when it is refused.
withdraw_amount(o, v, q, n, check) ==
    LET most == max_withdraw_value(o, v, q, check)
        mv == collateral_mv(o, o.valued, q)
        amount == Lesser(n, o.deposited[q])
        value == Mul(mv, DivCeil(amount * SF, o.deposited[q]))
        exceeds == IF check = "Threshold" THEN value >= most ELSE value > most
    IN  IF ~HasDebt(o) THEN amount
        ELSE IF v.deposited = 0 \/ most = 0 THEN 0
        ELSE IF n = MAX THEN Mul(Div(Lesser(most, mv), mv), o.deposited[q] * SF) \div SF
        ELSE IF exceeds THEN 0 ELSE amount

post_withdraw_obligation_invariants(o, v, q, c) ==
    LET asset_mv == c * SF * price[q]
        left == v.deposited - asset_mv
        unhealthy == saturating_sub(v.unhealthy, Mul(asset_mv, Pct(threshold_pct(o, q))))
    IN  /\ left >= 0
        /\ c < o.deposited[q] =>
              /\ collateral_mv(o, o.valued, q) >= asset_mv
              /\ NetValueOk(collateral_mv(o, o.valued, q) - asset_mv)
        /\ left = 0 => v.debt = 0
        /\ left # 0 => /\ v.borrowed < left
                       /\ Div(v.debt, left) < Div(unhealthy, left) \/ Div(v.debt, left) = 0

CanWithdraw(o, q) == q \in fresh /\ Fresh(o) /\ q \in Deposits(o)
\* Obligation::withdraw
withdrawn(o, q, c) == stale([o EXCEPT !.deposited[q] = @ - c])

post_deposit_obligation_invariants(o, v, r, c) ==
    LET asset_mv == c * SF * price[r]
    IN  /\ NetValueOk(collateral_mv(o, o.valued, r) + asset_mv)
        /\ v.deposited # 0 => Div(v.debt, v.deposited + asset_mv) <= loan_to_value(v)

CanDeposit(o, r) ==
    /\ r \in fresh /\ Fresh(o)
    /\ InGroup(o) => r \in elevation[o.group].members
    /\ threshold_pct(o, r) = 0 => ~IsMarked(o)
deposited(o, r, c) == stale([o EXCEPT !.deposited[r] = @ + c])

\* Faulty variant: the allowance is left to the checks after the borrow.
borrow_allowed_later(o, v, r, b_sf) == TRUE

\* calculate_borrow_exact, calculate_borrow_all_available
borrow_allowed(o, v, r, b_sf) ==
    Mul(b_sf * price[r], borrow_factor_f(o, r)) <= saturating_sub(v.allowed, v.debt)
borrow_amount(o, v, r, n) ==
    IF n = MAX THEN Div(saturating_sub(v.allowed, v.debt) \div price[r], borrow_factor_f(o, r))
               ELSE n * SF

post_borrow_obligation_invariants(o, v, r, b_sf) ==
    LET asset_mv == b_sf * price[r]
    IN  /\ NetValueOk(debt_mv(o, o.valued, r) + asset_mv)
        /\ Div(v.debt + Mul(asset_mv, borrow_factor_f(o, r)), v.deposited)
             <= unhealthy_loan_to_value(v)
        /\ v.borrowed + asset_mv < v.deposited

post_repay_obligation_invariants(o, v, r, settle) ==
    LET asset_mv == settle * price[r]
        debt == v.debt - Mul(asset_mv, borrow_factor_f(o, r))
    IN  /\ debt >= 0
        /\ settle < o.borrowed_sf[r] =>
              /\ debt_mv(o, o.valued, r) >= asset_mv
              /\ NetValueOk(debt_mv(o, o.valued, r) - asset_mv)
        /\ v.deposited > 0 => Div(debt, v.deposited) <= loan_to_value(v)

\* post_repay_and_withdraw_... and post_deposit_and_withdraw_obligation_enforcements
enforcements(v, q, initial_ltv) ==
    /\ v.debt > 0 => /\ v.lowest_max_ltv # 0 /\ v.lowest_max_ltv >= config[q].ltv
                     /\ v.deposited # 0
    /\ v.deposited # 0 => /\ loan_to_value(v) <= initial_ltv
                          /\ loan_to_value(v) < unhealthy_loan_to_value(v)

-----------------------------------------------------------------------------
(* Instructions                                                            *)

NewObligation ==
    [deposited |-> Stale, borrowed_sf |-> Stale, since |-> Stale, at_expiration |-> Stale,
     term_settled |-> Stale, group |-> ELEVATION_GROUP_NONE, margin_call |-> 0, target |-> 0,
     orders |-> [i \in OrderSlot |-> NoOrder], valued |-> Stale]
closed_if_empty(o) == IF Deposits(o) = {} /\ Borrows(o) = {} THEN NewObligation ELSE o

Unfilled == [size |-> 0, settled |-> 0]
\* The record of an order ends with it, unless it went wrong.
ended(f, o) ==
    [i \in OrderSlot |-> IF o.orders[i] = NoOrder /\ f[i].settled <= f[i].size
                         THEN Unfilled ELSE f[i]]

Init ==
    /\ price \in [ReserveId -> UNION {Prices[r] : r \in ReserveId}]
    /\ \A r \in ReserveId : price[r] \in Prices[r]
    /\ fresh = {} /\ now = 1 /\ ob = NewObligation
    /\ limits = [r \in ReserveId |-> [crossed |-> FALSE, since |-> 0]]
    /\ filled = [i \in OrderSlot |-> Unfilled]

\* A new slot, on the next day.
Tick ==
    /\ now < MaxDay /\ now' = now + 1
    /\ fresh' = {} /\ ob' = stale(ob)
    /\ UNCHANGED <<price, limits, filled>>

\* refresh_reserve_limit_timestamps
noted(r) ==
    [limits EXCEPT ![r].since = IF ~limits[r].crossed THEN 0 ELSE IF @ = 0 THEN now ELSE @]

\* refresh_reserve saves a price
RefreshReserve(r, p) ==
    /\ price' = [price EXCEPT ![r] = p]
    /\ fresh' = fresh \cup {r}
    /\ limits' = noted(r)
    /\ UNCHANGED <<now, ob, filled>>

\* Deposits, redemptions, borrows and repayments of others, or new limits.
LimitMoves(r) ==
    /\ config[r].autodeleverage /\ r \in fresh
    /\ limits' = [limits EXCEPT ![r].crossed = ~@]
    /\ fresh' = fresh \ {r}
    /\ UNCHANGED <<price, now, ob, filled>>

RefreshObligation ==
    /\ Deposits(ob) \cup Borrows(ob) \subseteq fresh
    /\ ob' = refreshed(ob)
    /\ UNCHANGED <<price, fresh, limits, now, filled>>

Deposit(r, c) ==
    /\ CanDeposit(ob, r) /\ ob.deposited[r] + c <= MaxDeposit
    /\ check_orders_supported_after_user_operation(deposited(ob, r, c))
    /\ post_deposit_obligation_invariants(ob, Values(ob, ob.valued), r, c)
    /\ ob' = deposited(ob, r, c) /\ fresh' = fresh \ {r}
    /\ UNCHANGED <<price, limits, now, filled>>

\* Redeemed or not, the collateral leaves the obligation.
Withdraw(q, n, redeemed) ==
    LET v == Values(ob, ob.valued)
        c == withdraw_amount(ob, v, q, n, "MaxLtv")
    IN  /\ CanWithdraw(ob, q) /\ c > 0
        /\ post_withdraw_obligation_invariants(ob, v, q, c)
        /\ ob' = closed_if_empty(withdrawn(ob, q, c))
        /\ fresh' = IF redeemed THEN fresh \ {q} ELSE fresh
        /\ limits' = IF redeemed THEN noted(q) ELSE limits
        /\ filled' = ended(filled, ob')
        /\ UNCHANGED <<price, now>>

Borrow(r, n) ==
    LET v == Values(ob, ob.valued)
        b_sf == borrow_amount(ob, v, r, n)
        owing == stale([ob EXCEPT !.borrowed_sf[r] = @ + b_sf, !.since[r] = now])
    IN  /\ r \in fresh /\ Fresh(ob) /\ v.deposited # 0
        /\ config[r].maturity # 0 => now < config[r].maturity
        /\ ~IsMarked(ob) /\ ~TermEnded(ob, r)
        /\ InGroup(ob) => r = elevation[ob.group].debt_reserve
        /\ b_sf >= SF /\ borrow_allowed(ob, v, r, b_sf)
        /\ check_orders_supported_after_user_operation(owing)
        /\ post_borrow_obligation_invariants(ob, v, r, b_sf)
        /\ ob' = owing /\ fresh' = fresh \ {r}
        /\ UNCHANGED <<price, limits, now, filled>>

repaid(o, r, settle) == clear_obligation_orders_if_no_debt(stale(settled(o, r, settle)))

Repay(r, n) ==
    LET settle == Lesser(n * SF, ob.borrowed_sf[r])
    IN  /\ r \in fresh /\ Fresh(ob) /\ r \in Borrows(ob)
        /\ check_orders_supported_after_user_operation(repaid(ob, r, settle))
        /\ post_repay_obligation_invariants(ob, Values(ob, ob.valued), r, settle)
        /\ ob' = repaid(ob, r, settle) /\ fresh' = fresh \ {r}
        /\ filled' = ended(filled, ob')
        /\ UNCHANGED <<price, limits, now>>

\* The second half of the two swaps below: a withdrawal down to the
\* liquidation threshold from o, refreshed, that may not raise the LTV.
WithdrawPermissively(o, q, n, initial_ltv) ==
    LET v == Values(o, o.valued)
        c == withdraw_amount(o, v, q, n, "Threshold")
        left == withdrawn(o, q, c)
    IN  /\ q \in Deposits(o) /\ c > 0
        /\ post_withdraw_obligation_invariants(o, v, q, c)
        /\ closed_if_empty(left) = left => enforcements(Values(left, price), q, initial_ltv)
        /\ ob' = closed_if_empty(left) /\ limits' = noted(q)
        /\ filled' = ended(filled, ob') /\ UNCHANGED <<price, now>>

RepayAndWithdraw(r, n, q, c) ==
    LET settle == Lesser(n * SF, ob.borrowed_sf[r])
        o == repaid(ob, r, settle)
        v == Values(ob, ob.valued)
    IN  /\ Fresh(ob) /\ {r, q} \cup Deposits(o) \cup Borrows(o) \subseteq fresh
        /\ r \in Borrows(ob) /\ v.deposited > 0
        /\ check_orders_supported_after_user_operation(o)
        /\ post_repay_obligation_invariants(ob, v, r, settle)
        /\ WithdrawPermissively(refreshed(o), q, c, loan_to_value(v))
        /\ fresh' = fresh \ (IF r \in Borrows(o) THEN {q} ELSE {q, r})

DepositAndWithdraw(r, d, q, c) ==
    LET o == deposited(ob, r, d)
        v == Values(ob, ob.valued)
    IN  /\ Fresh(ob) /\ {r, q} \cup Deposits(ob) \cup Borrows(ob) \subseteq fresh
        /\ r # q /\ v.deposited > 0 /\ CanDeposit(ob, r) /\ ob.deposited[r] + d <= MaxDeposit
        /\ check_orders_supported_after_user_operation(o)
        /\ post_deposit_obligation_invariants(ob, v, r, d)
        /\ WithdrawPermissively(refreshed(o), q, c, loan_to_value(v))
        /\ fresh' = fresh \ {q}

\* Faulty variant: the collateral is not weighted.
supports_debt_unweighted(d, debt) == d.deposited >= debt

supports_debt(d, debt) == d.allowed >= debt

\* reset_elevation_group_debts and the debt trackers are in DebtTrackers.
RequestElevationGroup(g) ==
    LET o == [ob EXCEPT !.group = g]
        debt == refreshed_borrows(o, price).debt
        d == refreshed_deposits(o, price)
    IN  /\ Fresh(ob) /\ Values(ob, ob.valued).deposited # 0 /\ g # ob.group
        /\ Deposits(ob) \cup Borrows(ob) \subseteq fresh
        /\ g # ELEVATION_GROUP_NONE =>
              /\ Deposits(ob) \subseteq elevation[g].members \ {elevation[g].debt_reserve}
              /\ Borrows(ob) \subseteq {elevation[g].debt_reserve}
        /\ supports_debt(d, debt)
        /\ IsMarked(ob) => Div(debt, d.deposited) <= loan_to_value(Values(ob, ob.valued))
        /\ ob' = stale(o)
        /\ UNCHANGED <<price, fresh, limits, now, filled>>

\* The risk council's margin call, and its end.
MarkForDeleveraging(t) ==
    /\ ~IsMarked(ob) /\ market.margin_call_period # 0 /\ t <= 100
    /\ ob' = [ob EXCEPT !.margin_call = now, !.target = t]
    /\ UNCHANGED <<price, fresh, limits, now, filled>>
UnmarkForDeleveraging ==
    /\ IsMarked(ob)
    /\ ob' = [ob EXCEPT !.margin_call = 0, !.target = 0]
    /\ UNCHANGED <<price, fresh, limits, now, filled>>

SetObligationOrder(i, order) ==
    /\ validate_order(order) /\ is_supported_by(order, ob) /\ order # ob.orders[i]
    /\ ~IsActive(ob.orders[i]) /\ IsActive(order) => market.order_creation
    /\ ob' = [ob EXCEPT !.orders[i] = order]
    /\ filled' = [filled EXCEPT ![i].size = order.size, ![i].settled = 0]
    /\ UNCHANGED <<price, fresh, limits, now>>

\* liquidate_and_redeem: a liquidator pays debt r and takes collateral q,
\* redeemed as far as the reserve's liquidity goes.
Liquidate(r, q, n, redeemed) ==
    LET v == Values(ob, ob.valued)
    IN  /\ {r, q} \subseteq fresh /\ Fresh(ob)
        /\ v.deposited # 0 /\ v.debt # 0 /\ threshold_pct(ob, q) # 0
        /\ r \in Borrows(ob) /\ q \in Deposits(ob)
        /\ \E g \in get_liquidation_params(ob, v, r, q) :
             LET a == calculate_liquidation(ob, v, ob.valued, r, q, n, g)
                 left == [repaid(ob, r, a.settle) EXCEPT
                             !.deposited[q] = @ - a.withdraw,
                             !.term_settled[r] = IF g.reason = "Term" /\ a.settle < ob.borrowed_sf[r]
                                                 THEN @ + a.settle ELSE @]
             IN  /\ a.repay # 0 /\ a.withdraw # 0
                 /\ ob' = IF g.reason = "Order" /\ HasDebt(left)
                          THEN [left EXCEPT !.orders[g.slot] = consume(@, a.repay)]
                          ELSE left
                 /\ filled' = ended(IF g.reason = "Order" /\ filled[g.slot].size # 0
                                    THEN [filled EXCEPT ![g.slot].settled = @ + a.settle]
                                    ELSE filled, ob')
                 /\ fresh' = fresh \ (IF redeemed THEN {r, q} ELSE {r})
                 /\ limits' = IF redeemed THEN noted(q) ELSE limits
        /\ UNCHANGED <<price, now>>

\* The risk council forgives the debt that no collateral backs.
SocializeLoss(r, n) ==
    /\ r \in fresh /\ Fresh(ob) /\ Deposits(ob) = {} /\ r \in Borrows(ob)
    /\ ob' = repaid(ob, r, Lesser(n * SF, ob.borrowed_sf[r])) /\ fresh' = fresh \ {r}
    /\ filled' = ended(filled, ob')
    /\ UNCHANGED <<price, limits, now>>

Next ==
    \/ Tick \/ RefreshObligation \/ UnmarkForDeleveraging
    \/ \E r \in ReserveId : LimitMoves(r) \/ \E p \in Prices[r] : RefreshReserve(r, p)
    \/ \E q \in Collaterals : \E c \in Amounts : Deposit(q, c)
    \/ \E q \in Collaterals : \E n \in Amounts :
          \E redeemed \in BOOLEAN : Withdraw(q, n, redeemed)
    \/ \E r \in Debts : \E n \in Amounts : Borrow(r, n) \/ Repay(r, n)
    \/ \E r \in Debts : \E q \in Collaterals : \E n \in Amounts : \E c \in Amounts :
          RepayAndWithdraw(r, n, q, c)
    \/ \E r, q \in Collaterals : \E d \in Amounts : \E c \in Amounts :
          DepositAndWithdraw(r, d, q, c)
    \/ \E g \in Group \cup {ELEVATION_GROUP_NONE} : RequestElevationGroup(g)
    \/ \E t \in Targets : MarkForDeleveraging(t)
    \/ \E i \in OrderSlot : \E order \in OrderConfigs \cup {NoOrder} : SetObligationOrder(i, order)
    \/ \E r \in Debts : \E q \in Collaterals : \E n \in Amounts :
          \E redeemed \in BOOLEAN : Liquidate(r, q, n, redeemed)
    \/ \E r \in Debts : \E n \in Amounts : SocializeLoss(r, n)

Spec == Init /\ [][Next]_vars

-----------------------------------------------------------------------------
(* Properties                                                              *)

\* Types of the obligation and of what the reserves save for it.  A debt that
\* is there has a time it was taken at; what was owed when a term ended is
\* kept only as long as the debt.
TypeOK ==
    /\ price \in [ReserveId -> Nat] /\ fresh \subseteq ReserveId /\ now \in 1..MaxDay
    /\ limits \in [ReserveId -> [crossed : BOOLEAN, since : 0..MaxDay]]
    /\ filled \in [OrderSlot -> [size : Nat, settled : Nat]]
    /\ ob.deposited \in [ReserveId -> 0..MaxDeposit]
    /\ ob.borrowed_sf \in [ReserveId -> Nat]
    /\ ob.orders \in [OrderSlot -> Order]
    /\ ob.group \in Group \cup {ELEVATION_GROUP_NONE}
    /\ \A r \in Debts : (ob.borrowed_sf[r] = 0) = (ob.since[r] = 0)
    /\ \A r \in Debts : ob.borrowed_sf[r] = 0 => ob.at_expiration[r] = 0

Healthy(o, p) == LET v == Values(o, p) IN v.debt = 0 \/ v.debt < v.unhealthy
KeepsHealth == ob.valued = price /\ price' = price /\ Healthy(ob, price) => Healthy(ob', price)

\* Nothing an owner or a liquidator does, with the values of the obligation
\* taken at the prices its reserves have, makes a healthy obligation one that
\* may be liquidated: the checks of borrow, withdraw, deposit, the swaps and
\* of a change of elevation group are made on values before the change, each
\* in its own way (max_withdraw_value, post_*_obligation_invariants).  The LTV
\* up to which one may borrow has to be below the liquidation threshold, which
\* validate_reserve_config_integrity leaves to the settings.
SafeStaysSafe == [][KeepsHealth]_vars

\* Bonus included, a liquidation leaves the debt no larger in proportion to
\* the collateral, as long as there was collateral for the debt and the bonus
\* (a bonus is capped by to_bad_debt) and some of the collateral taken is left.
\* Dust is the exception: one unit of it, whatever it is worth, may be the price
\* for settling the whole of a debt worth less.
LiquidationHelps ==
    [][\A r \in Debts, q \in Collaterals, n \in Amounts, redeemed \in BOOLEAN :
         LET v == Values(ob, ob.valued)
             w == Values(ob', ob.valued)
         IN  ( /\ ob'.borrowed_sf[r] < ob.borrowed_sf[r]
               /\ ob'.deposited[q] \in 1..(ob.deposited[q] - 1)
               /\ ob'.borrowed_sf[r] = 0 => ob.deposited[q] - ob'.deposited[q] > DUST_LAMPORT_THRESHOLD
               /\ Liquidate(r, q, n, redeemed)
               /\ no_bf_loan_to_value(v) < Pct(99) )
             => w.borrowed * v.deposited <= v.borrowed * w.deposited]_vars

\* However liquidators split it, an order for a single amount of debt never
\* settles more than its owner put in it (max_liquidatable_borrowed_amount
\* and ObligationOrder::consume, which sees the amount paid, rounded up).
OrderSizeRespected ==
    \A i \in OrderSlot : filled[i].size # 0 => filled[i].settled <= filled[i].size

\* The orders of an obligation fit its debts and its collateral, through the
\* owner's operations and liquidations of any entry: the evaluation of a
\* condition relies on there being a single price ratio.  Only a debt that no
\* collateral backs may keep orders that do not fit, until the owner deposits.
\* Whoever repays, liquidates or forgives the last debt takes the orders with
\* it: one left over would apply to the owner's next loan.
OrdersSupported ==
    [][ /\ Deposits(ob') # {} \/ ~HasDebt(ob') =>
              \A i \in OrderSlot : is_supported_by(ob'.orders[i], ob')
        /\ HasDebt(ob) /\ ~HasDebt(ob') => \A i \in OrderSlot : ob'.orders[i] = NoOrder ]_vars

\* After its term a loan is liquidated bit by bit.  However the liquidations
\* are split, and whatever the owner repays between them, those for the term
\* together take no more than the share of the debt at expiration for the days
\* gone by (throttle_protected_amount, from the amount saved by the refresh),
\* an amount that goes with the debt it was saved for.
TermThrottle ==
    /\ TypeOK
    /\ \A r \in Debts : ob.term_settled[r] # 0 /\ market.full_liquidation_days # 0 =>
          LET full == market.full_liquidation_days
              gone == Lesser(full, days_since_term_end(ob, r))
          IN  ob.term_settled[r] * full < ob.at_expiration[r] * SF * gone + full

\* An unhealthy obligation whose collateral counts can be liquidated by
\* somebody once everything is refreshed: the rules on which debt and which
\* collateral goes first (highest borrow factor, lowest threshold) never
\* exclude every pair.
LiquidationPossible ==
    LET v == Values(ob, ob.valued)
    IN  ( /\ Fresh(ob) /\ Deposits(ob) \cup Borrows(ob) \subseteq fresh
          /\ v.debt > 0 /\ v.unhealthy > 0 /\ v.debt >= v.unhealthy
          /\ ~market.price_triggered_liquidation_disabled )
        => \E r \in Borrows(ob), q \in Deposits(ob) :
             threshold_pct(ob, q) # 0 /\ get_liquidation_params(ob, v, r, q) # {}
=============================================================================

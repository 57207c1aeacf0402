------------------------------ MODULE MCPosition ------------------------------
(* Two instances of Position.  In "ltv" prices move and the owner leaves    *)
(* orders; in "term" days pass and the debts and limits have deadlines.     *)
EXTENDS Position

Market ==
    [min_value_skip_ltv |-> 1, min_value_skip_bf |-> 1, global_allowed_borrow_value |-> MAX,
     price_triggered_liquidation_disabled |-> FALSE, autodeleverage |-> FALSE,
     margin_call_period |-> 0, mature_reserve_debt_liquidation |-> FALSE,
     debt_term_liquidation |-> FALSE, order_execution |-> TRUE, order_creation |-> TRUE,
     full_liquidation_days |-> 0, insolvency_risk_ltv |-> 95, close_factor |-> 50,
     max_at_once |-> MAX, min_full_liquidation_value |-> SF, min_net_value |-> SF]
Asset ==
    [ltv |-> 50, threshold |-> 75, borrow_factor |-> 100, min_bonus |-> 2, max_bonus |-> 10,
     bad_debt_bonus |-> 1, autodeleverage |-> FALSE, margin_call_period |-> 0,
     threshold_decrease |-> 0, min_delev_bonus |-> 1, bonus_increase |-> 2,
     maturity |-> 0, term |-> 0]

LtvAmounts == {1, 2}
LtvMarket == Market
LtvConfig ==
    [r \in ReserveId |->
        CASE r = "c1" -> Asset
          [] r = "c2" -> [Asset EXCEPT !.ltv = 60, !.threshold = 80]
          [] r = "d1" -> [Asset EXCEPT !.borrow_factor = 120]]
LtvElevation ==
    [g \in Group |-> [ltv |-> 70, threshold |-> 80, max_bonus |-> 8,
                      members |-> {"c1", "d1"}, debt_reserve |-> "d1"]]
LtvPrices ==
    [r \in ReserveId |-> CASE r = "c1" -> {20, 40} [] r = "c2" -> {20} [] r = "d1" -> {13}]
LtvOrders ==
    {[cond |-> "LtvAbove", threshold |-> 40, opportunity |-> "Single", size |-> 2 * SF,
      min_bonus |-> 1, max_bonus |-> 5],
     [cond |-> "RatioAbove", threshold |-> 40, opportunity |-> "All", size |-> 0,
      min_bonus |-> 0, max_bonus |-> 8]}

TermAmounts == {2, MAX}
TermMarket ==
    [Market EXCEPT !.autodeleverage = TRUE, !.margin_call_period = 1,
                   !.mature_reserve_debt_liquidation = TRUE, !.debt_term_liquidation = TRUE,
                   !.full_liquidation_days = 3]
TermConfig ==
    [r \in ReserveId |->
        CASE r = "c1" -> [Asset EXCEPT !.autodeleverage = TRUE, !.margin_call_period = 1,
                                       !.threshold_decrease = 40]
          [] r = "d1" -> [Asset EXCEPT !.term = 1]
          [] r = "d2" -> [Asset EXCEPT !.maturity = 3]]
TermElevation == [g \in Group |-> [ltv |-> 0]]
TermPrices == [r \in ReserveId |-> CASE r = "c1" -> {2} [] r = "d1" -> {1} [] r = "d2" -> {1}]
==============================================================================

--------------------------- MODULE MCAdministration ---------------------------
(***************************************************************************)
(* Instances of Authority, MarketConfig, Prices and Access.  They share no *)
(* variable: a behaviour is one of the component `part`, while the others  *)
(* stay in their initial states.                                           *)
(***************************************************************************)
EXTENDS Authority, MarketConfig, Prices, Access, TLC

VARIABLE part

-----------------------------------------------------------------------------
(* MarketConfig: a minimum that is 0 (refused), that of the program and one *)
(* above every supply, so that a reserve in use comes to count as unused.   *)

MCMarketValues ==
    [emergency_mode |-> {}, borrow_disabled |-> {TRUE}, immutable |-> {TRUE},
     min_initial_deposit_amount |-> {0, 1, 3},
     elevation_group |-> {[ltv_pct |-> 80, liquidation_threshold_pct |-> 85,
                           debt_reserve |-> TRUE], NoGroup},
     rollover_window |-> {5}, migration_to_fixed |-> {}, min_partial_rollover_value |-> {0, 1}]

MCReserveValues ==
    [loan_to_value_pct |-> {0, 75}, liquidation_threshold_pct |-> {70},
     deposit_limit |-> {0, 2}, borrow_limit |-> {0, 1},
     borrow_limit_outside_elevation_group |-> {1, MAX},
     elevation_groups |-> {TRUE}, token_info |-> {1}, protocol_take_rate_pct |-> {20, 101},
     emergency_mode |-> BOOLEAN, proposer_authority_locked |-> {TRUE}]

MCSources ==
    {[same_market |-> same,
      config |-> [default_config EXCEPT !.status = "Active", !.loan_to_value_pct = 75,
                     !.liquidation_threshold_pct = 80, !.deposit_limit = 2, !.borrow_limit = 1,
                     !.borrow_limit_outside_elevation_group = 1, !.elevation_groups = TRUE,
                     !.token_info = 1, !.protocol_take_rate_pct = 20,
                     !.proposer_authority_locked = TRUE]] : same \in BOOLEAN}

-----------------------------------------------------------------------------
(* Prices: the collateral has Pyth and Switchboard with a TWAP, the debt    *)
(* Scope without.  Messages lie on both sides of every check: a TWAP 4 and  *)
(* 5 percent off, a confidence at and above 2 percent, one ahead of the     *)
(* clock, one older than the program's clock, a negative average.           *)

PlainTokenInfo ==
    [pyth |-> FALSE, switchboard |-> FALSE, scope |-> FALSE, has_twap |-> TRUE,
     max_age_price_seconds |-> 1, max_age_twap_seconds |-> 2, max_twap_divergence_bps |-> 0,
     heuristic_lower |-> 0, heuristic_upper |-> 0, block_price_usage |-> FALSE,
     emergency |-> FALSE]

MCFirstTokenInfo ==
    (Collateral :> [PlainTokenInfo EXCEPT !.pyth = TRUE, !.switchboard = TRUE,
                       !.max_twap_divergence_bps = 500,
                       !.heuristic_lower = 90, !.heuristic_upper = 100]) @@
    (Debt :> [PlainTokenInfo EXCEPT !.scope = TRUE])

MCTokenValues ==
    (Collateral :> [max_age_price_seconds |-> {2}, block_price_usage |-> BOOLEAN]) @@
    (Debt :> [emergency |-> BOOLEAN])

PythMessage(verified, conf, ema) ==
    [fully_verified |-> verified, age |-> 0, price |-> 100, conf |-> conf,
     ema_price |-> ema, ema_conf |-> 2]
MCPythMessages == {PythMessage(TRUE, 2, 104), PythMessage(TRUE, 2, 105),
                   PythMessage(TRUE, 3, 100), PythMessage(FALSE, 0, 100),
                   PythMessage(TRUE, 2, -1)}

SwitchboardFeed(seconds, stdev) == [age |-> seconds, price |-> 100, stdev |-> stdev]
MCSwitchboardMessages ==
    {[feed |-> SwitchboardFeed(0, 2), twap_feed |-> SwitchboardFeed(0, 0)],
     [feed |-> SwitchboardFeed(20, 0), twap_feed |-> SwitchboardFeed(0, 0)]}

MCScopeMessages ==
    {[price_chain |-> <<[value |-> 2, age |-> 0], [value |-> 50, age |-> 1]>>, twap_chain |-> <<>>],
     [price_chain |-> <<[value |-> 100, age |-> -1]>>, twap_chain |-> <<>>]}

-----------------------------------------------------------------------------
(* Access: the market's switches and those of r1 are moved.  The market     *)
(* comes to restrict deposits and r1 borrows.                               *)

MCMarketSwitchValues ==
    [emergency_mode |-> BOOLEAN, borrow_disabled |-> {TRUE},
     withdraw_ticket_issuance_enabled |-> {TRUE},
     withdraw_ticket_redemption_enabled |-> BOOLEAN,
     withdraw_ticket_cancellation_enabled |-> {TRUE},
     has_permissioning_authority |-> {TRUE}, permissioned_ops |-> {{"DEPOSIT"}}]

MCReserveSwitchValues ==
    ("r1" :> [emergency_mode |-> BOOLEAN, status |-> {"Obsolete", "Active"},
              block_ctoken_usage |-> BOOLEAN, permissioned_ops |-> {{"BORROW"}}]) @@
    ("r2" :> <<>>)

MCFirstLedger == [r \in {"r1", "r2"} |-> [place \in Place |-> 0]]

-----------------------------------------------------------------------------
Init ==
    /\ InitAuthority /\ InitConfig /\ InitPrices /\ InitAccess
    /\ part \in {"authority", "config", "prices", "access"}

Next ==
    /\ part' = part
    /\ \/ part = "authority" /\ NextAuthority /\ UNCHANGED <<configVars, pricesVars, accessVars>>
       \/ part = "config" /\ NextConfig /\ UNCHANGED <<authorityVars, pricesVars, accessVars>>
       \/ part = "prices" /\ NextPrices /\ UNCHANGED <<authorityVars, configVars, accessVars>>
       \/ part = "access" /\ NextAccess /\ UNCHANGED <<authorityVars, configVars, pricesVars>>

vars == <<authorityVars, configVars, pricesVars, accessVars, part>>

Spec == Init /\ [][Next]_vars
===============================================================================

----------------------------- MODULE MarketConfig -----------------------------
(***************************************************************************)
(* The configuration of a klend lending market and of one of its reserves: *)
(* who may change what, in which phase of the reserve's life, and what is  *)
(* validated.  A setting is changed by its name, one at a time, as the     *)
(* program's update modes do; the settings kept are those which another    *)
(* setting, a phase or a role depends on.  The roles are fixed here        *)
(* (Authority has their handovers).                                        *)
(*                                                                         *)
(* A collateral token is worth one token.  Percentages are whole, MAX is   *)
(* u64::MAX, and a token_info of 0 is one without an oracle.               *)
(***************************************************************************)
EXTENDS Integers

CONSTANTS MAX,
          MIN_INITIAL_DEPOSIT_AMOUNT,
          MarketValues,     \* bound: values tried for each setting of the market
          ReserveValues,    \* bound: values tried for each setting of the reserve
          Sources,          \* configurations of the reserves to clone from, and
                            \* whether they are of the same market
          MaxSupply         \* bound: tokens supplied

GroupType == [ltv_pct : Nat, liquidation_threshold_pct : Nat, debt_reserve : BOOLEAN]

\* What the settings can be set to.
MarketSettingType ==
    [emergency_mode |-> BOOLEAN, borrow_disabled |-> BOOLEAN, immutable |-> BOOLEAN,
     min_initial_deposit_amount |-> Nat, elevation_group |-> GroupType,
     rollover_window |-> Nat, migration_to_fixed |-> BOOLEAN, min_partial_rollover_value |-> Nat]
ReserveSettingType ==
    [status |-> {"Active", "Obsolete", "Hidden"},
     loan_to_value_pct |-> Nat, liquidation_threshold_pct |-> Nat,
     deposit_limit |-> Nat, borrow_limit |-> Nat, borrow_limit_outside_elevation_group |-> Nat,
     elevation_groups |-> BOOLEAN, token_info |-> Nat, protocol_take_rate_pct |-> Nat,
     emergency_mode |-> BOOLEAN, proposer_authority_locked |-> BOOLEAN]

ReserveConfig ==
    [exists : {TRUE}, status : {"Active", "Obsolete", "Hidden"},
     loan_to_value_pct : Nat, liquidation_threshold_pct : Nat,
     deposit_limit : Nat, borrow_limit : Nat, borrow_limit_outside_elevation_group : Nat,
     elevation_groups : BOOLEAN, token_info : Nat, protocol_take_rate_pct : Nat,
     emergency_mode : BOOLEAN, proposer_authority_locked : BOOLEAN]

ASSUME ConfigAssumption ==
    /\ MAX \in Nat /\ MIN_INITIAL_DEPOSIT_AMOUNT \in Nat \ {0}
    /\ \A mode \in DOMAIN MarketValues :
          /\ mode \in {"emergency_mode", "borrow_disabled", "immutable",
                       "min_initial_deposit_amount", "elevation_group", "rollover_window",
                       "migration_to_fixed", "min_partial_rollover_value"}
          /\ MarketValues[mode] \subseteq MarketSettingType[mode]
    /\ \A mode \in DOMAIN ReserveValues :
          /\ mode \in {"status", "loan_to_value_pct", "liquidation_threshold_pct",
                       "deposit_limit", "borrow_limit", "borrow_limit_outside_elevation_group",
                       "elevation_groups", "token_info", "protocol_take_rate_pct",
                       "emergency_mode", "proposer_authority_locked"}
          /\ ReserveValues[mode] \subseteq ReserveSettingType[mode]
    /\ Sources \subseteq [same_market : BOOLEAN, config : ReserveConfig]

VARIABLES lending_market,   \* settings of the market
          config,           \* settings of the reserve, NoReserve before init_reserve
          initial,          \* tokens of the initial deposit
          supply,           \* tokens supplied, the initial deposit included
          borrowed          \* tokens lent of these

configVars == <<lending_market, config, initial, supply, borrowed>>

Signer == {"owner", "proposer", "council", "admin", "user"}
NoReserve == [exists |-> FALSE]

NoGroup == [ltv_pct |-> 0, liquidation_threshold_pct |-> 0, debt_reserve |-> FALSE]

\* LendingMarket::default
default_market ==
    [emergency_mode |-> FALSE, borrow_disabled |-> FALSE, immutable |-> FALSE,
     min_initial_deposit_amount |-> MIN_INITIAL_DEPOSIT_AMOUNT,
     elevation_group |-> NoGroup,
     rollover_window |-> 0, migration_to_fixed |-> FALSE, min_partial_rollover_value |-> 0]

\* ReserveConfig::default with the status of a new reserve
default_config ==
    [exists |-> TRUE, status |-> "Hidden",
     loan_to_value_pct |-> 0, liquidation_threshold_pct |-> 0,
     deposit_limit |-> 0, borrow_limit |-> 0, borrow_limit_outside_elevation_group |-> 0,
     elevation_groups |-> FALSE, token_info |-> 0, protocol_take_rate_pct |-> 0,
     emergency_mode |-> FALSE, proposer_authority_locked |-> FALSE]

-----------------------------------------------------------------------------
(* Phases of the reserve                                                   *)

is_used ==
    LET minimum == lending_market.min_initial_deposit_amount IN
    supply - borrowed > minimum \/ borrowed > 0 \/ supply > minimum

is_usage_blocked(c) == c.deposit_limit = 0 /\ c.borrow_limit = 0
is_predeposit(c) == ~is_used /\ is_usage_blocked(c)
has_initial_deposit == supply > 0

-----------------------------------------------------------------------------
(* The settings of the market                                              *)

\* The emergency council may only stop things.
is_allowed_to_update_lending_market(signer, mode, value) ==
    \/ signer = "owner"
    \/ signer = "council" /\ mode \in {"emergency_mode", "borrow_disabled"} /\ value

validate_new_elevation_group(g) ==
    /\ g.liquidation_threshold_pct \in 1..99
    /\ g.ltv_pct <= g.liquidation_threshold_pct
    /\ g.debt_reserve

\* Rollovers of every kind need the smallest value that may be rolled over.
rollover_minimum_configured(m) ==
    (m.rollover_window > 0 \/ m.migration_to_fixed) => m.min_partial_rollover_value # 0

valid_market_value(mode, value, m) ==
    /\ mode = "min_initial_deposit_amount" => value >= MIN_INITIAL_DEPOSIT_AMOUNT
    /\ mode = "min_partial_rollover_value" => value # 0
    /\ mode = "elevation_group" => validate_new_elevation_group(value)
    /\ mode \in {"rollover_window", "migration_to_fixed"} => rollover_minimum_configured(m)

UpdateLendingMarket(signer, mode, value) ==
    LET updated == [lending_market EXCEPT ![mode] = value] IN
    /\ is_allowed_to_update_lending_market(signer, mode, value)
    /\ ~lending_market.immutable
    /\ valid_market_value(mode, value, updated)
    /\ lending_market' = updated
    /\ UNCHANGED <<config, initial, supply, borrowed>>

-----------------------------------------------------------------------------
(* The settings of the reserve                                             *)

is_update_reserve_config_mode_global_admin_only(mode) == mode = "protocol_take_rate_pct"

is_update_reserve_config_mode_allowed_for_emergency_council(mode, value) ==
    \/ mode \in {"borrow_limit", "deposit_limit", "loan_to_value_pct"} /\ value = 0
    \/ mode = "emergency_mode" /\ value

\* Faulty variant: a reserve just opened is still being initialized.
initialization_phase_unused == ~is_used /\ ~config.proposer_authority_locked

initialization_phase ==
    ~is_used /\ is_usage_blocked(config) /\ ~config.proposer_authority_locked

is_allowed_signer_to_update_reserve_config(signer, mode, value) ==
    \/ initialization_phase /\ signer = "proposer"
    \/ IF is_update_reserve_config_mode_global_admin_only(mode)
       THEN signer = "admin"
       ELSE \/ signer = "owner"
            \/ /\ signer = "council"
               /\ is_update_reserve_config_mode_allowed_for_emergency_council(mode, value)

validate_reserve_config_integrity(c, m) ==
    /\ c.loan_to_value_pct < 100
    /\ c.liquidation_threshold_pct \in c.loan_to_value_pct..100
    /\ c.token_info # 0
    /\ \/ c.borrow_limit_outside_elevation_group = MAX
       \/ c.borrow_limit >= c.borrow_limit_outside_elevation_group
    /\ c.elevation_groups =>
          /\ m.elevation_group.debt_reserve
          /\ m.elevation_group.liquidation_threshold_pct >= c.liquidation_threshold_pct
          /\ m.elevation_group.ltv_pct >= c.loan_to_value_pct

\* An immutable market leaves the admin its fees, and everyone the emergency.
update_allowed_by_immutable_market(signer, mode) ==
    \/ ~lending_market.immutable
    \/ is_update_reserve_config_mode_global_admin_only(mode) /\ signer = "admin"
    \/ mode = "emergency_mode"

\* Faulty variant: the phase is the one before the update.
may_skip_validation_before(updated) == is_predeposit(config)

\* Validation may be left out while the reserve is, after the update, not in use.
may_skip_validation(updated) == is_predeposit(updated)

\* Opening the reserve is for the owner of the market.
may_unblock(signer, updated) ==
    (is_usage_blocked(config) /\ ~is_usage_blocked(updated)) => signer = "owner"

check_valid_pct(value) == value \in 0..100

\* Each setting is first validated by itself; flags are BOOLEAN here.
valid_reserve_value(mode, value) ==
    mode \in {"loan_to_value_pct", "liquidation_threshold_pct", "protocol_take_rate_pct"} =>
        check_valid_pct(value)

updated_config(mode, value) == [config EXCEPT ![mode] = value]

UpdateReserveConfig(signer, mode, value, skip) ==
    LET updated == updated_config(mode, value) IN
    /\ config # NoReserve /\ valid_reserve_value(mode, value)
    /\ is_allowed_signer_to_update_reserve_config(signer, mode, value)
    /\ update_allowed_by_immutable_market(signer, mode)
    /\ has_initial_deposit
    /\ IF skip THEN may_skip_validation(updated)
               ELSE validate_reserve_config_integrity(updated, lending_market)
    /\ may_unblock(signer, updated)
    /\ config' = updated
    /\ UNCHANGED <<lending_market, initial, supply, borrowed>>

\* A clone has no limits, no lock and the status of a new reserve.
from_customized(source, clear_groups) ==
    [source EXCEPT !.status = "Hidden", !.deposit_limit = 0, !.borrow_limit = 0,
                   !.proposer_authority_locked = FALSE,
                   !.elevation_groups = @ /\ ~clear_groups]

is_allowed_signer_to_clone_reserve_config(signer) ==
    signer = "owner" \/ (signer = "proposer" /\ ~config.proposer_authority_locked)

clone_target_unused == is_predeposit(config) /\ ~config.emergency_mode

\* Nothing is validated; whoever opens the reserve afterwards has to.
CloneReserveConfig(signer, source, clear_groups) ==
    LET clone == from_customized(source.config, clear_groups) IN
    /\ config # NoReserve
    /\ is_allowed_signer_to_clone_reserve_config(signer)
    /\ ~lending_market.immutable
    /\ ~is_usage_blocked(source.config) /\ ~source.config.emergency_mode
    /\ clone_target_unused
    /\ clone.elevation_groups => source.same_market
    /\ config' = clone
    /\ UNCHANGED <<lending_market, initial, supply, borrowed>>

-----------------------------------------------------------------------------
(* The life of the reserve                                                 *)

\* A mint whose new accounts are frozen takes its initial deposit later.
InitReserve(signer, frozen) ==
    LET deposit == IF frozen THEN 0 ELSE lending_market.min_initial_deposit_amount IN
    /\ config = NoReserve
    /\ signer \in {"owner", "proposer"}
    /\ config' = default_config
    /\ initial' = deposit /\ supply' = deposit
    /\ UNCHANGED <<lending_market, borrowed>>

SeedDepositOnInitReserve ==
    /\ config # NoReserve
    /\ ~has_initial_deposit
    /\ initial' = lending_market.min_initial_deposit_amount
    /\ supply' = lending_market.min_initial_deposit_amount
    /\ UNCHANGED <<lending_market, config, borrowed>>

InOperation == config # NoReserve /\ ~lending_market.emergency_mode /\ ~config.emergency_mode

DepositReserveLiquidity ==
    /\ InOperation
    /\ supply < MaxSupply
    /\ supply + 1 <= config.deposit_limit
    /\ supply' = supply + 1
    /\ UNCHANGED <<lending_market, config, initial, borrowed>>

\* Nobody holds the collateral of the initial deposit.
RedeemReserveCollateral ==
    /\ InOperation
    /\ supply > initial /\ supply - borrowed > 0
    /\ supply' = supply - 1
    /\ UNCHANGED <<lending_market, config, initial, borrowed>>

BorrowObligationLiquidity ==
    /\ InOperation /\ ~lending_market.borrow_disabled
    /\ supply - borrowed > 0
    /\ borrowed + 1 <= config.borrow_limit
    /\ borrowed' = borrowed + 1
    /\ UNCHANGED <<lending_market, config, initial, supply>>

RepayObligationLiquidity ==
    /\ InOperation
    /\ borrowed > 0
    /\ borrowed' = borrowed - 1
    /\ UNCHANGED <<lending_market, config, initial, supply>>

-----------------------------------------------------------------------------
InitConfig ==
    /\ lending_market = default_market
    /\ config = NoReserve
    /\ initial = 0 /\ supply = 0 /\ borrowed = 0

NextConfig ==
    \/ \E signer \in Signer :
          \/ \E mode \in DOMAIN MarketValues : \E value \in MarketValues[mode] :
                UpdateLendingMarket(signer, mode, value)
          \/ \E mode \in DOMAIN ReserveValues : \E value \in ReserveValues[mode], skip \in BOOLEAN :
                UpdateReserveConfig(signer, mode, value, skip)
          \/ \E source \in Sources, clear_groups \in BOOLEAN :
                CloneReserveConfig(signer, source, clear_groups)
          \/ \E frozen \in BOOLEAN : InitReserve(signer, frozen)
    \/ SeedDepositOnInitReserve
    \/ DepositReserveLiquidity \/ RedeemReserveCollateral
    \/ BorrowObligationLiquidity \/ RepayObligationLiquidity

SpecConfig == InitConfig /\ [][NextConfig]_configVars

-----------------------------------------------------------------------------
(* Properties                                                              *)

\* The reserve does not exist or has all its settings, and lends no more than
\* it was supplied with.
ConfigTypeOK ==
    /\ lending_market \in
          [emergency_mode : BOOLEAN, borrow_disabled : BOOLEAN, immutable : BOOLEAN,
           min_initial_deposit_amount : Nat, elevation_group : GroupType,
           rollover_window : Nat, migration_to_fixed : BOOLEAN, min_partial_rollover_value : Nat]
    /\ config = NoReserve \/ config \in ReserveConfig
    /\ initial \in Nat /\ supply \in Nat /\ borrowed \in Nat
    /\ initial <= supply /\ borrowed <= supply

\* A reserve anyone can deposit in or borrow from has its initial deposit and
\* settings that make sense together, whatever was set without validation,
\* cloned or proposed while it was closed.
OpenReserveSound ==
    (config # NoReserve /\ ~is_usage_blocked(config)) =>
       /\ has_initial_deposit
       /\ config.token_info # 0
       /\ config.loan_to_value_pct <= config.liquidation_threshold_pct
       /\ config.liquidation_threshold_pct <= 100
       /\ \/ config.borrow_limit_outside_elevation_group = MAX
          \/ config.borrow_limit_outside_elevation_group <= config.borrow_limit

\* The step changes the reserve's settings, and this signer can make it.
ChangedBy(signer) ==
    /\ config.exists /\ config' # config
    /\ \/ \E mode \in {m \in DOMAIN config : config'[m] # config[m]}, skip \in BOOLEAN :
             UpdateReserveConfig(signer, mode, config'[mode], skip)
       \/ \E source \in Sources, clear_groups \in BOOLEAN :
             CloneReserveConfig(signer, source, clear_groups)

\* What the proposer can do to a reserve, it can do only to one that is closed
\* and unused, and it leaves it closed.
ProposerConfined ==
    [][ChangedBy("proposer") => is_predeposit(config) /\ is_usage_blocked(config')]_configVars

\* The protocol's share of the interest of a reserve in use or open is changed
\* by the global admin alone, although it can be proposed and cloned before.
ProtocolShareHeld ==
    [][config.exists /\ config'.protocol_take_rate_pct # config.protocol_take_rate_pct =>
          is_predeposit(config) \/ ChangedBy("admin")]_configVars

\* An immutable market stays as it is, and of its reserve only the emergency
\* and the protocol's share change.
ImmutableFrozen ==
    [][lending_market.immutable =>
          /\ lending_market' = lending_market
          /\ config.exists =>
                config' = [config EXCEPT !.emergency_mode = config'.emergency_mode,
                                         !.protocol_take_rate_pct = config'.protocol_take_rate_pct]
      ]_configVars

\* Debts can only be rolled over while a smallest part is configured, in
\* whatever order the owner sets the windows, the migration and the minimum.
RolloverHasMinimum == rollover_minimum_configured(lending_market)
===============================================================================

------------------------- MODULE AdministrationProofs -------------------------
(***************************************************************************)
(* Theorems about Authority, MarketConfig, Prices and Access: for any set  *)
(* of keys and nominees; any settings the roles may try, configurations to *)
(* clone from and supply; any oracle messages and any number of slots; any *)
(* reserves, balances and values of the switches.                          *)
(***************************************************************************)
EXTENDS Authority, MarketConfig, Prices, Access,
        NaturalsInduction, WellFoundedInduction, TLAPS

-----------------------------------------------------------------------------
(***************************************************************************)
(* Authority: who holds a role, and how it is handed over.                 *)
(***************************************************************************)

-----------------------------------------------------------------------------
(* Types                                                                   *)

\* The first holders are keys, and nothing is under way.
LEMMA AuthorityTypeInit == InitAuthority => AuthorityTypeOK
  BY KeyAssumption
  DEF InitAuthority, AuthorityTypeOK, init_global_config, init_lending_market, init_obligation,
      NoBorrowOrder, NoApproval

\* Dropping an order that is past its deadline leaves an order or none.
LEMMA ClearedOrder ==
  ASSUME AuthorityTypeOK
  PROVE  /\ clear_if_past_fillable_timestamp(borrow_order) \in [placer : Key \cup {Nobody}, until : Nat]
         /\ clear_if_past_fillable_timestamp(borrow_order) \in {NoBorrowOrder, borrow_order}
  BY DEF AuthorityTypeOK, clear_if_past_fillable_timestamp, NoBorrowOrder

\* Every instruction keeps the fields in their types.
LEMMA AuthorityTypeStep ==
  ASSUME AuthorityTypeOK, [NextAuthority]_authorityVars
  PROVE  AuthorityTypeOK'
<1> USE AuthorityTypeOK, KeyAssumption DEF AuthorityTypeOK
<1>1. CASE UNCHANGED authorityVars
  BY <1>1 DEF authorityVars
<1>2. CASE Clock
  BY <1>2 DEF Clock
<1>3. CASE FillBorrowOrder
  BY <1>3 DEF FillBorrowOrder, NoBorrowOrder
<1>4. CASE ApproveObligationOwnershipTransfer
  BY <1>4, ClearedOrder DEF ApproveObligationOwnershipTransfer, NoApproval
<1>5. CASE LoseApproval
  BY <1>5 DEF LoseApproval, NoApproval
<1>6. ASSUME NEW signer \in Key, NEW key \in Nominees,
             UpdateGlobalConfig(signer, key) \/ UpdateOwner(signer, key)
      PROVE  AuthorityTypeOK'
  BY <1>6 DEF UpdateGlobalConfig, UpdateOwner
<1>7. ASSUME NEW signer \in Key,
             UpdateGlobalConfigAdmin(signer) \/ UpdateLendingMarketOwner(signer)
               \/ UpdateImmutableFlag(signer)
      PROVE  AuthorityTypeOK'
  <2>1. CASE UpdateGlobalConfigAdmin(signer)
    BY <2>1 DEF UpdateGlobalConfigAdmin
  <2>2. CASE UpdateLendingMarketOwner(signer)
    BY <2>2 DEF UpdateLendingMarketOwner
  <2>3. CASE UpdateImmutableFlag(signer)
    BY <2>3 DEF UpdateImmutableFlag
  <2> QED
    BY <1>7, <2>1, <2>2, <2>3
<1>8. ASSUME NEW signer \in Key, NEW until \in 0..MaxTime, SetBorrowOrder(signer, until)
      PROVE  AuthorityTypeOK'
  BY <1>8 DEF SetBorrowOrder, NoBorrowOrder
<1>9. ASSUME NEW signer \in Key, NEW key \in Key \cup {Nobody},
             InitiateObligationOwnershipTransfer(signer, key)
      PROVE  AuthorityTypeOK'
  BY <1>9, ClearedOrder DEF InitiateObligationOwnershipTransfer
<1>10. ASSUME NEW signer \in Key, SignApproval(signer)
       PROVE  AuthorityTypeOK'
  BY <1>10 DEF SignApproval
<1>11. ASSUME NEW signer \in Key, AcceptObligationOwnership(signer)
       PROVE  AuthorityTypeOK'
  BY <1>11, ClearedOrder DEF AcceptObligationOwnership
<1>12. ASSUME NEW signer \in Key, AbortObligationOwnershipTransfer(signer)
       PROVE  AuthorityTypeOK'
  BY <1>12 DEF AbortObligationOwnershipTransfer
<1> QED
  BY <1>1, <1>2, <1>3, <1>4, <1>5, <1>6, <1>7, <1>8, <1>9, <1>10, <1>11, <1>12
  DEF NextAuthority

\* Every key field holds a key, or nobody where that is allowed: no sequence of
\* handovers and transfers leaves the program, the market or the obligation to
\* Pubkey::default().
THEOREM AuthorityTyping == SpecAuthority => []AuthorityTypeOK
  BY AuthorityTypeInit, AuthorityTypeStep, PTL DEF SpecAuthority

-----------------------------------------------------------------------------
(* Handovers                                                               *)

\* The handovers write a pending key and its nominator together, and make a
\* holder of the pending key without touching it.
LEMMA NomineeStep ==
  ASSUME AuthorityTypeOK, NomineeOfHolder, [NextAuthority]_authorityVars
  PROVE  NomineeOfHolder'
<1> USE AuthorityTypeOK, NomineeOfHolder DEF AuthorityTypeOK, NomineeOfHolder
<1>1. CASE UNCHANGED <<global_config, market, nominator>>
  BY <1>1
<1>2. ASSUME NEW signer \in Key, NEW key \in Nominees, UpdateGlobalConfig(signer, key)
      PROVE  NomineeOfHolder'
  BY <1>2 DEF UpdateGlobalConfig
<1>3. ASSUME NEW signer \in Key, UpdateGlobalConfigAdmin(signer)
      PROVE  NomineeOfHolder'
  BY <1>3 DEF UpdateGlobalConfigAdmin
<1>4. ASSUME NEW signer \in Key, NEW key \in Nominees, UpdateOwner(signer, key)
      PROVE  NomineeOfHolder'
  BY <1>4 DEF UpdateOwner
<1>5. ASSUME NEW signer \in Key, UpdateLendingMarketOwner(signer) \/ UpdateImmutableFlag(signer)
      PROVE  NomineeOfHolder'
  BY <1>5 DEF UpdateLendingMarketOwner, UpdateImmutableFlag
<1> QED
  BY <1>1, <1>2, <1>3, <1>4, <1>5
  DEF NextAuthority, authorityVars, Clock, FillBorrowOrder, ApproveObligationOwnershipTransfer,
      LoseApproval, SetBorrowOrder, InitiateObligationOwnershipTransfer, SignApproval,
      AcceptObligationOwnership, AbortObligationOwnershipTransfer

\* A nomination by a former admin or market owner never outlives its
\* successor's arrival (handler_update_global_config_admin,
\* handler_update_lending_market_owner).
THEOREM NominationsCurrent == SpecAuthority => []NomineeOfHolder
<1>1. InitAuthority => NomineeOfHolder
  BY DEF InitAuthority, NomineeOfHolder, init_global_config, init_lending_market
<1> QED
  BY <1>1, AuthorityTyping, NomineeStep, PTL DEF SpecAuthority

-----------------------------------------------------------------------------
(* The transfer of the obligation and its borrow order                     *)

\* Only the four instructions of a transfer touch the obligation; an approval
\* that lands names the owner the obligation names at that moment.
LEMMA AgreedStep ==
  ASSUME AuthorityTypeOK, TransferAgreed, [NextAuthority]_authorityVars
  PROVE  TransferAgreed'
<1> USE AuthorityTypeOK, TransferAgreed
    DEF AuthorityTypeOK, TransferAgreed, is_ownership_transfer_approved,
        is_ownership_transfer_in_progress, is_ownership_transfer_in_initiated_state
<1>1. CASE UNCHANGED <<obligation, consent>>
  BY <1>1
<1>2. CASE ApproveObligationOwnershipTransfer
  BY <1>2 DEF ApproveObligationOwnershipTransfer, approve_constraints
<1>3. ASSUME NEW signer \in Key, NEW key \in Key \cup {Nobody},
             InitiateObligationOwnershipTransfer(signer, key)
      PROVE  TransferAgreed'
  BY <1>3 DEF InitiateObligationOwnershipTransfer
<1>4. ASSUME NEW signer \in Key, AcceptObligationOwnership(signer)
      PROVE  TransferAgreed'
  <2>1. obligation'.state = "None"
    BY <1>4 DEF AcceptObligationOwnership
  <2> QED
    BY <2>1
<1>5. ASSUME NEW signer \in Key, AbortObligationOwnershipTransfer(signer)
      PROVE  TransferAgreed'
  <2>1. obligation'.state = "None"
    BY <1>5 DEF AbortObligationOwnershipTransfer
  <2> QED
    BY <2>1
<1> QED
  BY <1>1, <1>2, <1>3, <1>4, <1>5
  DEF NextAuthority, authorityVars, Clock, FillBorrowOrder, LoseApproval, SetBorrowOrder,
      SignApproval, UpdateGlobalConfig, UpdateGlobalConfigAdmin, UpdateOwner,
      UpdateLendingMarketOwner, UpdateImmutableFlag

\* An approved transfer goes to whom the admin's signature named, and was
\* offered by the present owner, whatever was aborted and offered again while
\* the approval was on its way (has_one = pending_owner).
THEOREM TransfersAgreed == SpecAuthority => []TransferAgreed
<1>1. InitAuthority => TransferAgreed
  BY DEF InitAuthority, TransferAgreed, init_obligation, is_ownership_transfer_approved,
         is_ownership_transfer_in_progress
<1> QED
  BY <1>1, AuthorityTyping, AgreedStep, PTL DEF SpecAuthority

\* The obligation changes hands only without an order; orders are placed by
\* the owner.
LEMMA OrderStep ==
  ASSUME AuthorityTypeOK, OrderOfOwner, [NextAuthority]_authorityVars
  PROVE  OrderOfOwner'
<1> USE AuthorityTypeOK, OrderOfOwner DEF AuthorityTypeOK, OrderOfOwner
<1>1. CASE UNCHANGED <<obligation, borrow_order>>
  BY <1>1 DEF NoBorrowOrder
<1>2. CASE FillBorrowOrder
  BY <1>2 DEF FillBorrowOrder
<1>3. CASE ApproveObligationOwnershipTransfer
  BY <1>3, ClearedOrder DEF ApproveObligationOwnershipTransfer
<1>4. ASSUME NEW signer \in Key, NEW until \in 0..MaxTime, SetBorrowOrder(signer, until)
      PROVE  OrderOfOwner'
  BY <1>4 DEF SetBorrowOrder
<1>5. ASSUME NEW signer \in Key, NEW key \in Key \cup {Nobody},
             InitiateObligationOwnershipTransfer(signer, key)
      PROVE  OrderOfOwner'
  BY <1>5, ClearedOrder DEF InitiateObligationOwnershipTransfer
<1>6. ASSUME NEW signer \in Key, AcceptObligationOwnership(signer)
      PROVE  OrderOfOwner'
  BY <1>6 DEF AcceptObligationOwnership, obligation_has_no_active_borrow_orders_check
<1>7. ASSUME NEW signer \in Key, AbortObligationOwnershipTransfer(signer)
      PROVE  OrderOfOwner'
  BY <1>7 DEF AbortObligationOwnershipTransfer
<1> QED
  BY <1>1, <1>2, <1>3, <1>4, <1>5, <1>6, <1>7
  DEF NextAuthority, authorityVars, Clock, LoseApproval, SignApproval, UpdateGlobalConfig,
      UpdateGlobalConfigAdmin, UpdateOwner, UpdateLendingMarketOwner, UpdateImmutableFlag

\* No new owner inherits a borrow order that anyone may fill at its cost,
\* although the old owner may place orders until the acceptance
\* (obligation_has_no_active_borrow_orders_check).
THEOREM OrdersOfOwner == SpecAuthority => []OrderOfOwner
<1>1. InitAuthority => OrderOfOwner
  BY DEF InitAuthority, OrderOfOwner, NoBorrowOrder
<1> QED
  BY <1>1, AuthorityTyping, OrderStep, PTL DEF SpecAuthority

-----------------------------------------------------------------------------
(***************************************************************************)
(* MarketConfig: an open reserve is sound because of what was checked when *)
(* it was opened and because it was never empty again: Seeded says that a  *)
(* reserve that was supplied holds its initial deposit, which nobody can   *)
(* redeem.                                                                 *)
(***************************************************************************)

Markets ==
    [emergency_mode : BOOLEAN, borrow_disabled : BOOLEAN, immutable : BOOLEAN,
     min_initial_deposit_amount : Nat, elevation_group : GroupType,
     rollover_window : Nat, migration_to_fixed : BOOLEAN, min_partial_rollover_value : Nat]

Seeded ==
    /\ lending_market.min_initial_deposit_amount >= MIN_INITIAL_DEPOSIT_AMOUNT
    /\ supply > 0 => initial > 0
    /\ config = NoReserve => supply = 0

ConfigInv == ConfigTypeOK /\ Seeded /\ OpenReserveSound /\ RolloverHasMinimum

-----------------------------------------------------------------------------
(* Settings                                                                *)

\* No configuration is the missing one.
LEMMA Exists ==
  ASSUME NEW c \in ReserveConfig
  PROVE  c # NoReserve /\ c.exists
<1>1. c.exists = TRUE
  BY DEF ReserveConfig
<1>2. NoReserve.exists = FALSE
  BY DEF NoReserve
<1> QED
  BY <1>1, <1>2

\* An update of a market's setting gives a market.
LEMMA UpdatedMarket ==
  ASSUME lending_market \in Markets, NEW mode \in DOMAIN MarketValues,
         NEW value \in MarketValues[mode]
  PROVE  [lending_market EXCEPT ![mode] = value] \in Markets
<1>1. /\ mode \in {"emergency_mode", "borrow_disabled", "immutable",
                   "min_initial_deposit_amount", "elevation_group", "rollover_window",
                   "migration_to_fixed", "min_partial_rollover_value"}
      /\ value \in MarketSettingType[mode]
  BY ConfigAssumption
<1> QED
  BY <1>1 DEF Markets, MarketSettingType

\* An update of a reserve's setting gives a configuration, and changes nothing else.
LEMMA UpdatedReserve ==
  ASSUME config \in ReserveConfig, NEW mode \in DOMAIN ReserveValues,
         NEW value \in ReserveValues[mode]
  PROVE  updated_config(mode, value) \in ReserveConfig
<1>1. /\ mode \in {"status", "loan_to_value_pct", "liquidation_threshold_pct",
                   "deposit_limit", "borrow_limit", "borrow_limit_outside_elevation_group",
                   "elevation_groups", "token_info", "protocol_take_rate_pct",
                   "emergency_mode", "proposer_authority_locked"}
      /\ value \in ReserveSettingType[mode]
  BY ConfigAssumption
<1>2. CASE mode = "status"
  BY <1>1, <1>2 DEF ReserveConfig, ReserveSettingType, updated_config
<1>3. CASE mode = "loan_to_value_pct"
  BY <1>1, <1>3 DEF ReserveConfig, ReserveSettingType, updated_config
<1>4. CASE mode = "liquidation_threshold_pct"
  BY <1>1, <1>4 DEF ReserveConfig, ReserveSettingType, updated_config
<1>5. CASE mode = "deposit_limit"
  BY <1>1, <1>5 DEF ReserveConfig, ReserveSettingType, updated_config
<1>6. CASE mode = "borrow_limit"
  BY <1>1, <1>6 DEF ReserveConfig, ReserveSettingType, updated_config
<1>7. CASE mode = "borrow_limit_outside_elevation_group"
  BY <1>1, <1>7 DEF ReserveConfig, ReserveSettingType, updated_config
<1>8. CASE mode = "elevation_groups"
  BY <1>1, <1>8 DEF ReserveConfig, ReserveSettingType, updated_config
<1>9. CASE mode = "token_info"
  BY <1>1, <1>9 DEF ReserveConfig, ReserveSettingType, updated_config
<1>10. CASE mode = "protocol_take_rate_pct"
  BY <1>1, <1>10 DEF ReserveConfig, ReserveSettingType, updated_config
<1>11. CASE mode = "emergency_mode"
  BY <1>1, <1>11 DEF ReserveConfig, ReserveSettingType, updated_config
<1>12. CASE mode = "proposer_authority_locked"
  BY <1>1, <1>12 DEF ReserveConfig, ReserveSettingType, updated_config
<1> QED
  BY <1>1, <1>2, <1>3, <1>4, <1>5, <1>6, <1>7, <1>8, <1>9, <1>10, <1>11, <1>12

\* A clone is a configuration of a closed reserve.
LEMMA ClonedReserve ==
  ASSUME NEW source \in Sources, NEW clear_groups \in BOOLEAN
  PROVE  /\ from_customized(source.config, clear_groups) \in ReserveConfig
         /\ is_usage_blocked(from_customized(source.config, clear_groups))
<1>1. source.config \in ReserveConfig
  BY ConfigAssumption
<1> QED
  BY <1>1 DEF ReserveConfig, from_customized, is_usage_blocked

-----------------------------------------------------------------------------
(* Each step keeps the invariant                                           *)

\* A market's setting: the smallest deposit stays that of the program, and a
\* minimum is there before anything that needs it.
LEMMA MarketUpdateKeeps ==
  ASSUME ConfigInv, NEW signer, NEW mode \in DOMAIN MarketValues,
         NEW value \in MarketValues[mode], UpdateLendingMarket(signer, mode, value)
  PROVE  ConfigInv'
<1> DEFINE updated == [lending_market EXCEPT ![mode] = value]
<1>1. /\ lending_market' = updated /\ valid_market_value(mode, value, updated)
      /\ UNCHANGED <<config, initial, supply, borrowed>>
  BY DEF UpdateLendingMarket
<1>2. lending_market \in Markets /\ lending_market' \in Markets
  BY <1>1, UpdatedMarket DEF ConfigInv, ConfigTypeOK, Markets
<1>3. ConfigTypeOK' /\ OpenReserveSound'
  BY <1>1, <1>2 DEF ConfigInv, ConfigTypeOK, Markets, OpenReserveSound, is_usage_blocked,
                    has_initial_deposit
<1>4. lending_market'.min_initial_deposit_amount >= MIN_INITIAL_DEPOSIT_AMOUNT
  BY <1>1, <1>2 DEF ConfigInv, Seeded, valid_market_value, Markets
<1>5. RolloverHasMinimum'
  <2>1. CASE mode \in {"rollover_window", "migration_to_fixed"}
    BY <1>1, <2>1 DEF RolloverHasMinimum, valid_market_value
  <2>2. CASE mode = "min_partial_rollover_value"
    BY <1>1, <1>2, <2>2 DEF RolloverHasMinimum, rollover_minimum_configured, valid_market_value,
                            Markets
  <2>3. CASE mode \notin {"rollover_window", "migration_to_fixed", "min_partial_rollover_value"}
    BY <1>1, <1>2, <2>3 DEF ConfigInv, RolloverHasMinimum, rollover_minimum_configured, Markets
  <2> QED
    BY <2>1, <2>2, <2>3
<1> QED
  BY <1>1, <1>3, <1>4, <1>5 DEF ConfigInv, Seeded

\* A reserve's setting: it is validated, or the reserve is closed afterwards.
LEMMA ReserveUpdateKeeps ==
  ASSUME ConfigInv, NEW signer, NEW mode \in DOMAIN ReserveValues,
         NEW value \in ReserveValues[mode], NEW skip \in BOOLEAN,
         UpdateReserveConfig(signer, mode, value, skip)
  PROVE  ConfigInv'
<1>1. config \in ReserveConfig
  BY DEF ConfigInv, ConfigTypeOK, UpdateReserveConfig
<1>2. /\ config' = updated_config(mode, value) /\ config' \in ReserveConfig
      /\ UNCHANGED <<lending_market, initial, supply, borrowed>>
      /\ has_initial_deposit
  BY <1>1, UpdatedReserve DEF UpdateReserveConfig
<1>3. \/ is_usage_blocked(config')
      \/ validate_reserve_config_integrity(config', lending_market)
  BY <1>2 DEF UpdateReserveConfig, may_skip_validation, is_predeposit
<1>4. ASSUME validate_reserve_config_integrity(config', lending_market)
      PROVE  /\ config'.token_info # 0
             /\ config'.loan_to_value_pct <= config'.liquidation_threshold_pct
             /\ config'.liquidation_threshold_pct <= 100
             /\ \/ config'.borrow_limit_outside_elevation_group = MAX
                \/ config'.borrow_limit_outside_elevation_group <= config'.borrow_limit
  BY <1>2, <1>4 DEF validate_reserve_config_integrity, ReserveConfig
<1>5. OpenReserveSound'
  BY <1>2, <1>3, <1>4 DEF OpenReserveSound, has_initial_deposit
<1>6. config' # NoReserve
  BY <1>2, Exists
<1> QED
  BY <1>2, <1>5, <1>6
  DEF ConfigInv, ConfigTypeOK, Seeded, RolloverHasMinimum, rollover_minimum_configured

\* A clone is closed.
LEMMA CloneKeeps ==
  ASSUME ConfigInv, NEW signer, NEW source \in Sources, NEW clear_groups \in BOOLEAN,
         CloneReserveConfig(signer, source, clear_groups)
  PROVE  ConfigInv'
<1>1. /\ config' \in ReserveConfig /\ is_usage_blocked(config')
      /\ UNCHANGED <<lending_market, initial, supply, borrowed>>
  BY ClonedReserve DEF CloneReserveConfig
<1>2. config' # NoReserve
  BY <1>1, Exists
<1> QED
  BY <1>1, <1>2 DEF ConfigInv, ConfigTypeOK, Seeded, OpenReserveSound, RolloverHasMinimum,
                    rollover_minimum_configured

\* A new reserve is closed, and empty or with its initial deposit.
LEMMA InitReserveKeeps ==
  ASSUME ConfigInv, NEW signer, NEW frozen \in BOOLEAN, InitReserve(signer, frozen)
  PROVE  ConfigInv'
<1>1. config' \in ReserveConfig /\ is_usage_blocked(config')
  BY DEF InitReserve, default_config, ReserveConfig, is_usage_blocked
<1>2. config' # NoReserve
  BY <1>1, Exists
<1>3. /\ initial' = supply' /\ supply' \in Nat
      /\ supply = 0 /\ borrowed' = borrowed /\ lending_market' = lending_market
  BY DEF ConfigInv, ConfigTypeOK, Seeded, InitReserve
<1> QED
  BY <1>1, <1>2, <1>3 DEF ConfigInv, ConfigTypeOK, Seeded, OpenReserveSound, RolloverHasMinimum,
                          rollover_minimum_configured

\* Deposits, redemptions, borrows and repayments leave the settings alone and
\* the initial deposit in the reserve.
LEMMA UseKeeps ==
  ASSUME ConfigInv,
         \/ SeedDepositOnInitReserve \/ DepositReserveLiquidity \/ RedeemReserveCollateral
         \/ BorrowObligationLiquidity \/ RepayObligationLiquidity
  PROVE  ConfigInv'
<1> USE ConfigAssumption
    DEF ConfigInv, ConfigTypeOK, Seeded, RolloverHasMinimum, rollover_minimum_configured
<1>1. UNCHANGED <<lending_market, config>> /\ config \in ReserveConfig /\ config # NoReserve
  BY DEF SeedDepositOnInitReserve, DepositReserveLiquidity, RedeemReserveCollateral,
         BorrowObligationLiquidity, RepayObligationLiquidity, InOperation
<1>2. lending_market.min_initial_deposit_amount \in Nat \ {0}
  OBVIOUS
<1>3. ASSUME supply > 0 => supply' > 0
      PROVE  OpenReserveSound'
  BY <1>1, <1>3 DEF OpenReserveSound, is_usage_blocked, has_initial_deposit
<1>4. CASE SeedDepositOnInitReserve
  BY <1>1, <1>2, <1>3, <1>4 DEF SeedDepositOnInitReserve, has_initial_deposit
<1>5. CASE DepositReserveLiquidity
  <2>1. supply > 0
    BY <1>1, <1>5 DEF DepositReserveLiquidity, OpenReserveSound, is_usage_blocked,
                      has_initial_deposit, ReserveConfig
  <2> QED
    BY <1>1, <1>3, <1>5, <2>1 DEF DepositReserveLiquidity
<1>6. CASE RedeemReserveCollateral
  BY <1>1, <1>3, <1>6 DEF RedeemReserveCollateral
<1>7. CASE BorrowObligationLiquidity
  BY <1>1, <1>3, <1>7 DEF BorrowObligationLiquidity
<1>8. CASE RepayObligationLiquidity
  BY <1>1, <1>3, <1>8 DEF RepayObligationLiquidity
<1> QED
  BY <1>4, <1>5, <1>6, <1>7, <1>8

\* ConfigInv is inductive.
LEMMA ConfigInvariant == SpecConfig => []ConfigInv
<1>1. InitConfig => ConfigInv
  BY ConfigAssumption
  DEF InitConfig, ConfigInv, ConfigTypeOK, Seeded, OpenReserveSound, RolloverHasMinimum,
      rollover_minimum_configured, default_market, GroupType, NoGroup
<1>2. ConfigInv /\ NextConfig => ConfigInv'
  BY MarketUpdateKeeps, ReserveUpdateKeeps, CloneKeeps, InitReserveKeeps, UseKeeps DEF NextConfig
<1>3. ConfigInv /\ UNCHANGED configVars => ConfigInv'
  BY DEF ConfigInv, ConfigTypeOK, Seeded, OpenReserveSound, RolloverHasMinimum,
         rollover_minimum_configured, is_usage_blocked, has_initial_deposit, configVars
<1> QED
  BY <1>1, <1>2, <1>3, PTL DEF SpecConfig

\* Settings have their types, and a reserve lends no more than it was
\* supplied with.
THEOREM ConfigTyping == SpecConfig => []ConfigTypeOK
  BY ConfigInvariant, PTL DEF ConfigInv

\* Whatever is set without validation, cloned or proposed while a reserve is
\* closed, it has its initial deposit and validated settings whenever it is
\* open (handler_update_reserve_config, skip_config_integrity_validation).
THEOREM OpenReservesSound == SpecConfig => []OpenReserveSound
  BY ConfigInvariant, PTL DEF ConfigInv

\* No order of updates leaves rollovers on without a smallest part
\* (handler_update_lending_market).
THEOREM RolloversHaveMinimum == SpecConfig => []RolloverHasMinimum
  BY ConfigInvariant, PTL DEF ConfigInv

-----------------------------------------------------------------------------
(* What no step does                                                       *)

\* A proposer's update passes the test of the initialization phase, and the
\* one on opening; a proposer's clone that of an unused target.
LEMMA ProposerStep == ChangedBy("proposer") => is_predeposit(config) /\ is_usage_blocked(config')
<1>1. ASSUME NEW mode, NEW value, NEW skip \in BOOLEAN,
             UpdateReserveConfig("proposer", mode, value, skip)
      PROVE  is_predeposit(config) /\ is_usage_blocked(config')
  <2>1. initialization_phase
    BY <1>1 DEF UpdateReserveConfig, is_allowed_signer_to_update_reserve_config
  <2>2. is_predeposit(config)
    BY <2>1 DEF initialization_phase, is_predeposit
  <2> QED
    BY <1>1, <2>2 DEF UpdateReserveConfig, may_unblock, is_predeposit
<1>2. ASSUME NEW source \in Sources, NEW clear_groups \in BOOLEAN,
             CloneReserveConfig("proposer", source, clear_groups)
      PROVE  is_predeposit(config) /\ is_usage_blocked(config')
  BY <1>2, ClonedReserve DEF CloneReserveConfig, clone_target_unused
<1> QED
  BY <1>1, <1>2 DEF ChangedBy

\* A proposer changes only reserves that are closed and unused, and never
\* opens one (is_allowed_signer_to_update_reserve_config).
THEOREM ProposerIsConfined == SpecConfig => ProposerConfined
  BY ProposerStep, PTL DEF SpecConfig, ProposerConfined

\* A step changes the protocol's share by an update of that setting, which is
\* the admin's or made in initialization, or by a clone into a closed reserve.
LEMMA ShareStep ==
  ASSUME ConfigInv, NextConfig, config.exists,
         config'.protocol_take_rate_pct # config.protocol_take_rate_pct
  PROVE  is_predeposit(config) \/ ChangedBy("admin")
<1>1. config \in ReserveConfig /\ config # NoReserve
  <2>1. config # NoReserve
    BY DEF NoReserve
  <2> QED
    BY <2>1 DEF ConfigInv, ConfigTypeOK
<1>2. ASSUME NEW signer \in Signer, NEW mode \in DOMAIN ReserveValues,
             NEW value \in ReserveValues[mode], NEW skip \in BOOLEAN,
             UpdateReserveConfig(signer, mode, value, skip)
      PROVE  is_predeposit(config) \/ ChangedBy("admin")
  <2>1. config' = [config EXCEPT ![mode] = value]
    BY <1>2 DEF UpdateReserveConfig, updated_config
  <2>2. mode = "protocol_take_rate_pct" /\ value = config'[mode] /\ config'[mode] # config[mode]
    BY <1>1, <2>1 DEF ReserveConfig
  <2>3. CASE initialization_phase
    BY <2>3 DEF initialization_phase, is_predeposit
  <2>4. CASE ~initialization_phase
    <3>1. signer = "admin"
      BY <1>2, <2>2, <2>4 DEF UpdateReserveConfig, is_allowed_signer_to_update_reserve_config,
                              is_update_reserve_config_mode_global_admin_only
    <3>2. mode \in DOMAIN config
      BY <1>1, <2>2 DEF ReserveConfig
    <3> QED
      BY <1>2, <2>2, <3>1, <3>2 DEF ChangedBy
  <2> QED
    BY <2>3, <2>4
<1>3. ASSUME NEW signer \in Signer, NEW source \in Sources, NEW clear_groups \in BOOLEAN,
             CloneReserveConfig(signer, source, clear_groups)
      PROVE  is_predeposit(config) \/ ChangedBy("admin")
  BY <1>3 DEF CloneReserveConfig, clone_target_unused
<1> QED
  BY <1>1, <1>2, <1>3
  DEF NextConfig, UpdateLendingMarket, InitReserve, SeedDepositOnInitReserve,
      DepositReserveLiquidity, RedeemReserveCollateral, BorrowObligationLiquidity,
      RepayObligationLiquidity

\* Once a reserve is open or used, only the global admin changes the
\* protocol's share of its interest.
THEOREM ProtocolShareIsHeld == SpecConfig => ProtocolShareHeld
<1>1. ConfigInv /\ NextConfig =>
        (config.exists /\ config'.protocol_take_rate_pct # config.protocol_take_rate_pct =>
           is_predeposit(config) \/ ChangedBy("admin"))
  BY ShareStep
<1> QED
  BY <1>1, ConfigInvariant, PTL DEF SpecConfig, ProtocolShareHeld

\* In an immutable market the market's own updates and clones are refused, and
\* of a reserve's updates all but two settings.
LEMMA ImmutableStep ==
  ASSUME ConfigInv, NextConfig, lending_market.immutable
  PROVE  /\ lending_market' = lending_market
         /\ config.exists =>
               config' = [config EXCEPT !.emergency_mode = config'.emergency_mode,
                                        !.protocol_take_rate_pct = config'.protocol_take_rate_pct]
<1>1. ASSUME NEW signer \in Signer, NEW mode \in DOMAIN ReserveValues,
             NEW value \in ReserveValues[mode], NEW skip \in BOOLEAN,
             UpdateReserveConfig(signer, mode, value, skip)
      PROVE  config' = [config EXCEPT !.emergency_mode = config'.emergency_mode,
                                      !.protocol_take_rate_pct = config'.protocol_take_rate_pct]
  <2>1. config \in ReserveConfig
    BY <1>1 DEF UpdateReserveConfig, ConfigInv, ConfigTypeOK
  <2>2. config' = [config EXCEPT ![mode] = value]
    BY <1>1 DEF UpdateReserveConfig, updated_config
  <2>3. mode \in {"emergency_mode", "protocol_take_rate_pct"}
    BY <1>1 DEF UpdateReserveConfig, update_allowed_by_immutable_market,
                is_update_reserve_config_mode_global_admin_only
  <2>4. CASE mode = "emergency_mode"
    BY <2>1, <2>2, <2>4 DEF ReserveConfig
  <2>5. CASE mode = "protocol_take_rate_pct"
    BY <2>1, <2>2, <2>5 DEF ReserveConfig
  <2> QED
    BY <2>3, <2>4, <2>5
<1>2. ASSUME config' = config, config.exists
      PROVE  config' = [config EXCEPT !.emergency_mode = config'.emergency_mode,
                                      !.protocol_take_rate_pct = config'.protocol_take_rate_pct]
  <2>1. config \in ReserveConfig
    BY <1>2 DEF ConfigInv, ConfigTypeOK, NoReserve
  <2> QED
    BY <1>2, <2>1 DEF ReserveConfig
<1>3. ~ \E signer \in Signer, source \in Sources, clear_groups \in BOOLEAN :
           CloneReserveConfig(signer, source, clear_groups)
  BY DEF CloneReserveConfig
<1>4. ~ \E signer \in Signer : \E mode \in DOMAIN MarketValues : \E value \in MarketValues[mode] :
           UpdateLendingMarket(signer, mode, value)
  BY DEF UpdateLendingMarket
<1>5. ASSUME NEW signer \in Signer, NEW frozen \in BOOLEAN, InitReserve(signer, frozen)
      PROVE  ~config.exists /\ lending_market' = lending_market
  BY <1>5 DEF InitReserve, NoReserve
<1>6. ASSUME \/ SeedDepositOnInitReserve \/ DepositReserveLiquidity \/ RedeemReserveCollateral
             \/ BorrowObligationLiquidity \/ RepayObligationLiquidity
      PROVE  UNCHANGED <<lending_market, config>>
  BY <1>6 DEF SeedDepositOnInitReserve, DepositReserveLiquidity, RedeemReserveCollateral,
              BorrowObligationLiquidity, RepayObligationLiquidity
<1>7. ASSUME NEW signer \in Signer, NEW mode \in DOMAIN ReserveValues,
             NEW value \in ReserveValues[mode], NEW skip \in BOOLEAN,
             UpdateReserveConfig(signer, mode, value, skip)
      PROVE  lending_market' = lending_market
  BY <1>7 DEF UpdateReserveConfig
<1> QED
  BY <1>1, <1>2, <1>3, <1>4, <1>5, <1>6, <1>7 DEF NextConfig

\* Nothing in an immutable market changes but the emergency mode and the
\* protocol's share of its reserves.
THEOREM ImmutableIsFrozen == SpecConfig => ImmutableFrozen
<1>1. ConfigInv /\ NextConfig =>
        (lending_market.immutable =>
          /\ lending_market' = lending_market
          /\ config.exists =>
                config' = [config EXCEPT !.emergency_mode = config'.emergency_mode,
                                         !.protocol_take_rate_pct = config'.protocol_take_rate_pct])
  BY ImmutableStep
<1> QED
  BY <1>1, ConfigInvariant, PTL DEF SpecConfig, ImmutableFrozen

-----------------------------------------------------------------------------
(***************************************************************************)
(* Prices: a saved price is in order (Priced) if it could have been loaded,*)
(* or kept, under the settings of its reserve as they are now.  `current`  *)
(* is set by a refresh alone, which looks at the age under these settings, *)
(* and whatever changes the settings or the clock clears it.  A price that *)
(* may be used although its use is blocked was loaded before it was.       *)
(***************************************************************************)

\* A saved price under the settings of reserve r as they are now.
Priced(p, r) ==
    /\ p \in [time : Nat, status : SUBSET PriceStatusFlags, current : BOOLEAN]
    /\ p.time <= now + MaxAhead
    /\ (token_info[r].block_price_usage = TRUE /\ "PRICE_USAGE_ALLOWED" \in p.status)
          => p.time <= blocked_since[r] + MaxAhead
    /\ (p.current = TRUE /\ LIQUIDATION_CHECKS \subseteq p.status)
          => /\ token_info[r].emergency = FALSE
             /\ age_of(p.time) <= token_info[r].max_age_price_seconds

PricesTyped ==
    /\ now \in Nat /\ now >= FirstNow
    /\ DOMAIN token_info = ReservesPriced /\ \A r \in ReservesPriced : IsTokenInfo(token_info[r])
    /\ position \in [status : SUBSET PriceStatusFlags, current : BOOLEAN, has_debt : BOOLEAN]
    /\ blocked_since \in [ReservesPriced -> Nat]
    /\ DOMAIN saved = ReservesPriced

CountedTrue ==
    (position.current = TRUE /\ LIQUIDATION_CHECKS \subseteq position.status) =>
       /\ DOMAIN counted = reserves_of_position
       /\ \A r \in DOMAIN counted : counted[r] = TRUE

SavedPriced == \A r \in ReservesPriced : Priced(saved[r], r)

PricesInv == PricesTyped /\ SavedPriced /\ CountedTrue

-----------------------------------------------------------------------------
(* What the oracles yield                                                  *)

\* A timestamp that is not before the epoch nor too far ahead of the clock.
Timely(p) == p.price.timestamp \in Nat /\ p.price.timestamp <= now + MaxAhead

\* A set of integers with an upper bound has its maximum.
LEMMA MaxExists ==
  ASSUME NEW S, S # {}, S \subseteq Int, NEW b \in Int, \A x \in S : x <= b
  PROVE  Max(S) \in S
<1> DEFINE T == {b - x : x \in S}
<1>1. T \subseteq Nat /\ T # {}
  <2>1. \A x \in S : b - x \in Nat
    OBVIOUS
  <2>2. PICK x \in S : TRUE
    OBVIOUS
  <2>3. b - x \in T
    OBVIOUS
  <2> QED
    BY <2>1, <2>3
<1>2. PICK n \in T : \A m \in T : ~(<<m, n>> \in OpToRel(<, Nat))
  <2> HIDE DEF T
  <2> QED
    BY <1>1, NatLessThanWellFounded, WFMin, Zenon
<1>3. PICK x \in S : n = b - x
  OBVIOUS
<1>4. \A y \in S : x >= y
  <2>1. TAKE y \in S
  <2>2. b - y \in T /\ b - y \in Nat /\ n \in Nat
    BY <1>1
  <2>3. ~(b - y < n)
    BY <1>2, <2>2 DEF OpToRel
  <2> QED
    BY <1>3, <2>2, <2>3
<1> QED
  BY <1>4 DEF Max

\* Pyth's price has the message's time.
LEMMA PythTimely ==
  ASSUME PricesTyped, NEW m \in PythMessages \cup {Unreadable},
         NEW p \in get_pyth_price_and_twap(m)
  PROVE  Timely(p)
<1>1. m # Unreadable /\ p = into_pyth_price_and_twap(m)
  BY DEF get_pyth_price_and_twap
<1>2. m.age \in Int /\ -MaxAhead <= m.age /\ m.age <= FirstNow
  BY <1>1, PricesAssumption
<1>3. p.price.timestamp = now - m.age
  BY <1>1 DEF into_pyth_price_and_twap, TimestampedPrice
<1> QED
  BY <1>2, <1>3, PricesAssumption DEF PricesTyped, Timely

\* Switchboard's is computed from the slots that passed.
LEMMA SwitchboardTimely ==
  ASSUME PricesTyped, NEW m \in SwitchboardMessages \cup {Unreadable}, NEW t,
         NEW p \in get_switchboard_price_and_twap(m, t)
  PROVE  Timely(p)
<1>1. m # Unreadable /\ p.price = get_switchboard_price(m.feed)
  BY DEF get_switchboard_price_and_twap
<1>2. m.feed.age \in Int /\ -MaxAhead <= m.feed.age
  BY <1>1, PricesAssumption
<1>3. p.price.timestamp = saturating_sub(now, m.feed.age)
  BY <1>1 DEF get_switchboard_price, TimestampedPrice
<1> QED
  BY <1>2, <1>3, PricesAssumption DEF PricesTyped, Timely, saturating_sub

\* The elements of a sequence.
LEMMA ElementTyped ==
  ASSUME NEW T, NEW s \in Seq(T)
  PROVE  \A i \in DOMAIN s : s[i] \in T
  OBVIOUS

\* Scope's is that of the oldest link of its chain.
LEMMA ScopeTimely ==
  ASSUME PricesTyped, NEW m \in ScopeMessages \cup {Unreadable}, NEW t,
         NEW p \in get_scope_price_and_twap(m, t)
  PROVE  Timely(p)
<1> DEFINE chain == m.price_chain
           ages == {chain[i].age : i \in DOMAIN chain}
<1>1. m # Unreadable /\ chain # <<>> /\ p.price = get_price_usd(chain)
  BY DEF get_scope_price_and_twap
<1>2. chain \in Seq([value : Nat, age : -MaxAhead .. FirstNow])
  BY <1>1, PricesAssumption
<1>3. \A i \in DOMAIN chain : chain[i].age \in -MaxAhead .. FirstNow
  <2> DEFINE Link == [value : Nat, age : -MaxAhead .. FirstNow]
  <2>1. \A i \in DOMAIN chain : chain[i] \in Link
    <3> HIDE DEF chain, Link
    <3> QED
      BY <1>2, ElementTyped DEF Link
  <2>2. \A l \in Link : l.age \in -MaxAhead .. FirstNow
    OBVIOUS
  <2> HIDE DEF chain, Link
  <2> QED
    BY <2>1, <2>2
<1>4. \A a \in ages : a \in Int /\ -MaxAhead <= a /\ a <= FirstNow
  <2> HIDE DEF chain
  <2> QED
    BY <1>3, PricesAssumption
<1>5. ages # {}
  <2>1. 1 \in DOMAIN chain
    <3> HIDE DEF chain
    <3> QED
      BY <1>1, <1>2
  <2> QED
    BY <2>1
<1>6. Max(ages) \in ages
  <2> HIDE DEF ages
  <2> QED
    BY <1>4, <1>5, MaxExists, PricesAssumption
<1>7. p.price.timestamp = now - Max(ages)
  <2> DEFINE product == FoldSet(LAMBDA i, q : chain[i].value * q, 1, DOMAIN chain)
  <2>1. get_price_usd(chain) = TimestampedPrice(TRUE, product, now - Max(ages))
    BY Zenon DEF get_price_usd
  <2> HIDE DEF product, ages, chain
  <2> QED
    BY <1>1, <2>1 DEF TimestampedPrice
<1> HIDE DEF ages
<1> QED
  BY <1>4, <1>6, <1>7, PricesAssumption DEF PricesTyped, Timely

\* The feeds that may be given: messages, or nothing.
LEMMA FeedsTyped ==
  ASSUME NEW r \in ReservesPriced, NEW feeds \in FeedsOf(r)
  PROVE  /\ feeds.pyth \in PythMessages \cup {Unreadable}
         /\ feeds.switchboard \in SwitchboardMessages \cup {Unreadable}
         /\ feeds.scope \in ScopeMessages \cup {Unreadable}
<1> DEFINE P == {Unreadable} \cup (IF token_info[r].pyth THEN PythMessages ELSE {})
           S == {Unreadable} \cup (IF token_info[r].switchboard THEN SwitchboardMessages ELSE {})
           C == {Unreadable} \cup (IF token_info[r].scope THEN ScopeMessages ELSE {})
<1>1. feeds \in [pyth : P, switchboard : S, scope : C]
  BY Zenon DEF FeedsOf
<1>2. feeds.pyth \in P /\ feeds.switchboard \in S /\ feeds.scope \in C
  <2> HIDE DEF P, S, C
  <2> QED
    BY <1>1
<1>3. /\ P \subseteq PythMessages \cup {Unreadable}
      /\ S \subseteq SwitchboardMessages \cup {Unreadable}
      /\ C \subseteq ScopeMessages \cup {Unreadable}
  BY Zenon
<1> HIDE DEF P, S, C
<1> QED
  BY <1>2, <1>3

AllTimely(S) == \A p \in S : Timely(p)

\* The most recent of several prices is one of them.
LEMMA RecentTimely ==
  ASSUME PricesTyped, NEW r \in ReservesPriced, NEW feeds \in FeedsOf(r), NEW t
  PROVE  AllTimely(get_most_recent_price_and_twap(t, feeds))
<1> DEFINE pyth == IF t.pyth THEN get_pyth_price_and_twap(feeds.pyth) ELSE {}
           switchboard == IF t.switchboard
                          THEN get_switchboard_price_and_twap(feeds.switchboard, t) ELSE {}
           scope == IF t.scope THEN get_scope_price_and_twap(feeds.scope, t) ELSE {}
<1>1. AllTimely(pyth)
  BY FeedsTyped, PythTimely DEF AllTimely
<1>2. AllTimely(switchboard)
  BY FeedsTyped, SwitchboardTimely DEF AllTimely
<1>3. AllTimely(scope)
  BY FeedsTyped, ScopeTimely DEF AllTimely
<1>4. ASSUME NEW A, NEW B, AllTimely(A), AllTimely(B)
      PROVE  AllTimely(reduce(A, B))
  BY <1>4 DEF AllTimely, reduce, more_recent
<1>5. get_most_recent_price_and_twap(t, feeds) = reduce(reduce(pyth, switchboard), scope)
  BY Zenon DEF get_most_recent_price_and_twap
<1> HIDE DEF pyth, switchboard, scope
<1>6. AllTimely(reduce(pyth, switchboard))
  BY <1>1, <1>2, <1>4
<1> QED
  BY <1>3, <1>4, <1>5, <1>6

-----------------------------------------------------------------------------
(* Refreshing a reserve                                                    *)

\* A new price, validated under the settings of r.
Validated(new, r) ==
    /\ new.timestamp \in Nat /\ new.timestamp <= now + MaxAhead
    /\ new.status \subseteq PriceStatusFlags
    /\ "PRICE_AGE_CHECKED" \in new.status
          => age_of(new.timestamp) <= token_info[r].max_age_price_seconds
    /\ "PRICE_USAGE_ALLOWED" \in new.status => token_info[r].block_price_usage # TRUE

AllValidated(S, r) == \A new \in S : Validated(new, r)

\* A check the price did not pass is not in its status.
LEMMA ValidatedPrice ==
  ASSUME NEW r \in ReservesPriced, NEW p, Timely(p),
         NEW new \in get_validated_price(p, token_info[r])
  PROVE  Validated(new, r)
<1> DEFINE t == token_info[r]
           checks == price_checks(p, t)
           status == {flag \in PriceStatusFlags : checks[flag]}
<1>1. new = [timestamp |-> p.price.timestamp, status |-> status]
  BY Zenon DEF get_validated_price
<1>2. /\ checks["PRICE_AGE_CHECKED"] = check_price_age(p.price.timestamp, t.max_age_price_seconds)
      /\ checks["PRICE_USAGE_ALLOWED"] = ~t.block_price_usage
  BY DEF price_checks
<1>3. status \subseteq PriceStatusFlags
  OBVIOUS
<1>4. "PRICE_AGE_CHECKED" \in status
         => age_of(p.price.timestamp) <= t.max_age_price_seconds
  <2> HIDE DEF checks
  <2> QED
    BY <1>2 DEF check_price_age
<1>5. "PRICE_USAGE_ALLOWED" \in status => t.block_price_usage # TRUE
  <2> HIDE DEF checks
  <2> QED
    BY <1>2
<1>6. new.timestamp = p.price.timestamp /\ new.status = status
  <2> HIDE DEF status
  <2> QED
    BY <1>1
<1> HIDE DEF status
<1> QED
  BY <1>3, <1>4, <1>5, <1>6 DEF Validated, Timely

\* Every price the oracles may yield.
LEMMA FoundValidated ==
  ASSUME PricesTyped, NEW r \in ReservesPriced, NEW feeds \in FeedsOf(r)
  PROVE  AllValidated(UNION {get_validated_price(p, token_info[r]) :
                             p \in get_most_recent_price_and_twap(token_info[r], feeds)}, r)
<1> DEFINE found == get_most_recent_price_and_twap(token_info[r], feeds)
<1>1. \A p \in found : Timely(p)
  BY RecentTimely DEF AllTimely
<1> HIDE DEF found
<1>2. \A p \in found : \A new \in get_validated_price(p, token_info[r]) : Validated(new, r)
  BY <1>1, ValidatedPrice
<1>3. AllValidated(UNION {get_validated_price(p, token_info[r]) : p \in found}, r)
  BY <1>2 DEF AllValidated
<1> QED
  BY <1>3 DEF found

\* A refresh yields a price that is in order: none in emergency, the new one,
\* or the old one without its checks if it is too old.
LEMMA RefreshedPriced ==
  ASSUME PricesInv, NEW r \in ReservesPriced, NEW result, AllValidated(result, r)
  PROVE  Priced(refresh_reserve(r, result), r)
<1> USE PricesAssumption
<1>1. Priced(saved[r], r) /\ IsTokenInfo(token_info[r])
  BY DEF PricesInv, SavedPriced, PricesTyped
<1>2. /\ now \in Nat /\ blocked_since[r] \in Nat
      /\ token_info[r].max_age_price_seconds \in Nat
      /\ token_info[r].emergency \in BOOLEAN /\ token_info[r].block_price_usage \in BOOLEAN
  BY <1>1 DEF PricesInv, PricesTyped, IsTokenInfo, TokenFlags, TokenNumbers
<1>3. CASE token_info[r].emergency
  <2>1. refresh_reserve(r, result) = [time |-> 0, status |-> {}, current |-> TRUE]
    BY <1>3 DEF refresh_reserve
  <2> QED
    BY <1>2, <2>1 DEF Priced, LIQUIDATION_CHECKS, PriceStatusFlags
<1>4. CASE ~token_info[r].emergency /\ result # {}
  <2> DEFINE new == CHOOSE new \in result : TRUE
             p == [time |-> new.timestamp, status |-> new.status, current |-> TRUE]
  <2>1. refresh_reserve(r, result) = p
    BY <1>4, Zenon DEF refresh_reserve
  <2>2. new \in result
    BY <1>4
  <2>3. Validated(new, r)
    BY <2>2 DEF AllValidated
  <2> HIDE DEF new
  <2>4. p.time = new.timestamp /\ p.status = new.status /\ p.current = TRUE
        /\ (new.timestamp \in Nat /\ new.status \subseteq PriceStatusFlags =>
              p \in [time : Nat, status : SUBSET PriceStatusFlags, current : BOOLEAN])
    OBVIOUS
  <2> HIDE DEF p
  <2>5. Priced(p, r)
    BY <1>2, <1>4, <2>3, <2>4 DEF Priced, Validated, LIQUIDATION_CHECKS
  <2> QED
    BY <2>1, <2>5
<1>5. CASE ~token_info[r].emergency /\ result = {}
  <2> DEFINE q == saved[r]
             kept == IF is_saved_price_age_valid(r) THEN q.status ELSE {}
             q1 == [q EXCEPT !.current = TRUE]
             q2 == [q1 EXCEPT !.status = kept]
  <2>1. refresh_reserve(r, result) = q2
    BY <1>5, Zenon DEF refresh_reserve
  <2>2. q \in [time : Nat, status : SUBSET PriceStatusFlags, current : BOOLEAN]
    BY <1>1 DEF Priced
  <2>3. /\ kept \subseteq q.status
        /\ kept # {} => age_of(q.time) < token_info[r].max_age_price_seconds
    BY DEF is_saved_price_age_valid
  <2>4. kept \subseteq PriceStatusFlags
    BY <2>2, <2>3
  <2> HIDE DEF kept
  <2>5. /\ q2 \in [time : Nat, status : SUBSET PriceStatusFlags, current : BOOLEAN]
        /\ q2.time = q.time /\ q2.status = kept /\ q2.current = TRUE
    <3> HIDE DEF q
    <3> QED
      BY <2>2, <2>4
  <2>6. age_of(q.time) \in Nat
    BY <1>2, <2>2 DEF age_of, saturating_sub
  <2>7. /\ q.time <= now + MaxAhead
        /\ (token_info[r].block_price_usage = TRUE /\ "PRICE_USAGE_ALLOWED" \in q.status)
              => q.time <= blocked_since[r] + MaxAhead
    BY <1>1 DEF Priced
  <2> HIDE DEF q, q2
  <2>8. LIQUIDATION_CHECKS \subseteq kept => kept # {}
    BY DEF LIQUIDATION_CHECKS
  <2>9. Priced(q2, r)
    BY <1>2, <1>5, <2>3, <2>5, <2>6, <2>7, <2>8 DEF Priced
  <2> QED
    BY <2>1, <2>9
<1> QED
  BY <1>3, <1>4, <1>5

\* Without oracles no price is new.
LEMMA KeptPriced ==
  ASSUME PricesInv, NEW r \in ReservesPriced
  PROVE  Priced(refresh_reserve(r, {}), r)
  BY RefreshedPriced DEF AllValidated

\* Whatever the oracles publish.
LEMMA OutcomePriced ==
  ASSUME PricesInv, NEW r \in ReservesPriced, NEW outcome \in outcomes_of_refresh(r)
  PROVE  Priced(outcome, r)
<1>1. CASE wants_price(r)
  <2>1. PICK feeds \in FeedsOf(r) : outcome = refreshed_with(r, feeds)
    BY <1>1 DEF outcomes_of_refresh
  <2> DEFINE result == UNION {get_validated_price(p, token_info[r]) :
                              p \in get_most_recent_price_and_twap(token_info[r], feeds)}
  <2>2. outcome = refresh_reserve(r, result)
    BY <2>1, Zenon DEF refreshed_with
  <2>3. AllValidated(result, r)
    BY FoundValidated DEF PricesInv
  <2> HIDE DEF result
  <2> QED
    BY <2>2, <2>3, RefreshedPriced
<1>2. CASE ~wants_price(r)
  BY <1>2, KeptPriced DEF outcomes_of_refresh
<1> QED
  BY <1>1, <1>2

-----------------------------------------------------------------------------
(* The steps                                                               *)

\* A price that is left stale stays in order.
LEMMA StalePriced ==
  ASSUME NEW r \in ReservesPriced, NEW p, Priced(p, r)
  PROVE  Priced([p EXCEPT !.current = FALSE], r)
<1> DEFINE q == [p EXCEPT !.current = FALSE]
<1>1. p \in [time : Nat, status : SUBSET PriceStatusFlags, current : BOOLEAN]
  BY DEF Priced
<1>2. /\ q \in [time : Nat, status : SUBSET PriceStatusFlags, current : BOOLEAN]
      /\ q.time = p.time /\ q.status = p.status /\ q.current = FALSE
  BY <1>1
<1> HIDE DEF q
<1>3. Priced(q, r)
  BY <1>2 DEF Priced
<1> QED
  BY <1>3 DEF q

\* A step that changes saved prices alone keeps the rest.
LEMMA SavedAlone ==
  ASSUME PricesInv, UNCHANGED <<now, trigger, token_info, position, blocked_since, counted>>,
         DOMAIN saved' = ReservesPriced, \A r \in ReservesPriced : Priced(saved'[r], r)
  PROVE  PricesInv'
<1>1. PricesTyped'
  BY DEF PricesInv, PricesTyped
<1>2. CountedTrue'
  BY DEF PricesInv, CountedTrue, reserves_of_position
<1>3. SavedPriced'
  <2> SUFFICES ASSUME NEW r \in ReservesPriced PROVE Priced(saved[r], r)'
    BY DEF SavedPriced
  <2>1. Priced(saved'[r], r)
    OBVIOUS
  <2> QED
    BY <2>1 DEF Priced, age_of
<1> QED
  BY <1>1, <1>2, <1>3 DEF PricesInv

\* The reserve's refresh, alone.
LEMMA RefreshReserveStep ==
  ASSUME PricesInv, NEW r \in ReservesPriced, RefreshReserve(r)
  PROVE  PricesInv'
<1>1. PICK outcome \in outcomes_of_refresh(r) : saved' = [saved EXCEPT ![r] = outcome]
  BY DEF RefreshReserve
<1>2. Priced(outcome, r)
  BY OutcomePriced
<1>3. DOMAIN saved' = ReservesPriced /\ \A t \in ReservesPriced : Priced(saved'[t], t)
  BY <1>1, <1>2 DEF PricesInv, PricesTyped, SavedPriced
<1> QED
  BY <1>3, SavedAlone DEF RefreshReserve

\* Several reserves at once.
LEMMA BatchStep ==
  ASSUME PricesInv, NEW skip \in BOOLEAN, RefreshReservesBatch(skip)
  PROVE  PricesInv'
<1>1. CASE saved' = [r \in ReservesPriced |-> refresh_reserve(r, {})]
  <2>1. DOMAIN saved' = ReservesPriced /\ \A t \in ReservesPriced : Priced(saved'[t], t)
    BY <1>1, KeptPriced
  <2> QED
    BY <2>1, SavedAlone DEF RefreshReservesBatch
<1>2. CASE \E c \in outcomes_of_refresh(Collateral), d \in outcomes_of_refresh(Debt) :
              saved' = [r \in ReservesPriced |-> IF r = Collateral THEN c ELSE d]
  <2>1. PICK c \in outcomes_of_refresh(Collateral), d \in outcomes_of_refresh(Debt) :
              saved' = [r \in ReservesPriced |-> IF r = Collateral THEN c ELSE d]
    BY <1>2
  <2>2. Priced(c, Collateral) /\ Priced(d, Debt)
    BY OutcomePriced DEF ReservesPriced
  <2>3. DOMAIN saved' = ReservesPriced /\ \A t \in ReservesPriced : Priced(saved'[t], t)
    BY <2>1, <2>2 DEF ReservesPriced
  <2> QED
    BY <2>3, SavedAlone DEF RefreshReservesBatch
<1> QED
  BY <1>1, <1>2, Zenon DEF RefreshReservesBatch

\* Another operation of the reserve.
LEMMA OperateStep ==
  ASSUME PricesInv, NEW r \in ReservesPriced, OperateOnReserve(r)
  PROVE  PricesInv'
<1> DEFINE p == [refresh_reserve(r, {}) EXCEPT !.current = FALSE]
<1>1. saved' = [saved EXCEPT ![r] = p]
  BY Zenon DEF OperateOnReserve
<1>2. Priced(p, r)
  BY KeptPriced, StalePriced
<1> HIDE DEF p
<1>3. DOMAIN saved' = ReservesPriced /\ \A t \in ReservesPriced : Priced(saved'[t], t)
  BY <1>1, <1>2 DEF PricesInv, PricesTyped, SavedPriced
<1> QED
  BY <1>3, SavedAlone DEF OperateOnReserve

\* An obligation counts only prices of this slot; those that passed the checks
\* of a liquidation are young enough.
LEMMA RefreshObligationStep ==
  ASSUME PricesInv, RefreshObligation
  PROVE  PricesInv'
<1> DEFINE R == reserves_of_position
           p1 == [position EXCEPT !.current = TRUE]
           p2 == [p1 EXCEPT !.status = prices_state(R)]
<1>1. /\ position' = p2
      /\ counted' = [r \in R |-> age_of(saved[r].time) <= token_info[r].max_age_price_seconds]
      /\ \A r \in R : ~is_stale(saved[r], NONE)
      /\ UNCHANGED <<now, trigger, token_info, saved, blocked_since>>
  BY Zenon DEF RefreshObligation
<1>2. position \in [status : SUBSET PriceStatusFlags, current : BOOLEAN, has_debt : BOOLEAN]
  BY DEF PricesInv, PricesTyped
<1>3. prices_state(R) \subseteq PriceStatusFlags
      /\ \A flag \in prices_state(R) : \A r \in R : flag \in saved[r].status
  BY DEF prices_state
<1>4. /\ p2 \in [status : SUBSET PriceStatusFlags, current : BOOLEAN, has_debt : BOOLEAN]
      /\ p2.status = prices_state(R) /\ p2.has_debt = position.has_debt
  <2> DEFINE s == prices_state(R)
  <2> HIDE DEF s
  <2>1. /\ [p1 EXCEPT !.status = s] \in [status : SUBSET PriceStatusFlags, current : BOOLEAN,
                                         has_debt : BOOLEAN]
        /\ [p1 EXCEPT !.status = s].status = s
        /\ [p1 EXCEPT !.status = s].has_debt = position.has_debt
    BY <1>2, <1>3 DEF s
  <2> QED
    BY <2>1 DEF s
<1>5. R \subseteq ReservesPriced
  BY DEF reserves_of_position, ReservesPriced
<1>6. PricesTyped'
  BY <1>1, <1>4 DEF PricesInv, PricesTyped
<1>7. SavedPriced'
  BY <1>1 DEF PricesInv, SavedPriced, Priced, age_of
<1>8. reserves_of_position' = R
  BY <1>1, <1>4 DEF reserves_of_position
<1>9. LIQUIDATION_CHECKS \subseteq p2.status => \A r \in R : counted'[r] = TRUE
  <2> SUFFICES ASSUME LIQUIDATION_CHECKS \subseteq p2.status, NEW r \in R
               PROVE  counted'[r] = TRUE
    OBVIOUS
  <2>1. LIQUIDATION_CHECKS \subseteq saved[r].status
    BY <1>3, <1>4
  <2>2. Priced(saved[r], r)
    BY <1>5 DEF PricesInv, SavedPriced
  <2>3. saved[r].current = TRUE
    BY <1>1, <2>2 DEF is_stale, Priced
  <2>4. age_of(saved[r].time) <= token_info[r].max_age_price_seconds
    BY <2>1, <2>2, <2>3 DEF Priced
  <2> QED
    BY <1>1, <2>4
<1>10. CountedTrue'
  <2>1. DOMAIN counted' = R
    BY <1>1
  <2> HIDE DEF R, p2
  <2> QED
    BY <1>1, <1>8, <1>9, <2>1 DEF CountedTrue
<1> QED
  BY <1>6, <1>7, <1>10 DEF PricesInv

\* An obligation that is left stale passes for nothing.
LEMMA LeaveStaleStep ==
  ASSUME PricesInv, NEW R, NEW has_debt \in BOOLEAN, LeaveStale(R, has_debt)
  PROVE  PricesInv'
<1>1. position \in [status : SUBSET PriceStatusFlags, current : BOOLEAN, has_debt : BOOLEAN]
  BY DEF PricesInv, PricesTyped
<1>2. /\ position' \in [status : SUBSET PriceStatusFlags, current : BOOLEAN, has_debt : BOOLEAN]
      /\ position'.current = FALSE
  BY <1>1 DEF LeaveStale
<1>3. \A r \in ReservesPriced : Priced(saved'[r], r)
  <2> TAKE r \in ReservesPriced
  <2>1. Priced(saved[r], r)
    BY DEF PricesInv, SavedPriced
  <2>2. Priced([saved[r] EXCEPT !.current = FALSE], r)
    BY <2>1, StalePriced
  <2>3. saved'[r] \in {saved[r], [saved[r] EXCEPT !.current = FALSE]}
    BY DEF LeaveStale
  <2> QED
    BY <2>1, <2>2, <2>3
<1>4. PricesTyped'
  BY <1>2 DEF LeaveStale, PricesInv, PricesTyped
<1>5. SavedPriced'
  <2> SUFFICES ASSUME NEW r \in ReservesPriced PROVE Priced(saved[r], r)'
    BY DEF SavedPriced
  <2>1. Priced(saved'[r], r)
    BY <1>3
  <2> QED
    BY <2>1 DEF Priced, age_of, LeaveStale
<1>6. CountedTrue'
  BY <1>2 DEF CountedTrue
<1> QED
  BY <1>4, <1>5, <1>6 DEF PricesInv

\* A new slot makes every price stale.
LEMMA NewSlotStep ==
  ASSUME PricesInv, NEW seconds \in {0, 1}, NewSlot(seconds)
  PROVE  PricesInv'
<1>1. position \in [status : SUBSET PriceStatusFlags, current : BOOLEAN, has_debt : BOOLEAN]
  BY DEF PricesInv, PricesTyped
<1>2. /\ position' \in [status : SUBSET PriceStatusFlags, current : BOOLEAN, has_debt : BOOLEAN]
      /\ position'.current = FALSE
  BY <1>1 DEF NewSlot
<1>3. now \in Nat /\ now' \in Nat /\ now' >= now
  BY DEF NewSlot, PricesInv, PricesTyped
<1>4. PricesTyped'
  <2>1. now >= FirstNow /\ now' >= FirstNow
    BY <1>3, PricesAssumption DEF PricesInv, PricesTyped
  <2>2. UNCHANGED <<token_info, blocked_since>> /\ DOMAIN saved' = ReservesPriced
    BY DEF NewSlot
  <2> QED
    BY <1>2, <1>3, <2>1, <2>2 DEF PricesInv, PricesTyped
<1>5. SavedPriced'
  <2> SUFFICES ASSUME NEW r \in ReservesPriced PROVE Priced(saved[r], r)'
    BY DEF SavedPriced
  <2>1. Priced(saved[r], r)
    BY DEF PricesInv, SavedPriced
  <2>2. Priced([saved[r] EXCEPT !.current = FALSE], r)
    BY <2>1, StalePriced
  <2>3. saved'[r] = [saved[r] EXCEPT !.current = FALSE]
    BY DEF NewSlot
  <2>4. saved'[r].current = FALSE
    BY <2>1, <2>3 DEF Priced
  <2>5. Priced(saved'[r], r)
    BY <2>2, <2>3
  <2> QED
    BY <1>3, <2>4, <2>5, PricesAssumption DEF Priced, NewSlot
<1>6. CountedTrue'
  BY <1>2 DEF CountedTrue
<1> QED
  BY <1>4, <1>5, <1>6 DEF PricesInv

\* A setting keeps its type.
LEMMA UpdatedTyped ==
  ASSUME NEW r \in ReservesPriced, NEW mode \in DOMAIN TokenValues[r],
         NEW value \in TokenValues[r][mode], NEW t, IsTokenInfo(t)
  PROVE  /\ IsTokenInfo([t EXCEPT ![mode] = value])
         /\ mode = "block_price_usage" => value \in BOOLEAN
         /\ mode # "block_price_usage" =>
               [t EXCEPT ![mode] = value].block_price_usage = t.block_price_usage
         /\ mode = "block_price_usage" =>
               [t EXCEPT ![mode] = value].block_price_usage = value
<1> DEFINE u == [t EXCEPT ![mode] = value]
<1>1. /\ mode \in TokenFlags \cup TokenNumbers
      /\ mode \in TokenFlags => value \in BOOLEAN
      /\ mode \in TokenNumbers => value \in Nat
  BY PricesAssumption
<1>2. DOMAIN u = DOMAIN t /\ \A f \in DOMAIN t : u[f] = IF f = mode THEN value ELSE t[f]
  OBVIOUS
<1> HIDE DEF u
<1>3. IsTokenInfo(u)
  BY <1>1, <1>2 DEF IsTokenInfo
<1>4. "block_price_usage" \in DOMAIN t /\ "block_price_usage" \in TokenFlags
  BY DEF IsTokenInfo, TokenFlags
<1>5. u.block_price_usage = IF mode = "block_price_usage" THEN value ELSE t.block_price_usage
  BY <1>2, <1>4
<1> QED
  BY <1>1, <1>3, <1>4, <1>5 DEF u

\* A setting changes a reserve that is left stale.  When its price is blocked,
\* the saved one is from before.
LEMMA UpdateTokenInfoStep ==
  ASSUME PricesInv, NEW r \in ReservesPriced, NEW mode \in DOMAIN TokenValues[r],
         NEW value \in TokenValues[r][mode], UpdateTokenInfo(r, mode, value)
  PROVE  PricesInv'
<1> USE PricesAssumption
<1> DEFINE old == token_info[r]
           new == [old EXCEPT ![mode] = value]
           p == [refresh_reserve(r, {}) EXCEPT !.current = FALSE]
           b == IF mode = "block_price_usage"
                THEN [blocked_since EXCEPT ![r] = IF value THEN now ELSE 0]
                ELSE blocked_since
<1>1. /\ token_info' = [token_info EXCEPT ![r] = new]
      /\ saved' = [saved EXCEPT ![r] = p]
      /\ blocked_since' = b
      /\ UNCHANGED <<now, trigger, position, counted>>
  BY Zenon DEF UpdateTokenInfo
<1>2. /\ PricesTyped /\ SavedPriced /\ IsTokenInfo(old)
      /\ now \in Nat /\ blocked_since \in [ReservesPriced -> Nat]
  BY DEF PricesInv, PricesTyped
<1>3. /\ IsTokenInfo(new)
      /\ mode = "block_price_usage" => value \in BOOLEAN
      /\ mode # "block_price_usage" => new.block_price_usage = old.block_price_usage
      /\ mode = "block_price_usage" => new.block_price_usage = value
  BY <1>2, UpdatedTyped
<1>4. Priced(refresh_reserve(r, {}), r)
  BY KeptPriced
<1>5. Priced(p, r)
  BY <1>4, StalePriced
<1>6. p.current = FALSE
  BY <1>4 DEF Priced
<1>7. /\ b \in [ReservesPriced -> Nat]
      /\ \A t \in ReservesPriced : t # r => b[t] = blocked_since[t]
      /\ mode = "block_price_usage" /\ value = TRUE => b[r] = now
      /\ mode # "block_price_usage" => b[r] = blocked_since[r]
  BY <1>2
<1> HIDE DEF old, new, p, b
<1>8. /\ DOMAIN token_info' = ReservesPriced /\ token_info'[r] = new
      /\ \A t \in ReservesPriced : t # r => token_info'[t] = token_info[t]
      /\ DOMAIN saved' = ReservesPriced /\ saved'[r] = p
      /\ \A t \in ReservesPriced : t # r => saved'[t] = saved[t]
  BY <1>1, <1>2 DEF PricesTyped
<1>9. PricesTyped'
  BY <1>1, <1>2, <1>3, <1>7, <1>8 DEF PricesTyped
<1>10. ASSUME NEW t \in ReservesPriced, t # r PROVE Priced(saved[t], t)'
  <2>1. Priced(saved[t], t)
    BY <1>2 DEF SavedPriced
  <2>2. /\ saved'[t] = saved[t] /\ token_info'[t] = token_info[t] /\ now' = now
        /\ blocked_since'[t] = blocked_since[t]
    BY <1>1, <1>7, <1>8, <1>10
  <2> QED
    BY <2>1, <2>2 DEF Priced, age_of
<1>11. Priced(saved[r], r)'
  <2>1. /\ p \in [time : Nat, status : SUBSET PriceStatusFlags, current : BOOLEAN]
        /\ p.time <= now + MaxAhead
        /\ old.block_price_usage = TRUE /\ "PRICE_USAGE_ALLOWED" \in p.status
              => p.time <= blocked_since[r] + MaxAhead
    BY <1>5 DEF Priced, old
  <2>2. new.block_price_usage = TRUE /\ "PRICE_USAGE_ALLOWED" \in p.status
              => p.time <= b[r] + MaxAhead
    BY <1>3, <1>7, <2>1
  <2> QED
    BY <1>1, <1>6, <1>8, <2>1, <2>2 DEF Priced
<1>12. SavedPriced'
  BY <1>10, <1>11 DEF SavedPriced
<1>13. CountedTrue'
  BY <1>1 DEF PricesInv, CountedTrue, reserves_of_position
<1> QED
  BY <1>9, <1>12, <1>13 DEF PricesInv

\* At the start nothing is current.
LEMMA PricesInit == InitPrices => PricesInv
<1> SUFFICES ASSUME InitPrices PROVE PricesInv
  OBVIOUS
<1> USE PricesAssumption
<1>1. PricesTyped
  BY DEF InitPrices, PricesTyped
<1>2. SavedPriced
  BY DEF InitPrices, SavedPriced, Priced
<1>3. CountedTrue
  BY DEF InitPrices, CountedTrue
<1> QED
  BY <1>1, <1>2, <1>3 DEF PricesInv

\* Every step keeps the prices in order.
LEMMA PricesStep ==
  ASSUME PricesInv, [NextPrices]_pricesVars
  PROVE  PricesInv'
<1>1. CASE UNCHANGED pricesVars
  BY <1>1 DEF pricesVars, PricesInv, PricesTyped, SavedPriced, Priced, CountedTrue, age_of,
              reserves_of_position
<1>2. ASSUME NEW r \in ReservesPriced,
             \/ RefreshReserve(r) \/ OperateOnReserve(r)
             \/ \E mode \in DOMAIN TokenValues[r] : \E value \in TokenValues[r][mode] :
                   UpdateTokenInfo(r, mode, value)
      PROVE  PricesInv'
  BY <1>2, RefreshReserveStep, OperateStep, UpdateTokenInfoStep
<1>3. ASSUME NEW skip \in BOOLEAN, RefreshReservesBatch(skip) PROVE PricesInv'
  BY <1>3, BatchStep
<1>4. CASE RefreshObligation
  BY <1>4, RefreshObligationStep
<1>5. ASSUME NEW R, NEW has_debt \in BOOLEAN, LeaveStale(R, has_debt) PROVE PricesInv'
  BY <1>5, LeaveStaleStep
<1>6. position.has_debt \in BOOLEAN
  BY DEF PricesInv, PricesTyped
<1>7. CASE BorrowAtPrices \/ WithdrawAtPrices
  BY <1>5, <1>6, <1>7 DEF BorrowAtPrices, WithdrawAtPrices
<1>8. ASSUME NEW wholly \in BOOLEAN, RepayAtPrices(wholly) \/ LiquidateAtPrices(wholly)
      PROVE  PricesInv'
  <2>1. (~wholly) \in BOOLEAN
    OBVIOUS
  <2> QED
    BY <1>5, <1>8, <2>1 DEF RepayAtPrices, LiquidateAtPrices
<1>9. ASSUME NEW seconds \in {0, 1}, NewSlot(seconds) PROVE PricesInv'
  BY <1>9, NewSlotStep
<1> QED
  BY <1>1, <1>2, <1>3, <1>4, <1>7, <1>8, <1>9, Zenon DEF NextPrices

\* What is in order is young.
LEMMA PricedYoung ==
  ASSUME PricesInv
  PROVE  PricesYoung
<1> USE PricesAssumption
<1>1. ASSUME NEW r \in ReservesPriced
      PROVE  /\ Priced(saved[r], r) /\ now \in Nat /\ blocked_since[r] \in Nat
             /\ saved[r].time \in Nat /\ saved[r].status \subseteq PriceStatusFlags
             /\ saved[r].current \in BOOLEAN /\ token_info[r].emergency \in BOOLEAN
             /\ token_info[r].block_price_usage \in BOOLEAN
             /\ token_info[r].max_age_price_seconds \in Nat
  <2>1. Priced(saved[r], r) /\ IsTokenInfo(token_info[r])
    BY DEF PricesInv, SavedPriced, PricesTyped
  <2>2. /\ saved[r].time \in Nat /\ saved[r].status \subseteq PriceStatusFlags
        /\ saved[r].current \in BOOLEAN
    BY <2>1 DEF Priced
  <2>3. now \in Nat /\ blocked_since[r] \in Nat
    BY DEF PricesInv, PricesTyped
  <2> QED
    BY <2>1, <2>2, <2>3 DEF IsTokenInfo, TokenFlags, TokenNumbers
<1>2. position.status \subseteq PriceStatusFlags /\ position.current \in BOOLEAN
  BY DEF PricesInv, PricesTyped
<1>3. PricesTypeOK
  <2>1. now \in Nat
    BY DEF PricesInv, PricesTyped
  <2> QED
    BY <1>1, <1>2, <2>1 DEF PricesTypeOK
<1>4. UsablePriceYoung
  BY <1>1 DEF UsablePriceYoung, is_stale, Priced
<1>5. CountedPricesYoung
  BY <1>2 DEF PricesInv, CountedTrue, CountedPricesYoung, is_stale
<1>6. BlockedPriceExpires
  <2> SUFFICES ASSUME NEW r \in ReservesPriced, token_info[r].block_price_usage,
                      ~is_stale(saved[r], LIQUIDATION_CHECKS)
               PROVE  now - blocked_since[r] <= token_info[r].max_age_price_seconds + MaxAhead
    BY DEF BlockedPriceExpires
  <2>1. saved[r].current = TRUE /\ LIQUIDATION_CHECKS \subseteq saved[r].status
    BY <1>1 DEF is_stale
  <2>2. "PRICE_USAGE_ALLOWED" \in saved[r].status
    BY <2>1 DEF LIQUIDATION_CHECKS
  <2>3. token_info[r].block_price_usage = TRUE
    BY <1>1
  <2>4. saved[r].time <= blocked_since[r] + MaxAhead
    BY <1>1, <2>2, <2>3 DEF Priced
  <2>5. age_of(saved[r].time) <= token_info[r].max_age_price_seconds
    BY <1>1, <2>1 DEF Priced
  <2> QED
    BY <1>1, <2>4, <2>5 DEF age_of, saturating_sub
<1> QED
  BY <1>3, <1>4, <1>5, <1>6 DEF PricesYoung

\* No borrow and no liquidation is valued by an old price (get_price,
\* refresh_reserve, check_not_stale), whatever the oracles publish and however
\* the settings of the price are changed.
THEOREM PricesAreYoung == SpecPrices => []PricesYoung
<1>1. SpecPrices => []PricesInv
  BY PricesInit, PricesStep, PTL DEF SpecPrices
<1>2. PricesInv => PricesYoung
  BY PricedYoung
<1> QED
  BY <1>1, <1>2, PTL

-----------------------------------------------------------------------------
(***************************************************************************)
(* Access: SwitchesObeyed is proved instruction by instruction: whatever   *)
(* the switches are, each by itself respects all of them.  Guarded is what *)
(* one step owes to every reserve, and each instruction is shown to be     *)
(* guarded from its own checks and its own effect on the ledger.           *)
(***************************************************************************)

Unit(t, q, r, place) == IF t = r /\ q = place THEN 1 ELSE 0
Ledgers == [Reserve -> [Place -> Int]]

\* What a step owes to every reserve: the body of SwitchesObeyed.
Guarded ==
  \A r \in Reserve :
     /\ EmergencyStep(r) /\ ObsoleteStep(r) /\ PermittedStep(r) /\ CTokenStep(r)
     /\ BorrowStep(r) /\ TicketStep(r)

-----------------------------------------------------------------------------
(* The ledger                                                              *)

\* A unit put somewhere is in that place and changes no other.
LEMMA PlusOne ==
  ASSUME NEW l \in Ledgers, NEW r \in Reserve, NEW place \in Place
  PROVE  /\ plus(l, r, place) \in Ledgers
         /\ \A t \in Reserve, q \in Place :
               plus(l, r, place)[t][q] = l[t][q] + Unit(t, q, r, place)
  BY DEF plus, Ledgers, Unit

\* A unit taken from somewhere is missing there and nowhere else.
LEMMA MinusOne ==
  ASSUME NEW l \in Ledgers, NEW r \in Reserve, NEW place \in Place
  PROVE  /\ minus(l, r, place) \in Ledgers
         /\ \A t \in Reserve, q \in Place :
               minus(l, r, place)[t][q] = l[t][q] - Unit(t, q, r, place)
  BY DEF minus, Ledgers, Unit

\* A unit taken from one place and put in another.
LEMMA MinusPlus ==
  ASSUME NEW l \in Ledgers, NEW r \in Reserve, NEW place \in Place,
         NEW s \in Reserve, NEW other \in Place
  PROVE  /\ plus(minus(l, r, place), s, other) \in Ledgers
         /\ \A t \in Reserve, q \in Place :
               plus(minus(l, r, place), s, other)[t][q]
                 = l[t][q] - Unit(t, q, r, place) + Unit(t, q, s, other)
<1>1. /\ minus(l, r, place) \in Ledgers
      /\ \A t \in Reserve, q \in Place :
            minus(l, r, place)[t][q] = l[t][q] - Unit(t, q, r, place)
  BY MinusOne
<1> DEFINE m == minus(l, r, place)
<1> HIDE DEF m
<1>2. m \in Ledgers
  BY <1>1 DEF m
<1>3. /\ plus(m, s, other) \in Ledgers
      /\ \A t \in Reserve, q \in Place : plus(m, s, other)[t][q] = m[t][q] + Unit(t, q, s, other)
  BY <1>2, PlusOne
<1> QED
  BY <1>1, <1>3 DEF m, Ledgers, Unit

\* Units taken from two places.
LEMMA MinusMinus ==
  ASSUME NEW l \in Ledgers, NEW r \in Reserve, NEW place \in Place,
         NEW s \in Reserve, NEW other \in Place
  PROVE  /\ minus(minus(l, r, place), s, other) \in Ledgers
         /\ \A t \in Reserve, q \in Place :
               minus(minus(l, r, place), s, other)[t][q]
                 = l[t][q] - Unit(t, q, r, place) - Unit(t, q, s, other)
<1>1. /\ minus(l, r, place) \in Ledgers
      /\ \A t \in Reserve, q \in Place :
            minus(l, r, place)[t][q] = l[t][q] - Unit(t, q, r, place)
  BY MinusOne
<1> DEFINE m == minus(l, r, place)
<1> HIDE DEF m
<1>2. m \in Ledgers
  BY <1>1 DEF m
<1>3. /\ minus(m, s, other) \in Ledgers
      /\ \A t \in Reserve, q \in Place : minus(m, s, other)[t][q] = m[t][q] - Unit(t, q, s, other)
  BY <1>2, MinusOne
<1> QED
  BY <1>1, <1>3 DEF m, Ledgers, Unit

\* A unit put in one place and another taken from one.
LEMMA PlusMinus ==
  ASSUME NEW l \in Ledgers, NEW r \in Reserve, NEW place \in Place,
         NEW s \in Reserve, NEW other \in Place
  PROVE  /\ minus(plus(l, r, place), s, other) \in Ledgers
         /\ \A t \in Reserve, q \in Place :
               minus(plus(l, r, place), s, other)[t][q]
                 = l[t][q] + Unit(t, q, r, place) - Unit(t, q, s, other)
<1>1. /\ plus(l, r, place) \in Ledgers
      /\ \A t \in Reserve, q \in Place :
            plus(l, r, place)[t][q] = l[t][q] + Unit(t, q, r, place)
  BY PlusOne
<1> DEFINE m == plus(l, r, place)
<1> HIDE DEF m
<1>2. m \in Ledgers
  BY <1>1 DEF m
<1>3. /\ minus(m, s, other) \in Ledgers
      /\ \A t \in Reserve, q \in Place : minus(m, s, other)[t][q] = m[t][q] - Unit(t, q, s, other)
  BY <1>2, MinusOne
<1> QED
  BY <1>1, <1>3 DEF m, Ledgers, Unit

\* A step that leaves the ledger alone is guarded, whatever it does to the switches.
LEMMA LedgerUnchanged ==
  ASSUME AccessTypeOK, UNCHANGED ledger
  PROVE  Guarded
  BY DEF AccessTypeOK, Guarded, EmergencyStep, ObsoleteStep, PermittedStep, CTokenStep,
         BorrowStep, TicketStep, Supply, Place

-----------------------------------------------------------------------------
(* Each instruction is guarded                                             *)

\* Deposits and borrows: each looks at the status, the emergency mode and the
\* permissions of its reserve.
LEMMA GrowingGuarded ==
  ASSUME AccessTypeOK, NEW r \in Reserve, NEW permissioner \in BOOLEAN,
         \/ deposit_reserve_liquidity(r, permissioner)
         \/ deposit_obligation_collateral(r, permissioner)
         \/ deposit_reserve_liquidity_and_obligation_collateral(r, permissioner)
         \/ borrow_obligation_liquidity(r, permissioner)
  PROVE  Guarded /\ ledger' \in [Reserve -> [Place -> Nat]]
<1>a. ledger \in Ledgers /\ ledger \in [Reserve -> [Place -> Nat]]
  BY DEF AccessTypeOK, Ledgers
<1>b. "wallet" \in Place /\ "collateral" \in Place /\ "queued" \in Place /\ "debt" \in Place
  BY DEF Place
<1>1. CASE deposit_reserve_liquidity(r, permissioner)
  <2>1. ledger' = plus(ledger, r, "wallet")
    BY <1>1 DEF deposit_reserve_liquidity, Leaves
  <2>2. /\ ledger' \in Ledgers
        /\ \A t \in Reserve, q \in Place :
              ledger'[t][q] = ledger[t][q] + Unit(t, q, r, "wallet")
    BY <1>a, <1>b, <2>1, PlusOne
  <2>3. /\ ~market_switches.emergency_mode
        /\ ~reserve_switches[r].emergency_mode
        /\ reserve_switches[r].status # "Obsolete"
        /\ ~reserve_switches[r].block_ctoken_usage
        /\ Permitted(r, "DEPOSIT")
    BY <1>1 DEF deposit_reserve_liquidity, Leaves, emergency_mode_disabled,
                deposit_reserve_liquidity_checks, check_reserve_status_and_version,
                check_reserve_emergency_mode, check_permissions, requires_permission, Permitted
  <2> QED
    BY <1>a, <2>2, <2>3 DEF Guarded, EmergencyStep, ObsoleteStep, PermittedStep, CTokenStep,
                               BorrowStep, TicketStep, Supply, Place, Ledgers, Unit
<1>2. CASE deposit_obligation_collateral(r, permissioner)
  <2>1. ledger' = plus(minus(ledger, r, "wallet"), r, "collateral")
    BY <1>2 DEF deposit_obligation_collateral, Leaves
  <2>2. /\ ledger' \in Ledgers
        /\ \A t \in Reserve, q \in Place :
              ledger'[t][q] = ledger[t][q] - Unit(t, q, r, "wallet") + Unit(t, q, r, "collateral")
    <3>1. /\ plus(minus(ledger, r, "wallet"), r, "collateral") \in Ledgers
          /\ \A t \in Reserve, q \in Place :
                plus(minus(ledger, r, "wallet"), r, "collateral")[t][q]
                  = ledger[t][q] - Unit(t, q, r, "wallet") + Unit(t, q, r, "collateral")
      BY <1>a, <1>b, MinusPlus
    <3> QED
      BY <2>1, <3>1
  <2>3. /\ ~market_switches.emergency_mode
        /\ ~reserve_switches[r].emergency_mode
        /\ reserve_switches[r].status # "Obsolete"
        /\ ledger[r]["wallet"] > 0
        /\ Permitted(r, "DEPOSIT")
    BY <1>2 DEF deposit_obligation_collateral, Leaves, emergency_mode_disabled,
                deposit_obligation_collateral_checks, check_reserve_status_and_version,
                check_reserve_emergency_mode, check_permissions, requires_permission, Permitted,
                holds
  <2> QED
    BY <1>a, <2>2, <2>3 DEF Guarded, EmergencyStep, ObsoleteStep, PermittedStep, CTokenStep,
                               BorrowStep, TicketStep, Supply, Place, Ledgers, Unit
<1>3. CASE deposit_reserve_liquidity_and_obligation_collateral(r, permissioner)
  <2>1. ledger' = plus(ledger, r, "collateral")
    BY <1>3 DEF deposit_reserve_liquidity_and_obligation_collateral, Leaves
  <2>2. /\ ledger' \in Ledgers
        /\ \A t \in Reserve, q \in Place :
              ledger'[t][q] = ledger[t][q] + Unit(t, q, r, "collateral")
    BY <1>a, <1>b, <2>1, PlusOne
  <2>3. /\ ~market_switches.emergency_mode
        /\ ~reserve_switches[r].emergency_mode
        /\ reserve_switches[r].status # "Obsolete"
        /\ Permitted(r, "DEPOSIT")
    BY <1>3 DEF deposit_reserve_liquidity_and_obligation_collateral, Leaves,
                emergency_mode_disabled,
                deposit_reserve_liquidity_and_obligation_collateral_checks,
                check_reserve_status_and_version, check_reserve_emergency_mode,
                check_permissions, requires_permission, Permitted
  <2> QED
    BY <1>a, <2>2, <2>3 DEF Guarded, EmergencyStep, ObsoleteStep, PermittedStep, CTokenStep,
                               BorrowStep, TicketStep, Supply, Place, Ledgers, Unit
<1>4. CASE borrow_obligation_liquidity(r, permissioner)
  <2>1. ledger' = plus(ledger, r, "debt")
    BY <1>4 DEF borrow_obligation_liquidity, Leaves
  <2>2. /\ ledger' \in Ledgers
        /\ \A t \in Reserve, q \in Place :
              ledger'[t][q] = ledger[t][q] + Unit(t, q, r, "debt")
    BY <1>a, <1>b, <2>1, PlusOne
  <2>3. /\ ~market_switches.emergency_mode
        /\ ~reserve_switches[r].emergency_mode
        /\ reserve_switches[r].status # "Obsolete"
        /\ ~market_switches.borrow_disabled
        /\ Permitted(r, "BORROW")
    BY <1>4 DEF borrow_obligation_liquidity, Leaves, emergency_mode_disabled,
                is_borrowing_disabled,
                borrow_obligation_liquidity_checks, check_reserve_status_and_version,
                check_reserve_emergency_mode, check_permissions, requires_permission, Permitted
  <2> QED
    BY <1>a, <2>2, <2>3 DEF Guarded, EmergencyStep, ObsoleteStep, PermittedStep, CTokenStep,
                               BorrowStep, TicketStep, Supply, Place, Ledgers, Unit
<1> QED
  BY <1>1, <1>2, <1>3, <1>4

\* The other instructions on one reserve: all but the write-off look at its
\* emergency mode, and those that put cTokens in a wallet take them from the
\* queue or look whether cTokens are blocked.
LEMMA SingleGuarded ==
  ASSUME AccessTypeOK, NEW r \in Reserve,
         \/ redeem_reserve_collateral(r)
         \/ withdraw_obligation_collateral(r)
         \/ withdraw_obligation_collateral_and_redeem_reserve_collateral(r)
         \/ repay_obligation_liquidity(r)
         \/ enqueue_to_withdraw(r)
         \/ withdraw_queued_liquidity(r)
         \/ cancel_withdraw_ticket(r)
         \/ recover_invalid_ticket_collateral(r)
         \/ socialize_loss(r)
  PROVE  Guarded /\ ledger' \in [Reserve -> [Place -> Nat]]
<1>a. ledger \in Ledgers /\ ledger \in [Reserve -> [Place -> Nat]]
  BY DEF AccessTypeOK, Ledgers
<1>b. "wallet" \in Place /\ "collateral" \in Place /\ "queued" \in Place /\ "debt" \in Place
  BY DEF Place
<1>1. CASE redeem_reserve_collateral(r)
  <2>1. ledger' = minus(ledger, r, "wallet")
    BY <1>1 DEF redeem_reserve_collateral, Leaves
  <2>2. /\ ledger' \in Ledgers
        /\ \A t \in Reserve, q \in Place :
              ledger'[t][q] = ledger[t][q] - Unit(t, q, r, "wallet")
    BY <1>a, <1>b, <2>1, MinusOne
  <2>3. /\ ~market_switches.emergency_mode
        /\ ~reserve_switches[r].emergency_mode
        /\ ledger[r]["wallet"] > 0
    BY <1>1 DEF redeem_reserve_collateral, Leaves, emergency_mode_disabled,
                redeem_reserve_collateral_checks, check_reserve_emergency_mode, holds
  <2> QED
    BY <1>a, <2>2, <2>3 DEF Guarded, EmergencyStep, ObsoleteStep, PermittedStep, CTokenStep,
                               BorrowStep, TicketStep, Supply, Place, Ledgers, Unit
<1>2. CASE withdraw_obligation_collateral(r)
  <2>1. ledger' = plus(minus(ledger, r, "collateral"), r, "wallet")
    BY <1>2 DEF withdraw_obligation_collateral, Leaves
  <2>2. /\ ledger' \in Ledgers
        /\ \A t \in Reserve, q \in Place :
              ledger'[t][q] = ledger[t][q] - Unit(t, q, r, "collateral") + Unit(t, q, r, "wallet")
    <3>1. /\ plus(minus(ledger, r, "collateral"), r, "wallet") \in Ledgers
          /\ \A t \in Reserve, q \in Place :
                plus(minus(ledger, r, "collateral"), r, "wallet")[t][q]
                  = ledger[t][q] - Unit(t, q, r, "collateral") + Unit(t, q, r, "wallet")
      BY <1>a, <1>b, MinusPlus
    <3> QED
      BY <2>1, <3>1
  <2>3. /\ ~market_switches.emergency_mode
        /\ ~reserve_switches[r].emergency_mode
        /\ ~reserve_switches[r].block_ctoken_usage
        /\ ledger[r]["collateral"] > 0
    BY <1>2 DEF withdraw_obligation_collateral, Leaves, emergency_mode_disabled,
                withdraw_obligation_collateral_checks, check_reserve_emergency_mode, holds
  <2> QED
    BY <1>a, <2>2, <2>3 DEF Guarded, EmergencyStep, ObsoleteStep, PermittedStep, CTokenStep,
                               BorrowStep, TicketStep, Supply, Place, Ledgers, Unit
<1>3. CASE withdraw_obligation_collateral_and_redeem_reserve_collateral(r)
  <2>1. ledger' = minus(ledger, r, "collateral")
    BY <1>3 DEF withdraw_obligation_collateral_and_redeem_reserve_collateral, Leaves
  <2>2. /\ ledger' \in Ledgers
        /\ \A t \in Reserve, q \in Place :
              ledger'[t][q] = ledger[t][q] - Unit(t, q, r, "collateral")
    BY <1>a, <1>b, <2>1, MinusOne
  <2>3. /\ ~market_switches.emergency_mode
        /\ ~reserve_switches[r].emergency_mode
        /\ ledger[r]["collateral"] > 0
    BY <1>3 DEF withdraw_obligation_collateral_and_redeem_reserve_collateral, Leaves,
                emergency_mode_disabled,
                withdraw_obligation_collateral_and_redeem_reserve_collateral_checks,
                check_reserve_emergency_mode, holds
  <2> QED
    BY <1>a, <2>2, <2>3 DEF Guarded, EmergencyStep, ObsoleteStep, PermittedStep, CTokenStep,
                               BorrowStep, TicketStep, Supply, Place, Ledgers, Unit
<1>4. CASE repay_obligation_liquidity(r)
  <2>1. ledger' = minus(ledger, r, "debt")
    BY <1>4 DEF repay_obligation_liquidity, Leaves
  <2>2. /\ ledger' \in Ledgers
        /\ \A t \in Reserve, q \in Place :
              ledger'[t][q] = ledger[t][q] - Unit(t, q, r, "debt")
    BY <1>a, <1>b, <2>1, MinusOne
  <2>3. /\ ~market_switches.emergency_mode
        /\ ~reserve_switches[r].emergency_mode
        /\ ledger[r]["debt"] > 0
    BY <1>4 DEF repay_obligation_liquidity, Leaves, emergency_mode_disabled,
                repay_obligation_liquidity_checks, check_reserve_emergency_mode, holds
  <2> QED
    BY <1>a, <2>2, <2>3 DEF Guarded, EmergencyStep, ObsoleteStep, PermittedStep, CTokenStep,
                               BorrowStep, TicketStep, Supply, Place, Ledgers, Unit
<1>5. CASE enqueue_to_withdraw(r)
  <2>1. ledger' = plus(minus(ledger, r, "wallet"), r, "queued")
    BY <1>5 DEF enqueue_to_withdraw, Leaves
  <2>2. /\ ledger' \in Ledgers
        /\ \A t \in Reserve, q \in Place :
              ledger'[t][q] = ledger[t][q] - Unit(t, q, r, "wallet") + Unit(t, q, r, "queued")
    <3>1. /\ plus(minus(ledger, r, "wallet"), r, "queued") \in Ledgers
          /\ \A t \in Reserve, q \in Place :
                plus(minus(ledger, r, "wallet"), r, "queued")[t][q]
                  = ledger[t][q] - Unit(t, q, r, "wallet") + Unit(t, q, r, "queued")
      BY <1>a, <1>b, MinusPlus
    <3> QED
      BY <2>1, <3>1
  <2>3. /\ ~market_switches.emergency_mode
        /\ ~reserve_switches[r].emergency_mode
        /\ reserve_switches[r].status # "Obsolete"
        /\ market_switches.withdraw_ticket_issuance_enabled
        /\ ledger[r]["wallet"] > 0
    BY <1>5 DEF enqueue_to_withdraw, Leaves, emergency_mode_disabled,
                is_withdraw_ticket_issuance_enabled,
                enqueue_to_withdraw_checks, check_reserve_status_and_version,
                check_reserve_emergency_mode, holds
  <2> QED
    BY <1>a, <2>2, <2>3 DEF Guarded, EmergencyStep, ObsoleteStep, PermittedStep, CTokenStep,
                               BorrowStep, TicketStep, Supply, Place, Ledgers, Unit
<1>6. CASE withdraw_queued_liquidity(r)
  <2>1. ledger' = minus(ledger, r, "queued")
    BY <1>6 DEF withdraw_queued_liquidity, Leaves
  <2>2. /\ ledger' \in Ledgers
        /\ \A t \in Reserve, q \in Place :
              ledger'[t][q] = ledger[t][q] - Unit(t, q, r, "queued")
    BY <1>a, <1>b, <2>1, MinusOne
  <2>3. /\ ~market_switches.emergency_mode
        /\ ~reserve_switches[r].emergency_mode
        /\ market_switches.withdraw_ticket_redemption_enabled
        /\ ledger[r]["queued"] > 0
    BY <1>6 DEF withdraw_queued_liquidity, Leaves, emergency_mode_disabled,
                is_withdraw_ticket_redemption_enabled,
                withdraw_queued_liquidity_checks, check_reserve_emergency_mode, holds
  <2> QED
    BY <1>a, <2>2, <2>3 DEF Guarded, EmergencyStep, ObsoleteStep, PermittedStep, CTokenStep,
                               BorrowStep, TicketStep, Supply, Place, Ledgers, Unit
<1>7. CASE cancel_withdraw_ticket(r)
  <2>1. ledger' = plus(minus(ledger, r, "queued"), r, "wallet")
    BY <1>7 DEF cancel_withdraw_ticket, Leaves
  <2>2. /\ ledger' \in Ledgers
        /\ \A t \in Reserve, q \in Place :
              ledger'[t][q] = ledger[t][q] - Unit(t, q, r, "queued") + Unit(t, q, r, "wallet")
    <3>1. /\ plus(minus(ledger, r, "queued"), r, "wallet") \in Ledgers
          /\ \A t \in Reserve, q \in Place :
                plus(minus(ledger, r, "queued"), r, "wallet")[t][q]
                  = ledger[t][q] - Unit(t, q, r, "queued") + Unit(t, q, r, "wallet")
      BY <1>a, <1>b, MinusPlus
    <3> QED
      BY <2>1, <3>1
  <2>3. /\ ~market_switches.emergency_mode
        /\ ~reserve_switches[r].emergency_mode
        /\ ledger[r]["queued"] > 0
    BY <1>7 DEF cancel_withdraw_ticket, Leaves, emergency_mode_disabled,
                cancel_withdraw_ticket_checks, check_reserve_emergency_mode, holds
  <2> QED
    BY <1>a, <2>2, <2>3 DEF Guarded, EmergencyStep, ObsoleteStep, PermittedStep, CTokenStep,
                               BorrowStep, TicketStep, Supply, Place, Ledgers, Unit
<1>8. CASE recover_invalid_ticket_collateral(r)
  <2>1. ledger' = plus(minus(ledger, r, "queued"), r, "wallet")
    BY <1>8 DEF recover_invalid_ticket_collateral, Leaves
  <2>2. /\ ledger' \in Ledgers
        /\ \A t \in Reserve, q \in Place :
              ledger'[t][q] = ledger[t][q] - Unit(t, q, r, "queued") + Unit(t, q, r, "wallet")
    <3>1. /\ plus(minus(ledger, r, "queued"), r, "wallet") \in Ledgers
          /\ \A t \in Reserve, q \in Place :
                plus(minus(ledger, r, "queued"), r, "wallet")[t][q]
                  = ledger[t][q] - Unit(t, q, r, "queued") + Unit(t, q, r, "wallet")
      BY <1>a, <1>b, MinusPlus
    <3> QED
      BY <2>1, <3>1
  <2>3. /\ ~market_switches.emergency_mode
        /\ ~reserve_switches[r].emergency_mode
        /\ ledger[r]["queued"] > 0
    BY <1>8 DEF recover_invalid_ticket_collateral, Leaves, emergency_mode_disabled,
                recover_invalid_ticket_collateral_checks, check_reserve_emergency_mode, holds
  <2> QED
    BY <1>a, <2>2, <2>3 DEF Guarded, EmergencyStep, ObsoleteStep, PermittedStep, CTokenStep,
                               BorrowStep, TicketStep, Supply, Place, Ledgers, Unit
<1>9. CASE socialize_loss(r)
  <2>1. ledger' = minus(ledger, r, "debt")
    BY <1>9 DEF socialize_loss
  <2>2. /\ ledger' \in Ledgers
        /\ \A t \in Reserve, q \in Place :
              ledger'[t][q] = ledger[t][q] - Unit(t, q, r, "debt")
    BY <1>a, <1>b, <2>1, MinusOne
  <2>3. /\ signed' = "owner"
        /\ ledger[r]["debt"] > 0
    BY <1>9 DEF socialize_loss, holds
  <2> QED
    BY <1>a, <2>2, <2>3 DEF Guarded, EmergencyStep, ObsoleteStep, PermittedStep, CTokenStep,
                               BorrowStep, TicketStep, Supply, Place, Ledgers, Unit
<1> QED
  BY <1>1, <1>2, <1>3, <1>4, <1>5, <1>6, <1>7, <1>8, <1>9

\* Repaying one reserve while withdrawing from another, and moving a debt.
LEMMA PairGuarded ==
  ASSUME AccessTypeOK, NEW r \in Reserve, NEW s \in Reserve,
         \/ repay_and_withdraw_and_redeem(r, s)
         \/ rollover_fixed_term_borrow(r, s)
  PROVE  Guarded /\ ledger' \in [Reserve -> [Place -> Nat]]
<1>a. ledger \in Ledgers /\ ledger \in [Reserve -> [Place -> Nat]]
  BY DEF AccessTypeOK, Ledgers
<1>b. "wallet" \in Place /\ "collateral" \in Place /\ "queued" \in Place /\ "debt" \in Place
  BY DEF Place
<1>1. CASE repay_and_withdraw_and_redeem(r, s)
  <2>1. ledger' = minus(minus(ledger, r, "debt"), s, "collateral")
    BY <1>1 DEF repay_and_withdraw_and_redeem, Leaves
  <2>2. /\ ledger' \in Ledgers
        /\ \A t \in Reserve, q \in Place :
              ledger'[t][q] = ledger[t][q] - Unit(t, q, r, "debt") - Unit(t, q, s, "collateral")
    <3>1. /\ minus(minus(ledger, r, "debt"), s, "collateral") \in Ledgers
          /\ \A t \in Reserve, q \in Place :
                minus(minus(ledger, r, "debt"), s, "collateral")[t][q]
                  = ledger[t][q] - Unit(t, q, r, "debt") - Unit(t, q, s, "collateral")
      BY <1>a, <1>b, MinusMinus
    <3> QED
      BY <2>1, <3>1
  <2>3. /\ ~market_switches.emergency_mode
        /\ ~reserve_switches[r].emergency_mode
        /\ ~reserve_switches[s].emergency_mode
        /\ ledger[r]["debt"] > 0
        /\ ledger[s]["collateral"] > 0
    BY <1>1 DEF repay_and_withdraw_and_redeem, Leaves, emergency_mode_disabled,
                repay_obligation_liquidity_checks,
                withdraw_obligation_collateral_and_redeem_reserve_collateral_checks,
                check_reserve_emergency_mode, holds
  <2> QED
    BY <1>a, <2>2, <2>3 DEF Guarded, EmergencyStep, ObsoleteStep, PermittedStep, CTokenStep,
                               BorrowStep, TicketStep, Supply, Place, Ledgers, Unit
<1>2. CASE rollover_fixed_term_borrow(r, s)
  <2>1. ledger' = plus(minus(ledger, r, "debt"), s, "debt")
    BY <1>2 DEF rollover_fixed_term_borrow, Leaves
  <2>2. /\ ledger' \in Ledgers
        /\ \A t \in Reserve, q \in Place :
              ledger'[t][q] = ledger[t][q] - Unit(t, q, r, "debt") + Unit(t, q, s, "debt")
    <3>1. /\ plus(minus(ledger, r, "debt"), s, "debt") \in Ledgers
          /\ \A t \in Reserve, q \in Place :
                plus(minus(ledger, r, "debt"), s, "debt")[t][q]
                  = ledger[t][q] - Unit(t, q, r, "debt") + Unit(t, q, s, "debt")
      BY <1>a, <1>b, MinusPlus
    <3> QED
      BY <2>1, <3>1
  <2>3. /\ ~market_switches.emergency_mode
        /\ r # s
        /\ ~reserve_switches[r].emergency_mode
        /\ ~reserve_switches[s].emergency_mode
        /\ reserve_switches[s].status # "Obsolete"
        /\ ~market_switches.borrow_disabled
        /\ ledger[r]["debt"] > 0
    BY <1>2 DEF rollover_fixed_term_borrow, Leaves, emergency_mode_disabled,
                is_borrowing_disabled,
                rollover_fixed_term_borrow_checks, check_reserve_status_and_version,
                check_reserve_emergency_mode, holds
  <2> QED
    BY <1>a, <2>2, <2>3 DEF Guarded, EmergencyStep, ObsoleteStep, PermittedStep, CTokenStep,
                               BorrowStep, TicketStep, Supply, Place, Ledgers, Unit
<1> QED
  BY <1>1, <1>2

\* Depositing in one reserve while withdrawing from another.
LEMMA SwapGuarded ==
  ASSUME AccessTypeOK, NEW r \in Reserve, NEW s \in Reserve, NEW permissioner \in BOOLEAN,
         deposit_and_withdraw(r, s, permissioner)
  PROVE  Guarded /\ ledger' \in [Reserve -> [Place -> Nat]]
<1>a. ledger \in Ledgers /\ ledger \in [Reserve -> [Place -> Nat]]
  BY DEF AccessTypeOK, Ledgers
<1>b. "wallet" \in Place /\ "collateral" \in Place /\ "queued" \in Place /\ "debt" \in Place
  BY DEF Place
<1>1. CASE deposit_and_withdraw(r, s, permissioner)
  <2>1. ledger' = minus(plus(ledger, r, "collateral"), s, "collateral")
    BY <1>1 DEF deposit_and_withdraw, Leaves
  <2>2. /\ ledger' \in Ledgers
        /\ \A t \in Reserve, q \in Place :
              ledger'[t][q] = ledger[t][q] + Unit(t, q, r, "collateral") - Unit(t, q, s, "collateral")
    <3>1. /\ minus(plus(ledger, r, "collateral"), s, "collateral") \in Ledgers
          /\ \A t \in Reserve, q \in Place :
                minus(plus(ledger, r, "collateral"), s, "collateral")[t][q]
                  = ledger[t][q] + Unit(t, q, r, "collateral") - Unit(t, q, s, "collateral")
      BY <1>a, <1>b, PlusMinus
    <3> QED
      BY <2>1, <3>1
  <2>3. /\ ~market_switches.emergency_mode
        /\ r # s
        /\ ~reserve_switches[r].emergency_mode
        /\ ~reserve_switches[s].emergency_mode
        /\ reserve_switches[r].status # "Obsolete"
        /\ ledger[s]["collateral"] > 0
        /\ Permitted(r, "DEPOSIT")
    BY <1>1 DEF deposit_and_withdraw, Leaves, emergency_mode_disabled,
                deposit_reserve_liquidity_and_obligation_collateral_checks,
                withdraw_obligation_collateral_and_redeem_reserve_collateral_checks,
                check_reserve_status_and_version, check_reserve_emergency_mode,
                check_permissions, requires_permission, Permitted, holds
  <2>4. ledger' \in [Reserve -> [Place -> Nat]]
    BY <1>a, <2>2, <2>3 DEF Place, Ledgers, Unit
  <2>5. \A t \in Reserve : /\ ledger'[t]["queued"] = ledger[t]["queued"]
                           /\ ledger'[t]["debt"] = ledger[t]["debt"]
                           /\ ledger[t]["queued"] \in Nat /\ ledger[t]["debt"] \in Nat
    BY <1>a, <1>b, <2>2 DEF Unit
  <2>6. \A t \in Reserve : BorrowStep(t) /\ TicketStep(t)
    BY <2>5 DEF BorrowStep, TicketStep
  <2>7. \A t \in Reserve : EmergencyStep(t) /\ ObsoleteStep(t) /\ PermittedStep(t) /\ CTokenStep(t)
    BY <1>a, <2>2, <2>3 DEF EmergencyStep, ObsoleteStep, PermittedStep, CTokenStep,
                               Supply, Place, Ledgers, Unit
  <2> QED
    BY <2>4, <2>6, <2>7 DEF Guarded
<1> QED
  BY <1>1

\* A liquidation takes debt of one reserve and collateral of one, and puts
\* cTokens in a wallet at most as it takes debt away.
LEMMA LiquidationGuarded ==
  ASSUME AccessTypeOK, NEW r \in Reserve, NEW s \in Reserve, NEW redeemed \in BOOLEAN,
         NEW permissioner \in BOOLEAN,
         liquidate_obligation_and_redeem_reserve_collateral(r, s, redeemed, permissioner)
  PROVE  Guarded /\ ledger' \in [Reserve -> [Place -> Nat]]
<1>a. ledger \in Ledgers /\ ledger \in [Reserve -> [Place -> Nat]]
  BY DEF AccessTypeOK, Ledgers
<1>b. "wallet" \in Place /\ "collateral" \in Place /\ "queued" \in Place /\ "debt" \in Place
  BY DEF Place
<1> DEFINE seized == minus(minus(ledger, r, "debt"), s, "collateral")
<1>1. /\ ledger' = IF redeemed THEN seized ELSE plus(seized, s, "wallet")
      /\ ~market_switches.emergency_mode
      /\ ~reserve_switches[r].emergency_mode
      /\ ~reserve_switches[s].emergency_mode
      /\ ledger[r]["debt"] > 0
      /\ ledger[s]["collateral"] > 0
  BY DEF liquidate_obligation_and_redeem_reserve_collateral, Leaves, emergency_mode_disabled,
         liquidate_obligation_checks, check_reserve_emergency_mode, holds
<1>2. /\ seized \in Ledgers
      /\ \A t \in Reserve, q \in Place :
            seized[t][q] = ledger[t][q] - Unit(t, q, r, "debt")
                                        - Unit(t, q, s, "collateral")
  BY <1>a, <1>b, MinusMinus
<1>3. /\ ledger' \in Ledgers
      /\ \A t \in Reserve, q \in Place :
            ledger'[t][q] = seized[t][q] + (IF redeemed THEN 0 ELSE Unit(t, q, s, "wallet"))
  <2>1. CASE redeemed
    BY <1>1, <1>2, <2>1 DEF Ledgers, Unit
  <2>2. CASE ~redeemed
    <3> HIDE DEF seized
    <3>1. ledger' = plus(seized, s, "wallet")
      BY <1>1, <2>2
    <3>2. /\ plus(seized, s, "wallet") \in Ledgers
          /\ \A t \in Reserve, q \in Place :
                plus(seized, s, "wallet")[t][q] = seized[t][q] + Unit(t, q, s, "wallet")
      BY <1>b, <1>2, PlusOne
    <3> QED
      BY <2>2, <3>1, <3>2
  <2> QED
    BY <2>1, <2>2
<1> HIDE DEF seized
<1>4. \A t \in Reserve, q \in Place :
         /\ q = "wallet" => ledger'[t][q] \in {ledger[t][q], ledger[t][q] + Unit(t, q, s, q)}
         /\ q = "queued" => ledger'[t][q] = ledger[t][q]
         /\ q = "collateral" => ledger'[t][q] = ledger[t][q] - Unit(t, q, s, q)
         /\ q = "debt" => ledger'[t][q] = ledger[t][q] - Unit(t, q, r, q)
         /\ Supply(ledger', t) <= Supply(ledger, t)
  BY <1>a, <1>2, <1>3 DEF Supply, Place, Ledgers, Unit
<1>5. ledger' \in [Reserve -> [Place -> Nat]]
  BY <1>a, <1>1, <1>3, <1>4 DEF Place, Ledgers, Unit
<1>6. ledger'[r]["debt"] < ledger[r]["debt"]
  BY <1>a, <1>4 DEF Place, Ledgers, Unit
<1>7. \A t \in Reserve : EmergencyStep(t)
  BY <1>a, <1>1, <1>4 DEF EmergencyStep, Place, Ledgers, Unit
<1>8. \A t \in Reserve : ObsoleteStep(t) /\ PermittedStep(t)
  BY <1>a, <1>4, <1>5 DEF ObsoleteStep, PermittedStep, Supply, Place, Ledgers, Unit
<1>9. \A t \in Reserve : CTokenStep(t)
  BY <1>6 DEF CTokenStep
<1>10. \A t \in Reserve : BorrowStep(t)
  BY <1>a, <1>4 DEF BorrowStep, Place, Ledgers, Unit
<1>11. \A t \in Reserve : TicketStep(t)
  <2>1. \A t \in Reserve : ledger'[t]["queued"] = ledger[t]["queued"]
    BY <1>4 DEF Place
  <2>2. \A t \in Reserve : ledger[t]["queued"] \in Nat
    BY <1>a DEF Place
  <2> QED
    BY <2>1, <2>2 DEF TicketStep
<1> QED
  BY <1>5, <1>7, <1>8, <1>9, <1>10, <1>11 DEF Guarded

-----------------------------------------------------------------------------
(* Types                                                                   *)

\* A switch takes a value of its type.
LEMMA MarketSwitchTyped ==
  ASSUME AccessTypeOK, NEW mode \in DOMAIN MarketSwitchValues,
         NEW value \in MarketSwitchValues[mode], switch_market(mode, value)
  PROVE  AccessTypeOK'
<1>1. /\ mode \in {"emergency_mode", "borrow_disabled",
                   "withdraw_ticket_issuance_enabled",
                   "withdraw_ticket_redemption_enabled",
                   "withdraw_ticket_cancellation_enabled",
                   "has_permissioning_authority", "permissioned_ops"}
      /\ value \in MarketSwitchType[mode]
  BY SwitchAssumption
<1>2. market_switches' = [market_switches EXCEPT ![mode] = value]
  BY DEF switch_market
<1>3. market_switches' \in [emergency_mode : BOOLEAN, borrow_disabled : BOOLEAN,
                            withdraw_ticket_issuance_enabled : BOOLEAN,
                            withdraw_ticket_redemption_enabled : BOOLEAN,
                            withdraw_ticket_cancellation_enabled : BOOLEAN,
                            has_permissioning_authority : BOOLEAN,
                            permissioned_ops : SUBSET Op]
  BY <1>1, <1>2 DEF AccessTypeOK, MarketSwitchType
<1> QED
  BY <1>3 DEF AccessTypeOK, switch_market

\* So does a switch of a reserve, and the other reserves keep theirs.
LEMMA ReserveSwitchTyped ==
  ASSUME AccessTypeOK, NEW r \in Reserve, NEW mode \in DOMAIN ReserveSwitchValues[r],
         NEW value \in ReserveSwitchValues[r][mode], switch_reserve(r, mode, value)
  PROVE  AccessTypeOK'
<1> DEFINE Switches == [emergency_mode : BOOLEAN, status : {"Active", "Obsolete", "Hidden"},
                        block_ctoken_usage : BOOLEAN, permissioned_ops : SUBSET Op]
<1>1. /\ mode \in {"emergency_mode", "status", "block_ctoken_usage", "permissioned_ops"}
      /\ value \in ReserveSwitchType[mode]
  BY SwitchAssumption
<1>2. reserve_switches \in [Reserve -> Switches]
  BY DEF AccessTypeOK
<1>3. [reserve_switches[r] EXCEPT ![mode] = value] \in Switches
  <2>1. reserve_switches[r] \in Switches
    BY <1>2
  <2> QED
    BY <1>1, <2>1 DEF ReserveSwitchType
<1>4. reserve_switches' \in [Reserve -> Switches]
  BY <1>2, <1>3 DEF switch_reserve
<1> QED
  BY <1>4 DEF AccessTypeOK, switch_reserve

\* One step of anybody: a switch, which leaves the ledger alone, or one of the
\* instructions above, which leave the switches alone.
LEMMA AccessStep ==
  ASSUME AccessTypeOK, NextAccess
  PROVE  AccessTypeOK' /\ Guarded
<1>1. CASE \E mode \in DOMAIN MarketSwitchValues :
              \E value \in MarketSwitchValues[mode] : switch_market(mode, value)
  BY <1>1, MarketSwitchTyped, LedgerUnchanged DEF switch_market
<1>2. CASE \E r \in Reserve : \E mode \in DOMAIN ReserveSwitchValues[r] :
              \E value \in ReserveSwitchValues[r][mode] : switch_reserve(r, mode, value)
  BY <1>2, ReserveSwitchTyped, LedgerUnchanged DEF switch_reserve
<1>3. ASSUME UNCHANGED <<market_switches, reserve_switches>>,
             signed' \in {"nobody", "permissioner", "owner"},
             Guarded /\ ledger' \in [Reserve -> [Place -> Nat]]
      PROVE  AccessTypeOK' /\ Guarded
  BY <1>3 DEF AccessTypeOK
<1>4. ASSUME NEW r \in Reserve, NEW permissioner \in BOOLEAN,
             \/ deposit_reserve_liquidity(r, permissioner)
             \/ deposit_obligation_collateral(r, permissioner)
             \/ deposit_reserve_liquidity_and_obligation_collateral(r, permissioner)
             \/ borrow_obligation_liquidity(r, permissioner)
      PROVE  AccessTypeOK' /\ Guarded
  <2>1. UNCHANGED <<market_switches, reserve_switches>>
        /\ signed' \in {"nobody", "permissioner", "owner"}
    BY <1>4 DEF deposit_reserve_liquidity, deposit_obligation_collateral,
         deposit_reserve_liquidity_and_obligation_collateral, borrow_obligation_liquidity, Leaves
  <2> QED
    BY <1>3, <1>4, <2>1, GrowingGuarded
<1>5. ASSUME NEW r \in Reserve,
             \/ redeem_reserve_collateral(r)
             \/ withdraw_obligation_collateral(r)
             \/ withdraw_obligation_collateral_and_redeem_reserve_collateral(r)
             \/ repay_obligation_liquidity(r)
             \/ enqueue_to_withdraw(r)
             \/ withdraw_queued_liquidity(r)
             \/ cancel_withdraw_ticket(r)
             \/ recover_invalid_ticket_collateral(r)
             \/ socialize_loss(r)
      PROVE  AccessTypeOK' /\ Guarded
  <2>1. UNCHANGED <<market_switches, reserve_switches>>
        /\ signed' \in {"nobody", "permissioner", "owner"}
    BY <1>5 DEF redeem_reserve_collateral, withdraw_obligation_collateral,
         withdraw_obligation_collateral_and_redeem_reserve_collateral, repay_obligation_liquidity,
         enqueue_to_withdraw, withdraw_queued_liquidity, cancel_withdraw_ticket,
         recover_invalid_ticket_collateral, socialize_loss, Leaves
  <2> QED
    BY <1>3, <1>5, <2>1, SingleGuarded
<1>6. ASSUME NEW r \in Reserve, NEW s \in Reserve,
             repay_and_withdraw_and_redeem(r, s) \/ rollover_fixed_term_borrow(r, s)
      PROVE  AccessTypeOK' /\ Guarded
  <2>1. UNCHANGED <<market_switches, reserve_switches>>
        /\ signed' \in {"nobody", "permissioner", "owner"}
    BY <1>6 DEF repay_and_withdraw_and_redeem, rollover_fixed_term_borrow, Leaves
  <2> QED
    BY <1>3, <1>6, <2>1, PairGuarded
<1>7. ASSUME NEW r \in Reserve, NEW s \in Reserve, NEW permissioner \in BOOLEAN,
             deposit_and_withdraw(r, s, permissioner)
      PROVE  AccessTypeOK' /\ Guarded
  <2>1. UNCHANGED <<market_switches, reserve_switches>>
        /\ signed' \in {"nobody", "permissioner", "owner"}
    BY <1>7 DEF deposit_and_withdraw, Leaves
  <2> QED
    BY <1>3, <1>7, <2>1, SwapGuarded
<1>8. ASSUME NEW r \in Reserve, NEW s \in Reserve, NEW redeemed \in BOOLEAN,
             NEW permissioner \in BOOLEAN,
             liquidate_obligation_and_redeem_reserve_collateral(r, s, redeemed, permissioner)
      PROVE  AccessTypeOK' /\ Guarded
  <2>1. UNCHANGED <<market_switches, reserve_switches>>
        /\ signed' \in {"nobody", "permissioner", "owner"}
    BY <1>8 DEF liquidate_obligation_and_redeem_reserve_collateral, Leaves
  <2> QED
    BY <1>3, <1>8, <2>1, LiquidationGuarded
<1> QED
  BY <1>1, <1>2, <1>4, <1>5, <1>6, <1>7, <1>8 DEF NextAccess

\* Whatever instruction is executed under whatever switches, the switches keep
\* their types and no place of the ledger is overdrawn.
THEOREM AccessTyping == SpecAccess => []AccessTypeOK
<1>1. InitAccess => AccessTypeOK
  BY AccessAssumption
  DEF InitAccess, AccessTypeOK, default_market_switches, default_reserve_switches, Op
<1>2. AccessTypeOK /\ UNCHANGED accessVars => AccessTypeOK'
  BY DEF AccessTypeOK, accessVars
<1> QED
  BY <1>1, <1>2, AccessStep, PTL DEF SpecAccess

-----------------------------------------------------------------------------
(* What no step does                                                       *)

\* No instruction gets past a switch: emergency mode, the obsolete status, the
\* permissioner, the block on cTokens, disabled borrowing and the switches of
\* the withdraw queue, whichever reserve it touches and whether it comes alone
\* or as a part of a combined one (lib.rs, lending_checks.rs, permissioning.rs,
\* handler_enqueue_to_withdraw.rs, handler_withdraw_queued_liquidity.rs).
THEOREM SwitchesAreObeyed == SpecAccess => SwitchesObeyed
<1>1. AccessTypeOK /\ NextAccess => Guarded
  BY AccessStep
<1>2. AccessTypeOK /\ UNCHANGED accessVars => Guarded
  BY LedgerUnchanged DEF accessVars
<1> QED
  BY <1>1, <1>2, AccessTyping, PTL DEF SpecAccess, SwitchesObeyed, Guarded
===============================================================================

------------------------------- MODULE Access -------------------------------
(***************************************************************************)
(* Which switches of a klend market and of its reserves stop which         *)
(* instruction: the emergency modes, the status of a reserve, blocked      *)
(* cTokens, disabled borrowing, the three switches of the withdraw queue,  *)
(* and the operations that need the signature of the market's              *)
(* permissioner.  Every instruction that moves cTokens or                  *)
(* debt is an action with every check of these switches on its path, those *)
(* that combine two others included, since a switch is only as good as the *)
(* instruction that forgets it.                                            *)
(*                                                                         *)
(* Balances are those of all users together, in units; loan to value,      *)
(* limits and liquidity are the subject of Position, DebtTrackers and      *)
(* WithdrawQueue and here never refuse.  A reserve of another program      *)
(* version is refused wherever one of another status or in emergency mode  *)
(* is, and is left out.                                                    *)
(***************************************************************************)
EXTENDS Integers

CONSTANTS Reserve,            \* reserves of the market
          FirstLedger,        \* what users hold when the switches come into play
          MarketSwitchValues, \* bound: values the admins give the market's switches
          ReserveSwitchValues,\* bound: values they give a reserve's switches
          MaxSupplied,        \* bound: units supplied to a reserve, wherever they are
          MaxOwed             \* bound: units owed to a reserve

Op == {"DEPOSIT", "BORROW", "LIQUIDATE"}

\* Where the cTokens of a reserve are, and the debt in its liquidity.
Place == {"wallet", "collateral", "queued", "debt"}

Supply(l, r) == l[r]["wallet"] + l[r]["collateral"] + l[r]["queued"]

WithinUnits(l) == \A r \in Reserve : Supply(l, r) <= MaxSupplied /\ l[r]["debt"] <= MaxOwed

ASSUME AccessAssumption ==
    /\ MaxSupplied \in Nat /\ MaxOwed \in Nat
    /\ FirstLedger \in [Reserve -> [Place -> Nat]] /\ WithinUnits(FirstLedger)

\* What the switches can be set to.
MarketSwitchType ==
    [emergency_mode |-> BOOLEAN, borrow_disabled |-> BOOLEAN,
     withdraw_ticket_issuance_enabled |-> BOOLEAN,
     withdraw_ticket_redemption_enabled |-> BOOLEAN,
     withdraw_ticket_cancellation_enabled |-> BOOLEAN,
     has_permissioning_authority |-> BOOLEAN, permissioned_ops |-> SUBSET Op]
ReserveSwitchType ==
    [emergency_mode |-> BOOLEAN, status |-> {"Active", "Obsolete", "Hidden"},
     block_ctoken_usage |-> BOOLEAN, permissioned_ops |-> SUBSET Op]

ASSUME SwitchAssumption ==
    /\ \A mode \in DOMAIN MarketSwitchValues :
          /\ mode \in {"emergency_mode", "borrow_disabled",
                       "withdraw_ticket_issuance_enabled",
                       "withdraw_ticket_redemption_enabled",
                       "withdraw_ticket_cancellation_enabled",
                       "has_permissioning_authority", "permissioned_ops"}
          /\ MarketSwitchValues[mode] \subseteq MarketSwitchType[mode]
    /\ \A r \in Reserve : \A mode \in DOMAIN ReserveSwitchValues[r] :
          /\ mode \in {"emergency_mode", "status", "block_ctoken_usage", "permissioned_ops"}
          /\ ReserveSwitchValues[r][mode] \subseteq ReserveSwitchType[mode]

VARIABLES market_switches,  \* switches of LendingMarket
          reserve_switches, \* switches of each reserve's ReserveConfig
          ledger,           \* units by reserve and place
          signed            \* history: the authority that signed the last step

accessVars == <<market_switches, reserve_switches, ledger, signed>>

-----------------------------------------------------------------------------
(* The switches                                                            *)

default_market_switches ==
    [emergency_mode |-> FALSE, borrow_disabled |-> FALSE,
     withdraw_ticket_issuance_enabled |-> FALSE,
     withdraw_ticket_redemption_enabled |-> FALSE,
     withdraw_ticket_cancellation_enabled |-> FALSE,
     has_permissioning_authority |-> FALSE, permissioned_ops |-> {}]

default_reserve_switches ==
    [emergency_mode |-> FALSE, status |-> "Active", block_ctoken_usage |-> FALSE,
     permissioned_ops |-> {}]

\* MarketConfig says who may set which switch, and when.
switch_market(mode, value) ==
    /\ value # market_switches[mode]
    /\ market_switches' = [market_switches EXCEPT ![mode] = value]
    /\ signed' = "owner"
    /\ UNCHANGED <<reserve_switches, ledger>>

switch_reserve(r, mode, value) ==
    /\ value # reserve_switches[r][mode]
    /\ reserve_switches' = [reserve_switches EXCEPT ![r][mode] = value]
    /\ signed' = "owner"
    /\ UNCHANGED <<market_switches, ledger>>

emergency_mode_disabled == ~market_switches.emergency_mode

check_reserve_emergency_mode(r) == ~reserve_switches[r].emergency_mode

check_reserve_status_and_version(r) == reserve_switches[r].status # "Obsolete"

\* Faulty variant: only the operations the market restricts need the permissioner.
requires_permission_of_market(reserves, op) ==
    /\ market_switches.has_permissioning_authority
    /\ op \in market_switches.permissioned_ops

requires_permission(reserves, op) ==
    /\ market_switches.has_permissioning_authority
    /\ \/ op \in market_switches.permissioned_ops
       \/ \E r \in reserves : op \in reserve_switches[r].permissioned_ops

check_permissions(reserves, op, permissioner) == requires_permission(reserves, op) => permissioner

-----------------------------------------------------------------------------
(* The checks of lending_checks.rs                                         *)

borrow_obligation_liquidity_checks(r) ==
    check_reserve_status_and_version(r) /\ check_reserve_emergency_mode(r)

rollover_fixed_term_borrow_checks(source, target) ==
    \A r \in {source, target} :
        check_reserve_status_and_version(r) /\ check_reserve_emergency_mode(r)

enqueue_to_withdraw_checks(r) ==
    check_reserve_status_and_version(r) /\ check_reserve_emergency_mode(r)

\* Faulty variant: tickets are redeemed only where they could be issued.
withdraw_queued_liquidity_status_checks(r) ==
    check_reserve_status_and_version(r) /\ check_reserve_emergency_mode(r)

withdraw_queued_liquidity_checks(r) == check_reserve_emergency_mode(r)

recover_invalid_ticket_collateral_checks(r) == check_reserve_emergency_mode(r)

cancel_withdraw_ticket_checks(r) == check_reserve_emergency_mode(r)

deposit_obligation_collateral_checks(r) ==
    check_reserve_status_and_version(r) /\ check_reserve_emergency_mode(r)

deposit_reserve_liquidity_checks(r) ==
    /\ check_reserve_status_and_version(r) /\ check_reserve_emergency_mode(r)
    /\ ~reserve_switches[r].block_ctoken_usage

deposit_reserve_liquidity_and_obligation_collateral_checks(r) ==
    check_reserve_status_and_version(r) /\ check_reserve_emergency_mode(r)

liquidate_obligation_checks(repay, withdraw) ==
    check_reserve_emergency_mode(repay) /\ check_reserve_emergency_mode(withdraw)

redeem_reserve_collateral_checks(r) == check_reserve_emergency_mode(r)

withdraw_obligation_collateral_and_redeem_reserve_collateral_checks(r) ==
    check_reserve_emergency_mode(r)

repay_obligation_liquidity_checks(r) == check_reserve_emergency_mode(r)

withdraw_obligation_collateral_checks(r) ==
    check_reserve_emergency_mode(r) /\ ~reserve_switches[r].block_ctoken_usage

is_borrowing_disabled == market_switches.borrow_disabled

is_withdraw_ticket_issuance_enabled == market_switches.withdraw_ticket_issuance_enabled
is_withdraw_ticket_redemption_enabled == market_switches.withdraw_ticket_redemption_enabled
is_withdraw_ticket_cancellation_enabled == market_switches.withdraw_ticket_cancellation_enabled

-----------------------------------------------------------------------------
(* Units                                                                   *)

holds(r, place) == ledger[r][place] > 0
plus(l, r, place) == [l EXCEPT ![r][place] = @ + 1]
minus(l, r, place) == [l EXCEPT ![r][place] = @ - 1]

\* The instruction leaves the ledger l; `permissioner` says whether the
\* market's permissioner is among the signers.
Leaves(l, permissioner) ==
    /\ emergency_mode_disabled
    /\ WithinUnits(l)
    /\ ledger' = l
    /\ signed' = IF permissioner THEN "permissioner" ELSE "nobody"
    /\ UNCHANGED <<market_switches, reserve_switches>>

-----------------------------------------------------------------------------
(* The instructions of lib.rs                                              *)

deposit_reserve_liquidity(r, permissioner) ==
    /\ deposit_reserve_liquidity_checks(r)
    /\ check_permissions({r}, "DEPOSIT", permissioner)
    /\ Leaves(plus(ledger, r, "wallet"), permissioner)

redeem_reserve_collateral(r) ==
    /\ redeem_reserve_collateral_checks(r) /\ holds(r, "wallet")
    /\ Leaves(minus(ledger, r, "wallet"), FALSE)

deposit_obligation_collateral(r, permissioner) ==
    /\ deposit_obligation_collateral_checks(r) /\ holds(r, "wallet")
    /\ check_permissions({r}, "DEPOSIT", permissioner)
    /\ Leaves(plus(minus(ledger, r, "wallet"), r, "collateral"), permissioner)

withdraw_obligation_collateral(r) ==
    /\ withdraw_obligation_collateral_checks(r) /\ holds(r, "collateral")
    /\ Leaves(plus(minus(ledger, r, "collateral"), r, "wallet"), FALSE)

deposit_reserve_liquidity_and_obligation_collateral(r, permissioner) ==
    /\ deposit_reserve_liquidity_and_obligation_collateral_checks(r)
    /\ check_permissions({r}, "DEPOSIT", permissioner)
    /\ Leaves(plus(ledger, r, "collateral"), permissioner)

withdraw_obligation_collateral_and_redeem_reserve_collateral(r) ==
    /\ withdraw_obligation_collateral_and_redeem_reserve_collateral_checks(r)
    /\ holds(r, "collateral")
    /\ Leaves(minus(ledger, r, "collateral"), FALSE)

deposit_and_withdraw(deposit, withdraw, permissioner) ==
    /\ deposit # withdraw
    /\ deposit_reserve_liquidity_and_obligation_collateral_checks(deposit)
    /\ check_permissions({deposit}, "DEPOSIT", permissioner)
    /\ withdraw_obligation_collateral_and_redeem_reserve_collateral_checks(withdraw)
    /\ holds(withdraw, "collateral")
    /\ Leaves(minus(plus(ledger, deposit, "collateral"), withdraw, "collateral"), permissioner)

\* A borrow order is filled by the same steps as a borrow of its owner.
borrow_obligation_liquidity(r, permissioner) ==
    /\ borrow_obligation_liquidity_checks(r)
    /\ check_permissions({r}, "BORROW", permissioner)
    /\ ~is_borrowing_disabled
    /\ Leaves(plus(ledger, r, "debt"), permissioner)

repay_obligation_liquidity(r) ==
    /\ repay_obligation_liquidity_checks(r) /\ holds(r, "debt")
    /\ Leaves(minus(ledger, r, "debt"), FALSE)

repay_and_withdraw_and_redeem(repay, withdraw) ==
    /\ repay_obligation_liquidity_checks(repay) /\ holds(repay, "debt")
    /\ withdraw_obligation_collateral_and_redeem_reserve_collateral_checks(withdraw)
    /\ holds(withdraw, "collateral")
    /\ Leaves(minus(minus(ledger, repay, "debt"), withdraw, "collateral"), FALSE)

\* Anyone may roll a borrow over; nobody asks for the permissioner.
rollover_fixed_term_borrow(source, target) ==
    /\ source # target
    /\ rollover_fixed_term_borrow_checks(source, target) /\ holds(source, "debt")
    /\ ~is_borrowing_disabled
    /\ Leaves(plus(minus(ledger, source, "debt"), target, "debt"), FALSE)

\* The collateral is redeemed for the liquidator, or, where the reserve lacks
\* the liquidity, handed over as cTokens.
liquidate_obligation_and_redeem_reserve_collateral(repay, withdraw, redeemed, permissioner) ==
    /\ liquidate_obligation_checks(repay, withdraw)
    /\ redeem_reserve_collateral_checks(withdraw)
    /\ check_permissions({repay, withdraw}, "LIQUIDATE", permissioner)
    /\ holds(repay, "debt") /\ holds(withdraw, "collateral")
    /\ LET seized == minus(minus(ledger, repay, "debt"), withdraw, "collateral")
       IN  Leaves(IF redeemed THEN seized ELSE plus(seized, withdraw, "wallet"), permissioner)

\* Tickets are issued, redeemed, cancelled and recovered as WithdrawQueue says.
enqueue_to_withdraw(r) ==
    /\ enqueue_to_withdraw_checks(r) /\ holds(r, "wallet")
    /\ is_withdraw_ticket_issuance_enabled
    /\ Leaves(plus(minus(ledger, r, "wallet"), r, "queued"), FALSE)

withdraw_queued_liquidity(r) ==
    /\ withdraw_queued_liquidity_checks(r) /\ holds(r, "queued")
    /\ is_withdraw_ticket_redemption_enabled
    /\ Leaves(minus(ledger, r, "queued"), FALSE)

cancel_withdraw_ticket(r) ==
    /\ cancel_withdraw_ticket_checks(r) /\ holds(r, "queued")
    /\ is_withdraw_ticket_cancellation_enabled
    /\ Leaves(plus(minus(ledger, r, "queued"), r, "wallet"), FALSE)

\* Of a ticket whose owner closed the account it pays into.
recover_invalid_ticket_collateral(r) ==
    /\ recover_invalid_ticket_collateral_checks(r) /\ holds(r, "queued")
    /\ Leaves(plus(minus(ledger, r, "queued"), r, "wallet"), FALSE)

\* The market owner writes off debt without collateral; no switch stops it.
socialize_loss(r) ==
    /\ holds(r, "debt")
    /\ ledger' = minus(ledger, r, "debt")
    /\ signed' = "owner"
    /\ UNCHANGED <<market_switches, reserve_switches>>

-----------------------------------------------------------------------------
InitAccess ==
    /\ market_switches = default_market_switches
    /\ reserve_switches = [r \in Reserve |-> default_reserve_switches]
    /\ ledger = FirstLedger
    /\ signed = "nobody"

NextAccess ==
    \/ \E mode \in DOMAIN MarketSwitchValues :
          \E value \in MarketSwitchValues[mode] : switch_market(mode, value)
    \/ \E r \in Reserve : \E mode \in DOMAIN ReserveSwitchValues[r] :
          \E value \in ReserveSwitchValues[r][mode] : switch_reserve(r, mode, value)
    \/ \E r \in Reserve, permissioner \in BOOLEAN :
          \/ deposit_reserve_liquidity(r, permissioner)
          \/ deposit_obligation_collateral(r, permissioner)
          \/ deposit_reserve_liquidity_and_obligation_collateral(r, permissioner)
          \/ borrow_obligation_liquidity(r, permissioner)
    \/ \E r \in Reserve :
          \/ redeem_reserve_collateral(r)
          \/ withdraw_obligation_collateral(r)
          \/ withdraw_obligation_collateral_and_redeem_reserve_collateral(r)
          \/ repay_obligation_liquidity(r)
          \/ enqueue_to_withdraw(r)
          \/ withdraw_queued_liquidity(r)
          \/ cancel_withdraw_ticket(r)
          \/ recover_invalid_ticket_collateral(r)
          \/ socialize_loss(r)
    \/ \E r, s \in Reserve :
          \/ repay_and_withdraw_and_redeem(r, s)
          \/ rollover_fixed_term_borrow(r, s)
          \/ \E permissioner \in BOOLEAN :
                \/ deposit_and_withdraw(r, s, permissioner)
                \/ \E redeemed \in BOOLEAN :
                      liquidate_obligation_and_redeem_reserve_collateral(
                          r, s, redeemed, permissioner)

SpecAccess == InitAccess /\ [][NextAccess]_accessVars

-----------------------------------------------------------------------------
(* Properties                                                              *)

\* Switches and balances have their types; no place is overdrawn.
AccessTypeOK ==
    /\ market_switches \in [emergency_mode : BOOLEAN, borrow_disabled : BOOLEAN,
                            withdraw_ticket_issuance_enabled : BOOLEAN,
                            withdraw_ticket_redemption_enabled : BOOLEAN,
                            withdraw_ticket_cancellation_enabled : BOOLEAN,
                            has_permissioning_authority : BOOLEAN,
                            permissioned_ops : SUBSET Op]
    /\ reserve_switches \in [Reserve -> [emergency_mode : BOOLEAN,
                                         status : {"Active", "Obsolete", "Hidden"},
                                         block_ctoken_usage : BOOLEAN,
                                         permissioned_ops : SUBSET Op]]
    /\ ledger \in [Reserve -> [Place -> Nat]]
    /\ signed \in {"nobody", "permissioner", "owner"}

\* While the market or the reserve is in emergency mode nobody's balances in
\* the reserve change, except that the market owner may write debt off.
EmergencyStep(r) ==
    market_switches.emergency_mode \/ reserve_switches[r].emergency_mode =>
        /\ \A place \in Place \ {"debt"} : ledger'[r][place] = ledger[r][place]
        /\ ledger'[r]["debt"] <= ledger[r]["debt"]
        /\ ledger'[r]["debt"] < ledger[r]["debt"] => signed' = "owner"

\* An obsolete reserve only shrinks: it takes no deposit and no debt by any
\* path, that of a rollover or of a combined instruction included.
ObsoleteStep(r) ==
    reserve_switches[r].status = "Obsolete" =>
        /\ Supply(ledger', r) <= Supply(ledger, r)
        /\ ledger'[r]["collateral"] <= ledger[r]["collateral"]
        /\ ledger'[r]["debt"] <= ledger[r]["debt"]

Permitted(r, op) ==
    \/ signed' = "permissioner" \/ ~market_switches.has_permissioning_authority
    \/ op \notin market_switches.permissioned_ops \cup reserve_switches[r].permissioned_ops

\* Where an operation is restricted, for the market or for the reserve alone,
\* deposits and collateral grow only with the permissioner's signature, and so
\* does debt, unless a rollover moves it in from another reserve.
PermittedStep(r) ==
    /\ Supply(ledger', r) > Supply(ledger, r)
          \/ ledger'[r]["collateral"] > ledger[r]["collateral"]
       => Permitted(r, "DEPOSIT")
    /\ ledger'[r]["debt"] > ledger[r]["debt"]
       => Permitted(r, "BORROW") \/ \E s \in Reserve : ledger'[s]["debt"] < ledger[s]["debt"]

\* While the use of a reserve's cTokens is blocked none come into a wallet,
\* except back from the withdraw queue or to a liquidator.
CTokenStep(r) ==
    reserve_switches[r].block_ctoken_usage /\ ledger'[r]["wallet"] > ledger[r]["wallet"] =>
        \/ ledger'[r]["queued"] < ledger[r]["queued"]
        \/ \E s \in Reserve : ledger'[s]["debt"] < ledger[s]["debt"]

\* While borrowing is disabled the debt in no reserve grows, by a rollover
\* into it no more than by a borrow.
BorrowStep(r) ==
    market_switches.borrow_disabled => ledger'[r]["debt"] <= ledger[r]["debt"]

\* cTokens come into the queue only while tickets are issued, and are paid out
\* of it only while tickets are redeemed.
TicketStep(r) ==
    /\ ledger'[r]["queued"] > ledger[r]["queued"]
       => market_switches.withdraw_ticket_issuance_enabled
    /\ ledger'[r]["queued"] < ledger[r]["queued"] /\ Supply(ledger', r) < Supply(ledger, r)
       => market_switches.withdraw_ticket_redemption_enabled

\* Whatever instruction is executed, directly or as a part of a combined one,
\* it obeys every switch of every reserve it touches (lib.rs, lending_checks.rs):
\* emergency mode freezes, an obsolete reserve shrinks, growth is permitted,
\* blocked cTokens stay in, disabled borrowing adds no debt and the queue takes
\* and pays only while the market lets it.
SwitchesObeyed ==
    [][\A r \in Reserve :
          /\ EmergencyStep(r) /\ ObsoleteStep(r) /\ PermittedStep(r) /\ CTokenStep(r)
          /\ BorrowStep(r) /\ TicketStep(r)]_accessVars

\* Outside emergency mode an obsolete status, blocked cTokens, disabled borrowing
\* and restricted operations lock nobody in: users can repay, redeem from the
\* wallet and from the obligation, and leave the queue by redeeming or cancelling
\* their tickets, each while its switch of the market is on, all without the
\* permissioner.
ExitOpen ==
    \A r \in Reserve :
        ~market_switches.emergency_mode /\ ~reserve_switches[r].emergency_mode =>
            /\ holds(r, "wallet") => ENABLED redeem_reserve_collateral(r)
            /\ holds(r, "collateral") =>
                  ENABLED withdraw_obligation_collateral_and_redeem_reserve_collateral(r)
            /\ holds(r, "queued") /\ market_switches.withdraw_ticket_redemption_enabled =>
                  ENABLED withdraw_queued_liquidity(r)
            /\ holds(r, "queued") /\ market_switches.withdraw_ticket_cancellation_enabled =>
                  ENABLED cancel_withdraw_ticket(r)
            /\ holds(r, "debt") => ENABLED repay_obligation_liquidity(r)
===============================================================================

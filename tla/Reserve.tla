------------------------------- MODULE Reserve -------------------------------
(***************************************************************************)
(* klend's reserve accounting as operators on a reserve record:            *)
(* state/reserve.rs (Reserve, ReserveLiquidity, ReserveCollateral,         *)
(* WithdrawQueue, CollateralExchangeRate).                                 *)
(*                                                                         *)
(* A `Fraction` x is kept as the integer x * SF, the way the code keeps it *)
(* in its `_sf` fields, so every rounding of the code is a rounding here.  *)
(* Left out: referrer fees (referral_fee_bps = 0), prices, configuration.  *)
(***************************************************************************)
EXTENDS Integers

CONSTANT SF      \* FRACTION_ONE_SCALED, the denominator of a Fraction

ASSUME ScaleAssumption == SF \in Nat \ {0}

ReserveState ==
    [available : Nat,         \* liquidity.total_available_amount
     borrowed_sf : Nat,       \* liquidity.borrowed_amount_sf
     protocol_fees_sf : Nat,  \* liquidity.accumulated_protocol_fees_sf
     rewards : Nat,           \* liquidity.rewards_amount_available
     mint_supply : Nat,       \* collateral.mint_total_supply
     queued : Nat,            \* withdraw_queue.queued_collateral_amount
     next_issued : Nat,       \* withdraw_queue.next_issued_ticket_...
     next_withdrawable : Nat, \* withdraw_queue.next_withdrawable_ticket_...
     deprecated : BOOLEAN]    \* version = u64::MAX

-----------------------------------------------------------------------------
Lesser(a, b) == IF a <= b THEN a ELSE b
saturating_sub(a, b) == IF b <= a THEN a - b ELSE 0
DivCeil(a, b) == (a + b - 1) \div b

\* ReserveLiquidity::total_supply.  Unsigned: where the difference would be
\* negative the code panics, so callers need Solvent.
total_supply(r) == r.available * SF + r.borrowed_sf - r.protocol_fees_sf
Solvent(r) == total_supply(r) >= 0

-----------------------------------------------------------------------------
(* CollateralExchangeRate                                                  *)

INITIAL_COLLATERAL_RATE == [collateral |-> 1, liquidity |-> SF]

collateral_exchange_rate(r) ==
    IF r.mint_supply = 0 \/ total_supply(r) = 0
    THEN INITIAL_COLLATERAL_RATE
    ELSE [collateral |-> r.mint_supply, liquidity |-> total_supply(r)]

\* Faulty variant: redemption rounds in the user's favour.
collateral_to_liquidity_up(x, c) == DivCeil(c * x.liquidity, x.collateral * SF)

collateral_to_liquidity(x, c) == (c * x.liquidity) \div (x.collateral * SF)

collateral_to_liquidity_ceil(x, c) ==
    DivCeil(DivCeil(c * x.liquidity, x.collateral), SF)

liquidity_to_collateral(x, l) == (l * x.collateral * SF) \div x.liquidity

liquidity_to_collateral_ceil(x, l) == DivCeil(l * x.collateral * SF, x.liquidity)

-----------------------------------------------------------------------------
(* Reserve                                                                 *)

queued_liquidity_amount(r) ==
    collateral_to_liquidity(collateral_exchange_rate(r), r.queued)

\* Faulty variant: the queue is forgotten.
available_liquidity_amount(r) == r.available

freely_available_liquidity_amount(r) ==
    saturating_sub(r.available, queued_liquidity_amount(r))

\* Faulty variant: the rounded-up amount is never tried.
redeemable_collateral_floored(r) ==
    liquidity_to_collateral(collateral_exchange_rate(r), r.available)

total_redeemable_collateral_amount(r) ==
    LET x == collateral_exchange_rate(r)
        ceiled == liquidity_to_collateral_ceil(x, r.available)
    IN  IF collateral_to_liquidity(x, ceiled) <= r.available
        THEN ceiled
        ELSE liquidity_to_collateral(x, r.available)

freely_redeemable_collateral_amount(r) ==
    saturating_sub(total_redeemable_collateral_amount(r), r.queued)

\* compute_depositable_amount_and_minted_collateral
depositable(r, l) ==
    LET x == collateral_exchange_rate(r)
        c == liquidity_to_collateral(x, l)
    IN  [liquidity |-> collateral_to_liquidity_ceil(x, c), collateral |-> c]

deposit_liquidity(r, l, c) ==
    [r EXCEPT !.available = @ + l, !.mint_supply = @ + c]

\* redeem_collateral; the caller tests Withdrawable.
redeem_collateral(r, c) ==
    [r EXCEPT !.available = @ - collateral_to_liquidity(collateral_exchange_rate(r), c),
              !.mint_supply = @ - c]

\* withdraw_including_queued and withdraw_freely_available
Withdrawable(r, l, use_withdraw_queue) ==
    l <= IF use_withdraw_queue THEN r.available
                               ELSE freely_available_liquidity_amount(r)

borrow(r, b_sf) ==
    [r EXCEPT !.available = @ - b_sf \div SF, !.borrowed_sf = @ + b_sf]

repay(r, amount, settle_sf) ==
    [r EXCEPT !.available = @ + amount,
              !.borrowed_sf = @ - Lesser(settle_sf, r.borrowed_sf)]

calculate_redeem_fees(r) ==
    Lesser(freely_available_liquidity_amount(r), r.protocol_fees_sf \div SF)

redeem_fees(r, amount) ==
    [r EXCEPT !.available = @ - amount, !.protocol_fees_sf = @ - amount * SF]

\* socialize_loss's part in the reserve.
\* Faulty variant: the deprecation test forgets the protocol's fees.
forgive_debt_late(r, f_sf) ==
    [r EXCEPT !.borrowed_sf = @ - f_sf,
              !.deprecated = @ \/ f_sf >= r.available * SF + r.borrowed_sf]

forgive_debt(r, f_sf) ==
    [r EXCEPT !.borrowed_sf = @ - f_sf,
              !.deprecated = @ \/ f_sf >= total_supply(r)]

-----------------------------------------------------------------------------
(* refresh_reserve: accrue_interest and distribute_rewards over the slots  *)
(* since the last refresh.  How much that is depends on rates and time; an *)
(* accrual a is any outcome the code can compute.                          *)

Accrual == [interest : Nat, fee : Nat, reward : Nat]

\* No debt, no interest; the fixed host fee and the protocol's take are parts
\* of the interest; rewards come out of what was topped up, and only with
\* collateral outstanding.
CanAccrue(r, a) ==
    /\ r.borrowed_sf = 0 => a.interest = 0
    /\ a.fee <= a.interest
    /\ a.reward <= r.rewards
    /\ r.mint_supply = 0 => a.reward = 0

refresh_reserve(r, a) ==
    [r EXCEPT !.borrowed_sf = @ + a.interest,
              !.protocol_fees_sf = @ + a.fee,
              !.rewards = @ - a.reward,
              !.available = @ + a.reward]

-----------------------------------------------------------------------------
(* WithdrawQueue                                                           *)

\* Faulty variant: the collateral is not added to the queue's total.
enqueue_uncounted(r, c) == [r EXCEPT !.next_issued = @ + 1]

enqueue(r, c) == [r EXCEPT !.queued = @ + c, !.next_issued = @ + 1]

dequeue(r, c, ticket_closed) ==
    [r EXCEPT !.queued = @ - c,
              !.next_withdrawable = IF ticket_closed THEN @ + 1 ELSE @]
=============================================================================

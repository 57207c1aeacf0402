------------------------------ MODULE FixedTerm ------------------------------
(***************************************************************************)
(* Fixed-term borrowing of one klend obligation: the standing order to     *)
(* borrow that anyone may fill, the rollover of a debt into a new term     *)
(* that anyone may execute, the owner's settings for rollovers, and the    *)
(* debt term and maturity of a reserve, which the market owner may change. *)
(*                                                                         *)
(* All the reserves have the mint of the order, and one borrow factor: a   *)
(* fill or a rollover that mixes these is refused.  Prices are 1, debts    *)
(* are counted in 1/SF of a token, and whether the collateral supports a   *)
(* debt is the constant `allowed_borrow_value` (Position has the rest).    *)
(* A debt term or maturity of 0 stands for none, and so does timestamp 0.  *)
(***************************************************************************)
EXTENDS Reserve, FiniteSets, FiniteSetsExt, Functions

CONSTANTS ReserveId,
          market,                 \* settings of the lending market
          max_borrow_rate_bps,    \* of each reserve
          queued,                 \* liquidity of each reserve promised to its queue
          allowed_borrow_value,   \* in 1/SF
          InitialTerm,            \* debt term of each reserve at first
          InitialMaturity,        \* debt maturity of each reserve at first
          InitialAvailable,       \* liquidity of each reserve at first
          Terms, Maturities,      \* bound: terms and maturities the market owner sets
          Configured,             \* bound: reserves whose borrows the owner configures
          OrderConfigs,           \* bound: orders the owner tries
          Amounts,                \* bound: tokens borrowed or repaid directly
          Rates, MinTerms,        \* bound: values the owner sets for rollovers
          MaxNow,                 \* bound: time
          Never                   \* a time after the end of every term

VARIABLES now,
          fresh,      \* obligation and reserves: "yes" refreshed, "stale" used since
                      \* in the same slot, "old" of an earlier slot
          term,       \* debt term of each reserve
          maturity,   \* debt maturity of each reserve
          available,  \* tokens in each reserve's vault
          slot,       \* the obligation's borrow from each reserve
          order,      \* the obligation's borrow order
          seen,       \* remaining amount of the order that its owner knows of
          unseen,     \* tokens filled since, which the owner does not know of
          promised    \* per reserve: earliest end of the debt the owner agreed to

vars == <<now, fresh, term, maturity, available, slot, order, seen, unseen, promised>>

TermSeconds == {t \in Nat : MaxNow + t < Never}
Config == [auto : BOOLEAN, open : BOOLEAN, migration : BOOLEAN, rate : Nat, min_term : TermSeconds]
Borrowed == [debt : Nat, last : Nat, captured : Nat, config : Config]
Order == [remaining : Nat, rate : Nat, min_term : TermSeconds, until : Nat, auto : BOOLEAN]

ASSUME FixedTermAssumption ==
    /\ IsFiniteSet(ReserveId)
    /\ MaxNow \in Nat \ {0} /\ Never \in Nat /\ MaxNow < Never
    /\ InitialMaturity \in [ReserveId -> 0..(Never - 1)]
    /\ queued \in [ReserveId -> Nat] /\ InitialAvailable \in [ReserveId -> Nat]
    /\ allowed_borrow_value \in Nat
    /\ InitialTerm \in [ReserveId -> TermSeconds]
    /\ Terms \subseteq TermSeconds /\ MinTerms \subseteq TermSeconds
    /\ Maturities \subseteq 0..(Never - 1)
    /\ OrderConfigs \subseteq Order
    /\ Amounts \subseteq Nat /\ Rates \subseteq Nat

NoConfig == [auto |-> FALSE, open |-> FALSE, migration |-> FALSE, rate |-> 0, min_term |-> 0]
NoBorrow == [debt |-> 0, last |-> 0, captured |-> 0, config |-> NoConfig]
NoOrder == [remaining |-> 0, rate |-> 0, min_term |-> 0, until |-> 0, auto |-> FALSE]

Total(s) == SumFunctionOnSet([r \in ReserveId |-> s[r].debt], ReserveId)
ceil(debt) == DivCeil(debt, SF)
freely_available(r) == Max({available[r] - queued[r], 0})

-----------------------------------------------------------------------------
(* Terms                                                                   *)

get_debt_term_end_timestamp(b, t) == IF t = 0 \/ b.last = 0 THEN Never ELSE b.last + t
Expired(b, t) == now >= get_debt_term_end_timestamp(b, t)

\* None is 0 on the side of the order, and anything as long as wanted on the
\* side of the reserve; an order for open-term debt is content with nothing else.
is_term_satisfied(min_requested, max_offered) ==
    IF min_requested = 0 THEN max_offered = Never ELSE min_requested <= max_offered

offered_term(r) == IF term[r] = 0 THEN Never ELSE term[r]
seconds_until_maturity(r) ==
    IF maturity[r] = 0 THEN Never ELSE Max({maturity[r] - now, 0})

Matures(m) == IF m = 0 THEN Never ELSE m
matured(r) == now >= Matures(maturity[r])

\* A debt may be liquidated from the end of its term or from the maturity of its
\* reserve on, whichever is first.
falls_due(r) == Lesser(get_debt_term_end_timestamp(slot[r], term[r]), Matures(maturity[r]))

-----------------------------------------------------------------------------
(* Borrowing                                                               *)

check_borrow_possible(r) == fresh = "yes" /\ ~matured(r)
check_repay_possible(r) == fresh = "yes" /\ slot[r].debt > 0

\* A borrow adds to the slot and starts its term again; a slot whose term has
\* ended takes no more.
CanBorrow(r, tokens) ==
    /\ check_borrow_possible(r)
    /\ tokens > 0 /\ tokens <= freely_available(r)
    /\ Total(slot) + tokens * SF <= allowed_borrow_value
    /\ ~Expired(slot[r], term[r])

borrowed(b, d) == [b EXCEPT !.debt = @ + d, !.last = now]

\* A slot without debt is empty again.
repaid(b, d) == IF d = b.debt THEN NoBorrow ELSE [b EXCEPT !.debt = @ - d]

-----------------------------------------------------------------------------
(* The borrow order                                                        *)

clear_if_past_fillable_timestamp(o) == IF o # NoOrder /\ o.until < now THEN NoOrder ELSE o

check_order_remaining_debt_value(remaining) == remaining >= market.min_borrow_order_fill_value

check_order_config_valid(c) ==
    /\ c.rate # 0 /\ c.remaining # 0 /\ c.until >= now
    /\ check_order_remaining_debt_value(c.remaining)

\* Faulty variant: the fills the owner does not know of are ignored.
expectation_ignored(min_expected) == TRUE

expectation_met(min_expected) == order.remaining >= min_expected

\* The settings a filled order leaves on the borrow.
\* Faulty variant: they always allow a migration to a fixed term.
rollover_config_for_filled_borrow_migrating(o) ==
    [auto |-> TRUE, open |-> TRUE, migration |-> TRUE, rate |-> o.rate, min_term |-> o.min_term]

get_rollover_config_for_filled_borrow(o) ==
    [auto |-> TRUE, open |-> TRUE, migration |-> o.min_term # 0,
     rate |-> o.rate, min_term |-> o.min_term]

\* A borrow that was there before keeps its settings, which must be the same.
propagate_rollover_config_to_borrow(o, before, after) ==
    IF before.debt = 0
    THEN [after EXCEPT !.config = get_rollover_config_for_filled_borrow(o)]
    ELSE after

can_propagate(o, before) ==
    /\ market.rollover_configuration_enabled
    /\ before.debt = 0 \/ before.config = get_rollover_config_for_filled_borrow(o)

\* AtMost: the rest of the order, or what liquidity and collateral allow.
fill_amount(r) ==
    Min({order.remaining, freely_available(r), (allowed_borrow_value - Total(slot)) \div SF})

\* Faulty variant: an order does not ask when the reserve's debts mature.
CanFillImmature(r, tokens) ==
    /\ market.borrow_order_execution_enabled
    /\ max_borrow_rate_bps[r] <= order.rate
    /\ is_term_satisfied(order.min_term, offered_term(r))
    /\ now <= order.until
    /\ tokens < order.remaining =>
          /\ tokens >= market.min_borrow_order_fill_value
          /\ check_order_remaining_debt_value(order.remaining - tokens)

CanFill(r, tokens) ==
    /\ market.borrow_order_execution_enabled
    /\ max_borrow_rate_bps[r] <= order.rate
    /\ is_term_satisfied(order.min_term, offered_term(r))
    /\ is_term_satisfied(order.min_term, seconds_until_maturity(r))
    /\ now <= order.until
    /\ tokens < order.remaining =>
          /\ tokens >= market.min_borrow_order_fill_value
          /\ check_order_remaining_debt_value(order.remaining - tokens)

filled(o, tokens) ==
    IF tokens = o.remaining THEN NoOrder ELSE [o EXCEPT !.remaining = @ - tokens]

-----------------------------------------------------------------------------
(* Rollover                                                                *)

FixedTargetAccepted(c, t) ==
    /\ max_borrow_rate_bps[t] <= c.rate
    /\ c.min_term # 0 /\ term[t] >= c.min_term

resolve_rollover_from_fixed_term_mode(c, t) ==
    CASE ~c.auto -> "refused"
      [] c.auto /\ term[t] = 0 -> IF c.open THEN "FixedToOpen" ELSE "refused"
      [] OTHER -> IF FixedTargetAccepted(c, t) THEN "FixedToFixed" ELSE "refused"

check_migration_to_fixed_term_possible(c, t) ==
    c.migration /\ term[t] # 0 /\ FixedTargetAccepted(c, t)

resolve_rollover_mode(c, s, t) ==
    IF term[s] # 0 THEN resolve_rollover_from_fixed_term_mode(c, t)
    ELSE IF check_migration_to_fixed_term_possible(c, t) THEN "OpenToFixed" ELSE "refused"

\* A debt whose term has ended is 0 seconds from its end.
check_within_rollover_window(s, window) ==
    LET end == get_debt_term_end_timestamp(slot[s], term[s])
    IN  window # 0 /\ end # Never /\ Max({end - now, 0}) <= window

resolve_allowed_rollover_time(mode, s) ==
    \/ mode = "FixedToFixed" /\ check_within_rollover_window(s, market.fixed_term_window)
    \/ mode = "FixedToOpen" /\ check_within_rollover_window(s, market.open_term_window)
    \/ mode = "OpenToFixed" /\ market.migration_to_fixed_enabled

\* Into a borrow that exists: same settings, and a later end of the term.
check_rollover_into_existing_slot_possible(s, t) ==
    /\ slot[s].config = slot[t].config
    /\ term[s] # 0 /\ term[t] # 0 =>
          get_debt_term_end_timestamp(slot[t], term[t])
              > get_debt_term_end_timestamp(slot[s], term[s])

check_rollover_possible(s, t) ==
    /\ check_repay_possible(s) /\ check_borrow_possible(t)
    /\ resolve_allowed_rollover_time(resolve_rollover_mode(slot[s].config, s, t), s)
    /\ s # t /\ slot[t].debt # 0 => check_rollover_into_existing_slot_possible(s, t)

\* What the repayment brings back may go out again, but not to the queue's cost.
check_same_reserve_rollover_liquidity_available(r) ==
    slot[r].debt <= Max({available[r] * SF + slot[r].debt - queued[r] * SF, 0})

\* A debt that moves to an open term keeps its settings only if they let it return.
preserves_rollover_config(c, t) == term[t] # 0 \/ c.migration

\* Faulty variant: the amount captured at the end of the old term stays.
renewed_uncaptured(b) == [b EXCEPT !.last = now]

renewed(b) == [b EXCEPT !.last = now, !.captured = 0]

tokens_to_transfer_over(s, t) == Min({freely_available(t), ceil(slot[s].debt)})

moved(s, t, tokens) ==
    [renewed(borrowed(slot[t], tokens * SF)) EXCEPT
        !.config = IF preserves_rollover_config(slot[s].config, t)
                   THEN slot[s].config ELSE NoConfig]

\* The handler compares the books before and after.
rollover_post_checks(tokens, settled) ==
    settled <= tokens * SF /\ tokens * SF - settled < SF

-----------------------------------------------------------------------------
(* Settings                                                                *)

check_enabled_rollover_config_integrity(c) ==
    /\ c.auto \/ c.migration => market.rollover_configuration_enabled /\ c.rate # 0
    /\ c.migration => c.min_term # 0

check_debt_term_not_shortened_on_reserve_having_borrows(previous, new, has_borrows) ==
    ~has_borrows \/ new = 0 \/ (previous # 0 /\ new >= previous)

check_not_set_in_the_past(timestamp) == timestamp = 0 \/ timestamp >= now

-----------------------------------------------------------------------------
(* What the owner agreed to, for the properties                            *)

EndAfter(seconds) == IF seconds \in {0, Never} THEN Never ELSE now + seconds
EndIn(r, seconds) == Lesser(EndAfter(seconds), Matures(maturity[r]))
Agree(r, end) == [promised EXCEPT ![r] = IF slot[r].debt = 0 THEN end ELSE Max({@, end})]
Kept(p, s) == [r \in ReserveId |-> IF s[r].debt = 0 THEN 0 ELSE p[r]]

-----------------------------------------------------------------------------
(* Instructions                                                            *)

Init ==
    /\ now = 1 /\ fresh = "old"
    /\ term = InitialTerm /\ maturity = InitialMaturity /\ available = InitialAvailable
    /\ slot = [r \in ReserveId |-> NoBorrow]
    /\ order = NoOrder /\ seen = 0 /\ unseen = 0
    /\ promised = [r \in ReserveId |-> 0]

Tick ==
    /\ now < MaxNow
    /\ now' = now + 1 /\ fresh' = "old"
    /\ UNCHANGED <<term, maturity, available, slot, order, seen, unseen, promised>>

capture_borrowed_amount_at_expiration(b, t) ==
    IF b.captured = 0 /\ b.debt # 0 /\ Expired(b, t) THEN [b EXCEPT !.captured = now] ELSE b

\* Interest accrues on refresh, here by one part of a token or not
\* at all, for the time since the last refresh.
RefreshObligation ==
    /\ fresh # "yes" /\ fresh' = "yes"
    /\ \E interest \in IF fresh = "old" THEN {0, 1} ELSE {0} :
          slot' = [r \in ReserveId |->
                      LET b == slot[r]
                          grows == b.debt > 0 /\ Total(slot) < allowed_borrow_value
                      IN  capture_borrowed_amount_at_expiration(
                              [b EXCEPT !.debt = IF grows THEN @ + interest ELSE @], term[r])]
    /\ order' = clear_if_past_fillable_timestamp(order)
    /\ UNCHANGED <<now, term, maturity, available, seen, unseen, promised>>

\* The owner looks at its obligation; what it signs next is based on that.
ReadOrder ==
    /\ seen' = order.remaining /\ unseen' = 0
    /\ UNCHANGED <<now, fresh, term, maturity, available, slot, order, promised>>

\* The owner's transaction states the amount it has seen.
SetBorrowOrder(c) ==
    /\ expectation_met(seen)
    /\ \/ c = NoOrder
       \/ /\ check_order_config_valid(c)
          /\ clear_if_past_fillable_timestamp(order) = NoOrder =>
                 market.borrow_order_creation_enabled
    /\ order' = c
    /\ seen' = c.remaining /\ unseen' = 0
    /\ UNCHANGED <<now, fresh, term, maturity, available, slot, promised>>

FillBorrowOrder(r) ==
    LET tokens == fill_amount(r)
        after == borrowed(slot[r], tokens * SF)
    IN  /\ order # NoOrder
        /\ CanBorrow(r, tokens) /\ CanFill(r, tokens)
        /\ order.auto => can_propagate(order, slot[r])
        /\ slot' = [slot EXCEPT ![r] =
              IF order.auto THEN propagate_rollover_config_to_borrow(order, slot[r], after)
                            ELSE after]
        /\ available' = [available EXCEPT ![r] = @ - tokens]
        /\ order' = filled(order, tokens)
        /\ unseen' = unseen + tokens
        /\ promised' = Agree(r, EndAfter(order.min_term))
        /\ fresh' = "stale"
        /\ UNCHANGED <<now, term, maturity, seen>>

Borrow(r, tokens) ==
    /\ CanBorrow(r, tokens)
    /\ slot' = [slot EXCEPT ![r] = borrowed(@, tokens * SF)]
    /\ available' = [available EXCEPT ![r] = @ - tokens]
    /\ promised' = Agree(r, EndIn(r, term[r]))
    /\ fresh' = "stale"
    /\ UNCHANGED <<now, term, maturity, order, seen, unseen>>

Repay(r, tokens) ==
    LET settled == Min({tokens * SF, slot[r].debt})
    IN  /\ check_repay_possible(r)
        /\ slot' = [slot EXCEPT ![r] = repaid(@, settled)]
        /\ available' = [available EXCEPT ![r] = @ + ceil(settled)]
        /\ promised' = Kept(promised, slot')
        /\ fresh' = "stale"
        /\ UNCHANGED <<now, term, maturity, order, seen, unseen>>

rollover_borrow_into_same_reserve(r) ==
    /\ check_rollover_possible(r, r)
    /\ check_same_reserve_rollover_liquidity_available(r)
    /\ slot' = [slot EXCEPT ![r] = renewed(@)]
    /\ promised' = Agree(r, EndIn(r, slot[r].config.min_term))
    /\ fresh' = "stale"
    /\ UNCHANGED <<now, term, maturity, available, order, seen, unseen>>

rollover_borrow_into_different_reserve(s, t) ==
    LET tokens == tokens_to_transfer_over(s, t)
        settled == Min({tokens * SF, slot[s].debt})
        agreed == EndIn(t, IF term[t] = 0 THEN 0 ELSE slot[s].config.min_term)
    IN  /\ s # t
        /\ check_rollover_possible(s, t)
        /\ tokens > 0
        /\ tokens * SF < slot[s].debt => tokens >= market.min_partial_rollover_value
        /\ Total(slot) + tokens * SF - settled <= allowed_borrow_value
        /\ rollover_post_checks(tokens, settled)
        /\ slot' = [slot EXCEPT ![s] = repaid(@, settled), ![t] = moved(s, t, tokens)]
        /\ available' = [available EXCEPT ![s] = @ + tokens, ![t] = @ - tokens]
        /\ promised' = Kept(Agree(t, agreed), slot')
        /\ fresh' = "stale"
        /\ UNCHANGED <<now, term, maturity, order, seen, unseen>>

\* One setting at a time; switching something off is never refused.
updated_configs(c) ==
    LET switched == {[c EXCEPT !.auto = b] : b \in BOOLEAN}
        migrated == {[c EXCEPT !.migration = b] : b \in BOOLEAN}
        others == {[c EXCEPT !.open = b] : b \in BOOLEAN}
                  \cup {[c EXCEPT !.rate = x] : x \in Rates}
                  \cup {[c EXCEPT !.min_term = x] : x \in MinTerms}
    IN  {n \in switched : n.auto => check_enabled_rollover_config_integrity(n)}
        \cup {n \in migrated : n.migration => check_enabled_rollover_config_integrity(n)}
        \cup {n \in others : check_enabled_rollover_config_integrity(n)}

update_obligation_config(r) ==
    /\ r \in Configured /\ slot[r].debt > 0
    /\ \E c \in updated_configs(slot[r].config) : slot' = [slot EXCEPT ![r].config = c]
    /\ UNCHANGED <<now, fresh, term, maturity, available, order, seen, unseen, promised>>

\* The reserve is refreshed again before its next use; the obligation need not be.
UpdateDebtTermSeconds(r, new) ==
    /\ new # term[r]
    /\ check_debt_term_not_shortened_on_reserve_having_borrows(term[r], new, slot[r].debt > 0)
    /\ term' = [term EXCEPT ![r] = new]
    /\ UNCHANGED <<now, fresh, maturity, available, slot, order, seen, unseen, promised>>

\* Unlike the term, the maturity may come nearer with debts in the reserve.
UpdateDebtMaturityTimestamp(r, new) ==
    /\ new # maturity[r]
    /\ check_not_set_in_the_past(new)
    /\ maturity' = [maturity EXCEPT ![r] = new]
    /\ promised' = [promised EXCEPT ![r] = Lesser(@, Matures(new))]
    /\ UNCHANGED <<now, fresh, term, available, slot, order, seen, unseen>>

Next ==
    \/ Tick \/ RefreshObligation \/ ReadOrder
    \/ \E c \in OrderConfigs \cup {NoOrder} : SetBorrowOrder(c)
    \/ \E r \in ReserveId :
          \/ FillBorrowOrder(r)
          \/ \E tokens \in Amounts : Borrow(r, tokens) \/ Repay(r, tokens)
          \/ rollover_borrow_into_same_reserve(r)
          \/ \E t \in ReserveId : rollover_borrow_into_different_reserve(r, t)
          \/ update_obligation_config(r)
          \/ \E new \in Terms : UpdateDebtTermSeconds(r, new)
          \/ \E new \in Maturities : UpdateDebtMaturityTimestamp(r, new)

Spec == Init /\ [][Next]_vars

-----------------------------------------------------------------------------
(* Properties                                                              *)

\* An order is empty or whole, as is a borrow: with no debt left, nothing of
\* its settings and timestamps is (Obligation::repay, fill_borrow_order).
TypeOK ==
    /\ now \in 1..MaxNow /\ fresh \in {"yes", "stale", "old"}
    /\ term \in [ReserveId -> TermSeconds] /\ available \in [ReserveId -> Nat]
    /\ maturity \in [ReserveId -> 0..(Never - 1)]
    /\ slot \in [ReserveId -> Borrowed] /\ order \in Order
    /\ promised \in [ReserveId -> 0..Never] /\ seen \in Nat /\ unseen \in Nat
    /\ \A r \in ReserveId :
          slot[r] = NoBorrow \/ (slot[r].debt > 0 /\ slot[r].last \in 1..now)
    /\ order = NoOrder \/ (order.remaining > 0 /\ order.rate > 0 /\ order.until > 0)

\* A fill between the owner's look at its order and the update it signed
\* afterwards does not slip through: the update would ask for the filled part
\* once more (handler_set_borrow_order, min_expected_current_remaining_debt_amount).
NoBlindUpdate ==
    [][order'.remaining > order.remaining => unseen = 0]_vars

\* No debt falls due, by the end of its term or by the maturity of its reserve,
\* earlier than its owner agreed to: by an order's minimum term, by the minimum
\* term set for rollovers, or by the term and maturity of the reserve borrowed
\* from.  Fills and changes of a reserve's term never bring the end forward, nor
\* do rollovers by strangers, but for what `promised` concedes: a rollover looks
\* at the target's term and not at its maturity, which may be sooner, and the
\* market owner's change of a maturity is not checked against the debts.
TermPromised ==
    \A r \in ReserveId : slot[r].debt > 0 => falls_due(r) >= promised[r]

\* A debt whose term has ended starts again only with the amount captured for
\* its liquidation forgotten, or the liquidation after the next term would be
\* measured by the old one.  (A borrow in a term that was prolonged after its
\* end keeps it: the reserve's new term is not applied to the captured amounts.)
CaptureOfThisTerm ==
    [][\A r \in ReserveId :
          slot'[r].last # slot[r].last /\ Expired(slot[r], term[r]) =>
              slot'[r].captured = 0]_vars

\* Settings that allow strangers to move a debt always carry a rate limit, and
\* those that allow a migration a minimum term, however they got into the slot:
\* by the owner, from a filled order or from a rollover.  Slots and orders are
\* empty or whole.
IntegrityKept ==
    /\ TypeOK
    /\ \A r \in ReserveId :
          LET c == slot[r].config
          IN  /\ c.auto \/ c.migration => c.rate # 0
              /\ c.migration => c.min_term # 0
=============================================================================

------------------------------- MODULE Prices -------------------------------
(***************************************************************************)
(* The prices of klend's reserves: read from up to three oracles, checked  *)
(* once when they are loaded, saved with the checks they passed, and used  *)
(* later by operations that each require some of these checks, of the      *)
(* reserves they touch and of the obligation that counted its reserves.    *)
(*                                                                         *)
(* Of a saved price the timestamp and the passed checks are kept; its      *)
(* value matters to the checks alone.  What an oracle publishes is an      *)
(* input: Unreadable, or a message whose age is relative to the clock, a   *)
(* negative one being ahead of it.  `current` stands for "not marked stale *)
(* and refreshed in this slot".  The obligation has one collateral reserve *)
(* and, at times, a debt.  The market's emergency mode, which only refuses *)
(* operations, is left to MarketConfig.                                    *)
(***************************************************************************)
EXTENDS Integers, Sequences, FiniteSetsExt

CONSTANTS Collateral, Debt,      \* the two reserves
          FirstTokenInfo,        \* token_info of each reserve at the start
          TokenValues,           \* bound: values tried for settings of each reserve
          Unreadable,
          PythMessages, SwitchboardMessages, ScopeMessages,   \* bounds: messages tried
          Triggers,              \* bound: price_refresh_trigger_to_max_age_pct
          FirstNow, LastNow,     \* bound: unix time
          MaxAhead               \* seconds an oracle's clock may be ahead

ReservesPriced == {Collateral, Debt}

TokenFlags == {"pyth", "switchboard", "scope", "has_twap", "block_price_usage", "emergency"}
TokenNumbers == {"max_age_price_seconds", "max_age_twap_seconds", "max_twap_divergence_bps",
                 "heuristic_lower", "heuristic_upper"}

IsTokenInfo(t) ==
    /\ DOMAIN t = TokenFlags \cup TokenNumbers
    /\ \A field \in TokenFlags : t[field] \in BOOLEAN
    /\ \A field \in TokenNumbers : t[field] \in Nat

\* A timestamp is a unix time, so none is older than the clock; Switchboard's
\* is computed from its slot and saturates.
ASSUME PricesAssumption ==
    /\ Collateral # Debt
    /\ FirstNow \in Nat /\ LastNow \in Nat /\ MaxAhead \in Nat
    /\ DOMAIN FirstTokenInfo = ReservesPriced
    /\ \A r \in ReservesPriced :
          /\ IsTokenInfo(FirstTokenInfo[r])
          /\ \A field \in DOMAIN TokenValues[r] :
                /\ field \in TokenFlags \cup TokenNumbers
                /\ field \in TokenFlags => TokenValues[r][field] \subseteq BOOLEAN
                /\ field \in TokenNumbers => TokenValues[r][field] \subseteq Nat
    /\ \A m \in PythMessages : m.age \in -MaxAhead .. FirstNow
    /\ \A m \in SwitchboardMessages : m.feed.age \in Int /\ m.feed.age >= -MaxAhead
    /\ \A m \in ScopeMessages :
          m.price_chain \in Seq([value : Nat, age : -MaxAhead .. FirstNow])

VARIABLES now,
          trigger,          \* price_refresh_trigger_to_max_age_pct of the market
          token_info,       \* token_info and emergency of each reserve
          saved,            \* saved price of each reserve: time, status, current
          position,         \* the obligation: status, current, has_debt
          blocked_since,    \* history: when the use of a reserve's price was blocked
          counted           \* history: whether each price the obligation counted when it
                            \* was refreshed was young enough

pricesVars == <<now, trigger, token_info, saved, position,
                blocked_since, counted>>

CONFIDENCE_FACTOR == 50
FULL_BPS == 10000

PriceStatusFlags == {"PRICE_LOADED", "PRICE_AGE_CHECKED", "TWAP_CHECKED",
                     "TWAP_AGE_CHECKED", "HEURISTIC_CHECKED", "PRICE_USAGE_ALLOWED"}
NONE == {}
ALL_CHECKS == PriceStatusFlags
LIQUIDATION_CHECKS == {"PRICE_LOADED", "PRICE_AGE_CHECKED", "PRICE_USAGE_ALLOWED"}

saturating_sub(a, b) == IF a > b THEN a - b ELSE 0
age_of(timestamp) == saturating_sub(now, timestamp)

is_stale(last_update, min_price_status) ==
    ~last_update.current \/ ~(min_price_status \subseteq last_update.status)

-----------------------------------------------------------------------------
(* token_info                                                              *)

is_twap_enabled(t) == t.max_twap_divergence_bps > 0

is_token_info_valid(t) == t.pyth \/ t.switchboard \/ t.scope

\* Every enabled oracle but Pyth needs a TWAP configured.
is_twap_config_valid(t) ==
    is_twap_enabled(t) => t.max_age_twap_seconds # 0 /\ (t.scope \/ t.switchboard => t.has_twap)

\* The accounts given are those configured: a message for each enabled oracle,
\* nothing for the others.
validate_token_info_config(t, feeds) ==
    /\ is_token_info_valid(t) /\ is_twap_config_valid(t)
    /\ \A oracle \in {"pyth", "switchboard", "scope"} : ~t[oracle] => feeds[oracle] = Unreadable

-----------------------------------------------------------------------------
(* The oracles.  What they yield is a price, loadable or not, with its     *)
(* timestamp and perhaps a TWAP with its own.                              *)

NoTwap == [loads |-> FALSE, value |-> 0, timestamp |-> 0, given |-> FALSE]
TimestampedPrice(loads, value, timestamp) ==
    [loads |-> loads, value |-> value, timestamp |-> timestamp, given |-> TRUE]

\* Nothing (the empty set), or one price with its TWAP.
into_pyth_price_and_twap(m) ==
    [price |-> TimestampedPrice(TRUE, m.price, now - m.age),
     twap  |-> TimestampedPrice(TRUE, m.ema_price, now - m.age)]

validate_pyth_confidence(price, conf) == price # 0 /\ conf * CONFIDENCE_FACTOR <= price

\* A negative price ends the program where its confidence is looked at.
pyth_aborts(m) ==
    /\ m # Unreadable /\ m.fully_verified
    /\ \/ m.price < 0
       \/ validate_pyth_confidence(m.price, m.conf) /\ m.ema_price < 0

get_pyth_price_and_twap(m) ==
    IF /\ m # Unreadable
       /\ m.fully_verified
       /\ validate_pyth_confidence(m.price, m.conf)
       /\ validate_pyth_confidence(m.ema_price, m.ema_conf)
    THEN {into_pyth_price_and_twap(m)}
    ELSE {}

validate_switchboard_confidence(price, stdev) == stdev * CONFIDENCE_FACTOR < price

\* The confidence is looked at only when the price is loaded.
get_switchboard_price(feed) ==
    TimestampedPrice(validate_switchboard_confidence(feed.price, feed.stdev), feed.price,
                     saturating_sub(now, feed.age))

get_switchboard_price_and_twap(m, t) ==
    IF /\ m # Unreadable /\ m.feed.price > 0
       /\ is_twap_enabled(t) => m.twap_feed # Unreadable /\ m.twap_feed.price > 0
    THEN {[price |-> get_switchboard_price(m.feed),
           twap  |-> IF is_twap_enabled(t) THEN get_switchboard_price(m.twap_feed) ELSE NoTwap]}
    ELSE {}

\* A chain of conversions is as old as its oldest link.
get_price_usd(chain) ==
    TimestampedPrice(TRUE,
                     FoldSet(LAMBDA i, product : chain[i].value * product, 1, DOMAIN chain),
                     now - Max({chain[i].age : i \in DOMAIN chain}))

get_scope_price_and_twap(m, t) ==
    IF m # Unreadable /\ m.price_chain # <<>>
    THEN {[price |-> get_price_usd(m.price_chain),
           twap  |-> IF t.has_twap /\ m.twap_chain # <<>> THEN get_price_usd(m.twap_chain)
                                                           ELSE NoTwap]}
    ELSE {}

more_recent(candidate, other) ==
    IF candidate.price.timestamp > other.price.timestamp THEN candidate ELSE other

\* Of two prices of the same time, the one of the earlier oracle.
reduce(A, B) == IF A = {} \/ B = {} THEN A \cup B
                ELSE {more_recent(b, a) : a \in A, b \in B}

get_most_recent_price_and_twap(t, feeds) ==
    LET pyth == IF t.pyth THEN get_pyth_price_and_twap(feeds.pyth) ELSE {}
        switchboard == IF t.switchboard THEN get_switchboard_price_and_twap(feeds.switchboard, t)
                                        ELSE {}
        scope == IF t.scope THEN get_scope_price_and_twap(feeds.scope, t) ELSE {}
    IN  reduce(reduce(pyth, switchboard), scope)

-----------------------------------------------------------------------------
(* Validation of the chosen price                                          *)

check_price_age(timestamp, max_age) == age_of(timestamp) <= max_age

is_within_tolerance(px, twap, bps) ==
    (IF px > twap THEN px - twap ELSE twap - px) * FULL_BPS < px * bps

check_price_heuristics(price, t) ==
    /\ t.heuristic_lower > 0 => t.heuristic_lower <= price
    /\ t.heuristic_upper > 0 => price <= t.heuristic_upper

\* Which checks the price passes.
price_checks(p, t) ==
    [PRICE_LOADED |-> TRUE,
     PRICE_AGE_CHECKED |-> check_price_age(p.price.timestamp, t.max_age_price_seconds),
     TWAP_AGE_CHECKED |->
        is_twap_enabled(t) =>
           p.twap.given /\ check_price_age(p.twap.timestamp, t.max_age_twap_seconds),
     TWAP_CHECKED |->
        is_twap_enabled(t) =>
           /\ p.twap.given /\ p.twap.loads
           /\ is_within_tolerance(p.price.value, p.twap.value, t.max_twap_divergence_bps),
     HEURISTIC_CHECKED |-> check_price_heuristics(p.price.value, t),
     PRICE_USAGE_ALLOWED |-> ~t.block_price_usage]

\* No result (the empty set) if the price does not load.
get_validated_price(p, t) ==
    IF p.price.loads
    THEN {[timestamp |-> p.price.timestamp,
           status |-> {flag \in PriceStatusFlags : price_checks(p, t)[flag]}]}
    ELSE {}

-----------------------------------------------------------------------------
(* Refreshing a reserve                                                    *)

is_saved_price_age_valid(r) ==
    age_of(saved[r].time) < token_info[r].max_age_price_seconds

is_price_refresh_needed(r) ==
    age_of(saved[r].time) >= (token_info[r].max_age_price_seconds * trigger) \div 100

\* The reserve's saved price after a refresh; result holds the new price, if any.
refresh_reserve(r, result) ==
    IF token_info[r].emergency
    THEN [time |-> 0, status |-> {}, current |-> TRUE]
    ELSE IF result # {}
    THEN LET new == CHOOSE new \in result : TRUE
         IN  [time |-> new.timestamp, status |-> new.status, current |-> TRUE]
    ELSE [saved[r] EXCEPT !.current = TRUE,
                          !.status = IF is_saved_price_age_valid(r) THEN @ ELSE {}]

\* A message of the oracles r does not use is not given.
FeedsOf(r) ==
    [pyth : {Unreadable} \cup (IF token_info[r].pyth THEN PythMessages ELSE {}),
     switchboard : {Unreadable} \cup (IF token_info[r].switchboard THEN SwitchboardMessages ELSE {}),
     scope : {Unreadable} \cup (IF token_info[r].scope THEN ScopeMessages ELSE {})]

wants_price(r) == ~token_info[r].emergency /\ is_price_refresh_needed(r)

\* Without a usable oracle the refresh fails; that of a price that does not
\* load succeeds without a new price.
refreshed_with(r, feeds) ==
    LET found == get_most_recent_price_and_twap(token_info[r], feeds) IN
    refresh_reserve(r, UNION {get_validated_price(p, token_info[r]) : p \in found})

price_available(r, feeds) ==
    /\ validate_token_info_config(token_info[r], feeds)
    /\ ~(token_info[r].pyth /\ pyth_aborts(feeds.pyth))
    /\ get_most_recent_price_and_twap(token_info[r], feeds) # {}

\* What a refresh of r may save, given what the oracles may publish.
outcomes_of_refresh(r) ==
    IF wants_price(r)
    THEN {refreshed_with(r, feeds) : feeds \in {f \in FeedsOf(r) : price_available(r, f)}}
    ELSE {refresh_reserve(r, {})}

RefreshReserve(r) ==
    /\ \E outcome \in outcomes_of_refresh(r) : saved' = [saved EXCEPT ![r] = outcome]
    /\ UNCHANGED <<now, trigger, token_info, position, blocked_since, counted>>

\* All the reserves or none; the caller may leave the prices out.
RefreshReservesBatch(skip_price_updates) ==
    /\ \/ /\ skip_price_updates
          /\ saved' = [r \in ReservesPriced |-> refresh_reserve(r, {})]
       \/ /\ ~skip_price_updates
          /\ \E c \in outcomes_of_refresh(Collateral), d \in outcomes_of_refresh(Debt) :
                saved' = [r \in ReservesPriced |-> IF r = Collateral THEN c ELSE d]
    /\ UNCHANGED <<now, trigger, token_info, position, blocked_since, counted>>

\* A deposit, redemption or another operation of the reserve alone refreshes it
\* without a price and leaves it stale.
OperateOnReserve(r) ==
    /\ saved' = [saved EXCEPT ![r] = [refresh_reserve(r, {}) EXCEPT !.current = FALSE]]
    /\ UNCHANGED <<now, trigger, token_info, position, blocked_since, counted>>

-----------------------------------------------------------------------------
(* The obligation                                                          *)

NothingCounted == [r \in {} |-> TRUE]
reserves_of_position == {Collateral} \cup (IF position.has_debt THEN {Debt} ELSE {})

\* Faulty variant: one price that passed a check is enough.
prices_state_any(R) == UNION {saved[r].status : r \in R}

\* What all the prices passed.
prices_state(R) == {flag \in PriceStatusFlags : \A r \in R : flag \in saved[r].status}

RefreshObligation ==
    /\ \A r \in reserves_of_position : ~is_stale(saved[r], NONE)
    /\ position' = [position EXCEPT !.current = TRUE, !.status = prices_state(reserves_of_position)]
    /\ counted' = [r \in reserves_of_position |->
                      age_of(saved[r].time) <= token_info[r].max_age_price_seconds]
    /\ UNCHANGED <<now, trigger, token_info, saved, blocked_since>>

\* The reserves R and the obligation are stale after the operation.
LeaveStale(R, has_debt) ==
    /\ saved' = [r \in ReservesPriced |-> IF r \in R THEN [saved[r] EXCEPT !.current = FALSE]
                                                     ELSE saved[r]]
    /\ position' = [position EXCEPT !.current = FALSE, !.has_debt = has_debt]
    /\ counted' = NothingCounted
    /\ UNCHANGED <<now, trigger, token_info, blocked_since>>

check_borrow_possible == ~is_stale(saved[Debt], ALL_CHECKS) /\ ~is_stale(position, ALL_CHECKS)

BorrowAtPrices ==
    /\ check_borrow_possible
    /\ LeaveStale({Debt}, TRUE)

check_repay_possible == ~is_stale(saved[Debt], NONE) /\ ~is_stale(position, NONE)

\* Wholly, or in part.
RepayAtPrices(wholly) ==
    /\ position.has_debt /\ check_repay_possible
    /\ LeaveStale({Debt}, ~wholly)

required_price_status == IF position.has_debt THEN ALL_CHECKS ELSE NONE

WithdrawAtPrices ==
    /\ ~is_stale(saved[Collateral], required_price_status)
    /\ ~is_stale(position, required_price_status)
    /\ LeaveStale({}, position.has_debt)

assert_prices_for_liquidation ==
    /\ \A r \in ReservesPriced : ~is_stale(saved[r], LIQUIDATION_CHECKS)
    /\ ~is_stale(position, LIQUIDATION_CHECKS)

LiquidateAtPrices(wholly) ==
    /\ position.has_debt /\ assert_prices_for_liquidation
    /\ LeaveStale(ReservesPriced, ~wholly)

-----------------------------------------------------------------------------
(* Configuration and time                                                  *)

\* The reserve is refreshed under the old setting and left stale.
UpdateTokenInfo(r, mode, value) ==
    LET updated == [token_info[r] EXCEPT ![mode] = value] IN
    /\ value # token_info[r][mode]
    /\ is_token_info_valid(updated) /\ is_twap_config_valid(updated)
    /\ token_info' = [token_info EXCEPT ![r] = updated]
    /\ saved' = [saved EXCEPT ![r] = [refresh_reserve(r, {}) EXCEPT !.current = FALSE]]
    /\ blocked_since' = IF mode = "block_price_usage"
                      THEN [blocked_since EXCEPT ![r] = IF value THEN now ELSE 0]
                      ELSE blocked_since
    /\ UNCHANGED <<now, trigger, position, counted>>

\* A new slot, in the same second or the next.
NewSlot(seconds) ==
    /\ now + seconds <= LastNow /\ now' = now + seconds
    /\ saved' = [r \in ReservesPriced |-> [saved[r] EXCEPT !.current = FALSE]]
    /\ position' = [position EXCEPT !.current = FALSE]
    /\ counted' = NothingCounted
    /\ UNCHANGED <<trigger, token_info, blocked_since>>

InitPrices ==
    /\ now = FirstNow /\ trigger \in Triggers
    /\ token_info = FirstTokenInfo
    /\ saved = [r \in ReservesPriced |-> [time |-> 0, status |-> {}, current |-> FALSE]]
    /\ position = [status |-> {}, current |-> FALSE, has_debt |-> FALSE]
    /\ blocked_since = [r \in ReservesPriced |-> 0]
    /\ counted = NothingCounted

NextPrices ==
    \/ \E r \in ReservesPriced :
          \/ RefreshReserve(r) \/ OperateOnReserve(r)
          \/ \E mode \in DOMAIN TokenValues[r] : \E value \in TokenValues[r][mode] :
                UpdateTokenInfo(r, mode, value)
    \/ \E skip \in BOOLEAN : RefreshReservesBatch(skip)
    \/ RefreshObligation
    \/ BorrowAtPrices \/ WithdrawAtPrices
    \/ \E wholly \in BOOLEAN : RepayAtPrices(wholly) \/ LiquidateAtPrices(wholly)
    \/ \E seconds \in {0, 1} : NewSlot(seconds)

SpecPrices == InitPrices /\ [][NextPrices]_pricesVars

-----------------------------------------------------------------------------
(* Properties                                                              *)

\* Timestamps are unsigned, every status is a set of flags.
PricesTypeOK ==
    /\ now \in Nat
    /\ \A r \in ReservesPriced :
          /\ saved[r].time \in Nat /\ saved[r].status \subseteq PriceStatusFlags
          /\ saved[r].current \in BOOLEAN /\ token_info[r].emergency \in BOOLEAN
    /\ position.status \subseteq PriceStatusFlags /\ position.current \in BOOLEAN

\* A reserve whose price passes for a liquidation (so for a borrow too) is not
\* in emergency and its price is no older than the age limit of now, although
\* its age was checked when it was loaded, perhaps under another limit, and it
\* was kept since without being looked at.
UsablePriceYoung ==
    \A r \in ReservesPriced :
       ~is_stale(saved[r], LIQUIDATION_CHECKS) =>
          /\ ~token_info[r].emergency
          /\ age_of(saved[r].time) <= token_info[r].max_age_price_seconds

\* An obligation that passes for a liquidation counted only prices that were
\* young enough when it counted them, in this very slot, its debt's included.
CountedPricesYoung ==
    ~is_stale(position, LIQUIDATION_CHECKS) =>
       /\ DOMAIN counted = reserves_of_position
       /\ \A r \in DOMAIN counted : counted[r]

\* A blocked price can be used for as long as it was already saved and is young
\* enough, so for no longer than the age limit after it was blocked.
BlockedPriceExpires ==
    \A r \in ReservesPriced :
       (token_info[r].block_price_usage /\ ~is_stale(saved[r], LIQUIDATION_CHECKS)) =>
          now - blocked_since[r] <= token_info[r].max_age_price_seconds + MaxAhead

\* No liquidation and no borrow is valued by an old price, neither the
\* reserve's own, nor one the obligation counted before, nor for long one whose
\* use was blocked since (check_not_stale, refresh_reserve, refresh_obligation).
PricesYoung ==
    PricesTypeOK /\ UsablePriceYoung /\ CountedPricesYoung /\ BlockedPriceExpires
===============================================================================

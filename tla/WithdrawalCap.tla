---------------------------- MODULE WithdrawalCap ----------------------------
(***************************************************************************)
(* One of klend's withdrawal caps over time: every borrow, or redemption,  *)
(* of a reserve passes it and repayments, or deposits, credit it           *)
(* (lending_market/withdrawal_cap_operations.rs).                          *)
(***************************************************************************)
EXTENDS WithdrawalCaps

CONSTANTS Epoch,        \* unix time at which the reserve is created
          Capacities, Intervals,   \* settings the market owner may choose
          MaxTime,      \* bound: the last second
          Amounts,      \* bound: the amounts tried
          MaxNet        \* bound: units withdrawn or returned on balance

Time == Epoch..MaxTime

\* Settings are u64, capacity a non-negative i64; unix time is past the length
\* of any interval.
ASSUME CapAssumption ==
    /\ MaxI64 \in Nat /\ Epoch \in Nat /\ MaxTime \in Nat /\ Epoch <= MaxTime
    /\ MaxNet \in Nat
    /\ Capacities \subseteq 0..MaxI64
    /\ Intervals \subseteq 0..Epoch
    /\ Amounts \subseteq 0..MaxU64

VARIABLES caps,       \* the WithdrawalCaps of one accumulator
          now,        \* Clock::unix_timestamp
          net,        \* history variable: withdrawn less returned since caps.start
          steady      \* history variable: settings unchanged since caps.start

vars == <<caps, now, net, steady>>

Init ==
    /\ caps = [capacity |-> 0, interval |-> 0, start |-> 0, total |-> 0]
    /\ now = Epoch
    /\ net = 0 /\ steady = FALSE

-----------------------------------------------------------------------------
\* d units move: the caps count them, and the history variables record them.
Move(d) ==
    LET fresh == Limited(caps) /\ check_last_interval_elapsed(caps, now)
    IN  /\ caps' = Counted(caps, d, now)
        /\ net' = IF fresh THEN d ELSE net + d
        /\ net' \in -MaxNet..MaxNet
        /\ steady' = (steady \/ fresh)
        /\ UNCHANGED now

\* A borrow (debt_withdrawal_cap) or a redemption (deposit_withdrawal_cap).
Withdraw(x) == AddAccepted(caps, x, now) /\ Move(x)

\* A repayment or a deposit.
Return(x) == SubAccepted(caps, x, now) /\ Move(-x)

\* update_reserve_config: counter and start of the interval are kept.
Configure(capacity, interval) ==
    /\ caps' = [caps EXCEPT !.capacity = capacity, !.interval = interval]
    /\ steady' = FALSE
    /\ UNCHANGED <<now, net>>

\* The cluster's clock never runs backwards.
Tick == now < MaxTime /\ now' = now + 1 /\ UNCHANGED <<caps, net, steady>>

Next ==
    \/ \E x \in Amounts : Withdraw(x) \/ Return(x)
    \/ \E c \in Capacities, i \in Intervals : Configure(c, i)
    \/ Tick

Spec == Init /\ [][Next]_vars

-----------------------------------------------------------------------------
(* Properties                                                              *)

TypeOK ==
    /\ caps \in Caps
    /\ now \in Time
    /\ net \in Int /\ steady \in BOOLEAN

\* Since the present interval began no more than the capacity has left the
\* reserve on balance, whatever saturated, overflowed or ran out before,
\* unless the settings changed in that interval.
NetWithinCapacity ==
    Limited(caps) /\ steady => net = caps.total /\ net <= caps.capacity

\* What remaining_withdrawal_caps_amount tells calculate_borrow is the truth:
\* a withdrawal of that much passes add_to_withdrawal_accum in the same second,
\* and a larger one does not.
RemainingIsTrue ==
    \A x \in 0..MaxI64 :
        x <= remaining_withdrawal_caps_amount(caps, now) <=> AddAccepted(caps, x, now)
=============================================================================

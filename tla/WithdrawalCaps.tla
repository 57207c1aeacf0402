---------------------------- MODULE WithdrawalCaps ----------------------------
(***************************************************************************)
(* klend's WithdrawalCaps and what is done with one: the limiter on the    *)
(* deposits that leave a reserve (config.deposit_withdrawal_cap) and on    *)
(* its borrows (config.debt_withdrawal_cap), as operators on the record.   *)
(* A signed counter is kept per interval; an interval starts with the      *)
(* first operation after the previous one ran out.                         *)
(***************************************************************************)
EXTENDS Integers

CONSTANT MaxI64       \* i64::MAX; u64::MAX is 2 * MaxI64 + 1

ASSUME WidthAssumption == MaxI64 \in Nat

MinI64 == -MaxI64 - 1
MaxU64 == 2 * MaxI64 + 1
I64 == MinI64..MaxI64

\* An interval of 0 seconds limits nothing.
Caps == [capacity : 0..MaxI64, interval : Nat, start : Nat, total : I64]

-----------------------------------------------------------------------------
Limited(c) == c.interval # 0

check_last_interval_elapsed(c, t) == c.interval <= t - c.start

\* Faulty variant: the new interval goes on with the counter of the old one.
interval_without_reset(c, t) ==
    IF check_last_interval_elapsed(c, t) THEN [c EXCEPT !.start = t] ELSE c

\* check_last_interval_elapsed, then reset_current_interval_and_counter
current_interval(c, t) ==
    IF check_last_interval_elapsed(c, t)
    THEN [c EXCEPT !.total = 0, !.start = t] ELSE c

\* Faulty variant: the counter of an interval that ran out still counts.
remaining_of_counter(c, t) ==
    IF ~Limited(c) THEN MaxU64
    ELSE IF c.total <= c.capacity THEN c.capacity - c.total ELSE 0

remaining_withdrawal_caps_amount(c, t) ==
    IF ~Limited(c) THEN MaxU64
    ELSE LET total == IF check_last_interval_elapsed(c, t) THEN 0 ELSE c.total
         IN  IF total <= c.capacity THEN c.capacity - total ELSE 0

\* Faulty variant: the unlimited counter wraps out of its type.
Unclamped(n) == n

\* update_counter: an error on overflow, or saturation when nothing is limited.
Clamp(n) == IF n > MaxI64 THEN MaxI64 ELSE IF n < MinI64 THEN MinI64 ELSE n

\* add_to_withdrawal_accum succeeds.
AddAccepted(c, x, t) ==
    /\ x <= MaxI64
    /\ Limited(c) =>
         /\ c.start <= t
         /\ LET r == current_interval(c, t)
            IN  /\ x <= remaining_withdrawal_caps_amount(r, t)
                /\ r.total + x \in I64

\* sub_from_withdrawal_accum succeeds.
SubAccepted(c, x, t) ==
    /\ x <= MaxI64
    /\ Limited(c) => /\ c.start <= t
                     /\ current_interval(c, t).total - x \in I64

\* Faulty variant: the operation that opens an interval is not counted.
CountedUnlessFresh(c, d, t) ==
    IF Limited(c) /\ check_last_interval_elapsed(c, t) THEN current_interval(c, t)
    ELSE [c EXCEPT !.total = Clamp(@ + d)]

\* The caps after d units were added (d < 0: taken off).
Counted(c, d, t) ==
    LET r == IF Limited(c) THEN current_interval(c, t) ELSE c
    IN  [r EXCEPT !.total = Clamp(@ + d)]
=============================================================================

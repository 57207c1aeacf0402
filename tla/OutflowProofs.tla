---------------------------- MODULE OutflowProofs ----------------------------
(***************************************************************************)
(* What may leave a reserve, over time and within one transaction.         *)
(*                                                                         *)
(* WithdrawalCap for every width of the counter, every setting and every   *)
(* sequence of operations, and WithdrawalCapLedger for every capacity and  *)
(* interval: what the fixed intervals are worth over a sliding window.     *)
(*                                                                         *)
(* FlashLoan for transactions of any length on any number of reserves: the *)
(* two checks that look ahead and back leave exactly one way to pair       *)
(* borrows and repayments.  From that and from what each operation does to *)
(* the fields of a reserve, that a loan leaves no trace.                   *)
(***************************************************************************)
EXTENDS WithdrawalCapLedger, FlashLoan, ReserveTheorems

-----------------------------------------------------------------------------
(* Withdrawal caps                                                         *)

\* The clock never lags behind the start of an interval, so that
\* check_last_interval_elapsed never fails.
StartedBefore == caps.start <= now

Inv == TypeOK /\ StartedBefore /\ NetWithinCapacity

-----------------------------------------------------------------------------
\* The cap in one operation: an accepted movement leaves net flow and counter
\* equal and within the capacity, if they were before.
LEMMA MovePreserves ==
    ASSUME Inv, NEW d \in Int, Move(d),
           Limited(caps) => /\ current_interval(caps, now).total + d \in I64
                            /\ current_interval(caps, now).total + d <= caps.capacity
                               \/ d <= 0
    PROVE  Inv'
<1>0. caps \in Caps /\ now \in Nat /\ now \in Time /\ net \in Int /\ caps.start <= now
  BY CapAssumption DEF Inv, TypeOK, Time, StartedBefore
<1>1. now' = now /\ caps' = Counted(caps, d, now)
  BY DEF Move
<1>2. TypeOK'
  <2>1. caps' \in Caps
    BY <1>0, <1>1, CountedTyped
  <2>2. net' \in Int
    BY <1>0, CapAssumption DEF Move
  <2>3. steady' \in BOOLEAN
    BY DEF Move, Inv, TypeOK
  <2> QED
    BY <1>0, <1>1, <2>1, <2>2, <2>3 DEF TypeOK
<1>3. StartedBefore'
  BY <1>0, <1>1, CountedTyped DEF StartedBefore
<1>4. ASSUME Limited(caps'), steady'
      PROVE  net' = caps'.total /\ net' <= caps'.capacity
  <2> DEFINE r == current_interval(caps, now)
  <2>1. Limited(caps)
    BY <1>0, <1>1, <1>4, CountedTyped DEF Limited
  <2>2. r \in Caps /\ r.capacity = caps.capacity
        /\ r.total = IF check_last_interval_elapsed(caps, now) THEN 0 ELSE caps.total
    BY <1>0, <2>1, CurrentInterval
  <2>3. r.total + d \in I64 /\ (r.total + d <= caps.capacity \/ d <= 0)
    BY <2>1
  <2>4. caps'.total = r.total + d /\ caps'.capacity = caps.capacity
    <3>1. caps' = [r EXCEPT !.total = Clamp(r.total + d)]
      BY <1>1, <2>1, <2>2 DEF Counted, Caps
    <3>2. Clamp(r.total + d) = r.total + d
      BY <2>2, <2>3, CapAssumption DEF Clamp, I64, MinI64, Caps
    <3> HIDE DEF r
    <3> QED
      BY <2>2, <3>1, <3>2 DEF Caps
  <2>5. CASE check_last_interval_elapsed(caps, now)
    <3>1. net' = d
      BY <2>1, <2>5 DEF Move
    <3> QED
      BY <3>1, <2>2, <2>3, <2>4, <2>5, <1>0, CapAssumption DEF Caps
  <2>6. CASE ~check_last_interval_elapsed(caps, now)
    <3>1. net' = net + d /\ steady
      BY <1>4, <2>6 DEF Move
    <3>2. net = caps.total /\ net <= caps.capacity
      BY <2>1, <3>1 DEF Inv, NetWithinCapacity
    <3> QED
      BY <3>1, <3>2, <2>2, <2>3, <2>4, <2>6, <1>0, CapAssumption DEF Caps
  <2> QED
    BY <2>5, <2>6
<1> QED
  BY <1>2, <1>3, <1>4 DEF Inv, NetWithinCapacity

\* The invariant is inductive.
LEMMA InvInductive == Inv /\ [Next]_vars => Inv'
<1> SUFFICES ASSUME Inv, [Next]_vars PROVE Inv'
  OBVIOUS
<1> USE CapAssumption
<1>0. caps \in Caps /\ now \in Nat /\ caps.start <= now
  BY DEF Inv, TypeOK, Time, StartedBefore
<1>1. ASSUME NEW x \in Amounts, Withdraw(x) PROVE Inv'
  <2>1. x \in Int /\ x >= 0 /\ Move(x)
    BY <1>1 DEF Withdraw, MaxU64
  <2>2. ASSUME Limited(caps)
        PROVE  /\ current_interval(caps, now).total + x \in I64
               /\ current_interval(caps, now).total + x <= caps.capacity \/ x <= 0
    <3> DEFINE r == current_interval(caps, now)
    <3>1. r \in Caps /\ r.capacity = caps.capacity /\ Limited(r)
          /\ ~check_last_interval_elapsed(r, now)
      BY <1>0, <2>2, CurrentInterval DEF Limited
    <3>2. r.total + x \in I64 /\ x <= remaining_withdrawal_caps_amount(r, now)
      BY <1>1, <2>2 DEF Withdraw, AddAccepted
    <3>3. r.total + x <= r.capacity \/ x <= 0
      <4> HIDE DEF r
      <4> QED
        BY <3>1, <3>2, <2>1 DEF remaining_withdrawal_caps_amount, Caps, I64, MinI64
    <3> QED
      BY <3>1, <3>2, <3>3
  <2> QED
    BY <2>1, <2>2, MovePreserves
<1>2. ASSUME NEW x \in Amounts, Return(x) PROVE Inv'
  <2>1. -x \in Int /\ -x <= 0 /\ Move(-x)
    BY <1>2 DEF Return, MaxU64
  <2>2. ASSUME Limited(caps)
        PROVE  current_interval(caps, now).total + (-x) \in I64
    <3>1. current_interval(caps, now) \in Caps
      BY <1>0, <2>2, CurrentInterval
    <3>2. current_interval(caps, now).total - x \in I64
      BY <1>2, <2>2 DEF Return, SubAccepted
    <3> QED
      BY <2>1, <3>1, <3>2 DEF Caps, I64, MinI64, MaxU64
  <2> QED
    BY <2>1, <2>2, MovePreserves
<1>3. ASSUME NEW c \in Capacities, NEW i \in Intervals, Configure(c, i) PROVE Inv'
  <2>1. c \in 0..MaxI64 /\ i \in Nat
    OBVIOUS
  <2> QED
    BY <1>0, <1>3, <2>1
       DEF Configure, Inv, TypeOK, StartedBefore, NetWithinCapacity, Caps
<1>4. CASE Tick
  BY <1>0, <1>4 DEF Tick, Inv, TypeOK, Time, StartedBefore, NetWithinCapacity, Caps
<1>5. CASE UNCHANGED vars
  BY <1>5 DEF vars, Inv, TypeOK, StartedBefore, NetWithinCapacity
<1> QED
  BY <1>1, <1>2, <1>3, <1>4, <1>5 DEF Next

LEMMA InvInit == Init => Inv
<1> SUFFICES ASSUME Init PROVE Inv
  OBVIOUS
<1>1. caps \in Caps /\ caps.interval = 0 /\ caps.start = 0
  <2>1. 0 \in I64 /\ 0 \in 0..MaxI64
    BY CapAssumption DEF I64, MinI64
  <2> QED
    BY <2>1 DEF Init, Caps
<1>2. now \in Time /\ 0 <= now /\ net \in Int
  <2>1. now = Epoch /\ net = 0
    BY DEF Init
  <2> QED
    BY <2>1, CapAssumption DEF Time
<1>3. steady \in BOOLEAN
  BY DEF Init
<1> QED
  BY <1>1, <1>2, <1>3 DEF Inv, TypeOK, StartedBefore, NetWithinCapacity, Limited

LEMMA Invariance == Spec => []Inv
BY InvInit, InvInductive, PTL DEF Spec

-----------------------------------------------------------------------------
\* The counter and the settings keep their types: the counter stays an i64
\* whether it saturates or is refused.
THEOREM CapTyping == Spec => []TypeOK
BY Invariance, PTL DEF Inv

\* An interval never lets out more than the capacity on balance.
THEOREM CapHolds == Spec => []NetWithinCapacity
BY Invariance, PTL DEF Inv

\* What borrowers are told they may still take is what the cap accepts.
THEOREM RemainingExact == Spec => []RemainingIsTrue
<1>1. Inv => RemainingIsTrue
  <2> SUFFICES ASSUME Inv, NEW x \in 0..MaxI64
               PROVE  x <= remaining_withdrawal_caps_amount(caps, now)
                        <=> AddAccepted(caps, x, now)
    BY DEF RemainingIsTrue
  <2> USE CapAssumption
  <2>0. caps \in Caps /\ now \in Nat /\ caps.start <= now
    BY DEF Inv, TypeOK, Time, StartedBefore
  <2>1. CASE ~Limited(caps)
    <3>1. x <= MaxU64
      BY DEF MaxU64
    <3> QED
      BY <2>1, <3>1 DEF remaining_withdrawal_caps_amount, AddAccepted
  <2>2. CASE Limited(caps)
    <3> DEFINE r == current_interval(caps, now)
    <3>1. /\ r \in Caps /\ r.capacity = caps.capacity /\ Limited(r)
          /\ ~check_last_interval_elapsed(r, now)
          /\ r.total = IF check_last_interval_elapsed(caps, now) THEN 0 ELSE caps.total
      BY <2>0, <2>2, CurrentInterval DEF Limited
    <3>2. AddAccepted(caps, x, now) <=>
            x <= remaining_withdrawal_caps_amount(r, now) /\ r.total + x \in I64
      BY <2>0, <2>2 DEF AddAccepted
    <3> HIDE DEF r
    <3>3. remaining_withdrawal_caps_amount(r, now)
            = remaining_withdrawal_caps_amount(caps, now)
      BY <2>2, <3>1 DEF remaining_withdrawal_caps_amount
    <3>4. x <= remaining_withdrawal_caps_amount(r, now) => r.total + x \in I64
      BY <3>1 DEF remaining_withdrawal_caps_amount, Caps, I64, MinI64
    <3> QED
      BY <3>2, <3>3, <3>4
  <2> QED
    BY <2>1, <2>2
<1> QED
  BY <1>1, Invariance, PTL
-----------------------------------------------------------------------------
(* Sums over spans of time.                                                *)

Span(a, b) == {t \in Time : a <= t /\ t <= b}
Flow(f, a, b) == SumFunctionOnSet(f, Span(a, b))

LEMMA TimeFacts == /\ IsFiniteSet(Time) /\ Time \subseteq Nat
                   /\ \A a, b : IsFiniteSet(Span(a, b))
<1>1. IsFiniteSet(Time) /\ Time \subseteq Nat
  BY CapAssumption, FS_Interval DEF Time
<1> QED
  BY <1>1, FS_Subset DEF Span

LEMMA FlowType ==
    ASSUME NEW f \in [Time -> Nat], NEW a, NEW b
    PROVE  Flow(f, a, b) \in Nat
<1>1. NatOn(f, Span(a, b))
  BY DEF NatOn, Span
<1> QED
  BY <1>1, TimeFacts, SumType DEF Flow

\* A sum over two sets without common elements, by their units.
LEMMA SumUnion ==
    ASSUME NEW f, NEW S, NEW T, IsFiniteSet(S), IsFiniteSet(T), S \cap T = {},
           NatOn(f, S), NatOn(f, T)
    PROVE  SumFunctionOnSet(f, S \cup T)
             = SumFunctionOnSet(f, S) + SumFunctionOnSet(f, T)
<1>1. IsFiniteSet(S \cup T) /\ NatOn(f, S \cup T)
  BY FS_Union DEF NatOn
<1>2. Units(f, S \cup T) = Units(f, S) \cup Units(f, T)
  BY DEF Units
<1>3. Units(f, S) \cap Units(f, T) = {}
  BY DEF Units, Unit
<1>4. IsFiniteSet(Units(f, S)) /\ IsFiniteSet(Units(f, T))
  BY UnitsFinite
<1>5. Cardinality(Units(f, S) \cup Units(f, T))
        = Cardinality(Units(f, S)) + Cardinality(Units(f, T))
  <2>1. Cardinality(Units(f, S) \cup Units(f, T))
          = Cardinality(Units(f, S)) + Cardinality(Units(f, T))
              - Cardinality(Units(f, S) \cap Units(f, T))
    BY <1>4, FS_Union
  <2>2. Cardinality(Units(f, S) \cap Units(f, T)) = 0
    BY <1>3, FS_EmptySet
  <2> QED
    BY <2>1, <2>2, <1>4, FS_CardinalityType
<1> QED
  BY <1>1, <1>2, <1>5, SumIsUnits

\* A span can be cut in two.
LEMMA FlowSplit ==
    ASSUME NEW f \in [Time -> Nat], NEW a \in Int, NEW b \in Int, NEW m \in Int,
           a <= m + 1, m <= b
    PROVE  Flow(f, a, b) = Flow(f, a, m) + Flow(f, m + 1, b)
<1>0. \A t \in Time : t \in Int
  BY TimeFacts
<1>1. Span(a, b) = Span(a, m) \cup Span(m + 1, b)
  BY <1>0 DEF Span
<1>2. Span(a, m) \cap Span(m + 1, b) = {}
  BY <1>0 DEF Span
<1>3. NatOn(f, Span(a, m)) /\ NatOn(f, Span(m + 1, b))
  BY DEF NatOn, Span
<1> QED
  BY <1>1, <1>2, <1>3, TimeFacts, SumUnion DEF Flow

\* A longer span has at least the flow of a part of it.
LEMMA FlowWithin ==
    ASSUME NEW f \in [Time -> Nat], NEW a \in Int, NEW b \in Int,
           NEW c \in Int, NEW d \in Int, c <= a, b <= d
    PROVE  Flow(f, a, b) <= Flow(f, c, d)
<1> DEFINE S == Span(a, b)
           T == Span(c, d) \ Span(a, b)
<1>0. \A t \in Time : t \in Int
  BY TimeFacts
<1>1. S \cup T = Span(c, d) /\ S \cap T = {}
  BY <1>0 DEF Span
<1>2. IsFiniteSet(S) /\ IsFiniteSet(T)
  BY TimeFacts, FS_Difference
<1>3. NatOn(f, S) /\ NatOn(f, T)
  BY DEF NatOn, Span
<1> HIDE DEF S, T
<1>4. SumFunctionOnSet(f, S \cup T) = SumFunctionOnSet(f, S) + SumFunctionOnSet(f, T)
  BY <1>1, <1>2, <1>3, SumUnion
<1>5. SumFunctionOnSet(f, S) \in Nat /\ SumFunctionOnSet(f, T) \in Nat
  BY <1>2, <1>3, SumType
<1>6. SumFunctionOnSet(f, S) <= SumFunctionOnSet(f, S \cup T)
  BY <1>4, <1>5
<1> QED
  BY <1>1, <1>6 DEF Flow, S

\* Nothing moved, nothing flowed.
LEMMA FlowNone ==
    ASSUME NEW f \in [Time -> Nat], NEW a, NEW b,
           \A t \in Time : a <= t /\ t <= b => f[t] = 0
    PROVE  Flow(f, a, b) = 0
<1> DEFINE S == Span(a, b)
<1>1. {} \in SUBSET S /\ IsFiniteSet(S) /\ NatOn(f, {})
  BY TimeFacts DEF NatOn
<1>2. \A t \in {} : f[t] = f[t]
  OBVIOUS
<1>3. \A t \in S \ {} : f[t] = 0
  BY DEF Span
<1> HIDE DEF S
<1>4. SumFunctionOnSet(f, {}) = SumFunctionOnSet(f, S)
  BY <1>1, <1>2, <1>3, SumFilter
<1> QED
  BY <1>4, SumEmpty DEF Flow, S

\* x units more in second t count in the spans that hold t.
LEMMA FlowMore ==
    ASSUME NEW f \in [Time -> Nat], NEW t \in Time, NEW x \in Nat,
           NEW g \in [Time -> Nat], g[t] = f[t] + x,
           \A y \in Time : y # t => g[y] = f[y],
           NEW a \in Int, NEW b \in Int
    PROVE  Flow(g, a, b) = Flow(f, a, b) + (IF a <= t /\ t <= b THEN x ELSE 0)
<1> DEFINE S == Span(a, b)
<1>1. g[t] = f[t] + x /\ f[t] \in Nat
  OBVIOUS
<1>2. IsFiniteSet(S) /\ NatOn(f, S) /\ NatOn(g, S) /\ S \subseteq Time
  BY <1>1, TimeFacts DEF NatOn, Span
<1>3. Flow(f, a, b) \in Nat
  BY FlowType
<1>4. CASE a <= t /\ t <= b
  <2>1. t \in S
    BY <1>4 DEF Span
  <2> HIDE DEF S
  <2>2. \A y \in S \ {t} : g[y] = f[y]
    BY <1>2
  <2>3. SumFunctionOnSet(g, S) = SumFunctionOnSet(f, S) - f[t] + g[t]
    BY <1>2, <2>1, <2>2, SumUpdate
  <2>4. SumFunctionOnSet(g, S) = SumFunctionOnSet(f, S) + x
    BY <1>1, <1>3, <2>3 DEF S, Flow
  <2> QED
    BY <1>1, <1>4, <2>4 DEF S, Flow
<1>5. CASE ~(a <= t /\ t <= b)
  <2>1. t \notin S
    BY <1>5 DEF Span
  <2> HIDE DEF S
  <2>2. \A y \in S : g[y] = f[y]
    BY <1>1, <1>2, <2>1
  <2>3. SumFunctionOnSet(g, S) = SumFunctionOnSet(f, S)
    BY <1>2, <2>2, SumSame
  <2> QED
    BY <1>1, <1>3, <1>5, <2>3 DEF S, Flow
<1> QED
  BY <1>4, <1>5

-----------------------------------------------------------------------------
(* The sliding window.                                                     *)

\* The interval that is open began after the settings changed: what left in it
\* is what the counter says, beyond what came in.
Present(c, o, i) ==
    c.start > changed =>
        steady /\ Flow(o, c.start, now) = net + Flow(i, c.start, now)

\* What left at the end of the interval before, from u on.
Past(c, o, i) ==
    \A u \in Int :
        changed + c.interval <= u /\ c.start - c.interval <= u /\ u <= c.start =>
            Flow(o, u, c.start - 1)
                <= c.capacity + Flow(i, u - c.interval + 1, c.start - 1)

\* Nothing moves in an interval that ran out: it would open the next one.
Expired(c, o, i) ==
    \A t \in Time :
        t > changed /\ t >= c.start + c.interval => o[t] = 0 /\ i[t] = 0

Recorded(o, i) ==
    /\ o \in [Time -> Nat] /\ i \in [Time -> Nat]
    /\ \A t \in Time : t > now => o[t] = 0 /\ i[t] = 0

LedgerInv ==
    /\ Inv
    /\ changed \in Time /\ changed <= now
    /\ Recorded(out, in)
    /\ Limited(caps) => /\ Present(caps, out, in)
                        /\ Past(caps, out, in)
                        /\ Expired(caps, out, in)

\* The invariant bounds every window.
LEMMA WindowBounded ==
    ASSUME LedgerInv PROVE SlidingWindow
<1> SUFFICES ASSUME Limited(caps), now - changed >= 2 * caps.interval
             PROVE  Total(out, now - caps.interval, now)
                      <= 2 * caps.capacity + Total(in, now - 2 * caps.interval, now)
  BY DEF SlidingWindow
<1> DEFINE I == caps.interval
           s == caps.start
           k == caps.capacity
           u == now - I + 1
<1>1. I \in Nat \ {0} /\ s \in Nat /\ k \in Nat
  BY CapAssumption DEF LedgerInv, Inv, TypeOK, Caps, Limited
<1>2. now \in Nat /\ changed \in Nat /\ s <= now
  BY TimeFacts DEF LedgerInv, Inv, TypeOK, StartedBefore
<1>3. out \in [Time -> Nat] /\ in \in [Time -> Nat]
  BY DEF LedgerInv, Recorded
<1>4. /\ Total(out, now - I, now) = Flow(out, u, now)
      /\ Total(in, now - 2 * I, now) = Flow(in, u - I, now)
  <2>0. \A t \in Time : t \in Int
    BY TimeFacts
  <2>1. {t \in Time : now - I < t /\ t <= now} = Span(u, now)
    BY <1>1, <1>2, <2>0 DEF Span
  <2>2. {t \in Time : now - 2 * I < t /\ t <= now} = Span(u - I, now)
    BY <1>1, <1>2, <2>0 DEF Span
  <2> QED
    BY <2>1, <2>2 DEF Total, Flow
<1>5. s > changed => /\ Flow(out, s, now) <= k + Flow(in, s, now)
                     /\ Flow(in, s, now) \in Nat /\ Flow(out, s, now) \in Nat
  <2>1. s > changed => Flow(out, s, now) = net + Flow(in, s, now) /\ net <= k
    BY DEF LedgerInv, Present, Inv, NetWithinCapacity
  <2>2. net \in Int
    BY DEF LedgerInv, Inv, TypeOK
  <2> QED
    BY <1>1, <1>3, <2>1, <2>2, FlowType
<1>6. u \in Int /\ u - I \in Int /\ changed + I < u /\ changed < u
  BY <1>1, <1>2
<1>7. /\ Flow(in, u - I, now) \in Nat /\ Flow(out, u, now) \in Nat
  BY <1>3, FlowType
<1>8. CASE s >= u
  <2>1. Flow(out, u, s - 1) <= k + Flow(in, u - I + 1, s - 1)
    <3>1. changed + I <= u /\ s - I <= u /\ u <= s
      BY <1>1, <1>2, <1>6, <1>8
    <3> QED
      BY <1>6, <3>1 DEF LedgerInv, Past
  <2>2. Flow(out, u, now) = Flow(out, u, s - 1) + Flow(out, s, now)
    <3>1. Flow(out, u, now) = Flow(out, u, s - 1) + Flow(out, (s - 1) + 1, now)
      BY <1>1, <1>2, <1>3, <1>6, <1>8, FlowSplit
    <3>2. (s - 1) + 1 = s
      BY <1>1
    <3> QED
      BY <3>1, <3>2
  <2>3. Flow(in, u - I + 1, now) = Flow(in, u - I + 1, s - 1) + Flow(in, s, now)
    <3>1. Flow(in, u - I + 1, now) = Flow(in, u - I + 1, s - 1) + Flow(in, (s - 1) + 1, now)
      BY <1>1, <1>2, <1>3, <1>6, <1>8, FlowSplit
    <3>2. (s - 1) + 1 = s
      BY <1>1
    <3> QED
      BY <3>1, <3>2
  <2>4. Flow(in, u - I + 1, now) <= Flow(in, u - I, now)
    BY <1>2, <1>3, <1>6, FlowWithin
  <2>5. s > changed
    BY <1>1, <1>2, <1>6, <1>8
  <2>6. /\ Flow(out, u, s - 1) \in Nat /\ Flow(in, u - I + 1, s - 1) \in Nat
        /\ Flow(in, u - I + 1, now) \in Nat
    BY <1>3, FlowType
  <2> HIDE DEF I, s, k, u
  <2> QED
    BY <1>1, <1>4, <1>5, <1>7, <2>1, <2>2, <2>3, <2>4, <2>5, <2>6
       DEF I, k
<1>9. CASE s < u /\ s + I <= u
  <2>1. \A t \in Time : u <= t /\ t <= now => out[t] = 0
    <3> TAKE t \in Time
    <3>1. t \in Nat
      BY TimeFacts
    <3>2. u <= t => t > changed /\ t >= s + I
      BY <1>1, <1>2, <1>6, <1>9, <3>1
    <3> QED
      BY <3>2 DEF LedgerInv, Expired
  <2>2. Flow(out, u, now) = 0
    BY <1>3, <2>1, FlowNone
  <2> QED
    BY <1>1, <1>4, <1>7, <2>2
<1>10. CASE s < u /\ u < s + I
  <2>1. s > changed
    BY <1>1, <1>2, <1>6, <1>10
  <2>2. Flow(out, u, now) <= Flow(out, s, now)
    BY <1>1, <1>2, <1>3, <1>6, <1>10, FlowWithin
  <2>3. Flow(in, s, now) <= Flow(in, u - I, now)
    <3>1. u - I <= s
      BY <1>1, <1>2, <1>6, <1>10
    <3> QED
      BY <1>1, <1>2, <1>3, <1>6, <3>1, FlowWithin
  <2> HIDE DEF I, s, k, u
  <2> QED
    BY <1>1, <1>4, <1>5, <1>7, <2>1, <2>2, <2>3 DEF I, k
<1> QED
  BY <1>1, <1>2, <1>6, <1>8, <1>9, <1>10

\* d units move now, recorded in new tables o and i.
Booked(o, i, d) ==
    /\ o \in [Time -> Nat] /\ i \in [Time -> Nat]
    /\ \A t \in Time : t # now => o[t] = out[t] /\ i[t] = in[t]
    /\ \A a, b \in Int :
         IF a <= now /\ now <= b
         THEN Flow(o, a, b) - Flow(i, a, b) = Flow(out, a, b) - Flow(in, a, b) + d
         ELSE Flow(o, a, b) = Flow(out, a, b) /\ Flow(i, a, b) = Flow(in, a, b)

\* The interval is still open.
LEMMA SameInterval ==
    ASSUME LedgerInv, Limited(caps), ~check_last_interval_elapsed(caps, now),
           NEW d \in Int, Move(d), NEW c \in Caps, c = caps', now' = now,
           c.capacity = caps.capacity, c.interval = caps.interval,
           c.start = caps.start, changed' = changed, Booked(out', in', d)
    PROVE  Present(caps, out, in)' /\ Past(caps, out, in)' /\ Expired(caps, out, in)'
<1> DEFINE s == caps.start
           I == caps.interval
<1>1. s \in Nat /\ I \in Nat /\ s <= now /\ now \in Nat /\ now < s + I
  BY TimeFacts DEF LedgerInv, Inv, TypeOK, Caps, StartedBefore,
     check_last_interval_elapsed
<1>2. out \in [Time -> Nat] /\ in \in [Time -> Nat] /\ net \in Int
  BY DEF LedgerInv, Recorded, Inv, TypeOK
<1>3. Present(caps, out, in)'
  <2> SUFFICES ASSUME s > changed
               PROVE  steady' /\ Flow(out', s, now) = net' + Flow(in', s, now)
    BY DEF Present
  <2>1. steady /\ Flow(out, s, now) = net + Flow(in, s, now)
    BY DEF LedgerInv, Present
  <2>2. net' = net + d /\ steady'
    BY <2>1 DEF Move
  <2>3. Flow(out', s, now) - Flow(in', s, now) = Flow(out, s, now) - Flow(in, s, now) + d
    BY <1>1 DEF Booked
  <2>4. /\ Flow(out, s, now) \in Nat /\ Flow(in, s, now) \in Nat
        /\ Flow(out', s, now) \in Nat /\ Flow(in', s, now) \in Nat
    BY <1>2, FlowType DEF Booked
  <2> QED
    BY <1>2, <2>1, <2>2, <2>3, <2>4
<1>4. Past(caps, out, in)'
  <2> SUFFICES ASSUME NEW u \in Int, changed + I <= u, s - I <= u, u <= s
               PROVE  Flow(out', u, s - 1)
                        <= caps.capacity + Flow(in', u - I + 1, s - 1)
    BY DEF Past
  <2>1. Flow(out, u, s - 1) <= caps.capacity + Flow(in, u - I + 1, s - 1)
    BY DEF LedgerInv, Past
  <2>2. /\ s - 1 \in Int /\ u - I + 1 \in Int /\ ~(now <= s - 1)
    BY <1>1
  <2>3. Flow(out', u, s - 1) = Flow(out, u, s - 1)
    BY <2>2 DEF Booked
  <2>4. Flow(in', u - I + 1, s - 1) = Flow(in, u - I + 1, s - 1)
    BY <2>2 DEF Booked
  <2> QED
    BY <2>1, <2>3, <2>4
<1>5. Expired(caps, out, in)'
  <2> SUFFICES ASSUME NEW t \in Time, t > changed, t >= s + I
               PROVE  (out')[t] = 0 /\ (in')[t] = 0
    BY DEF Expired
  <2>1. out[t] = 0 /\ in[t] = 0
    BY DEF LedgerInv, Expired
  <2>2. t # now
    BY <1>1, TimeFacts
  <2> QED
    BY <2>1, <2>2 DEF Booked
<1> QED
  BY <1>3, <1>4, <1>5

\* The interval ran out: the movement opens the next one, and the one that
\* ends becomes the past.
LEMMA NextInterval ==
    ASSUME LedgerInv, Limited(caps), check_last_interval_elapsed(caps, now),
           NEW d \in Int, Move(d), NEW c \in Caps, c = caps', now' = now,
           c.capacity = caps.capacity, c.interval = caps.interval,
           c.start = now, changed' = changed, Booked(out', in', d)
    PROVE  Present(caps, out, in)' /\ Past(caps, out, in)' /\ Expired(caps, out, in)'
<1> DEFINE s == caps.start
           I == caps.interval
           k == caps.capacity
<1>1. /\ s \in Nat /\ I \in Nat \ {0} /\ k \in Nat /\ s <= now /\ now \in Nat
      /\ s + I <= now /\ now \in Time /\ changed \in Nat /\ changed <= now
  BY TimeFacts, CapAssumption
     DEF LedgerInv, Inv, TypeOK, Caps, StartedBefore, check_last_interval_elapsed,
         Limited
<1>2. out \in [Time -> Nat] /\ in \in [Time -> Nat] /\ net \in Int
  BY DEF LedgerInv, Recorded, Inv, TypeOK
<1>3. Present(caps, out, in)'
  <2> SUFFICES ASSUME now > changed
               PROVE  steady' /\ Flow(out', now, now) = net' + Flow(in', now, now)
    BY DEF Present
  <2>1. out[now] = 0 /\ in[now] = 0
    BY <1>1 DEF LedgerInv, Expired
  <2>2. \A t \in Time : now <= t /\ t <= now => t = now
    BY <1>1, TimeFacts
  <2>3. Flow(out, now, now) = 0 /\ Flow(in, now, now) = 0
    BY <1>2, <2>1, <2>2, FlowNone
  <2>4. net' = d /\ steady'
    BY DEF Move
  <2>5. Flow(out', now, now) - Flow(in', now, now)
          = Flow(out, now, now) - Flow(in, now, now) + d
    BY <1>1 DEF Booked
  <2>6. Flow(out', now, now) \in Nat /\ Flow(in', now, now) \in Nat
    BY FlowType DEF Booked
  <2> QED
    BY <2>3, <2>4, <2>5, <2>6
<1>4. Past(caps, out, in)'
  <2> SUFFICES ASSUME NEW u \in Int, changed + I <= u, now - I <= u, u <= now
               PROVE  Flow(out', u, now - 1) <= k + Flow(in', u - I + 1, now - 1)
    BY DEF Past
  <2>1. /\ now - 1 \in Int /\ u - I + 1 \in Int /\ ~(now <= now - 1)
    BY <1>1
  <2>2. /\ Flow(out', u, now - 1) = Flow(out, u, now - 1)
        /\ Flow(in', u - I + 1, now - 1) = Flow(in, u - I + 1, now - 1)
    BY <2>1 DEF Booked
  <2>3. /\ Flow(out, u, now - 1) \in Nat /\ Flow(in, u - I + 1, now - 1) \in Nat
    BY <1>2, FlowType
  <2>4. CASE s + I <= u
    <3>1. \A t \in Time : u <= t /\ t <= now - 1 => out[t] = 0
      <4> TAKE t \in Time
      <4>1. t \in Nat
        BY TimeFacts
      <4>2. u <= t => t > changed /\ t >= s + I
        BY <1>1, <2>4, <4>1
      <4> QED
        BY <4>2 DEF LedgerInv, Expired
    <3>2. Flow(out, u, now - 1) = 0
      BY <1>2, <3>1, FlowNone
    <3> QED
      BY <1>1, <2>2, <2>3, <3>2
  <2>5. CASE u < s + I
    <3>1. s > changed /\ s <= u /\ u - I + 1 <= s
      BY <1>1, <2>5
    <3>2. /\ Flow(out, s, now) = net + Flow(in, s, now) /\ net <= k
      BY <3>1 DEF LedgerInv, Present, Inv, NetWithinCapacity
    <3>3. Flow(out, u, now - 1) <= Flow(out, s, now)
      BY <1>1, <1>2, <3>1, FlowWithin
    <3>4. Flow(in, s, now) = Flow(in, s, now - 1)
      <4>1. in[now] = 0
        BY <1>1, <3>1 DEF LedgerInv, Expired
      <4>2. \A t \in Time : now <= t /\ t <= now => in[t] = 0
        BY <1>1, <4>1, TimeFacts
      <4>3. Flow(in, now, now) = 0
        BY <1>2, <4>2, FlowNone
      <4>4. Flow(in, s, now) = Flow(in, s, now - 1) + Flow(in, (now - 1) + 1, now)
        BY <1>1, <1>2, FlowSplit
      <4>5. (now - 1) + 1 = now /\ Flow(in, s, now - 1) \in Nat
        BY <1>1, <1>2, FlowType
      <4> QED
        BY <4>3, <4>4, <4>5
    <3>5. Flow(in, s, now - 1) <= Flow(in, u - I + 1, now - 1)
      BY <1>1, <1>2, <3>1, FlowWithin
    <3>6. /\ Flow(out, s, now) \in Nat /\ Flow(in, s, now) \in Nat
          /\ Flow(in, s, now - 1) \in Nat
      BY <1>2, FlowType
    <3> HIDE DEF s, I, k
    <3> QED
      BY <1>1, <1>2, <2>2, <2>3, <3>2, <3>3, <3>4, <3>5, <3>6
  <2> QED
    BY <1>1, <2>4, <2>5
<1>5. Expired(caps, out, in)'
  <2> SUFFICES ASSUME NEW t \in Time, t > changed, t >= now + I
               PROVE  (out')[t] = 0 /\ (in')[t] = 0
    BY DEF Expired
  <2>1. t > now /\ t # now
    BY <1>1, TimeFacts
  <2>2. out[t] = 0 /\ in[t] = 0
    BY <2>1 DEF LedgerInv, Recorded
  <2> QED
    BY <2>1, <2>2 DEF Booked
<1> QED
  BY <1>3, <1>4, <1>5

\* Every accepted movement keeps the invariant.
LEMMA MovementKeeps ==
    ASSUME LedgerInv, Inv', NEW d \in Int, Move(d), changed' = changed,
           Booked(out', in', d)
    PROVE  LedgerInv'
<1>1. caps \in Caps /\ now \in Nat /\ caps.start <= now
  BY TimeFacts DEF LedgerInv, Inv, TypeOK, StartedBefore
<1>2. now' = now /\ caps' = Counted(caps, d, now)
  BY DEF Move
<1>3. caps' \in Caps /\ caps'.interval = caps.interval /\ caps'.capacity = caps.capacity
  BY <1>1, <1>2, CountedTyped
<1>4. Recorded(out, in)'
  <2> SUFFICES ASSUME NEW t \in Time, t > now
               PROVE  (out')[t] = 0 /\ (in')[t] = 0
    BY <1>2 DEF Recorded, Booked
  <2>1. t # now /\ out[t] = 0 /\ in[t] = 0
    BY <1>1 DEF LedgerInv, Recorded
  <2> QED
    BY <2>1 DEF Booked
<1>5. ASSUME Limited(caps)'
      PROVE  Present(caps, out, in)' /\ Past(caps, out, in)' /\ Expired(caps, out, in)'
  <2>1. Limited(caps)
    BY <1>3, <1>5 DEF Limited
  <2> DEFINE r == current_interval(caps, now)
  <2>2. r \in Caps
    BY <1>1, <2>1, CurrentInterval
  <2>3. caps' = [r EXCEPT !.total = Clamp(r.total + d)]
    BY <1>2, <2>1, <2>2 DEF Counted, Caps
  <2>4. caps'.start = r.start
    <3> HIDE DEF r
    <3> QED
      BY <2>2, <2>3 DEF Caps
  <2>5. CASE ~check_last_interval_elapsed(caps, now)
    <3>1. caps'.start = caps.start
      BY <2>4, <2>5 DEF current_interval
    <3> QED
      BY <1>2, <1>3, <2>1, <2>5, <3>1, SameInterval
  <2>6. CASE check_last_interval_elapsed(caps, now)
    <3>1. caps'.start = now
      BY <1>1, <2>4, <2>6 DEF current_interval, Caps
    <3> QED
      BY <1>2, <1>3, <2>1, <2>6, <3>1, NextInterval
  <2> QED
    BY <2>5, <2>6
<1> QED
  BY <1>2, <1>4, <1>5 DEF LedgerInv

LEMMA WithdrawKeeps ==
    ASSUME LedgerInv, Inv', NEW x \in Amounts, RecordWithdraw(x)
    PROVE  LedgerInv'
<1>1. x \in Nat /\ x \in Int /\ now \in Time
  BY CapAssumption DEF MaxU64, LedgerInv, Inv, TypeOK
<1>2. out \in [Time -> Nat] /\ in \in [Time -> Nat]
  BY DEF LedgerInv, Recorded
<1>3. out' = [out EXCEPT ![now] = @ + x] /\ in' = in /\ changed' = changed /\ Move(x)
  BY DEF RecordWithdraw, Withdraw
<1> DEFINE o == out'
<1>4. \A a, b \in Int :
         Flow(o, a, b) = Flow(out, a, b) + (IF a <= now /\ now <= b THEN x ELSE 0)
  <2>1. /\ o \in [Time -> Nat] /\ o[now] = out[now] + x
        /\ \A y \in Time : y # now => o[y] = out[y]
    BY <1>1, <1>2, <1>3
  <2> HIDE DEF o
  <2> QED
    BY <1>1, <1>2, <2>1, FlowMore
<1>5. \A a, b \in Int : Flow(out, a, b) \in Nat /\ Flow(in, a, b) \in Nat
  BY <1>2, FlowType
<1>6. out' \in [Time -> Nat] /\ \A t \in Time : t # now => (out')[t] = out[t]
  BY <1>1, <1>2, <1>3
<1>7. Booked(out', in', x)
  <2>1. \A a, b \in Int :
           IF a <= now /\ now <= b
           THEN Flow(o, a, b) - Flow(in, a, b) = Flow(out, a, b) - Flow(in, a, b) + x
           ELSE Flow(o, a, b) = Flow(out, a, b)
    <3> TAKE a, b \in Int
    <3>1. Flow(out, a, b) \in Nat /\ Flow(in, a, b) \in Nat
      BY <1>5
    <3>2. Flow(o, a, b) = Flow(out, a, b) + (IF a <= now /\ now <= b THEN x ELSE 0)
      BY <1>4
    <3> HIDE DEF o
    <3> QED
      BY <1>1, <3>1, <3>2
  <2> QED
    BY <1>2, <1>3, <1>6, <2>1 DEF Booked
<1> QED
  BY <1>1, <1>3, <1>7, MovementKeeps

LEMMA ReturnKeeps ==
    ASSUME LedgerInv, Inv', NEW x \in Amounts, RecordReturn(x)
    PROVE  LedgerInv'
<1>1. x \in Nat /\ x \in Int /\ -x \in Int /\ now \in Time
  BY CapAssumption DEF MaxU64, LedgerInv, Inv, TypeOK
<1>2. out \in [Time -> Nat] /\ in \in [Time -> Nat]
  BY DEF LedgerInv, Recorded
<1>3. in' = [in EXCEPT ![now] = @ + x] /\ out' = out /\ changed' = changed /\ Move(-x)
  BY DEF RecordReturn, Return
<1> DEFINE o == in'
<1>4. \A a, b \in Int :
         Flow(o, a, b) = Flow(in, a, b) + (IF a <= now /\ now <= b THEN x ELSE 0)
  <2>1. /\ o \in [Time -> Nat] /\ o[now] = in[now] + x
        /\ \A y \in Time : y # now => o[y] = in[y]
    BY <1>1, <1>2, <1>3
  <2> HIDE DEF o
  <2> QED
    BY <1>1, <1>2, <2>1, FlowMore
<1>5. \A a, b \in Int : Flow(out, a, b) \in Nat /\ Flow(in, a, b) \in Nat
  BY <1>2, FlowType
<1>6. in' \in [Time -> Nat] /\ \A t \in Time : t # now => (in')[t] = in[t]
  BY <1>1, <1>2, <1>3
<1>7. Booked(out', in', -x)
  <2>1. \A a, b \in Int :
           IF a <= now /\ now <= b
           THEN Flow(out, a, b) - Flow(o, a, b) = Flow(out, a, b) - Flow(in, a, b) - x
           ELSE Flow(o, a, b) = Flow(in, a, b)
    <3> TAKE a, b \in Int
    <3>1. Flow(out, a, b) \in Nat /\ Flow(in, a, b) \in Nat
      BY <1>5
    <3>2. Flow(o, a, b) = Flow(in, a, b) + (IF a <= now /\ now <= b THEN x ELSE 0)
      BY <1>4
    <3> HIDE DEF o
    <3> QED
      BY <1>1, <3>1, <3>2
  <2> QED
    BY <1>2, <1>3, <1>6, <2>1 DEF Booked
<1> QED
  BY <1>1, <1>3, <1>7, MovementKeeps

\* New settings: the past no longer counts, and the future has not come.
LEMMA ConfigureKeeps ==
    ASSUME LedgerInv, Inv', NEW c \in Capacities, NEW i \in Intervals,
           RecordConfigure(c, i)
    PROVE  LedgerInv'
<1>1. /\ caps \in Caps /\ now \in Nat /\ now \in Time /\ caps.start <= now
      /\ caps.start \in Nat
  BY TimeFacts DEF LedgerInv, Inv, TypeOK, StartedBefore, Caps
<1>2. /\ caps'.interval = i /\ caps'.start = caps.start /\ i \in Nat
      /\ now' = now /\ changed' = now /\ out' = out /\ in' = in
  BY <1>1, CapAssumption DEF RecordConfigure, Configure, Caps
<1>3. Recorded(out, in)'
  BY <1>2 DEF LedgerInv, Recorded
<1>4. Present(caps, out, in)'
  BY <1>1, <1>2 DEF Present
<1>5. i # 0 => Past(caps, out, in)'
  BY <1>1, <1>2 DEF Past
<1>6. i # 0 => Expired(caps, out, in)'
  BY <1>2 DEF Expired, LedgerInv, Recorded
<1> QED
  BY <1>1, <1>2, <1>3, <1>4, <1>5, <1>6 DEF LedgerInv, Limited

LEMMA TickKeeps ==
    ASSUME LedgerInv, Inv', Tick, UNCHANGED ledgerVars
    PROVE  LedgerInv'
<1>1. /\ now \in Nat /\ now + 1 \in Time /\ caps.start \in Nat
      /\ caps.start <= now /\ changed \in Nat
  BY CapAssumption, TimeFacts DEF Tick, LedgerInv, Inv, TypeOK, Time, Caps, StartedBefore
<1>2. /\ now' = now + 1 /\ caps' = caps /\ net' = net /\ steady' = steady
      /\ out' = out /\ in' = in /\ changed' = changed
  BY DEF Tick, ledgerVars
<1>3. out \in [Time -> Nat] /\ in \in [Time -> Nat]
  BY DEF LedgerInv, Recorded
<1>4. \A t \in Time : t \in Nat
  BY TimeFacts
<1>5. Recorded(out, in)'
  BY <1>1, <1>2, <1>4 DEF LedgerInv, Recorded
<1>6. ASSUME NEW f \in [Time -> Nat], f[now + 1] = 0
      PROVE  Flow(f, caps.start, now + 1) = Flow(f, caps.start, now)
  <2>1. \A t \in Time : now + 1 <= t /\ t <= now + 1 => f[t] = 0
    BY <1>1, <1>4, <1>6
  <2>2. Flow(f, now + 1, now + 1) = 0
    BY <1>6, <2>1, FlowNone
  <2>3. Flow(f, caps.start, now + 1)
          = Flow(f, caps.start, now) + Flow(f, now + 1, now + 1)
    BY <1>1, <1>6, FlowSplit
  <2>4. Flow(f, caps.start, now) \in Nat
    BY <1>6, FlowType
  <2> QED
    BY <2>2, <2>3, <2>4
<1>7. out[now + 1] = 0 /\ in[now + 1] = 0
  BY <1>1 DEF LedgerInv, Recorded
<1>8. /\ Flow(out, caps.start, now + 1) = Flow(out, caps.start, now)
      /\ Flow(in, caps.start, now + 1) = Flow(in, caps.start, now)
  BY <1>3, <1>6, <1>7
<1>9. Present(caps, out, in) => Present(caps, out, in)'
  BY <1>2, <1>8 DEF Present
<1>10. Past(caps, out, in) => Past(caps, out, in)'
  BY <1>2 DEF Past
<1>11. Expired(caps, out, in) => Expired(caps, out, in)'
  BY <1>2 DEF Expired
<1> QED
  BY <1>1, <1>2, <1>5, <1>9, <1>10, <1>11 DEF LedgerInv, Limited

LEMMA LedgerInductive ==
    ASSUME LedgerInv, [LedgerNext]_<<vars, ledgerVars>>
    PROVE  LedgerInv'
<1>1. [Next]_vars
  BY DEF LedgerNext, Next, RecordWithdraw, RecordReturn, RecordConfigure
<1>2. Inv'
  BY <1>1, InvInductive DEF LedgerInv
<1>3. CASE UNCHANGED <<vars, ledgerVars>>
  <2>1. UNCHANGED <<caps, now, net, steady, out, in, changed>>
    BY <1>3 DEF vars, ledgerVars
  <2> QED
    BY <1>2, <2>1 DEF LedgerInv, Recorded, Present, Past, Expired, Limited
<1> QED
  BY <1>2, <1>3, WithdrawKeeps, ReturnKeeps, ConfigureKeeps, TickKeeps DEF LedgerNext

LEMMA LedgerStart == LedgerInit => LedgerInv
<1> SUFFICES ASSUME LedgerInit PROVE LedgerInv
  OBVIOUS
<1>1. Inv /\ now = Epoch /\ changed = Epoch /\ caps.interval = 0
  BY InvInit DEF LedgerInit, Init
<1>2. Epoch \in Time
  BY CapAssumption DEF Time
<1>3. Recorded(out, in)
  BY DEF LedgerInit, Recorded
<1> QED
  BY <1>1, <1>2, <1>3, CapAssumption DEF LedgerInv, Limited

\* The fixed intervals over any span: with settings in force for two intervals,
\* no span of one interval lets out more than twice the capacity beyond what
\* came in during it and the interval before.
THEOREM WindowHolds == LedgerSpec => []SlidingWindow
<1>1. LedgerInit => LedgerInv
  BY LedgerStart
<1>2. LedgerInv /\ [LedgerNext]_<<vars, ledgerVars>> => LedgerInv'
  BY LedgerInductive
<1>3. LedgerInv => SlidingWindow
  BY WindowBounded
<1> QED
  BY <1>1, <1>2, <1>3, PTL DEF LedgerSpec

-----------------------------------------------------------------------------
(* Flash loans                                                             *)

IsBorrow(i) == IsFlash(i, "flash_borrow")
IsRepay(i) == IsFlash(i, "flash_repay")
Nothing == [r \in ReserveId |-> 0]

Typed ==
    /\ tx \in Seq(Instruction)
    /\ ip \in 1 .. Len(tx) + 1
    /\ status \in {"running", "committed", "aborted"}
    /\ status = "committed" => ip = Len(tx) + 1

\* Every flash call executed so far passed its check.
Checked ==
    \A i \in 1 .. ip - 1 : /\ IsBorrow(i) => flash_borrow_checks(i)
                           /\ IsRepay(i) => flash_repay_checks(i)

\* The borrow at i is executed and not yet repaid.
Open(i) == IsBorrow(i) /\ \A j \in i + 1 .. ip - 1 : ~IsRepay(j)

\* The outstanding amounts are those of the open borrow, if there is one.
LoanIsOpen ==
    \/ loan = Nothing /\ \A i \in 1 .. ip - 1 : ~Open(i)
    \/ \E i \in 1 .. ip - 1 :
          /\ Open(i)
          /\ loan = [r \in ReserveId |-> IF r = tx[i].reserve THEN tx[i].amount ELSE 0]

Pairing ==
    /\ Typed
    /\ status = "aborted" => loan = Nothing
    /\ status # "aborted" => Checked /\ LoanIsOpen

-----------------------------------------------------------------------------
\* A step that executes one instruction moves on by one.
LEMMA Advance ==
    ASSUME Typed, NEW call, Current(call)
    PROVE  /\ Typed' /\ ip \in 1 .. Len(tx) /\ ip' = ip + 1
           /\ tx' = tx /\ status = "running" /\ status' = "running"
           /\ tx[ip] \in Instruction /\ tx[ip].call = call
BY DEF Typed, Current

LEMMA PairingInit == FlashInit => Pairing
<1> SUFFICES ASSUME FlashInit PROVE Pairing
  OBVIOUS
<1>1. tx \in Seq(Instruction) /\ Len(tx) \in Nat
  <2>1. PICK n \in 1 .. MaxLength : tx \in [1 .. n -> Tried]
    BY DEF FlashInit, Transactions
  <2>2. n \in Nat /\ tx \in [1 .. n -> Instruction]
    BY <2>1, FlashAssumption
  <2> QED
    BY <2>2
<1>2. ip = 1 /\ status = "running" /\ loan = Nothing
  BY DEF FlashInit, Nothing
<1> QED
  BY <1>1, <1>2 DEF Pairing, Typed, Checked, LoanIsOpen

\* An open borrow excludes any other borrow.
LEMMA OpenIsOnly ==
    ASSUME Typed, Checked, NEW i \in 1 .. ip - 1, IsBorrow(i),
           NEW k \in 1 .. Len(tx), IsBorrow(k), k > i
    PROVE  FALSE
BY DEF Typed, Checked, flash_borrow_checks, IsBorrow

\* The transaction is fixed: a check passed earlier still passes.
LEMMA CheckedNext ==
    ASSUME Typed, Checked, tx' = tx, ip \in 1 .. Len(tx), ip' = ip + 1,
           IsBorrow(ip) => flash_borrow_checks(ip),
           IsRepay(ip) => flash_repay_checks(ip)
    PROVE  Checked'
<1> DEFINE Passed(i) == /\ IsBorrow(i) => flash_borrow_checks(i)
                        /\ IsRepay(i) => flash_repay_checks(i)
<1>1. ASSUME NEW i \in 1 .. ip PROVE Passed(i)
  <2>1. CASE i = ip
    BY <2>1
  <2>2. CASE i # ip
    BY <2>2 DEF Checked, Typed
  <2> QED
    BY <2>1, <2>2
<1>2. ASSUME NEW i \in 1 .. ip PROVE Passed(i)'
  BY <1>1, <1>2 DEF IsBorrow, IsRepay, IsFlash, flash_borrow_checks, flash_repay_checks,
     is_flash_forbidden_cpi_call, MatchingRepay, SameLoan
<1>3. 1 .. ip' - 1 = 1 .. ip
  BY DEF Typed
<1> QED
  BY <1>2, <1>3 DEF Checked

LEMMA BorrowPairs ==
    ASSUME Pairing, FlashBorrow PROVE Pairing'
<1>1. Typed /\ Current("flash_borrow")
  BY DEF Pairing, FlashBorrow
<1>2. /\ Typed' /\ ip \in 1 .. Len(tx) /\ ip' = ip + 1
      /\ tx' = tx /\ status = "running" /\ status' = "running"
      /\ tx[ip] \in Instruction /\ tx[ip].call = "flash_borrow"
  BY <1>1, Advance
<1>3. Checked /\ LoanIsOpen
  BY <1>2 DEF Pairing
<1>4. flash_borrow_checks(ip) /\ IsBorrow(ip) /\ ~IsRepay(ip)
  BY <1>2 DEF FlashBorrow, flash_borrow_checks, is_flash_forbidden_cpi_call, IsBorrow, IsRepay,
              IsFlash, Instruction
<1>5. loan = Nothing
  <2> SUFFICES ASSUME NEW i \in 1 .. ip - 1, Open(i) PROVE FALSE
    BY <1>3 DEF LoanIsOpen
  <2>1. ip > i /\ IsBorrow(i)
    BY <1>2 DEF Open
  <2> QED
    BY <1>1, <1>2, <1>3, <1>4, <2>1, OpenIsOnly
<1>6. Checked'
  BY <1>1, <1>2, <1>3, <1>4, CheckedNext
<1>7. loan' = [r \in ReserveId |-> IF r = tx'[ip].reserve THEN tx'[ip].amount ELSE 0]
  <2>1. loan' = [loan EXCEPT ![tx[ip].reserve] = @ + tx[ip].amount]
    BY DEF FlashBorrow
  <2>2. tx[ip].amount \in Nat /\ tx[ip].reserve \in ReserveId
    BY <1>2 DEF Instruction
  <2> QED
    BY <1>2, <1>5, <2>1, <2>2 DEF Nothing
<1>8. LoanIsOpen'
  <2>1. PICK here \in 1 .. Len(tx) : here = ip
    BY <1>2
  <2>2. Open(here)'
    BY <1>2, <1>4, <2>1 DEF Open, IsBorrow, IsFlash
  <2>3. here \in 1 .. ip' - 1
    BY <1>2, <2>1
  <2> QED
    BY <1>7, <2>1, <2>2, <2>3 DEF LoanIsOpen
<1> QED
  BY <1>2, <1>6, <1>8 DEF Pairing

\* A repayment that passes its check is that of the open borrow.
LEMMA RepaysOpen ==
    ASSUME Pairing, FlashRepay
    PROVE  /\ loan = [r \in ReserveId |-> IF r = tx[ip].reserve THEN tx[ip].amount ELSE 0]
           /\ tx[ip].amount \in Nat /\ tx[ip].reserve \in ReserveId
<1>1. Typed /\ Current("flash_repay")
  BY DEF Pairing, FlashRepay
<1>2. /\ Typed' /\ ip \in 1 .. Len(tx) /\ ip' = ip + 1
      /\ tx' = tx /\ status = "running" /\ status' = "running"
      /\ tx[ip] \in Instruction /\ tx[ip].call = "flash_repay"
  BY <1>1, Advance
<1>3. Checked /\ LoanIsOpen
  BY <1>2 DEF Pairing
<1>4. flash_repay_checks(ip) /\ IsRepay(ip) /\ ~IsBorrow(ip)
  BY <1>2 DEF FlashRepay, flash_repay_checks, is_flash_forbidden_cpi_call, IsBorrow, IsRepay,
              IsFlash, Instruction
<1>5. PICK b \in 1 .. ip - 1 : IsBorrow(b) /\ SameLoan(b, ip)
  <2>1. tx[ip].index \in Nat \ {0} /\ tx[ip].index <= ip
    BY <1>2, <1>4 DEF Instruction, flash_repay_checks
  <2>2. IsBorrow(tx[ip].index) /\ SameLoan(tx[ip].index, ip)
    BY <1>4 DEF flash_repay_checks, IsBorrow
  <2>3. tx[ip].index # ip
    BY <1>4, <2>2
  <2> QED
    BY <1>2, <2>1, <2>2, <2>3
<1>6. Open(b)
  <2>1. PICK j \in b + 1 .. Len(tx) : \A k \in b + 1 .. Len(tx) : IsRepay(k) => k = j
    BY <1>3, <1>5 DEF Checked, flash_borrow_checks, IsRepay
  <2>2. ip \in b + 1 .. Len(tx) /\ ip = j
    BY <1>2, <1>4, <1>5, <2>1
  <2>3. ASSUME NEW k \in b + 1 .. ip - 1 PROVE ~IsRepay(k)
    BY <1>2, <2>1, <2>2
  <2> QED
    BY <1>5, <2>3 DEF Open
<1>7. loan = [r \in ReserveId |-> IF r = tx[b].reserve THEN tx[b].amount ELSE 0]
  <2>1. PICK i \in 1 .. ip - 1 :
          /\ Open(i)
          /\ loan = [r \in ReserveId |-> IF r = tx[i].reserve THEN tx[i].amount ELSE 0]
    BY <1>3, <1>5, <1>6 DEF LoanIsOpen
  <2>2. i \in 1 .. Len(tx) /\ b \in 1 .. Len(tx) /\ IsBorrow(i)
    BY <1>2, <1>5, <2>1 DEF Open
  <2>3. ~(b > i) /\ ~(i > b)
    BY <1>1, <1>3, <1>5, <2>1, <2>2, OpenIsOnly
  <2> QED
    BY <1>2, <1>5, <2>1, <2>3
<1>8. tx[b].reserve = tx[ip].reserve /\ tx[b].amount = tx[ip].amount
  BY <1>5 DEF SameLoan
<1>9. tx[ip].amount \in Nat /\ tx[ip].reserve \in ReserveId
  BY <1>2 DEF Instruction
<1> QED
  BY <1>7, <1>8, <1>9

LEMMA RepayPairs ==
    ASSUME Pairing, FlashRepay PROVE Pairing'
<1>1. Typed /\ Current("flash_repay")
  BY DEF Pairing, FlashRepay
<1>2. /\ Typed' /\ ip \in 1 .. Len(tx) /\ ip' = ip + 1
      /\ tx' = tx /\ status = "running" /\ status' = "running"
      /\ tx[ip] \in Instruction /\ tx[ip].call = "flash_repay"
  BY <1>1, Advance
<1>3. Checked /\ LoanIsOpen
  BY <1>2 DEF Pairing
<1>4. flash_repay_checks(ip) /\ IsRepay(ip) /\ ~IsBorrow(ip)
  BY <1>2 DEF FlashRepay, flash_repay_checks, is_flash_forbidden_cpi_call, IsBorrow, IsRepay,
              IsFlash, Instruction
<1>5. loan' = Nothing
  <2>1. loan' = [loan EXCEPT ![tx[ip].reserve] = @ - tx[ip].amount]
    BY DEF FlashRepay
  <2>2. /\ loan = [r \in ReserveId |-> IF r = tx[ip].reserve THEN tx[ip].amount ELSE 0]
        /\ tx[ip].amount \in Nat /\ tx[ip].reserve \in ReserveId
    BY RepaysOpen
  <2> QED
    BY <2>1, <2>2 DEF Nothing
<1>6. Checked'
  BY <1>1, <1>2, <1>3, <1>4, CheckedNext
<1>7. LoanIsOpen'
  <2> SUFFICES ASSUME NEW i \in 1 .. ip PROVE ~Open(i)'
    BY <1>2, <1>5 DEF LoanIsOpen, Nothing
  <2>1. CASE i = ip
    BY <1>2, <1>4, <2>1 DEF Open, IsBorrow, IsFlash
  <2>2. CASE i # ip
    <3>1. PICK here \in i + 1 .. ip' - 1 : here = ip
      BY <1>2, <2>2
    <3>2. IsRepay(here)'
      BY <1>2, <1>4, <3>1 DEF IsRepay, IsFlash
    <3> QED
      BY <3>1, <3>2 DEF Open
  <2> QED
    BY <2>1, <2>2
<1> QED
  BY <1>2, <1>6, <1>7 DEF Pairing

LEMMA OtherPairs ==
    ASSUME Pairing, NEW call \in {"deposit", "redeem", "borrow"}, Current(call), loan' = loan
    PROVE  Pairing'
<1>1. Typed
  BY DEF Pairing
<1>2. /\ Typed' /\ ip \in 1 .. Len(tx) /\ ip' = ip + 1
      /\ tx' = tx /\ status = "running" /\ status' = "running"
      /\ tx[ip].call = call
  BY <1>1, Advance
<1>3. Checked /\ LoanIsOpen
  BY <1>2 DEF Pairing
<1>4. ~IsBorrow(ip) /\ ~IsRepay(ip)
  BY <1>2 DEF IsBorrow, IsRepay, IsFlash
<1>5. Checked'
  BY <1>1, <1>2, <1>3, <1>4, CheckedNext
<1>6. \A i : (IsBorrow(i)' <=> IsBorrow(i)) /\ (IsRepay(i)' <=> IsRepay(i))
  BY <1>2 DEF IsBorrow, IsRepay, IsFlash
<1>7. ASSUME NEW i \in 1 .. ip - 1 PROVE Open(i)' <=> Open(i)
  <2>1. \A j \in i + 1 .. ip' - 1 : j = ip \/ j \in i + 1 .. ip - 1
    BY <1>2
  <2>2. \A j \in i + 1 .. ip - 1 : j \in i + 1 .. ip' - 1
    BY <1>2
  <2> QED
    BY <1>4, <1>6, <2>1, <2>2 DEF Open
<1>8. ASSUME NEW i \in 1 .. ip' - 1, i = ip PROVE ~Open(i)'
  BY <1>4, <1>6, <1>8 DEF Open
<1>9. LoanIsOpen'
  <2>1. CASE loan = Nothing /\ \A i \in 1 .. ip - 1 : ~Open(i)
    <3>1. ASSUME NEW i \in 1 .. ip' - 1 PROVE ~Open(i)'
      <4>1. CASE i = ip
        BY <1>8, <4>1
      <4>2. CASE i # ip
        <5>1. i \in 1 .. ip - 1
          BY <1>2, <4>2
        <5> QED
          BY <1>7, <2>1, <5>1
      <4> QED
        BY <4>1, <4>2
    <3> QED
      BY <2>1, <3>1 DEF LoanIsOpen, Nothing
  <2>2. CASE \E i \in 1 .. ip - 1 :
               /\ Open(i)
               /\ loan = [r \in ReserveId |-> IF r = tx[i].reserve THEN tx[i].amount ELSE 0]
    <3>1. PICK i \in 1 .. ip - 1 :
               /\ Open(i)
               /\ loan = [r \in ReserveId |-> IF r = tx[i].reserve THEN tx[i].amount ELSE 0]
      BY <2>2
    <3>2. i \in 1 .. ip' - 1
      BY <1>2, <3>1
    <3>3. loan' = [r \in ReserveId |-> IF r = tx'[i].reserve THEN tx'[i].amount ELSE 0]
      BY <1>2, <3>1
    <3> QED
      BY <1>7, <3>1, <3>2, <3>3 DEF LoanIsOpen
  <2> QED
    BY <1>3, <2>1, <2>2 DEF LoanIsOpen
<1> QED
  BY <1>2, <1>5, <1>9 DEF Pairing

LEMMA PairingStep ==
    ASSUME Pairing, [FlashNext]_flashVars PROVE Pairing'
<1>1. CASE FlashBorrow
  BY <1>1, BorrowPairs
<1>2. CASE FlashRepay
  BY <1>2, RepayPairs
<1>3. CASE Deposit
  BY <1>3, OtherPairs DEF Deposit
<1>4. CASE Redeem
  BY <1>4, OtherPairs DEF Redeem
<1>5. CASE Borrow
  BY <1>5, OtherPairs DEF Borrow
<1>6. CASE Commit
  BY <1>6 DEF Commit, Pairing, Typed, Checked, LoanIsOpen, Open, Nothing, IsBorrow, IsRepay,
     IsFlash, flash_borrow_checks, flash_repay_checks, is_flash_forbidden_cpi_call,
     MatchingRepay, SameLoan
<1>7. CASE Abort
  BY <1>7 DEF Abort, Pairing, Typed, Nothing
<1>8. CASE UNCHANGED flashVars
  <2>1. tx' = tx /\ ip' = ip /\ status' = status /\ loan' = loan
    BY <1>8 DEF flashVars
  <2>2. Typed' = Typed
    BY <2>1 DEF Typed
  <2>3. Checked' = Checked
    BY <2>1 DEF Checked, IsBorrow, IsRepay, IsFlash, flash_borrow_checks, flash_repay_checks,
       is_flash_forbidden_cpi_call, MatchingRepay, SameLoan
  <2>4. LoanIsOpen' = LoanIsOpen
    BY <2>1 DEF LoanIsOpen, Open, Nothing, IsBorrow, IsRepay, IsFlash
  <2> QED
    BY <2>1, <2>2, <2>3, <2>4 DEF Pairing, Nothing
<1> QED
  BY <1>1, <1>2, <1>3, <1>4, <1>5, <1>6, <1>7, <1>8 DEF FlashNext

-----------------------------------------------------------------------------
LEMMA PairingHolds == FlashSpec => []Pairing
<1>1. FlashInit => Pairing
  BY PairingInit
<1>2. Pairing /\ [FlashNext]_flashVars => Pairing'
  BY PairingStep
<1> QED
  BY <1>1, <1>2, PTL DEF FlashSpec

\* What the two checks of flash_ixs.rs are for, in a transaction of any length:
\* once it commits, nothing is outstanding in any reserve.
THEOREM LoansRepaid == FlashSpec => []CommittedRepaid
<1>1. Pairing => CommittedRepaid
  <2> SUFFICES ASSUME Pairing, status = "committed" PROVE loan = Nothing
    BY DEF CommittedRepaid, Nothing
  <2>1. Typed /\ Checked /\ LoanIsOpen /\ ip = Len(tx) + 1
    BY DEF Pairing, Typed
  <2> SUFFICES ASSUME NEW i \in 1 .. ip - 1, Open(i) PROVE FALSE
    BY <2>1 DEF LoanIsOpen
  <2>2. PICK j \in i + 1 .. Len(tx) : IsRepay(j)
    BY <2>1 DEF Open, Checked, flash_borrow_checks, IsRepay
  <2>3. j \in i + 1 .. ip - 1
    BY <2>1, <2>2 DEF Typed
  <2> QED
    BY <2>2, <2>3 DEF Open
<1> QED
  BY <1>1, PairingHolds, PTL

\* There is never more than one loan outstanding in a transaction.
THEOREM OneLoan == FlashSpec => []SingleLoan
<1>1. Pairing => SingleLoan
  BY DEF Pairing, LoanIsOpen, Nothing, SingleLoan
<1> QED
  BY <1>1, PairingHolds, PTL

-----------------------------------------------------------------------------
(* What a loan does to a reserve.                                          *)

\* r is w less n units that are lent.
Apart(r, w, n) ==
    /\ r \in ReserveState /\ w \in ReserveState
    /\ r.available = w.available - n /\ r.borrowed_sf = w.borrowed_sf + n * SF
    /\ r.protocol_fees_sf = w.protocol_fees_sf /\ r.rewards = w.rewards
    /\ r.mint_supply = w.mint_supply /\ r.queued = w.queued
    /\ r.next_issued = w.next_issued /\ r.next_withdrawable = w.next_withdrawable
    /\ r.deprecated = w.deprecated

\* The two have the same assets, so the same exchange rate.
LEMMA ApartSound ==
    ASSUME NEW r, NEW w, NEW n \in Nat, Apart(r, w, n), Sound(w)
    PROVE  /\ Sound(r) /\ total_supply(r) = total_supply(w)
           /\ collateral_exchange_rate(r) = collateral_exchange_rate(w)
<1>1. /\ r.available \in Nat /\ w.available \in Nat /\ w.borrowed_sf \in Nat
      /\ w.protocol_fees_sf \in Nat /\ SF \in Nat
  BY ScaleAssumption DEF Apart, ReserveState
<1>2. (w.available - n) * SF = w.available * SF - n * SF
  BY <1>1, Distribute
<1>3. w.available * SF \in Nat /\ n * SF \in Nat
  BY <1>1, Product
<1>4. total_supply(r) = total_supply(w)
  BY <1>1, <1>2, <1>3 DEF Apart, total_supply
<1> QED
  BY <1>4 DEF Apart, Sound, collateral_exchange_rate

\* No rounding in whole units.
LEMMA WholeUnits ==
    ASSUME NEW a \in Nat
    PROVE  a * SF \in Nat /\ (a * SF) \div SF = a
<1>1. SF \in Nat \ {0} /\ a * SF \in Nat
  BY ScaleAssumption, Product
<1> DEFINE q == (a * SF) \div SF
           p == a * SF
<1>2. q \in Nat /\ SF * q <= p /\ p < SF * q + SF
  <2> HIDE DEF p
  <2> QED
    BY <1>1, DivBounds DEF p
<1> HIDE DEF q
<1>3. ~(q < a)
  <2> SUFFICES ASSUME q < a PROVE FALSE
    OBVIOUS
  <2>1. (q + 1) * SF <= a * SF
    BY <1>1, <1>2, ProductMono
  <2>2. (q + 1) * SF = SF * q + SF
    BY <1>1, <1>2
  <2>3. SF * q \in Nat
    BY <1>1, <1>2, Product
  <2> QED
    BY <1>1, <1>2, <2>1, <2>2, <2>3
<1>4. ~(a < q)
  <2> SUFFICES ASSUME a < q PROVE FALSE
    OBVIOUS
  <2>1. a * SF < q * SF
    BY <1>1, <1>2, ProductStrict
  <2>2. q * SF = SF * q /\ SF * q \in Nat
    BY <1>1, <1>2, Product
  <2> QED
    BY <1>1, <1>2, <2>1, <2>2
<1> QED
  BY <1>1, <1>2, <1>3, <1>4 DEF q

\* Lending more of it.
LEMMA LentApart ==
    ASSUME NEW r, NEW w, NEW n \in Nat, Apart(r, w, n), NEW a \in Nat, a <= r.available
    PROVE  Apart(borrow(r, a * SF), w, n + a)
<1> DEFINE s == borrow(r, a * SF)
<1>1. r \in ReserveState /\ w \in ReserveState
  BY DEF Apart
<1>2. a * SF \in Nat /\ a = (a * SF) \div SF
  BY WholeUnits
<1>3. /\ s \in ReserveState /\ s.available = r.available - a
      /\ s.borrowed_sf = r.borrowed_sf + a * SF
      /\ s.protocol_fees_sf = r.protocol_fees_sf /\ s.rewards = r.rewards
      /\ s.mint_supply = r.mint_supply /\ s.queued = r.queued
      /\ s.next_issued = r.next_issued /\ s.next_withdrawable = r.next_withdrawable
      /\ s.deprecated = r.deprecated
  <2> DEFINE b == a * SF
  <2> HIDE DEF b
  <2> QED
    BY <1>1, <1>2, BorrowFields DEF b
<1> HIDE DEF s
<1>4. /\ w.available \in Nat /\ w.borrowed_sf \in Nat /\ SF \in Nat
  BY <1>1, ScaleAssumption DEF ReserveState
<1>5. (n + a) * SF = n * SF + a * SF /\ n * SF \in Nat
  BY <1>4, Distribute, Product
<1>6. Apart(s, w, n + a)
  BY <1>1, <1>2, <1>3, <1>4, <1>5 DEF Apart
<1> QED
  BY <1>6 DEF s

\* Giving all of it back.
LEMMA RepaidApart ==
    ASSUME NEW r, NEW w, NEW a \in Nat, Apart(r, w, a)
    PROVE  Apart(repay(r, a, a * SF), w, 0)
<1> DEFINE s == repay(r, a, a * SF)
           d == a * SF
<1>1. r \in ReserveState /\ w \in ReserveState
  BY DEF Apart
<1>2. /\ w.available \in Nat /\ w.borrowed_sf \in Nat /\ d \in Nat
      /\ r.borrowed_sf = w.borrowed_sf + d
  BY <1>1, WholeUnits DEF Apart, ReserveState
<1>3. d <= r.borrowed_sf
  BY <1>2
<1>4. Lesser(d, r.borrowed_sf) = d
  BY <1>3 DEF Lesser
<1>5. /\ s \in ReserveState /\ s.available = r.available + a
      /\ s.borrowed_sf = r.borrowed_sf - d
      /\ s.protocol_fees_sf = r.protocol_fees_sf /\ s.rewards = r.rewards
      /\ s.mint_supply = r.mint_supply /\ s.queued = r.queued
      /\ s.next_issued = r.next_issued /\ s.next_withdrawable = r.next_withdrawable
      /\ s.deprecated = r.deprecated
  <2> DEFINE t == repay(r, a, d)
  <2>1. s = t
    OBVIOUS
  <2> HIDE DEF d, s
  <2>2. /\ t \in ReserveState /\ t.available = r.available + a
        /\ t.borrowed_sf = r.borrowed_sf - Lesser(d, r.borrowed_sf)
        /\ t.protocol_fees_sf = r.protocol_fees_sf /\ t.rewards = r.rewards
        /\ t.mint_supply = r.mint_supply /\ t.queued = r.queued
        /\ t.next_issued = r.next_issued /\ t.next_withdrawable = r.next_withdrawable
        /\ t.deprecated = r.deprecated
    BY <1>1, <1>2, <1>3, RepayFields
  <2> HIDE DEF t
  <2> QED
    BY <1>4, <2>1, <2>2
<1> HIDE DEF s, d
<1>6. 0 * SF = 0
  BY ScaleAssumption
<1>7. Apart(s, w, 0)
  BY <1>1, <1>2, <1>5, <1>6 DEF Apart
<1> QED
  BY <1>7 DEF s, d

\* A deposit into both.
LEMMA DepositedApart ==
    ASSUME NEW r, NEW w, NEW n \in Nat, Apart(r, w, n), Sound(w), NEW a \in Nat
    PROVE  Apart(Deposited(r, a), Deposited(w, a), n) /\ Sound(Deposited(w, a))
<1> DEFINE l == depositable(w, a).liquidity
           c == depositable(w, a).collateral
           s == deposit_liquidity(r, l, c)
           v == deposit_liquidity(w, l, c)
<1>1. r \in ReserveState /\ w \in ReserveState
  BY DEF Apart
<1>2. depositable(r, a) = depositable(w, a)
  BY ApartSound DEF depositable
<1>3. Deposited(r, a) = s /\ Deposited(w, a) = v
  BY <1>2, Zenon DEF Deposited
<1>4. l \in Nat /\ c \in Nat /\ Sound(v)
  BY DepositKeeps
<1> HIDE DEF l, c
<1>5. /\ s \in ReserveState /\ s.available = r.available + l
      /\ s.borrowed_sf = r.borrowed_sf
      /\ s.protocol_fees_sf = r.protocol_fees_sf /\ s.rewards = r.rewards
      /\ s.mint_supply = r.mint_supply + c /\ s.queued = r.queued
      /\ s.next_issued = r.next_issued /\ s.next_withdrawable = r.next_withdrawable
      /\ s.deprecated = r.deprecated
  BY <1>1, <1>4, DepositFields
<1>6. /\ v \in ReserveState /\ v.available = w.available + l
      /\ v.borrowed_sf = w.borrowed_sf
      /\ v.protocol_fees_sf = w.protocol_fees_sf /\ v.rewards = w.rewards
      /\ v.mint_supply = w.mint_supply + c /\ v.queued = w.queued
      /\ v.next_issued = w.next_issued /\ v.next_withdrawable = w.next_withdrawable
      /\ v.deprecated = w.deprecated
  BY <1>1, <1>4, DepositFields
<1> HIDE DEF s, v
<1>7. w.available \in Nat
  BY <1>1 DEF ReserveState
<1>8. Apart(s, v, n)
  BY <1>4, <1>5, <1>6, <1>7 DEF Apart
<1> QED
  BY <1>3, <1>4, <1>8

\* A redemption from both, for the same liquidity.
LEMMA RedeemedApart ==
    ASSUME NEW r, NEW w, NEW n \in Nat, Apart(r, w, n), Sound(w),
           NEW a \in Nat, a < r.mint_supply, Withdrawable(r, Worth(r, a), FALSE)
    PROVE  /\ Apart(redeem_collateral(r, a), redeem_collateral(w, a), n)
           /\ Sound(redeem_collateral(w, a))
<1> DEFINE l == Worth(w, a)
           s == redeem_collateral(r, a)
           v == redeem_collateral(w, a)
<1>1. /\ r \in ReserveState /\ w \in ReserveState /\ r.mint_supply = w.mint_supply
      /\ r.available = w.available - n
  BY DEF Apart
<1>2. Sound(r) /\ Worth(r, a) = l
  BY ApartSound DEF Worth
<1>3. l \in Nat
  BY WorthBounds
<1>4. l <= r.available
  <2>1. l <= freely_available_liquidity_amount(r)
    BY <1>2 DEF Withdrawable
  <2> HIDE DEF l
  <2> QED
    BY <1>2, <1>3, <2>1, FreeAmount
<1>5. r.available \in Nat /\ w.available \in Nat /\ w.mint_supply \in Nat
  BY <1>1 DEF ReserveState
<1>6. l <= w.available
  BY <1>1, <1>3, <1>4, <1>5
<1>7. Sound(v)
  <2>1. a < w.mint_supply /\ Worth(w, a) <= w.available
    BY <1>1, <1>6
  <2> QED
    BY <2>1, RedeemKeeps
<1>8. /\ l = collateral_to_liquidity(collateral_exchange_rate(r), a)
      /\ l = collateral_to_liquidity(collateral_exchange_rate(w), a)
  BY <1>2 DEF Worth
<1> HIDE DEF l
<1>9. /\ s \in ReserveState /\ s.available = r.available - l
      /\ s.borrowed_sf = r.borrowed_sf
      /\ s.protocol_fees_sf = r.protocol_fees_sf /\ s.rewards = r.rewards
      /\ s.mint_supply = r.mint_supply - a /\ s.queued = r.queued
      /\ s.next_issued = r.next_issued /\ s.next_withdrawable = r.next_withdrawable
      /\ s.deprecated = r.deprecated
  <2>1. a <= r.mint_supply
    BY <1>1, <1>5
  <2> HIDE DEF s, v
  <2> QED
    BY <1>1, <1>3, <1>4, <1>8, <2>1, RedeemFields DEF s
<1>10. /\ v \in ReserveState /\ v.available = w.available - l
       /\ v.borrowed_sf = w.borrowed_sf
       /\ v.protocol_fees_sf = w.protocol_fees_sf /\ v.rewards = w.rewards
       /\ v.mint_supply = w.mint_supply - a /\ v.queued = w.queued
       /\ v.next_issued = w.next_issued /\ v.next_withdrawable = w.next_withdrawable
       /\ v.deprecated = w.deprecated
  BY <1>1, <1>3, <1>5, <1>6, <1>8, RedeemFields
<1> HIDE DEF s, v
<1>11. Apart(s, v, n)
  BY <1>3, <1>5, <1>9, <1>10 DEF Apart
<1> QED
  BY <1>7, <1>11 DEF s, v

\* A borrow from both.
LEMMA BorrowedApart ==
    ASSUME NEW r, NEW w, NEW n \in Nat, Apart(r, w, n), Sound(w),
           NEW a \in Nat, Withdrawable(r, a, FALSE)
    PROVE  Apart(borrow(r, a * SF), borrow(w, a * SF), n) /\ Sound(borrow(w, a * SF))
<1> DEFINE b == a * SF
           s == borrow(r, b)
           v == borrow(w, b)
<1>1. /\ r \in ReserveState /\ w \in ReserveState /\ r.available = w.available - n
  BY DEF Apart
<1>2. b \in Nat /\ a = b \div SF
  BY WholeUnits
<1>3. a <= r.available
  <2>1. Sound(r)
    BY ApartSound
  <2>2. a <= freely_available_liquidity_amount(r)
    BY DEF Withdrawable
  <2> QED
    BY <2>1, <2>2, FreeAmount
<1>4. r.available \in Nat /\ w.available \in Nat /\ w.borrowed_sf \in Nat /\ n * SF \in Nat
  BY <1>1, WholeUnits DEF ReserveState
<1>5. a <= w.available
  BY <1>1, <1>3, <1>4
<1> HIDE DEF b
<1>6. Sound(v)
  BY <1>2, <1>5, BorrowKeeps
<1>7. /\ s \in ReserveState /\ s.available = r.available - a
      /\ s.borrowed_sf = r.borrowed_sf + b
      /\ s.protocol_fees_sf = r.protocol_fees_sf /\ s.rewards = r.rewards
      /\ s.mint_supply = r.mint_supply /\ s.queued = r.queued
      /\ s.next_issued = r.next_issued /\ s.next_withdrawable = r.next_withdrawable
      /\ s.deprecated = r.deprecated
  BY <1>1, <1>2, <1>3, BorrowFields
<1>8. /\ v \in ReserveState /\ v.available = w.available - a
      /\ v.borrowed_sf = w.borrowed_sf + b
      /\ v.protocol_fees_sf = w.protocol_fees_sf /\ v.rewards = w.rewards
      /\ v.mint_supply = w.mint_supply /\ v.queued = w.queued
      /\ v.next_issued = w.next_issued /\ v.next_withdrawable = w.next_withdrawable
      /\ v.deprecated = w.deprecated
  BY <1>1, <1>2, <1>5, BorrowFields
<1> HIDE DEF s, v
<1>9. Apart(s, v, n)
  BY <1>2, <1>4, <1>7, <1>8 DEF Apart
<1> QED
  BY <1>6, <1>9 DEF s, v, b

\* The nine fields are the record.
LEMMA ApartIsEqual ==
    ASSUME NEW r, NEW w, NEW n \in Nat, Apart(r, w, n)
    PROVE  r = [w EXCEPT !.available = @ - n, !.borrowed_sf = @ + n * SF]
<1> DEFINE x == w.available - n
           y == w.borrowed_sf + n * SF
           w1 == [w EXCEPT !.available = x]
           w2 == [w1 EXCEPT !.borrowed_sf = y]
<1>1. r \in ReserveState /\ w \in ReserveState /\ r.available = x /\ r.borrowed_sf = y
  BY DEF Apart
<1>2. x \in Nat /\ y \in Nat
  BY <1>1 DEF ReserveState
<1> HIDE DEF x, y
<1>3. w1 \in ReserveState
  BY <1>1, <1>2 DEF ReserveState
<1>4. w2 \in ReserveState
  <2> HIDE DEF w1
  <2> QED
    BY <1>2, <1>3 DEF ReserveState
<1>5. /\ w2.available = x /\ w2.borrowed_sf = y
      /\ w2.protocol_fees_sf = w.protocol_fees_sf /\ w2.rewards = w.rewards
      /\ w2.mint_supply = w.mint_supply /\ w2.queued = w.queued
      /\ w2.next_issued = w.next_issued /\ w2.next_withdrawable = w.next_withdrawable
      /\ w2.deprecated = w.deprecated
  BY <1>1 DEF ReserveState
<1>6. r = w2
  <2> HIDE DEF w2
  <2> QED
    BY <1>1, <1>4, <1>5 DEF Apart, ReserveState
<1>7. w2 = [w EXCEPT !.available = @ - n, !.borrowed_sf = @ + n * SF]
  BY Zenon DEF x, y
<1> QED
  BY <1>6, <1>7

-----------------------------------------------------------------------------
(* NoTrace as an inductive invariant: the loan of every reserve stands     *)
(* between it and what it would be, which is sound.                        *)

Traced ==
    /\ reserve \in [ReserveId -> ReserveState] /\ without \in [ReserveId -> ReserveState]
    /\ entry \in [ReserveId -> Opening]
    /\ loan \in [ReserveId -> Nat]
    /\ \A r \in ReserveId : Sound(without[r]) /\ Apart(reserve[r], without[r], loan[r])

\* The reserves a transaction starts with.
LEMMA EntryTraced ==
    ASSUME entry \in [ReserveId -> Opening]
    PROVE  \A r \in ReserveId : Sound(entry[r]) /\ Apart(entry[r], entry[r], 0)
<1> TAKE r \in ReserveId
<1> DEFINE w == entry[r]
<1>1. w \in ReserveState /\ w.mint_supply > 0 /\ total_supply(w) > 0
  BY FlashAssumption
<1>2. 0 * SF = 0
  BY ScaleAssumption
<1> HIDE DEF w
<1>3. w.available = w.available - 0 /\ w.borrowed_sf = w.borrowed_sf + 0 * SF
  BY <1>1, <1>2 DEF ReserveState
<1>4. Sound(w) /\ Apart(w, w, 0)
  BY <1>1, <1>3 DEF Sound, Apart
<1> QED
  BY <1>4 DEF w

LEMMA TracedInit == FlashInit => Traced
<1> SUFFICES ASSUME FlashInit PROVE Traced
  OBVIOUS
<1>1. entry \in [ReserveId -> Opening] /\ reserve = entry /\ without = entry
      /\ loan = [r \in ReserveId |-> 0]
  BY DEF FlashInit
<1>2. \A r \in ReserveId : Sound(without[r]) /\ Apart(reserve[r], without[r], loan[r])
  BY <1>1, EntryTraced
<1>3. reserve \in [ReserveId -> ReserveState]
  BY <1>1, FlashAssumption
<1> QED
  BY <1>1, <1>2, <1>3 DEF Traced

\* One reserve and what stands for it are replaced by such a pair.
LEMMA TracedNext ==
    ASSUME Traced, entry' = entry, NEW r \in ReserveId,
           NEW s, NEW w, NEW n \in Nat, Sound(w), Apart(s, w, n),
           reserve' = [reserve EXCEPT ![r] = s], without' = [without EXCEPT ![r] = w],
           loan' = [loan EXCEPT ![r] = n]
    PROVE  Traced'
<1>1. /\ reserve' \in [ReserveId -> ReserveState] /\ without' \in [ReserveId -> ReserveState]
      /\ entry' \in [ReserveId -> Opening] /\ loan' \in [ReserveId -> Nat]
  <2>1. s \in ReserveState /\ w \in ReserveState
    BY DEF Apart
  <2> QED
    BY <2>1 DEF Traced
<1>2. \A t \in ReserveId : Sound(without'[t]) /\ Apart(reserve'[t], without'[t], loan'[t])
  <2> TAKE t \in ReserveId
  <2>1. CASE t = r
    BY <2>1 DEF Traced
  <2>2. CASE t # r
    <3>1. Sound(without[t]) /\ Apart(reserve[t], without[t], loan[t])
      BY DEF Traced
    <3>2. reserve'[t] = reserve[t] /\ without'[t] = without[t] /\ loan'[t] = loan[t]
      BY <2>2 DEF Traced
    <3> QED
      BY <3>1, <3>2
  <2> QED
    BY <2>1, <2>2
<1> QED
  BY <1>1, <1>2 DEF Traced, Sound, Apart, total_supply

\* The reserve an instruction is about, its amount and its present state.
LEMMA CurrentReserve ==
    ASSUME Typed, Traced, NEW call, Current(call)
    PROVE  /\ tx[ip].reserve \in ReserveId /\ tx[ip].amount \in Nat /\ entry' = entry
           /\ loan[tx[ip].reserve] \in Nat /\ Sound(without[tx[ip].reserve])
           /\ Apart(reserve[tx[ip].reserve], without[tx[ip].reserve], loan[tx[ip].reserve])
<1>1. tx[ip] \in Instruction /\ entry' = entry
  BY Advance DEF Current
<1>2. tx[ip].reserve \in ReserveId /\ tx[ip].amount \in Nat
  BY <1>1 DEF Instruction
<1> QED
  BY <1>1, <1>2 DEF Traced

LEMMA FlashBorrowTraced ==
    ASSUME Typed, Traced, FlashBorrow PROVE Traced'
<1> DEFINE r == tx[ip].reserve
           a == tx[ip].amount
           s == borrow(reserve[r], a * SF)
<1>1. Current("flash_borrow")
  BY DEF FlashBorrow
<1>2. /\ r \in ReserveId /\ a \in Nat /\ entry' = entry /\ loan[r] \in Nat
      /\ Sound(without[r]) /\ Apart(reserve[r], without[r], loan[r])
  BY <1>1, CurrentReserve
<1>3. /\ Withdrawable(reserve[r], a, TRUE)
      /\ reserve' = [reserve EXCEPT ![r] = s]
      /\ loan' = [loan EXCEPT ![r] = loan[r] + a]
      /\ without' = without
  BY DEF FlashBorrow
<1>4. a <= reserve[r].available
  BY <1>3 DEF Withdrawable
<1>5. Apart(s, without[r], loan[r] + a)
  BY <1>2, <1>4, LentApart
<1>6. without' = [without EXCEPT ![r] = without[r]]
  BY <1>3 DEF Traced
<1>7. loan[r] + a \in Nat
  BY <1>2
<1> HIDE DEF r, a, s
<1> QED
  BY <1>2, <1>3, <1>5, <1>6, <1>7, TracedNext

LEMMA FlashRepayTraced ==
    ASSUME Pairing, Traced, FlashRepay PROVE Traced'
<1> DEFINE r == tx[ip].reserve
           a == tx[ip].amount
           s == repay(reserve[r], a, a * SF)
<1>1. Typed /\ Current("flash_repay")
  BY DEF Pairing, FlashRepay
<1>2. /\ r \in ReserveId /\ a \in Nat /\ entry' = entry /\ loan[r] \in Nat
      /\ Sound(without[r]) /\ Apart(reserve[r], without[r], loan[r])
  BY <1>1, CurrentReserve
<1>3. /\ reserve' = [reserve EXCEPT ![r] = s]
      /\ loan' = [loan EXCEPT ![r] = loan[r] - a]
      /\ without' = without
  BY DEF FlashRepay
<1>4. loan[r] = a
  BY <1>2, RepaysOpen
<1>5. Apart(s, without[r], 0)
  BY <1>2, <1>4, RepaidApart
<1>6. without' = [without EXCEPT ![r] = without[r]]
  BY <1>3 DEF Traced
<1>7. loan' = [loan EXCEPT ![r] = 0]
  <2>1. loan[r] - a = 0
    BY <1>2, <1>4
  <2> HIDE DEF r, a
  <2> QED
    BY <1>3, <2>1
<1> HIDE DEF r, a, s
<1> QED
  BY <1>2, <1>3, <1>5, <1>6, <1>7, TracedNext

LEMMA DepositTraced ==
    ASSUME Typed, Traced, Deposit PROVE Traced'
<1> DEFINE r == tx[ip].reserve
           a == tx[ip].amount
           s == Deposited(reserve[r], a)
           w == Deposited(without[r], a)
<1>1. Current("deposit")
  BY DEF Deposit
<1>2. /\ r \in ReserveId /\ a \in Nat /\ entry' = entry /\ loan[r] \in Nat
      /\ Sound(without[r]) /\ Apart(reserve[r], without[r], loan[r])
  BY <1>1, CurrentReserve
<1>3. /\ reserve' = [reserve EXCEPT ![r] = s] /\ without' = [without EXCEPT ![r] = w]
      /\ loan' = loan
  BY DEF Deposit
<1>4. Apart(s, w, loan[r]) /\ Sound(w)
  BY <1>2, DepositedApart
<1>5. loan' = [loan EXCEPT ![r] = loan[r]]
  BY <1>3 DEF Traced
<1> HIDE DEF r, a, s, w
<1> QED
  BY <1>2, <1>3, <1>4, <1>5, TracedNext

LEMMA RedeemTraced ==
    ASSUME Typed, Traced, Redeem PROVE Traced'
<1> DEFINE r == tx[ip].reserve
           a == tx[ip].amount
           s == redeem_collateral(reserve[r], a)
           w == redeem_collateral(without[r], a)
<1>1. Current("redeem")
  BY DEF Redeem
<1>2. /\ r \in ReserveId /\ a \in Nat /\ entry' = entry /\ loan[r] \in Nat
      /\ Sound(without[r]) /\ Apart(reserve[r], without[r], loan[r])
  BY <1>1, CurrentReserve
<1>3. /\ reserve' = [reserve EXCEPT ![r] = s] /\ without' = [without EXCEPT ![r] = w]
      /\ loan' = loan
      /\ a < reserve[r].mint_supply /\ Withdrawable(reserve[r], Worth(reserve[r], a), FALSE)
  BY DEF Redeem, Worth
<1>4. Apart(s, w, loan[r]) /\ Sound(w)
  BY <1>2, <1>3, RedeemedApart
<1>5. loan' = [loan EXCEPT ![r] = loan[r]]
  BY <1>3 DEF Traced
<1> HIDE DEF r, a, s, w
<1> QED
  BY <1>2, <1>3, <1>4, <1>5, TracedNext

LEMMA BorrowTraced ==
    ASSUME Typed, Traced, Borrow PROVE Traced'
<1> DEFINE r == tx[ip].reserve
           a == tx[ip].amount
           s == borrow(reserve[r], a * SF)
           w == borrow(without[r], a * SF)
<1>1. Current("borrow")
  BY DEF Borrow
<1>2. /\ r \in ReserveId /\ a \in Nat /\ entry' = entry /\ loan[r] \in Nat
      /\ Sound(without[r]) /\ Apart(reserve[r], without[r], loan[r])
  BY <1>1, CurrentReserve
<1>3. /\ reserve' = [reserve EXCEPT ![r] = s] /\ without' = [without EXCEPT ![r] = w]
      /\ loan' = loan /\ Withdrawable(reserve[r], a, FALSE)
  BY DEF Borrow
<1>4. Apart(s, w, loan[r]) /\ Sound(w)
  BY <1>2, <1>3, BorrowedApart
<1>5. loan' = [loan EXCEPT ![r] = loan[r]]
  BY <1>3 DEF Traced
<1> HIDE DEF r, a, s, w
<1> QED
  BY <1>2, <1>3, <1>4, <1>5, TracedNext

LEMMA TracedStep ==
    ASSUME Pairing, Traced, [FlashNext]_flashVars PROVE Traced'
<1>1. Typed
  BY DEF Pairing
<1>2. CASE Abort
  <2>1. /\ entry' = entry /\ reserve' = entry' /\ without' = entry'
        /\ loan' = [r \in ReserveId |-> 0]
    BY <1>2 DEF Abort
  <2>2. \A r \in ReserveId : Sound(entry[r]) /\ Apart(entry[r], entry[r], 0)
    BY EntryTraced DEF Traced
  <2>3. entry' \in [ReserveId -> Opening]
    BY <2>1 DEF Traced
  <2>4. \A r \in ReserveId : Sound(without'[r]) /\ Apart(reserve'[r], without'[r], loan'[r])
    BY <2>1, <2>2
  <2>5. reserve' \in [ReserveId -> ReserveState] /\ without' \in [ReserveId -> ReserveState]
    BY <2>1, FlashAssumption DEF Traced
  <2> QED
    BY <2>1, <2>3, <2>4, <2>5 DEF Traced, Sound, Apart, total_supply
<1>3. CASE Commit \/ UNCHANGED flashVars
  BY <1>3 DEF Commit, flashVars, Traced, Sound, Apart, total_supply
<1> QED
  BY <1>1, <1>2, <1>3, FlashBorrowTraced, FlashRepayTraced, DepositTraced, RedeemTraced,
     BorrowTraced DEF FlashNext

\* The state of the transaction and the figures of the reserves have the types
\* of the code.
LEMMA TracedNoTrace == ASSUME Pairing, Traced PROVE NoTrace
<1>1. \A r \in ReserveId : /\ reserve[r] \in ReserveState /\ without[r] \in ReserveState
                           /\ entry[r] \in ReserveState
  BY FlashAssumption DEF Traced, Apart
<1>2. FlashTypeOK
  <2>1. /\ reserve \in [ReserveId -> ReserveState] /\ without \in [ReserveId -> ReserveState]
    BY <1>1 DEF Traced
  <2> QED
    BY <2>1, FlashAssumption DEF FlashTypeOK, Traced, Pairing, Typed
<1>3. \A r \in ReserveId :
         reserve[r] = [without[r] EXCEPT !.available = @ - loan[r],
                                         !.borrowed_sf = @ + loan[r] * SF]
  <2> TAKE r \in ReserveId
  <2>1. loan[r] \in Nat /\ Apart(reserve[r], without[r], loan[r])
    BY DEF Traced
  <2> QED
    BY <2>1, ApartIsEqual
<1> QED
  BY <1>2, <1>3 DEF NoTrace

\* A flash loan leaves no trace in the reserve but the amount lent, whatever
\* the transaction does between flash_borrow and flash_repay: no figure
\* underflows, and the exchange rate is that without the loan.
THEOREM LoanLeavesNoTrace == FlashSpec => []NoTrace
<1>1. FlashInit => Traced
  BY TracedInit
<1>2. Pairing /\ Traced /\ [FlashNext]_flashVars => Traced'
  BY TracedStep
<1>3. Pairing /\ Traced => NoTrace
  BY TracedNoTrace
<1> QED
  BY <1>1, <1>2, <1>3, PairingHolds, PTL DEF FlashSpec
=============================================================================

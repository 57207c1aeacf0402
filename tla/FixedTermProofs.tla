--------------------------- MODULE FixedTermProofs ---------------------------
(***************************************************************************)
(* Proofs about FixedTerm, for every set of reserves, every market and any *)
(* sequence of instructions.                                               *)
(***************************************************************************)
EXTENDS FixedTerm, ReserveTheorems

\* A slot is empty or whole, and its settings have the limits they need.
LimitsKept(c) ==
    /\ c.auto \/ c.migration => c.rate # 0
    /\ c.migration => c.min_term # 0

GoodSlot(b, time) ==
    /\ b \in Borrowed
    /\ b = NoBorrow \/ (b.debt > 0 /\ b.last \in 1..time)
    /\ LimitsKept(b.config)

KeptPromise(b, t, p) == b.debt > 0 => get_debt_term_end_timestamp(b, t) >= p

Scalars ==
    /\ now \in 1..MaxNow /\ fresh \in {"yes", "stale", "old"}
    /\ term \in [ReserveId -> TermSeconds] /\ available \in [ReserveId -> Nat]
    /\ maturity \in [ReserveId -> 0..(Never - 1)]
    /\ promised \in [ReserveId -> 0..Never] /\ seen \in Nat /\ unseen \in Nat

Slots ==
    /\ slot \in [ReserveId -> Borrowed]
    /\ \A r \in ReserveId : GoodSlot(slot[r], now)

WholeOrder ==
    /\ order \in Order
    /\ order = NoOrder \/ (order.remaining > 0 /\ order.rate > 0 /\ order.until > 0)

Promises == \A r \in ReserveId : KeptPromise(slot[r], term[r], promised[r])

\* A fill is unseen exactly as far as the order has shrunk since its owner
\* looked at it: what remains and what was filled since are within what was seen.
SeenBound == order.remaining + unseen <= seen

\* Nothing is promised beyond the maturity of a reserve.
WithinMaturity == \A r \in ReserveId : promised[r] <= Matures(maturity[r])

\* The inductive invariant, to which WithinMaturity is added at the end.
Inv == Scalars /\ Slots /\ WholeOrder /\ Promises /\ SeenBound

-----------------------------------------------------------------------------
(* Arithmetic                                                              *)

LEMMA MaxOfTwo ==
    ASSUME NEW a \in Int, NEW b \in Int
    PROVE  Max({a, b}) = IF a >= b THEN a ELSE b
  <1>1. CASE a >= b
    BY <1>1 DEF Max
  <1>2. CASE ~(a >= b)
    BY <1>2 DEF Max
  <1> QED
    BY <1>1, <1>2

LEMMA MinOfTwo ==
    ASSUME NEW a \in Int, NEW b \in Int
    PROVE  Min({a, b}) = IF a <= b THEN a ELSE b
  <1>1. CASE a <= b
    BY <1>1 DEF Min
  <1>2. CASE ~(a <= b)
    BY <1>2 DEF Min
  <1> QED
    BY <1>1, <1>2

LEMMA MinOfThree ==
    ASSUME NEW a \in Int, NEW b \in Int, NEW c \in Int
    PROVE  /\ Min({a, b, c}) \in Int
           /\ Min({a, b, c}) <= a /\ Min({a, b, c}) <= b /\ Min({a, b, c}) <= c
  <1>1. \E m \in {a, b, c} : \A y \in {a, b, c} : m <= y
    <2>1. CASE a <= b /\ a <= c
      BY <2>1
    <2>2. CASE b <= a /\ b <= c
      BY <2>2
    <2>3. CASE c <= a /\ c <= b
      BY <2>3
    <2> QED
      BY <2>1, <2>2, <2>3
  <1> QED
    BY <1>1 DEF Min

LEMMA CeilType == ASSUME NEW d \in Nat PROVE ceil(d) \in Nat
  BY CeilBounds, ScaleAssumption DEF ceil

LEMMA TotalType == ASSUME TypeOK PROVE Total(slot) \in Nat
  <1> DEFINE f == [r \in ReserveId |-> slot[r].debt]
  <1>1. NatOn(f, ReserveId)
    BY DEF NatOn, TypeOK, Borrowed
  <1> HIDE DEF f
  <1>2. SumFunctionOnSet(f, ReserveId) \in Nat
    BY <1>1, SumType, FixedTermAssumption
  <1> QED
    BY <1>2 DEF Total, f

LEMMA FreelyAvailable ==
    ASSUME TypeOK, NEW r \in ReserveId
    PROVE  freely_available(r) \in 0..available[r]
  <1>1. available[r] \in Nat /\ queued[r] \in Nat
    BY FixedTermAssumption DEF TypeOK
  <1>2. Max({available[r] - queued[r], 0}) =
            IF available[r] - queued[r] >= 0 THEN available[r] - queued[r] ELSE 0
    BY <1>1, MaxOfTwo
  <1> QED
    BY <1>1, <1>2 DEF freely_available

\* What a fill takes is at most what the order still asks for.
LEMMA FillAmount ==
    ASSUME TypeOK, NEW r \in ReserveId
    PROVE  /\ fill_amount(r) \in Int
           /\ fill_amount(r) <= order.remaining
           /\ fill_amount(r) <= freely_available(r)
  <1> DEFINE c == (allowed_borrow_value - Total(slot)) \div SF
  <1>1. c \in Int
    BY TotalType, FixedTermAssumption, ScaleAssumption
  <1>2. order.remaining \in Int /\ freely_available(r) \in Int
    BY FreelyAvailable DEF TypeOK, Order
  <1> HIDE DEF c
  <1>3. LET m == Min({order.remaining, freely_available(r), c})
        IN  m \in Int /\ m <= order.remaining /\ m <= freely_available(r)
    BY <1>1, <1>2, MinOfThree
  <1> QED
    BY <1>3 DEF fill_amount, c

LEMMA NoRecords ==
    /\ NoConfig \in Config /\ NoBorrow \in Borrowed /\ NoOrder \in Order
    /\ LimitsKept(NoConfig)
  BY FixedTermAssumption DEF NoConfig, NoBorrow, NoOrder, Config, Borrowed,
                             Order, TermSeconds, LimitsKept

LEMMA InvTypes == ASSUME Inv PROVE TypeOK
  BY DEF Inv, Scalars, Slots, WholeOrder, GoodSlot, TypeOK

\* An end that is agreed to is a time, and never later than Never.
LEMMA AgreedEnd ==
    ASSUME Inv, NEW seconds \in TermSeconds
    PROVE  /\ EndAfter(seconds) \in 0..Never
           /\ EndAfter(seconds) = IF seconds = 0 THEN Never ELSE now + seconds
  <1>1. now \in Nat /\ now <= MaxNow /\ MaxNow \in Nat /\ Never \in Nat
    BY FixedTermAssumption DEF Inv, Scalars
  <1>2. seconds \in Nat /\ MaxNow + seconds < Never
    BY DEF TermSeconds
  <1> QED
    BY <1>1, <1>2 DEF EndAfter

LEMMA AgreedWithin ==
    ASSUME Inv, NEW r \in ReserveId, NEW seconds \in TermSeconds
    PROVE  /\ EndIn(r, seconds) \in 0..Never
           /\ EndIn(r, seconds) <= EndAfter(seconds)
           /\ EndIn(r, seconds) <= Matures(maturity[r])
  <1>1. EndAfter(seconds) \in 0..Never /\ Never \in Nat
    BY AgreedEnd, FixedTermAssumption
  <1>2. Matures(maturity[r]) \in 0..Never
    BY FixedTermAssumption DEF Inv, Scalars, Matures
  <1> QED
    BY <1>1, <1>2 DEF EndIn, Lesser

LEMMA AgreedTo ==
    ASSUME Inv, NEW r \in ReserveId, NEW end \in 0..Never
    PROVE  /\ Agree(r, end) \in [ReserveId -> 0..Never]
           /\ Agree(r, end)[r] = IF slot[r].debt = 0 \/ promised[r] < end
                                 THEN end ELSE promised[r]
           /\ \A q \in ReserveId \ {r} : Agree(r, end)[q] = promised[q]
  <1>1. Never \in Nat /\ promised \in [ReserveId -> 0..Never]
    BY FixedTermAssumption DEF Inv, Scalars
  <1>2. Max({promised[r], end}) = IF promised[r] >= end THEN promised[r] ELSE end
    BY <1>1, MaxOfTwo
  <1> QED
    BY <1>1, <1>2 DEF Agree

-----------------------------------------------------------------------------
(* Slots                                                                   *)

\* The slot after a borrow, and after a new term.
LEMMA BorrowedFields ==
    ASSUME NEW b \in Borrowed, NEW d \in Nat, now \in Nat
    PROVE  /\ borrowed(b, d) \in Borrowed
           /\ borrowed(b, d).debt = b.debt + d /\ borrowed(b, d).last = now
           /\ borrowed(b, d).captured = b.captured /\ borrowed(b, d).config = b.config
  <1>1. b.debt + d \in Nat
    BY DEF Borrowed
  <1> DEFINE c == [b EXCEPT !.debt = @ + d]
  <1>2. /\ c \in Borrowed /\ c.debt = b.debt + d
        /\ c.captured = b.captured /\ c.config = b.config
    BY <1>1 DEF Borrowed
  <1>3. borrowed(b, d) = [c EXCEPT !.last = now]
    BY Zenon DEF borrowed
  <1> HIDE DEF c
  <1>4. /\ [c EXCEPT !.last = now] \in Borrowed
        /\ [c EXCEPT !.last = now].debt = c.debt /\ [c EXCEPT !.last = now].last = now
        /\ [c EXCEPT !.last = now].captured = c.captured
        /\ [c EXCEPT !.last = now].config = c.config
    BY <1>2 DEF Borrowed
  <1> QED
    BY <1>2, <1>3, <1>4

LEMMA RenewedFields ==
    ASSUME NEW b \in Borrowed, now \in Nat
    PROVE  /\ renewed(b) \in Borrowed
           /\ renewed(b).debt = b.debt /\ renewed(b).last = now
           /\ renewed(b).captured = 0 /\ renewed(b).config = b.config
  BY DEF renewed, Borrowed

LEMMA BorrowedIsGood ==
    ASSUME NEW b, NEW time \in Nat, NEW d \in Nat \ {0}, now \in 1..time,
           b \in Borrowed, LimitsKept(b.config)
    PROVE  GoodSlot(borrowed(b, d), time)
  <1>1. b.debt \in Nat
    BY DEF Borrowed
  <1>2. /\ borrowed(b, d) \in Borrowed /\ borrowed(b, d).debt = b.debt + d
        /\ borrowed(b, d).last = now /\ borrowed(b, d).config = b.config
    BY BorrowedFields
  <1> QED
    BY <1>1, <1>2 DEF GoodSlot

LEMMA RenewedIsGood ==
    ASSUME NEW b, NEW time \in Nat, now \in 1..time, GoodSlot(b, time), b.debt > 0
    PROVE  GoodSlot(renewed(b), time)
  <1>1. b \in Borrowed /\ LimitsKept(b.config)
    BY DEF GoodSlot
  <1> QED
    BY <1>1, RenewedFields DEF GoodSlot

LEMMA RepaidIsGood ==
    ASSUME NEW b, NEW time \in Nat, GoodSlot(b, time), b.debt > 0, NEW d \in 0..b.debt
    PROVE  GoodSlot(repaid(b, d), time)
  <1>1. CASE d = b.debt
    BY <1>1, NoRecords DEF GoodSlot, repaid, NoBorrow
  <1>2. CASE d # b.debt
    BY <1>2 DEF GoodSlot, repaid, Borrowed, NoBorrow
  <1> QED
    BY <1>1, <1>2

\* A later start of the same term ends it later, and a longer term too.
LEMMA LaterEnd ==
    ASSUME NEW b \in Borrowed, NEW c \in Borrowed, NEW t \in TermSeconds, NEW p \in 0..Never,
           KeptPromise(b, t, p), b.debt > 0, b.last > 0, b.last <= c.last
    PROVE  get_debt_term_end_timestamp(c, t) >= p
  BY FixedTermAssumption DEF KeptPromise, get_debt_term_end_timestamp, Borrowed, TermSeconds

\* One slot changes.
LEMMA OneSlot ==
    ASSUME Inv, NEW r \in ReserveId, NEW b, GoodSlot(b, now),
           now' = now, slot' = [slot EXCEPT ![r] = b]
    PROVE  /\ Slots' /\ slot'[r] = b
           /\ \A q \in ReserveId \ {r} : slot'[q] = slot[q]
  <1>1. b \in Borrowed
    BY DEF GoodSlot
  <1>2. slot \in [ReserveId -> Borrowed] /\ \A q \in ReserveId : GoodSlot(slot[q], now)
    BY DEF Inv, Slots
  <1>3. slot' \in [ReserveId -> Borrowed]
    BY <1>1, <1>2
  <1>4. slot'[r] = b /\ \A q \in ReserveId \ {r} : slot'[q] = slot[q]
    BY <1>2
  <1>5. \A q \in ReserveId : GoodSlot(slot'[q], now')
    BY <1>2, <1>4
  <1> QED
    BY <1>3, <1>4, <1>5 DEF Slots

\* A slot whose term starts now keeps the old promise and a new one that the
\* reserve's term reaches.
LEMMA Extended ==
    ASSUME Inv, NEW r \in ReserveId, NEW c \in Borrowed, c.last = now,
           NEW end \in 0..Never, get_debt_term_end_timestamp(c, term[r]) >= end
    PROVE  KeptPromise(c, term[r], Agree(r, end)[r])
  <1>1. CASE Agree(r, end)[r] = end
    BY <1>1 DEF KeptPromise
  <1>2. CASE slot[r].debt # 0 /\ Agree(r, end)[r] = promised[r]
    <2>1. /\ slot[r] \in Borrowed /\ slot[r].debt > 0
          /\ slot[r].last > 0 /\ slot[r].last <= c.last
      BY <1>2 DEF Inv, Slots, GoodSlot, NoBorrow, Scalars
    <2>2. term[r] \in TermSeconds /\ promised[r] \in 0..Never
      BY DEF Inv, Scalars
    <2>3. KeptPromise(slot[r], term[r], promised[r])
      BY DEF Inv, Promises
    <2> QED
      BY <1>2, <2>1, <2>2, <2>3, LaterEnd DEF KeptPromise
  <1> QED
    BY <1>1, <1>2, AgreedTo

\* A reserve that satisfies a minimum term gives at least that.
LEMMA TermGiven ==
    ASSUME Inv, NEW r \in ReserveId, NEW seconds \in TermSeconds,
           is_term_satisfied(seconds, offered_term(r)),
           NEW c \in Borrowed, c.last = now
    PROVE  get_debt_term_end_timestamp(c, term[r]) >= EndAfter(seconds)
  <1>1. /\ now \in Nat /\ now > 0 /\ now <= MaxNow /\ MaxNow \in Nat /\ Never \in Nat
        /\ term[r] \in TermSeconds
    BY FixedTermAssumption DEF Inv, Scalars
  <1>2. EndAfter(seconds) = IF seconds = 0 THEN Never ELSE now + seconds
    BY AgreedEnd
  <1>3. /\ seconds \in Nat /\ MaxNow + seconds < Never
        /\ term[r] \in Nat /\ MaxNow + term[r] < Never
    BY <1>1 DEF TermSeconds
  <1> QED
    BY <1>1, <1>2, <1>3 DEF is_term_satisfied, offered_term, get_debt_term_end_timestamp

-----------------------------------------------------------------------------
(* Initial state and the instructions on the order                         *)

LEMMA InitInv == Init => Inv
  <1> SUFFICES ASSUME Init PROVE Inv
    OBVIOUS
  <1>1. Scalars
    BY FixedTermAssumption DEF Init, Scalars
  <1>2. Slots
    BY NoRecords DEF Init, Slots, GoodSlot, NoBorrow
  <1>3. WholeOrder /\ SeenBound
    BY NoRecords DEF Init, WholeOrder, SeenBound, NoOrder
  <1>4. Promises
    BY DEF Init, Promises, KeptPromise, NoBorrow
  <1> QED
    BY <1>1, <1>2, <1>3, <1>4 DEF Inv

LEMMA TickInv == ASSUME Inv, Tick PROVE Inv'
  <1>1. now \in Nat /\ now + 1 \in 1..MaxNow /\ now' = now + 1
    BY FixedTermAssumption DEF Inv, Scalars, Tick
  <1>2. Scalars'
    BY <1>1 DEF Inv, Scalars, Tick
  <1>3. Slots'
    BY <1>1 DEF Inv, Slots, GoodSlot, Tick
  <1>4. WholeOrder' /\ SeenBound' /\ Promises'
    BY DEF Inv, WholeOrder, SeenBound, Promises, Tick
  <1> QED
    BY <1>2, <1>3, <1>4 DEF Inv

LEMMA ReadOrderInv == ASSUME Inv, ReadOrder PROVE Inv'
  <1>1. order.remaining \in Nat
    BY DEF Inv, WholeOrder, Order
  <1>2. Scalars' /\ SeenBound'
    BY <1>1 DEF Inv, Scalars, SeenBound, ReadOrder
  <1>3. Slots' /\ WholeOrder' /\ Promises'
    BY DEF Inv, Slots, WholeOrder, Promises, ReadOrder
  <1> QED
    BY <1>2, <1>3 DEF Inv

LEMMA SetBorrowOrderInv ==
    ASSUME Inv, NEW c \in OrderConfigs \cup {NoOrder}, SetBorrowOrder(c)
    PROVE  Inv'
  <1>1. c \in Order /\ c.remaining \in Nat /\ c.rate \in Nat /\ c.until \in Nat
    BY NoRecords, FixedTermAssumption DEF Order
  <1>2. c = NoOrder \/ (c.remaining > 0 /\ c.rate > 0 /\ c.until > 0)
    <2>1. CASE c = NoOrder
      BY <2>1
    <2>2. CASE check_order_config_valid(c)
      <3>1. now > 0 /\ now \in Nat
        BY DEF Inv, Scalars
      <3> QED
        BY <1>1, <2>2, <3>1 DEF check_order_config_valid
    <2> QED
      BY <2>1, <2>2 DEF SetBorrowOrder
  <1>3. WholeOrder'
    BY <1>1, <1>2 DEF WholeOrder, SetBorrowOrder
  <1>4. SeenBound' /\ Scalars'
    BY <1>1 DEF Inv, Scalars, SeenBound, SetBorrowOrder
  <1>5. Slots' /\ Promises'
    BY DEF Inv, Slots, Promises, SetBorrowOrder
  <1> QED
    BY <1>3, <1>4, <1>5 DEF Inv

\* A cleared order asks for nothing; the slots that grow or are captured keep
\* their terms.
LEMMA RefreshObligationInv == ASSUME Inv, RefreshObligation PROVE Inv'
  <1>1. WholeOrder' /\ SeenBound'
    <2>1. order' = order \/ order' = NoOrder
      BY DEF RefreshObligation, clear_if_past_fillable_timestamp
    <2>2. CASE order' = order
      BY <2>2 DEF Inv, WholeOrder, SeenBound, RefreshObligation
    <2>3. CASE order' = NoOrder
      BY <2>3, NoRecords DEF Inv, WholeOrder, SeenBound, Scalars, RefreshObligation, NoOrder, Order
    <2> QED
      BY <2>1, <2>2, <2>3
  <1>2. Scalars'
    BY DEF Inv, Scalars, RefreshObligation
  <1>3. PICK interest \in {0, 1} :
            slot' = [r \in ReserveId |->
                      LET b == slot[r]
                          grows == b.debt > 0 /\ Total(slot) < allowed_borrow_value
                      IN  capture_borrowed_amount_at_expiration(
                              [b EXCEPT !.debt = IF grows THEN @ + interest ELSE @], term[r])]
    BY DEF RefreshObligation
  <1>4. ASSUME NEW r \in ReserveId
        PROVE  /\ GoodSlot(slot'[r], now) /\ slot'[r].last = slot[r].last
               /\ slot[r].debt = 0 => slot'[r].debt = 0
    <2> DEFINE b == slot[r]
               grows == b.debt > 0 /\ Total(slot) < allowed_borrow_value
               d == IF grows THEN b.debt + interest ELSE b.debt
               c == [b EXCEPT !.debt = d]
               e == [c EXCEPT !.captured = now]
    <2>1. b \in Borrowed /\ b.debt \in Nat /\ GoodSlot(b, now) /\ now \in Nat
      BY DEF Inv, Slots, Scalars, Borrowed
    <2>2. d \in Nat /\ d >= b.debt /\ (b.debt = 0 => d = 0)
      BY <2>1
    <2>3. slot'[r] = capture_borrowed_amount_at_expiration(c, term[r])
      BY <1>3
    <2> HIDE DEF d
    <2>4. /\ c \in Borrowed /\ c.debt = d /\ c.last = b.last /\ c.config = b.config
          /\ c.captured = b.captured
      BY <2>1, <2>2 DEF Borrowed
    <2>5. d = b.debt => c = b
      BY <2>1 DEF Borrowed
    <2> HIDE DEF c
    <2>6. /\ e \in Borrowed /\ e.debt = d /\ e.last = b.last /\ e.config = b.config
      BY <2>1, <2>2, <2>4 DEF Borrowed
    <2> HIDE DEF e, b
    <2>7. \/ slot'[r] = c
          \/ slot'[r] = e /\ d # 0
      BY <2>3, <2>4 DEF capture_borrowed_amount_at_expiration, e
    <2>8. b = NoBorrow => d = 0 /\ d = b.debt
      BY <2>2 DEF NoBorrow
    <2>9. GoodSlot(c, now)
      <3>1. CASE b = NoBorrow
        BY <2>1, <2>5, <2>8, <3>1
      <3>2. CASE b # NoBorrow
        BY <2>1, <2>2, <2>4, <3>2 DEF GoodSlot
      <3> QED
        BY <3>1, <3>2
    <2>10. d # 0 => GoodSlot(e, now)
      BY <2>1, <2>2, <2>6, <2>8 DEF GoodSlot
    <2> QED
      BY <2>2, <2>4, <2>6, <2>7, <2>9, <2>10 DEF b
  <1>5. Slots'
    <2>1. now' = now
      BY DEF RefreshObligation
    <2>2. slot' \in [ReserveId -> Borrowed]
      BY <1>3, <1>4 DEF GoodSlot
    <2> QED
      BY <1>4, <2>1, <2>2 DEF Slots
  <1>6. Promises'
    <2>1. term' = term /\ promised' = promised
      BY DEF RefreshObligation
    <2>2. ASSUME NEW r \in ReserveId PROVE KeptPromise(slot'[r], term[r], promised[r])
      <3>1. KeptPromise(slot[r], term[r], promised[r]) /\ slot[r].debt \in Nat
        BY DEF Inv, Promises, Slots, Borrowed
      <3>2. slot'[r].debt > 0 => slot[r].debt > 0
        BY <1>4, <3>1
      <3> QED
        BY <1>4, <3>1, <3>2 DEF KeptPromise, get_debt_term_end_timestamp
    <2> QED
      BY <2>1, <2>2 DEF Promises
  <1> QED
    BY <1>1, <1>2, <1>5, <1>6 DEF Inv

-----------------------------------------------------------------------------
(* Borrowing and repaying                                                  *)

\* What a borrow that is allowed takes, and what it finds.
LEMMA CanBorrowFacts ==
    ASSUME Inv, NEW r \in ReserveId, NEW tokens \in Int, CanBorrow(r, tokens)
    PROVE  /\ tokens \in Nat \ {0} /\ tokens <= available[r]
           /\ tokens * SF \in Nat \ {0}
           /\ ~Expired(slot[r], term[r])
  <1>1. freely_available(r) \in 0..available[r] /\ available[r] \in Nat
    BY InvTypes, FreelyAvailable DEF Inv, Scalars
  <1>2. tokens \in Nat \ {0} /\ tokens <= available[r]
    BY <1>1 DEF CanBorrow
  <1>3. tokens * SF \in Nat \ {0}
    BY <1>2, FixedTermAssumption, ScaleAssumption
  <1> QED
    BY <1>2, <1>3 DEF CanBorrow

\* The parts of the state that a borrow of tokens from r changes besides the slot.
LEMMA Taken ==
    ASSUME Inv, NEW r \in ReserveId, NEW tokens \in Nat, tokens <= available[r]
    PROVE  [available EXCEPT ![r] = @ - tokens] \in [ReserveId -> Nat]
  <1>1. available \in [ReserveId -> Nat]
    BY DEF Inv, Scalars
  <1>2. available[r] - tokens \in Nat
    BY <1>1
  <1> QED
    BY <1>1, <1>2

LEMMA Given ==
    ASSUME Inv, NEW r \in ReserveId, NEW tokens \in Nat
    PROVE  [available EXCEPT ![r] = @ + tokens] \in [ReserveId -> Nat]
  <1>1. available \in [ReserveId -> Nat]
    BY DEF Inv, Scalars
  <1> QED
    BY <1>1

\* A borrow, by whatever instruction, keeps all promises.
LEMMA NewDebtKeeps ==
    ASSUME Inv, NEW r \in ReserveId, NEW b, GoodSlot(b, now), b.last = now,
           NEW end \in 0..Never, get_debt_term_end_timestamp(b, term[r]) >= end,
           now' = now, term' = term, slot' = [slot EXCEPT ![r] = b],
           promised' = Agree(r, end)
    PROVE  Slots' /\ Promises'
  <1>1. /\ Slots' /\ slot'[r] = b
        /\ \A q \in ReserveId \ {r} : slot'[q] = slot[q]
    BY OneSlot
  <1>2. \A q \in ReserveId \ {r} : promised'[q] = promised[q]
    BY AgreedTo
  <1>3. b \in Borrowed
    BY DEF GoodSlot
  <1>4. KeptPromise(b, term[r], promised'[r])
    BY <1>3, Extended
  <1>5. \A q \in ReserveId : KeptPromise(slot[q], term[q], promised[q])
    BY DEF Inv, Promises
  <1>6. \A q \in ReserveId : KeptPromise(slot'[q], term'[q], promised'[q])
    BY <1>1, <1>2, <1>4, <1>5
  <1> QED
    BY <1>1, <1>6 DEF Promises

LEMMA BorrowInv ==
    ASSUME Inv, NEW r \in ReserveId, NEW tokens \in Amounts, Borrow(r, tokens)
    PROVE  Inv'
  <1> DEFINE b == borrowed(slot[r], tokens * SF)
  <1>0. tokens \in Nat \ {0} /\ tokens <= available[r] /\ tokens * SF \in Nat \ {0}
    BY CanBorrowFacts, FixedTermAssumption DEF Borrow
  <1>1. now \in Nat /\ now \in 1..now /\ now <= MaxNow
    BY FixedTermAssumption DEF Inv, Scalars
  <1>2. slot[r] \in Borrowed /\ LimitsKept(slot[r].config) /\ slot \in [ReserveId -> Borrowed]
    BY DEF Inv, Slots, GoodSlot
  <1>3. GoodSlot(b, now) /\ b \in Borrowed /\ b.last = now
    BY <1>0, <1>1, <1>2, BorrowedIsGood, BorrowedFields
  <1>4. slot' = [slot EXCEPT ![r] = b] /\ promised' = Agree(r, EndIn(r, term[r]))
    BY DEF Borrow
  <1>5. term[r] \in TermSeconds
    BY DEF Inv, Scalars
  <1>6. /\ EndIn(r, term[r]) \in 0..Never /\ EndAfter(term[r]) \in 0..Never
        /\ EndIn(r, term[r]) <= EndAfter(term[r])
    BY <1>5, AgreedEnd, AgreedWithin
  <1>7. get_debt_term_end_timestamp(b, term[r]) >= EndIn(r, term[r])
    <2>1. is_term_satisfied(term[r], offered_term(r))
      BY <1>5 DEF is_term_satisfied, offered_term, TermSeconds
    <2> HIDE DEF b
    <2>2. get_debt_term_end_timestamp(b, term[r]) >= EndAfter(term[r])
      BY <1>3, <1>5, <2>1, TermGiven
    <2>3. get_debt_term_end_timestamp(b, term[r]) \in Nat
      BY <1>3, <1>5, FixedTermAssumption DEF get_debt_term_end_timestamp, Borrowed, TermSeconds
    <2> QED
      BY <1>6, <2>2, <2>3, FixedTermAssumption
  <1> HIDE DEF b
  <1>8. Slots' /\ Promises'
    BY <1>3, <1>4, <1>6, <1>7, NewDebtKeeps DEF Borrow
  <1>9. Scalars'
    <2>1. available' \in [ReserveId -> Nat]
      BY <1>0, Taken DEF Borrow
    <2>2. promised' \in [ReserveId -> 0..Never]
      BY <1>4, <1>6, AgreedTo
    <2> QED
      BY <2>1, <2>2 DEF Inv, Scalars, Borrow
  <1>10. WholeOrder' /\ SeenBound'
    BY DEF Inv, WholeOrder, SeenBound, Borrow
  <1> QED
    BY <1>8, <1>9, <1>10 DEF Inv

\* The slot a fill leaves, its settings taken from the order or not.
LEMMA FilledSlot ==
    ASSUME Inv, NEW r \in ReserveId, NEW d \in Nat \ {0}, order # NoOrder,
           NEW b, b = IF order.auto
                      THEN propagate_rollover_config_to_borrow(order, slot[r],
                               borrowed(slot[r], d))
                      ELSE borrowed(slot[r], d)
    PROVE  GoodSlot(b, now) /\ b \in Borrowed /\ b.last = now
  <1> DEFINE a == borrowed(slot[r], d)
             c == get_rollover_config_for_filled_borrow(order)
  <1>1. now \in Nat /\ now \in 1..now
    BY DEF Inv, Scalars
  <1>2. slot[r] \in Borrowed /\ LimitsKept(slot[r].config)
    BY DEF Inv, Slots, GoodSlot
  <1>3. GoodSlot(a, now) /\ a \in Borrowed /\ a.last = now
    BY <1>1, <1>2, BorrowedIsGood, BorrowedFields
  <1>4. order \in Order /\ order.rate > 0 /\ order.rate \in Nat
    BY DEF Inv, WholeOrder, Order
  <1>5. c \in Config
    BY <1>4 DEF get_rollover_config_for_filled_borrow, Config, Order
  <1>6. LimitsKept(c)
    <2>1. order.rate # 0
      BY <1>4
    <2>2. c.rate = order.rate /\ c.migration = (order.min_term # 0) /\ c.min_term = order.min_term
      BY Zenon DEF get_rollover_config_for_filled_borrow
    <2> HIDE DEF c
    <2> QED
      BY <2>1, <2>2, Zenon DEF LimitsKept
  <1>7. a # NoBorrow /\ a.debt > 0 /\ a.last \in 1..now
    <2>1. slot[r].debt \in Nat
      BY <1>2 DEF Borrowed
    <2>2. a.debt = slot[r].debt + d
      BY <1>1, <1>2, BorrowedFields
    <2> QED
      BY <1>1, <1>3, <2>1, <2>2 DEF NoBorrow
  <1> HIDE DEF a, c
  <1> DEFINE e == [a EXCEPT !.config = c]
  <1>8. e \in Borrowed /\ e.debt = a.debt /\ e.last = a.last /\ e.config = c
    BY <1>3, <1>5 DEF Borrowed
  <1>9. b = a \/ b = e
    BY DEF propagate_rollover_config_to_borrow, a, c
  <1> HIDE DEF e
  <1>10. GoodSlot(e, now)
    BY <1>6, <1>7, <1>8 DEF GoodSlot
  <1> QED
    BY <1>3, <1>8, <1>9, <1>10

LEMMA FillBorrowOrderInv ==
    ASSUME Inv, NEW r \in ReserveId, FillBorrowOrder(r)
    PROVE  Inv'
  <1> DEFINE tokens == fill_amount(r)
             after == borrowed(slot[r], tokens * SF)
             b == IF order.auto THEN propagate_rollover_config_to_borrow(order, slot[r], after)
                                ELSE after
  <1>1. tokens \in Int /\ tokens <= order.remaining
    BY InvTypes, FillAmount
  <1>2. CanBorrow(r, tokens) /\ CanFill(r, tokens) /\ order # NoOrder
    BY DEF FillBorrowOrder
  <1>3. /\ slot' = [slot EXCEPT ![r] = b]
        /\ available' = [available EXCEPT ![r] = @ - tokens]
        /\ order' = filled(order, tokens)
        /\ unseen' = unseen + tokens
        /\ promised' = Agree(r, EndAfter(order.min_term))
        /\ fresh' = "stale"
        /\ now' = now /\ term' = term /\ maturity' = maturity /\ seen' = seen
    BY DEF FillBorrowOrder
  <1> HIDE DEF tokens
  <1>4. tokens \in Nat \ {0} /\ tokens <= available[r] /\ tokens * SF \in Nat \ {0}
    BY <1>1, <1>2, CanBorrowFacts
  <1>5. GoodSlot(b, now) /\ b \in Borrowed /\ b.last = now
    BY <1>2, <1>4, FilledSlot
  <1> HIDE DEF b, after
  <1>6. order \in Order /\ order.min_term \in TermSeconds /\ order.remaining \in Nat
    BY DEF Inv, WholeOrder, Order
  <1>7. EndAfter(order.min_term) \in 0..Never
    BY <1>6, AgreedEnd
  <1>8. get_debt_term_end_timestamp(b, term[r]) >= EndAfter(order.min_term)
    BY <1>2, <1>5, <1>6, TermGiven DEF CanFill
  <1>9. Slots' /\ Promises'
    BY <1>3, <1>5, <1>7, <1>8, NewDebtKeeps
  <1>10. Scalars'
    <2>1. available' \in [ReserveId -> Nat]
      BY <1>3, <1>4, Taken
    <2>2. promised' \in [ReserveId -> 0..Never]
      BY <1>3, <1>7, AgreedTo
    <2> QED
      BY <1>3, <1>4, <2>1, <2>2 DEF Inv, Scalars
  <1>11. WholeOrder' /\ SeenBound'
    <2>0. unseen \in Nat /\ seen \in Nat /\ order.remaining + unseen <= seen
      BY DEF Inv, Scalars, SeenBound
    <2>1. CASE tokens = order.remaining
      <3>1. order' = NoOrder /\ NoOrder.remaining = 0
        BY <1>3, <2>1 DEF filled, NoOrder
      <3> QED
        BY <1>3, <1>4, <1>6, <2>0, <2>1, <3>1, NoRecords DEF WholeOrder, SeenBound
    <2>2. CASE tokens # order.remaining
      <3>1. order' = [order EXCEPT !.remaining = @ - tokens]
        BY <1>3, <2>2 DEF filled
      <3>2. order.remaining - tokens \in Nat \ {0}
        BY <1>1, <1>4, <1>6, <2>2
      <3>3. /\ order' \in Order /\ order'.remaining = order.remaining - tokens
            /\ order'.rate = order.rate /\ order'.until = order.until
        BY <1>6, <3>1, <3>2 DEF Order
      <3>4. order.rate > 0 /\ order.until > 0
        BY <1>2 DEF Inv, WholeOrder
      <3> QED
        BY <1>3, <1>4, <1>6, <2>0, <3>2, <3>3, <3>4 DEF WholeOrder, SeenBound
    <2> QED
      BY <2>1, <2>2
  <1> QED
    BY <1>9, <1>10, <1>11 DEF Inv

\* What is repaid is at most the debt.
LEMMA SettledBound ==
    ASSUME Inv, NEW r \in ReserveId, NEW tokens \in Nat
    PROVE  /\ Min({tokens * SF, slot[r].debt}) \in 0..slot[r].debt
           /\ slot[r].debt \in Nat
  <1>1. slot[r].debt \in Nat
    BY DEF Inv, Slots, Borrowed
  <1>2. tokens * SF \in Nat
    BY FixedTermAssumption, ScaleAssumption, Product
  <1>3. Min({tokens * SF, slot[r].debt})
            = IF tokens * SF <= slot[r].debt THEN tokens * SF ELSE slot[r].debt
    BY <1>1, <1>2, MinOfTwo
  <1> QED
    BY <1>1, <1>2, <1>3

\* A repayment does not touch the term of what is left.
LEMMA RepaidKeeps ==
    ASSUME NEW b \in Borrowed, NEW d \in 0..b.debt, NEW t, NEW p, KeptPromise(b, t, p)
    PROVE  KeptPromise(repaid(b, d), t, IF repaid(b, d).debt = 0 THEN 0 ELSE p)
  <1>1. CASE d = b.debt
    BY <1>1 DEF repaid, KeptPromise, NoBorrow
  <1>2. CASE d # b.debt
    <2>1. /\ repaid(b, d).last = b.last /\ repaid(b, d).debt = b.debt - d /\ b.debt \in Nat
          /\ b.debt > 0
      BY <1>2 DEF repaid, Borrowed
    <2> QED
      BY <1>2, <2>1 DEF KeptPromise, get_debt_term_end_timestamp
  <1> QED
    BY <1>1, <1>2

LEMMA RepayInv ==
    ASSUME Inv, NEW r \in ReserveId, NEW tokens \in Amounts, Repay(r, tokens)
    PROVE  Inv'
  <1> DEFINE settled == Min({tokens * SF, slot[r].debt})
             b == repaid(slot[r], settled)
  <1>1. settled \in 0..slot[r].debt /\ slot[r].debt \in Nat
    BY SettledBound, FixedTermAssumption
  <1>2. /\ slot' = [slot EXCEPT ![r] = b]
        /\ available' = [available EXCEPT ![r] = @ + ceil(settled)]
        /\ promised' = Kept(promised, slot')
        /\ fresh' = "stale" /\ slot[r].debt > 0
        /\ UNCHANGED <<now, term, maturity, order, seen, unseen>>
    BY DEF Repay, check_repay_possible
  <1> HIDE DEF settled
  <1>3. now \in Nat /\ GoodSlot(slot[r], now) /\ slot[r] \in Borrowed
    BY DEF Inv, Scalars, Slots
  <1>4. GoodSlot(b, now)
    BY <1>1, <1>2, <1>3, RepaidIsGood
  <1>5. KeptPromise(b, term[r], IF b.debt = 0 THEN 0 ELSE promised[r])
    BY <1>1, <1>3, RepaidKeeps DEF Inv, Promises
  <1> HIDE DEF b
  <1>6. /\ Slots' /\ slot'[r] = b
        /\ \A q \in ReserveId \ {r} : slot'[q] = slot[q]
    BY <1>2, <1>4, OneSlot
  <1>7. promised' = [q \in ReserveId |-> IF slot'[q].debt = 0 THEN 0 ELSE promised[q]]
    BY <1>2 DEF Kept
  <1>8. Promises'
    <2>1. ASSUME NEW q \in ReserveId PROVE KeptPromise(slot'[q], term[q], promised'[q])
      <3>1. CASE q = r
        BY <1>5, <1>6, <1>7, <3>1
      <3>2. CASE q # r
        <4>1. KeptPromise(slot[q], term[q], promised[q]) /\ slot'[q] = slot[q]
          BY <1>6, <3>2 DEF Inv, Promises
        <4> QED
          BY <1>7, <4>1 DEF KeptPromise
      <3> QED
        BY <3>1, <3>2
    <2> QED
      BY <1>2, <2>1 DEF Promises
  <1>9. Scalars'
    <2>1. available' \in [ReserveId -> Nat]
      BY <1>1, <1>2, CeilType, Given
    <2>2. promised' \in [ReserveId -> 0..Never]
      BY <1>7, FixedTermAssumption DEF Inv, Scalars
    <2> QED
      BY <1>2, <2>1, <2>2 DEF Inv, Scalars
  <1>10. WholeOrder' /\ SeenBound'
    BY <1>2 DEF Inv, WholeOrder, SeenBound
  <1> QED
    BY <1>6, <1>8, <1>9, <1>10 DEF Inv

-----------------------------------------------------------------------------
(* Rollovers                                                               *)

\* What the mode of a rollover from a fixed term says about its target.
LEMMA FromFixedTerm ==
    ASSUME NEW c, c.auto \in BOOLEAN, NEW t
    PROVE  /\ resolve_rollover_from_fixed_term_mode(c, t) = "FixedToFixed" =>
                  term[t] # 0 /\ FixedTargetAccepted(c, t)
           /\ resolve_rollover_from_fixed_term_mode(c, t) = "FixedToOpen" => term[t] = 0
           /\ resolve_rollover_from_fixed_term_mode(c, t) # "OpenToFixed"
  <1> DEFINE m == resolve_rollover_from_fixed_term_mode(c, t)
  <1>1. CASE ~c.auto
    <2>1. m = "refused"
      BY <1>1, Zenon DEF resolve_rollover_from_fixed_term_mode
    <2> HIDE DEF m
    <2>2. m # "FixedToFixed" /\ m # "FixedToOpen" /\ m # "OpenToFixed"
      BY <2>1
    <2> QED
      BY <2>2 DEF m
  <1>2. CASE c.auto /\ term[t] = 0
    <2>1. m = IF c.open THEN "FixedToOpen" ELSE "refused"
      BY <1>2, Zenon DEF resolve_rollover_from_fixed_term_mode
    <2> HIDE DEF m
    <2>2. m # "FixedToFixed" /\ m # "OpenToFixed"
      BY <2>1
    <2> QED
      BY <1>2, <2>2 DEF m
  <1>3. CASE c.auto /\ term[t] # 0
    <2>1. m = IF FixedTargetAccepted(c, t) THEN "FixedToFixed" ELSE "refused"
      BY <1>3, Zenon DEF resolve_rollover_from_fixed_term_mode
    <2> HIDE DEF m
    <2>2. m # "FixedToOpen" /\ m # "OpenToFixed" /\ (m = "FixedToFixed" => FixedTargetAccepted(c, t))
      BY <2>1
    <2> QED
      BY <1>3, <2>2 DEF m
  <1> QED
    BY <1>1, <1>2, <1>3

\* A rollover never replaces an open term by one the settings do not ask for,
\* and a fixed one only by a term as long as they ask for.
LEMMA RolloverTarget ==
    ASSUME Inv, NEW s \in ReserveId, NEW t \in ReserveId, check_rollover_possible(s, t)
    PROVE  /\ slot[s].debt > 0
           /\ term[t] = 0 => term[s] # 0
           /\ term[t] # 0 => slot[s].config.min_term # 0 /\ term[t] >= slot[s].config.min_term
  <1> DEFINE c == slot[s].config
             m == resolve_rollover_mode(c, s, t)
  <1>1. slot[s].debt > 0
    BY DEF check_rollover_possible, check_repay_possible
  <1>2. c.auto \in BOOLEAN
    BY DEF Inv, Slots, Borrowed, Config
  <1>3. resolve_allowed_rollover_time(m, s)
    BY DEF check_rollover_possible
  <1> HIDE DEF c, m
  <1>4. m \in {"FixedToFixed", "FixedToOpen", "OpenToFixed"}
    BY <1>3 DEF resolve_allowed_rollover_time
  <1>5. CASE term[s] # 0
    <2>1. m = resolve_rollover_from_fixed_term_mode(c, t)
      BY <1>5 DEF m, resolve_rollover_mode
    <2>2. /\ m = "FixedToFixed" => term[t] # 0 /\ FixedTargetAccepted(c, t)
          /\ m = "FixedToOpen" => term[t] = 0
          /\ m # "OpenToFixed"
      BY <1>2, <2>1, FromFixedTerm
    <2>3. term[t] # 0 => c.min_term # 0 /\ term[t] >= c.min_term
      BY <1>4, <2>2 DEF FixedTargetAccepted
    <2> QED
      BY <1>1, <1>5, <2>3 DEF c
  <1>6. CASE term[s] = 0
    <2>1. m = IF check_migration_to_fixed_term_possible(c, t) THEN "OpenToFixed" ELSE "refused"
      BY <1>6 DEF m, resolve_rollover_mode
    <2>2. check_migration_to_fixed_term_possible(c, t)
      BY <1>4, <2>1
    <2>3. term[t] # 0 /\ c.min_term # 0 /\ term[t] >= c.min_term
      BY <2>2 DEF check_migration_to_fixed_term_possible, FixedTargetAccepted
    <2> QED
      BY <1>1, <2>3 DEF c
  <1> QED
    BY <1>5, <1>6

\* The target's term reaches what the debt's owner agreed to.
LEMMA RolloverEnd ==
    ASSUME Inv, NEW s \in ReserveId, NEW t \in ReserveId, check_rollover_possible(s, t),
           NEW b \in Borrowed, b.last = now,
           NEW end, end = EndIn(t, IF term[t] = 0 THEN 0 ELSE slot[s].config.min_term)
    PROVE  /\ end \in 0..Never
           /\ get_debt_term_end_timestamp(b, term[t]) >= end
  <1> DEFINE min == slot[s].config.min_term
             asked == IF term[t] = 0 THEN 0 ELSE min
  <1>1. /\ min \in TermSeconds /\ term[t] \in TermSeconds /\ 0 \in TermSeconds
        /\ Never \in Nat
    BY FixedTermAssumption DEF Inv, Scalars, Slots, Borrowed, Config, TermSeconds
  <1>2. is_term_satisfied(asked, offered_term(t))
    <2>1. CASE term[t] = 0
      BY <2>1 DEF is_term_satisfied, offered_term
    <2>2. CASE term[t] # 0
      <3>1. min # 0 /\ term[t] >= min
        BY <2>2, RolloverTarget
      <3> QED
        BY <1>1, <2>2, <3>1 DEF is_term_satisfied, offered_term, TermSeconds
    <2> QED
      BY <2>1, <2>2
  <1>3. asked \in TermSeconds
    BY <1>1
  <1> HIDE DEF asked
  <1>4. get_debt_term_end_timestamp(b, term[t]) >= EndAfter(asked)
    BY <1>2, <1>3, TermGiven
  <1>5. EndIn(t, asked) \in 0..Never /\ EndIn(t, asked) <= EndAfter(asked)
    BY <1>3, AgreedWithin
  <1>6. EndAfter(asked) \in 0..Never
    BY <1>3, AgreedEnd
  <1>7. get_debt_term_end_timestamp(b, term[t]) \in Nat
    BY <1>1 DEF get_debt_term_end_timestamp, Borrowed, TermSeconds
  <1>8. end = EndIn(t, asked)
    BY DEF asked
  <1> QED
    BY <1>1, <1>4, <1>5, <1>6, <1>7, <1>8

LEMMA SameReserveInv ==
    ASSUME Inv, NEW r \in ReserveId, rollover_borrow_into_same_reserve(r)
    PROVE  Inv'
  <1> DEFINE b == renewed(slot[r])
             end == EndIn(r, slot[r].config.min_term)
  <1>1. /\ check_rollover_possible(r, r)
        /\ slot' = [slot EXCEPT ![r] = b] /\ promised' = Agree(r, end) /\ fresh' = "stale"
        /\ UNCHANGED <<now, term, maturity, available, order, seen, unseen>>
    BY DEF rollover_borrow_into_same_reserve
  <1>2. now \in Nat /\ now \in 1..now /\ GoodSlot(slot[r], now) /\ slot[r] \in Borrowed
    BY DEF Inv, Scalars, Slots
  <1>3. slot[r].debt > 0 /\ term[r] # 0
    BY <1>1, RolloverTarget
  <1>4. GoodSlot(b, now) /\ b \in Borrowed /\ b.last = now
    BY <1>2, <1>3, RenewedIsGood, RenewedFields
  <1> HIDE DEF b
  <1>5. end \in 0..Never /\ get_debt_term_end_timestamp(b, term[r]) >= end
    BY <1>1, <1>3, <1>4, RolloverEnd
  <1> HIDE DEF end
  <1>6. Slots' /\ Promises'
    BY <1>1, <1>4, <1>5, NewDebtKeeps
  <1>7. Scalars'
    <2>1. promised' \in [ReserveId -> 0..Never]
      BY <1>1, <1>5, AgreedTo
    <2> QED
      BY <1>1, <2>1 DEF Inv, Scalars
  <1>8. WholeOrder' /\ SeenBound'
    BY <1>1 DEF Inv, WholeOrder, SeenBound
  <1> QED
    BY <1>6, <1>7, <1>8 DEF Inv

\* The target's slot after a rollover.
LEMMA MovedSlot ==
    ASSUME Inv, NEW s \in ReserveId, NEW t \in ReserveId, NEW tokens \in Nat \ {0}
    PROVE  /\ GoodSlot(moved(s, t, tokens), now) /\ moved(s, t, tokens) \in Borrowed
           /\ moved(s, t, tokens).last = now /\ moved(s, t, tokens).debt > 0
           /\ moved(s, t, tokens).captured = 0
  <1> DEFINE a == borrowed(slot[t], tokens * SF)
             b == renewed(a)
             c == IF preserves_rollover_config(slot[s].config, t) THEN slot[s].config ELSE NoConfig
             e == [b EXCEPT !.config = c]
  <1>1. tokens * SF \in Nat \ {0}
    BY FixedTermAssumption, ScaleAssumption
  <1>2. now \in Nat /\ now \in 1..now
    BY DEF Inv, Scalars
  <1>3. /\ slot[t] \in Borrowed /\ slot[t].debt \in Nat
        /\ slot[s].config \in Config /\ LimitsKept(slot[s].config)
    BY DEF Inv, Slots, GoodSlot, Borrowed
  <1>4. a \in Borrowed /\ a.debt = slot[t].debt + tokens * SF
    BY <1>1, <1>2, <1>3, BorrowedFields
  <1> HIDE DEF a
  <1>5. b \in Borrowed /\ b.debt = a.debt /\ b.last = now /\ b.captured = 0
    BY <1>2, <1>4, RenewedFields
  <1>6. c \in Config /\ LimitsKept(c)
    BY <1>3, NoRecords
  <1>7. moved(s, t, tokens) = e
    BY Zenon DEF moved, a
  <1> HIDE DEF b, c
  <1>8. e \in Borrowed /\ e.debt = b.debt /\ e.last = now /\ e.captured = 0 /\ e.config = c
    BY <1>5, <1>6 DEF Borrowed
  <1> HIDE DEF e
  <1>9. e.debt > 0
    BY <1>1, <1>3, <1>4, <1>5, <1>8
  <1>10. GoodSlot(e, now)
    BY <1>2, <1>6, <1>8, <1>9 DEF GoodSlot
  <1> QED
    BY <1>7, <1>8, <1>9, <1>10

\* What moves from one reserve to another.
LEMMA TransferredTokens ==
    ASSUME Inv, NEW s \in ReserveId, NEW t \in ReserveId
    PROVE  /\ tokens_to_transfer_over(s, t) \in Nat
           /\ tokens_to_transfer_over(s, t) <= available[t]
  <1>1. freely_available(t) \in 0..available[t] /\ available[t] \in Nat
    BY InvTypes, FreelyAvailable DEF Inv, Scalars
  <1>2. ceil(slot[s].debt) \in Nat
    BY CeilType DEF Inv, Slots, Borrowed
  <1>3. Min({freely_available(t), ceil(slot[s].debt)})
            = IF freely_available(t) <= ceil(slot[s].debt)
              THEN freely_available(t) ELSE ceil(slot[s].debt)
    BY <1>1, <1>2, MinOfTwo
  <1> QED
    BY <1>1, <1>2, <1>3 DEF tokens_to_transfer_over

LEMMA DifferentReserveInv ==
    ASSUME Inv, NEW s \in ReserveId, NEW t \in ReserveId,
           rollover_borrow_into_different_reserve(s, t)
    PROVE  Inv'
  <1> DEFINE tokens == tokens_to_transfer_over(s, t)
             settled == Min({tokens * SF, slot[s].debt})
             end == EndIn(t, IF term[t] = 0 THEN 0 ELSE slot[s].config.min_term)
             a == repaid(slot[s], settled)
             b == moved(s, t, tokens)
  <1>1. /\ s # t /\ check_rollover_possible(s, t) /\ tokens > 0
        /\ slot' = [slot EXCEPT ![s] = a, ![t] = b]
        /\ available' = [available EXCEPT ![s] = @ + tokens, ![t] = @ - tokens]
        /\ promised' = Kept(Agree(t, end), slot')
        /\ fresh' = "stale"
        /\ UNCHANGED <<now, term, maturity, order, seen, unseen>>
    BY DEF rollover_borrow_into_different_reserve
  <1>2. tokens \in Nat \ {0} /\ tokens <= available[t]
    BY <1>1, TransferredTokens
  <1> HIDE DEF tokens
  <1>3. settled \in 0..slot[s].debt /\ slot[s].debt \in Nat /\ slot[s].debt > 0
    BY <1>1, <1>2, SettledBound, RolloverTarget
  <1> HIDE DEF settled
  <1>4. /\ now \in Nat /\ slot \in [ReserveId -> Borrowed]
        /\ \A q \in ReserveId : GoodSlot(slot[q], now)
    BY DEF Inv, Scalars, Slots
  <1>5. GoodSlot(a, now) /\ a \in Borrowed
    BY <1>3, <1>4, RepaidIsGood DEF GoodSlot
  <1>6. KeptPromise(a, term[s], IF a.debt = 0 THEN 0 ELSE promised[s])
    BY <1>3, <1>4, RepaidKeeps DEF Inv, Promises
  <1>7. GoodSlot(b, now) /\ b \in Borrowed /\ b.last = now /\ b.debt > 0
    BY <1>2, MovedSlot
  <1> HIDE DEF a, b
  <1>8. end \in 0..Never /\ get_debt_term_end_timestamp(b, term[t]) >= end
    BY <1>1, <1>7, RolloverEnd
  <1> HIDE DEF end
  <1>9. KeptPromise(b, term[t], Agree(t, end)[t])
    BY <1>7, <1>8, Extended
  <1>10. /\ slot' \in [ReserveId -> Borrowed] /\ slot'[s] = a /\ slot'[t] = b
         /\ \A q \in ReserveId \ {s, t} : slot'[q] = slot[q]
    BY <1>1, <1>4, <1>5, <1>7
  <1>11. Slots'
    <2>1. \A q \in ReserveId : GoodSlot(slot'[q], now)
      BY <1>4, <1>5, <1>7, <1>10
    <2> QED
      BY <1>1, <1>10, <2>1 DEF Slots
  <1>12. /\ Agree(t, end) \in [ReserveId -> 0..Never]
         /\ \A q \in ReserveId \ {t} : Agree(t, end)[q] = promised[q]
    BY <1>8, AgreedTo
  <1>13. promised' = [q \in ReserveId |-> IF slot'[q].debt = 0 THEN 0 ELSE Agree(t, end)[q]]
    BY <1>1 DEF Kept
  <1>14. Promises'
    <2>1. ASSUME NEW q \in ReserveId PROVE KeptPromise(slot'[q], term[q], promised'[q])
      <3>1. CASE q = s
        BY <1>1, <1>6, <1>10, <1>12, <1>13, <3>1
      <3>2. CASE q = t
        <4>1. promised'[t] = Agree(t, end)[t]
          BY <1>7, <1>10, <1>13
        <4> QED
          BY <1>9, <1>10, <3>2, <4>1
      <3>3. CASE q # s /\ q # t
        <4>1. KeptPromise(slot[q], term[q], promised[q]) /\ slot'[q] = slot[q]
          BY <1>10, <3>3 DEF Inv, Promises
        <4> QED
          BY <1>12, <1>13, <3>3, <4>1 DEF KeptPromise
      <3> QED
        BY <3>1, <3>2, <3>3
    <2> QED
      BY <1>1, <2>1 DEF Promises
  <1>15. Scalars'
    <2>1. available' \in [ReserveId -> Nat]
      <3>1. available \in [ReserveId -> Nat]
        BY DEF Inv, Scalars
      <3>2. available[s] + tokens \in Nat /\ available[t] - tokens \in Nat
        BY <1>2, <3>1
      <3> QED
        BY <1>1, <3>1, <3>2
    <2>2. promised' \in [ReserveId -> 0..Never]
      BY <1>12, <1>13, FixedTermAssumption
    <2> QED
      BY <1>1, <2>1, <2>2 DEF Inv, Scalars
  <1>16. WholeOrder' /\ SeenBound'
    BY <1>1 DEF Inv, WholeOrder, SeenBound
  <1> QED
    BY <1>11, <1>14, <1>15, <1>16 DEF Inv

-----------------------------------------------------------------------------
(* Settings                                                                *)

\* Every setting that is accepted carries the limits it needs.
LEMMA UpdatedIsLimited ==
    ASSUME NEW c \in Config, LimitsKept(c), NEW n \in updated_configs(c)
    PROVE  n \in Config /\ LimitsKept(n)
  <1>1. c.auto \in BOOLEAN /\ c.migration \in BOOLEAN /\ c.rate \in Nat /\ c.min_term \in TermSeconds
    BY DEF Config
  <1>2. CASE check_enabled_rollover_config_integrity(n) /\ n \in Config
    BY <1>2, Zenon DEF check_enabled_rollover_config_integrity, LimitsKept
  <1>3. ASSUME NEW b \in BOOLEAN, n = [c EXCEPT !.auto = b],
               n.auto => check_enabled_rollover_config_integrity(n)
        PROVE  n \in Config /\ LimitsKept(n)
    <2>1. n \in Config /\ n.auto = b /\ n.migration = c.migration
          /\ n.rate = c.rate /\ n.min_term = c.min_term
      BY <1>3 DEF Config
    <2>2. CASE b
      BY <1>2, <1>3, <2>1, <2>2
    <2>3. CASE ~b
      BY <2>1, <2>3, Zenon DEF LimitsKept
    <2> QED
      BY <1>3, <2>2, <2>3
  <1>4. ASSUME NEW b \in BOOLEAN, n = [c EXCEPT !.migration = b],
               n.migration => check_enabled_rollover_config_integrity(n)
        PROVE  n \in Config /\ LimitsKept(n)
    <2>1. n \in Config /\ n.auto = c.auto /\ n.migration = b
          /\ n.rate = c.rate /\ n.min_term = c.min_term
      BY <1>4 DEF Config
    <2>2. CASE b
      BY <1>2, <1>4, <2>1, <2>2
    <2>3. CASE ~b
      BY <2>1, <2>3, Zenon DEF LimitsKept
    <2> QED
      BY <1>4, <2>2, <2>3
  <1>5. ASSUME n \in {[c EXCEPT !.open = b] : b \in BOOLEAN}
                     \cup {[c EXCEPT !.rate = x] : x \in Rates}
                     \cup {[c EXCEPT !.min_term = x] : x \in MinTerms}
        PROVE  n \in Config
    <2>1. ASSUME NEW b \in BOOLEAN, n = [c EXCEPT !.open = b] PROVE n \in Config
      BY <2>1 DEF Config
    <2>2. ASSUME NEW x \in Rates, n = [c EXCEPT !.rate = x] PROVE n \in Config
      BY <2>2, FixedTermAssumption DEF Config
    <2>3. ASSUME NEW x \in MinTerms, n = [c EXCEPT !.min_term = x] PROVE n \in Config
      BY <2>3, FixedTermAssumption DEF Config
    <2> QED
      BY <1>5, <2>1, <2>2, <2>3
  <1> QED
    BY <1>2, <1>3, <1>4, <1>5 DEF updated_configs

LEMMA UpdateObligationConfigInv ==
    ASSUME Inv, NEW r \in ReserveId, update_obligation_config(r)
    PROVE  Inv'
  <1>1. PICK c \in updated_configs(slot[r].config) : slot' = [slot EXCEPT ![r].config = c]
    BY DEF update_obligation_config
  <1> DEFINE b == [slot[r] EXCEPT !.config = c]
  <1>2. /\ slot[r] \in Borrowed /\ slot[r].config \in Config /\ LimitsKept(slot[r].config)
        /\ GoodSlot(slot[r], now) /\ slot[r].debt > 0
    BY DEF Inv, Slots, GoodSlot, Borrowed, update_obligation_config
  <1>3. c \in Config /\ LimitsKept(c)
    BY <1>2, UpdatedIsLimited
  <1>4. slot' = [slot EXCEPT ![r] = b] /\ now' = now
    BY <1>1, Zenon DEF update_obligation_config
  <1>5. b \in Borrowed /\ b.debt = slot[r].debt /\ b.last = slot[r].last /\ b.config = c
    BY <1>2, <1>3 DEF Borrowed
  <1> HIDE DEF b
  <1>6. GoodSlot(b, now)
    BY <1>2, <1>3, <1>5 DEF GoodSlot, NoBorrow
  <1>7. /\ Slots' /\ slot'[r] = b
        /\ \A q \in ReserveId \ {r} : slot'[q] = slot[q]
    BY <1>4, <1>6, OneSlot
  <1>8. Promises'
    <2>1. \A q \in ReserveId : KeptPromise(slot[q], term[q], promised[q])
      BY DEF Inv, Promises
    <2>2. KeptPromise(b, term[r], promised[r])
      BY <1>5, <2>1 DEF KeptPromise, get_debt_term_end_timestamp
    <2>3. \A q \in ReserveId : KeptPromise(slot'[q], term[q], promised[q])
      BY <1>7, <2>1, <2>2
    <2> QED
      BY <2>3 DEF Promises, update_obligation_config
  <1>9. Scalars' /\ WholeOrder' /\ SeenBound'
    BY DEF Inv, Scalars, WholeOrder, SeenBound, update_obligation_config
  <1> QED
    BY <1>7, <1>8, <1>9 DEF Inv

\* The market owner may prolong a term or lift it, with debts in it; the debts'
\* promises hold all the more.
LEMMA UpdateDebtTermInv ==
    ASSUME Inv, NEW r \in ReserveId, NEW new \in Terms, UpdateDebtTermSeconds(r, new)
    PROVE  Inv'
  <1>1. new \in TermSeconds /\ term \in [ReserveId -> TermSeconds]
    BY FixedTermAssumption DEF Inv, Scalars
  <1>2. term' = [term EXCEPT ![r] = new] /\ slot' = slot /\ promised' = promised
    BY DEF UpdateDebtTermSeconds
  <1>3. term' \in [ReserveId -> TermSeconds]
    BY <1>1, <1>2
  <1>4. Promises'
    <2>1. ASSUME NEW q \in ReserveId PROVE KeptPromise(slot[q], term'[q], promised[q])
      <3>1. KeptPromise(slot[q], term[q], promised[q])
        BY DEF Inv, Promises
      <3>2. CASE q # r
        BY <1>1, <1>2, <3>1, <3>2
      <3>3. CASE q = r
        <4>1. SUFFICES ASSUME slot[r].debt > 0
                       PROVE  get_debt_term_end_timestamp(slot[r], new) >= promised[r]
          BY <1>1, <1>2, <3>3 DEF KeptPromise
        <4>2. new = 0 \/ (term[r] # 0 /\ new >= term[r])
          BY <4>1 DEF UpdateDebtTermSeconds,
                      check_debt_term_not_shortened_on_reserve_having_borrows
        <4>3. /\ promised[r] \in 0..Never /\ Never \in Nat /\ slot[r].last \in Nat
              /\ term[r] \in Nat /\ new \in Nat
          BY <1>1, FixedTermAssumption DEF Inv, Scalars, Slots, Borrowed, TermSeconds
        <4>4. get_debt_term_end_timestamp(slot[r], term[r]) >= promised[r]
          BY <3>1, <3>3, <4>1 DEF KeptPromise
        <4> QED
          BY <4>2, <4>3, <4>4 DEF get_debt_term_end_timestamp
      <3> QED
        BY <3>2, <3>3
    <2> QED
      BY <1>2, <2>1 DEF Promises
  <1>5. Scalars'
    BY <1>3 DEF Inv, Scalars, UpdateDebtTermSeconds
  <1>6. Slots' /\ WholeOrder' /\ SeenBound'
    BY DEF Inv, Slots, WholeOrder, SeenBound, UpdateDebtTermSeconds
  <1> QED
    BY <1>4, <1>5, <1>6 DEF Inv

\* A change of the maturity takes from what is promised, if anything.
LEMMA LessPromised ==
    ASSUME Inv, NEW r \in ReserveId, NEW new \in 0..(Never - 1)
    PROVE  /\ Lesser(promised[r], Matures(new)) \in 0..Never
           /\ Lesser(promised[r], Matures(new)) <= promised[r]
           /\ Lesser(promised[r], Matures(new)) <= Matures(new)
  <1>1. promised[r] \in 0..Never /\ Never \in Nat
    BY FixedTermAssumption DEF Inv, Scalars
  <1>2. Matures(new) \in 0..Never
    BY <1>1 DEF Matures
  <1> QED
    BY <1>1, <1>2 DEF Lesser

LEMMA UpdateDebtMaturityInv ==
    ASSUME Inv, NEW r \in ReserveId, NEW new \in Maturities, UpdateDebtMaturityTimestamp(r, new)
    PROVE  Inv'
  <1> DEFINE p == Lesser(promised[r], Matures(new))
  <1>1. /\ new \in 0..(Never - 1) /\ maturity \in [ReserveId -> 0..(Never - 1)]
        /\ promised \in [ReserveId -> 0..Never] /\ promised[r] \in 0..Never /\ Never \in Nat
    BY FixedTermAssumption DEF Inv, Scalars
  <1>2. /\ maturity' = [maturity EXCEPT ![r] = new]
        /\ promised' = [promised EXCEPT ![r] = p]
        /\ UNCHANGED <<now, fresh, term, available, slot, order, seen, unseen>>
    BY DEF UpdateDebtMaturityTimestamp
  <1>3. p \in 0..Never /\ p <= promised[r]
    BY <1>1, LessPromised
  <1> HIDE DEF p
  <1>4. promised' \in [ReserveId -> 0..Never] /\ maturity' \in [ReserveId -> 0..(Never - 1)]
    BY <1>1, <1>2, <1>3
  <1>5. Promises'
    <2>1. ASSUME NEW q \in ReserveId PROVE KeptPromise(slot[q], term[q], promised'[q])
      <3>1. KeptPromise(slot[q], term[q], promised[q])
        BY DEF Inv, Promises
      <3>2. CASE q # r
        BY <1>1, <1>2, <3>1, <3>2
      <3>3. CASE q = r
        <4>1. get_debt_term_end_timestamp(slot[q], term[q]) \in Nat
          BY <1>1 DEF Inv, Scalars, Slots, Borrowed, TermSeconds, get_debt_term_end_timestamp
        <4>2. promised'[q] = p /\ promised[q] \in Nat /\ p \in Nat /\ p <= promised[q]
          BY <1>1, <1>2, <1>3, <3>3
        <4> QED
          BY <3>1, <4>1, <4>2 DEF KeptPromise
      <3> QED
        BY <3>2, <3>3
    <2> QED
      BY <1>2, <2>1 DEF Promises
  <1>6. Scalars'
    BY <1>2, <1>4 DEF Inv, Scalars
  <1>7. Slots' /\ WholeOrder' /\ SeenBound'
    BY <1>2 DEF Inv, Slots, WholeOrder, SeenBound
  <1> QED
    BY <1>5, <1>6, <1>7 DEF Inv

-----------------------------------------------------------------------------
(* Maturity                                                                *)

\* An end agreed to for r, within the maturity of r.
LEMMA AgreementWithin ==
    ASSUME Inv, WithinMaturity, NEW r \in ReserveId, NEW end \in 0..Never,
           end <= Matures(maturity[r])
    PROVE  \A q \in ReserveId : Agree(r, end)[q] <= Matures(maturity[q])
  <1>1. ASSUME NEW q \in ReserveId PROVE Agree(r, end)[q] <= Matures(maturity[q])
    <2>1. CASE q # r
      <3>1. Agree(r, end)[q] = promised[q]
        BY <2>1, AgreedTo
      <3> QED
        BY <3>1 DEF WithinMaturity
    <2>2. CASE q = r
      <3>1. Agree(r, end)[r] = IF slot[r].debt = 0 \/ promised[r] < end
                               THEN end ELSE promised[r]
        BY AgreedTo
      <3>2. promised[r] <= Matures(maturity[r])
        BY DEF WithinMaturity
      <3> QED
        BY <2>2, <3>1, <3>2
    <2> QED
      BY <2>1, <2>2
  <1> QED
    BY <1>1

\* A step that promises nothing new.
LEMMA QuietWithin ==
    ASSUME WithinMaturity, maturity' = maturity, promised' = promised
    PROVE  WithinMaturity'
  BY DEF WithinMaturity

LEMMA KeptWithin ==
    ASSUME Inv, NEW p, \A q \in ReserveId : p[q] <= Matures(maturity[q]), NEW s,
           maturity' = maturity, promised' = Kept(p, s)
    PROVE  WithinMaturity'
  <1>1. \A q \in ReserveId : 0 <= Matures(maturity[q])
    BY FixedTermAssumption DEF Inv, Scalars, Matures
  <1> QED
    BY <1>1 DEF WithinMaturity, Kept

\* An order is only filled where the debts mature late enough.
LEMMA FilledWithin ==
    ASSUME Inv, WithinMaturity, NEW r \in ReserveId, FillBorrowOrder(r)
    PROVE  WithinMaturity'
  <1> DEFINE min == order.min_term
             end == EndAfter(min)
             left == seconds_until_maturity(r)
  <1>1. /\ promised' = Agree(r, end) /\ maturity' = maturity
        /\ is_term_satisfied(min, left)
    BY DEF FillBorrowOrder, CanFill
  <1>2. min \in TermSeconds /\ min \in Nat /\ MaxNow + min < Never
    BY DEF Inv, WholeOrder, Order, TermSeconds
  <1>3. /\ now \in Nat /\ now > 0 /\ now <= MaxNow /\ MaxNow \in Nat /\ Never \in Nat
        /\ maturity[r] \in Nat /\ maturity[r] < Never
    BY FixedTermAssumption DEF Inv, Scalars
  <1>4. end \in 0..Never /\ end = IF min = 0 THEN Never ELSE now + min
    BY <1>2, AgreedEnd
  <1>5. left = IF maturity[r] = 0 THEN Never
               ELSE IF maturity[r] - now >= 0 THEN maturity[r] - now ELSE 0
    BY <1>3, MaxOfTwo DEF seconds_until_maturity
  <1> HIDE DEF left, end, min
  <1>6. end <= Matures(maturity[r])
    <2>1. CASE min = 0
      <3>1. left = Never
        BY <1>1, <2>1 DEF is_term_satisfied
      <3>2. maturity[r] = 0
        BY <1>3, <1>5, <3>1
      <3> QED
        BY <1>3, <1>4, <3>2 DEF Matures
    <2>2. CASE min # 0
      <3>1. min <= left
        BY <1>1, <2>2 DEF is_term_satisfied
      <3> QED
        BY <1>2, <1>3, <1>4, <1>5, <2>2, <3>1 DEF Matures
    <2> QED
      BY <2>1, <2>2
  <1>7. \A q \in ReserveId : Agree(r, end)[q] <= Matures(maturity[q])
    BY <1>4, <1>6, AgreementWithin
  <1> QED
    BY <1>1, <1>7 DEF WithinMaturity

LEMMA MaturityKept == ASSUME Inv, WithinMaturity, [Next]_vars PROVE WithinMaturity'
  <1>1. CASE UNCHANGED vars
    BY <1>1, QuietWithin DEF vars
  <1>2. CASE Tick \/ RefreshObligation \/ ReadOrder
    BY <1>2, QuietWithin DEF Tick, RefreshObligation, ReadOrder
  <1>3. ASSUME NEW c, SetBorrowOrder(c) PROVE WithinMaturity'
    BY <1>3, QuietWithin DEF SetBorrowOrder
  <1>4. ASSUME NEW r \in ReserveId, NEW tokens \in Amounts, Borrow(r, tokens)
        PROVE  WithinMaturity'
    <2>1. term[r] \in TermSeconds
      BY DEF Inv, Scalars
    <2>2. /\ EndIn(r, term[r]) \in 0..Never
          /\ EndIn(r, term[r]) <= Matures(maturity[r])
      BY <2>1, AgreedWithin
    <2>3. \A q \in ReserveId : Agree(r, EndIn(r, term[r]))[q] <= Matures(maturity[q])
      BY <2>2, AgreementWithin
    <2> QED
      BY <1>4, <2>3 DEF Borrow, WithinMaturity
  <1>5. ASSUME NEW r \in ReserveId, NEW tokens \in Amounts, Repay(r, tokens)
        PROVE  WithinMaturity'
    BY <1>5, KeptWithin DEF Repay, WithinMaturity
  <1>6. ASSUME NEW r \in ReserveId, rollover_borrow_into_same_reserve(r)
        PROVE  WithinMaturity'
    <2> DEFINE end == EndIn(r, slot[r].config.min_term)
    <2>1. slot[r].config.min_term \in TermSeconds
      BY DEF Inv, Slots, Borrowed, Config
    <2>2. end \in 0..Never /\ end <= Matures(maturity[r])
      BY <2>1, AgreedWithin
    <2>3. promised' = Agree(r, end) /\ maturity' = maturity
      BY <1>6 DEF rollover_borrow_into_same_reserve
    <2> HIDE DEF end
    <2>4. \A q \in ReserveId : Agree(r, end)[q] <= Matures(maturity[q])
      BY <2>2, AgreementWithin
    <2> QED
      BY <2>3, <2>4 DEF WithinMaturity
  <1>7. ASSUME NEW s \in ReserveId, NEW t \in ReserveId,
               rollover_borrow_into_different_reserve(s, t)
        PROVE  WithinMaturity'
    <2> DEFINE end == EndIn(t, IF term[t] = 0 THEN 0 ELSE slot[s].config.min_term)
    <2>1. (IF term[t] = 0 THEN 0 ELSE slot[s].config.min_term) \in TermSeconds
      BY FixedTermAssumption DEF Inv, Slots, Borrowed, Config, TermSeconds
    <2>2. end \in 0..Never /\ end <= Matures(maturity[t])
      BY <2>1, AgreedWithin
    <2>3. promised' = Kept(Agree(t, end), slot') /\ maturity' = maturity
      BY <1>7 DEF rollover_borrow_into_different_reserve
    <2> HIDE DEF end
    <2>4. \A q \in ReserveId : Agree(t, end)[q] <= Matures(maturity[q])
      BY <2>2, AgreementWithin
    <2> QED
      BY <2>3, <2>4, KeptWithin
  <1>8. ASSUME NEW r \in ReserveId, update_obligation_config(r) PROVE WithinMaturity'
    BY <1>8, QuietWithin DEF update_obligation_config
  <1>9. ASSUME NEW r \in ReserveId, NEW new, UpdateDebtTermSeconds(r, new)
        PROVE  WithinMaturity'
    BY <1>9, QuietWithin DEF UpdateDebtTermSeconds
  <1>10. ASSUME NEW r \in ReserveId, NEW new \in Maturities,
                UpdateDebtMaturityTimestamp(r, new)
         PROVE  WithinMaturity'
    <2>1. /\ maturity \in [ReserveId -> 0..(Never - 1)] /\ promised \in [ReserveId -> 0..Never]
          /\ new \in 0..(Never - 1)
      BY FixedTermAssumption DEF Inv, Scalars
    <2>2. /\ maturity' = [maturity EXCEPT ![r] = new]
          /\ promised' = [promised EXCEPT ![r] = Lesser(promised[r], Matures(new))]
      BY <1>10 DEF UpdateDebtMaturityTimestamp
    <2>3. Lesser(promised[r], Matures(new)) <= Matures(new)
      BY <2>1, LessPromised
    <2> QED
      BY <2>1, <2>2, <2>3 DEF WithinMaturity
  <1> QED
    BY <1>1, <1>2, <1>3, <1>4, <1>5, <1>6, <1>7, <1>8, <1>9, <1>10, FilledWithin DEF Next

-----------------------------------------------------------------------------
(* Theorems                                                                *)

LEMMA NextInv == ASSUME Inv, [Next]_vars PROVE Inv'
  <1>1. CASE UNCHANGED vars
    BY <1>1 DEF Inv, Scalars, Slots, WholeOrder, Promises, SeenBound, vars
  <1>2. CASE Tick \/ RefreshObligation \/ ReadOrder
    BY <1>2, TickInv, RefreshObligationInv, ReadOrderInv
  <1>3. CASE \E c \in OrderConfigs \cup {NoOrder} : SetBorrowOrder(c)
    BY <1>3, SetBorrowOrderInv
  <1>4. ASSUME NEW r \in ReserveId,
               \/ FillBorrowOrder(r) \/ rollover_borrow_into_same_reserve(r)
               \/ update_obligation_config(r)
        PROVE  Inv'
    BY <1>4, FillBorrowOrderInv, SameReserveInv, UpdateObligationConfigInv
  <1>5. ASSUME NEW r \in ReserveId, NEW tokens \in Amounts, Borrow(r, tokens) \/ Repay(r, tokens)
        PROVE  Inv'
    BY <1>5, BorrowInv, RepayInv
  <1>6. ASSUME NEW r \in ReserveId, NEW t \in ReserveId,
               rollover_borrow_into_different_reserve(r, t)
        PROVE  Inv'
    BY <1>6, DifferentReserveInv
  <1>7. ASSUME NEW r \in ReserveId, NEW new \in Terms, UpdateDebtTermSeconds(r, new)
        PROVE  Inv'
    BY <1>7, UpdateDebtTermInv
  <1>8. ASSUME NEW r \in ReserveId, NEW new \in Maturities, UpdateDebtMaturityTimestamp(r, new)
        PROVE  Inv'
    BY <1>8, UpdateDebtMaturityInv
  <1> QED
    BY <1>1, <1>2, <1>3, <1>4, <1>5, <1>6, <1>7, <1>8 DEF Next

LEMMA Invariant == Spec => []Inv
  <1>1. Inv /\ [Next]_vars => Inv'
    BY NextInv
  <1> QED
    BY InitInv, <1>1, PTL DEF Spec

\* Settings that let strangers move a debt always carry their limits, and
\* orders and slots are empty or whole, in every reachable state.
THEOREM SettingsKeepIntegrity == Spec => []IntegrityKept
  <1>1. Inv => IntegrityKept
    BY InvTypes DEF Inv, Slots, GoodSlot, LimitsKept, IntegrityKept
  <1> QED
    BY <1>1, Invariant, PTL

LEMMA MaturityInvariant == Spec => []WithinMaturity
  <1>1. Init => WithinMaturity
    BY FixedTermAssumption DEF Init, WithinMaturity, Matures
  <1>2. Inv /\ WithinMaturity /\ [Next]_vars => WithinMaturity'
    BY MaturityKept
  <1> QED
    BY <1>1, <1>2, Invariant, PTL DEF Spec

\* No fill, rollover or change of a reserve's term makes a debt fall due, at the
\* end of its term or at the maturity of its reserve, before what its owner
\* agreed to, less what `promised` concedes of the maturity.
THEOREM TermsArePromised == Spec => []TermPromised
  <1>1. Inv /\ WithinMaturity => TermPromised
    BY DEF Inv, Promises, KeptPromise, WithinMaturity, TermPromised, falls_due, Lesser
  <1> QED
    BY <1>1, Invariant, MaturityInvariant, PTL

\* The owner of an order never raises it over a fill it has not seen.
THEOREM NoUpdateIsBlind == Spec => NoBlindUpdate
  <1> DEFINE A == order'.remaining > order.remaining => unseen = 0
  <1>1. Inv /\ [Next]_vars => [A]_vars
    <2> SUFFICES ASSUME Inv, Next PROVE A
      OBVIOUS
    <2>1. /\ order.remaining \in Nat /\ unseen \in Nat /\ seen \in Nat
          /\ order.remaining + unseen <= seen
      BY DEF Inv, WholeOrder, Order, Scalars, SeenBound
    <2>2. ASSUME NEW c \in OrderConfigs \cup {NoOrder}, SetBorrowOrder(c) PROVE A
      BY <2>1, <2>2 DEF SetBorrowOrder, expectation_met
    <2>3. CASE RefreshObligation
      <3>1. order' = order \/ order' = NoOrder
        BY <2>3 DEF RefreshObligation, clear_if_past_fillable_timestamp
      <3> QED
        BY <2>1, <3>1 DEF NoOrder
    <2>4. ASSUME NEW r \in ReserveId, FillBorrowOrder(r) PROVE A
      <3> DEFINE tokens == fill_amount(r)
      <3>1. order' = filled(order, tokens) /\ CanBorrow(r, tokens)
        BY <2>4 DEF FillBorrowOrder
      <3>2. tokens \in Int /\ tokens > 0
        BY <3>1, InvTypes, FillAmount DEF CanBorrow
      <3> HIDE DEF tokens
      <3>3. \/ order' = NoOrder
            \/ order'.remaining = order.remaining - tokens
        <4>1. order \in Order
          BY DEF Inv, WholeOrder
        <4> QED
          BY <3>1, <4>1 DEF filled, Order
      <3> QED
        BY <2>1, <3>2, <3>3 DEF NoOrder
    <2>5. CASE order' = order
      BY <2>1, <2>5
    <2>6. CASE Tick \/ ReadOrder
      BY <2>5, <2>6 DEF Tick, ReadOrder
    <2>7. ASSUME NEW r \in ReserveId,
                 rollover_borrow_into_same_reserve(r) \/ update_obligation_config(r)
          PROVE  A
      BY <2>5, <2>7 DEF rollover_borrow_into_same_reserve, update_obligation_config
    <2>8. ASSUME NEW r \in ReserveId, NEW tokens \in Amounts,
                 Borrow(r, tokens) \/ Repay(r, tokens)
          PROVE  A
      BY <2>5, <2>8 DEF Borrow, Repay
    <2>9. ASSUME NEW r \in ReserveId, NEW t \in ReserveId,
                 rollover_borrow_into_different_reserve(r, t)
          PROVE  A
      BY <2>5, <2>9 DEF rollover_borrow_into_different_reserve
    <2>10. ASSUME NEW r \in ReserveId, NEW new \in Terms, UpdateDebtTermSeconds(r, new)
           PROVE  A
      BY <2>5, <2>10 DEF UpdateDebtTermSeconds
    <2>11. ASSUME NEW r \in ReserveId, NEW new \in Maturities,
                  UpdateDebtMaturityTimestamp(r, new)
           PROVE  A
      BY <2>5, <2>11 DEF UpdateDebtMaturityTimestamp
    <2> HIDE DEF A
    <2> QED
      BY <2>2, <2>3, <2>4, <2>6, <2>7, <2>8, <2>9, <2>10, <2>11 DEF Next
  <1> QED
    BY <1>1, Invariant, PTL DEF Spec, NoBlindUpdate

\* A debt whose term has ended starts anew only with its capture forgotten.
THEOREM CapturesOfThisTerm == Spec => CaptureOfThisTerm
  <1> DEFINE A(r) == slot'[r].last # slot[r].last /\ Expired(slot[r], term[r]) =>
                         slot'[r].captured = 0
  <1>1. Inv /\ [Next]_vars => [\A r \in ReserveId : A(r)]_vars
    <2> SUFFICES ASSUME Inv, Next, NEW q \in ReserveId PROVE A(q)
      OBVIOUS
    <2>1. /\ slot \in [ReserveId -> Borrowed] /\ now \in Nat
          /\ \A r \in ReserveId : slot[r].debt \in Nat
      BY DEF Inv, Slots, Scalars, Borrowed
    <2>2. CASE slot'[q] = slot[q]
      BY <2>2
    <2>3. CASE Tick \/ ReadOrder
      BY <2>2, <2>3 DEF Tick, ReadOrder
    <2>4. ASSUME NEW c \in OrderConfigs \cup {NoOrder}, SetBorrowOrder(c) PROVE A(q)
      BY <2>2, <2>4 DEF SetBorrowOrder
    <2>5. CASE RefreshObligation
      <3>1. PICK interest \in {0, 1} :
            slot' = [r \in ReserveId |->
                      LET b == slot[r]
                          grows == b.debt > 0 /\ Total(slot) < allowed_borrow_value
                      IN  capture_borrowed_amount_at_expiration(
                              [b EXCEPT !.debt = IF grows THEN @ + interest ELSE @], term[r])]
        BY <2>5 DEF RefreshObligation
      <3>2. PICK d : slot'[q] = capture_borrowed_amount_at_expiration(
                                    [slot[q] EXCEPT !.debt = d], term[q])
        BY <3>1
      <3> DEFINE c == [slot[q] EXCEPT !.debt = d]
      <3>3. c.last = slot[q].last /\ [c EXCEPT !.captured = now].last = c.last
        BY <2>1 DEF Borrowed
      <3> HIDE DEF c
      <3>4. slot'[q].last = slot[q].last
        BY <3>2, <3>3 DEF capture_borrowed_amount_at_expiration, c
      <3> QED
        BY <3>4
    <2>6. ASSUME NEW r \in ReserveId, FillBorrowOrder(r) PROVE A(q)
      <3>1. CASE q # r
        BY <2>1, <2>2, <2>6, <3>1 DEF FillBorrowOrder
      <3>2. CASE q = r
        BY <2>6, <3>2 DEF FillBorrowOrder, CanBorrow
      <3> QED
        BY <3>1, <3>2
    <2>7. ASSUME NEW r \in ReserveId, NEW tokens \in Amounts, Borrow(r, tokens) PROVE A(q)
      <3>1. CASE q # r
        BY <2>1, <2>2, <2>7, <3>1 DEF Borrow
      <3>2. CASE q = r
        BY <2>7, <3>2 DEF Borrow, CanBorrow
      <3> QED
        BY <3>1, <3>2
    <2>8. ASSUME NEW b \in Borrowed, NEW d, slot[q] = b, slot'[q] = repaid(b, d) PROVE A(q)
      <3>1. CASE repaid(b, d) = NoBorrow
        BY <2>8, <3>1 DEF NoBorrow
      <3>2. CASE repaid(b, d) # NoBorrow
        <4>1. repaid(b, d) = [b EXCEPT !.debt = b.debt - d]
          BY <3>2, Zenon DEF repaid
        <4>2. [b EXCEPT !.debt = b.debt - d].last = b.last
          BY DEF Borrowed
        <4> QED
          BY <2>8, <4>1, <4>2
      <3> QED
        BY <3>1, <3>2
    <2>9. ASSUME NEW r \in ReserveId, NEW tokens \in Amounts, Repay(r, tokens) PROVE A(q)
      <3>1. CASE q # r
        BY <2>1, <2>2, <2>9, <3>1 DEF Repay
      <3>2. CASE q = r
        <4>1. slot'[q] = repaid(slot[q], Min({tokens * SF, slot[r].debt}))
          BY <2>1, <2>9, <3>2, Zenon DEF Repay
        <4> QED
          BY <2>1, <2>8, <4>1
      <3> QED
        BY <3>1, <3>2
    <2>10. ASSUME NEW r \in ReserveId, rollover_borrow_into_same_reserve(r) PROVE A(q)
      <3>1. CASE q # r
        BY <2>1, <2>2, <2>10, <3>1 DEF rollover_borrow_into_same_reserve
      <3>2. CASE q = r
        <4>1. slot'[q] = renewed(slot[q])
          BY <2>1, <2>10, <3>2 DEF rollover_borrow_into_same_reserve
        <4> QED
          BY <2>1, <4>1, RenewedFields
      <3> QED
        BY <3>1, <3>2
    <2>11. ASSUME NEW s \in ReserveId, NEW t \in ReserveId,
                  rollover_borrow_into_different_reserve(s, t)
           PROVE  A(q)
      <3> DEFINE tokens == tokens_to_transfer_over(s, t)
                 settled == Min({tokens * SF, slot[s].debt})
      <3>1. /\ s # t /\ tokens > 0
            /\ slot' = [slot EXCEPT ![s] = repaid(slot[s], settled), ![t] = moved(s, t, tokens)]
        BY <2>11 DEF rollover_borrow_into_different_reserve
      <3>2. tokens \in Nat \ {0}
        BY <3>1, TransferredTokens
      <3> HIDE DEF tokens, settled
      <3>3. CASE q = t
        <4>1. slot'[q] = moved(s, t, tokens)
          BY <2>1, <3>1, <3>3
        <4> QED
          BY <3>2, <4>1, MovedSlot
      <3>4. CASE q = s
        <4>1. slot'[q] = repaid(slot[q], settled)
          BY <2>1, <3>1, <3>4
        <4> QED
          BY <2>1, <2>8, <4>1
      <3>5. CASE q # s /\ q # t
        BY <2>1, <2>2, <3>1, <3>5
      <3> QED
        BY <3>3, <3>4, <3>5
    <2>12. ASSUME NEW r \in ReserveId, update_obligation_config(r) PROVE A(q)
      <3>1. PICK c : slot' = [slot EXCEPT ![r].config = c]
        BY <2>12 DEF update_obligation_config
      <3>2. slot'[q].last = slot[q].last
        BY <2>1, <3>1 DEF Borrowed
      <3> QED
        BY <3>2
    <2>13. ASSUME NEW r \in ReserveId, NEW new \in Terms, UpdateDebtTermSeconds(r, new)
           PROVE  A(q)
      BY <2>2, <2>13 DEF UpdateDebtTermSeconds
    <2>14. ASSUME NEW r \in ReserveId, NEW new \in Maturities,
                  UpdateDebtMaturityTimestamp(r, new)
           PROVE  A(q)
      BY <2>2, <2>14 DEF UpdateDebtMaturityTimestamp
    <2> HIDE DEF A
    <2> QED
      BY <2>3, <2>4, <2>5, <2>6, <2>7, <2>9, <2>10, <2>11, <2>12, <2>13, <2>14 DEF Next
  <1> QED
    BY <1>1, Invariant, PTL DEF Spec, CaptureOfThisTerm
==============================================================================

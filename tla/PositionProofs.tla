---------------------------- MODULE PositionProofs ----------------------------
(***************************************************************************)
(* Position for any reserves, settings, prices, orders, amounts and days.  *)
(***************************************************************************)
EXTENDS Position, ReserveTheorems

-----------------------------------------------------------------------------
(* Fractions                                                               *)

LEMMA ScaleType == SF \in Nat \ {0} /\ SF >= 100
  BY ScaleAssumption, PositionAssumption

LEMMA MulType == ASSUME NEW a \in Nat, NEW b \in Nat PROVE Mul(a, b) \in Nat
<1>1. a * b \in Nat
  OBVIOUS
<1> QED
  BY <1>1, ScaleType, DivBounds DEF Mul

LEMMA DivType == ASSUME NEW a \in Nat, NEW b \in Nat \ {0} PROVE Div(a, b) \in Nat
<1>1. a * SF \in Nat
  BY ScaleType
<1> QED
  BY <1>1, DivBounds DEF Div

LEMMA PctType == ASSUME NEW p \in Nat PROVE Pct(p) \in Nat
<1>1. p * SF \in Nat
  BY ScaleType
<1> QED
  BY <1>1, DivBounds DEF Pct

LEMMA LesserType == ASSUME NEW a \in Int, NEW b \in Int
                    PROVE  Lesser(a, b) \in {a, b} /\ Lesser(a, b) <= a /\ Lesser(a, b) <= b
  BY DEF Lesser

LEMMA SaturatingType ==
    ASSUME NEW a \in Nat, NEW b \in Nat
    PROVE  /\ saturating_sub(a, b) \in Nat /\ saturating_sub(a, b) <= a
           /\ a - b <= saturating_sub(a, b)
  BY DEF saturating_sub

\* The quotient by SF of a product.
LEMMA MulBounds ==
    ASSUME NEW a \in Nat, NEW b \in Nat
    PROVE  /\ Mul(a, b) \in Nat
           /\ SF * Mul(a, b) <= a * b /\ a * b < SF * Mul(a, b) + SF
<1>1. a * b \in Nat
  OBVIOUS
<1> QED
  BY <1>1, ScaleType, DivBounds DEF Mul

LEMMA DivFloor ==
    ASSUME NEW a \in Nat, NEW b \in Nat \ {0}
    PROVE  /\ Div(a, b) \in Nat
           /\ b * Div(a, b) <= a * SF /\ a * SF < b * Div(a, b) + b
<1>1. a * SF \in Nat
  BY ScaleType
<1> QED
  BY <1>1, DivBounds DEF Div

\* Quotients rounded down keep an order.
LEMMA DivOrder ==
    ASSUME NEW a \in Nat, NEW b \in Nat, NEW d \in Nat \ {0}, a <= b
    PROVE  (a \div d) <= (b \div d)
<1>1. /\ (a \div d) \in Nat /\ d * (a \div d) <= a
      /\ (b \div d) \in Nat /\ b < d * (b \div d) + d
  BY DivBounds
<1> DEFINE x == a \div d
           y == b \div d
<1>2. x \in Nat /\ y \in Nat /\ d * x < d * y + d
  BY <1>1
<1> HIDE DEF x, y
<1>3. d * y + d = d * (y + 1)
  BY <1>2
<1>4. x < y + 1
  BY <1>2, <1>3
<1> QED
  BY <1>2, <1>4 DEF x, y

LEMMA MulOrder ==
    ASSUME NEW a \in Nat, NEW b \in Nat, NEW c \in Nat, a <= b
    PROVE  Mul(a, c) <= Mul(b, c)
<1>1. a * c \in Nat /\ b * c \in Nat /\ a * c <= b * c
  BY ProductMono
<1> QED
  BY <1>1, DivOrder, ScaleType DEF Mul

LEMMA DivOrderSF ==
    ASSUME NEW a \in Nat, NEW b \in Nat, NEW d \in Nat \ {0}, a <= b
    PROVE  Div(a, d) <= Div(b, d)
<1>1. a * SF \in Nat /\ b * SF \in Nat /\ a * SF <= b * SF
  BY ProductMono, ScaleType
<1> QED
  BY <1>1, DivOrder DEF Div

\* A part of something, as a Fraction, is at most one ...
LEMMA PartAtMostOne ==
    ASSUME NEW a \in Nat, NEW b \in Nat \ {0}, a <= b
    PROVE  Div(a, b) \in Nat /\ Div(a, b) <= SF
<1> DEFINE x == Div(a, b)
<1>1. x \in Nat /\ b * x <= a * SF
  BY DivFloor
<1>2. a * SF <= b * SF /\ SF \in Nat
  BY ProductMono, ScaleType
<1> HIDE DEF x
<1>3. b * x <= b * SF
  BY <1>1, <1>2
<1>4. x <= SF
  BY <1>1, <1>2, <1>3
<1> QED
  BY <1>1, <1>4 DEF x

\* ... and that part of an amount is at most the amount.
LEMMA MulAtMost ==
    ASSUME NEW a \in Nat, NEW x \in Nat, x <= SF
    PROVE  Mul(a, x) \in Nat /\ Mul(a, x) <= a
<1> DEFINE m == Mul(a, x)
<1>1. m \in Nat /\ SF * m <= a * x
  BY MulBounds
<1>2. a * x <= a * SF
  BY ScaleType
<1> HIDE DEF m
<1>3. SF * m <= SF * a
  BY <1>1, <1>2, ScaleType
<1>4. m <= a
  BY <1>1, <1>3, ScaleType
<1> QED
  BY <1>1, <1>4 DEF m

LEMMA MulSwap == ASSUME NEW a \in Nat, NEW b \in Nat PROVE Mul(a, b) = Mul(b, a)
<1>1. a * b = b * a
  OBVIOUS
<1> QED
  BY <1>1 DEF Mul

LEMMA MaxTwo == ASSUME NEW a \in Int, NEW b \in Int
                PROVE  /\ Max({a, b}) = a \/ Max({a, b}) = b
                       /\ Max({a, b}) >= a /\ Max({a, b}) >= b
<1>1. \E x \in {a, b} : \A y \in {a, b} : x >= y
  <2>1. CASE a >= b
    BY <2>1
  <2>2. CASE b >= a
    BY <2>2
  <2> QED
    BY <2>1, <2>2
<1> QED
  BY <1>1 DEF Max

LEMMA MinTwo == ASSUME NEW a \in Int, NEW b \in Int
                PROVE  /\ Min({a, b}) = a \/ Min({a, b}) = b
                       /\ Min({a, b}) <= a /\ Min({a, b}) <= b
<1>1. \E x \in {a, b} : \A y \in {a, b} : x <= y
  <2>1. CASE a <= b
    BY <2>1
  <2>2. CASE b <= a
    BY <2>2
  <2> QED
    BY <2>1, <2>2
<1> QED
  BY <1>1 DEF Min

LEMMA MinThree ==
    ASSUME NEW a \in Int, NEW b \in Int, NEW c \in Int
    PROVE  /\ Min({a, b, c}) = a \/ Min({a, b, c}) = b \/ Min({a, b, c}) = c
           /\ Min({a, b, c}) <= a /\ Min({a, b, c}) <= b /\ Min({a, b, c}) <= c
<1>1. \E x \in {a, b, c} : \A y \in {a, b, c} : x <= y
  <2>1. CASE a <= b /\ a <= c
    BY <2>1
  <2>2. CASE b <= a /\ b <= c
    BY <2>2
  <2>3. CASE c <= a /\ c <= b
    BY <2>3
  <2> QED
    BY <2>1, <2>2, <2>3
<1> QED
  BY <1>1 DEF Min

LEMMA MaxNat == ASSUME NEW a \in Nat, NEW b \in Int PROVE Max({a, b}) \in Nat
<1> DEFINE m == Max({a, b})
<1>1. (m = a \/ m = b) /\ m >= a
  <2>1. a \in Int /\ b \in Int
    OBVIOUS
  <2> QED
    BY <2>1, MaxTwo, Zenon
<1> HIDE DEF m
<1>2. m \in Nat
  BY <1>1
<1> QED
  BY <1>2 DEF m

LEMMA MinNat ==
    ASSUME NEW a \in Nat, NEW b \in Nat, NEW c \in Nat
    PROVE  Min({a, b, c}) \in Nat /\ Min({a, b, c}) <= c
<1> DEFINE m == Min({a, b, c})
<1>1. (m = a \/ m = b \/ m = c) /\ m <= c
  <2>1. a \in Int /\ b \in Int /\ c \in Int
    OBVIOUS
  <2> QED
    BY <2>1, MinThree, Zenon
<1> HIDE DEF m
<1>2. m \in Nat /\ m <= c
  BY <1>1
<1> QED
  BY <1>2 DEF m

-----------------------------------------------------------------------------
(* Settings                                                                *)

LEMMA MarketType ==
    /\ market.min_value_skip_ltv \in Nat /\ market.min_value_skip_bf \in Nat
    /\ market.global_allowed_borrow_value \in Nat
    /\ market.margin_call_period \in Nat /\ market.full_liquidation_days \in Nat
    /\ market.insolvency_risk_ltv \in Nat /\ market.close_factor \in Nat
    /\ market.max_at_once \in Nat /\ market.min_full_liquidation_value \in Nat
    /\ market.min_net_value \in Nat
  BY PositionAssumption DEF MarketSettings

LEMMA ConfigType ==
    ASSUME NEW r \in ReserveId
    PROVE  /\ config[r].ltv \in 0..99 /\ config[r].threshold \in 0..100
           /\ config[r].borrow_factor \in Nat /\ config[r].borrow_factor >= 100
           /\ config[r].min_bonus \in Nat /\ config[r].max_bonus \in Nat
           /\ config[r].bad_debt_bonus \in Nat /\ config[r].margin_call_period \in Nat
           /\ config[r].threshold_decrease \in Nat /\ config[r].min_delev_bonus \in Nat
           /\ config[r].bonus_increase \in Nat /\ config[r].maturity \in Nat
           /\ config[r].term \in Nat
<1>1. config[r] \in ReserveSettings
  BY PositionAssumption
<1> QED
  BY <1>1 DEF ReserveSettings

LEMMA GroupType ==
    ASSUME NEW g \in Group
    PROVE  /\ g \in Nat /\ g # ELEVATION_GROUP_NONE
           /\ elevation[g].ltv \in 0..100 /\ elevation[g].threshold \in 0..100
           /\ elevation[g].max_bonus \in 0..100 /\ elevation[g].debt_reserve \in ReserveId
<1>1. elevation[g] \in GroupSettings
  BY PositionAssumption
<1> QED
  BY <1>1, PositionAssumption DEF GroupSettings

LEMMA Sets ==
    /\ IsFiniteSet(ReserveId) /\ Collaterals \subseteq ReserveId /\ Debts \subseteq ReserveId
    /\ IsFiniteSet(Collaterals) /\ IsFiniteSet(Debts) /\ Collaterals \cap Debts = {}
  BY PositionAssumption, FS_Subset

-----------------------------------------------------------------------------
(* Obligations                                                             *)

Positive == Nat \ {0}
Obligations ==
    [deposited : [ReserveId -> 0..MaxDeposit], borrowed_sf : [ReserveId -> Nat],
     since : [ReserveId -> 0..MaxDay], at_expiration : [ReserveId -> Nat],
     term_settled : [ReserveId -> Nat], group : Group \cup {ELEVATION_GROUP_NONE},
     margin_call : 0..MaxDay, target : Nat, orders : [OrderSlot -> Order],
     valued : [ReserveId -> Nat]]

\* The term of debt r has ended by day t.
EndedBy(o, r, t) == config[r].term # 0 /\ o.since[r] # 0 /\ t >= o.since[r] + config[r].term

\* The amount captured when a term ended covers what is owed and what has been
\* liquidated for the term, and it is there once the values are fresh.  What
\* was liquidated is within the share of the days gone by.
ThrottledBy(o, r, t) ==
    LET full == market.full_liquidation_days
        gone == Lesser(full, t - (o.since[r] + config[r].term))
    IN  o.term_settled[r] * full < o.at_expiration[r] * SF * gone + full
Captured(o, r, t) ==
    /\ (o.borrowed_sf[r] = 0) = (o.since[r] = 0)
    /\ o.borrowed_sf[r] = 0 => o.at_expiration[r] = 0
    /\ o.at_expiration[r] = 0 => o.term_settled[r] = 0
    /\ o.at_expiration[r] # 0 =>
          EndedBy(o, r, t) /\ o.borrowed_sf[r] + o.term_settled[r] <= o.at_expiration[r] * SF
    /\ Fresh(o) /\ EndedBy(o, r, t) => o.at_expiration[r] # 0
    /\ o.term_settled[r] # 0 /\ market.full_liquidation_days # 0 => ThrottledBy(o, r, t)

ValidBonus(order) == order.min_bonus <= order.max_bonus
ValidSize(order) == (order.opportunity = "Single") = (order.size > 0)

Sane(o, t) ==
    /\ o \in Obligations
    /\ Fresh(o) => o.valued \in [ReserveId -> Positive]
    /\ \A r \in Debts : Captured(o, r, t)
    /\ \A i \in OrderSlot : ValidBonus(o.orders[i]) /\ ValidSize(o.orders[i])

LEMMA SaneFields ==
    ASSUME NEW o, NEW t, Sane(o, t)
    PROVE  /\ o \in Obligations
           /\ o.deposited \in [ReserveId -> 0..MaxDeposit] /\ o.borrowed_sf \in [ReserveId -> Nat]
           /\ o.since \in [ReserveId -> 0..MaxDay] /\ o.at_expiration \in [ReserveId -> Nat]
           /\ o.term_settled \in [ReserveId -> Nat]
           /\ o.group \in Group \cup {ELEVATION_GROUP_NONE}
           /\ o.margin_call \in 0..MaxDay /\ o.target \in Nat
           /\ o.orders \in [OrderSlot -> Order] /\ o.valued \in [ReserveId -> Nat]
  BY DEF Sane, Obligations

LEMMA BoundTypes == MaxDeposit \in Nat /\ MaxDay \in Nat /\ MaxDay # 0
  BY PositionAssumption

LEMMA NoOrderType == NoOrder \in Order /\ ValidBonus(NoOrder) /\ ValidSize(NoOrder)
  BY DEF NoOrder, Order, Condition, ValidBonus, ValidSize

LEMMA NewSane == ASSUME NEW t \in Nat PROVE Sane(NewObligation, t)
<1>1. NewObligation \in Obligations
  BY BoundTypes, NoOrderType DEF NewObligation, Obligations, Stale
<1>2. ~Fresh(NewObligation)
  BY DEF Fresh, NewObligation
<1>3. ASSUME NEW r \in Debts PROVE Captured(NewObligation, r, t)
  <2>1. r \in ReserveId
    BY Sets
  <2> QED
    BY <1>2, <2>1 DEF Captured, NewObligation, Stale
<1>4. \A i \in OrderSlot : NewObligation.orders[i] = NoOrder
  BY DEF NewObligation
<1> QED
  BY <1>1, <1>2, <1>3, <1>4, NoOrderType DEF Sane

\* The fields an operation leaves alone.
SameLoans(o, n, r) ==
    /\ n.borrowed_sf[r] = o.borrowed_sf[r] /\ n.since[r] = o.since[r]
    /\ n.at_expiration[r] = o.at_expiration[r] /\ n.term_settled[r] = o.term_settled[r]

LEMMA CapturedSame ==
    ASSUME NEW o, NEW n, NEW r, NEW t, Captured(o, r, t), SameLoans(o, n, r), Fresh(n) => Fresh(o)
    PROVE  Captured(n, r, t)
  BY DEF Captured, SameLoans, EndedBy, ThrottledBy

LEMMA StaleSane ==
    ASSUME NEW o, NEW t, Sane(o, t)
    PROVE  /\ Sane(stale(o), t) /\ ~Fresh(stale(o))
           /\ stale(o) = [o EXCEPT !.valued = Stale]
           /\ stale(o).deposited = o.deposited /\ stale(o).borrowed_sf = o.borrowed_sf
           /\ stale(o).since = o.since /\ stale(o).at_expiration = o.at_expiration
           /\ stale(o).term_settled = o.term_settled /\ stale(o).group = o.group
           /\ stale(o).margin_call = o.margin_call /\ stale(o).target = o.target
           /\ stale(o).orders = o.orders
<1>1. /\ stale(o).deposited = o.deposited /\ stale(o).borrowed_sf = o.borrowed_sf
      /\ stale(o).since = o.since /\ stale(o).at_expiration = o.at_expiration
      /\ stale(o).term_settled = o.term_settled /\ stale(o).group = o.group
      /\ stale(o).margin_call = o.margin_call /\ stale(o).target = o.target
      /\ stale(o).orders = o.orders /\ stale(o).valued = Stale
      /\ stale(o) \in Obligations
  BY DEF Sane, Obligations, stale, Stale
<1>2. ~Fresh(stale(o))
  BY <1>1 DEF Fresh
<1>3. ASSUME NEW r \in Debts PROVE Captured(stale(o), r, t)
  BY <1>1, <1>2, CapturedSame DEF Sane, SameLoans
<1> QED
  BY <1>1, <1>2, <1>3 DEF Sane, stale

-----------------------------------------------------------------------------
(* What each operation does to an obligation                               *)

LEMMA RefreshedSane ==
    ASSUME NEW o, Sane(o, now), now \in Nat, price \in [ReserveId -> Positive]
    PROVE  /\ Sane(refreshed(o), now) /\ refreshed(o).valued = price
           /\ refreshed(o).deposited = o.deposited /\ refreshed(o).borrowed_sf = o.borrowed_sf
           /\ refreshed(o).since = o.since /\ refreshed(o).group = o.group
           /\ refreshed(o).margin_call = o.margin_call /\ refreshed(o).target = o.target
           /\ refreshed(o).orders = o.orders
<1> DEFINE n == refreshed(o)
           cap == [r \in ReserveId |->
                     IF r \in Borrows(o) /\ o.at_expiration[r] = 0 /\ TermEnded(o, r)
                     THEN DivCeil(o.borrowed_sf[r], SF) ELSE o.at_expiration[r]]
<1>1. o \in Obligations
  BY DEF Sane
<1>2. n = [o EXCEPT !.valued = price, !.at_expiration = cap]
  BY DEF refreshed
<1>3. ASSUME NEW r \in ReserveId PROVE cap[r] \in Nat
  <2>1. o.borrowed_sf[r] \in Nat /\ o.at_expiration[r] \in Nat
    BY <1>1 DEF Obligations
  <2>2. DivCeil(o.borrowed_sf[r], SF) \in Nat
    BY <2>1, CeilBounds, ScaleType
  <2> QED
    BY <2>1, <2>2
<1>4. cap \in [ReserveId -> Nat]
  BY <1>3
<1> HIDE DEF cap
<1>5. /\ n.deposited = o.deposited /\ n.borrowed_sf = o.borrowed_sf
      /\ n.since = o.since /\ n.at_expiration = cap
      /\ n.term_settled = o.term_settled /\ n.group = o.group
      /\ n.margin_call = o.margin_call /\ n.target = o.target
      /\ n.orders = o.orders /\ n.valued = price
      /\ n \in Obligations
  BY <1>1, <1>2, <1>4 DEF Obligations, Positive
<1>6. ASSUME NEW r \in Debts PROVE Captured(n, r, now)
  <2>1. r \in ReserveId /\ o.borrowed_sf[r] \in Nat /\ o.at_expiration[r] \in Nat
    BY <1>1, Sets DEF Obligations
  <2>2. Captured(o, r, now)
    BY DEF Sane
  <2>3. TermEnded(o, r) = EndedBy(o, r, now)
    BY DEF TermEnded, EndedBy
  <2>4. CASE r \in Borrows(o) /\ o.at_expiration[r] = 0 /\ TermEnded(o, r)
    <3>1. n.at_expiration[r] = DivCeil(o.borrowed_sf[r], SF)
      BY <1>5, <2>1, <2>4 DEF cap
    <3>2. DivCeil(o.borrowed_sf[r], SF) \in Nat
          /\ o.borrowed_sf[r] <= SF * DivCeil(o.borrowed_sf[r], SF)
      BY <2>1, CeilBounds, ScaleType
    <3>3. o.borrowed_sf[r] # 0
      BY <2>4 DEF Borrows
    <3>4. o.term_settled[r] = 0
      BY <2>2, <2>4 DEF Captured
    <3> DEFINE a == DivCeil(o.borrowed_sf[r], SF)
    <3> HIDE DEF a
    <3>5. a \in Nat /\ o.borrowed_sf[r] <= a * SF /\ a # 0 /\ n.at_expiration[r] = a
      BY <3>1, <3>2, <3>3, <2>1, ScaleType DEF a
    <3>6. EndedBy(n, r, now)
      BY <2>3, <2>4, <1>5 DEF EndedBy
    <3> QED
      BY <3>3, <3>4, <3>5, <3>6, <2>1, <2>2, <1>5 DEF Captured
  <2>5. CASE ~(r \in Borrows(o) /\ o.at_expiration[r] = 0 /\ TermEnded(o, r))
    <3>1. n.at_expiration[r] = o.at_expiration[r]
      BY <1>5, <2>1, <2>5 DEF cap
    <3>2. EndedBy(n, r, now) = EndedBy(o, r, now) /\ ThrottledBy(n, r, now) = ThrottledBy(o, r, now)
      BY <1>5, <3>1 DEF EndedBy, ThrottledBy
    <3>3. EndedBy(o, r, now) => o.borrowed_sf[r] # 0
      BY <2>2 DEF Captured, EndedBy
    <3>4. r \in Borrows(o) <=> o.borrowed_sf[r] # 0
      BY DEF Borrows
    <3> QED
      BY <1>5, <2>2, <2>3, <2>5, <3>1, <3>2, <3>3, <3>4 DEF Captured
  <2> QED
    BY <2>4, <2>5
<1>7. n.valued \in [ReserveId -> Positive]
  BY <1>5
<1> QED
  BY <1>5, <1>6, <1>7 DEF Sane

LEMMA DepositedSane ==
    ASSUME NEW o, NEW t, Sane(o, t), NEW r \in ReserveId, NEW c \in Nat,
           o.deposited[r] + c <= MaxDeposit
    PROVE  LET n == deposited(o, r, c)
           IN  /\ Sane(n, t) /\ ~Fresh(n)
               /\ n.deposited = [o.deposited EXCEPT ![r] = @ + c]
               /\ n.borrowed_sf = o.borrowed_sf /\ n.group = o.group /\ n.orders = o.orders
<1> DEFINE m == [o EXCEPT !.deposited[r] = @ + c]
<1>1. o \in Obligations /\ o.deposited[r] \in Nat
  BY BoundTypes DEF Sane, Obligations
<1>2. /\ m.deposited = [o.deposited EXCEPT ![r] = @ + c]
      /\ m.borrowed_sf = o.borrowed_sf
      /\ m.since = o.since /\ m.at_expiration = o.at_expiration
      /\ m.term_settled = o.term_settled /\ m.group = o.group
      /\ m.margin_call = o.margin_call /\ m.target = o.target
      /\ m.orders = o.orders /\ m.valued = o.valued
  BY <1>1 DEF Obligations
<1>3. m \in Obligations
  BY <1>1, BoundTypes DEF Obligations
<1>4. deposited(o, r, c) = stale(m)
  BY DEF deposited
<1> HIDE DEF m
<1>5. ASSUME NEW s \in Debts PROVE Captured(m, s, t)
  BY <1>2, CapturedSame DEF Sane, SameLoans, Fresh
<1>6. Sane(m, t)
  BY <1>2, <1>3, <1>5 DEF Sane, Fresh
<1> QED
  BY <1>2, <1>4, <1>6, StaleSane

LEMMA WithdrawnSane ==
    ASSUME NEW o, NEW t, Sane(o, t), NEW q \in ReserveId, NEW c \in Nat, c <= o.deposited[q]
    PROVE  LET n == withdrawn(o, q, c)
           IN  /\ Sane(n, t) /\ ~Fresh(n)
               /\ n.deposited = [o.deposited EXCEPT ![q] = @ - c]
               /\ n.borrowed_sf = o.borrowed_sf /\ n.group = o.group /\ n.orders = o.orders
<1> DEFINE m == [o EXCEPT !.deposited[q] = @ - c]
<1>1. o \in Obligations /\ o.deposited[q] \in Nat /\ o.deposited[q] <= MaxDeposit
  BY BoundTypes DEF Sane, Obligations
<1>2. /\ m.deposited = [o.deposited EXCEPT ![q] = @ - c]
      /\ m.borrowed_sf = o.borrowed_sf
      /\ m.since = o.since /\ m.at_expiration = o.at_expiration
      /\ m.term_settled = o.term_settled /\ m.group = o.group
      /\ m.margin_call = o.margin_call /\ m.target = o.target
      /\ m.orders = o.orders /\ m.valued = o.valued
  BY <1>1 DEF Obligations
<1>3. m \in Obligations
  BY <1>1, BoundTypes DEF Obligations
<1>4. withdrawn(o, q, c) = stale(m)
  BY DEF withdrawn
<1> HIDE DEF m
<1>5. ASSUME NEW s \in Debts PROVE Captured(m, s, t)
  BY <1>2, CapturedSame DEF Sane, SameLoans, Fresh
<1>6. Sane(m, t)
  BY <1>2, <1>3, <1>5 DEF Sane, Fresh
<1> QED
  BY <1>2, <1>4, <1>6, StaleSane

\* Obligation::repay
LEMMA SettledSane ==
    ASSUME NEW o, NEW t, Sane(o, t), NEW r \in Debts, NEW a \in Nat, a <= o.borrowed_sf[r]
    PROVE  LET n == settled(o, r, a)
           IN  /\ Sane(n, t)
               /\ n.borrowed_sf = [o.borrowed_sf EXCEPT ![r] = @ - a]
               /\ n.deposited = o.deposited /\ n.group = o.group /\ n.orders = o.orders
               /\ a # o.borrowed_sf[r] =>
                     /\ n.since = o.since /\ n.at_expiration = o.at_expiration
                     /\ n.term_settled = o.term_settled
<1> DEFINE n == settled(o, r, a)
<1>1. /\ o \in Obligations /\ r \in ReserveId /\ o.borrowed_sf[r] \in Nat
      /\ o.borrowed_sf \in [ReserveId -> Nat]
  BY Sets DEF Sane, Obligations
<1>2. CASE a = o.borrowed_sf[r]
  <2>1. n = [o EXCEPT !.borrowed_sf[r] = 0, !.since[r] = 0, !.at_expiration[r] = 0,
                      !.term_settled[r] = 0]
    BY <1>2 DEF settled
  <2>2. /\ n.borrowed_sf = [o.borrowed_sf EXCEPT ![r] = 0]
        /\ n.since = [o.since EXCEPT ![r] = 0]
        /\ n.at_expiration = [o.at_expiration EXCEPT ![r] = 0]
        /\ n.term_settled = [o.term_settled EXCEPT ![r] = 0]
        /\ n.deposited = o.deposited /\ n.group = o.group
        /\ n.margin_call = o.margin_call /\ n.target = o.target
        /\ n.orders = o.orders /\ n.valued = o.valued
    BY <1>1, <2>1 DEF Obligations
  <2>3. n \in Obligations
    <3>1. /\ [o.borrowed_sf EXCEPT ![r] = 0] \in [ReserveId -> Nat]
          /\ [o.since EXCEPT ![r] = 0] \in [ReserveId -> 0..MaxDay]
          /\ [o.at_expiration EXCEPT ![r] = 0] \in [ReserveId -> Nat]
          /\ [o.term_settled EXCEPT ![r] = 0] \in [ReserveId -> Nat]
      BY <1>1, BoundTypes DEF Obligations
    <3> DEFINE b2 == [o.borrowed_sf EXCEPT ![r] = 0]
               s2 == [o.since EXCEPT ![r] = 0]
               e2 == [o.at_expiration EXCEPT ![r] = 0]
               t2 == [o.term_settled EXCEPT ![r] = 0]
    <3>2. n = [o EXCEPT !.borrowed_sf = b2, !.since = s2, !.at_expiration = e2,
                        !.term_settled = t2]
      BY <1>1, <2>1 DEF Obligations
    <3> HIDE DEF b2, s2, e2, t2, n
    <3> QED
      BY <1>1, <3>1, <3>2 DEF Obligations, b2, s2, e2, t2
  <2> HIDE DEF n
  <2>4. ASSUME NEW s \in Debts PROVE Captured(n, s, t)
    <3>1. s \in ReserveId
      BY Sets
    <3>2. CASE s = r
      <4>1. n.borrowed_sf[s] = 0 /\ n.since[s] = 0 /\ n.at_expiration[s] = 0 /\ n.term_settled[s] = 0
        BY <1>1, <2>2, <3>2, <3>1 DEF Obligations
      <4> QED
        BY <4>1 DEF Captured, EndedBy
    <3>3. CASE s # r
      <4>1. SameLoans(o, n, s)
        BY <1>1, <2>2, <3>3, <3>1 DEF Obligations, SameLoans
      <4> QED
        BY <4>1, <2>2, CapturedSame DEF Sane, Fresh
    <3> QED
      BY <3>2, <3>3
  <2>5. Sane(n, t)
    BY <2>2, <2>3, <2>4 DEF Sane, Fresh
  <2>6. [o.borrowed_sf EXCEPT ![r] = @ - a] = [o.borrowed_sf EXCEPT ![r] = 0]
    BY <1>1, <1>2
  <2> QED
    BY <1>2, <2>2, <2>5, <2>6 DEF n
<1>3. CASE a # o.borrowed_sf[r]
  <2>1. n = [o EXCEPT !.borrowed_sf[r] = @ - a]
    BY <1>3 DEF settled
  <2>2. /\ n.borrowed_sf = [o.borrowed_sf EXCEPT ![r] = @ - a]
        /\ n.since = o.since /\ n.at_expiration = o.at_expiration
        /\ n.term_settled = o.term_settled
        /\ n.deposited = o.deposited /\ n.group = o.group
        /\ n.margin_call = o.margin_call /\ n.target = o.target
        /\ n.orders = o.orders /\ n.valued = o.valued
    BY <1>1, <2>1 DEF Obligations
  <2>3. n \in Obligations
    BY <1>1, <2>1, BoundTypes DEF Obligations
  <2> HIDE DEF n
  <2>4. ASSUME NEW s \in Debts PROVE Captured(n, s, t)
    <3>1. s \in ReserveId
      BY Sets
    <3>2. CASE s = r
      <4>1. /\ n.borrowed_sf[s] = o.borrowed_sf[s] - a /\ n.since[s] = o.since[s]
            /\ n.at_expiration[s] = o.at_expiration[s] /\ n.term_settled[s] = o.term_settled[s]
            /\ n.borrowed_sf[s] # 0 /\ o.borrowed_sf[s] # 0
        BY <1>1, <1>3, <2>2, <3>2
      <4>2. Captured(o, s, t)
        BY DEF Sane
      <4>3. EndedBy(n, s, t) = EndedBy(o, s, t) /\ ThrottledBy(n, s, t) = ThrottledBy(o, s, t)
        BY <2>2 DEF EndedBy, ThrottledBy
      <4>4. o.at_expiration[s] \in Nat /\ o.term_settled[s] \in Nat /\ o.borrowed_sf[s] \in Nat
            /\ o.at_expiration[s] * SF \in Nat
        BY <1>1, <3>1, ScaleType DEF Obligations
      <4>5. Fresh(n) = Fresh(o)
        BY <2>2 DEF Fresh
      <4> QED
        BY <4>1, <4>2, <4>3, <4>4, <4>5 DEF Captured
    <3>3. CASE s # r
      <4>1. SameLoans(o, n, s)
        BY <1>1, <2>2, <3>3, <3>1 DEF Obligations, SameLoans
      <4> QED
        BY <4>1, <2>2, CapturedSame DEF Sane, Fresh
    <3> QED
      BY <3>2, <3>3
  <2>5. Sane(n, t)
    BY <2>2, <2>3, <2>4 DEF Sane, Fresh
  <2> QED
    BY <1>3, <2>2, <2>5 DEF n
<1> QED
  BY <1>2, <1>3

\* Without a debt the orders are gone.
LEMMA ClearedSane ==
    ASSUME NEW o, NEW t, Sane(o, t)
    PROVE  LET n == clear_obligation_orders_if_no_debt(o)
           IN  /\ Sane(n, t) /\ n.valued = o.valued
               /\ n.borrowed_sf = o.borrowed_sf /\ n.deposited = o.deposited
               /\ n.since = o.since /\ n.at_expiration = o.at_expiration
               /\ n.term_settled = o.term_settled /\ n.group = o.group
               /\ HasDebt(o) => n.orders = o.orders
               /\ ~HasDebt(o) => \A i \in OrderSlot : n.orders[i] = NoOrder
<1> DEFINE m == [o EXCEPT !.orders = [i \in OrderSlot |-> NoOrder]]
<1>1. o \in Obligations
  BY DEF Sane
<1>2. /\ m.borrowed_sf = o.borrowed_sf /\ m.deposited = o.deposited
      /\ m.since = o.since /\ m.at_expiration = o.at_expiration
      /\ m.term_settled = o.term_settled /\ m.group = o.group
      /\ m.margin_call = o.margin_call /\ m.target = o.target /\ m.valued = o.valued
      /\ \A i \in OrderSlot : m.orders[i] = NoOrder
      /\ m \in Obligations
  BY <1>1, NoOrderType DEF Obligations
<1> HIDE DEF m
<1>3. ASSUME NEW s \in Debts PROVE Captured(m, s, t)
  BY <1>2, CapturedSame DEF Sane, SameLoans, Fresh
<1>4. Sane(m, t)
  BY <1>2, <1>3, NoOrderType DEF Sane, Fresh
<1>5. CASE HasDebt(o)
  BY <1>5 DEF clear_obligation_orders_if_no_debt
<1>6. CASE ~HasDebt(o)
  <2>1. clear_obligation_orders_if_no_debt(o) = m
    BY <1>6 DEF clear_obligation_orders_if_no_debt, m
  <2> QED
    BY <1>2, <1>4, <1>6, <2>1
<1> QED
  BY <1>5, <1>6

LEMMA RepaidSane ==
    ASSUME NEW o, NEW t, Sane(o, t), NEW r \in Debts, NEW a \in Nat, a <= o.borrowed_sf[r]
    PROVE  LET n == repaid(o, r, a)
           IN  /\ Sane(n, t) /\ ~Fresh(n)
               /\ n.borrowed_sf = [o.borrowed_sf EXCEPT ![r] = @ - a]
               /\ n.deposited = o.deposited /\ n.group = o.group
               /\ a # o.borrowed_sf[r] =>
                     /\ n.since = o.since /\ n.at_expiration = o.at_expiration
                     /\ n.term_settled = o.term_settled
               /\ HasDebt(n) => n.orders = o.orders
               /\ ~HasDebt(n) => \A i \in OrderSlot : n.orders[i] = NoOrder
<1> DEFINE s == settled(o, r, a)
           u == stale(s)
<1>1. /\ Sane(s, t)
      /\ s.borrowed_sf = [o.borrowed_sf EXCEPT ![r] = @ - a]
      /\ s.deposited = o.deposited /\ s.group = o.group /\ s.orders = o.orders
      /\ a # o.borrowed_sf[r] =>
             /\ s.since = o.since /\ s.at_expiration = o.at_expiration
             /\ s.term_settled = o.term_settled
  BY SettledSane
<1> HIDE DEF s
<1>2. /\ Sane(u, t) /\ ~Fresh(u)
      /\ u.deposited = s.deposited /\ u.borrowed_sf = s.borrowed_sf
      /\ u.since = s.since /\ u.at_expiration = s.at_expiration
      /\ u.term_settled = s.term_settled /\ u.group = s.group /\ u.orders = s.orders
  BY <1>1, StaleSane
<1>3. repaid(o, r, a) = clear_obligation_orders_if_no_debt(u)
  BY DEF repaid, u, s
<1> HIDE DEF u
<1> DEFINE n == clear_obligation_orders_if_no_debt(u)
<1>4. /\ Sane(n, t) /\ n.valued = u.valued
      /\ n.borrowed_sf = u.borrowed_sf /\ n.deposited = u.deposited
      /\ n.since = u.since /\ n.at_expiration = u.at_expiration
      /\ n.term_settled = u.term_settled /\ n.group = u.group
      /\ HasDebt(u) => n.orders = u.orders
      /\ ~HasDebt(u) => \A i \in OrderSlot : n.orders[i] = NoOrder
  BY <1>2, ClearedSane
<1> HIDE DEF n
<1>5. HasDebt(n) = HasDebt(u) /\ Fresh(n) = Fresh(u)
  BY <1>4 DEF HasDebt, Borrows, Fresh
<1>6. repaid(o, r, a) = n
  BY <1>3 DEF n
<1>7. /\ Sane(n, t) /\ ~Fresh(n)
      /\ n.borrowed_sf = [o.borrowed_sf EXCEPT ![r] = @ - a]
      /\ n.deposited = o.deposited /\ n.group = o.group
      /\ a # o.borrowed_sf[r] =>
             /\ n.since = o.since /\ n.at_expiration = o.at_expiration
             /\ n.term_settled = o.term_settled
      /\ HasDebt(n) => n.orders = o.orders
      /\ ~HasDebt(n) => \A i \in OrderSlot : n.orders[i] = NoOrder
  BY <1>1, <1>2, <1>4, <1>5
<1> QED
  BY <1>6, <1>7

LEMMA ClosedSane ==
    ASSUME NEW o, NEW t \in Nat, Sane(o, t)
    PROVE  /\ Sane(closed_if_empty(o), t)
           /\ closed_if_empty(o) \in {o, NewObligation}
           /\ closed_if_empty(o) # o => ~HasDebt(o) /\ closed_if_empty(o) = NewObligation
  BY NewSane DEF closed_if_empty, HasDebt

\* The obligation with b more of debt r.
Owing(o, r, b, t) == stale([o EXCEPT !.borrowed_sf[r] = @ + b, !.since[r] = t])

LEMMA BorrowedSane ==
    ASSUME NEW o, NEW t \in 1..MaxDay, Sane(o, t), NEW r \in Debts, NEW b \in Positive,
           ~EndedBy(o, r, t)
    PROVE  LET n == Owing(o, r, b, t)
           IN  /\ Sane(n, t) /\ ~Fresh(n)
               /\ n.borrowed_sf = [o.borrowed_sf EXCEPT ![r] = @ + b]
               /\ n.deposited = o.deposited /\ n.group = o.group /\ n.orders = o.orders
<1> DEFINE m == Owing(o, r, b, t)
<1>1. o \in Obligations /\ r \in ReserveId /\ o.borrowed_sf[r] \in Nat
  BY Sets DEF Sane, Obligations
<1>2. /\ m.borrowed_sf = [o.borrowed_sf EXCEPT ![r] = @ + b]
      /\ m.since = [o.since EXCEPT ![r] = t] /\ m.at_expiration = o.at_expiration
      /\ m.term_settled = o.term_settled /\ m.deposited = o.deposited
      /\ m.group = o.group /\ m.margin_call = o.margin_call /\ m.target = o.target
      /\ m.orders = o.orders /\ m.valued = Stale
      /\ m \in Obligations
  <2> DEFINE b2 == [o.borrowed_sf EXCEPT ![r] = @ + b]
             s2 == [o.since EXCEPT ![r] = t]
  <2>1. /\ b2 \in [ReserveId -> Nat] /\ s2 \in [ReserveId -> 0..MaxDay]
        /\ Stale \in [ReserveId -> Nat]
    BY <1>1, BoundTypes DEF Obligations, Positive, Stale
  <2>2. m = [o EXCEPT !.borrowed_sf = b2, !.since = s2, !.valued = Stale]
    BY <1>1 DEF Obligations, stale, Owing
  <2> HIDE DEF b2, s2, m
  <2>3. /\ m.borrowed_sf = b2 /\ m.since = s2 /\ m.at_expiration = o.at_expiration
        /\ m.term_settled = o.term_settled /\ m.deposited = o.deposited
        /\ m.group = o.group /\ m.margin_call = o.margin_call /\ m.target = o.target
        /\ m.orders = o.orders /\ m.valued = Stale
    BY <1>1, <2>2 DEF Obligations
  <2>4. m \in Obligations
    BY <1>1, <2>1, <2>2 DEF Obligations
  <2> QED
    BY <2>3, <2>4 DEF b2, s2
<1> HIDE DEF m
<1>3. ~Fresh(m)
  BY <1>2 DEF Fresh
<1>4. ASSUME NEW s \in Debts PROVE Captured(m, s, t)
  <2>1. s \in ReserveId /\ Captured(o, s, t)
    BY Sets DEF Sane
  <2>2. CASE s = r
    <3>1. m.borrowed_sf[s] = o.borrowed_sf[s] + b /\ m.since[s] = t
      BY <1>1, <1>2, <2>2 DEF Obligations
    <3>2. m.borrowed_sf[s] # 0 /\ m.since[s] # 0
      BY <1>1, <3>1, <2>2 DEF Positive
    <3>3. m.at_expiration[s] = 0 /\ m.term_settled[s] = 0
      BY <1>2, <2>1, <2>2 DEF Captured
    <3> QED
      BY <1>3, <3>2, <3>3 DEF Captured
  <2>3. CASE s # r
    <3>1. SameLoans(o, m, s)
      BY <1>1, <1>2, <2>1, <2>3 DEF Obligations, SameLoans
    <3> QED
      BY <3>1, <2>1, <1>3, CapturedSame
  <2> QED
    BY <2>2, <2>3
<1>5. Sane(m, t)
  BY <1>2, <1>3, <1>4 DEF Sane
<1> QED
  BY <1>2, <1>3, <1>5 DEF m

\* One order replaced.
LEMMA OrderSane ==
    ASSUME NEW o, NEW t, Sane(o, t), NEW i \in OrderSlot,
           NEW x \in Order, ValidBonus(x), ValidSize(x)
    PROVE  LET n == [o EXCEPT !.orders[i] = x]
           IN  /\ Sane(n, t) /\ n.orders = [o.orders EXCEPT ![i] = x]
               /\ n.borrowed_sf = o.borrowed_sf /\ n.deposited = o.deposited
               /\ n.group = o.group /\ n.valued = o.valued
<1> DEFINE m == [o EXCEPT !.orders[i] = x]
<1>1. o \in Obligations /\ \A j \in OrderSlot : o.orders[j] \in Order
  BY DEF Sane, Obligations
<1>2. /\ m.borrowed_sf = o.borrowed_sf /\ m.deposited = o.deposited
      /\ m.since = o.since /\ m.at_expiration = o.at_expiration
      /\ m.term_settled = o.term_settled /\ m.group = o.group
      /\ m.margin_call = o.margin_call /\ m.target = o.target /\ m.valued = o.valued
      /\ m.orders = [o.orders EXCEPT ![i] = x]
      /\ m \in Obligations
  BY <1>1 DEF Obligations
<1> HIDE DEF m
<1>3. ASSUME NEW s \in Debts PROVE Captured(m, s, t)
  BY <1>2, CapturedSame DEF Sane, SameLoans, Fresh
<1>4. ASSUME NEW j \in OrderSlot PROVE ValidBonus(m.orders[j]) /\ ValidSize(m.orders[j])
  <2>1. m.orders[j] = IF j = i THEN x ELSE o.orders[j]
    BY <1>1, <1>2 DEF Obligations
  <2> QED
    BY <2>1 DEF Sane
<1>5. Sane(m, t)
  BY <1>2, <1>3, <1>4 DEF Sane, Fresh
<1> QED
  BY <1>2, <1>5 DEF m

\* A change of the group or of the margin call.
LEMMA GroupSane ==
    ASSUME NEW o, NEW t, Sane(o, t), NEW g \in Group \cup {ELEVATION_GROUP_NONE}
    PROVE  LET n == [o EXCEPT !.group = g]
           IN  /\ Sane(n, t) /\ n.group = g
               /\ n.borrowed_sf = o.borrowed_sf /\ n.deposited = o.deposited
               /\ n.orders = o.orders /\ n.valued = o.valued
<1> DEFINE n == [o EXCEPT !.group = g]
<1>1. o \in Obligations
  BY DEF Sane
<1>2. /\ n.borrowed_sf = o.borrowed_sf /\ n.deposited = o.deposited
      /\ n.since = o.since /\ n.at_expiration = o.at_expiration
      /\ n.term_settled = o.term_settled /\ n.group = g
      /\ n.valued = o.valued /\ n.orders = o.orders /\ n \in Obligations
  BY <1>1 DEF Obligations
<1> HIDE DEF n
<1>3. ASSUME NEW s \in Debts PROVE Captured(n, s, t)
  BY <1>2, CapturedSame DEF Sane, SameLoans, Fresh
<1>4. Sane(n, t)
  BY <1>2, <1>3 DEF Sane, Fresh
<1> QED
  BY <1>2, <1>4 DEF n

LEMMA MarginSane ==
    ASSUME NEW o, NEW t, Sane(o, t), NEW c \in 0..MaxDay, NEW y \in Nat
    PROVE  LET n == [o EXCEPT !.margin_call = c, !.target = y]
           IN  /\ Sane(n, t) /\ n.group = o.group
               /\ n.borrowed_sf = o.borrowed_sf /\ n.deposited = o.deposited
               /\ n.orders = o.orders /\ n.valued = o.valued
<1> DEFINE n == [o EXCEPT !.margin_call = c, !.target = y]
<1>1. o \in Obligations
  BY DEF Sane
<1>2. /\ n.borrowed_sf = o.borrowed_sf /\ n.deposited = o.deposited
      /\ n.since = o.since /\ n.at_expiration = o.at_expiration
      /\ n.term_settled = o.term_settled /\ n.group = o.group
      /\ n.valued = o.valued /\ n.orders = o.orders /\ n \in Obligations
  BY <1>1 DEF Obligations
<1> HIDE DEF n
<1>3. ASSUME NEW s \in Debts PROVE Captured(n, s, t)
  BY <1>2, CapturedSame DEF Sane, SameLoans, Fresh
<1>4. Sane(n, t)
  BY <1>2, <1>3 DEF Sane, Fresh
<1> QED
  BY <1>2, <1>4 DEF n

\* A day later the share for the days gone by has not become smaller.
LEMMA NextDaySane ==
    ASSUME NEW o, NEW t \in Nat, Sane(o, t)
    PROVE  Sane(stale(o), t + 1)
<1> DEFINE n == stale(o)
<1>1. /\ Sane(n, t) /\ ~Fresh(n)
  BY StaleSane
<1> HIDE DEF n
<1>2. ASSUME NEW r \in Debts PROVE Captured(n, r, t + 1)
  <2>1. Captured(n, r, t) /\ r \in ReserveId
    BY <1>1, Sets DEF Sane
  <2>2. /\ n.since[r] \in Nat /\ n.at_expiration[r] \in Nat /\ n.term_settled[r] \in Nat
        /\ config[r].term \in Nat /\ market.full_liquidation_days \in Nat
    BY <1>1, <2>1, BoundTypes, SaneFields, ConfigType, MarketType
  <2>3. EndedBy(n, r, t) => EndedBy(n, r, t + 1)
    BY <2>2 DEF EndedBy
  <2>4. ThrottledBy(n, r, t) => ThrottledBy(n, r, t + 1)
    <3> DEFINE full == market.full_liquidation_days
               x == Lesser(full, t - (n.since[r] + config[r].term))
               y == Lesser(full, (t + 1) - (n.since[r] + config[r].term))
               cap == n.at_expiration[r] * SF
    <3>1. x \in Int /\ y \in Int /\ x <= y /\ full \in Nat
      BY <2>2 DEF Lesser
    <3>2. cap \in Nat
      BY <2>2, ScaleType
    <3>3. /\ ThrottledBy(n, r, t) <=> n.term_settled[r] * full < cap * x + full
          /\ ThrottledBy(n, r, t + 1) <=> n.term_settled[r] * full < cap * y + full
      BY DEF ThrottledBy
    <3> HIDE DEF x, y, cap, full
    <3> DEFINE u == n.term_settled[r] * full
               v == cap * x
               w == cap * y
    <3>4. v <= w /\ v \in Int /\ w \in Int
      BY <3>1, <3>2
    <3>5. u \in Nat
      BY <3>1, <2>2
    <3>6. (ThrottledBy(n, r, t) <=> u < v + full) /\ (ThrottledBy(n, r, t + 1) <=> u < w + full)
      BY <3>3
    <3> HIDE DEF u, v, w
    <3> QED
      BY <3>1, <3>4, <3>5, <3>6
  <2> QED
    BY <1>1, <2>1, <2>3, <2>4 DEF Captured
<1> QED
  BY <1>1, <1>2 DEF Sane, n

-----------------------------------------------------------------------------
(* Least and greatest elements                                             *)

LEMMA MinOfNats ==
    ASSUME NEW S \in SUBSET Nat, S # {}
    PROVE  Min(S) \in S /\ \A y \in S : Min(S) <= y
<1> DEFINE R == OpToRel(<, Nat)
<1>1. IsWellFoundedOn(R, Nat)
  BY NatLessThanWellFounded
<1>2. \A x, y \in Nat : <<y, x>> \in R <=> y < x
  BY DEF OpToRel
<1> HIDE DEF R
<1>3. PICK x \in S : \A y \in S : ~(<<y, x>> \in R)
  BY <1>1, WFMin
<1>4. \A y \in S : x <= y
  <2> TAKE y \in S
  <2>1. x \in Nat /\ y \in Nat
    OBVIOUS
  <2>2. ~(y < x)
    BY <1>2, <1>3, <2>1
  <2> QED
    BY <2>1, <2>2
<1> QED
  BY <1>4 DEF Min

LEMMA MaxOfNats ==
    ASSUME NEW b \in Nat, NEW S \in SUBSET (0..b), S # {}
    PROVE  Max(S) \in S /\ \A y \in S : y <= Max(S)
<1> DEFINE T == {b - x : x \in S}
<1>1. T \in SUBSET Nat /\ T # {}
  <2>1. ASSUME NEW x \in S PROVE b - x \in Nat
    OBVIOUS
  <2>2. PICK x \in S : TRUE
    OBVIOUS
  <2>3. b - x \in T
    OBVIOUS
  <2> QED
    BY <2>1, <2>3
<1>2. Min(T) \in T /\ \A y \in T : Min(T) <= y
  BY <1>1, MinOfNats
<1>3. PICK x \in S : Min(T) = b - x
  BY <1>2
<1>4. \A y \in S : x >= y
  <2> TAKE y \in S
  <2>1. b - y \in T
    OBVIOUS
  <2>2. b - x <= b - y
    BY <1>2, <1>3, <2>1
  <2> QED
    BY <2>2
<1>5. \A y \in S : Max(S) >= y
  BY <1>4 DEF Max
<1>6. Max(S) \in S
  BY <1>4 DEF Max
<1> QED
  BY <1>5, <1>6

\* The values of finitely many elements are bounded, by their sum.
LEMMA BoundedValues ==
    ASSUME NEW D, IsFiniteSet(D), NEW f, NatOn(f, D)
    PROVE  SumFunctionOnSet(f, D) \in Nat /\ \A x \in D : f[x] \in 0..SumFunctionOnSet(f, D)
<1>1. SumFunctionOnSet(f, D) \in Nat
  BY SumType
<1>2. ASSUME NEW x \in D PROVE f[x] \in Nat /\ f[x] <= SumFunctionOnSet(f, D)
  BY SumAtLeast DEF NatOn
<1> QED
  BY <1>1, <1>2

-----------------------------------------------------------------------------
(* Values                                                                  *)

\* What each reserve contributes, over all reserves instead of the entries.
Backing(o, p) == [r \in Collaterals |-> collateral_mv(o, p, r)]
Allowance(o, p) == [r \in Collaterals |-> Mul(collateral_mv(o, p, r), Pct(ltv_pct(o, r)))]
Threshold(o, p) == [r \in Collaterals |-> Mul(collateral_mv(o, p, r), Pct(threshold_pct(o, r)))]
Owed(o, p) == [r \in Debts |-> debt_mv(o, p, r)]
Weighed(o, p) == [r \in Debts |-> Mul(debt_mv(o, p, r), borrow_factor_f(o, r))]

CanValue(o, p) == o \in Obligations /\ p \in [ReserveId -> Positive]

LEMMA SettingTypes ==
    ASSUME NEW o \in Obligations, NEW r \in ReserveId
    PROVE  /\ threshold_pct(o, r) \in 0..100 /\ ltv_pct(o, r) \in 0..100
           /\ Pct(threshold_pct(o, r)) \in Nat /\ Pct(ltv_pct(o, r)) \in Nat
           /\ borrow_factor_f(o, r) \in Nat /\ borrow_factor_f(o, r) >= SF
<1>1. o.group \in Group \cup {ELEVATION_GROUP_NONE}
  BY DEF Obligations
<1>2. threshold_pct(o, r) \in 0..100 /\ ltv_pct(o, r) \in 0..100
  <2>1. CASE InGroup(o)
    <3>1. o.group \in Group
      BY <1>1, <2>1 DEF InGroup
    <3> QED
      BY <2>1, <3>1, GroupType
         DEF threshold_pct, ltv_pct, get_max_ltv_and_liquidation_threshold
  <2>2. CASE ~InGroup(o)
    BY <2>2, ConfigType DEF threshold_pct, ltv_pct, get_max_ltv_and_liquidation_threshold
  <2> QED
    BY <2>1, <2>2
<1>3. borrow_factor_f(o, r) \in Nat /\ borrow_factor_f(o, r) >= SF
  <2> DEFINE b == config[r].borrow_factor
             x == Pct(b)
  <2>1. b \in Nat /\ b >= 100
    BY ConfigType
  <2> HIDE DEF b
  <2>2. b * SF \in Nat /\ b * SF >= 100 * SF
    BY <2>1, ScaleType
  <2>3. x \in Nat /\ b * SF < 100 * x + 100
    BY <2>2, DivBounds DEF Pct
  <2> HIDE DEF x
  <2>4. x >= SF
    BY <2>2, <2>3, ScaleType
  <2> QED
    BY <2>3, <2>4, ScaleType DEF borrow_factor_f, ONE, x, b
<1>4. threshold_pct(o, r) \in Nat /\ ltv_pct(o, r) \in Nat
  BY <1>2
<1> QED
  BY <1>2, <1>3, <1>4, PctType

LEMMA EntryTypes ==
    ASSUME NEW o, NEW p, CanValue(o, p), NEW r \in ReserveId
    PROVE  /\ collateral_mv(o, p, r) \in Nat /\ debt_mv(o, p, r) \in Nat
           /\ o.deposited[r] \in Nat /\ o.borrowed_sf[r] \in Nat /\ p[r] \in Positive
           /\ collateral_mv(o, p, r) = 0 <=> o.deposited[r] = 0
           /\ debt_mv(o, p, r) = 0 <=> o.borrowed_sf[r] = 0
<1>1. o.deposited[r] \in Nat /\ o.borrowed_sf[r] \in Nat /\ p[r] \in Nat /\ p[r] # 0
  BY BoundTypes DEF CanValue, Obligations, Positive
<1> DEFINE d == o.deposited[r]
           b == o.borrowed_sf[r]
           x == p[r]
<1>2. d \in Nat /\ b \in Nat /\ x \in Nat /\ x # 0
  BY <1>1
<1>3. collateral_mv(o, p, r) = d * SF * x /\ debt_mv(o, p, r) = b * x
  BY DEF collateral_mv, debt_mv
<1> HIDE DEF d, b, x
<1>4. d * SF \in Nat /\ (d * SF = 0 <=> d = 0)
  BY <1>2, ScaleType
<1>5. d * SF * x \in Nat /\ (d * SF * x = 0 <=> d * SF = 0)
  BY <1>2, <1>4
<1>6. b * x \in Nat /\ (b * x = 0 <=> b = 0)
  BY <1>2
<1> QED
  BY <1>2, <1>3, <1>4, <1>5, <1>6 DEF d, b, x, Positive

LEMMA PartTypes ==
    ASSUME NEW o, NEW p, CanValue(o, p)
    PROVE  /\ NatOn(Backing(o, p), Collaterals) /\ NatOn(Allowance(o, p), Collaterals)
           /\ NatOn(Threshold(o, p), Collaterals)
           /\ NatOn(Owed(o, p), Debts) /\ NatOn(Weighed(o, p), Debts)
<1>1. o \in Obligations
  BY DEF CanValue
<1>2. ASSUME NEW r \in Collaterals
      PROVE  /\ collateral_mv(o, p, r) \in Nat
             /\ Mul(collateral_mv(o, p, r), Pct(ltv_pct(o, r))) \in Nat
             /\ Mul(collateral_mv(o, p, r), Pct(threshold_pct(o, r))) \in Nat
  BY <1>1, Sets, EntryTypes, SettingTypes, MulType
<1>3. ASSUME NEW r \in Debts
      PROVE  debt_mv(o, p, r) \in Nat /\ Mul(debt_mv(o, p, r), borrow_factor_f(o, r)) \in Nat
  BY <1>1, Sets, EntryTypes, SettingTypes, MulType
<1> QED
  BY <1>2, <1>3 DEF NatOn, Backing, Allowance, Threshold, Owed, Weighed

LEMMA MulZero == ASSUME NEW x \in Nat PROVE Mul(0, x) = 0
<1>1. 0 * x = 0
  OBVIOUS
<1>2. 0 \div SF = 0
  BY ScaleType
<1> QED
  BY <1>1, <1>2 DEF Mul

LEMMA ValueSums ==
    ASSUME NEW o, NEW p, CanValue(o, p)
    PROVE  LET v == Values(o, p)
           IN  /\ v.deposited = SumFunctionOnSet(Backing(o, p), Collaterals)
               /\ v.unhealthy = SumFunctionOnSet(Threshold(o, p), Collaterals)
               /\ v.allowed = Lesser(SumFunctionOnSet(Allowance(o, p), Collaterals),
                                     market.global_allowed_borrow_value)
               /\ v.borrowed = SumFunctionOnSet(Owed(o, p), Debts)
               /\ v.debt = SumFunctionOnSet(Weighed(o, p), Debts)
               /\ refreshed_deposits(o, p).allowed = SumFunctionOnSet(Allowance(o, p), Collaterals)
               /\ refreshed_borrows(o, p).debt = v.debt
<1> DEFINE D == Deposits(o)
           B == Borrows(o)
           mv == [r \in D |-> collateral_mv(o, p, r)]
           al == [r \in D |-> Mul(collateral_mv(o, p, r), Pct(ltv_pct(o, r)))]
           un == [r \in D |-> Mul(collateral_mv(o, p, r), Pct(threshold_pct(o, r)))]
           bv == [r \in B |-> debt_mv(o, p, r)]
           wt == [r \in B |-> Mul(debt_mv(o, p, r), borrow_factor_f(o, r))]
<1>1. D \in SUBSET Collaterals /\ B \in SUBSET Debts
  BY DEF Deposits, Borrows
<1>2. o \in Obligations
  BY DEF CanValue
<1>3. ASSUME NEW r \in Collaterals \ D
      PROVE  /\ Backing(o, p)[r] = 0 /\ Allowance(o, p)[r] = 0 /\ Threshold(o, p)[r] = 0
  <2>1. r \in ReserveId /\ o.deposited[r] = 0
    BY Sets DEF Deposits
  <2>2. collateral_mv(o, p, r) = 0
    BY <2>1, EntryTypes
  <2> QED
    BY <1>2, <2>1, <2>2, SettingTypes, MulZero DEF Backing, Allowance, Threshold
<1>4. ASSUME NEW r \in Debts \ B PROVE Owed(o, p)[r] = 0 /\ Weighed(o, p)[r] = 0
  <2>1. r \in ReserveId /\ o.borrowed_sf[r] = 0
    BY Sets DEF Borrows
  <2>2. debt_mv(o, p, r) = 0
    BY <2>1, EntryTypes
  <2> QED
    BY <1>2, <2>1, <2>2, SettingTypes, MulZero DEF Owed, Weighed
<1>5. \A r \in D : Backing(o, p)[r] = mv[r] /\ Allowance(o, p)[r] = al[r] /\ Threshold(o, p)[r] = un[r]
  BY <1>1 DEF Backing, Allowance, Threshold
<1>6. \A r \in B : Owed(o, p)[r] = bv[r] /\ Weighed(o, p)[r] = wt[r]
  BY <1>1 DEF Owed, Weighed
<1>7. Values(o, p).deposited = SumFunctionOnSet(mv, D) /\ Values(o, p).unhealthy = SumFunctionOnSet(un, D)
      /\ Values(o, p).allowed = Lesser(SumFunctionOnSet(al, D), market.global_allowed_borrow_value)
      /\ Values(o, p).borrowed = SumFunctionOnSet(bv, B) /\ Values(o, p).debt = SumFunctionOnSet(wt, B)
      /\ refreshed_deposits(o, p).allowed = SumFunctionOnSet(al, D)
      /\ refreshed_borrows(o, p).debt = Values(o, p).debt
  BY DEF Values, refreshed_deposits, refreshed_borrows
<1> HIDE DEF mv, al, un, bv, wt, D, B
<1>8. /\ NatOn(mv, D) /\ NatOn(al, D) /\ NatOn(un, D) /\ NatOn(bv, B) /\ NatOn(wt, B)
  BY <1>1, <1>5, <1>6, PartTypes DEF NatOn
<1>9. SumFunctionOnSet(mv, D) = SumFunctionOnSet(Backing(o, p), Collaterals)
  BY <1>1, <1>3, <1>5, <1>8, Sets, SumFilter
<1>10. SumFunctionOnSet(al, D) = SumFunctionOnSet(Allowance(o, p), Collaterals)
  BY <1>1, <1>3, <1>5, <1>8, Sets, SumFilter
<1>11. SumFunctionOnSet(un, D) = SumFunctionOnSet(Threshold(o, p), Collaterals)
  BY <1>1, <1>3, <1>5, <1>8, Sets, SumFilter
<1>12. SumFunctionOnSet(bv, B) = SumFunctionOnSet(Owed(o, p), Debts)
  BY <1>1, <1>4, <1>6, <1>8, Sets, SumFilter
<1>13. SumFunctionOnSet(wt, B) = SumFunctionOnSet(Weighed(o, p), Debts)
  BY <1>1, <1>4, <1>6, <1>8, Sets, SumFilter
<1> QED
  BY <1>7, <1>9, <1>10, <1>11, <1>12, <1>13

LEMMA ValueTypes ==
    ASSUME NEW o, NEW p, CanValue(o, p)
    PROVE  LET v == Values(o, p)
           IN  /\ v.deposited \in Nat /\ v.unhealthy \in Nat /\ v.allowed \in Nat
               /\ v.borrowed \in Nat /\ v.debt \in Nat
<1>1. /\ SumFunctionOnSet(Backing(o, p), Collaterals) \in Nat
      /\ SumFunctionOnSet(Threshold(o, p), Collaterals) \in Nat
      /\ SumFunctionOnSet(Allowance(o, p), Collaterals) \in Nat
      /\ SumFunctionOnSet(Owed(o, p), Debts) \in Nat
      /\ SumFunctionOnSet(Weighed(o, p), Debts) \in Nat
  BY PartTypes, Sets, SumType
<1>2. Lesser(SumFunctionOnSet(Allowance(o, p), Collaterals),
             market.global_allowed_borrow_value) \in Nat
  BY <1>1, MarketType DEF Lesser
<1> QED
  BY <1>1, <1>2, ValueSums

-----------------------------------------------------------------------------
(* Grounds for a liquidation                                               *)

GoodValues(v) ==
    /\ v.deposited \in Positive /\ v.unhealthy \in Nat /\ v.allowed \in Nat
    /\ v.borrowed \in Nat /\ v.debt \in Nat

\* A bonus is never negative and, before the debt is close to the collateral's
\* value, leaves collateral for the whole debt.
GoodBonus(v, b) == b \in Nat /\ (no_bf_loan_to_value(v) < Pct(99) => b <= to_bad_debt(v))

GoodGround(o, v, r, g) ==
    /\ GoodBonus(v, g.bonus)
    /\ g.reason = "Order" => g.slot \in OrderSlot
    /\ g.reason = "Term" => TermEnded(o, r)

LEMMA LtvTypes ==
    ASSUME NEW v, GoodValues(v)
    PROVE  /\ loan_to_value(v) \in Nat /\ no_bf_loan_to_value(v) \in Nat
           /\ unhealthy_loan_to_value(v) \in Nat /\ to_bad_debt(v) \in Nat
           /\ SF - no_bf_loan_to_value(v) <= to_bad_debt(v)
           /\ to_bad_debt(v) # 0 => to_bad_debt(v) = SF - no_bf_loan_to_value(v)
<1>1. loan_to_value(v) \in Nat /\ no_bf_loan_to_value(v) \in Nat /\ unhealthy_loan_to_value(v) \in Nat
  BY DivType DEF GoodValues, Positive, loan_to_value, no_bf_loan_to_value, unhealthy_loan_to_value
<1> QED
  BY <1>1, ScaleType DEF to_bad_debt, ONE, saturating_sub

LEMMA EmodeType ==
    ASSUME NEW o, NEW r \in ReserveId, NEW q \in ReserveId
    PROVE  emode_max_bonus(o, r, q) \in Nat
  BY DEF emode_max_bonus, MAX

LEMMA SelectedType ==
    ASSUME NEW r \in ReserveId, NEW q \in ReserveId
    PROVE  selected_reserve_config(r, q) \in {config[r], config[q]}
  BY DEF selected_reserve_config

LEMMA LiquidationBonus ==
    ASSUME NEW o, NEW v, GoodValues(v), NEW r \in ReserveId, NEW q \in ReserveId
    PROVE  GoodBonus(v, calculate_liquidation_bonus(o, v, r, q))
<1> DEFINE bad_debt == Pct(Lesser(config[q].bad_debt_bonus, config[r].bad_debt_bonus))
           excess == loan_to_value(v) - unhealthy_loan_to_value(v)
           least == Pct(Max({config[q].min_bonus, config[r].min_bonus}))
           most == Pct(Lesser(Max({config[q].max_bonus, config[r].max_bonus}),
                              emode_max_bonus(o, r, q)))
           left == to_bad_debt(v)
<1>1. bad_debt \in Nat
  <2>1. Lesser(config[q].bad_debt_bonus, config[r].bad_debt_bonus) \in Nat
    BY ConfigType DEF Lesser
  <2> QED
    BY <2>1, PctType
<1>2. least \in Nat
  <2>0. config[r].min_bonus \in Int
    BY ConfigType
  <2>1. config[q].min_bonus \in Nat
    BY ConfigType
  <2>2. Max({config[q].min_bonus, config[r].min_bonus}) \in Nat
    BY <2>1, <2>0, MaxNat, Zenon
  <2> QED
    BY <2>2, PctType
<1>3. most \in Nat
  <2>0. config[r].max_bonus \in Int
    BY ConfigType
  <2>1. config[q].max_bonus \in Nat
    BY ConfigType
  <2>2. Max({config[q].max_bonus, config[r].max_bonus}) \in Nat
    BY <2>1, <2>0, MaxNat, Zenon
  <2>3. Lesser(Max({config[q].max_bonus, config[r].max_bonus}), emode_max_bonus(o, r, q)) \in Nat
    BY <2>2, EmodeType DEF Lesser
  <2> QED
    BY <2>3, PctType
<1>4. excess \in Int /\ left \in Nat
  BY LtvTypes
<1>5. calculate_liquidation_bonus(o, v, r, q)
        = IF no_bf_loan_to_value(v) >= Pct(99) THEN Max({bad_debt, left})
          ELSE Min({Max({least, excess}), most, left})
  BY DEF calculate_liquidation_bonus
<1> HIDE DEF bad_debt, excess, least, most, left
<1>6. Max({bad_debt, left}) \in Nat
  <2>1. left \in Int
    BY <1>4
  <2> QED
    BY <1>1, <2>1, MaxNat, Zenon
<1>7. Max({least, excess}) \in Nat
  BY <1>2, <1>4, MaxNat, Zenon
<1>8. /\ Min({Max({least, excess}), most, left}) \in Nat
      /\ Min({Max({least, excess}), most, left}) <= left
  BY <1>3, <1>4, <1>7, MinNat, Zenon
<1>9. no_bf_loan_to_value(v) \in Nat /\ Pct(99) \in Nat
  BY LtvTypes, PctType
<1> QED
  BY <1>5, <1>6, <1>8, <1>9 DEF GoodBonus, left

LEMMA RateBonus ==
    ASSUME NEW v, GoodValues(v), NEW r \in ReserveId, NEW c, c = config[r],
           NEW emode \in Nat, NEW days \in Nat
    PROVE  GoodBonus(v, calculate_autodeleverage_bonus_rate(c, emode, days, v))
<1> DEFINE grown == Pct(c.min_delev_bonus + c.bonus_increase * days)
           most == Pct(Lesser(c.max_bonus, emode))
           left == to_bad_debt(v)
<1>1. grown \in Nat
  <2>1. c.min_delev_bonus \in Nat /\ c.bonus_increase \in Nat
    BY ConfigType
  <2>2. c.min_delev_bonus + c.bonus_increase * days \in Nat
    BY <2>1
  <2> QED
    BY <2>2, PctType
<1>2. most \in Nat
  <2>1. Lesser(c.max_bonus, emode) \in Nat
    BY ConfigType DEF Lesser
  <2> QED
    BY <2>1, PctType
<1>3. left \in Nat
  BY LtvTypes
<1>4. calculate_autodeleverage_bonus_rate(c, emode, days, v) = Min({grown, most, left})
  BY DEF calculate_autodeleverage_bonus_rate
<1> HIDE DEF grown, most, left
<1>5. Min({grown, most, left}) \in Nat /\ Min({grown, most, left}) <= left
  BY <1>1, <1>2, <1>3, MinNat, Zenon
<1> QED
  BY <1>4, <1>5 DEF GoodBonus, left

LEMMA StopLossType ==
    ASSUME NEW current \in Nat, NEW from \in Nat, NEW liquidation \in Nat, NEW d,
           d \in evaluate_stop_loss(current, from, liquidation)
    PROVE  d \in Nat
<1>1. ~(current <= from)
  BY DEF evaluate_stop_loss
<1>2. CASE from >= liquidation
  <2>1. d = SF
    BY <1>1, <1>2 DEF evaluate_stop_loss, ONE
  <2> QED
    BY <2>1, ScaleType
<1>3. CASE ~(from >= liquidation)
  <2>1. d = Div(current - from, liquidation - from)
    BY <1>1, <1>3 DEF evaluate_stop_loss
  <2>2. current - from \in Nat /\ liquidation - from \in Nat \ {0}
    BY <1>1, <1>3
  <2> QED
    BY <2>1, <2>2, DivType
<1> QED
  BY <1>2, <1>3

LEMMA TakeProfitType ==
    ASSUME NEW current \in Nat, NEW from \in Nat, NEW d \in evaluate_take_profit(current, from)
    PROVE  d \in Nat
<1>1. d = Div(from - current, from) /\ current < from
  BY DEF evaluate_take_profit
<1>2. from - current \in Nat /\ from \in Nat \ {0}
  BY <1>1
<1> QED
  BY <1>1, <1>2, DivType

LEMMA ConditionType ==
    ASSUME NEW order \in Order, NEW v, GoodValues(v), NEW r \in ReserveId, NEW q \in ReserveId,
           price \in [ReserveId -> Positive], NEW d \in evaluate_order_condition(order, v, r, q)
    PROVE  d \in Nat
<1> DEFINE ltv == loan_to_value(v)
           unhealthy == unhealthy_loan_to_value(v)
           ratio == Div(price[r], price[q])
           thr == order.threshold
<1>1. ltv \in Nat /\ unhealthy \in Nat
  BY LtvTypes
<1>2. ratio \in Nat
  BY DivType DEF Positive
<1>3. thr \in Nat /\ order.cond \in Condition
  BY DEF Order
<1>4. evaluate_order_condition(order, v, r, q)
       = CASE order.cond = "Never" -> {}
          [] order.cond = "Always" -> {0}
          [] order.cond = "LtvAbove" -> evaluate_stop_loss(ltv, thr, unhealthy)
          [] order.cond = "LtvBelow" -> evaluate_take_profit(ltv, thr)
          [] order.cond = "RatioAbove" ->
                 IF ltv = 0 THEN {}
                 ELSE evaluate_stop_loss(ratio, thr, Div(Mul(ratio, unhealthy), ltv))
          [] order.cond = "RatioBelow" -> evaluate_take_profit(ratio, thr)
          [] order.cond = "CloserThan" ->
                 evaluate_stop_loss(ltv, saturating_sub(unhealthy, thr), unhealthy)
  BY DEF evaluate_order_condition
<1> HIDE DEF ltv, unhealthy, ratio, thr
<1>5. CASE order.cond \in {"Never", "Always"}
  BY <1>4, <1>5
<1>6. CASE order.cond = "LtvAbove"
  <2>1. d \in evaluate_stop_loss(ltv, thr, unhealthy)
    BY <1>4, <1>6
  <2> QED
    BY <1>1, <1>3, <2>1, StopLossType
<1>7. CASE order.cond = "LtvBelow"
  <2>1. d \in evaluate_take_profit(ltv, thr)
    BY <1>4, <1>7
  <2> QED
    BY <1>1, <1>3, <2>1, TakeProfitType
<1>8. CASE order.cond = "RatioAbove"
  <2>1. ltv # 0 /\ d \in evaluate_stop_loss(ratio, thr, Div(Mul(ratio, unhealthy), ltv))
    BY <1>4, <1>8
  <2>2. Div(Mul(ratio, unhealthy), ltv) \in Nat
    BY <1>1, <1>2, <2>1, MulType, DivType
  <2> QED
    BY <1>2, <1>3, <2>1, <2>2, StopLossType
<1>9. CASE order.cond = "RatioBelow"
  <2>1. d \in evaluate_take_profit(ratio, thr)
    BY <1>4, <1>9
  <2> QED
    BY <1>2, <1>3, <2>1, TakeProfitType
<1>10. CASE order.cond = "CloserThan"
  <2>1. d \in evaluate_stop_loss(ltv, saturating_sub(unhealthy, thr), unhealthy)
    BY <1>4, <1>10
  <2>2. saturating_sub(unhealthy, thr) \in Nat
    BY <1>1, <1>3, SaturatingType
  <2> QED
    BY <1>1, <2>1, <2>2, StopLossType
<1> QED
  BY <1>3, <1>5, <1>6, <1>7, <1>8, <1>9, <1>10 DEF Condition

\* The obligation, reserves and days a liquidation is checked on.
Checked(o) ==
    /\ o \in Obligations /\ now \in Nat /\ price \in [ReserveId -> Positive]
    /\ limits \in [ReserveId -> [crossed : BOOLEAN, since : 0..MaxDay]]
    /\ \A i \in OrderSlot : ValidBonus(o.orders[i])

LEMMA LtvGround ==
    ASSUME NEW o, NEW v, GoodValues(v), NEW r \in ReserveId, NEW q \in ReserveId,
           NEW g \in check_liquidate_obligation(o, v, r, q)
    PROVE  GoodGround(o, v, r, g) /\ g.reason = "LtvExceeded"
<1>1. g.reason = "LtvExceeded" /\ g.bonus = calculate_liquidation_bonus(o, v, r, q)
  BY DEF Grounds, check_liquidate_obligation
<1> QED
  BY <1>1, LiquidationBonus DEF GoodGround

LEMMA IndividualGround ==
    ASSUME NEW o, Checked(o), NEW v, GoodValues(v), NEW r \in ReserveId, NEW q \in ReserveId,
           NEW g \in check_individual_autodeleverage_obligation(o, v, r, q)
    PROVE  GoodGround(o, v, r, g) /\ g.reason = "Individual"
<1> DEFINE since == now - o.margin_call - market.margin_call_period
           c == selected_reserve_config(r, q)
           e == emode_max_bonus(o, r, q)
<1>1. /\ g.reason = "Individual" /\ since >= 0
      /\ g.bonus = calculate_autodeleverage_bonus_rate(c, e, since, v)
  BY DEF Grounds, check_individual_autodeleverage_obligation
<1>2. since \in Nat
  <2>1. o.margin_call \in Nat
    BY BoundTypes DEF Checked, Obligations
  <2> QED
    BY <1>1, <2>1, MarketType DEF Checked
<1>3. e \in Nat /\ c \in {config[r], config[q]}
  BY EmodeType, SelectedType
<1> HIDE DEF since, c, e
<1>4. GoodBonus(v, g.bonus)
  BY <1>1, <1>2, <1>3, RateBonus
<1> QED
  BY <1>1, <1>4 DEF GoodGround

LEMMA LimitGround ==
    ASSUME NEW o, Checked(o), NEW v, GoodValues(v), NEW r \in ReserveId, NEW s,
           NEW g \in limit_grounds(v, r)
    PROVE  GoodGround(o, v, s, g) /\ g.reason = "MarketWide"
<1> DEFINE since == now - limits[r].since - config[r].margin_call_period
<1>1. /\ g.reason = "MarketWide" /\ since >= 0
      /\ g.bonus = calculate_autodeleverage_bonus_rate(config[r], MAX, since, v)
  BY DEF Grounds, limit_grounds
<1>2. since \in Nat
  <2>1. limits[r].since \in Nat
    BY BoundTypes DEF Checked
  <2> QED
    BY <1>1, <2>1, ConfigType DEF Checked
<1> HIDE DEF since
<1>3. MAX \in Nat
  BY DEF MAX
<1>4. GoodBonus(v, g.bonus)
  BY <1>1, <1>2, <1>3, RateBonus
<1> QED
  BY <1>1, <1>4 DEF GoodGround

LEMMA MaturityGround ==
    ASSUME NEW o, Checked(o), NEW v, GoodValues(v), NEW r \in ReserveId,
           NEW g \in check_reserve_debt_maturity_reached(v, r)
    PROVE  GoodGround(o, v, r, g) /\ g.reason = "Maturity"
<1> DEFINE days == now - config[r].maturity
<1>1. /\ g.reason = "Maturity" /\ now >= config[r].maturity
      /\ g.bonus = calculate_autodeleverage_bonus_rate(config[r], MAX, days, v)
  BY DEF Grounds, check_reserve_debt_maturity_reached
<1>2. days \in Nat
  BY <1>1, ConfigType DEF Checked
<1> HIDE DEF days
<1>3. MAX \in Nat
  BY DEF MAX
<1>4. GoodBonus(v, g.bonus)
  BY <1>1, <1>2, <1>3, RateBonus
<1> QED
  BY <1>1, <1>4 DEF GoodGround

LEMMA TermGround ==
    ASSUME NEW o, Checked(o), NEW v, GoodValues(v), NEW r \in ReserveId, NEW q \in ReserveId,
           NEW g \in check_borrow_reserve_debt_term_reached(o, v, r, q)
    PROVE  GoodGround(o, v, r, g) /\ g.reason = "Term"
<1> DEFINE days == days_since_term_end(o, r)
           c == selected_reserve_config(r, q)
           e == emode_max_bonus(o, r, q)
<1>1. /\ g.reason = "Term" /\ TermEnded(o, r)
      /\ g.bonus = calculate_autodeleverage_bonus_rate(c, e, days, v)
  BY DEF Grounds, check_borrow_reserve_debt_term_reached
<1>2. days \in Nat
  <2>1. o.since[r] \in Nat
    BY BoundTypes DEF Checked, Obligations
  <2> QED
    BY <1>1, <2>1, ConfigType DEF Checked, TermEnded, days_since_term_end
<1>3. e \in Nat /\ c \in {config[r], config[q]}
  BY EmodeType, SelectedType
<1> HIDE DEF days, c, e
<1>4. GoodBonus(v, g.bonus)
  BY <1>1, <1>2, <1>3, RateBonus
<1> QED
  BY <1>1, <1>4 DEF GoodGround

LEMMA OrderGround ==
    ASSUME NEW o, Checked(o), NEW v, GoodValues(v), NEW r \in ReserveId, NEW q \in ReserveId,
           NEW g \in check_obligation_order_execution(o, v, r, q)
    PROVE  GoodGround(o, v, r, g) /\ g.reason = "Order"
<1> DEFINE S == find_applicable_obligation_order(o, v, r, q)
           d(i) == CHOOSE d \in evaluate_order_condition(o.orders[i], v, r, q) : TRUE
           hit == {i \in OrderSlot :
                     /\ evaluate_order_condition(o.orders[i], v, r, q) # {}
                     /\ ~(is_price_triggered(o.orders[i])
                          /\ market.price_triggered_liquidation_disabled)}
<1>1. PICK i \in S : g \in Grounds(market.order_execution, "Order", i,
                               calculate_order_execution_bonus_rate(o.orders[i], d(i), v))
  BY DEF check_obligation_order_execution
<1>2. i \in hit
  <2>1. S = IF hit = {} THEN {} ELSE {Min(hit)}
    BY DEF find_applicable_obligation_order
  <2>2. hit \in SUBSET Nat
    BY PositionAssumption
  <2> HIDE DEF hit
  <2> QED
    BY <1>1, <2>1, <2>2, MinOfNats
<1>3. /\ g.reason = "Order" /\ g.slot = i
      /\ g.bonus = calculate_order_execution_bonus_rate(o.orders[i], d(i), v)
  BY <1>1 DEF Grounds
<1>4. /\ i \in OrderSlot /\ o.orders[i] \in Order /\ ValidBonus(o.orders[i])
      /\ d(i) \in evaluate_order_condition(o.orders[i], v, r, q)
  BY <1>2 DEF Checked, Obligations
<1>5. d(i) \in Nat
  BY <1>4, ConditionType DEF Checked
<1> DEFINE x == d(i)
           lo == o.orders[i].min_bonus
           more == o.orders[i].max_bonus - o.orders[i].min_bonus
           left == to_bad_debt(v)
<1>6. x \in Nat /\ lo \in Nat /\ more \in Nat /\ left \in Nat
  BY <1>4, <1>5, LtvTypes DEF Order, ValidBonus
<1>7. g.bonus = Lesser(lo + Mul(x, more), left)
  BY <1>3 DEF calculate_order_execution_bonus_rate
<1> HIDE DEF x, lo, more, left
<1>8. Mul(x, more) \in Nat
  BY <1>6, MulType
<1>9. g.bonus \in Nat /\ g.bonus <= left
  BY <1>6, <1>7, <1>8 DEF Lesser
<1> QED
  BY <1>3, <1>4, <1>9 DEF GoodGround, GoodBonus, left

LEMMA ParamsGood ==
    ASSUME NEW o, Checked(o), NEW v, GoodValues(v), NEW r \in ReserveId, NEW q \in ReserveId,
           NEW g \in get_liquidation_params(o, v, r, q)
    PROVE  GoodGround(o, v, r, g)
<1>1. \/ g \in check_liquidate_obligation(o, v, r, q)
      \/ g \in check_individual_autodeleverage_obligation(o, v, r, q)
      \/ g \in check_market_wide_autodeleverage_obligation(v, r, q)
      \/ g \in check_reserve_debt_maturity_reached(v, r)
      \/ g \in check_borrow_reserve_debt_term_reached(o, v, r, q)
      \/ g \in check_obligation_order_execution(o, v, r, q)
  BY DEF get_liquidation_params, FirstOf
<1>2. CASE g \in check_market_wide_autodeleverage_obligation(v, r, q)
  <2>1. g \in limit_grounds(v, q) \/ g \in limit_grounds(v, r)
    BY <1>2 DEF check_market_wide_autodeleverage_obligation
  <2> QED
    BY <2>1, LimitGround
<1> QED
  BY <1>1, <1>2, LtvGround, IndividualGround, MaturityGround, TermGround, OrderGround

-----------------------------------------------------------------------------
(* Amounts                                                                 *)

LEMMA FactorTypes ==
    /\ Pct(market.insolvency_risk_ltv) \in Nat /\ Pct(market.close_factor) \in Nat
  BY MarketType, PctType

LEMMA ThrottleType ==
    ASSUME NEW o \in Obligations, NEW r \in Debts, TermEnded(o, r), now \in Nat
    PROVE  throttle_protected_amount(o, r) \in Nat
<1> DEFINE full == market.full_liquidation_days
           days == days_since_term_end(o, r)
<1>1. full \in Nat /\ o.at_expiration[r] \in Nat /\ days \in Nat
  BY Sets, MarketType, BoundTypes, ConfigType
     DEF Obligations, TermEnded, days_since_term_end
<1>2. throttle_protected_amount(o, r)
         = IF full = 0 THEN 0
           ELSE (o.at_expiration[r] * SF * saturating_sub(full, days)) \div full
  BY DEF throttle_protected_amount
<1> HIDE DEF full, days
<1>3. saturating_sub(full, days) \in Nat
  BY <1>1, SaturatingType
<1>4. o.at_expiration[r] * SF \in Nat
  BY <1>1, ScaleType
<1>5. o.at_expiration[r] * SF * saturating_sub(full, days) \in Nat
  BY <1>3, <1>4
<1> QED
  BY <1>1, <1>2, <1>5, DivBounds

\* What a liquidation may settle of debt r for reason g: for an order, no more
\* than its size; for a term, what the days gone by leave unprotected.
LEMMA MaxLiquidatable ==
    ASSUME NEW o, NEW p, CanValue(o, p), NEW v, GoodValues(v), NEW r \in Debts, NEW g,
           o.borrowed_sf[r] # 0, g.reason = "Order" => g.slot \in OrderSlot,
           g.reason = "Term" => TermEnded(o, r), now \in Nat
    PROVE  LET most == max_liquidatable_borrowed_amount(o, v, p, r, g)
           IN  /\ most \in Nat /\ most <= o.borrowed_sf[r]
               /\ g.reason = "Order" =>
                     (o.orders[g.slot].opportunity = "Single" => most <= o.orders[g.slot].size)
               /\ g.reason = "Term" =>
                     most <= saturating_sub(o.borrowed_sf[r], throttle_protected_amount(o, r))
<1> DEFINE most == max_liquidatable_borrowed_amount(o, v, p, r, g)
           B == o.borrowed_sf[r]
<1>1. r \in ReserveId /\ B \in Nat /\ B # 0 /\ o \in Obligations
  BY Sets, EntryTypes DEF CanValue
<1>2. CASE g.reason = "Order"
  <2>1. most = order_size(o, g.slot, r)
    BY <1>2 DEF max_liquidatable_borrowed_amount
  <2>2. o.orders[g.slot] \in Order
    BY <1>1, <1>2 DEF Obligations
  <2>3. o.orders[g.slot].size \in Nat
    BY <2>2 DEF Order
  <2> QED
    BY <1>1, <1>2, <2>1, <2>3 DEF order_size, Lesser
<1>3. CASE g.reason = "Maturity"
  BY <1>1, <1>3 DEF max_liquidatable_borrowed_amount
<1>4. CASE g.reason = "Term"
  <2>1. most = saturating_sub(B, throttle_protected_amount(o, r))
    BY <1>4 DEF max_liquidatable_borrowed_amount
  <2>2. throttle_protected_amount(o, r) \in Nat
    BY <1>1, <1>4, ThrottleType
  <2>3. most \in Nat /\ most <= B
    BY <1>1, <2>1, <2>2 DEF saturating_sub
  <2> QED
    BY <1>4, <2>1, <2>3
<1>5. CASE g.reason \notin {"Order", "Maturity", "Term"}
  <2> DEFINE factor == IF loan_to_value(v) > Pct(market.insolvency_risk_ltv)
                       THEN ONE ELSE Pct(market.close_factor)
             x == debt_mv(o, p, r)
             least == Min({Mul(v.borrowed, factor), x, market.max_at_once})
  <2>1. most = Mul(B, Div(least, x))
    BY <1>5 DEF max_liquidatable_borrowed_amount
  <2>2. factor \in Nat
    BY FactorTypes, ScaleType DEF ONE
  <2>3. x \in Nat /\ x # 0
    BY <1>1, EntryTypes
  <2>4. Mul(v.borrowed, factor) \in Nat
    BY <2>2, MulType DEF GoodValues
  <2> HIDE DEF factor, x
  <2>5. least \in Nat /\ least <= x
    <3> DEFINE m == Mul(v.borrowed, factor)
               y == market.max_at_once
    <3>1. m \in Nat /\ y \in Nat
      BY <2>4, MarketType
    <3>2. m \in Int /\ x \in Int /\ y \in Int
      BY <2>3, <3>1
    <3> HIDE DEF m, y
    <3> DEFINE z == Min({m, x, y})
    <3>3. (z = m \/ z = x \/ z = y) /\ z <= x
      BY <3>2, MinThree, Zenon
    <3>4. least = z
      BY DEF m, y
    <3> HIDE DEF z, least
    <3> QED
      BY <2>3, <3>1, <3>3, <3>4
  <2> HIDE DEF least
  <2>6. Div(least, x) \in Nat /\ Div(least, x) <= SF
    BY <2>3, <2>5, PartAtMostOne
  <2>7. most \in Nat /\ most <= B
    BY <1>1, <2>1, <2>6, MulAtMost
  <2> QED
    BY <1>5, <2>7
<1> QED
  BY <1>2, <1>3, <1>4, <1>5

LEMMA LiquidationTypes ==
    ASSUME NEW o, NEW p, CanValue(o, p), NEW v, GoodValues(v), NEW r \in Debts,
           NEW q \in Collaterals, NEW n \in Nat, NEW g, GoodGround(o, v, r, g),
           o.borrowed_sf[r] # 0, o.deposited[q] # 0, now \in Nat
    PROVE  LET a == calculate_liquidation(o, v, p, r, q, n, g)
           IN  /\ a.settle \in 0..o.borrowed_sf[r] /\ a.withdraw \in 0..o.deposited[q]
               /\ a.repay = DivCeil(a.settle, SF)
               /\ g.reason = "Order" /\ o.orders[g.slot].opportunity = "Single" =>
                     a.settle <= o.orders[g.slot].size
               /\ g.reason = "Term" /\ a.settle \in 1..(o.borrowed_sf[r] - 1) =>
                     a.settle <= saturating_sub(o.borrowed_sf[r], throttle_protected_amount(o, r))
<1> DEFINE B == o.borrowed_sf[r]
           dep == o.deposited[q]
           full == below_min_full_liquidation(o, p, r, g)
           asked == Lesser(n * SF, B)
           most == max_liquidatable_borrowed_amount(o, v, p, r, g)
           amount == IF full THEN B ELSE Lesser(most, asked)
           total == Mul(Mul(debt_mv(o, p, r), Div(amount, B)), ONE + g.bonus)
           value == collateral_mv(o, p, q)
           a == calculate_liquidation(o, v, p, r, q, n, g)
           c == calculate_liquidation_amounts(o, p, q, total, amount, full)
<1>1. /\ r \in ReserveId /\ q \in ReserveId /\ B \in Nat /\ B # 0 /\ dep \in Nat /\ dep # 0
      /\ debt_mv(o, p, r) \in Nat /\ value \in Nat /\ value # 0
  BY Sets, EntryTypes
<1>2. /\ most \in Nat /\ most <= B
      /\ g.reason = "Order" => (o.orders[g.slot].opportunity = "Single" => most <= o.orders[g.slot].size)
      /\ g.reason = "Term" => most <= saturating_sub(B, throttle_protected_amount(o, r))
  BY MaxLiquidatable DEF GoodGround
<1>3. asked \in Nat /\ asked <= B
  <2>1. n * SF \in Nat
    BY ScaleType
  <2> QED
    BY <1>1, <2>1 DEF Lesser
<1> HIDE DEF asked, most
<1>4. amount \in Nat /\ amount <= B /\ (~full => amount <= most) /\ (full => amount = B)
  BY <1>1, <1>2, <1>3 DEF Lesser
<1>5. total \in Nat
  <2>1. Div(amount, B) \in Nat
    BY <1>1, <1>4, DivType
  <2>2. Mul(debt_mv(o, p, r), Div(amount, B)) \in Nat
    BY <1>1, <2>1, MulType
  <2>3. ONE + g.bonus \in Nat
    BY ScaleType DEF GoodGround, GoodBonus, ONE
  <2> QED
    BY <2>2, <2>3, MulType
<1>6. a = IF full /\ asked < B THEN [settle |-> 0, repay |-> 0, withdraw |-> 0] ELSE c
  BY DEF calculate_liquidation, asked, most
<1>7. full => g.reason # "Order"
  BY DEF below_min_full_liquidation
<1> HIDE DEF a, full, amount, total
<1>8. /\ c.settle \in Nat /\ c.settle <= amount /\ (full => c.settle = amount)
      /\ c.withdraw \in 0..dep /\ c.repay = DivCeil(c.settle, SF)
  <2> DEFINE portion == Mul(amount, Div(value, total))
             taken_f == Mul(dep * SF, Div(total, value))
             result(settle, withdraw) ==
                 [settle |-> settle, repay |-> DivCeil(settle, SF), withdraw |-> withdraw]
  <2>1. c = IF total > value THEN result(IF full THEN amount ELSE portion, dep)
            ELSE IF total = value THEN result(amount, dep)
            ELSE result(amount, IF full /\ taken_f < DUST_LAMPORT_THRESHOLD * SF
                                THEN DUST_LAMPORT_THRESHOLD ELSE taken_f \div SF)
    BY DEF calculate_liquidation_amounts
  <2> HIDE DEF c, portion, taken_f, value, dep
  <2>2. CASE total > value
    <3>1. portion \in Nat /\ portion <= amount
      <4>1. total \in Nat \ {0} /\ value <= total
        BY <1>1, <1>5, <2>2
      <4>2. Div(value, total) \in Nat /\ Div(value, total) <= SF
        BY <1>1, <4>1, PartAtMostOne
      <4> QED
        BY <1>4, <4>2, MulAtMost DEF portion
    <3> QED
      BY <1>1, <1>4, <2>1, <2>2, <3>1
  <2>3. CASE total = value
    BY <1>1, <1>4, <1>5, <2>1, <2>3
  <2>4. CASE total < value
    <3> DEFINE w == taken_f \div SF
    <3>1. w \in Nat /\ w <= dep
      <4>1. dep * SF \in Nat
        BY <1>1, ScaleType
      <4>2. Div(total, value) \in Nat /\ Div(total, value) <= SF
        BY <1>1, <1>5, <2>4, PartAtMostOne
      <4>3. taken_f \in Nat /\ taken_f <= dep * SF
        BY <4>1, <4>2, MulAtMost DEF taken_f
      <4>4. w \in Nat /\ SF * w <= taken_f
        BY <4>3, ScaleType, DivBounds
      <4> HIDE DEF w
      <4>5. SF * w <= SF * dep
        BY <1>1, <4>1, <4>3, <4>4, ScaleType
      <4>6. w <= dep
        BY <1>1, <4>4, <4>5, ScaleType
      <4> QED
        BY <4>4, <4>6
    <3>2. c = result(amount, IF full /\ taken_f < DUST_LAMPORT_THRESHOLD * SF
                             THEN DUST_LAMPORT_THRESHOLD ELSE w)
      BY <1>1, <1>5, <2>1, <2>4
    <3> HIDE DEF w
    <3> QED
      BY <1>1, <1>4, <3>1, <3>2 DEF DUST_LAMPORT_THRESHOLD
  <2> QED
    BY <1>1, <1>5, <2>2, <2>3, <2>4
<1> HIDE DEF c
<1>9. CASE full /\ asked < B
  <2>1. a.settle = 0 /\ a.repay = 0 /\ a.withdraw = 0
    BY <1>6, <1>9
  <2>2. DivCeil(0, SF) = 0
    BY ScaleType DEF DivCeil
  <2> QED
    BY <1>1, <1>7, <1>9, <2>1, <2>2 DEF a
<1>10. CASE ~(full /\ asked < B)
  <2>1. a = c
    BY <1>6, <1>10
  <2>2. a.settle \in 0..B /\ a.withdraw \in 0..dep /\ a.repay = DivCeil(a.settle, SF)
    BY <1>1, <1>4, <1>8, <2>1
  <2>3. ASSUME ~full
        PROVE  a.settle \in Nat /\ a.settle <= most
    BY <1>2, <1>4, <1>8, <2>1, <2>3
  <2>4. full => a.settle = B
    BY <1>4, <1>8, <2>1
  <2>5. ASSUME g.reason = "Order", o.orders[g.slot].opportunity = "Single"
        PROVE  a.settle <= o.orders[g.slot].size
    <3>1. o.orders[g.slot].size \in Nat
      <4>1. g.slot \in OrderSlot
        BY <2>5 DEF GoodGround
      <4>2. o.orders[g.slot] \in Order
        BY <4>1 DEF CanValue, Obligations
      <4> QED
        BY <4>2 DEF Order
    <3>2. a.settle \in Nat /\ a.settle <= most /\ most <= o.orders[g.slot].size
      BY <1>2, <1>7, <2>3, <2>5
    <3> QED
      BY <1>2, <3>1, <3>2
  <2>6. ASSUME g.reason = "Term", a.settle \in 1..(B - 1)
        PROVE  a.settle <= saturating_sub(B, throttle_protected_amount(o, r))
    <3> DEFINE s == saturating_sub(B, throttle_protected_amount(o, r))
    <3>1. ~full
      BY <1>1, <2>4, <2>6
    <3>2. a.settle \in Nat /\ a.settle <= most /\ most <= s
      BY <1>2, <2>3, <2>6, <3>1
    <3>3. s \in Int
      BY <1>1, <2>6, ThrottleType DEF GoodGround, CanValue, saturating_sub
    <3> HIDE DEF s
    <3>4. a.settle <= s
      BY <1>2, <3>2, <3>3
    <3> QED
      BY <3>4 DEF s
  <2> HIDE DEF B, dep
  <2>7. /\ a.settle \in 0..B /\ a.withdraw \in 0..dep /\ a.repay = DivCeil(a.settle, SF)
        /\ g.reason = "Order" /\ o.orders[g.slot].opportunity = "Single" =>
              a.settle <= o.orders[g.slot].size
        /\ g.reason = "Term" /\ a.settle \in 1..(B - 1) =>
              a.settle <= saturating_sub(B, throttle_protected_amount(o, r))
    BY <2>2, <2>5, <2>6
  <2> QED
    BY <2>7 DEF a, B, dep
<1> QED
  BY <1>9, <1>10


LEMMA WithdrawType ==
    ASSUME NEW o, CanValue(o, o.valued), NEW q \in Collaterals, o.deposited[q] # 0,
           NEW n \in Nat, NEW check
    PROVE  withdraw_amount(o, Values(o, o.valued), q, n, check) \in 0..o.deposited[q]
<1> DEFINE v == Values(o, o.valued)
           most == max_withdraw_value(o, v, q, check)
           mv == collateral_mv(o, o.valued, q)
           dep == o.deposited[q]
           amount == Lesser(n, dep)
           part == Mul(Div(Lesser(most, mv), mv), dep * SF) \div SF
           c == withdraw_amount(o, v, q, n, check)
<1>1. /\ q \in ReserveId /\ mv \in Nat /\ mv # 0 /\ dep \in Nat /\ dep # 0
      /\ v.unhealthy \in Nat /\ v.allowed \in Nat /\ v.debt \in Nat /\ o \in Obligations
  BY Sets, EntryTypes, ValueTypes DEF CanValue
<1>2. most \in Nat
  <2> DEFINE highest == IF check = "Threshold" THEN saturating_sub(v.unhealthy, 1) ELSE v.allowed
             pct == IF check = "Threshold" THEN threshold_pct(o, q) ELSE ltv_pct(o, q)
             debt == v.debt
  <2>1. most = IF highest <= debt THEN 0 ELSE IF pct = 0 THEN mv ELSE ((highest - debt) * 100) \div pct
    BY DEF max_withdraw_value
  <2>2. pct \in Nat
    BY <1>1, SettingTypes
  <2>3. highest \in Nat /\ debt \in Nat
    BY <1>1 DEF saturating_sub
  <2> HIDE DEF highest, pct, debt, most, mv
  <2>4. CASE highest <= debt
    BY <2>1, <2>4
  <2>5. CASE ~(highest <= debt) /\ pct = 0
    BY <1>1, <2>1, <2>5
  <2>6. CASE ~(highest <= debt) /\ pct # 0
    <3>1. (highest - debt) * 100 \in Nat /\ pct \in Nat \ {0}
      BY <2>2, <2>3, <2>6
    <3> QED
      BY <2>1, <2>6, <3>1, DivBounds
  <2> QED
    BY <2>4, <2>5, <2>6
<1>3. part \in 0..dep
  <2> DEFINE l == Lesser(most, mv)
             x == Mul(Div(l, mv), dep * SF)
  <2>1. l \in Nat /\ l <= mv
    BY <1>1, <1>2 DEF Lesser
  <2>2. Div(l, mv) \in Nat /\ Div(l, mv) <= SF
    BY <1>1, <2>1, PartAtMostOne
  <2>3. dep * SF \in Nat
    BY <1>1, ScaleType
  <2>4. x \in Nat /\ x <= dep * SF
    <3>1. Mul(dep * SF, Div(l, mv)) \in Nat /\ Mul(dep * SF, Div(l, mv)) <= dep * SF
      BY <2>2, <2>3, MulAtMost
    <3>2. x = Mul(dep * SF, Div(l, mv))
      BY <2>2, <2>3, MulSwap
    <3> QED
      BY <3>1, <3>2
  <2>5. part \in Nat /\ SF * part <= x
    BY <2>4, ScaleType, DivBounds
  <2> HIDE DEF x, part, dep
  <2>6. SF * part <= SF * dep
    BY <1>1, <2>3, <2>4, <2>5, ScaleType
  <2>7. part <= dep
    BY <1>1, <2>5, <2>6, ScaleType
  <2> QED
    BY <1>1, <2>5, <2>7
<1>4. amount \in 0..dep
  BY <1>1 DEF Lesser
<1>5. c \in {amount, 0, part}
  BY DEF withdraw_amount
<1> HIDE DEF c, amount, part, dep
<1>6. c \in 0..dep
  BY <1>1, <1>3, <1>4, <1>5
<1> QED
  BY <1>6 DEF c, dep

LEMMA BorrowType ==
    ASSUME NEW o, CanValue(o, o.valued), NEW r \in ReserveId, NEW n \in Nat,
           price \in [ReserveId -> Positive]
    PROVE  borrow_amount(o, Values(o, o.valued), r, n) \in Nat
<1> DEFINE v == Values(o, o.valued)
           room == saturating_sub(v.allowed, v.debt)
<1>1. v.allowed \in Nat /\ v.debt \in Nat /\ o \in Obligations
  BY ValueTypes DEF CanValue
<1>2. room \in Nat
  BY <1>1 DEF saturating_sub
<1>3. borrow_factor_f(o, r) \in Nat \ {0}
  BY <1>1, SettingTypes, ScaleType
<1>4. room \div price[r] \in Nat
  <2>1. price[r] \in Nat \ {0}
    BY DEF Positive
  <2> QED
    BY <1>2, <2>1, DivBounds
<1> HIDE DEF room
<1>5. Div(room \div price[r], borrow_factor_f(o, r)) \in Nat
  BY <1>3, <1>4, DivType
<1>6. n * SF \in Nat
  BY ScaleType
<1> QED
  BY <1>5, <1>6 DEF borrow_amount, room

-----------------------------------------------------------------------------
(* Orders                                                                  *)

\* What is recorded of the order in a slot.
Entered(order, e) ==
    /\ order.opportunity = "Single" => e.settled + order.size <= e.size
    /\ order.opportunity = "All" => e = Unfilled
Logged(o, f) == \A i \in OrderSlot : Entered(o.orders[i], f[i])
\* The same before the records of the orders that went are dropped.
Pending(o, f) ==
    \A i \in OrderSlot : /\ f[i].settled <= f[i].size
                         /\ o.orders[i] = NoOrder \/ Entered(o.orders[i], f[i])
Records == [OrderSlot -> [size : Nat, settled : Nat]]

Supported(o) == \A i \in OrderSlot : is_supported_by(o.orders[i], o)
Fits(o) == Deposits(o) # {} \/ ~HasDebt(o) => Supported(o)
OrdersGone(o) == \A i \in OrderSlot : o.orders[i] = NoOrder

Kept(o, t, f) == Sane(o, t) /\ f \in Records /\ Logged(o, f) /\ Fits(o)

LEMMA LoggedPending ==
    ASSUME NEW o, NEW t, Sane(o, t), NEW f \in Records, Logged(o, f)
    PROVE  Pending(o, f)
<1> SUFFICES ASSUME NEW i \in OrderSlot
             PROVE  f[i].settled <= f[i].size /\ Entered(o.orders[i], f[i])
  BY DEF Pending
<1>1. o.orders[i] \in Order /\ f[i] \in [size : Nat, settled : Nat]
  BY SaneFields DEF Records
<1>2. o.orders[i].opportunity \in {"All", "Single"} /\ o.orders[i].size \in Nat
      /\ f[i].size \in Nat /\ f[i].settled \in Nat
  BY <1>1 DEF Order
<1>3. Entered(o.orders[i], f[i])
  BY DEF Logged
<1>4. CASE o.orders[i].opportunity = "All"
  BY <1>3, <1>4 DEF Entered, Unfilled
<1>5. CASE o.orders[i].opportunity = "Single"
  BY <1>2, <1>3, <1>5 DEF Entered
<1> QED
  BY <1>2, <1>3, <1>4, <1>5

LEMMA PendingLess ==
    ASSUME NEW o, NEW f, Pending(o, f), NEW n, n.orders = o.orders \/ OrdersGone(n)
    PROVE  Pending(n, f)
  BY DEF Pending, OrdersGone

LEMMA EndedLogged ==
    ASSUME NEW o, NEW f \in Records, Pending(o, f)
    PROVE  ended(f, o) \in Records /\ Logged(o, ended(f, o))
<1> DEFINE e == ended(f, o)
<1>1. ASSUME NEW i \in OrderSlot
      PROVE  e[i] \in [size : Nat, settled : Nat] /\ Entered(o.orders[i], e[i])
  <2>1. f[i] \in [size : Nat, settled : Nat]
    BY DEF Records
  <2>2. CASE o.orders[i] = NoOrder
    <3>1. e[i] = Unfilled
      BY <2>2 DEF ended, Pending
    <3> QED
      BY <2>2, <3>1 DEF Entered, Unfilled, NoOrder
  <2>3. CASE o.orders[i] # NoOrder
    <3>1. e[i] = f[i]
      BY <2>3 DEF ended
    <3> QED
      BY <2>1, <2>3, <3>1 DEF Pending
  <2> QED
    BY <2>2, <2>3
<1>2. e \in [OrderSlot -> [size : Nat, settled : Nat]]
  <2>1. e = [i \in OrderSlot |-> e[i]]
    BY DEF ended
  <2> HIDE DEF e
  <2> QED
    BY <1>1, <2>1
<1> HIDE DEF e
<1>3. e \in Records /\ Logged(o, e)
  BY <1>1, <1>2 DEF Records, Logged
<1> QED
  BY <1>3 DEF e

LEMMA NoOrderSupported == ASSUME NEW o PROVE is_supported_by(NoOrder, o)
  BY DEF is_supported_by, NoOrder, PriceRatio, IsActive

LEMMA GoneSupported == ASSUME NEW o, OrdersGone(o) PROVE Supported(o)
  BY NoOrderSupported DEF OrdersGone, Supported

\* The only entry is still the only one.
Fewer(S, T) == S \subseteq T /\ (S = T \/ S # {})

LEMMA OnlyOne ==
    ASSUME NEW S, NEW T, IsFiniteSet(T), Fewer(S, T), Cardinality(T) = 1
    PROVE  Cardinality(S) = 1
<1>1. PICK x : T = {x}
  BY FS_Singleton
<1>2. S = T
  BY <1>1 DEF Fewer
<1> QED
  BY <1>2

LEMMA EntriesFinite == ASSUME NEW o PROVE IsFiniteSet(Deposits(o)) /\ IsFiniteSet(Borrows(o))
<1>1. Deposits(o) \subseteq Collaterals /\ Borrows(o) \subseteq Debts
  BY DEF Deposits, Borrows
<1> QED
  BY <1>1, Sets, FS_Subset

LEMMA SupportedLess ==
    ASSUME NEW o, NEW n, NEW x, is_supported_by(x, o),
           Fewer(Deposits(n), Deposits(o)), Fewer(Borrows(n), Borrows(o))
    PROVE  is_supported_by(x, n)
<1>1. Cardinality(Deposits(o)) = 1 => Cardinality(Deposits(n)) = 1
  BY EntriesFinite, OnlyOne
<1>2. Cardinality(Borrows(o)) = 1 => Cardinality(Borrows(n)) = 1
  BY EntriesFinite, OnlyOne
<1> QED
  BY <1>1, <1>2 DEF is_supported_by

\* Entries that stay, with the same orders.
LEMMA SameFits ==
    ASSUME NEW o, NEW n, n.deposited = o.deposited, n.borrowed_sf = o.borrowed_sf
    PROVE  /\ Deposits(n) = Deposits(o) /\ Borrows(n) = Borrows(o)
           /\ HasDebt(n) <=> HasDebt(o)
           /\ n.orders = o.orders => ((Supported(n) <=> Supported(o)) /\ (Fits(n) <=> Fits(o)))
<1>1. Deposits(n) = Deposits(o) /\ Borrows(n) = Borrows(o)
  BY DEF Deposits, Borrows
<1>2. \A x : is_supported_by(x, n) <=> is_supported_by(x, o)
  BY <1>1 DEF is_supported_by
<1> QED
  BY <1>1, <1>2 DEF HasDebt, Supported, Fits

-----------------------------------------------------------------------------
(* Every operation keeps the obligation, its orders and their records      *)

Cleared(o, n) == HasDebt(o) /\ ~HasDebt(n) => OrdersGone(n)
Reserves == price \in [ReserveId -> Positive] /\ now \in 1..MaxDay

LEMMA ReserveFacts ==
    ASSUME Reserves
    PROVE  price \in [ReserveId -> Positive] /\ now \in 1..MaxDay /\ now \in Nat /\ now + 1 \in Nat
  BY BoundTypes DEF Reserves

LEMMA FreshValues ==
    ASSUME NEW o, NEW t, Sane(o, t), Fresh(o)
    PROVE  CanValue(o, o.valued)
  BY DEF CanValue, Sane

LEMMA KeptStale ==
    ASSUME NEW o, NEW f, Reserves, Kept(o, now, f)
    PROVE  Kept(stale(o), now + 1, f) /\ Cleared(o, stale(o))
<1>1. Sane(stale(o), now + 1)
  BY ReserveFacts, NextDaySane DEF Kept
<1>2. stale(o).deposited = o.deposited /\ stale(o).borrowed_sf = o.borrowed_sf /\ stale(o).orders = o.orders
  BY StaleSane DEF Kept
<1>3. Logged(stale(o), f)
  BY <1>2 DEF Kept, Logged
<1> QED
  BY <1>1, <1>2, <1>3, SameFits DEF Kept, Cleared

LEMMA KeptRefreshed ==
    ASSUME NEW o, NEW f, Reserves, Kept(o, now, f)
    PROVE  Kept(refreshed(o), now, f) /\ Cleared(o, refreshed(o))
<1>1. /\ Sane(refreshed(o), now) /\ refreshed(o).deposited = o.deposited
      /\ refreshed(o).borrowed_sf = o.borrowed_sf /\ refreshed(o).orders = o.orders
  BY ReserveFacts, RefreshedSane DEF Kept
<1>2. Logged(refreshed(o), f)
  BY <1>1 DEF Kept, Logged
<1> QED
  BY <1>1, <1>2, SameFits DEF Kept, Cleared

LEMMA KeptDeposited ==
    ASSUME NEW o, NEW f, Reserves, Kept(o, now, f), NEW r \in Collaterals, NEW c \in Nat,
           o.deposited[r] + c <= MaxDeposit,
           check_orders_supported_after_user_operation(deposited(o, r, c))
    PROVE  Kept(deposited(o, r, c), now, f) /\ Cleared(o, deposited(o, r, c))
<1> DEFINE n == deposited(o, r, c)
<1>1. Sane(n, now) /\ n.borrowed_sf = o.borrowed_sf /\ n.orders = o.orders
  BY Sets, DepositedSane DEF Kept
<1>2. Supported(n)
  BY DEF Supported, check_orders_supported_after_user_operation
<1> HIDE DEF n
<1>3. HasDebt(n) <=> HasDebt(o)
  BY <1>1 DEF HasDebt, Borrows
<1>4. Logged(n, f)
  BY <1>1 DEF Kept, Logged
<1> QED
  BY <1>1, <1>2, <1>3, <1>4 DEF Kept, Cleared, Fits, n

LEMMA KeptBorrowed ==
    ASSUME NEW o, NEW f, Reserves, Kept(o, now, f), NEW r \in Debts, NEW b \in Positive,
           ~TermEnded(o, r),
           check_orders_supported_after_user_operation(Owing(o, r, b, now))
    PROVE  LET n == Owing(o, r, b, now)
           IN  Kept(n, now, f) /\ Cleared(o, n)
<1> DEFINE n == Owing(o, r, b, now)
<1>1. ~EndedBy(o, r, now) /\ now \in 1..MaxDay
  BY ReserveFacts DEF TermEnded, EndedBy
<1>2. /\ Sane(n, now) /\ n.orders = o.orders
      /\ n.borrowed_sf = [o.borrowed_sf EXCEPT ![r] = @ + b]
  BY <1>1, BorrowedSane DEF Kept
<1>3. Supported(n)
  BY DEF Supported, check_orders_supported_after_user_operation
<1>4. r \in ReserveId /\ o.borrowed_sf \in [ReserveId -> Nat]
  BY Sets, SaneFields DEF Kept
<1> HIDE DEF n
<1>5. HasDebt(n)
  <2>1. n.borrowed_sf[r] = o.borrowed_sf[r] + b
    BY <1>2, <1>4
  <2>2. n.borrowed_sf[r] # 0
    BY <1>4, <2>1 DEF Positive
  <2> QED
    BY <2>2 DEF HasDebt, Borrows
<1>6. Logged(n, f)
  BY <1>2 DEF Kept, Logged
<1> QED
  BY <1>2, <1>3, <1>5, <1>6 DEF Kept, Cleared, Fits, n

\* A debt repaid, liquidated or forgiven, before the records are dropped.
LEMMA PendingRepaid ==
    ASSUME NEW o, NEW t, Sane(o, t), NEW f, Pending(o, f), NEW r \in Debts, NEW a \in Nat,
           a <= o.borrowed_sf[r]
    PROVE  LET n == repaid(o, r, a)
           IN  /\ Sane(n, t) /\ ~Fresh(n) /\ Pending(n, f) /\ Cleared(o, n)
               /\ ~HasDebt(n) => OrdersGone(n)
               /\ HasDebt(n) => n.orders = o.orders
               /\ Deposits(n) = Deposits(o) /\ Borrows(n) \subseteq Borrows(o)
<1> DEFINE n == repaid(o, r, a)
<1>1. /\ Sane(n, t) /\ ~Fresh(n)
      /\ n.borrowed_sf = [o.borrowed_sf EXCEPT ![r] = @ - a]
      /\ n.deposited = o.deposited
      /\ HasDebt(n) => n.orders = o.orders
      /\ ~HasDebt(n) => \A i \in OrderSlot : n.orders[i] = NoOrder
  BY RepaidSane
<1> HIDE DEF n
<1>2. o.borrowed_sf \in [ReserveId -> Nat]
  BY SaneFields
<1>3. Borrows(n) \subseteq Borrows(o)
  <2> SUFFICES ASSUME NEW s \in Borrows(n) PROVE o.borrowed_sf[s] # 0
    BY DEF Borrows
  <2>1. s \in ReserveId /\ n.borrowed_sf[s] # 0
    BY Sets DEF Borrows
  <2>2. n.borrowed_sf[s] = IF s = r THEN o.borrowed_sf[s] - a ELSE o.borrowed_sf[s]
    BY <1>1, <1>2, <2>1
  <2> QED
    BY <1>2, <2>1, <2>2
<1>4. ~HasDebt(n) => OrdersGone(n)
  BY <1>1 DEF OrdersGone
<1>5. Pending(n, f)
  BY <1>1, <1>4, PendingLess
<1>6. Deposits(n) = Deposits(o)
  BY <1>1 DEF Deposits
<1> QED
  BY <1>1, <1>3, <1>4, <1>5, <1>6 DEF n, Cleared

LEMMA KeptRepaid ==
    ASSUME NEW o, NEW f, Kept(o, now, f), NEW r \in Debts, NEW a \in Nat,
           a <= o.borrowed_sf[r],
           \/ check_orders_supported_after_user_operation(repaid(o, r, a))
           \/ Deposits(o) = {}
    PROVE  LET n == repaid(o, r, a)
           IN  Kept(n, now, ended(f, n)) /\ Cleared(o, n)
<1> DEFINE n == repaid(o, r, a)
<1>1. Pending(o, f)
  BY LoggedPending DEF Kept
<1>2. /\ Sane(n, now) /\ Pending(n, f) /\ Cleared(o, n)
      /\ ~HasDebt(n) => OrdersGone(n)
      /\ Deposits(n) = Deposits(o)
  BY <1>1, PendingRepaid DEF Kept
<1>3. check_orders_supported_after_user_operation(n) => Supported(n)
  BY DEF Supported, check_orders_supported_after_user_operation
<1>4. Deposits(o) = {} \/ Supported(n)
  BY <1>3
<1> HIDE DEF n
<1>5. Fits(n)
  BY <1>2, <1>4, GoneSupported DEF Fits
<1>6. ended(f, n) \in Records /\ Logged(n, ended(f, n))
  BY <1>2, EndedLogged DEF Kept
<1> QED
  BY <1>2, <1>5, <1>6 DEF Kept, n

LEMMA NewEntries ==
    /\ Deposits(NewObligation) = {} /\ Borrows(NewObligation) = {} /\ ~HasDebt(NewObligation)
    /\ OrdersGone(NewObligation)
  BY Sets DEF Deposits, Borrows, HasDebt, NewObligation, Stale, OrdersGone

\* Collateral taken out, from an obligation whose orders fit.
LEMMA KeptWithdrawn ==
    ASSUME NEW o, Reserves, Sane(o, now), NEW f \in Records, Pending(o, f), Supported(o),
           NEW q \in Collaterals, NEW c \in Nat, c <= o.deposited[q]
    PROVE  LET n == closed_if_empty(withdrawn(o, q, c))
           IN  Kept(n, now, ended(f, n)) /\ Cleared(o, n)
<1> DEFINE w == withdrawn(o, q, c)
           n == closed_if_empty(w)
<1>1. /\ Sane(w, now) /\ w.deposited = [o.deposited EXCEPT ![q] = @ - c]
      /\ w.borrowed_sf = o.borrowed_sf /\ w.orders = o.orders
  BY Sets, WithdrawnSane
<1>2. /\ Sane(n, now) /\ n \in {w, NewObligation}
      /\ n # w => ~HasDebt(w) /\ n = NewObligation
  BY <1>1, ReserveFacts, ClosedSane
<1> HIDE DEF n, w
<1>3. Borrows(w) = Borrows(o)
  BY <1>1 DEF Borrows
<1>4. Pending(n, f)
  BY <1>1, <1>2, NewEntries, PendingLess
<1>5. Cleared(o, n)
  BY <1>2, <1>3, NewEntries DEF Cleared, HasDebt
<1>6. Fits(n)
  <2>1. CASE n = w
    <3>1. Deposits(w) \subseteq Deposits(o)
      <4>1. o.deposited \in [ReserveId -> 0..MaxDeposit]
        BY SaneFields
      <4> SUFFICES ASSUME NEW s \in Deposits(w) PROVE o.deposited[s] # 0
        BY DEF Deposits
      <4>2. s \in ReserveId /\ w.deposited[s] # 0
        BY Sets DEF Deposits
      <4>3. w.deposited[s] = IF s = q THEN o.deposited[s] - c ELSE o.deposited[s]
        BY <1>1, <4>1, <4>2
      <4> QED
        BY <4>1, <4>2, <4>3, BoundTypes
    <3>2. CASE Deposits(w) # {}
      <4>1. Fewer(Deposits(w), Deposits(o)) /\ Fewer(Borrows(w), Borrows(o))
        BY <1>3, <3>1, <3>2 DEF Fewer
      <4>2. Supported(w)
        BY <1>1, <4>1, SupportedLess DEF Supported
      <4> QED
        BY <2>1, <4>2 DEF Fits
    <3>3. CASE Deposits(w) = {}
      <4>1. HasDebt(w) \/ n = NewObligation
        BY <3>3 DEF n, closed_if_empty, HasDebt
      <4> QED
        BY <2>1, <3>3, <4>1, NewEntries, GoneSupported DEF Fits
    <3> QED
      BY <3>2, <3>3
  <2>2. CASE n = NewObligation
    BY <2>2, NewEntries, GoneSupported DEF Fits
  <2> QED
    BY <1>2, <2>1, <2>2
<1>7. ended(f, n) \in Records /\ Logged(n, ended(f, n))
  BY <1>4, EndedLogged
<1>8. Kept(n, now, ended(f, n))
  BY <1>2, <1>6, <1>7 DEF Kept
<1> QED
  BY <1>5, <1>8 DEF n, w

-----------------------------------------------------------------------------
(* Liquidation                                                             *)

\* What is liquidated for a term stays within the share of the days gone by.
LEMMA ThrottleStep ==
    ASSUME NEW B \in Nat, NEW s \in Nat \ {0}, NEW u \in Nat, NEW M \in Nat, B + u <= M,
           NEW full \in Nat \ {0}, NEW days \in Nat, NEW p,
           p = (M * saturating_sub(full, days)) \div full, s <= saturating_sub(B, p)
    PROVE  (u + s) * full < M * Lesser(full, days) + full
<1> DEFINE gone == Lesser(full, days)
           left == saturating_sub(full, days)
<1>1. gone \in Nat /\ left \in Nat /\ left = full - gone
  BY DEF Lesser, saturating_sub
<1>2. M * left \in Nat
  BY <1>1
<1>3. p \in Nat /\ M * left < full * p + full
  BY <1>2, DivBounds
<1>4. s <= B - p
  BY <1>3 DEF saturating_sub
<1> HIDE DEF gone, left
<1>5. u + s <= M - p
  BY <1>3, <1>4
<1>6. (u + s) * full <= (M - p) * full
  <2> DEFINE x == u + s
             y == M - p
  <2>1. x \in Nat /\ y \in Nat /\ x <= y
    BY <1>3, <1>5
  <2> HIDE DEF x, y
  <2>2. x * full <= y * full
    BY <2>1, ProductMono
  <2> QED
    BY <2>2 DEF x, y
<1>7. (M - p) * full = M * full - p * full
  BY <1>3
<1>8. M * left = M * full - M * gone
  BY <1>1
<1>9. p * full = full * p
  BY <1>3
<1> DEFINE a == (u + s) * full
           b == (M - p) * full
           c == M * full
           d == p * full
           e == M * gone
           l == M * left
           z == full * p
<1>10. a \in Int /\ b \in Int /\ c \in Int /\ d \in Int /\ e \in Int /\ l \in Int
  BY <1>1, <1>3
<1>11. a <= b /\ b = c - d /\ l = c - e /\ d = z /\ l < z + full
  BY <1>3, <1>6, <1>7, <1>8, <1>9
<1> HIDE DEF a, b, c, d, e, l, z
<1>12. a < e + full
  BY <1>10, <1>11
<1> QED
  BY <1>12 DEF a, e, gone

\* A liquidation of debt r and collateral q before it is noted in an order.
Seized(o, r, q, g, a) ==
    [repaid(o, r, a.settle) EXCEPT
        !.deposited[q] = @ - a.withdraw,
        !.term_settled[r] = IF g.reason = "Term" /\ a.settle < o.borrowed_sf[r]
                            THEN @ + a.settle ELSE @]

Seizable(o, r, q, g, a) ==
    /\ a.settle \in 1..o.borrowed_sf[r] /\ a.withdraw \in 0..o.deposited[q]
    /\ g.reason = "Term" /\ a.settle < o.borrowed_sf[r] =>
          /\ TermEnded(o, r)
          /\ a.settle <= saturating_sub(o.borrowed_sf[r], throttle_protected_amount(o, r))

LEMMA TermSeized ==
    ASSUME NEW o, Sane(o, now), now \in Nat, Fresh(o), NEW r \in Debts, NEW q, NEW g, NEW a,
           Seizable(o, r, q, g, a), g.reason = "Term", a.settle < o.borrowed_sf[r],
           NEW n, ~Fresh(n), n.borrowed_sf[r] = o.borrowed_sf[r] - a.settle,
           n.since[r] = o.since[r], n.at_expiration[r] = o.at_expiration[r],
           n.term_settled[r] = o.term_settled[r] + a.settle
    PROVE  Captured(n, r, now)
<1> DEFINE B == o.borrowed_sf[r]
           s == a.settle
           u == o.term_settled[r]
           E == o.at_expiration[r]
           M == E * SF
           full == market.full_liquidation_days
           days == days_since_term_end(o, r)
           p == throttle_protected_amount(o, r)
<1>1. r \in ReserveId /\ B \in Nat /\ u \in Nat /\ E \in Nat /\ o.since[r] \in Nat
  BY Sets, SaneFields, BoundTypes
<1>2. s \in Nat \ {0} /\ s < B /\ TermEnded(o, r) /\ s <= saturating_sub(B, p)
  BY <1>1 DEF Seizable
<1>3. Captured(o, r, now)
  BY DEF Sane
<1>4. EndedBy(o, r, now) /\ E # 0 /\ B + u <= M /\ o.since[r] # 0
  BY <1>2, <1>3 DEF TermEnded, EndedBy, Captured
<1>5. EndedBy(n, r, now)
  BY <1>4 DEF EndedBy
<1>6. days \in Nat /\ M \in Nat /\ full \in Nat
  BY <1>1, <1>4, ConfigType, MarketType, ScaleType DEF EndedBy, days_since_term_end
<1>7. ASSUME full # 0 PROVE ThrottledBy(n, r, now)
  <2>1. p = (M * saturating_sub(full, days)) \div full
    BY <1>7 DEF throttle_protected_amount
  <2>2. /\ n.term_settled[r] = u + s /\ n.at_expiration[r] * SF = M
        /\ Lesser(full, now - (n.since[r] + config[r].term)) = Lesser(full, days)
    BY DEF days_since_term_end
  <2> HIDE DEF B, s, u, E, M, full, days, p
  <2>3. (u + s) * full < M * Lesser(full, days) + full
    BY <1>1, <1>2, <1>4, <1>6, <1>7, <2>1, ThrottleStep
  <2> QED
    BY <2>2, <2>3 DEF ThrottledBy, full
<1>8. n.borrowed_sf[r] # 0 /\ n.borrowed_sf[r] + n.term_settled[r] <= n.at_expiration[r] * SF
  <2>1. n.borrowed_sf[r] = B - s /\ n.term_settled[r] = u + s /\ n.at_expiration[r] * SF = M
    OBVIOUS
  <2> HIDE DEF B, s, u, M
  <2> QED
    BY <1>1, <1>2, <1>4, <1>6, <2>1
<1> QED
  BY <1>3, <1>4, <1>5, <1>7, <1>8 DEF Captured

SeizedFrom(o, n, r, q, a) ==
    /\ n.deposited = [o.deposited EXCEPT ![q] = @ - a.withdraw]
    /\ n.borrowed_sf = [o.borrowed_sf EXCEPT ![r] = @ - a.settle]
    /\ n.group = o.group
    /\ HasDebt(n) => n.orders = o.orders

LEMMA SeizedSane ==
    ASSUME NEW o, Sane(o, now), now \in Nat, Fresh(o), NEW r \in Debts, NEW q \in Collaterals,
           NEW g, NEW a, Seizable(o, r, q, g, a), NEW f, Pending(o, f)
    PROVE  LET n == Seized(o, r, q, g, a)
           IN  /\ Sane(n, now) /\ ~Fresh(n) /\ Pending(n, f) /\ Cleared(o, n)
               /\ SeizedFrom(o, n, r, q, a)
               /\ ~HasDebt(n) => OrdersGone(n)
               /\ Borrows(n) \subseteq Borrows(o)
<1> DEFINE u == repaid(o, r, a.settle)
           B == o.borrowed_sf[r]
           term == g.reason = "Term" /\ a.settle < B
           d2 == [u.deposited EXCEPT ![q] = @ - a.withdraw]
           t2 == [u.term_settled EXCEPT ![r] = IF term THEN @ + a.settle ELSE @]
           n == Seized(o, r, q, g, a)
<1>1. /\ r \in ReserveId /\ q \in ReserveId /\ B \in Nat
      /\ o.borrowed_sf \in [ReserveId -> Nat] /\ o.deposited \in [ReserveId -> 0..MaxDeposit]
  BY Sets, SaneFields
<1>2. a.settle \in Nat /\ a.settle <= B /\ a.settle # 0 /\ a.withdraw \in 0..o.deposited[q]
  BY <1>1 DEF Seizable
<1>3. /\ Sane(u, now) /\ ~Fresh(u)
      /\ u.borrowed_sf = [o.borrowed_sf EXCEPT ![r] = @ - a.settle]
      /\ u.deposited = o.deposited /\ u.group = o.group
      /\ a.settle # B =>
            u.since = o.since /\ u.at_expiration = o.at_expiration /\ u.term_settled = o.term_settled
  BY <1>2, RepaidSane
<1>4. /\ Pending(u, f) /\ Cleared(o, u)
      /\ ~HasDebt(u) => OrdersGone(u)
      /\ HasDebt(u) => u.orders = o.orders
      /\ Borrows(u) \subseteq Borrows(o)
  BY <1>2, PendingRepaid
<1> HIDE DEF u
<1>5. /\ u \in Obligations /\ u.term_settled \in [ReserveId -> Nat]
      /\ u.deposited \in [ReserveId -> 0..MaxDeposit]
  BY <1>3, SaneFields
<1>6. n = [u EXCEPT !.deposited = d2, !.term_settled = t2]
  BY <1>5 DEF Seized, u, Obligations
<1>7. d2 \in [ReserveId -> 0..MaxDeposit]
  <2>1. u.deposited[q] - a.withdraw \in 0..MaxDeposit
    BY <1>1, <1>2, <1>3, BoundTypes
  <2> QED
    BY <1>1, <1>5, <2>1
<1>8. t2 \in [ReserveId -> Nat]
  BY <1>1, <1>2, <1>5
<1>9. ASSUME NEW s \in Debts PROVE t2[s] = IF s = r /\ term THEN u.term_settled[s] + a.settle
                                                          ELSE u.term_settled[s]
  BY <1>5, Sets
<1>10. d2 = [o.deposited EXCEPT ![q] = @ - a.withdraw]
  BY <1>3
<1> HIDE DEF n, d2, t2
<1>11. /\ n.deposited = d2 /\ n.term_settled = t2 /\ n.borrowed_sf = u.borrowed_sf
       /\ n.since = u.since /\ n.at_expiration = u.at_expiration /\ n.group = u.group
       /\ n.margin_call = u.margin_call /\ n.target = u.target
       /\ n.orders = u.orders /\ n.valued = u.valued
       /\ n \in Obligations
  BY <1>5, <1>6, <1>7, <1>8 DEF Obligations
<1>12. ~Fresh(n)
  BY <1>3, <1>11 DEF Fresh
<1>13. ASSUME NEW s \in Debts PROVE Captured(n, s, now)
  <2>1. CASE s = r /\ term
    <3>1. /\ n.borrowed_sf[r] = o.borrowed_sf[r] - a.settle
          /\ n.since[r] = o.since[r] /\ n.at_expiration[r] = o.at_expiration[r]
          /\ n.term_settled[r] = o.term_settled[r] + a.settle
      <4>1. a.settle # B
        BY <1>1, <1>2, <2>1
      <4> QED
        BY <1>1, <1>3, <1>9, <1>11, <2>1, <4>1
    <3> QED
      BY <1>12, <2>1, <3>1, TermSeized
  <2>2. CASE ~(s = r /\ term)
    <3>1. SameLoans(u, n, s)
      BY <1>9, <1>11, <2>2 DEF SameLoans
    <3> QED
      BY <1>3, <1>12, <3>1, CapturedSame DEF Sane
  <2> QED
    BY <2>1, <2>2
<1>14. Sane(n, now)
  BY <1>3, <1>11, <1>12, <1>13 DEF Sane
<1>15. HasDebt(n) <=> HasDebt(u)
  BY <1>11 DEF HasDebt, Borrows
<1>16. Pending(n, f) /\ (OrdersGone(u) => OrdersGone(n)) /\ Borrows(n) = Borrows(u)
  BY <1>4, <1>11 DEF Pending, OrdersGone, Borrows
<1>17. SeizedFrom(o, n, r, q, a)
  BY <1>3, <1>4, <1>10, <1>11, <1>15 DEF SeizedFrom
<1> QED
  BY <1>4, <1>12, <1>14, <1>15, <1>16, <1>17 DEF n, Cleared

Consumed(o, g, a) ==
    IF g.reason = "Order" /\ HasDebt(o)
    THEN [o EXCEPT !.orders[g.slot] = consume(@, a.repay)] ELSE o
Recorded(f, g, a) ==
    IF g.reason = "Order" /\ f[g.slot].size # 0
    THEN [f EXCEPT ![g.slot].settled = @ + a.settle] ELSE f

\* An order that stays is for the same entries.
SameKind(x, y) == x = NoOrder \/ (x.cond = y.cond /\ x.opportunity = y.opportunity)

LEMMA KindSupported ==
    ASSUME NEW x, NEW y, SameKind(x, y), NEW o, is_supported_by(y, o)
    PROVE  is_supported_by(x, o)
  BY NoOrderSupported DEF SameKind, is_supported_by, IsActive

LEMMA ConsumeType ==
    ASSUME NEW x \in Order, ValidBonus(x), ValidSize(x), NEW paid \in Nat
    PROVE  LET y == consume(x, paid)
           IN  /\ y \in Order /\ ValidBonus(y) /\ ValidSize(y) /\ SameKind(y, x)
               /\ x.opportunity = "All" => y = x
               /\ x.opportunity = "Single" => y = NoOrder \/ y.size = x.size - paid * SF
<1>1. x.size \in Nat /\ paid * SF \in Nat
  BY ScaleType DEF Order
<1> DEFINE left == x.size - paid * SF
           z == [x EXCEPT !.size = left]
<1>2. CASE x.opportunity = "All"
  BY <1>2 DEF consume, SameKind, Order
<1>3. CASE x.opportunity # "All" /\ x.size <= paid * SF
  BY <1>3, NoOrderType DEF consume, SameKind
<1>4. CASE x.opportunity # "All" /\ ~(x.size <= paid * SF)
  <2>1. consume(x, paid) = z
    BY <1>4 DEF consume
  <2>2. left \in Nat /\ left > 0
    BY <1>1, <1>4
  <2> HIDE DEF left
  <2>3. /\ z.size = left /\ z.cond = x.cond /\ z.opportunity = x.opportunity
        /\ z.min_bonus = x.min_bonus /\ z.max_bonus = x.max_bonus
        /\ z \in Order
    BY <2>2 DEF Order
  <2>4. x.opportunity = "Single"
    BY <1>4 DEF Order
  <2> HIDE DEF z
  <2>5. ValidBonus(z) /\ ValidSize(z) /\ SameKind(z, x)
    BY <2>2, <2>3, <2>4 DEF ValidBonus, ValidSize, SameKind
  <2> QED
    BY <1>4, <2>1, <2>3, <2>4, <2>5 DEF left
<1> QED
  BY <1>2, <1>3, <1>4

\* What an order settles stays within what it was for.
LEMMA RecordedType ==
    ASSUME NEW o, NEW f, Kept(o, now, f), NEW g, NEW a, a.settle \in Nat,
           g.reason = "Order" => g.slot \in OrderSlot,
           g.reason = "Order" /\ o.orders[g.slot].opportunity = "Single" =>
               a.settle <= o.orders[g.slot].size
    PROVE  LET h == Recorded(f, g, a)
           IN  /\ h \in Records
               /\ \A i \in OrderSlot : /\ h[i].settled <= h[i].size
                                       /\ ~(g.reason = "Order" /\ i = g.slot) => h[i] = f[i]
               /\ g.reason = "Order" =>
                     /\ o.orders[g.slot].opportunity = "All" => h[g.slot] = Unfilled
                     /\ o.orders[g.slot].opportunity = "Single" =>
                           /\ h[g.slot].size = f[g.slot].size
                           /\ h[g.slot].settled = f[g.slot].settled + a.settle
                           /\ f[g.slot].settled + o.orders[g.slot].size <= f[g.slot].size
<1> DEFINE h == Recorded(f, g, a)
           hit == g.reason = "Order" /\ f[g.slot].size # 0
<1>1. f \in Records /\ Pending(o, f) /\ Logged(o, f)
  BY LoggedPending DEF Kept
<1>2. ASSUME NEW i \in OrderSlot
      PROVE  /\ f[i].size \in Nat /\ f[i].settled \in Nat /\ f[i].settled <= f[i].size
             /\ o.orders[i] \in Order /\ o.orders[i].size \in Nat
             /\ ValidSize(o.orders[i]) /\ Entered(o.orders[i], f[i])
  <2>1. f[i] \in [size : Nat, settled : Nat] /\ o.orders[i] \in Order
    BY <1>1, SaneFields DEF Records, Kept
  <2> QED
    BY <1>1, <2>1 DEF Kept, Sane, Pending, Logged, Order
<1>3. CASE ~hit
  <2>1. h = f
    BY <1>3 DEF Recorded
  <2>2. ASSUME g.reason = "Order" PROVE o.orders[g.slot].opportunity = "All"
    <3>1. g.slot \in OrderSlot /\ f[g.slot].size = 0
      BY <1>3, <2>2
    <3>2. o.orders[g.slot].opportunity # "Single"
      BY <1>2, <3>1 DEF Entered, ValidSize
    <3> QED
      BY <1>2, <3>1, <3>2 DEF Order
  <2>3. g.reason = "Order" => h[g.slot] = Unfilled
    BY <1>2, <2>1, <2>2 DEF Entered
  <2> QED
    BY <1>1, <1>2, <2>1, <2>2, <2>3
<1>4. CASE hit
  <2> DEFINE i == g.slot
             e == [f[i] EXCEPT !.settled = @ + a.settle]
  <2>1. i \in OrderSlot /\ g.reason = "Order" /\ f[i].size # 0
    BY <1>4
  <2>2. h = [f EXCEPT ![i] = e]
    BY <1>4 DEF Recorded
  <2>3. f[i] \in [size : Nat, settled : Nat] /\ f \in [OrderSlot -> [size : Nat, settled : Nat]]
    BY <1>1, <2>1 DEF Records
  <2>4. /\ e \in [size : Nat, settled : Nat]
        /\ e.size = f[i].size /\ e.settled = f[i].settled + a.settle
    BY <2>3
  <2>5. o.orders[i].opportunity = "Single"
    <3>1. o.orders[i].opportunity # "All"
      BY <1>2, <2>1 DEF Entered, Unfilled
    <3> QED
      BY <1>2, <2>1, <3>1 DEF Order
  <2>6. f[i].settled + o.orders[i].size <= f[i].size /\ a.settle <= o.orders[i].size
    BY <1>2, <2>1, <2>5 DEF Entered
  <2> HIDE DEF e, h, i
  <2>7. e.settled <= e.size
    BY <1>2, <2>1, <2>4, <2>6
  <2>8. h \in Records /\ h[i] = e /\ \A j \in OrderSlot : j # i => h[j] = f[j]
    BY <2>1, <2>2, <2>3, <2>4 DEF Records
  <2>9. ASSUME NEW j \in OrderSlot PROVE h[j].settled <= h[j].size
    BY <1>2, <2>7, <2>8
  <2> QED
    BY <2>1, <2>4, <2>5, <2>6, <2>8, <2>9 DEF i, h
<1> QED
  BY <1>3, <1>4

LEMMA PendingConsumed ==
    ASSUME NEW o, NEW f, Kept(o, now, f), NEW g, NEW a,
           a.settle \in Nat, a.repay = DivCeil(a.settle, SF),
           g.reason = "Order" => g.slot \in OrderSlot,
           g.reason = "Order" /\ o.orders[g.slot].opportunity = "Single" =>
               a.settle <= o.orders[g.slot].size,
           NEW s, Sane(s, now), Pending(s, f), HasDebt(s) => s.orders = o.orders,
           ~HasDebt(s) => OrdersGone(s)
    PROVE  LET n == Consumed(s, g, a)
           IN  /\ Sane(n, now) /\ Pending(n, Recorded(f, g, a))
               /\ n.deposited = s.deposited /\ n.borrowed_sf = s.borrowed_sf
               /\ n.group = s.group /\ n.valued = s.valued
               /\ \A i \in OrderSlot : SameKind(n.orders[i], s.orders[i])
<1> DEFINE h == Recorded(f, g, a)
           n == Consumed(s, g, a)
           i == g.slot
           y == consume(s.orders[i], a.repay)
<1>1. /\ h \in Records
      /\ \A j \in OrderSlot : /\ h[j].settled <= h[j].size
                              /\ ~(g.reason = "Order" /\ j = i) => h[j] = f[j]
      /\ g.reason = "Order" =>
            /\ o.orders[i].opportunity = "All" => h[i] = Unfilled
            /\ o.orders[i].opportunity = "Single" =>
                  /\ h[i].size = f[i].size /\ h[i].settled = f[i].settled + a.settle
                  /\ f[i].settled + o.orders[i].size <= f[i].size
  BY RecordedType
<1>2. \A j \in OrderSlot : SameKind(s.orders[j], s.orders[j])
  BY DEF SameKind
<1> HIDE DEF h
<1>3. CASE ~(g.reason = "Order" /\ HasDebt(s))
  <2>1. n = s
    BY <1>3 DEF Consumed
  <2>2. Pending(s, h)
    <3>1. CASE g.reason # "Order"
      BY <1>1, <3>1 DEF Pending
    <3>2. CASE ~HasDebt(s)
      BY <1>1, <3>2 DEF Pending, OrdersGone
    <3> QED
      BY <1>3, <3>1, <3>2
  <2> QED
    BY <1>2, <2>1, <2>2 DEF h
<1>4. CASE g.reason = "Order" /\ HasDebt(s)
  <2>1. n = [s EXCEPT !.orders[i] = y]
    BY <1>4 DEF Consumed
  <2>2. i \in OrderSlot /\ s.orders = o.orders
    BY <1>4
  <2>3. s.orders[i] \in Order /\ ValidBonus(s.orders[i]) /\ ValidSize(s.orders[i])
    BY <2>2, SaneFields DEF Sane
  <2>4. a.repay \in Nat /\ a.settle <= SF * a.repay
    BY CeilBounds, ScaleType
  <2>5. /\ y \in Order /\ ValidBonus(y) /\ ValidSize(y) /\ SameKind(y, s.orders[i])
        /\ s.orders[i].opportunity = "All" => y = s.orders[i]
        /\ s.orders[i].opportunity = "Single" =>
              y = NoOrder \/ y.size = s.orders[i].size - a.repay * SF
    BY <2>3, <2>4, ConsumeType
  <2> HIDE DEF y, n, i
  <2>6. /\ Sane(n, now) /\ n.orders = [s.orders EXCEPT ![i] = y]
        /\ n.borrowed_sf = s.borrowed_sf /\ n.deposited = s.deposited
        /\ n.group = s.group /\ n.valued = s.valued
    BY <2>1, <2>2, <2>5, OrderSane
  <2>7. s.orders \in [OrderSlot -> Order]
    BY SaneFields
  <2>8. \A j \in OrderSlot : n.orders[j] = IF j = i THEN y ELSE s.orders[j]
    BY <2>6, <2>7
  <2>9. y = NoOrder \/ Entered(y, h[i])
    <3>1. CASE s.orders[i].opportunity = "All"
      <4>1. h[i] = Unfilled /\ y.opportunity = "All"
        BY <1>1, <1>4, <2>2, <2>5, <3>1 DEF i
      <4> QED
        BY <4>1 DEF Entered
    <3>2. CASE s.orders[i].opportunity = "Single"
      <4> SUFFICES ASSUME y # NoOrder PROVE Entered(y, h[i])
        OBVIOUS
      <4> DEFINE z == s.orders[i].size
                 w == a.repay * SF
      <4>1. /\ h[i].size = f[i].size /\ h[i].settled = f[i].settled + a.settle
            /\ f[i].settled + z <= f[i].size
        BY <1>1, <1>4, <2>2, <3>2 DEF i
      <4>2. y.size = z - w /\ y.opportunity = "Single"
        BY <2>5, <3>2 DEF SameKind
      <4>3. z \in Nat /\ f[i].settled \in Nat /\ f[i].size \in Nat
        <5>1. f[i] \in [size : Nat, settled : Nat]
          BY <2>2 DEF Kept, Records
        <5> QED
          BY <2>3, <5>1 DEF Order
      <4>4. w \in Nat /\ a.settle <= w
        BY <2>4, ScaleType
      <4> HIDE DEF z, w
      <4>5. h[i].settled + y.size <= h[i].size
        BY <4>1, <4>2, <4>3, <4>4
      <4> QED
        BY <4>2, <4>5 DEF Entered
    <3> QED
      BY <2>3, <3>1, <3>2 DEF Order
  <2>10. Pending(n, h)
    <3> SUFFICES ASSUME NEW j \in OrderSlot
                 PROVE  h[j].settled <= h[j].size /\ (n.orders[j] = NoOrder \/ Entered(n.orders[j], h[j]))
      BY DEF Pending
    <3>1. CASE j = i
      BY <1>1, <2>8, <2>9, <3>1
    <3>2. CASE j # i
      BY <1>1, <2>8, <3>2 DEF Pending, i
    <3> QED
      BY <3>1, <3>2
  <2>11. \A j \in OrderSlot : SameKind(n.orders[j], s.orders[j])
    BY <1>2, <2>5, <2>8
  <2> QED
    BY <2>6, <2>10, <2>11 DEF n, h
<1> QED
  BY <1>3, <1>4

LEMMA KeptLiquidated ==
    ASSUME NEW o, NEW f, Reserves, Kept(o, now, f), Fresh(o), Supported(o), NEW r \in Debts,
           NEW q \in Collaterals, NEW g, NEW a, Seizable(o, r, q, g, a),
           a.repay = DivCeil(a.settle, SF), g.reason = "Order" => g.slot \in OrderSlot,
           g.reason = "Order" /\ o.orders[g.slot].opportunity = "Single" =>
               a.settle <= o.orders[g.slot].size
    PROVE  LET n == Consumed(Seized(o, r, q, g, a), g, a)
           IN  Kept(n, now, ended(Recorded(f, g, a), n)) /\ Cleared(o, n)
<1> DEFINE s == Seized(o, r, q, g, a)
           n == Consumed(s, g, a)
           h == Recorded(f, g, a)
<1>1. o.borrowed_sf \in [ReserveId -> Nat] /\ o.deposited \in [ReserveId -> 0..MaxDeposit]
      /\ r \in ReserveId /\ q \in ReserveId
  BY SaneFields, Sets DEF Kept
<1>2. a.settle \in Nat
  BY <1>1 DEF Seizable
<1>3. Pending(o, f) /\ now \in Nat /\ Sane(o, now)
  BY LoggedPending, ReserveFacts DEF Kept
<1>4. /\ Sane(s, now) /\ Pending(s, f) /\ Cleared(o, s)
      /\ SeizedFrom(o, s, r, q, a)
      /\ ~HasDebt(s) => OrdersGone(s)
      /\ Borrows(s) \subseteq Borrows(o)
  BY <1>3, SeizedSane
<1> HIDE DEF s
<1>5. /\ Sane(n, now) /\ Pending(n, h)
      /\ n.deposited = s.deposited /\ n.borrowed_sf = s.borrowed_sf
      /\ \A i \in OrderSlot : SameKind(n.orders[i], s.orders[i])
  BY <1>2, <1>4, PendingConsumed DEF SeizedFrom
<1>6. h \in Records
  BY <1>2, RecordedType
<1> HIDE DEF n, h
<1>7. HasDebt(n) <=> HasDebt(s)
  BY <1>5 DEF HasDebt, Borrows
<1>8. Deposits(n) = Deposits(s) /\ Borrows(n) = Borrows(s)
  BY <1>5 DEF Deposits, Borrows
<1>9. Deposits(s) \subseteq Deposits(o)
  <2> SUFFICES ASSUME NEW x \in Deposits(s) PROVE o.deposited[x] # 0
    BY DEF Deposits
  <2>1. x \in ReserveId /\ s.deposited[x] # 0
    BY Sets DEF Deposits
  <2>2. s.deposited[x] = IF x = q THEN o.deposited[x] - a.withdraw ELSE o.deposited[x]
    BY <1>1, <1>4, <2>1 DEF SeizedFrom
  <2>3. a.withdraw \in 0..o.deposited[q]
    BY DEF Seizable
  <2> QED
    BY <1>1, <2>1, <2>2, <2>3, BoundTypes
<1>10. ~HasDebt(n) => OrdersGone(n)
  <2> SUFFICES ASSUME ~HasDebt(s) PROVE OrdersGone(n)
    BY <1>7
  <2>1. \A i \in OrderSlot : s.orders[i] = NoOrder /\ SameKind(n.orders[i], NoOrder)
    BY <1>4, <1>5 DEF OrdersGone
  <2>2. n = s
    BY DEF n, Consumed
  <2> QED
    BY <1>4, <2>2
<1>11. Fits(n)
  <2>1. CASE HasDebt(n) /\ Deposits(n) # {}
    <3>1. Fewer(Deposits(n), Deposits(o)) /\ Fewer(Borrows(n), Borrows(o))
      BY <1>4, <1>8, <1>9, <2>1 DEF Fewer, HasDebt
    <3>2. ASSUME NEW i \in OrderSlot PROVE is_supported_by(n.orders[i], n)
      <4>1. is_supported_by(o.orders[i], n)
        BY <3>1, SupportedLess DEF Supported
      <4>2. SameKind(n.orders[i], o.orders[i])
        BY <1>4, <1>5, <1>7, <2>1 DEF SeizedFrom
      <4> QED
        BY <4>1, <4>2, KindSupported
    <3> QED
      BY <3>2 DEF Fits, Supported
  <2>2. CASE ~HasDebt(n)
    BY <1>10, <2>2, GoneSupported DEF Fits
  <2>3. CASE HasDebt(n) /\ Deposits(n) = {}
    BY <2>3 DEF Fits
  <2> QED
    BY <2>1, <2>2, <2>3
<1>12. ended(h, n) \in Records /\ Logged(n, ended(h, n))
  BY <1>5, <1>6, EndedLogged
<1> QED
  BY <1>5, <1>10, <1>11, <1>12 DEF Kept, Cleared, n, h, s

-----------------------------------------------------------------------------
(* The inductive invariant                                                 *)

LimitType == limits \in [ReserveId -> [crossed : BOOLEAN, since : 0..MaxDay]]
Inv == Reserves /\ fresh \subseteq ReserveId /\ LimitType /\ Kept(ob, now, filled)
Stays == Inv' /\ Cleared(ob, ob')

LEMMA StaysBy ==
    ASSUME Inv, Reserves', fresh' \subseteq ReserveId, LimitType',
           Kept(ob', now', filled'), Cleared(ob, ob')
    PROVE  Stays
  BY DEF Stays, Inv

LEMMA NotedType == ASSUME NEW r \in ReserveId, Reserves, LimitType
                   PROVE  noted(r) \in [ReserveId -> [crossed : BOOLEAN, since : 0..MaxDay]]
<1> DEFINE s == IF ~limits[r].crossed THEN 0 ELSE IF limits[r].since = 0 THEN now ELSE limits[r].since
           l == [limits[r] EXCEPT !.since = s]
<1>1. limits \in [ReserveId -> [crossed : BOOLEAN, since : 0..MaxDay]]
  BY DEF LimitType
<1>2. s \in 0..MaxDay
  BY <1>1, ReserveFacts, BoundTypes
<1>3. noted(r) = [limits EXCEPT ![r] = l]
  BY <1>1 DEF noted
<1>4. l \in [crossed : BOOLEAN, since : 0..MaxDay]
  BY <1>1, <1>2
<1> QED
  BY <1>1, <1>3, <1>4

LEMMA InitStays == Init => Inv
<1> SUFFICES ASSUME Init PROVE Inv
  OBVIOUS
<1>1. Reserves
  <2>1. \A r \in ReserveId : price[r] \in Positive
    BY PositionAssumption DEF Init, Positive
  <2>2. now \in 1..MaxDay
    BY BoundTypes DEF Init
  <2>3. price \in [ReserveId -> Positive]
    BY <2>1 DEF Init
  <2> QED
    BY <2>2, <2>3 DEF Reserves
<1>2. LimitType /\ fresh \subseteq ReserveId
  BY BoundTypes DEF Init, LimitType
<1>3. filled \in Records
  BY DEF Init, Records, Unfilled
<1>4. ob = NewObligation
  BY DEF Init
<1>5. Sane(NewObligation, now)
  BY <1>1, ReserveFacts, NewSane
<1>6. Logged(NewObligation, filled)
  <2>1. \A i \in OrderSlot : filled[i] = Unfilled /\ NewObligation.orders[i] = NoOrder
    BY NewEntries DEF Init, OrdersGone
  <2> QED
    BY <2>1 DEF Logged, Entered, NoOrder
<1>7. Fits(NewObligation)
  BY NewEntries, GoneSupported DEF Fits
<1> QED
  BY <1>1, <1>2, <1>3, <1>4, <1>5, <1>6, <1>7 DEF Inv, Kept

LEMMA TickStep == ASSUME Inv, Tick PROVE Stays
<1>1. Reserves'
  BY BoundTypes DEF Inv, Tick, Reserves
<1>2. Kept(stale(ob), now + 1, filled) /\ Cleared(ob, stale(ob))
  BY KeptStale DEF Inv
<1>3. fresh' \subseteq ReserveId /\ LimitType'
  BY DEF Inv, Tick, LimitType
<1>4. ob' = stale(ob) /\ now' = now + 1 /\ filled' = filled
  BY DEF Tick
<1> QED
  BY <1>1, <1>2, <1>3, <1>4, StaysBy

LEMMA SameReserves ==
    ASSUME Inv, UNCHANGED <<price, now>>
    PROVE  Reserves'
  BY DEF Inv, Reserves

LEMMA SameLimits == ASSUME Inv, UNCHANGED limits PROVE LimitType'
  BY DEF Inv, LimitType

LEMMA NotedLimits == ASSUME Inv, NEW r \in ReserveId, limits' = noted(r) PROVE LimitType'
  BY NotedType DEF Inv, LimitType

LEMMA RefreshReserveStep ==
    ASSUME Inv, NEW r \in ReserveId, NEW p \in Prices[r], RefreshReserve(r, p) PROVE Stays
<1>1. Reserves'
  BY PositionAssumption DEF Inv, Reserves, RefreshReserve, Positive
<1>2. fresh' \subseteq ReserveId /\ LimitType'
  BY NotedLimits DEF Inv, RefreshReserve
<1>3. ob' = ob /\ now' = now /\ filled' = filled
  BY DEF RefreshReserve
<1>4. Kept(ob, now, filled) /\ Cleared(ob, ob)
  BY DEF Inv, Cleared
<1> QED
  BY <1>1, <1>2, <1>3, <1>4, StaysBy

LEMMA LimitMovesStep == ASSUME Inv, NEW r \in ReserveId, LimitMoves(r) PROVE Stays
<1>1. Reserves'
  BY SameReserves DEF LimitMoves
<1>2. fresh' \subseteq ReserveId /\ LimitType'
  BY DEF Inv, LimitMoves, LimitType
<1>3. ob' = ob /\ now' = now /\ filled' = filled
  BY DEF LimitMoves
<1>4. Kept(ob, now, filled) /\ Cleared(ob, ob)
  BY DEF Inv, Cleared
<1> QED
  BY <1>1, <1>2, <1>3, <1>4, StaysBy

LEMMA RefreshObligationStep == ASSUME Inv, RefreshObligation PROVE Stays
<1>1. Reserves' /\ LimitType' /\ fresh' \subseteq ReserveId
  BY SameReserves, SameLimits DEF Inv, RefreshObligation
<1>2. Kept(refreshed(ob), now, filled) /\ Cleared(ob, refreshed(ob))
  BY KeptRefreshed DEF Inv
<1>3. ob' = refreshed(ob) /\ now' = now /\ filled' = filled
  BY DEF RefreshObligation
<1> QED
  BY <1>1, <1>2, <1>3, StaysBy

LEMMA DepositStep ==
    ASSUME Inv, NEW q \in Collaterals, NEW c \in Amounts, Deposit(q, c) PROVE Stays
<1>1. Reserves' /\ LimitType' /\ fresh' \subseteq ReserveId
  BY SameReserves, SameLimits DEF Inv, Deposit
<1>2. c \in Nat
  BY PositionAssumption
<1>3. Kept(deposited(ob, q, c), now, filled) /\ Cleared(ob, deposited(ob, q, c))
  BY <1>2, KeptDeposited DEF Inv, Deposit
<1>4. ob' = deposited(ob, q, c) /\ now' = now /\ filled' = filled
  BY DEF Deposit
<1> QED
  BY <1>1, <1>3, <1>4, StaysBy

\* Collateral is taken out only of an obligation whose orders fit.
LEMMA EntrySupported ==
    ASSUME NEW o, Fits(o), NEW q \in Deposits(o) PROVE Supported(o)
  BY DEF Fits

LEMMA WithdrawStep ==
    ASSUME Inv, NEW q \in Collaterals, NEW n \in Amounts, NEW redeemed \in BOOLEAN,
           Withdraw(q, n, redeemed)
    PROVE  Stays
<1> DEFINE v == Values(ob, ob.valued)
           c == withdraw_amount(ob, v, q, n, "MaxLtv")
           o == closed_if_empty(withdrawn(ob, q, c))
<1>1. Reserves'
  BY SameReserves DEF Withdraw
<1>2. fresh' \subseteq ReserveId
  BY DEF Inv, Withdraw
<1>3. LimitType'
  <2>1. limits' = noted(q) \/ UNCHANGED limits
    BY DEF Withdraw
  <2> QED
    BY <2>1, Sets, SameLimits, NotedLimits
<1>4. /\ Fresh(ob) /\ q \in Deposits(ob) /\ ob' = o
      /\ filled' = ended(filled, ob') /\ now' = now
  BY DEF Withdraw, CanWithdraw
<1>5. /\ Sane(ob, now) /\ filled \in Records /\ Pending(ob, filled) /\ Supported(ob) /\ Reserves
  BY <1>4, LoggedPending, EntrySupported DEF Inv, Kept
<1>6. c \in 0..ob.deposited[q]
  <2>1. CanValue(ob, ob.valued) /\ ob.deposited[q] # 0 /\ n \in Nat
    BY <1>4, <1>5, FreshValues, PositionAssumption DEF Deposits
  <2> QED
    BY <2>1, WithdrawType
<1>7. c \in Nat /\ c <= ob.deposited[q]
  <2>1. ob.deposited[q] \in Nat
    BY <1>5, SaneFields, BoundTypes, Sets
  <2> HIDE DEF c
  <2> QED
    BY <1>6, <2>1
<1> HIDE DEF c
<1>8. Kept(o, now, ended(filled, o)) /\ Cleared(ob, o)
  BY <1>5, <1>7, KeptWithdrawn
<1> HIDE DEF o
<1> QED
  BY <1>1, <1>2, <1>3, <1>4, <1>8, StaysBy

LEMMA BorrowStep ==
    ASSUME Inv, NEW r \in Debts, NEW n \in Amounts, Borrow(r, n) PROVE Stays
<1> DEFINE b == borrow_amount(ob, Values(ob, ob.valued), r, n)
           o == Owing(ob, r, b, now)
<1>1. Reserves' /\ LimitType' /\ fresh' \subseteq ReserveId
  BY SameReserves, SameLimits DEF Inv, Borrow
<1>2. /\ Fresh(ob) /\ ~TermEnded(ob, r) /\ b >= SF
      /\ check_orders_supported_after_user_operation(o)
      /\ ob' = o /\ now' = now /\ filled' = filled
  BY DEF Borrow, Owing
<1>3. b \in Positive
  <2>1. CanValue(ob, ob.valued) /\ n \in Nat /\ r \in ReserveId /\ price \in [ReserveId -> Positive]
    BY <1>2, FreshValues, PositionAssumption, Sets DEF Inv, Kept, Reserves
  <2>2. b \in Nat
    BY <2>1, BorrowType
  <2> QED
    BY <1>2, <2>2, ScaleType DEF Positive
<1> HIDE DEF b
<1>4. Kept(o, now, filled) /\ Cleared(ob, o)
  BY <1>2, <1>3, KeptBorrowed DEF Inv
<1> HIDE DEF o
<1> QED
  BY <1>1, <1>2, <1>4, StaysBy

LEMMA SettleType ==
    ASSUME NEW o, NEW t, Sane(o, t), NEW r \in Debts, NEW n \in Amounts
    PROVE  /\ Lesser(n * SF, o.borrowed_sf[r]) \in Nat
           /\ Lesser(n * SF, o.borrowed_sf[r]) <= o.borrowed_sf[r]
<1>1. n * SF \in Nat
  BY PositionAssumption, ScaleType
<1>2. o.borrowed_sf[r] \in Nat
  BY Sets, SaneFields
<1> QED
  BY <1>1, <1>2 DEF Lesser

LEMMA RepayStep ==
    ASSUME Inv, NEW r \in Debts, NEW n \in Amounts, Repay(r, n) PROVE Stays
<1> DEFINE a == Lesser(n * SF, ob.borrowed_sf[r])
           o == repaid(ob, r, a)
<1>1. Reserves' /\ LimitType' /\ fresh' \subseteq ReserveId
  BY SameReserves, SameLimits DEF Inv, Repay
<1>2. /\ check_orders_supported_after_user_operation(o)
      /\ ob' = o /\ now' = now /\ filled' = ended(filled, ob')
  BY DEF Repay
<1>3. a \in Nat /\ a <= ob.borrowed_sf[r] /\ Kept(ob, now, filled)
  BY SettleType DEF Inv, Kept
<1> HIDE DEF a
<1>4. Kept(o, now, ended(filled, o)) /\ Cleared(ob, o)
  BY <1>2, <1>3, KeptRepaid
<1> HIDE DEF o
<1> QED
  BY <1>1, <1>2, <1>4, StaysBy

LEMMA SocializeLossStep ==
    ASSUME Inv, NEW r \in Debts, NEW n \in Amounts, SocializeLoss(r, n) PROVE Stays
<1> DEFINE a == Lesser(n * SF, ob.borrowed_sf[r])
           o == repaid(ob, r, a)
<1>1. Reserves' /\ LimitType' /\ fresh' \subseteq ReserveId
  BY SameReserves, SameLimits DEF Inv, SocializeLoss
<1>2. /\ Deposits(ob) = {}
      /\ ob' = o /\ now' = now /\ filled' = ended(filled, ob')
  BY DEF SocializeLoss
<1>3. a \in Nat /\ a <= ob.borrowed_sf[r] /\ Kept(ob, now, filled)
  BY SettleType DEF Inv, Kept
<1> HIDE DEF a
<1>4. Kept(o, now, ended(filled, o)) /\ Cleared(ob, o)
  BY <1>2, <1>3, KeptRepaid
<1> HIDE DEF o
<1> QED
  BY <1>1, <1>2, <1>4, StaysBy

\* The second half of the swaps, from what the first half left, refreshed.
LEMMA PermissiveStep ==
    ASSUME Inv, fresh' \subseteq ReserveId, NEW m, Sane(m, now), Pending(m, filled), Supported(m),
           NEW q \in Collaterals, NEW n \in Amounts, NEW ltv,
           WithdrawPermissively(refreshed(m), q, n, ltv), Cleared(ob, m)
    PROVE  Stays
<1> DEFINE o == refreshed(m)
           c == withdraw_amount(o, Values(o, o.valued), q, n, "Threshold")
           w == closed_if_empty(withdrawn(o, q, c))
<1>1. price \in [ReserveId -> Positive] /\ now \in Nat /\ Reserves
  BY ReserveFacts DEF Inv
<1>2. /\ Sane(o, now) /\ o.valued = price
      /\ o.deposited = m.deposited /\ o.borrowed_sf = m.borrowed_sf /\ o.orders = m.orders
  BY <1>1, RefreshedSane
<1>3. /\ q \in Deposits(o) /\ ob' = w /\ limits' = noted(q)
      /\ filled' = ended(filled, ob') /\ price' = price /\ now' = now
  BY DEF WithdrawPermissively
<1> HIDE DEF o
<1>4. Pending(o, filled) /\ Supported(o)
  BY <1>2, PendingLess, SameFits
<1>5. CanValue(o, o.valued) /\ o.deposited[q] # 0 /\ o.deposited[q] \in Nat /\ n \in Nat
  BY <1>1, <1>2, <1>3, Sets, SaneFields, BoundTypes, PositionAssumption DEF CanValue, Deposits
<1>6. c \in 0..o.deposited[q]
  BY <1>5, WithdrawType
<1> HIDE DEF c
<1>7. c \in Nat /\ c <= o.deposited[q]
  BY <1>5, <1>6
<1>8. filled \in Records
  BY DEF Inv, Kept
<1>9. Kept(w, now, ended(filled, w)) /\ Cleared(o, w)
  BY <1>1, <1>2, <1>4, <1>7, <1>8, KeptWithdrawn
<1>10. Cleared(ob, w)
  <2>1. HasDebt(o) <=> HasDebt(m)
    BY <1>2, SameFits
  <2>2. ASSUME HasDebt(ob), ~HasDebt(w), ~HasDebt(m) PROVE OrdersGone(w)
    <3>1. OrdersGone(m) /\ OrdersGone(o)
      BY <1>2, <2>2 DEF Cleared, OrdersGone
    <3>2. w = withdrawn(o, q, c) \/ w = NewObligation
      BY DEF closed_if_empty
    <3>3. withdrawn(o, q, c).orders = o.orders
      BY <1>2, <1>7, Sets, WithdrawnSane
    <3> QED
      BY <3>1, <3>2, <3>3, NewEntries DEF OrdersGone
  <2> QED
    BY <1>9, <2>1, <2>2 DEF Cleared
<1> HIDE DEF w
<1>11. Reserves' /\ LimitType'
  BY <1>3, Sets, SameReserves, NotedLimits
<1> QED
  BY <1>3, <1>9, <1>10, <1>11, StaysBy

LEMMA RepayAndWithdrawStep ==
    ASSUME Inv, NEW r \in Debts, NEW n \in Amounts, NEW q \in Collaterals, NEW c \in Amounts,
           RepayAndWithdraw(r, n, q, c)
    PROVE  Stays
<1> DEFINE a == Lesser(n * SF, ob.borrowed_sf[r])
           o == repaid(ob, r, a)
           ltv == loan_to_value(Values(ob, ob.valued))
<1>1. fresh' \subseteq ReserveId
  BY DEF Inv, RepayAndWithdraw
<1>2. /\ check_orders_supported_after_user_operation(o)
      /\ WithdrawPermissively(refreshed(o), q, c, ltv)
  BY DEF RepayAndWithdraw
<1>3. a \in Nat /\ a <= ob.borrowed_sf[r] /\ Sane(ob, now) /\ Pending(ob, filled)
  BY SettleType, LoggedPending DEF Inv, Kept
<1> HIDE DEF a, ltv
<1>4. Sane(o, now) /\ Pending(o, filled) /\ Cleared(ob, o)
  BY <1>3, PendingRepaid
<1>5. Supported(o)
  BY <1>2 DEF check_orders_supported_after_user_operation, Supported
<1> HIDE DEF o
<1> QED
  BY <1>1, <1>2, <1>4, <1>5, PermissiveStep

LEMMA DepositAndWithdrawStep ==
    ASSUME Inv, NEW r \in Collaterals, NEW q \in Collaterals, NEW d \in Amounts, NEW c \in Amounts,
           DepositAndWithdraw(r, d, q, c)
    PROVE  Stays
<1> DEFINE o == deposited(ob, r, d)
           ltv == loan_to_value(Values(ob, ob.valued))
<1>1. fresh' \subseteq ReserveId
  BY DEF Inv, DepositAndWithdraw
<1>2. /\ check_orders_supported_after_user_operation(o)
      /\ ob.deposited[r] + d <= MaxDeposit
      /\ WithdrawPermissively(refreshed(o), q, c, ltv)
  BY DEF DepositAndWithdraw
<1> HIDE DEF ltv
<1>3. d \in Nat /\ Kept(ob, now, filled) /\ Reserves
  BY PositionAssumption DEF Inv
<1>4. Kept(o, now, filled) /\ Cleared(ob, o)
  BY <1>2, <1>3, KeptDeposited
<1>5. Supported(o)
  BY <1>2 DEF check_orders_supported_after_user_operation, Supported
<1> HIDE DEF o
<1>6. Sane(o, now) /\ Pending(o, filled)
  BY <1>4, LoggedPending DEF Kept
<1> QED
  BY <1>1, <1>2, <1>4, <1>5, <1>6, PermissiveStep

LEMMA SettingsKept ==
    ASSUME NEW o, NEW f, NEW t, Kept(o, t, f), NEW n, Sane(n, t),
           n.borrowed_sf = o.borrowed_sf, n.deposited = o.deposited, n.orders = o.orders
    PROVE  Kept(n, t, f) /\ Cleared(o, n)
  BY SameFits DEF Kept, Logged, Cleared

LEMMA RequestElevationGroupStep ==
    ASSUME Inv, NEW g \in Group \cup {ELEVATION_GROUP_NONE}, RequestElevationGroup(g)
    PROVE  Stays
<1> DEFINE o == [ob EXCEPT !.group = g]
           n == stale(o)
<1>1. Reserves' /\ LimitType' /\ fresh' \subseteq ReserveId
  BY SameReserves, SameLimits DEF Inv, RequestElevationGroup
<1>2. ob' = n /\ now' = now /\ filled' = filled
  BY DEF RequestElevationGroup
<1>3. Kept(ob, now, filled) /\ Sane(ob, now)
  BY DEF Inv, Kept
<1>4. /\ Sane(o, now) /\ o.borrowed_sf = ob.borrowed_sf /\ o.deposited = ob.deposited
      /\ o.orders = ob.orders
  BY <1>3, GroupSane
<1> HIDE DEF o
<1>5. Sane(n, now) /\ n.borrowed_sf = o.borrowed_sf /\ n.deposited = o.deposited /\ n.orders = o.orders
  BY <1>4, StaleSane
<1> HIDE DEF n
<1>6. Kept(n, now, filled) /\ Cleared(ob, n)
  BY <1>3, <1>4, <1>5, SettingsKept
<1> QED
  BY <1>1, <1>2, <1>6, StaysBy

\* A margin call, with its target, or the end of one.
LEMMA MarginCallStep ==
    ASSUME Inv, NEW c \in 0..MaxDay, NEW y \in Nat,
           ob' = [ob EXCEPT !.margin_call = c, !.target = y],
           UNCHANGED <<price, fresh, limits, now, filled>>
    PROVE  Stays
<1> DEFINE n == [ob EXCEPT !.margin_call = c, !.target = y]
<1>1. Reserves' /\ LimitType' /\ fresh' \subseteq ReserveId
  BY SameReserves, SameLimits DEF Inv
<1>2. Kept(ob, now, filled) /\ Sane(ob, now)
  BY DEF Inv, Kept
<1>4. /\ Sane(n, now) /\ n.borrowed_sf = ob.borrowed_sf /\ n.deposited = ob.deposited
      /\ n.orders = ob.orders
  BY <1>2, MarginSane
<1>5. ob' = n /\ now' = now /\ filled' = filled
  OBVIOUS
<1> HIDE DEF n
<1>6. Kept(n, now, filled) /\ Cleared(ob, n)
  BY <1>2, <1>4, SettingsKept
<1> QED
  BY <1>1, <1>5, <1>6, StaysBy

LEMMA MarkStep ==
    ASSUME Inv, NEW t \in Targets, MarkForDeleveraging(t) PROVE Stays
<1>1. now \in 0..MaxDay /\ t \in Nat
  BY ReserveFacts, PositionAssumption DEF Inv
<1> QED
  BY <1>1, MarginCallStep DEF MarkForDeleveraging

LEMMA UnmarkStep == ASSUME Inv, UnmarkForDeleveraging PROVE Stays
<1>1. 0 \in 0..MaxDay /\ 0 \in Nat
  BY BoundTypes
<1> QED
  BY <1>1, MarginCallStep DEF UnmarkForDeleveraging

LEMMA SetOrderStep ==
    ASSUME Inv, NEW i \in OrderSlot, NEW order \in OrderConfigs \cup {NoOrder},
           SetObligationOrder(i, order)
    PROVE  Stays
<1> DEFINE n == [ob EXCEPT !.orders[i] = order]
           e == [filled[i] EXCEPT !.size = order.size, !.settled = 0]
           f == [filled EXCEPT ![i].size = order.size, ![i].settled = 0]
<1>1. Reserves' /\ LimitType' /\ fresh' \subseteq ReserveId
  BY SameReserves, SameLimits DEF Inv, SetObligationOrder
<1>2. ob' = n /\ now' = now /\ filled' = f /\ is_supported_by(order, ob) /\ validate_order(order)
  BY DEF SetObligationOrder
<1>3. order \in Order /\ ValidBonus(order) /\ ValidSize(order)
  <2>1. order \in Order
    BY NoOrderType, PositionAssumption
  <2>2. CASE order = NoOrder
    BY <2>2, NoOrderType
  <2>3. CASE order # NoOrder
    <3>1. order.min_bonus <= order.max_bonus
      BY <1>2, <2>3 DEF validate_order
    <3>2. (order.opportunity = "Single") = (order.size > 0)
      BY ONLY <1>2, <2>3, Zenon DEF validate_order
    <3> QED
      BY <2>1, <3>1, <3>2, Zenon DEF ValidBonus, ValidSize
  <2> QED
    BY <2>1, <2>2, <2>3
<1>4. Kept(ob, now, filled) /\ Sane(ob, now) /\ ob.orders \in [OrderSlot -> Order]
      /\ filled \in [OrderSlot -> [size : Nat, settled : Nat]]
  BY SaneFields DEF Inv, Kept, Records
<1>5. /\ Sane(n, now) /\ n.orders = [ob.orders EXCEPT ![i] = order]
      /\ n.borrowed_sf = ob.borrowed_sf /\ n.deposited = ob.deposited
  BY <1>3, <1>4, OrderSane
<1> HIDE DEF n
<1>6. \A j \in OrderSlot : n.orders[j] = IF j = i THEN order ELSE ob.orders[j]
  BY <1>4, <1>5
<1>7. order.size \in Nat /\ order.opportunity \in {"All", "Single"}
  BY <1>3 DEF Order
<1>8. e = [size |-> order.size, settled |-> 0]
  <2>1. filled[i] \in [size : Nat, settled : Nat]
    BY <1>4
  <2>2. e.size = order.size /\ e.settled = 0 /\ e \in [size : Nat, settled : Nat]
    BY <1>7, <2>1
  <2> HIDE DEF e
  <2> QED
    BY <2>2
<1>9. f = [filled EXCEPT ![i] = e]
  BY <1>4
<1>10. e \in [size : Nat, settled : Nat] /\ Entered(order, e)
  <2>1. order.opportunity = "All" => order.size = 0
    BY <1>3, <1>7 DEF ValidSize
  <2>2. e.size = order.size /\ e.settled = 0
    BY <1>8
  <2>3. order.opportunity = "All" => e = Unfilled
    BY <1>8, <2>1 DEF Unfilled
  <2>4. order.opportunity = "Single" => e.settled + order.size <= e.size
    BY <1>7, <2>2
  <2> QED
    BY <1>7, <1>8, <2>3, <2>4 DEF Entered
<1> HIDE DEF e, f
<1>11. f \in Records /\ \A j \in OrderSlot : f[j] = IF j = i THEN e ELSE filled[j]
  BY <1>4, <1>9, <1>10 DEF Records
<1>12. Logged(n, f)
  BY <1>4, <1>6, <1>10, <1>11 DEF Kept, Logged
<1>13. Fits(n)
  <2>1. /\ Deposits(n) = Deposits(ob) /\ Borrows(n) = Borrows(ob)
        /\ HasDebt(n) <=> HasDebt(ob)
    BY <1>5, SameFits
  <2>2. \A x : is_supported_by(x, n) <=> is_supported_by(x, ob)
    BY <2>1 DEF is_supported_by
  <2> QED
    BY <1>2, <1>4, <1>6, <2>1, <2>2 DEF Kept, Fits, Supported
<1>14. Cleared(ob, n)
  BY <1>5, SameFits DEF Cleared
<1> QED
  BY <1>1, <1>2, <1>5, <1>11, <1>12, <1>13, <1>14, StaysBy DEF Kept

\* What a liquidation does, from its grounds.
LEMMA LiquidateFacts ==
    ASSUME Inv, NEW r \in Debts, NEW q \in Collaterals, NEW n \in Amounts,
           NEW redeemed \in BOOLEAN, Liquidate(r, q, n, redeemed)
    PROVE  LET v == Values(ob, ob.valued)
           IN  /\ Fresh(ob) /\ CanValue(ob, ob.valued) /\ GoodValues(v)
               /\ ob.borrowed_sf[r] # 0 /\ ob.deposited[q] # 0
               /\ UNCHANGED <<price, now>>
               /\ \E g \in get_liquidation_params(ob, v, r, q) :
                    LET a == calculate_liquidation(ob, v, ob.valued, r, q, n, g)
                    IN  /\ GoodGround(ob, v, r, g) /\ Seizable(ob, r, q, g, a)
                        /\ a.repay = DivCeil(a.settle, SF) /\ a.withdraw # 0
                        /\ g.reason = "Order" /\ ob.orders[g.slot].opportunity = "Single" =>
                              a.settle <= ob.orders[g.slot].size
                        /\ ob' = Consumed(Seized(ob, r, q, g, a), g, a)
                        /\ filled' = ended(Recorded(filled, g, a), ob')
<1> DEFINE v == Values(ob, ob.valued)
<1>1. /\ Fresh(ob) /\ v.deposited # 0 /\ r \in Borrows(ob) /\ q \in Deposits(ob)
      /\ UNCHANGED <<price, now>>
  BY DEF Liquidate
<1>2. Sane(ob, now) /\ now \in Nat /\ n \in Nat
  BY ReserveFacts, PositionAssumption DEF Inv, Kept
<1>3. CanValue(ob, ob.valued) /\ ob.borrowed_sf[r] # 0 /\ ob.deposited[q] # 0
  BY <1>1, <1>2, FreshValues DEF Borrows, Deposits
<1>4. GoodValues(v)
  BY <1>1, <1>3, ValueTypes DEF GoodValues, Positive
<1>5. PICK g \in get_liquidation_params(ob, v, r, q) :
         LET a == calculate_liquidation(ob, v, ob.valued, r, q, n, g)
         IN  /\ a.repay # 0 /\ a.withdraw # 0
             /\ ob' = Consumed(Seized(ob, r, q, g, a), g, a)
             /\ filled' = ended(Recorded(filled, g, a), ob')
  BY DEF Liquidate, Consumed, Seized, Recorded
<1>6. Checked(ob)
  BY <1>2, SaneFields DEF Checked, Inv, Reserves, LimitType, Sane
<1>7. GoodGround(ob, v, r, g)
  BY <1>4, <1>6, Sets, ParamsGood
<1> DEFINE a == calculate_liquidation(ob, v, ob.valued, r, q, n, g)
<1>8. /\ a.settle \in 0..ob.borrowed_sf[r] /\ a.withdraw \in 0..ob.deposited[q]
      /\ a.repay = DivCeil(a.settle, SF)
      /\ g.reason = "Order" /\ ob.orders[g.slot].opportunity = "Single" =>
            a.settle <= ob.orders[g.slot].size
      /\ g.reason = "Term" /\ a.settle \in 1..(ob.borrowed_sf[r] - 1) =>
            a.settle <= saturating_sub(ob.borrowed_sf[r], throttle_protected_amount(ob, r))
  BY <1>2, <1>3, <1>4, <1>7, LiquidationTypes
<1>9. a.repay # 0 /\ a.withdraw # 0 /\ ob' = Consumed(Seized(ob, r, q, g, a), g, a)
      /\ filled' = ended(Recorded(filled, g, a), ob')
  BY <1>5
<1> HIDE DEF a, v
<1>10. a.settle # 0
  <2>1. DivCeil(0, SF) = 0
    BY ScaleType DEF DivCeil
  <2> QED
    BY <1>8, <1>9, <2>1
<1>11. ob.borrowed_sf[r] \in Nat
  BY <1>2, Sets, SaneFields
<1>12. Seizable(ob, r, q, g, a)
  BY <1>7, <1>8, <1>10, <1>11 DEF Seizable, GoodGround
<1> QED
  BY <1>1, <1>3, <1>4, <1>7, <1>8, <1>9, <1>12 DEF a, v

LEMMA LiquidateStep ==
    ASSUME Inv, NEW r \in Debts, NEW q \in Collaterals, NEW n \in Amounts,
           NEW redeemed \in BOOLEAN, Liquidate(r, q, n, redeemed)
    PROVE  Stays
<1> DEFINE v == Values(ob, ob.valued)
<1>1. /\ Fresh(ob) /\ ob.deposited[q] # 0 /\ UNCHANGED <<price, now>>
  BY LiquidateFacts
<1>2. PICK g \in get_liquidation_params(ob, v, r, q) :
         LET a == calculate_liquidation(ob, v, ob.valued, r, q, n, g)
         IN  /\ GoodGround(ob, v, r, g) /\ Seizable(ob, r, q, g, a)
             /\ a.repay = DivCeil(a.settle, SF)
             /\ g.reason = "Order" /\ ob.orders[g.slot].opportunity = "Single" =>
                   a.settle <= ob.orders[g.slot].size
             /\ ob' = Consumed(Seized(ob, r, q, g, a), g, a)
             /\ filled' = ended(Recorded(filled, g, a), ob')
  BY LiquidateFacts
<1> DEFINE a == calculate_liquidation(ob, v, ob.valued, r, q, n, g)
           o == Consumed(Seized(ob, r, q, g, a), g, a)
<1>3. Reserves' /\ fresh' \subseteq ReserveId
  BY <1>1, SameReserves DEF Inv, Liquidate
<1>4. LimitType'
  <2>1. limits' = noted(q) \/ UNCHANGED limits
    BY DEF Liquidate
  <2> QED
    BY <2>1, Sets, SameLimits, NotedLimits
<1>5. q \in Deposits(ob) /\ Kept(ob, now, filled) /\ Reserves
  BY <1>1 DEF Deposits, Inv
<1>6. Supported(ob)
  BY <1>5, EntrySupported DEF Kept
<1>7. g.reason = "Order" => g.slot \in OrderSlot
  BY <1>2 DEF GoodGround
<1>8. /\ Seizable(ob, r, q, g, a) /\ a.repay = DivCeil(a.settle, SF)
      /\ g.reason = "Order" /\ ob.orders[g.slot].opportunity = "Single" =>
            a.settle <= ob.orders[g.slot].size
      /\ ob' = o /\ filled' = ended(Recorded(filled, g, a), ob')
  BY <1>2
<1> HIDE DEF a
<1>9. Kept(o, now, ended(Recorded(filled, g, a), o)) /\ Cleared(ob, o)
  BY <1>1, <1>5, <1>6, <1>7, <1>8, KeptLiquidated
<1> HIDE DEF o
<1> QED
  BY <1>1, <1>3, <1>4, <1>8, <1>9, StaysBy

LEMMA NextStays == Inv /\ [Next]_vars => Stays
<1> SUFFICES ASSUME Inv, [Next]_vars PROVE Stays
  OBVIOUS
<1>1. CASE UNCHANGED vars
  <2>1. Reserves' /\ LimitType' /\ fresh' \subseteq ReserveId
    BY <1>1, SameReserves, SameLimits DEF vars, Inv
  <2>2. ob' = ob /\ now' = now /\ filled' = filled
    BY <1>1 DEF vars
  <2>3. Kept(ob, now, filled) /\ Cleared(ob, ob)
    BY DEF Inv, Cleared
  <2> QED
    BY <2>1, <2>2, <2>3, StaysBy
<1>2. CASE Next
  BY <1>2, TickStep, RefreshObligationStep, UnmarkStep, LimitMovesStep, RefreshReserveStep,
     DepositStep, WithdrawStep, BorrowStep, RepayStep, RepayAndWithdrawStep,
     DepositAndWithdrawStep, RequestElevationGroupStep, MarkStep, SetOrderStep,
     LiquidateStep, SocializeLossStep DEF Next
<1> QED
  BY <1>1, <1>2

\* The invariant holds in every reachable state, and every step keeps it and
\* takes the orders with the last debt.
THEOREM Stable == Spec => []Inv /\ [][Inv /\ Stays]_vars
<1>1. Init => Inv
  BY InitStays
<1>2. Inv /\ [Next]_vars => Inv' /\ Stays
  BY NextStays DEF Stays
<1> QED
  BY <1>1, <1>2, PTL DEF Spec

-----------------------------------------------------------------------------
(* What holds in every state and of every step                             *)

LEMMA InvTypes == Inv => TypeOK
<1> SUFFICES ASSUME Inv PROVE TypeOK
  OBVIOUS
<1>1. Sane(ob, now) /\ filled \in [OrderSlot -> [size : Nat, settled : Nat]]
  BY DEF Inv, Kept, Records
<1>2. price \in [ReserveId -> Nat] /\ now \in 1..MaxDay
  BY DEF Inv, Reserves, Positive
<1>3. \A r \in Debts : /\ (ob.borrowed_sf[r] = 0) = (ob.since[r] = 0)
                       /\ ob.borrowed_sf[r] = 0 => ob.at_expiration[r] = 0
  BY <1>1 DEF Sane, Captured
<1> QED
  BY <1>1, <1>2, <1>3, SaneFields DEF TypeOK, Inv, LimitType

\* Types of the obligation and of what the reserves save for it.
THEOREM PositionTyping == Spec => []TypeOK
  BY Stable, InvTypes, PTL

\* What liquidators settled for an order and what it is still good for
\* together are within what its owner put in it.
THEOREM OrdersSettleTheirSize == Spec => []OrderSizeRespected
<1>1. Inv => OrderSizeRespected
  BY LoggedPending DEF Inv, Kept, Pending, OrderSizeRespected
<1> QED
  BY <1>1, Stable, PTL

\* An order a step leaves behind fits the debts and the collateral left, and
\* none outlives the last debt.
THEOREM OrdersFollowDebts == Spec => OrdersSupported
<1>1. Stays => /\ Deposits(ob') # {} \/ ~HasDebt(ob') =>
                     \A i \in OrderSlot : is_supported_by(ob'.orders[i], ob')
               /\ HasDebt(ob) /\ ~HasDebt(ob') => \A i \in OrderSlot : ob'.orders[i] = NoOrder
  <2> SUFFICES ASSUME Stays
               PROVE  /\ Deposits(ob') # {} \/ ~HasDebt(ob') =>
                            \A i \in OrderSlot : is_supported_by(ob'.orders[i], ob')
                      /\ HasDebt(ob) /\ ~HasDebt(ob') =>
                            \A i \in OrderSlot : ob'.orders[i] = NoOrder
    OBVIOUS
  <2>1. Kept(ob, now, filled)' /\ Cleared(ob, ob')
    BY DEF Stays, Inv
  <2>2. Fits(ob')
    BY <2>1 DEF Kept
  <2> QED
    BY <2>1, <2>2 DEF Fits, Supported, Cleared, OrdersGone
<1> QED
  BY <1>1, Stable, PTL DEF OrdersSupported

\* However liquidations for the end of a term are split and whatever is repaid
\* between them, together they stay within the share of the days gone by.
THEOREM TermsThrottled == Spec => []TermThrottle
<1>1. Inv => TermThrottle
  <2> SUFFICES ASSUME Inv PROVE TermThrottle
    OBVIOUS
  <2>1. ASSUME NEW r \in Debts, ob.term_settled[r] # 0, market.full_liquidation_days # 0
        PROVE  ThrottledBy(ob, r, now)
    BY <2>1 DEF Inv, Kept, Sane, Captured
  <2> QED
    BY <2>1, InvTypes DEF TermThrottle, ThrottledBy, days_since_term_end
<1> QED
  BY <1>1, Stable, PTL

-----------------------------------------------------------------------------
(* Somebody can liquidate                                                  *)

LEMMA FactorAtLeastOne ==
    ASSUME NEW r \in ReserveId
    PROVE  Pct(config[r].borrow_factor) \in Nat /\ Pct(config[r].borrow_factor) >= SF
<1> DEFINE b == config[r].borrow_factor
           x == Pct(b)
<1>1. b \in Nat /\ b >= 100
  BY ConfigType
<1> HIDE DEF b
<1>2. b * SF \in Nat /\ b * SF >= 100 * SF
  BY <1>1, ScaleType
<1>3. x \in Nat /\ b * SF < 100 * x + 100
  BY <1>2, DivBounds DEF Pct
<1> HIDE DEF x
<1>4. x >= SF
  BY <1>2, <1>3, ScaleType
<1> QED
  BY <1>3, <1>4 DEF x, b

LEMMA SumNone ==
    ASSUME NEW f, NEW S, IsFiniteSet(S), \A x \in S : f[x] = 0
    PROVE  SumFunctionOnSet(f, S) = 0
<1>1. {} \in SUBSET S /\ NatOn(f, {}) /\ \A x \in {} : f[x] = f[x]
  BY DEF NatOn
<1>2. \A x \in S \ {} : f[x] = 0
  OBVIOUS
<1> QED
  BY <1>1, <1>2, SumFilter, SumEmpty

\* A value that counts comes from an entry that does.
LEMMA SomeThreshold ==
    ASSUME NEW o, NEW p, CanValue(o, p), Values(o, p).unhealthy # 0
    PROVE  /\ \E q \in Deposits(o) : threshold_pct(o, q) # 0
           /\ Values(o, p).deposited # 0
<1>1. PICK q \in Collaterals : Threshold(o, p)[q] # 0
  BY ValueSums, SumNone, Sets
<1>2. q \in ReserveId /\ o \in Obligations
  BY Sets DEF CanValue
<1> DEFINE mv == collateral_mv(o, p, q)
           pct == threshold_pct(o, q)
<1>3. mv \in Nat /\ pct \in 0..100 /\ Pct(pct) \in Nat /\ Mul(mv, Pct(pct)) # 0
  BY <1>1, <1>2, EntryTypes, SettingTypes DEF Threshold
<1>4. mv # 0
  BY <1>3, MulZero
<1>5. pct # 0
  <2>1. Pct(0) = 0
    BY ScaleType DEF Pct
  <2>2. Mul(mv, 0) = 0
    BY <1>3, MulZero, MulSwap
  <2> QED
    BY <1>3, <2>1, <2>2
<1>6. q \in Deposits(o)
  BY <1>2, <1>4, EntryTypes DEF Deposits
<1>7. Values(o, p).deposited # 0
  <2>1. NatOn(Backing(o, p), Collaterals) /\ Backing(o, p)[q] = mv
    BY PartTypes DEF Backing
  <2>2. mv <= SumFunctionOnSet(Backing(o, p), Collaterals)
    BY <2>1, Sets, SumAtLeast
  <2>3. SumFunctionOnSet(Backing(o, p), Collaterals) \in Nat
    BY <2>1, Sets, SumType
  <2> HIDE DEF mv
  <2> QED
    BY <1>3, <1>4, <2>2, <2>3, ValueSums
<1> QED
  BY <1>5, <1>6, <1>7

LEMMA SomeDebt ==
    ASSUME NEW o, NEW p, CanValue(o, p), Values(o, p).debt # 0
    PROVE  Borrows(o) # {}
<1>1. PICK r \in Debts : Weighed(o, p)[r] # 0
  BY ValueSums, SumNone, Sets
<1>2. r \in ReserveId /\ o \in Obligations
  BY Sets DEF CanValue
<1>3. debt_mv(o, p, r) # 0
  BY <1>1, <1>2, SettingTypes, MulZero DEF Weighed
<1> QED
  BY <1>2, <1>3, EntryTypes DEF Borrows

\* A debt with the highest borrow factor among those that count.
LEMMA DebtToStartWith ==
    ASSUME NEW o, NEW p, CanValue(o, p), Borrows(o) # {}
    PROVE  \E r \in Borrows(o) :
              Pct(config[r].borrow_factor) >= Values(o, p).highest_borrow_factor
<1> DEFINE f == [r \in Debts |-> borrow_factor_f(o, r)]
           b == SumFunctionOnSet(f, Debts)
           B == {r \in Borrows(o) : debt_mv(o, p, r) >= market.min_value_skip_bf}
           H == {ONE} \cup {borrow_factor_f(o, r) : r \in B}
<1>1. o \in Obligations
  BY DEF CanValue
<1>2. NatOn(f, Debts)
  BY <1>1, Sets, SettingTypes DEF NatOn
<1>3. b \in Nat /\ \A r \in Debts : borrow_factor_f(o, r) \in 0..b
  BY <1>2, Sets, BoundedValues
<1> HIDE DEF b
<1>4. H \in SUBSET (0..(SF + b)) /\ H # {}
  <2>1. SF \in 0..(SF + b)
    BY <1>3, ScaleType
  <2>2. ASSUME NEW r \in B PROVE borrow_factor_f(o, r) \in 0..(SF + b)
    <3>1. borrow_factor_f(o, r) \in 0..b
      BY <1>3 DEF Borrows
    <3> QED
      BY <1>3, <3>1, ScaleType
  <2> QED
    BY <2>1, <2>2 DEF ONE
<1>5. SF + b \in Nat
  BY <1>3, ScaleType
<1>6. Max(H) \in H
  BY <1>4, <1>5, MaxOfNats
<1>7. Values(o, p).highest_borrow_factor = Max(H)
  BY DEF Values, refreshed_borrows
<1> HIDE DEF H
<1>8. CASE Max(H) = ONE
  <2>1. PICK r \in Borrows(o) : TRUE
    OBVIOUS
  <2> QED
    BY <1>7, <1>8, <2>1, Sets, FactorAtLeastOne DEF Borrows, ONE
<1>9. CASE Max(H) # ONE
  <2>1. PICK r \in B : Max(H) = borrow_factor_f(o, r)
    BY <1>6, <1>9 DEF H
  <2>2. r \in Borrows(o) /\ r \in ReserveId
    BY Sets DEF Borrows
  <2>3. Max(H) = Pct(config[r].borrow_factor)
    BY <1>9, <2>1 DEF borrow_factor_f
  <2> QED
    BY <1>7, <2>2, <2>3, FactorAtLeastOne
<1> QED
  BY <1>8, <1>9

\* A collateral with the lowest threshold among those that count.
LEMMA CollateralToStartWith ==
    ASSUME NEW o, NEW p, CanValue(o, p), NEW z \in Deposits(o), threshold_pct(o, z) # 0
    PROVE  \E q \in Deposits(o) :
              /\ threshold_pct(o, q) # 0
              /\ threshold_pct(o, q) <= Values(o, p).lowest_liquidation_ltv
<1> DEFINE D == {q \in Deposits(o) : /\ collateral_mv(o, p, q) >= market.min_value_skip_ltv
                                     /\ threshold_pct(o, q) > 0}
           L == {MAX} \cup {threshold_pct(o, q) : q \in D}
<1>1. \A q \in Deposits(o) : threshold_pct(o, q) \in 0..100
  BY Sets, SettingTypes DEF Deposits, CanValue
<1>2. L \in SUBSET Nat /\ L # {}
  BY <1>1 DEF MAX
<1>3. Min(L) \in L
  BY <1>2, MinOfNats
<1>4. Values(o, p).lowest_liquidation_ltv = Min(L)
  BY DEF Values, refreshed_deposits, lowest_liquidation_ltv
<1> HIDE DEF L
<1>5. CASE Min(L) = MAX
  BY <1>1, <1>4, <1>5 DEF MAX
<1>6. CASE Min(L) # MAX
  <2>1. PICK q \in D : Min(L) = threshold_pct(o, q)
    BY <1>3, <1>6 DEF L
  <2>2. q \in Deposits(o) /\ threshold_pct(o, q) \in 0..100 /\ threshold_pct(o, q) # 0
    BY <1>1, <2>1
  <2> QED
    BY <1>4, <2>1, <2>2
<1> QED
  BY <1>5, <1>6

\* The order in which debts and collateral have to be liquidated always leaves
\* a pair to start with.
THEOREM UnhealthyIsLiquidatable == Spec => []LiquidationPossible
<1> DEFINE v == Values(ob, ob.valued)
<1>1. ASSUME Inv, Fresh(ob), v.debt > 0, v.unhealthy > 0, v.debt >= v.unhealthy,
             ~market.price_triggered_liquidation_disabled
      PROVE  \E r \in Borrows(ob), q \in Deposits(ob) :
                threshold_pct(ob, q) # 0 /\ get_liquidation_params(ob, v, r, q) # {}
  <2>1. CanValue(ob, ob.valued)
    BY <1>1, FreshValues DEF Inv, Kept
  <2>2. v.debt \in Nat /\ v.unhealthy \in Nat /\ v.deposited \in Nat /\ v.debt # 0 /\ v.unhealthy # 0
    BY <1>1, <2>1, ValueTypes
  <2>3. PICK z \in Deposits(ob) : threshold_pct(ob, z) # 0
    BY <2>1, <2>2, SomeThreshold
  <2>4. v.deposited # 0
    BY <2>1, <2>2, SomeThreshold
  <2>5. PICK r \in Borrows(ob) : Pct(config[r].borrow_factor) >= v.highest_borrow_factor
    BY <2>1, <2>2, SomeDebt, DebtToStartWith
  <2>6. PICK q \in Deposits(ob) : /\ threshold_pct(ob, q) # 0
                                  /\ threshold_pct(ob, q) <= v.lowest_liquidation_ltv
    BY <2>1, <2>3, CollateralToStartWith
  <2>7. loan_to_value(v) >= unhealthy_loan_to_value(v)
    <3>1. Div(v.unhealthy, v.deposited) <= Div(v.debt, v.deposited)
      BY <1>1, <2>2, <2>4, DivOrderSF
    <3>2. Div(v.unhealthy, v.deposited) \in Nat /\ Div(v.debt, v.deposited) \in Nat
      BY <2>2, <2>4, DivType
    <3> HIDE DEF v
    <3> QED
      BY <3>1, <3>2 DEF loan_to_value, unhealthy_loan_to_value
  <2> HIDE DEF v
  <2> DEFINE g == [reason |-> "LtvExceeded", slot |-> 0,
                   bonus |-> calculate_liquidation_bonus(ob, v, r, q)]
  <2>8. check_liquidate_obligation(ob, v, r, q) = {g}
    BY <1>1, <2>7 DEF check_liquidate_obligation, Grounds
  <2>9. g.reason = "LtvExceeded"
    OBVIOUS
  <2> HIDE DEF g
  <2>10. g \in get_liquidation_params(ob, v, r, q)
    BY <2>5, <2>6, <2>8, <2>9 DEF get_liquidation_params, FirstOf
  <2> QED
    BY <2>6, <2>10
<1>2. Inv => LiquidationPossible
  BY <1>1 DEF LiquidationPossible
<1> QED
  BY <1>2, Stable, PTL

-----------------------------------------------------------------------------
(* A liquidation leaves the debt no larger in proportion                   *)

\* The value of the debt settled, with the bonus.
LEMMA TotalBound ==
    ASSUME NEW B \in Nat \ {0}, NEW s \in 0..B, NEW p \in Nat, NEW bonus \in Nat
    PROVE  SF * Mul(Mul(B * p, Div(s, B)), ONE + bonus) <= (s * p) * (SF + bonus)
<1> DEFINE d == Div(s, B)
           m == Mul(B * p, d)
           k == SF + bonus
           t == Mul(m, k)
<1>1. d \in Nat /\ B * d <= s * SF
  BY DivFloor
<1> HIDE DEF d
<1>2. B * p \in Nat
  OBVIOUS
<1>3. m \in Nat /\ SF * m <= B * p * d
  BY <1>1, <1>2, MulBounds
<1> HIDE DEF m
<1>4. B * p * d <= SF * (s * p)
  <2>1. B * d \in Nat /\ s * SF \in Nat
    BY <1>1, ScaleType
  <2>2. (B * d) * p <= (s * SF) * p
    BY <1>1, <2>1, ProductMono
  <2>3. (B * d) * p = B * p * d /\ (s * SF) * p = SF * (s * p)
    BY <1>1, ScaleType
  <2> QED
    BY <2>2, <2>3
<1>5. m <= s * p
  <2> DEFINE x == s * p
             y == B * p * d
  <2>1. x \in Nat /\ y \in Nat /\ SF * m <= y /\ y <= SF * x
    BY <1>1, <1>3, <1>4
  <2> HIDE DEF x, y
  <2>2. m <= x
    BY <1>3, <2>1, ScaleType
  <2> QED
    BY <2>2 DEF x
<1>6. k \in Nat
  BY ScaleType
<1>7. SF * t <= m * k
  BY <1>3, <1>6, MulBounds
<1>8. m * k <= (s * p) * k
  <2>1. s * p \in Nat
    OBVIOUS
  <2> QED
    BY <1>3, <1>5, <1>6, <2>1, ProductMono
<1>9. SF * t \in Nat /\ m * k \in Nat /\ (s * p) * k \in Nat
  <2>1. t \in Nat /\ s * p \in Nat
    BY <1>3, <1>6, MulType
  <2> HIDE DEF t, k
  <2> QED
    BY <1>3, <1>6, <2>1, ScaleType
<1>10. SF * t <= (s * p) * k
  BY <1>7, <1>8, <1>9
<1> QED
  BY <1>10 DEF ONE, m, d

\* The collateral taken for a value is worth no more, rounded down to units.
LEMMA TakenBound ==
    ASSUME NEW dep \in Nat \ {0}, NEW p \in Nat \ {0}, NEW total \in Nat
    PROVE  LET w == Mul(dep * SF, Div(total, dep * SF * p)) \div SF
           IN  w \in Nat /\ w * SF * p <= total
<1> DEFINE u == dep * SF
           value == u * p
           d == Div(total, value)
           taken == Mul(u, d)
           w == taken \div SF
<1>1. u \in Nat \ {0}
  BY ScaleType
<1> HIDE DEF u
<1>2. value \in Nat \ {0}
  BY <1>1
<1> HIDE DEF value
<1>3. d \in Nat /\ value * d <= total * SF
  BY <1>2, DivFloor
<1> HIDE DEF d
<1>4. taken \in Nat /\ SF * taken <= u * d
  BY <1>1, <1>3, MulBounds
<1> HIDE DEF taken
<1>5. w \in Nat /\ SF * w <= taken
  BY <1>4, ScaleType, DivBounds
<1> HIDE DEF w
<1>6. (w * SF * p) * SF <= total * SF
  <2>1. SF * w \in Nat /\ SF * (SF * w) <= SF * taken
    BY <1>4, <1>5, ScaleType, ProductMono
  <2>2. SF * (SF * w) \in Nat /\ SF * taken \in Nat /\ u * d \in Nat
    BY <1>1, <1>3, <1>4, <2>1, ScaleType
  <2>3. SF * (SF * w) <= u * d
    BY <1>4, <2>1, <2>2
  <2>4. (SF * (SF * w)) * p <= (u * d) * p
    BY <2>2, <2>3, ProductMono
  <2>5. (u * d) * p = value * d
    BY <1>1, <1>3 DEF value
  <2>6. (SF * (SF * w)) * p = (w * SF * p) * SF
    BY <1>5, ScaleType
  <2>7. value * d \in Nat /\ total * SF \in Nat
    BY <1>2, <1>3, ScaleType
  <2>8. (w * SF * p) * SF \in Nat
    BY <1>5, ScaleType
  <2> QED
    BY <1>3, <2>4, <2>5, <2>6, <2>7, <2>8
<1>7. w * SF * p <= total
  <2> DEFINE x == w * SF * p
  <2>1. x \in Nat
    BY <1>5, ScaleType
  <2>2. x * SF <= total * SF
    BY <1>6
  <2> HIDE DEF x
  <2>3. x <= total
    BY <2>1, <2>2, ScaleType
  <2> QED
    BY <2>3 DEF x
<1> QED
  BY <1>5, <1>7 DEF w, taken, d, value, u

\* A bonus of at most what the debt leaves of the collateral's value, however
\* that part is rounded, is at most the inverse of the loan to value, less one.
LEMMA BonusFits ==
    ASSUME SF >= 10000, NEW x \in Nat, x < Pct(99)
    PROVE  x < SF /\ (2 * SF - x) * (x + 1) <= SF * SF
<1> DEFINE c == Pct(99)
           y == SF - x
<1>1. c \in Nat /\ 100 * c <= 99 * SF
  <2>1. 99 * SF \in Nat
    BY ScaleType
  <2> QED
    BY <2>1, DivBounds DEF Pct
<1> HIDE DEF c
<1>2. x + 1 <= c
  BY <1>1 DEF c
<1>3. y \in Nat /\ 100 * (y - 1) >= SF /\ y - 1 >= 100
  BY <1>1, <1>2, ScaleType
<1>4. x = SF - y
  BY ScaleType
<1> HIDE DEF y
<1>5. y * (y - 1) >= SF
  <2>1. y * (y - 1) >= y * 100
    BY <1>3
  <2>2. y * 100 >= SF
    BY <1>3, ScaleType
  <2>3. y * (y - 1) \in Int /\ y * 100 \in Int
    BY <1>3
  <2> QED
    BY <2>1, <2>2, <2>3, ScaleType
<1>6. (2 * SF - x) * (x + 1) = SF * SF + SF - y * (y - 1)
  <2>1. 2 * SF - x = SF + y /\ x + 1 = SF - y + 1
    BY <1>3, <1>4, ScaleType
  <2>2. (SF + y) * (SF - y + 1) = SF * SF + SF - y * (y - 1)
    BY <1>3, ScaleType
  <2> QED
    BY <2>1, <2>2
<1>7. SF * SF \in Int /\ y * (y - 1) \in Int
  BY <1>3, ScaleType
<1> QED
  BY <1>3, <1>4, <1>5, <1>6, <1>7, ScaleType

\* Value S of the debt goes, for value W of the collateral.
LEMMA RatioFalls ==
    ASSUME SF >= 10000, NEW b \in Nat, NEW c \in Nat \ {0}, Div(b, c) < Pct(99),
           NEW bonus \in Nat, bonus <= SF - Div(b, c), NEW S \in Nat, NEW W \in Nat,
           SF * W <= S * (SF + bonus)
    PROVE  b * W <= S * c
<1> DEFINE x == Div(b, c)
           k == 2 * SF - x
<1>1. x \in Nat /\ b * SF < c * x + c
  BY DivFloor
<1>2. x < SF /\ k * (x + 1) <= SF * SF /\ bonus <= SF - x
  BY <1>1, BonusFits
<1> HIDE DEF x
<1>3. k \in Nat /\ SF + bonus <= k
  BY <1>1, <1>2, ScaleType
<1> HIDE DEF k
<1>4. SF * W <= S * k
  <2>1. SF + bonus \in Nat
    BY ScaleType
  <2>2. S * (SF + bonus) <= S * k
    BY <1>3, <2>1, ProductMono
  <2>3. SF * W \in Nat /\ S * (SF + bonus) \in Nat /\ S * k \in Nat
    BY <1>3, <2>1, ScaleType
  <2> QED
    BY <2>2, <2>3
<1>5. b * SF <= c * (x + 1)
  BY <1>1, ScaleType
<1> DEFINE bs == b * SF
           ws == SF * W
           h == c * (x + 1)
           g == S * k
           Q == SF * SF
           bw == b * W
           sc == S * c
<1>6. bs \in Nat /\ ws \in Nat /\ h \in Nat /\ g \in Nat /\ Q \in Nat \ {0} /\ bw \in Nat /\ sc \in Nat
  BY <1>1, <1>3, ScaleType
<1>7. ws * bs <= g * h
  <2>1. ws <= g /\ bs <= h
    BY <1>4, <1>5
  <2> HIDE DEF ws, bs, g, h
  <2>2. ws * bs <= g * bs
    BY <1>6, <2>1, ProductMono
  <2>3. g * bs <= g * h
    BY <1>6, <2>1, ProductMono
  <2>4. ws * bs \in Nat /\ g * bs \in Nat /\ g * h \in Nat
    BY <1>6
  <2> QED
    BY <2>2, <2>3, <2>4
<1>8. ws * bs = bw * Q
  BY ScaleType
<1>9. g * h <= sc * Q
  <2> DEFINE z == k * (x + 1)
  <2>1. z \in Nat /\ z <= Q
    BY <1>1, <1>2, <1>3
  <2>2. g * h = sc * z
    BY <1>1, <1>3
  <2> HIDE DEF z, sc, Q, g, h
  <2>3. sc * z <= sc * Q
    BY <1>6, <2>1, ProductMono
  <2> QED
    BY <2>2, <2>3
<1> HIDE DEF bs, ws, g, h, Q, bw, sc
<1>10. bw * Q <= sc * Q
  <2>1. bw * Q \in Nat /\ g * h \in Nat /\ sc * Q \in Nat
    BY <1>6
  <2> QED
    BY <1>7, <1>8, <1>9, <2>1
<1>11. bw <= sc
  BY <1>6, <1>10
<1> QED
  BY <1>11 DEF bw, sc

\* Some of the collateral is left, and no dust was rounded up.
LEMMA WorthAtMost ==
    ASSUME NEW o, NEW p, CanValue(o, p), NEW v, GoodValues(v), NEW r \in Debts,
           NEW q \in Collaterals, NEW n \in Nat, NEW g, GoodGround(o, v, r, g),
           o.borrowed_sf[r] # 0, o.deposited[q] # 0, now \in Nat,
           NEW a, a = calculate_liquidation(o, v, p, r, q, n, g), a.settle # 0,
           a.withdraw # o.deposited[q],
           a.settle = o.borrowed_sf[r] => a.withdraw > DUST_LAMPORT_THRESHOLD
    PROVE  SF * (a.withdraw * SF * p[q]) <= (a.settle * p[r]) * (SF + g.bonus)
<1> DEFINE B == o.borrowed_sf[r]
           dep == o.deposited[q]
           full == below_min_full_liquidation(o, p, r, g)
           asked == Lesser(n * SF, B)
           most == max_liquidatable_borrowed_amount(o, v, p, r, g)
           amount == IF full THEN B ELSE Lesser(most, asked)
           total == Mul(Mul(debt_mv(o, p, r), Div(amount, B)), ONE + g.bonus)
           value == collateral_mv(o, p, q)
           c == calculate_liquidation_amounts(o, p, q, total, amount, full)
           taken_f == Mul(dep * SF, Div(total, value))
           w == taken_f \div SF
<1>1. /\ r \in ReserveId /\ q \in ReserveId /\ B \in Nat \ {0} /\ dep \in Nat \ {0}
      /\ p[r] \in Nat \ {0} /\ p[q] \in Nat \ {0} /\ value \in Nat
      /\ debt_mv(o, p, r) = B * p[r] /\ value = dep * SF * p[q] /\ debt_mv(o, p, r) \in Nat
  BY Sets, EntryTypes DEF Positive, debt_mv, collateral_mv
<1>2. most \in Nat /\ most <= B
  BY <1>1, MaxLiquidatable DEF GoodGround
<1>3. asked \in Nat /\ asked <= B
  <2>1. n * SF \in Nat
    BY ScaleType
  <2> QED
    BY <1>1, <2>1 DEF Lesser
<1>4. g.bonus \in Nat
  BY DEF GoodGround, GoodBonus
<1>5. a = IF full /\ asked < B THEN [settle |-> 0, repay |-> 0, withdraw |-> 0] ELSE c
  BY DEF calculate_liquidation
<1> HIDE DEF asked, most
<1>6. amount \in 0..B /\ (full => amount = B)
  BY <1>1, <1>2, <1>3 DEF Lesser
<1> HIDE DEF full, amount
<1>7. a = c
  BY <1>5
<1>8. total \in Nat /\ SF * total <= (amount * p[r]) * (SF + g.bonus)
  <2>1. Div(amount, B) \in Nat
    BY <1>1, <1>6, DivType
  <2>2. Mul(debt_mv(o, p, r), Div(amount, B)) \in Nat
    BY <1>1, <2>1, MulType
  <2>3. ONE + g.bonus \in Nat
    BY <1>4, ScaleType DEF ONE
  <2>4. total \in Nat
    BY <2>2, <2>3, MulType
  <2>5. SF * Mul(Mul(B * p[r], Div(amount, B)), ONE + g.bonus) <= (amount * p[r]) * (SF + g.bonus)
    <3> HIDE DEF B
    <3> QED
      BY <1>1, <1>4, <1>6, TotalBound
  <2> QED
    BY <1>1, <2>4, <2>5
<1> HIDE DEF total
<1>9. c = IF total > value
          THEN [settle |-> IF full THEN amount ELSE Mul(amount, Div(value, total)),
                repay |-> DivCeil(IF full THEN amount ELSE Mul(amount, Div(value, total)), SF),
                withdraw |-> dep]
          ELSE IF total = value
          THEN [settle |-> amount, repay |-> DivCeil(amount, SF), withdraw |-> dep]
          ELSE [settle |-> amount, repay |-> DivCeil(amount, SF),
                withdraw |-> IF full /\ taken_f < DUST_LAMPORT_THRESHOLD * SF
                             THEN DUST_LAMPORT_THRESHOLD ELSE w]
  BY DEF calculate_liquidation_amounts
<1> HIDE DEF c
<1>10. ~(total > value) /\ total # value
  BY <1>7, <1>9
<1>11. a.settle = amount
       /\ a.withdraw = IF full /\ taken_f < DUST_LAMPORT_THRESHOLD * SF
                       THEN DUST_LAMPORT_THRESHOLD ELSE w
  BY <1>7, <1>9, <1>10
<1>12. w \in Nat /\ w * SF * p[q] <= total
  <2> HIDE DEF dep
  <2> QED
    BY <1>1, <1>8, TakenBound
<1> HIDE DEF w, taken_f, value
<1>13. a.withdraw = w
  <2>1. CASE full /\ taken_f < DUST_LAMPORT_THRESHOLD * SF
    <3>1. a.settle = B /\ a.withdraw = DUST_LAMPORT_THRESHOLD
      BY <1>6, <1>11, <2>1
    <3> QED
      BY <3>1 DEF DUST_LAMPORT_THRESHOLD
  <2> QED
    BY <1>11, <2>1
<1> HIDE DEF B, dep
<1> DEFINE W == w * SF * p[q]
           T == (amount * p[r]) * (SF + g.bonus)
<1>14. W \in Nat /\ T \in Nat
  BY <1>1, <1>4, <1>6, <1>12, ScaleType
<1>15. W <= total /\ SF * total <= T
  BY <1>8, <1>12
<1> HIDE DEF W, T
<1>16. SF * W <= SF * total
  BY <1>8, <1>14, <1>15, ScaleType
<1>17. SF * W <= T
  BY <1>8, <1>14, <1>15, <1>16, ScaleType
<1> QED
  BY <1>11, <1>13, <1>17 DEF W, T

LEMMA SeizedEntries ==
    ASSUME NEW o, NEW f, Reserves, Kept(o, now, f), Fresh(o), NEW r \in Debts,
           NEW q \in Collaterals, NEW g, NEW a, Seizable(o, r, q, g, a),
           a.repay = DivCeil(a.settle, SF), g.reason = "Order" => g.slot \in OrderSlot,
           g.reason = "Order" /\ o.orders[g.slot].opportunity = "Single" =>
               a.settle <= o.orders[g.slot].size
    PROVE  LET n == Consumed(Seized(o, r, q, g, a), g, a)
           IN  /\ n.deposited = [o.deposited EXCEPT ![q] = @ - a.withdraw]
               /\ n.borrowed_sf = [o.borrowed_sf EXCEPT ![r] = @ - a.settle]
               /\ n.group = o.group
<1> DEFINE s == Seized(o, r, q, g, a)
           n == Consumed(s, g, a)
<1>1. a.settle \in Nat
  BY SaneFields, Sets DEF Seizable, Kept
<1>2. Pending(o, f) /\ now \in Nat /\ Sane(o, now)
  BY LoggedPending, ReserveFacts DEF Kept
<1>3. /\ Sane(s, now) /\ Pending(s, f) /\ SeizedFrom(o, s, r, q, a)
      /\ ~HasDebt(s) => OrdersGone(s)
  BY <1>2, SeizedSane
<1> HIDE DEF s
<1>4. HasDebt(s) => s.orders = o.orders
  BY <1>3 DEF SeizedFrom
<1>5. /\ Sane(n, now) /\ Pending(n, Recorded(f, g, a))
      /\ n.deposited = s.deposited /\ n.borrowed_sf = s.borrowed_sf
      /\ n.group = s.group /\ n.valued = s.valued
  BY <1>1, <1>3, <1>4, PendingConsumed
<1> HIDE DEF n
<1> QED
  BY <1>3, <1>5 DEF SeizedFrom, n, s

\* What the entries that change take from the sums.
LEMMA SumsLess ==
    ASSUME NEW o, NEW n, NEW p, CanValue(o, p), CanValue(n, p), NEW r \in Debts,
           NEW q \in Collaterals, NEW s \in Nat, NEW w \in Nat,
           n.deposited = [o.deposited EXCEPT ![q] = @ - w],
           n.borrowed_sf = [o.borrowed_sf EXCEPT ![r] = @ - s]
    PROVE  /\ Values(n, p).borrowed = Values(o, p).borrowed - s * p[r]
           /\ Values(n, p).deposited = Values(o, p).deposited - w * SF * p[q]
<1>1. r \in ReserveId /\ q \in ReserveId
  BY Sets
<1>2. o.deposited \in [ReserveId -> 0..MaxDeposit] /\ o.borrowed_sf \in [ReserveId -> Nat]
  BY DEF CanValue, Obligations
<1>3. /\ NatOn(Backing(o, p), Collaterals) /\ NatOn(Backing(n, p), Collaterals)
      /\ NatOn(Owed(o, p), Debts) /\ NatOn(Owed(n, p), Debts)
  BY PartTypes
<1>4. SumFunctionOnSet(Owed(n, p), Debts)
        = SumFunctionOnSet(Owed(o, p), Debts) - debt_mv(o, p, r) + debt_mv(n, p, r)
  <2>1. \A x \in Debts \ {r} : Owed(n, p)[x] = Owed(o, p)[x]
    BY <1>1, <1>2, Sets DEF Owed, debt_mv
  <2>2. Owed(n, p)[r] = debt_mv(n, p, r) /\ Owed(o, p)[r] = debt_mv(o, p, r)
    BY DEF Owed
  <2> QED
    BY <1>3, <2>1, <2>2, Sets, SumUpdate
<1>5. SumFunctionOnSet(Backing(n, p), Collaterals)
        = SumFunctionOnSet(Backing(o, p), Collaterals)
            - collateral_mv(o, p, q) + collateral_mv(n, p, q)
  <2>1. \A x \in Collaterals \ {q} : Backing(n, p)[x] = Backing(o, p)[x]
    BY <1>1, <1>2, Sets DEF Backing, collateral_mv
  <2>2. Backing(n, p)[q] = collateral_mv(n, p, q) /\ Backing(o, p)[q] = collateral_mv(o, p, q)
    BY DEF Backing
  <2> QED
    BY <1>3, <2>1, <2>2, Sets, SumUpdate
<1>6. debt_mv(o, p, r) - debt_mv(n, p, r) = s * p[r]
  <2> DEFINE x == o.borrowed_sf[r]
             y == p[r]
  <2>1. x \in Nat /\ y \in Nat /\ n.borrowed_sf[r] = x - s
    BY <1>1, <1>2, EntryTypes DEF Positive
  <2>2. debt_mv(o, p, r) = x * y /\ debt_mv(n, p, r) = (x - s) * y
    BY <2>1 DEF debt_mv
  <2> HIDE DEF x, y
  <2>3. x * y - (x - s) * y = s * y
    BY <2>1
  <2> QED
    BY <2>2, <2>3 DEF y
<1>7. collateral_mv(o, p, q) - collateral_mv(n, p, q) = w * SF * p[q]
  <2> DEFINE x == o.deposited[q]
             y == p[q]
  <2>1. x \in Nat /\ y \in Nat /\ n.deposited[q] = x - w
    BY <1>1, <1>2, EntryTypes DEF Positive
  <2>2. collateral_mv(o, p, q) = x * SF * y /\ collateral_mv(n, p, q) = (x - w) * SF * y
    BY <2>1 DEF collateral_mv
  <2> HIDE DEF x, y
  <2>3. x * SF * y - (x - w) * SF * y = w * SF * y
    BY <2>1, ScaleType
  <2> QED
    BY <2>2, <2>3 DEF y
<1>8. /\ debt_mv(o, p, r) \in Nat /\ debt_mv(n, p, r) \in Nat
      /\ collateral_mv(o, p, q) \in Nat /\ collateral_mv(n, p, q) \in Nat
  BY <1>1, EntryTypes
<1>9. Values(o, p).borrowed \in Nat /\ Values(o, p).deposited \in Nat
  BY ValueTypes
<1> DEFINE d1 == debt_mv(o, p, r)
           d2 == debt_mv(n, p, r)
           c1 == collateral_mv(o, p, q)
           c2 == collateral_mv(n, p, q)
           s2 == s * p[r]
           w2 == w * SF * p[q]
           V == Values(o, p).borrowed
           D == Values(o, p).deposited
<1>10. Values(n, p).borrowed = V - d1 + d2 /\ Values(n, p).deposited = D - c1 + c2
  BY <1>4, <1>5, ValueSums
<1>11. /\ d1 \in Nat /\ d2 \in Nat /\ c1 \in Nat /\ c2 \in Nat /\ V \in Nat /\ D \in Nat
       /\ d1 - d2 = s2 /\ c1 - c2 = w2
  BY <1>6, <1>7, <1>8, <1>9
<1> HIDE DEF d1, d2, c1, c2, s2, w2, V, D
<1>12. V - d1 + d2 = V - s2 /\ D - c1 + c2 = D - w2
  BY <1>11
<1> QED
  BY <1>10, <1>12 DEF s2, w2, V, D

LEMMA LiquidateHelps ==
    ASSUME SF >= 10000, Inv, NEW r \in Debts, NEW q \in Collaterals, NEW n \in Amounts,
           NEW redeemed \in BOOLEAN, Liquidate(r, q, n, redeemed),
           ob'.deposited[q] \in 1..(ob.deposited[q] - 1),
           ob'.borrowed_sf[r] = 0 => ob.deposited[q] - ob'.deposited[q] > DUST_LAMPORT_THRESHOLD,
           no_bf_loan_to_value(Values(ob, ob.valued)) < Pct(99)
    PROVE  LET v == Values(ob, ob.valued)
               w == Values(ob', ob.valued)
           IN  w.borrowed * v.deposited <= v.borrowed * w.deposited
<1> DEFINE v == Values(ob, ob.valued)
           w == Values(ob', ob.valued)
           p == ob.valued
<1>1. /\ Fresh(ob) /\ CanValue(ob, p) /\ GoodValues(v)
      /\ ob.borrowed_sf[r] # 0 /\ ob.deposited[q] # 0
  BY LiquidateFacts
<1>2. PICK g \in get_liquidation_params(ob, v, r, q) :
         LET a == calculate_liquidation(ob, v, ob.valued, r, q, n, g)
         IN  /\ GoodGround(ob, v, r, g) /\ Seizable(ob, r, q, g, a)
             /\ a.repay = DivCeil(a.settle, SF)
             /\ g.reason = "Order" /\ ob.orders[g.slot].opportunity = "Single" =>
                   a.settle <= ob.orders[g.slot].size
             /\ ob' = Consumed(Seized(ob, r, q, g, a), g, a)
  BY LiquidateFacts
<1> DEFINE a == calculate_liquidation(ob, v, p, r, q, n, g)
<1>3. /\ GoodGround(ob, v, r, g) /\ Seizable(ob, r, q, g, a) /\ a.repay = DivCeil(a.settle, SF)
      /\ g.reason = "Order" /\ ob.orders[g.slot].opportunity = "Single" =>
            a.settle <= ob.orders[g.slot].size
      /\ ob' = Consumed(Seized(ob, r, q, g, a), g, a)
  BY <1>2
<1>4. a = calculate_liquidation(ob, v, p, r, q, n, g)
  OBVIOUS
<1> HIDE DEF a
<1>5. Kept(ob, now, filled) /\ Reserves /\ now \in Nat /\ n \in Nat
      /\ (g.reason = "Order" => g.slot \in OrderSlot)
  BY <1>3, ReserveFacts, PositionAssumption DEF Inv, GoodGround
<1>6. /\ ob'.deposited = [ob.deposited EXCEPT ![q] = @ - a.withdraw]
      /\ ob'.borrowed_sf = [ob.borrowed_sf EXCEPT ![r] = @ - a.settle]
  BY <1>1, <1>3, <1>5, SeizedEntries
<1>7. /\ ob.deposited[q] \in Nat /\ ob.borrowed_sf[r] \in Nat
      /\ ob'.deposited[q] = ob.deposited[q] - a.withdraw
      /\ ob'.borrowed_sf[r] = ob.borrowed_sf[r] - a.settle
  <2>1. ob.deposited \in [ReserveId -> 0..MaxDeposit] /\ ob.borrowed_sf \in [ReserveId -> Nat]
        /\ r \in ReserveId /\ q \in ReserveId
    BY <1>5, SaneFields, Sets DEF Kept
  <2> QED
    BY <1>6, <2>1, BoundTypes
<1>8. a.settle \in Nat \ {0} /\ a.withdraw \in Nat
  BY <1>3, <1>7 DEF Seizable
<1>9. /\ a.withdraw # ob.deposited[q]
      /\ a.settle = ob.borrowed_sf[r] => a.withdraw > DUST_LAMPORT_THRESHOLD
  BY <1>7, <1>8
<1>10. CanValue(ob', p)
  <2>1. Inv'
    BY LiquidateStep DEF Stays
  <2>2. ob' \in Obligations
    BY <2>1 DEF Inv, Kept, Sane
  <2> QED
    BY <1>1, <2>2 DEF CanValue
<1>11. SF * (a.withdraw * SF * p[q]) <= (a.settle * p[r]) * (SF + g.bonus)
  <2> HIDE DEF v, p
  <2> QED
    BY <1>1, <1>3, <1>4, <1>5, <1>8, <1>9, WorthAtMost
<1> DEFINE S == a.settle * p[r]
           W == a.withdraw * SF * p[q]
<1>12. w.borrowed = v.borrowed - S /\ w.deposited = v.deposited - W
  BY <1>1, <1>6, <1>8, <1>10, SumsLess
<1>13. S \in Nat /\ W \in Nat
  <2>1. p[r] \in Nat /\ p[q] \in Nat
    BY <1>1, Sets, EntryTypes DEF Positive
  <2> HIDE DEF p
  <2> QED
    BY <1>8, <2>1, ScaleType
<1>14. Div(v.borrowed, v.deposited) < Pct(99)
  BY DEF no_bf_loan_to_value
<1>15. g.bonus \in Nat /\ g.bonus <= SF - Div(v.borrowed, v.deposited)
  <2>1. g.bonus \in Nat /\ g.bonus <= to_bad_debt(v)
    BY <1>3 DEF GoodGround, GoodBonus
  <2>2. Div(v.borrowed, v.deposited) \in Nat
    BY <1>1, DivType DEF GoodValues, Positive
  <2>3. Div(v.borrowed, v.deposited) < SF
    BY <1>14, <2>2, BonusFits
  <2>4. to_bad_debt(v) = SF - Div(v.borrowed, v.deposited)
    <3> HIDE DEF v
    <3> QED
      BY <2>2, <2>3, ScaleType DEF to_bad_debt, no_bf_loan_to_value, ONE, saturating_sub
  <2> QED
    BY <2>1, <2>4
<1>16. v.borrowed \in Nat /\ v.deposited \in Nat \ {0}
  BY <1>1 DEF GoodValues, Positive
<1>17. SF * W <= S * (SF + g.bonus)
  BY <1>11
<1> HIDE DEF S, W, v, w
<1>18. v.borrowed * W <= S * v.deposited
  BY <1>13, <1>14, <1>15, <1>16, <1>17, RatioFalls
<1> DEFINE b == v.borrowed
           c == v.deposited
<1>19. b \in Nat /\ c \in Nat /\ b * W <= S * c
  BY <1>16, <1>18
<1> HIDE DEF b, c
<1>20. (b - S) * c <= b * (c - W)
  <2>1. (b - S) * c = b * c - S * c /\ b * (c - W) = b * c - b * W
    BY <1>13, <1>19
  <2>2. b * c \in Int /\ S * c \in Int /\ b * W \in Int
    BY <1>13, <1>19
  <2> QED
    BY <1>19, <2>1, <2>2
<1> QED
  BY <1>12, <1>20 DEF b, c, v, w

\* A liquidation that leaves some of the collateral never makes what is left
\* of the debt larger in proportion to it, whatever is rounded on the way:
\* the bonus gives away less than the position is over its debt.  A Fraction
\* has to be fine enough for the rounding of the loan to value; the code's has
\* 60 bits.
THEOREM LiquidationsHelp == SF >= 10000 => (Spec => LiquidationHelps)
<1> SUFFICES ASSUME SF >= 10000 PROVE Spec => LiquidationHelps
  OBVIOUS
<1>1. ASSUME Inv
      PROVE  \A r \in Debts, q \in Collaterals, n \in Amounts, redeemed \in BOOLEAN :
                LET v == Values(ob, ob.valued)
                    w == Values(ob', ob.valued)
                IN  ( /\ ob'.borrowed_sf[r] < ob.borrowed_sf[r]
                      /\ ob'.deposited[q] \in 1..(ob.deposited[q] - 1)
                      /\ ob'.borrowed_sf[r] = 0 =>
                            ob.deposited[q] - ob'.deposited[q] > DUST_LAMPORT_THRESHOLD
                      /\ Liquidate(r, q, n, redeemed)
                      /\ no_bf_loan_to_value(v) < Pct(99) )
                    => w.borrowed * v.deposited <= v.borrowed * w.deposited
  BY <1>1, LiquidateHelps
<1> QED
  BY <1>1, Stable, PTL DEF LiquidationHelps

-----------------------------------------------------------------------------
(* What an owner does keeps the obligation healthy                         *)

\* What may be borrowed on a collateral is a step below its threshold.
Margin ==
    /\ \A r \in ReserveId : config[r].ltv = 0 \/ Pct(config[r].ltv) + 1 < Pct(config[r].threshold)
    /\ \A g \in Group :
          elevation[g].ltv = 0 \/ Pct(elevation[g].ltv) + 1 < Pct(elevation[g].threshold)

AllowedSum(o, p) == SumFunctionOnSet(Allowance(o, p), Collaterals)
UnhealthySum(o, p) == SumFunctionOnSet(Threshold(o, p), Collaterals)
DebtSum(o, p) == SumFunctionOnSet(Weighed(o, p), Debts)

LEMMA HealthSums ==
    ASSUME NEW o, NEW p, CanValue(o, p)
    PROVE  /\ AllowedSum(o, p) \in Nat /\ UnhealthySum(o, p) \in Nat /\ DebtSum(o, p) \in Nat
           /\ Values(o, p).debt = DebtSum(o, p) /\ Values(o, p).unhealthy = UnhealthySum(o, p)
           /\ Values(o, p).allowed <= AllowedSum(o, p) /\ Values(o, p).allowed \in Nat
           /\ Healthy(o, p) <=> (DebtSum(o, p) = 0 \/ DebtSum(o, p) < UnhealthySum(o, p))
<1>1. AllowedSum(o, p) \in Nat /\ UnhealthySum(o, p) \in Nat /\ DebtSum(o, p) \in Nat
  BY PartTypes, Sets, SumType DEF AllowedSum, UnhealthySum, DebtSum
<1>2. /\ Values(o, p).debt = DebtSum(o, p) /\ Values(o, p).unhealthy = UnhealthySum(o, p)
      /\ Values(o, p).allowed = Lesser(AllowedSum(o, p), market.global_allowed_borrow_value)
  BY ValueSums DEF AllowedSum, UnhealthySum, DebtSum
<1>3. Values(o, p).allowed <= AllowedSum(o, p) /\ Values(o, p).allowed \in Nat
  BY <1>1, <1>2, MarketType DEF Lesser
<1> QED
  BY <1>1, <1>2, <1>3 DEF Healthy

LEMMA HealthKept ==
    ASSUME NEW o, NEW n, NEW p, CanValue(o, p), CanValue(n, p), Healthy(o, p),
           DebtSum(n, p) <= DebtSum(o, p), UnhealthySum(o, p) <= UnhealthySum(n, p)
    PROVE  Healthy(n, p)
  BY HealthSums

\* The margin of one entry.
LEMMA EntryMargin ==
    ASSUME Margin, NEW o \in Obligations, NEW r \in ReserveId, NEW mv \in Nat
    PROVE  /\ Mul(mv, Pct(ltv_pct(o, r))) <= Mul(mv, Pct(threshold_pct(o, r)))
           /\ Mul(mv, Pct(ltv_pct(o, r))) # 0 /\ mv >= SF =>
                 Mul(mv, Pct(ltv_pct(o, r))) + 2 <= Mul(mv, Pct(threshold_pct(o, r)))
<1> DEFINE x == Pct(ltv_pct(o, r))
           y == Pct(threshold_pct(o, r))
           a == Mul(mv, x)
           b == Mul(mv, y)
<1>1. ltv_pct(o, r) = 0 \/ x + 1 < y
  <2>1. CASE InGroup(o)
    <3>1. o.group \in Group
      BY <2>1 DEF InGroup, Obligations
    <3> QED
      BY <2>1, <3>1 DEF Margin, ltv_pct, threshold_pct, get_max_ltv_and_liquidation_threshold
  <2>2. CASE ~InGroup(o)
    BY <2>2 DEF Margin, ltv_pct, threshold_pct, get_max_ltv_and_liquidation_threshold
  <2> QED
    BY <2>1, <2>2
<1>2. x \in Nat /\ y \in Nat
  BY SettingTypes
<1>3. a \in Nat /\ SF * a <= mv * x /\ b \in Nat /\ mv * y < SF * b + SF
  BY <1>2, MulBounds
<1>4. CASE ltv_pct(o, r) = 0
  <2>1. x = 0
    BY <1>4, ScaleType DEF Pct
  <2>2. Mul(mv, 0) = 0
    BY MulZero, MulSwap
  <2> QED
    BY <1>3, <2>1, <2>2
<1>5. CASE x + 1 < y
  <2> HIDE DEF x, y
  <2> HIDE DEF a, b
  <2>1. mv * x \in Nat /\ mv * y \in Nat /\ mv * x + 2 * mv <= mv * y
    <3>1. x + 2 <= y /\ x + 2 \in Nat
      BY <1>2, <1>5
    <3>2. (x + 2) * mv <= y * mv
      BY <1>2, <3>1, ProductMono
    <3>3. (x + 2) * mv = mv * x + 2 * mv /\ y * mv = mv * y
      BY <1>2
    <3> QED
      BY <1>2, <3>2, <3>3
  <2>2. a <= b
    <3>1. SF * a < SF * b + SF
      BY <1>3, <2>1, ScaleType
    <3>2. SF * b + SF = SF * (b + 1)
      BY <1>3, ScaleType
    <3>3. a < b + 1
      BY <1>3, <3>1, <3>2, ScaleType
    <3> QED
      BY <1>3, <3>3
  <2>3. ASSUME mv >= SF PROVE a + 2 <= b
    <3>1. SF * a + 2 * SF < SF * b + SF
      BY <1>3, <2>1, <2>3, ScaleType
    <3>2. SF * b + SF = SF * (b + 1) /\ SF * a + 2 * SF = SF * (a + 2)
      BY <1>3, ScaleType
    <3>3. a + 2 < b + 1
      BY <1>3, <3>1, <3>2, ScaleType
    <3> QED
      BY <1>3, <3>3
  <2> QED
    BY <2>2, <2>3 DEF a, b, x, y
<1> QED
  BY <1>1, <1>4, <1>5

\* What an entry of collateral is worth is at least one.
LEMMA EntryWorth ==
    ASSUME NEW o, NEW p, CanValue(o, p), NEW r \in ReserveId, collateral_mv(o, p, r) # 0
    PROVE  collateral_mv(o, p, r) >= SF
<1> DEFINE d == o.deposited[r]
           x == p[r]
<1>1. d \in Nat /\ x \in Nat \ {0} /\ d # 0
  BY EntryTypes DEF Positive
<1>2. collateral_mv(o, p, r) = d * SF * x
  BY DEF collateral_mv
<1> HIDE DEF d, x
<1>3. d * SF >= SF /\ d * SF \in Nat
  BY <1>1, ScaleType
<1>4. d * SF * x >= d * SF
  BY <1>1, <1>3
<1>5. d * SF * x \in Nat
  BY <1>1, <1>3
<1> QED
  BY <1>2, <1>3, <1>4, <1>5, ScaleType

\* As long as something may be borrowed, the threshold is beyond that.
LEMMA Slack ==
    ASSUME Margin, NEW o, NEW p, CanValue(o, p), AllowedSum(o, p) # 0
    PROVE  AllowedSum(o, p) + 2 <= UnhealthySum(o, p)
<1> DEFINE f == Allowance(o, p)
           h == Threshold(o, p)
           mv(r) == collateral_mv(o, p, r)
<1>1. PICK r \in Collaterals : f[r] # 0
  BY SumNone, Sets DEF AllowedSum
<1>2. NatOn(f, Collaterals) /\ NatOn(h, Collaterals) /\ o \in Obligations
  BY PartTypes DEF CanValue
<1>3. ASSUME NEW x \in Collaterals
      PROVE  /\ f[x] = Mul(mv(x), Pct(ltv_pct(o, x))) /\ h[x] = Mul(mv(x), Pct(threshold_pct(o, x)))
             /\ mv(x) \in Nat /\ x \in ReserveId
  BY Sets, EntryTypes DEF Allowance, Threshold
<1> HIDE DEF mv
<1>4. \A x \in Collaterals : f[x] <= h[x]
  BY <1>2, <1>3, EntryMargin
<1>5. f[r] + 2 <= h[r]
  <2>1. mv(r) # 0
    <3>1. Pct(ltv_pct(o, r)) \in Nat
      BY <1>2, <1>3, SettingTypes
    <3> QED
      BY <1>1, <1>3, <3>1, MulZero
  <2>2. mv(r) >= SF
    BY <1>3, <2>1, EntryWorth DEF mv
  <2> QED
    BY <1>1, <1>2, <1>3, <2>2, EntryMargin
<1> HIDE DEF f, h
<1> DEFINE T == Collaterals \ {r}
           F == SumFunctionOnSet(f, T)
           H == SumFunctionOnSet(h, T)
<1>6. IsFiniteSet(T) /\ NatOn(f, T) /\ NatOn(h, T) /\ \A x \in T : f[x] <= h[x]
  BY <1>2, <1>4, Sets, FS_RemoveElement DEF NatOn
<1>7. F <= H
  BY <1>6, SumMonotone
<1>8. /\ SumFunctionOnSet(f, Collaterals) = f[r] + F /\ F \in Nat /\ f[r] \in Nat
      /\ SumFunctionOnSet(h, Collaterals) = h[r] + H /\ H \in Nat /\ h[r] \in Nat
  BY <1>2, Sets, SumRemove
<1> HIDE DEF F, H
<1>9. SumFunctionOnSet(f, Collaterals) + 2 <= SumFunctionOnSet(h, Collaterals)
  BY <1>5, <1>7, <1>8
<1> QED
  BY <1>9 DEF AllowedSum, UnhealthySum, f, h

\* A debt within what may be borrowed, but for a rounding, is healthy.
LEMMA HealthyWithin ==
    ASSUME Margin, NEW o, NEW p, CanValue(o, p),
           \/ DebtSum(o, p) <= AllowedSum(o, p)
           \/ AllowedSum(o, p) # 0 /\ DebtSum(o, p) <= AllowedSum(o, p) + 1
    PROVE  Healthy(o, p)
<1>1. AllowedSum(o, p) # 0 => AllowedSum(o, p) + 2 <= UnhealthySum(o, p)
  BY Slack
<1> QED
  BY <1>1, HealthSums

LEMMA NewHealthy == ASSUME NEW p, CanValue(NewObligation, p) PROVE Healthy(NewObligation, p)
<1>1. \A r \in Debts : Weighed(NewObligation, p)[r] = 0
  <2> TAKE r \in Debts
  <2>1. r \in ReserveId /\ NewObligation.borrowed_sf[r] = 0
    BY Sets DEF NewObligation, Stale
  <2>2. debt_mv(NewObligation, p, r) = 0 /\ borrow_factor_f(NewObligation, r) \in Nat
    BY <2>1, EntryTypes, SettingTypes DEF CanValue
  <2> QED
    BY <2>2, MulZero DEF Weighed
<1>2. DebtSum(NewObligation, p) = 0
  BY <1>1, SumNone, Sets DEF DebtSum
<1> QED
  BY <1>2, HealthSums

\* Sums follow the entries they are made of.
LEMMA SameSums ==
    ASSUME NEW o, NEW n, NEW p, n.group = o.group
    PROVE  /\ n.deposited = o.deposited =>
                 AllowedSum(n, p) = AllowedSum(o, p) /\ UnhealthySum(n, p) = UnhealthySum(o, p)
           /\ n.borrowed_sf = o.borrowed_sf => DebtSum(n, p) = DebtSum(o, p)
<1>1. \A r : /\ ltv_pct(n, r) = ltv_pct(o, r) /\ threshold_pct(n, r) = threshold_pct(o, r)
             /\ borrow_factor_f(n, r) = borrow_factor_f(o, r)
  BY DEF ltv_pct, threshold_pct, get_max_ltv_and_liquidation_threshold, borrow_factor_f, InGroup
<1>2. ASSUME n.deposited = o.deposited
      PROVE  Allowance(n, p) = Allowance(o, p) /\ Threshold(n, p) = Threshold(o, p)
  BY <1>1, <1>2 DEF Allowance, Threshold, collateral_mv
<1>3. ASSUME n.borrowed_sf = o.borrowed_sf PROVE Weighed(n, p) = Weighed(o, p)
  BY <1>1, <1>3 DEF Weighed, debt_mv
<1> QED
  BY <1>2, <1>3 DEF AllowedSum, UnhealthySum, DebtSum

LEMMA HealthUnchanged ==
    ASSUME NEW o, NEW n, NEW p, CanValue(o, p), CanValue(n, p), Healthy(o, p),
           n.group = o.group, n.deposited = o.deposited, n.borrowed_sf = o.borrowed_sf
    PROVE  Healthy(n, p)
<1>1. DebtSum(n, p) = DebtSum(o, p) /\ UnhealthySum(n, p) = UnhealthySum(o, p)
  BY SameSums
<1> QED
  BY <1>1, HealthSums

SameBut(f, g, r) == \A x \in ReserveId \ {r} : g[x] = f[x]

\* The values of one entry, changed, against the others.
LEMMA AllowedMoves ==
    ASSUME NEW o, NEW n, NEW p, CanValue(o, p), CanValue(n, p), NEW q \in Collaterals,
           n.group = o.group, SameBut(o.deposited, n.deposited, q)
    PROVE  AllowedSum(n, p) = AllowedSum(o, p) - Allowance(o, p)[q] + Allowance(n, p)[q]
<1>1. NatOn(Allowance(o, p), Collaterals) /\ NatOn(Allowance(n, p), Collaterals)
  BY PartTypes
<1>2. \A r : ltv_pct(n, r) = ltv_pct(o, r)
  BY DEF ltv_pct, get_max_ltv_and_liquidation_threshold, InGroup
<1>3. \A x \in Collaterals \ {q} : Allowance(n, p)[x] = Allowance(o, p)[x]
  BY <1>2, Sets DEF Allowance, collateral_mv, SameBut
<1> QED
  BY <1>1, <1>3, Sets, SumUpdate DEF AllowedSum

LEMMA DebtMoves ==
    ASSUME NEW o, NEW n, NEW p, CanValue(o, p), CanValue(n, p), NEW r \in Debts,
           n.group = o.group, SameBut(o.borrowed_sf, n.borrowed_sf, r)
    PROVE  DebtSum(n, p) = DebtSum(o, p) - Weighed(o, p)[r] + Weighed(n, p)[r]
<1>1. NatOn(Weighed(o, p), Debts) /\ NatOn(Weighed(n, p), Debts)
  BY PartTypes
<1>2. \A x : borrow_factor_f(n, x) = borrow_factor_f(o, x)
  BY DEF borrow_factor_f, InGroup
<1>3. \A x \in Debts \ {r} : Weighed(n, p)[x] = Weighed(o, p)[x]
  BY <1>2, Sets DEF Weighed, debt_mv, SameBut
<1> QED
  BY <1>1, <1>3, Sets, SumUpdate DEF DebtSum

LEMMA HealthDeposited ==
    ASSUME NEW o, NEW n, NEW p, CanValue(o, p), CanValue(n, p), Healthy(o, p),
           n.group = o.group, n.borrowed_sf = o.borrowed_sf,
           \A x \in ReserveId : o.deposited[x] <= n.deposited[x]
    PROVE  Healthy(n, p)
<1>1. NatOn(Threshold(o, p), Collaterals) /\ NatOn(Threshold(n, p), Collaterals)
  BY PartTypes
<1>2. \A r : threshold_pct(n, r) = threshold_pct(o, r)
  BY DEF threshold_pct, get_max_ltv_and_liquidation_threshold, InGroup
<1>3. ASSUME NEW x \in Collaterals PROVE Threshold(o, p)[x] <= Threshold(n, p)[x]
  <2> DEFINE a == o.deposited[x]
             b == n.deposited[x]
             z == p[x]
             t == Pct(threshold_pct(o, x))
  <2>1. x \in ReserveId /\ a \in Nat /\ b \in Nat /\ z \in Nat /\ t \in Nat /\ a <= b
    BY Sets, EntryTypes, SettingTypes DEF CanValue, Positive
  <2>2. /\ Threshold(o, p)[x] = Mul(a * SF * z, t) /\ Threshold(n, p)[x] = Mul(b * SF * z, t)
    BY <1>2 DEF Threshold, collateral_mv
  <2> HIDE DEF a, b, z, t
  <2>3. a * SF \in Nat /\ b * SF \in Nat /\ a * SF <= b * SF
    BY <2>1, ScaleType, ProductMono
  <2>4. a * SF * z \in Nat /\ b * SF * z \in Nat /\ a * SF * z <= b * SF * z
    BY <2>1, <2>3, ProductMono
  <2>5. Mul(a * SF * z, t) <= Mul(b * SF * z, t)
    BY <2>1, <2>4, MulOrder
  <2> QED
    BY <2>2, <2>5
<1>4. UnhealthySum(o, p) <= UnhealthySum(n, p)
  BY <1>1, <1>3, Sets, SumMonotone DEF UnhealthySum
<1>5. DebtSum(n, p) = DebtSum(o, p)
  BY SameSums
<1> QED
  BY <1>4, <1>5, HealthSums

LEMMA HealthRepaid ==
    ASSUME NEW o, NEW n, NEW p, CanValue(o, p), CanValue(n, p), Healthy(o, p),
           n.group = o.group, n.deposited = o.deposited,
           \A x \in ReserveId : n.borrowed_sf[x] <= o.borrowed_sf[x]
    PROVE  Healthy(n, p)
<1>1. NatOn(Weighed(o, p), Debts) /\ NatOn(Weighed(n, p), Debts)
  BY PartTypes
<1>2. \A x : borrow_factor_f(n, x) = borrow_factor_f(o, x)
  BY DEF borrow_factor_f, InGroup
<1>3. ASSUME NEW x \in Debts PROVE Weighed(n, p)[x] <= Weighed(o, p)[x]
  <2> DEFINE a == n.borrowed_sf[x]
             b == o.borrowed_sf[x]
             z == p[x]
             t == borrow_factor_f(o, x)
  <2>1. x \in ReserveId /\ a \in Nat /\ b \in Nat /\ z \in Nat /\ t \in Nat /\ a <= b
    BY Sets, EntryTypes, SettingTypes DEF CanValue, Positive
  <2>2. /\ Weighed(n, p)[x] = Mul(a * z, t) /\ Weighed(o, p)[x] = Mul(b * z, t)
    BY <1>2 DEF Weighed, debt_mv
  <2> HIDE DEF a, b, z, t
  <2>3. a * z \in Nat /\ b * z \in Nat /\ a * z <= b * z
    BY <2>1, ProductMono
  <2>4. Mul(a * z, t) <= Mul(b * z, t)
    BY <2>1, <2>3, MulOrder
  <2> QED
    BY <2>2, <2>4
<1>4. DebtSum(n, p) <= DebtSum(o, p)
  BY <1>1, <1>3, Sets, SumMonotone DEF DebtSum
<1>5. UnhealthySum(n, p) = UnhealthySum(o, p)
  BY SameSums
<1> QED
  BY <1>4, <1>5, HealthSums

\* What a borrow adds to the weighed debt, with what rounding may add.
LEMMA BorrowAdds ==
    ASSUME NEW a \in Nat, NEW b \in Nat, NEW t \in Nat
    PROVE  Mul(a + b, t) <= Mul(a, t) + Mul(b, t) + 1
<1> DEFINE x == Mul(a, t)
           y == Mul(b, t)
           z == Mul(a + b, t)
           at == a * t
           bt == b * t
<1>1. /\ x \in Nat /\ at < SF * x + SF
      /\ y \in Nat /\ bt < SF * y + SF
      /\ z \in Nat /\ SF * z <= (a + b) * t
  <2>1. a + b \in Nat
    OBVIOUS
  <2> QED
    BY <2>1, MulBounds
<1>2. (a + b) * t = at + bt /\ at \in Nat /\ bt \in Nat
  OBVIOUS
<1> HIDE DEF x, y, z, at, bt
<1>3. SF * z < SF * (x + y + 2)
  <2>1. SF * (x + y + 2) = SF * x + SF * y + 2 * SF
    BY <1>1, ScaleType
  <2>2. SF * x \in Nat /\ SF * y \in Nat /\ SF * z \in Nat
    BY <1>1, ScaleType
  <2> QED
    BY <1>1, <1>2, <2>1, <2>2, ScaleType
<1>4. z < x + y + 2
  BY <1>1, <1>3, ScaleType
<1>5. z <= x + y + 1
  BY <1>1, <1>4
<1> QED
  BY <1>5 DEF x, y, z

\* A withdrawal takes what may be withdrawn at most, as worth on its loan to
\* value.
LEMMA AllowanceLeft ==
    ASSUME NEW asset \in Nat, NEW left \in Nat, NEW pct \in 1..100, NEW room \in Nat,
           asset <= (room * 100) \div pct
    PROVE  Mul(left + asset, Pct(pct)) <= Mul(left, Pct(pct)) + room
<1> DEFINE P == Pct(pct)
           k == (room * 100) \div pct
           x == Mul(left + asset, P)
           y == Mul(left, P)
<1>1. k \in Nat /\ pct * k <= room * 100
  <2>1. room * 100 \in Nat /\ pct \in Nat \ {0}
    OBVIOUS
  <2> QED
    BY <2>1, DivBounds
<1>2. P \in Nat /\ 100 * P <= pct * SF
  <2>1. pct * SF \in Nat
    BY ScaleType
  <2> QED
    BY <2>1, DivBounds DEF Pct
<1>3. asset <= k
  OBVIOUS
<1> HIDE DEF k, P
<1>4. asset * P <= room * SF
  <2>1. pct * asset <= pct * k
    BY <1>1, <1>3
  <2>2. pct * asset <= room * 100
    BY <1>1, <2>1
  <2>3. asset * (100 * P) <= asset * (pct * SF)
    <3>1. 100 * P \in Nat /\ pct * SF \in Nat
      BY <1>2, ScaleType
    <3> HIDE DEF P
    <3>2. (100 * P) * asset <= (pct * SF) * asset
      BY <1>2, <3>1, ProductMono
    <3>3. (100 * P) * asset = asset * (100 * P) /\ (pct * SF) * asset = asset * (pct * SF)
      BY <1>2, ScaleType
    <3> QED
      BY <3>2, <3>3
  <2>4. (pct * asset) * SF <= (room * 100) * SF
    BY <2>2, ProductMono, ScaleType
  <2>5. asset * (pct * SF) = (pct * asset) * SF /\ (room * 100) * SF = 100 * (room * SF)
        /\ asset * (100 * P) = 100 * (asset * P)
    BY <1>2, ScaleType
  <2>6. asset * P \in Nat /\ room * SF \in Nat /\ (pct * asset) * SF \in Nat
    BY <1>2, ScaleType
  <2> QED
    BY <2>3, <2>4, <2>5, <2>6
<1>5. /\ x \in Nat /\ SF * x <= (left + asset) * P
      /\ y \in Nat /\ left * P < SF * y + SF
  <2>1. left + asset \in Nat
    OBVIOUS
  <2> QED
    BY <1>2, <2>1, MulBounds
<1> HIDE DEF x, y
<1>6. SF * x < SF * (y + room + 1)
  <2>1. (left + asset) * P = left * P + asset * P
    BY <1>2
  <2>2. SF * (y + room + 1) = SF * y + SF * room + SF
    BY <1>5, ScaleType
  <2>3. left * P \in Nat /\ asset * P \in Nat /\ SF * x \in Nat /\ SF * y \in Nat
        /\ SF * room \in Nat /\ SF * room = room * SF
    BY <1>2, <1>5, ScaleType
  <2> QED
    BY <1>4, <1>5, <2>1, <2>2, <2>3, ScaleType
<1>7. x < y + room + 1
  BY <1>5, <1>6, ScaleType
<1>8. x <= y + room
  BY <1>5, <1>7
<1> QED
  BY <1>8 DEF x, y, P

\* A withdrawal is worth at most what may be withdrawn.
LEMMA WithdrawBound ==
    ASSUME NEW o, CanValue(o, o.valued), NEW q \in Collaterals, o.deposited[q] # 0,
           NEW n \in Nat, NEW v, v.debt \in Nat, v.allowed \in Nat, HasDebt(o),
           NEW c, c = withdraw_amount(o, v, q, n, "MaxLtv"), c \in Nat, c > 0
    PROVE  /\ v.debt < v.allowed
           /\ ltv_pct(o, q) # 0 =>
                 c * SF * o.valued[q] <= ((v.allowed - v.debt) * 100) \div ltv_pct(o, q)
<1> DEFINE most == max_withdraw_value(o, v, q, "MaxLtv")
           mv == collateral_mv(o, o.valued, q)
           dep == o.deposited[q]
           z == o.valued[q]
           amount == Lesser(n, dep)
           value == Mul(mv, DivCeil(amount * SF, dep))
           l == Lesser(most, mv)
           part == Mul(Div(l, mv), dep * SF) \div SF
           pct == ltv_pct(o, q)
           room == v.allowed - v.debt
<1>1. /\ q \in ReserveId /\ mv \in Nat /\ mv # 0 /\ dep \in Nat \ {0} /\ z \in Nat \ {0}
      /\ o \in Obligations /\ mv = dep * SF * z /\ pct \in 0..100
  BY Sets, EntryTypes, SettingTypes DEF CanValue, collateral_mv, Positive
<1>2. most = IF v.allowed <= v.debt THEN 0 ELSE IF pct = 0 THEN mv ELSE (room * 100) \div pct
  BY DEF max_withdraw_value
<1>3. c = IF v.deposited = 0 \/ most = 0 THEN 0
          ELSE IF n = MAX THEN part ELSE IF value > most THEN 0 ELSE amount
  BY DEF withdraw_amount
<1>4. most # 0 /\ (c = part \/ (c = amount /\ ~(value > most)))
  BY <1>3
<1>5. v.debt < v.allowed
  BY <1>2, <1>4
<1>6. room \in Nat
  BY <1>5
<1>7. most \in Nat
  <2> HIDE DEF most, mv, pct, room
  <2>1. pct # 0 => (room * 100) \div pct \in Nat
    <3>1. room * 100 \in Nat
      BY <1>6
    <3> QED
      BY <1>1, <3>1, DivBounds
  <2> QED
    BY <1>1, <1>2, <2>1
<1> HIDE DEF most, room, pct
<1>8. c * SF * z <= most
  <2>1. CASE c = part
    <3>1. l \in Nat /\ l <= most
      BY <1>1, <1>7 DEF Lesser
    <3>2. part = Mul(dep * SF, Div(l, dep * SF * z)) \div SF
      <4>1. Div(l, mv) \in Nat /\ dep * SF \in Nat
        BY <1>1, <3>1, DivType, ScaleType
      <4>2. Mul(Div(l, mv), dep * SF) = Mul(dep * SF, Div(l, mv))
        BY <4>1, MulSwap
      <4> HIDE DEF mv, l, dep, z
      <4> QED
        BY <1>1, <4>2
    <3> HIDE DEF l, dep, z, mv, part
    <3>3. part \in Nat /\ part * SF * z <= l
      BY <1>1, <3>1, <3>2, TakenBound
    <3>4. part * SF * z \in Nat
      BY <1>1, <3>3, ScaleType
    <3> QED
      BY <1>7, <2>1, <3>1, <3>3, <3>4
  <2>2. CASE c = amount /\ ~(value > most)
    <3> DEFINE k == DivCeil(amount * SF, dep)
               u == amount * SF
    <3>1. amount \in Nat
      BY <1>1 DEF Lesser
    <3> HIDE DEF amount, dep, z
    <3>2. u \in Nat
      BY <3>1, ScaleType
    <3>3. k \in Nat /\ u <= dep * k
      BY <1>1, <3>2, CeilBounds
    <3> HIDE DEF k
    <3>4. value \in Nat /\ mv * k < SF * value + SF
      <4>1. value = Mul(mv, k)
        BY DEF k
      <4> HIDE DEF mv, value
      <4> QED
        BY <1>1, <3>3, <4>1, MulBounds
    <3> HIDE DEF value
    <3>5. mv * k >= SF * (u * z)
      <4>1. dep * k \in Nat
        BY <1>1, <3>3
      <4> HIDE DEF u
      <4>2. u * (SF * z) <= (dep * k) * (SF * z)
        <5>1. SF * z \in Nat
          BY <1>1, ScaleType
        <5> QED
          BY <3>2, <3>3, <4>1, <5>1, ProductMono
      <4>3. u * (SF * z) = SF * (u * z) /\ (dep * k) * (SF * z) = (dep * SF * z) * k
        BY <1>1, <3>2, <3>3, ScaleType
      <4>4. (dep * SF * z) * k \in Nat /\ SF * (u * z) \in Nat
        BY <1>1, <3>2, <3>3, ScaleType
      <4> HIDE DEF mv
      <4> QED
        BY <1>1, <4>2, <4>3, <4>4
    <3>6. u * z <= value
      <4> DEFINE y == u * z
      <4>1. y \in Nat
        BY <1>1, <3>2
      <4> HIDE DEF mv, y
      <4>2. SF * y < SF * value + SF
        <5>1. mv * k \in Nat /\ SF * y \in Nat /\ SF * value \in Nat
          BY <1>1, <3>3, <3>4, <4>1, ScaleType
        <5> QED
          BY <3>4, <3>5, <5>1, ScaleType DEF y
      <4>3. SF * value + SF = SF * (value + 1)
        BY <3>4, ScaleType
      <4>4. y < value + 1
        BY <3>4, <4>1, <4>2, <4>3, ScaleType
      <4> QED
        BY <3>4, <4>1, <4>4 DEF y
    <3>7. u * z \in Nat
      BY <1>1, <3>2
    <3> QED
      BY <1>7, <2>2, <3>4, <3>6, <3>7 DEF u
  <2> QED
    BY <1>4, <2>1, <2>2
<1>9. pct # 0 => most = (room * 100) \div pct
  BY <1>2, <1>5
<1> QED
  BY <1>5, <1>8, <1>9 DEF room, pct, z

LEMMA DepositHealth ==
    ASSUME NEW o, NEW p, CanValue(o, p), Healthy(o, p), NEW r \in ReserveId, NEW c \in Nat,
           NEW n, CanValue(n, p), n.deposited = [o.deposited EXCEPT ![r] = @ + c],
           n.borrowed_sf = o.borrowed_sf, n.group = o.group
    PROVE  Healthy(n, p)
<1>1. o.deposited \in [ReserveId -> 0..MaxDeposit] /\ MaxDeposit \in Nat
  BY BoundTypes DEF CanValue, Obligations
<1>2. \A x \in ReserveId : o.deposited[x] <= n.deposited[x]
  BY <1>1
<1> QED
  BY <1>2, HealthDeposited

LEMMA RepayHealth ==
    ASSUME NEW o, NEW p, CanValue(o, p), Healthy(o, p), NEW r \in Debts, NEW a \in Nat,
           NEW n, CanValue(n, p), n.borrowed_sf = [o.borrowed_sf EXCEPT ![r] = @ - a],
           n.deposited = o.deposited, n.group = o.group
    PROVE  Healthy(n, p)
<1>1. o.borrowed_sf \in [ReserveId -> Nat] /\ r \in ReserveId
  BY Sets DEF CanValue, Obligations
<1>2. \A x \in ReserveId : n.borrowed_sf[x] <= o.borrowed_sf[x]
  BY <1>1
<1> QED
  BY <1>2, HealthRepaid

LEMMA WithdrawHealth ==
    ASSUME Margin, NEW o, CanValue(o, o.valued), NEW q \in Collaterals, o.deposited[q] # 0,
           NEW n \in Nat, NEW c, c = withdraw_amount(o, Values(o, o.valued), q, n, "MaxLtv"),
           c \in Nat, c > 0, c <= o.deposited[q], NEW w, CanValue(w, o.valued),
           w.deposited = [o.deposited EXCEPT ![q] = @ - c],
           w.borrowed_sf = o.borrowed_sf, w.group = o.group
    PROVE  Healthy(w, o.valued)
<1> DEFINE p == o.valued
           v == Values(o, p)
           z == p[q]
           d == o.deposited[q]
           pct == ltv_pct(o, q)
           room == v.allowed - v.debt
           asset == c * SF * z
           left == (d - c) * SF * z
<1>1. DebtSum(w, p) = DebtSum(o, p)
  BY SameSums
<1>2. CASE ~HasDebt(o)
  <2>1. \A r \in Debts : Weighed(o, p)[r] = 0
    <3> TAKE r \in Debts
    <3>1. r \in ReserveId /\ o.borrowed_sf[r] = 0 /\ o \in Obligations
      BY <1>2, Sets DEF HasDebt, Borrows, CanValue
    <3>2. debt_mv(o, p, r) = 0 /\ borrow_factor_f(o, r) \in Nat
      BY <3>1, EntryTypes, SettingTypes
    <3> QED
      BY <3>2, MulZero DEF Weighed
  <2>2. DebtSum(o, p) = 0
    BY <2>1, SumNone, Sets DEF DebtSum
  <2> QED
    BY <1>1, <2>2, HealthSums
<1>3. CASE HasDebt(o)
  <2>1. /\ q \in ReserveId /\ o \in Obligations /\ z \in Nat \ {0} /\ d \in Nat /\ pct \in 0..100
        /\ o.deposited \in [ReserveId -> 0..MaxDeposit]
    BY Sets, EntryTypes, SettingTypes DEF CanValue, Positive, Obligations
  <2>2. /\ v.debt \in Nat /\ v.allowed \in Nat /\ v.debt = DebtSum(o, p)
        /\ v.allowed <= AllowedSum(o, p)
    BY HealthSums
  <2>3. /\ v.debt < v.allowed
        /\ pct # 0 => asset <= (room * 100) \div pct
    <3> HIDE DEF v
    <3>1. v.debt \in Nat /\ v.allowed \in Nat /\ c = withdraw_amount(o, v, q, n, "MaxLtv")
      BY <2>2 DEF v
    <3> QED
      BY <1>3, <3>1, WithdrawBound
  <2>4. room \in Nat
    BY <2>2, <2>3
  <2>5. asset \in Nat /\ left \in Nat /\ d * SF * z = left + asset
    <3> HIDE DEF z
    <3>1. d - c \in Nat
      BY <2>1
    <3> HIDE DEF d
    <3>2. d * SF * z = (d - c) * SF * z + c * SF * z
      BY <2>1, ScaleType
    <3> QED
      BY <2>1, <3>1, <3>2, ScaleType
  <2>6. Allowance(o, p)[q] = Mul(left + asset, Pct(pct)) /\ Allowance(w, p)[q] = Mul(left, Pct(pct))
    <3>1. ltv_pct(w, q) = pct
      BY DEF ltv_pct, get_max_ltv_and_liquidation_threshold, InGroup
    <3>2. collateral_mv(o, p, q) = left + asset
      BY <2>5 DEF collateral_mv
    <3>3. collateral_mv(w, p, q) = left
      BY <2>1 DEF collateral_mv
    <3> QED
      BY <3>1, <3>2, <3>3 DEF Allowance
  <2> HIDE DEF left, asset, room
  <2>7. Allowance(o, p)[q] <= Allowance(w, p)[q] + room
    <3>1. Allowance(w, p)[q] \in Nat
      BY PartTypes DEF NatOn
    <3>2. CASE pct = 0
      <4>1. Pct(0) = 0
        BY ScaleType DEF Pct
      <4>2. Mul(left + asset, 0) = 0
        <5>1. left + asset \in Nat
          BY <2>5
        <5> QED
          BY <5>1, MulZero, MulSwap
      <4> QED
        BY <2>4, <2>6, <3>1, <3>2, <4>1, <4>2
    <3>3. CASE pct # 0
      <4>1. pct \in 1..100 /\ asset <= (room * 100) \div pct
        BY <2>1, <2>3, <3>3
      <4> HIDE DEF pct
      <4>2. Mul(left + asset, Pct(pct)) <= Mul(left, Pct(pct)) + room
        BY <2>4, <2>5, <4>1, AllowanceLeft
      <4> QED
        BY <2>6, <4>2
    <3> QED
      BY <3>2, <3>3
  <2>8. AllowedSum(w, p) = AllowedSum(o, p) - Allowance(o, p)[q] + Allowance(w, p)[q]
    <3>1. SameBut(o.deposited, w.deposited, q)
      BY <2>1 DEF SameBut
    <3> QED
      BY <3>1, AllowedMoves
  <2>9. /\ Allowance(o, p)[q] \in Nat /\ Allowance(w, p)[q] \in Nat
        /\ AllowedSum(o, p) \in Nat /\ AllowedSum(w, p) \in Nat
    BY PartTypes, HealthSums DEF NatOn
  <2>10. DebtSum(w, p) <= AllowedSum(w, p)
    <3> DEFINE a1 == Allowance(o, p)[q]
               a2 == Allowance(w, p)[q]
               s1 == AllowedSum(o, p)
               s2 == AllowedSum(w, p)
               x == v.debt
               y == v.allowed
    <3>1. /\ a1 \in Nat /\ a2 \in Nat /\ s1 \in Nat /\ s2 \in Nat /\ x \in Nat /\ y \in Nat
          /\ a1 <= a2 + room /\ s2 = s1 - a1 + a2 /\ y <= s1 /\ room = y - x
          /\ DebtSum(w, p) = x
      BY <1>1, <2>2, <2>7, <2>8, <2>9 DEF room
    <3> HIDE DEF a1, a2, s1, s2, x, y
    <3>2. x <= s2
      BY <3>1
    <3> QED
      BY <3>1, <3>2 DEF s2
  <2> QED
    BY <2>10, HealthyWithin
<1> QED
  BY <1>2, <1>3

LEMMA BorrowHealth ==
    ASSUME Margin, NEW o, NEW p, CanValue(o, p), NEW r \in Debts, NEW b \in Nat, b >= SF,
           Mul(b * p[r], borrow_factor_f(o, r))
             <= saturating_sub(Values(o, p).allowed, Values(o, p).debt),
           NEW n, CanValue(n, p), n.borrowed_sf = [o.borrowed_sf EXCEPT ![r] = @ + b],
           n.deposited = o.deposited, n.group = o.group
    PROVE  Healthy(n, p)
<1> DEFINE v == Values(o, p)
           t == borrow_factor_f(o, r)
           z == p[r]
           B == o.borrowed_sf[r]
           more == Mul(b * z, t)
           allowed == v.allowed
           debt == v.debt
<1>1. /\ r \in ReserveId /\ o \in Obligations /\ B \in Nat /\ z \in Nat \ {0} /\ t \in Nat /\ t >= SF
      /\ o.borrowed_sf \in [ReserveId -> Nat]
  BY Sets, EntryTypes, SettingTypes DEF CanValue, Positive, Obligations
<1>2. /\ debt \in Nat /\ allowed \in Nat /\ debt = DebtSum(o, p)
      /\ allowed <= AllowedSum(o, p) /\ AllowedSum(o, p) \in Nat /\ DebtSum(n, p) \in Nat
  BY HealthSums
<1>3. /\ Weighed(o, p)[r] = Mul(B * z, t) /\ Weighed(n, p)[r] = Mul(B * z + b * z, t)
  <2>1. borrow_factor_f(n, r) = t
    BY DEF borrow_factor_f, InGroup
  <2>2. debt_mv(n, p, r) = (B + b) * z
    BY <1>1 DEF debt_mv
  <2>3. (B + b) * z = B * z + b * z
    BY <1>1
  <2> QED
    BY <2>1, <2>2, <2>3 DEF Weighed, debt_mv
<1>4. DebtSum(n, p) = DebtSum(o, p) - Weighed(o, p)[r] + Weighed(n, p)[r]
  <2>1. SameBut(o.borrowed_sf, n.borrowed_sf, r)
    BY <1>1 DEF SameBut
  <2> QED
    BY <2>1, DebtMoves
<1>5. Weighed(o, p)[r] \in Nat /\ Weighed(n, p)[r] \in Nat
  BY PartTypes DEF NatOn
<1>6. Weighed(n, p)[r] <= Weighed(o, p)[r] + more + 1
  <2> HIDE DEF B, z, t, more
  <2>1. B * z \in Nat /\ b * z \in Nat
    BY <1>1
  <2>2. Mul(B * z + b * z, t) <= Mul(B * z, t) + Mul(b * z, t) + 1
    BY <1>1, <2>1, BorrowAdds
  <2> QED
    BY <1>3, <2>2 DEF more
<1>7. more \in Nat /\ more # 0
  <2> HIDE DEF z, t
  <2> DEFINE y == b * z
  <2>1. y \in Nat /\ y >= SF
    <3>1. b * z >= b
      BY <1>1
    <3> QED
      BY <1>1, <3>1, ScaleType
  <2> HIDE DEF y
  <2>2. y * t >= SF * SF /\ y * t \in Nat
    <3>1. y * t >= SF * t
      BY <1>1, <2>1, ScaleType, ProductMono
    <3>2. t * SF >= SF * SF
      BY <1>1, ScaleType, ProductMono
    <3>3. y * t \in Nat /\ SF * t \in Nat /\ SF * SF \in Nat /\ SF * t = t * SF
      BY <1>1, <2>1, ScaleType
    <3> QED
      BY <3>1, <3>2, <3>3
  <2>3. more \in Nat /\ y * t < SF * more + SF
    <3>1. more = Mul(y, t)
      BY DEF y
    <3> HIDE DEF more
    <3> QED
      BY <1>1, <2>1, <3>1, MulBounds
  <2> HIDE DEF more
  <2>4. more # 0
    <3> SUFFICES ASSUME more = 0 PROVE FALSE
      OBVIOUS
    <3>1. y * t < SF
      BY <2>3, ScaleType
    <3>2. SF * SF >= SF /\ SF * SF \in Nat
      BY ScaleType
    <3> QED
      BY <2>2, <3>1, <3>2, ScaleType
  <2> QED
    BY <2>3, <2>4
<1>8. more <= saturating_sub(allowed, debt)
  OBVIOUS
<1> DEFINE w1 == Weighed(o, p)[r]
           w2 == Weighed(n, p)[r]
           s == AllowedSum(o, p)
           dn == DebtSum(n, p)
<1>9. /\ w1 \in Nat /\ w2 \in Nat /\ w2 <= w1 + more + 1 /\ more \in Nat /\ more # 0
      /\ more <= saturating_sub(allowed, debt) /\ debt \in Nat /\ allowed \in Nat
      /\ allowed <= s /\ s \in Nat /\ dn = debt - w1 + w2
  BY <1>2, <1>4, <1>5, <1>6, <1>7, <1>8
<1> HIDE DEF w1, w2, s, dn, more, allowed, debt, v
<1>10. s # 0 /\ dn <= s + 1
  BY <1>9 DEF saturating_sub
<1>11. AllowedSum(n, p) = AllowedSum(o, p)
  BY SameSums
<1> QED
  BY <1>10, <1>11, HealthyWithin DEF s, dn

\* After a swap the obligation is held against its threshold as it is left.
LEMMA EnforcedHealth ==
    ASSUME NEW w, NEW p, CanValue(w, p), NEW q, NEW ltv, enforcements(Values(w, p), q, ltv)
    PROVE  Healthy(w, p)
<1> DEFINE v == Values(w, p)
<1>1. v.debt \in Nat /\ v.unhealthy \in Nat /\ v.deposited \in Nat
  BY ValueTypes
<1>2. /\ v.debt > 0 => v.deposited # 0
      /\ v.deposited # 0 => loan_to_value(v) < unhealthy_loan_to_value(v)
  BY DEF enforcements
<1> HIDE DEF v
<1>3. CASE v.deposited = 0
  <2>1. v.debt = 0
    BY <1>1, <1>2, <1>3
  <2> QED
    BY <2>1 DEF Healthy, v
<1>4. CASE v.deposited # 0
  <2>1. Div(v.debt, v.deposited) < Div(v.unhealthy, v.deposited)
    BY <1>2, <1>4 DEF loan_to_value, unhealthy_loan_to_value
  <2>2. Div(v.debt, v.deposited) \in Nat /\ Div(v.unhealthy, v.deposited) \in Nat
    BY <1>1, <1>4, DivType
  <2>3. v.unhealthy <= v.debt => Div(v.unhealthy, v.deposited) <= Div(v.debt, v.deposited)
    BY <1>1, <1>4, DivOrderSF
  <2>4. v.debt < v.unhealthy
    BY <1>1, <2>1, <2>2, <2>3
  <2> QED
    BY <2>4 DEF Healthy, v
<1> QED
  BY <1>3, <1>4

\* Values that hold, of an obligation that is healthy at them.
Held == Inv /\ Inv' /\ ob.valued = price /\ Healthy(ob, price)

LEMMA HeldFacts ==
    ASSUME Held
    PROVE  /\ CanValue(ob, price) /\ CanValue(ob', price) /\ Healthy(ob, price)
           /\ Kept(ob, now, filled) /\ Sane(ob, now) /\ Reserves
           /\ price \in [ReserveId -> Positive] /\ now \in Nat /\ now \in 1..MaxDay
<1>1. Kept(ob, now, filled) /\ Sane(ob, now) /\ Reserves /\ Sane(ob, now)'
  BY DEF Held, Inv, Kept
<1> QED
  BY <1>1, ReserveFacts DEF Held, CanValue, Sane

LEMMA SettingsHealth ==
    ASSUME Held, ob'.group = ob.group, ob'.deposited = ob.deposited, ob'.borrowed_sf = ob.borrowed_sf
    PROVE  Healthy(ob', price)
  BY HeldFacts, HealthUnchanged

LEMMA MarginCallHealth ==
    ASSUME Held, NEW c \in 0..MaxDay, NEW y \in Nat,
           ob' = [ob EXCEPT !.margin_call = c, !.target = y]
    PROVE  Healthy(ob', price)
<1>1. ob \in Obligations
  BY HeldFacts DEF Sane
<1>2. ob'.group = ob.group /\ ob'.deposited = ob.deposited /\ ob'.borrowed_sf = ob.borrowed_sf
  BY <1>1 DEF Obligations
<1> QED
  BY <1>2, SettingsHealth

LEMMA OrderHealth ==
    ASSUME Held, NEW i \in OrderSlot, NEW order \in OrderConfigs \cup {NoOrder},
           SetObligationOrder(i, order)
    PROVE  Healthy(ob', price)
<1>1. ob' = [ob EXCEPT !.orders[i] = order]
  BY DEF SetObligationOrder
<1>2. ob \in Obligations
  BY HeldFacts DEF Sane
<1>3. ob'.group = ob.group /\ ob'.deposited = ob.deposited /\ ob'.borrowed_sf = ob.borrowed_sf
  BY <1>1, <1>2 DEF Obligations
<1> QED
  BY <1>3, SettingsHealth

LEMMA DepositHealthStep ==
    ASSUME Held, NEW q \in Collaterals, NEW c \in Amounts, Deposit(q, c)
    PROVE  Healthy(ob', price)
<1>1. ob' = deposited(ob, q, c) /\ ob.deposited[q] + c <= MaxDeposit /\ c \in Nat /\ q \in ReserveId
  BY Sets, PositionAssumption DEF Deposit
<1>2. /\ ob'.deposited = [ob.deposited EXCEPT ![q] = @ + c]
      /\ ob'.borrowed_sf = ob.borrowed_sf /\ ob'.group = ob.group
  BY <1>1, HeldFacts, DepositedSane
<1> QED
  BY <1>1, <1>2, HeldFacts, DepositHealth

LEMMA RepaidHealth ==
    ASSUME Held, NEW r \in Debts, NEW n \in Amounts,
           ob' = repaid(ob, r, Lesser(n * SF, ob.borrowed_sf[r]))
    PROVE  Healthy(ob', price)
<1> DEFINE a == Lesser(n * SF, ob.borrowed_sf[r])
<1>1. a \in Nat /\ a <= ob.borrowed_sf[r] /\ ob' = repaid(ob, r, a)
  BY HeldFacts, SettleType
<1> HIDE DEF a
<1>2. /\ ob'.borrowed_sf = [ob.borrowed_sf EXCEPT ![r] = @ - a]
      /\ ob'.deposited = ob.deposited /\ ob'.group = ob.group
  BY <1>1, HeldFacts, RepaidSane
<1> QED
  BY <1>1, <1>2, HeldFacts, RepayHealth

\* An obligation left empty is closed.
LEMMA ClosedHealth ==
    ASSUME NEW p, NEW o, CanValue(closed_if_empty(o), p),
           closed_if_empty(o) = o => Healthy(o, p)
    PROVE  Healthy(closed_if_empty(o), p)
<1>1. closed_if_empty(o) \in {o, NewObligation}
  BY DEF closed_if_empty
<1> QED
  BY <1>1, NewHealthy

LEMMA WithdrawHealthStep ==
    ASSUME Margin, Held, NEW q \in Collaterals, NEW n \in Amounts, NEW redeemed \in BOOLEAN,
           Withdraw(q, n, redeemed)
    PROVE  Healthy(ob', price)
<1> DEFINE c == withdraw_amount(ob, Values(ob, ob.valued), q, n, "MaxLtv")
           w == withdrawn(ob, q, c)
<1>1. ob' = closed_if_empty(w) /\ c > 0 /\ ob.deposited[q] # 0
  BY DEF Withdraw, CanWithdraw, Deposits
<1>2. ob.valued = price /\ CanValue(ob, ob.valued) /\ n \in Nat
  BY HeldFacts, PositionAssumption DEF Held
<1>3. c \in Nat /\ c <= ob.deposited[q]
  <2>1. ob.deposited[q] \in Nat
    BY HeldFacts, SaneFields, BoundTypes, Sets
  <2>2. c \in 0..ob.deposited[q]
    BY <1>1, <1>2, WithdrawType
  <2> HIDE DEF c
  <2> QED
    BY <2>1, <2>2
<1>4. c = withdraw_amount(ob, Values(ob, ob.valued), q, n, "MaxLtv")
  OBVIOUS
<1> HIDE DEF c
<1>5. /\ w.deposited = [ob.deposited EXCEPT ![q] = @ - c] /\ w.borrowed_sf = ob.borrowed_sf
      /\ w.group = ob.group /\ Sane(w, now)
  BY <1>3, HeldFacts, Sets, WithdrawnSane
<1> HIDE DEF w
<1>6. CanValue(w, ob.valued)
  BY <1>2, <1>5 DEF CanValue, Sane
<1>7. Healthy(w, ob.valued)
  BY <1>1, <1>2, <1>3, <1>4, <1>5, <1>6, WithdrawHealth
<1> QED
  BY <1>1, <1>2, <1>7, HeldFacts, ClosedHealth

LEMMA BorrowHealthStep ==
    ASSUME Margin, Held, NEW r \in Debts, NEW n \in Amounts, Borrow(r, n)
    PROVE  Healthy(ob', price)
<1> DEFINE v == Values(ob, ob.valued)
           b == borrow_amount(ob, v, r, n)
           o == Owing(ob, r, b, now)
<1>1. /\ ob' = o /\ b >= SF /\ borrow_allowed(ob, v, r, b) /\ ~TermEnded(ob, r)
      /\ ob.valued = price
  BY DEF Borrow, Owing, Held
<1>2. b \in Positive /\ b \in Nat
  <2>1. CanValue(ob, ob.valued) /\ n \in Nat /\ r \in ReserveId /\ price \in [ReserveId -> Positive]
    BY <1>1, HeldFacts, PositionAssumption, Sets
  <2>2. b \in Nat
    BY <2>1, BorrowType
  <2> QED
    BY <1>1, <2>2, ScaleType DEF Positive
<1>3. Mul(b * price[r], borrow_factor_f(ob, r))
        <= saturating_sub(Values(ob, price).allowed, Values(ob, price).debt)
  BY <1>1 DEF borrow_allowed
<1> HIDE DEF b
<1>4. /\ o.borrowed_sf = [ob.borrowed_sf EXCEPT ![r] = @ + b]
      /\ o.deposited = ob.deposited /\ o.group = ob.group
  BY <1>1, <1>2, HeldFacts, BorrowedSane DEF TermEnded, EndedBy
<1> HIDE DEF o
<1> QED
  BY <1>1, <1>2, <1>3, <1>4, HeldFacts, BorrowHealth

LEMMA PermissiveHealth ==
    ASSUME Held, NEW o, NEW q, NEW n, NEW ltv, WithdrawPermissively(o, q, n, ltv)
    PROVE  Healthy(ob', price)
<1> DEFINE left == withdrawn(o, q, withdraw_amount(o, Values(o, o.valued), q, n, "Threshold"))
<1>1. /\ ob' = closed_if_empty(left)
      /\ closed_if_empty(left) = left => enforcements(Values(left, price), q, ltv)
  BY DEF WithdrawPermissively
<1> HIDE DEF left
<1>2. CanValue(closed_if_empty(left), price)
  BY <1>1, HeldFacts
<1>3. closed_if_empty(left) = left => Healthy(left, price)
  BY <1>1, <1>2, EnforcedHealth
<1> QED
  BY <1>1, <1>2, <1>3, ClosedHealth

LEMMA GroupHealth ==
    ASSUME Margin, Held, NEW g \in Group \cup {ELEVATION_GROUP_NONE}, RequestElevationGroup(g)
    PROVE  Healthy(ob', price)
<1> DEFINE o == [ob EXCEPT !.group = g]
<1>1. ob' = stale(o) /\ supports_debt(refreshed_deposits(o, price), refreshed_borrows(o, price).debt)
  BY DEF RequestElevationGroup
<1>2. Sane(o, now)
  BY HeldFacts, GroupSane
<1> HIDE DEF o
<1>3. CanValue(o, price)
  BY <1>2, HeldFacts DEF CanValue, Sane
<1>4. /\ stale(o).group = o.group /\ stale(o).deposited = o.deposited
      /\ stale(o).borrowed_sf = o.borrowed_sf
  BY <1>2, StaleSane
<1>5. /\ refreshed_deposits(o, price).allowed = AllowedSum(o, price)
      /\ refreshed_borrows(o, price).debt = DebtSum(o, price)
  BY <1>3, ValueSums, HealthSums DEF AllowedSum
<1>6. DebtSum(o, price) <= AllowedSum(o, price)
  BY <1>1, <1>3, <1>5, HealthSums DEF supports_debt
<1>7. Healthy(o, price)
  BY <1>3, <1>6, HealthyWithin
<1> QED
  BY <1>1, <1>3, <1>4, <1>7, HeldFacts, HealthUnchanged

Liquidation ==
    \E r \in Debts, q \in Collaterals, n \in Amounts, redeemed \in BOOLEAN :
        Liquidate(r, q, n, redeemed)

LEMMA OwnerHealth ==
    ASSUME Margin, Held, [Next]_vars, ~Liquidation
    PROVE  Healthy(ob', price)
<1>1. CASE UNCHANGED vars
  BY <1>1, HeldFacts DEF vars
<1>2. CASE Next
  <2>1. CASE Tick
    <3>1. ob' = stale(ob)
      BY <2>1 DEF Tick
    <3> QED
      BY <3>1, HeldFacts, StaleSane, SettingsHealth
  <2>2. CASE RefreshObligation
    <3>1. ob' = refreshed(ob)
      BY <2>2 DEF RefreshObligation
    <3> QED
      BY <3>1, HeldFacts, RefreshedSane, SettingsHealth
  <2>3. CASE UnmarkForDeleveraging
    <3>1. 0 \in 0..MaxDay /\ 0 \in Nat
      BY BoundTypes
    <3> QED
      BY <2>3, <3>1, MarginCallHealth DEF UnmarkForDeleveraging
  <2>4. ASSUME NEW r \in ReserveId, LimitMoves(r) \/ \E p \in Prices[r] : RefreshReserve(r, p)
        PROVE  Healthy(ob', price)
    <3>1. ob' = ob
      BY <2>4 DEF LimitMoves, RefreshReserve
    <3> QED
      BY <3>1, HeldFacts
  <2>5. ASSUME NEW r \in Debts, NEW n \in Amounts, Repay(r, n) \/ SocializeLoss(r, n)
        PROVE  Healthy(ob', price)
    <3>1. ob' = repaid(ob, r, Lesser(n * SF, ob.borrowed_sf[r]))
      BY <2>5 DEF Repay, SocializeLoss
    <3> QED
      BY <3>1, RepaidHealth
  <2>6. ASSUME NEW r \in Debts, NEW q \in Collaterals, NEW n \in Amounts, NEW c \in Amounts,
               RepayAndWithdraw(r, n, q, c)
        PROVE  Healthy(ob', price)
    BY <2>6, PermissiveHealth DEF RepayAndWithdraw
  <2>7. ASSUME NEW r \in Collaterals, NEW q \in Collaterals, NEW d \in Amounts, NEW c \in Amounts,
               DepositAndWithdraw(r, d, q, c)
        PROVE  Healthy(ob', price)
    BY <2>7, PermissiveHealth DEF DepositAndWithdraw
  <2>8. ASSUME NEW t \in Targets, MarkForDeleveraging(t) PROVE Healthy(ob', price)
    <3>1. now \in 0..MaxDay /\ t \in Nat
      BY HeldFacts, PositionAssumption
    <3> QED
      BY <2>8, <3>1, MarginCallHealth DEF MarkForDeleveraging
  <2> QED
    BY <1>2, <2>1, <2>2, <2>3, <2>4, <2>5, <2>6, <2>7, <2>8, DepositHealthStep,
       WithdrawHealthStep, BorrowHealthStep, GroupHealth, OrderHealth DEF Next, Liquidation
<1> QED
  BY <1>1, <1>2

\* No step but a liquidation makes a healthy obligation one that may be
\* liquidated, whatever rounds on the way: not the checks of borrow, withdraw,
\* deposit, repay, the two swaps and a change of elevation group, each of
\* which is made in its own way.  What may be borrowed on a collateral has to
\* be below its threshold, by more than a rounding.
THEOREM OwnersStaySafe == Margin => (Spec => [][KeepsHealth \/ Liquidation]_vars)
<1> SUFFICES ASSUME Margin PROVE Spec => [][KeepsHealth \/ Liquidation]_vars
  OBVIOUS
<1>1. Inv /\ Stays /\ [Next]_vars => [KeepsHealth \/ Liquidation]_vars
  <2> SUFFICES ASSUME Inv, Stays, [Next]_vars, ~Liquidation,
                      ob.valued = price, price' = price, Healthy(ob, price)
               PROVE  Healthy(ob', price)
    BY DEF KeepsHealth
  <2>1. Held
    BY DEF Held, Stays
  <2> QED
    BY <2>1, OwnerHealth
<1> QED
  BY <1>1, Stable, PTL DEF Spec

==============================================================================

--------------------------- MODULE ReserveTheorems ---------------------------
(***************************************************************************)
(* Facts about the operators the specifications of the reserves are built  *)
(* from.                                                                   *)
(*                                                                         *)
(* Sums: SumFunctionOnSet of the community module Functions folds a        *)
(* function over a finite set by a recursive definition on the subsets of  *)
(* that set.  A sum of natural numbers is shown to be a cardinality, that  *)
(* of the set with f[x] units for every x: the cardinality satisfies the   *)
(* recursion, and a recursion on finite subsets has one solution (minimal  *)
(* counterexample).  Everything else follows from facts about              *)
(* cardinalities.                                                          *)
(*                                                                         *)
(* Reserve: the fields of a reserve after each operation, for every scale  *)
(* SF; what rounding does to the exchange rate; and that no operation on a *)
(* sound reserve lets the rate fall or makes the reserve unsound.          *)
(*                                                                         *)
(* WithdrawalCaps: what counting leaves of the caps of a reserve.          *)
(***************************************************************************)
EXTENDS Reserve, WithdrawalCaps, FiniteSets, Functions, FiniteSetTheorems,
        WellFoundedInduction, TLAPS

-----------------------------------------------------------------------------
(* Sums                                                                    *)

NatOn(f, S) == \A x \in S : f[x] \in Nat

Picked(s) == CHOOSE x \in s : TRUE

\* g is a solution of the recursion that defines the sum.
SumsUp(g, f, S) ==
    g = [s \in SUBSET S |->
            IF s = {} THEN 0 ELSE f[Picked(s)] + g[s \ {Picked(s)}]]

Unit(f, x) == {x} \X (1..f[x])
Units(f, S) == UNION {Unit(f, x) : x \in S}

-----------------------------------------------------------------------------
\* The definition of the sum, by its recursion.
LEMMA SumByRecursion ==
    ASSUME NEW f, NEW S
    PROVE  SumFunctionOnSet(f, S) = (CHOOSE g : SumsUp(g, f, S))[S]
  BY DEF SumFunctionOnSet, FoldFunctionOnSet, MapThenFoldSet, SumsUp, Picked

\* The units of one element are as many as its value.
LEMMA UnitCount ==
    ASSUME NEW f, NEW x, f[x] \in Nat
    PROVE  IsFiniteSet(Unit(f, x)) /\ Cardinality(Unit(f, x)) = f[x]
  <1>1. IsFiniteSet({x}) /\ Cardinality({x}) = 1
    BY FS_Singleton
  <1>2. IsFiniteSet(1..f[x]) /\ Cardinality(1..f[x]) = f[x]
    BY FS_Interval
  <1>3. /\ IsFiniteSet({x} \X (1..f[x]))
        /\ Cardinality({x} \X (1..f[x])) = Cardinality({x}) * Cardinality(1..f[x])
    BY <1>1, <1>2, FS_Product
  <1> QED
    BY <1>1, <1>2, <1>3 DEF Unit

\* A finite set has finitely many units.
LEMMA UnitsFinite ==
    ASSUME NEW f, NEW S, IsFiniteSet(S), NatOn(f, S)
    PROVE  IsFiniteSet(Units(f, S))
  <1> DEFINE T == {Unit(f, x) : x \in S}
             u == [x \in S |-> Unit(f, x)]
  <1>1. u \in Surjection(S, T)
    BY DEF Surjection
  <1>2. IsFiniteSet(T)
    BY <1>1, FS_Surjection
  <1>3. \A t \in T : IsFiniteSet(t)
    BY UnitCount DEF NatOn
  <1> QED
    BY <1>2, <1>3, FS_UNION DEF Units

\* Taking one element away takes its value from the number of units.
LEMMA UnitsRemove ==
    ASSUME NEW f, NEW S, IsFiniteSet(S), NatOn(f, S), NEW x \in S
    PROVE  Cardinality(Units(f, S)) = f[x] + Cardinality(Units(f, S \ {x}))
  <1> DEFINE A == Units(f, S \ {x})
             B == Unit(f, x)
  <1>1. IsFiniteSet(S \ {x}) /\ NatOn(f, S \ {x})
    BY FS_RemoveElement DEF NatOn
  <1>2. IsFiniteSet(A)
    BY <1>1, UnitsFinite
  <1>3. IsFiniteSet(B) /\ Cardinality(B) = f[x]
    BY UnitCount DEF NatOn
  <1>4. Units(f, S) = A \cup B
    BY DEF Units
  <1>5. A \cap B = {}
    BY DEF Units, Unit
  <1>6. Cardinality(A \cup B) = Cardinality(A) + Cardinality(B) - Cardinality(A \cap B)
    BY <1>2, <1>3, FS_Union
  <1>7. Cardinality(A \cap B) = 0
    BY <1>5, FS_EmptySet
  <1>8. Cardinality(A) \in Nat /\ f[x] \in Nat
    BY <1>2, FS_CardinalityType DEF NatOn
  <1> QED
    BY <1>3, <1>4, <1>6, <1>7, <1>8

LEMMA UnitsNone == ASSUME NEW f PROVE Cardinality(Units(f, {})) = 0
  <1>1. Units(f, {}) = {}
    BY DEF Units
  <1> QED
    BY <1>1, FS_EmptySet

-----------------------------------------------------------------------------
\* The numbers of units solve the recursion.
LEMMA UnitsSumUp ==
    ASSUME NEW f, NEW S, IsFiniteSet(S), NatOn(f, S)
    PROVE  SumsUp([s \in SUBSET S |-> Cardinality(Units(f, s))], f, S)
  <1> DEFINE g == [s \in SUBSET S |-> Cardinality(Units(f, s))]
  <1>1. ASSUME NEW s \in SUBSET S
        PROVE  g[s] = IF s = {} THEN 0 ELSE f[Picked(s)] + g[s \ {Picked(s)}]
    <2>1. CASE s = {}
      BY <2>1, UnitsNone
    <2>2. CASE s # {}
      <3>1. Picked(s) \in s
        BY <2>2 DEF Picked
      <3>2. IsFiniteSet(s) /\ NatOn(f, s)
        BY FS_Subset DEF NatOn
      <3>3. Cardinality(Units(f, s)) = f[Picked(s)] + Cardinality(Units(f, s \ {Picked(s)}))
        BY <3>1, <3>2, UnitsRemove
      <3> QED
        BY <2>2, <3>3
    <2> QED
      BY <2>1, <2>2
  <1> QED
    BY <1>1 DEF SumsUp

\* The recursion has one solution: two that differ would differ on a smallest
\* set, and on that set they are computed from a smaller one.
LEMMA SumsUpUnique ==
    ASSUME NEW f, NEW S, IsFiniteSet(S), NEW g, NEW h, SumsUp(g, f, S), SumsUp(h, f, S)
    PROVE  g[S] = h[S]
  <1> DEFINE D == {s \in SUBSET S : g[s] # h[s]}
             R == StrictSubsetOrdering(S)
  <1> SUFFICES ASSUME D # {} PROVE FALSE
    OBVIOUS
  <1>1. IsWellFoundedOn(R, SUBSET S)
    BY FS_StrictSubsetOrderingWellFounded, FS_FiniteSubsetsOfFinite
  <1>2. PICK s \in D : \A t \in D : ~(<<t, s>> \in R)
    <2> HIDE DEF R
    <2>1. D \subseteq SUBSET S
      OBVIOUS
    <2> HIDE DEF D
    <2> QED
      BY <1>1, <2>1, WFMin
  <1>3. s \in SUBSET S /\ g[s] # h[s]
    BY <1>2
  <1>4. s # {}
    BY <1>3 DEF SumsUp
  <1> DEFINE t == s \ {Picked(s)}
  <1>5. Picked(s) \in s
    BY <1>4 DEF Picked
  <1>6. <<t, s>> \in R
    BY <1>3, <1>5 DEF StrictSubsetOrdering
  <1>7. g[t] = h[t]
    BY <1>2, <1>3, <1>6
  <1> QED
    BY <1>3, <1>4, <1>7 DEF SumsUp

-----------------------------------------------------------------------------
\* A sum of natural numbers over a finite set is the number of their units.
THEOREM SumIsUnits ==
    ASSUME NEW f, NEW S, IsFiniteSet(S), NatOn(f, S)
    PROVE  SumFunctionOnSet(f, S) = Cardinality(Units(f, S))
  <1> DEFINE g == [s \in SUBSET S |-> Cardinality(Units(f, s))]
             h == CHOOSE h : SumsUp(h, f, S)
  <1>1. SumsUp(g, f, S)
    BY UnitsSumUp
  <1>2. SumsUp(h, f, S)
    BY <1>1
  <1>3. h[S] = g[S]
    <2> HIDE DEF g, h
    <2> QED
      BY <1>1, <1>2, SumsUpUnique
  <1> QED
    BY <1>3, SumByRecursion

\* A sum of natural numbers is one.
THEOREM SumType ==
    ASSUME NEW f, NEW S, IsFiniteSet(S), NatOn(f, S)
    PROVE  SumFunctionOnSet(f, S) \in Nat
  BY SumIsUnits, UnitsFinite, FS_CardinalityType

THEOREM SumEmpty ==
    ASSUME NEW f
    PROVE  SumFunctionOnSet(f, {}) = 0
  <1>1. IsFiniteSet({}) /\ NatOn(f, {})
    BY FS_EmptySet DEF NatOn
  <1> QED
    BY <1>1, SumIsUnits, UnitsNone

\* Any element can be taken out of a sum, not only the one the fold picks.
THEOREM SumRemove ==
    ASSUME NEW f, NEW S, IsFiniteSet(S), NatOn(f, S), NEW x \in S
    PROVE  /\ SumFunctionOnSet(f, S) = f[x] + SumFunctionOnSet(f, S \ {x})
           /\ SumFunctionOnSet(f, S \ {x}) \in Nat
           /\ f[x] \in Nat
  <1>1. IsFiniteSet(S \ {x}) /\ NatOn(f, S \ {x})
    BY FS_RemoveElement DEF NatOn
  <1>2. SumFunctionOnSet(f, S \ {x}) = Cardinality(Units(f, S \ {x}))
    BY <1>1, SumIsUnits
  <1>3. SumFunctionOnSet(f, S \ {x}) \in Nat
    BY <1>1, SumType
  <1>4. Cardinality(Units(f, S)) = f[x] + Cardinality(Units(f, S \ {x}))
    BY UnitsRemove
  <1>5. SumFunctionOnSet(f, S) = Cardinality(Units(f, S))
    BY SumIsUnits
  <1>6. f[x] \in Nat
    BY DEF NatOn
  <1> QED
    BY <1>2, <1>3, <1>4, <1>5, <1>6

\* A sum depends on the values at its elements only.
THEOREM SumSame ==
    ASSUME NEW f, NEW g, NEW S, IsFiniteSet(S), NatOn(f, S), \A x \in S : g[x] = f[x]
    PROVE  SumFunctionOnSet(g, S) = SumFunctionOnSet(f, S)
  <1>1. NatOn(g, S)
    BY DEF NatOn
  <1>2. \A x \in S : Unit(g, x) = Unit(f, x)
    BY DEF Unit
  <1>3. Units(g, S) = Units(f, S)
    BY <1>2 DEF Units
  <1> QED
    BY <1>1, <1>3, SumIsUnits

\* A change at one element changes the sum by as much.
THEOREM SumUpdate ==
    ASSUME NEW f, NEW g, NEW S, IsFiniteSet(S), NatOn(f, S), NatOn(g, S),
           NEW x \in S, \A y \in S \ {x} : g[y] = f[y]
    PROVE  SumFunctionOnSet(g, S) = SumFunctionOnSet(f, S) - f[x] + g[x]
  <1> DEFINE F == SumFunctionOnSet(f, S \ {x})
             G == SumFunctionOnSet(g, S \ {x})
             FS == SumFunctionOnSet(f, S)
             GS == SumFunctionOnSet(g, S)
  <1>1. FS = f[x] + F /\ F \in Nat /\ f[x] \in Nat
    BY SumRemove
  <1>2. GS = g[x] + G /\ G \in Nat /\ g[x] \in Nat
    BY SumRemove
  <1>3. IsFiniteSet(S \ {x}) /\ NatOn(f, S \ {x})
    BY FS_RemoveElement DEF NatOn
  <1>4. G = F
    BY <1>3, SumSame
  <1> HIDE DEF F, G, FS, GS
  <1>5. GS = FS - f[x] + g[x]
    BY <1>1, <1>2, <1>4
  <1> QED
    BY <1>5 DEF FS, GS

\* A change at two elements.
THEOREM SumUpdateTwo ==
    ASSUME NEW f, NEW g, NEW S, IsFiniteSet(S), NatOn(f, S), NatOn(g, S),
           NEW x \in S, NEW y \in S, x # y, \A z \in S \ {x, y} : g[z] = f[z]
    PROVE  SumFunctionOnSet(g, S) = SumFunctionOnSet(f, S) - f[x] - f[y] + g[x] + g[y]
  <1> DEFINE T == S \ {x}
             F == SumFunctionOnSet(f, T)
             G == SumFunctionOnSet(g, T)
             FS == SumFunctionOnSet(f, S)
             GS == SumFunctionOnSet(g, S)
  <1>1. FS = f[x] + F /\ F \in Nat /\ f[x] \in Nat
    BY SumRemove
  <1>2. GS = g[x] + G /\ G \in Nat /\ g[x] \in Nat
    BY SumRemove
  <1>3. IsFiniteSet(T) /\ NatOn(f, T) /\ NatOn(g, T) /\ y \in T
    BY FS_RemoveElement DEF NatOn
  <1>4. \A z \in T \ {y} : g[z] = f[z]
    OBVIOUS
  <1>5. f[y] \in Nat /\ g[y] \in Nat
    BY DEF NatOn
  <1> HIDE DEF T
  <1>6. G = F - f[y] + g[y]
    BY <1>3, <1>4, SumUpdate
  <1> HIDE DEF F, G, FS, GS
  <1>7. GS = FS - f[x] - f[y] + g[x] + g[y]
    BY <1>1, <1>2, <1>5, <1>6
  <1> QED
    BY <1>7 DEF FS, GS

\* No part is greater than the sum.
THEOREM SumAtLeast ==
    ASSUME NEW f, NEW S, IsFiniteSet(S), NatOn(f, S), NEW x \in S
    PROVE  f[x] <= SumFunctionOnSet(f, S)
  <1>1. /\ SumFunctionOnSet(f, S) = f[x] + SumFunctionOnSet(f, S \ {x})
        /\ SumFunctionOnSet(f, S \ {x}) \in Nat
        /\ f[x] \in Nat
    BY SumRemove
  <1> QED
    BY <1>1

\* A new element adds its value.
THEOREM SumAdd ==
    ASSUME NEW f, NEW S, IsFiniteSet(S), NatOn(f, S), NEW x, x \notin S, f[x] \in Nat
    PROVE  SumFunctionOnSet(f, S \cup {x}) = SumFunctionOnSet(f, S) + f[x]
  <1> DEFINE T == S \cup {x}
  <1>1. IsFiniteSet(T) /\ NatOn(f, T) /\ x \in T
    BY FS_AddElement DEF NatOn
  <1>2. T \ {x} = S
    OBVIOUS
  <1> HIDE DEF T
  <1>3. /\ SumFunctionOnSet(f, T) = f[x] + SumFunctionOnSet(f, T \ {x})
        /\ SumFunctionOnSet(f, T \ {x}) \in Nat
    BY <1>1, SumRemove
  <1> QED
    BY <1>2, <1>3 DEF T

\* Elements with the value zero do not matter: a sum over some elements is the
\* sum over all, with zero for the others.
THEOREM SumFilter ==
    ASSUME NEW f, NEW g, NEW S, NEW T \in SUBSET S, IsFiniteSet(S), NatOn(f, T),
           \A x \in T : g[x] = f[x], \A x \in S \ T : g[x] = 0
    PROVE  SumFunctionOnSet(f, T) = SumFunctionOnSet(g, S)
  <1>1. IsFiniteSet(T)
    BY FS_Subset
  <1>2. NatOn(g, S)
    BY DEF NatOn
  <1>3. \A x \in T : Unit(f, x) = Unit(g, x)
    BY DEF Unit
  <1>4. \A x \in S \ T : Unit(g, x) = {}
    BY DEF Unit
  <1>5. Units(f, T) = Units(g, S)
    BY <1>3, <1>4 DEF Units
  <1> QED
    BY <1>1, <1>2, <1>5, SumIsUnits

\* Greater values have a greater sum.
THEOREM SumMonotone ==
    ASSUME NEW f, NEW g, NEW S, IsFiniteSet(S), NatOn(f, S), NatOn(g, S),
           \A x \in S : f[x] <= g[x]
    PROVE  SumFunctionOnSet(f, S) <= SumFunctionOnSet(g, S)
  <1>1. \A x \in S : Unit(f, x) \subseteq Unit(g, x)
    BY DEF Unit, NatOn
  <1>2. Units(f, S) \subseteq Units(g, S)
    BY <1>1 DEF Units
  <1>3. IsFiniteSet(Units(g, S))
    BY UnitsFinite
  <1>4. Cardinality(Units(f, S)) <= Cardinality(Units(g, S))
    BY <1>2, <1>3, FS_Subset
  <1> QED
    BY <1>4, SumIsUnits

-----------------------------------------------------------------------------
(* Operations on the reserve.                                              *)

\* The reserve after refresh_reserve.
LEMMA RefreshFields ==
    ASSUME NEW r \in ReserveState, NEW a \in Accrual, CanAccrue(r, a)
    PROVE  /\ refresh_reserve(r, a) \in ReserveState
           /\ refresh_reserve(r, a).available = r.available + a.reward
           /\ refresh_reserve(r, a).borrowed_sf = r.borrowed_sf + a.interest
           /\ refresh_reserve(r, a).protocol_fees_sf = r.protocol_fees_sf + a.fee
           /\ refresh_reserve(r, a).rewards = r.rewards - a.reward
           /\ refresh_reserve(r, a).mint_supply = r.mint_supply
           /\ refresh_reserve(r, a).queued = r.queued
           /\ refresh_reserve(r, a).next_issued = r.next_issued
           /\ refresh_reserve(r, a).next_withdrawable = r.next_withdrawable
           /\ refresh_reserve(r, a).deprecated = r.deprecated
  <1>0. /\ r.borrowed_sf + a.interest \in Nat
        /\ r.protocol_fees_sf + a.fee \in Nat /\ r.rewards - a.reward \in Nat
        /\ r.available + a.reward \in Nat
    BY DEF ReserveState, Accrual, CanAccrue
  <1> DEFINE c1 == [r EXCEPT !.borrowed_sf = r.borrowed_sf + a.interest]
             c2 == [c1 EXCEPT !.protocol_fees_sf = r.protocol_fees_sf + a.fee]
             c3 == [c2 EXCEPT !.rewards = r.rewards - a.reward]
             c4 == [c3 EXCEPT !.available = r.available + a.reward]
  <1>1. refresh_reserve(r, a) = c4
    BY Zenon DEF refresh_reserve
  <1>2. c1 \in ReserveState
    BY <1>0 DEF ReserveState
  <1> HIDE DEF c1
  <1>3. c2 \in ReserveState
    BY <1>0, <1>2 DEF ReserveState
  <1> HIDE DEF c2
  <1>4. c3 \in ReserveState
    BY <1>0, <1>3 DEF ReserveState
  <1> HIDE DEF c3
  <1>5. c4 \in ReserveState
    BY <1>0, <1>4 DEF ReserveState
  <1> HIDE DEF c4
  <1> QED
    BY <1>1, <1>5 DEF ReserveState, c1, c2, c3, c4

\* The reserve after a deposit.
LEMMA DepositFields ==
    ASSUME NEW r \in ReserveState, NEW l \in Nat, NEW c \in Nat
    PROVE  /\ deposit_liquidity(r, l, c) \in ReserveState
           /\ deposit_liquidity(r, l, c).available = r.available + l
           /\ deposit_liquidity(r, l, c).borrowed_sf = r.borrowed_sf
           /\ deposit_liquidity(r, l, c).protocol_fees_sf = r.protocol_fees_sf
           /\ deposit_liquidity(r, l, c).rewards = r.rewards
           /\ deposit_liquidity(r, l, c).mint_supply = r.mint_supply + c
           /\ deposit_liquidity(r, l, c).queued = r.queued
           /\ deposit_liquidity(r, l, c).next_issued = r.next_issued
           /\ deposit_liquidity(r, l, c).next_withdrawable = r.next_withdrawable
           /\ deposit_liquidity(r, l, c).deprecated = r.deprecated
  <1>0. /\ r.available + l \in Nat /\ r.mint_supply + c \in Nat
    BY DEF ReserveState
  <1> DEFINE c1 == [r EXCEPT !.available = r.available + l]
             c2 == [c1 EXCEPT !.mint_supply = r.mint_supply + c]
  <1>1. deposit_liquidity(r, l, c) = c2
    BY Zenon DEF deposit_liquidity
  <1>2. c1 \in ReserveState
    BY <1>0 DEF ReserveState
  <1> HIDE DEF c1
  <1>3. c2 \in ReserveState
    BY <1>0, <1>2 DEF ReserveState
  <1> HIDE DEF c2
  <1> QED
    BY <1>1, <1>3 DEF ReserveState, c1, c2

\* The reserve after a redemption.
LEMMA RedeemFields ==
    ASSUME NEW r \in ReserveState, NEW c \in Nat, c <= r.mint_supply, NEW l \in Nat,
           l = collateral_to_liquidity(collateral_exchange_rate(r), c), l <= r.available
    PROVE  /\ redeem_collateral(r, c) \in ReserveState
           /\ redeem_collateral(r, c).available = r.available - l
           /\ redeem_collateral(r, c).borrowed_sf = r.borrowed_sf
           /\ redeem_collateral(r, c).protocol_fees_sf = r.protocol_fees_sf
           /\ redeem_collateral(r, c).rewards = r.rewards
           /\ redeem_collateral(r, c).mint_supply = r.mint_supply - c
           /\ redeem_collateral(r, c).queued = r.queued
           /\ redeem_collateral(r, c).next_issued = r.next_issued
           /\ redeem_collateral(r, c).next_withdrawable = r.next_withdrawable
           /\ redeem_collateral(r, c).deprecated = r.deprecated
  <1>0. /\ r.available - l \in Nat /\ r.mint_supply - c \in Nat
    BY DEF ReserveState
  <1> DEFINE c1 == [r EXCEPT !.available = r.available - l]
             c2 == [c1 EXCEPT !.mint_supply = r.mint_supply - c]
  <1>1. redeem_collateral(r, c) = c2
    BY Zenon DEF redeem_collateral
  <1>2. c1 \in ReserveState
    BY <1>0 DEF ReserveState
  <1> HIDE DEF c1
  <1>3. c2 \in ReserveState
    BY <1>0, <1>2 DEF ReserveState
  <1> HIDE DEF c2
  <1> QED
    BY <1>1, <1>3 DEF ReserveState, c1, c2

\* The reserve after a borrow of b, rounded down to l.
LEMMA BorrowFields ==
    ASSUME NEW r \in ReserveState, NEW b \in Nat, NEW l \in Nat, l = b \div SF, l <= r.available
    PROVE  /\ borrow(r, b) \in ReserveState
           /\ borrow(r, b).available = r.available - l
           /\ borrow(r, b).borrowed_sf = r.borrowed_sf + b
           /\ borrow(r, b).protocol_fees_sf = r.protocol_fees_sf
           /\ borrow(r, b).rewards = r.rewards
           /\ borrow(r, b).mint_supply = r.mint_supply
           /\ borrow(r, b).queued = r.queued
           /\ borrow(r, b).next_issued = r.next_issued
           /\ borrow(r, b).next_withdrawable = r.next_withdrawable
           /\ borrow(r, b).deprecated = r.deprecated
  <1>0. /\ r.available - l \in Nat /\ r.borrowed_sf + b \in Nat
    BY DEF ReserveState
  <1> DEFINE c1 == [r EXCEPT !.available = r.available - l]
             c2 == [c1 EXCEPT !.borrowed_sf = r.borrowed_sf + b]
  <1>1. borrow(r, b) = c2
    BY Zenon DEF borrow
  <1>2. c1 \in ReserveState
    BY <1>0 DEF ReserveState
  <1> HIDE DEF c1
  <1>3. c2 \in ReserveState
    BY <1>0, <1>2 DEF ReserveState
  <1> HIDE DEF c2
  <1> QED
    BY <1>1, <1>3 DEF ReserveState, c1, c2

\* The reserve after a repayment.
LEMMA RepayFields ==
    ASSUME NEW r \in ReserveState, NEW l \in Nat, NEW s \in Nat, s <= r.borrowed_sf
    PROVE  /\ repay(r, l, s) \in ReserveState
           /\ repay(r, l, s).available = r.available + l
           /\ repay(r, l, s).borrowed_sf = r.borrowed_sf - Lesser(s, r.borrowed_sf)
           /\ repay(r, l, s).protocol_fees_sf = r.protocol_fees_sf
           /\ repay(r, l, s).rewards = r.rewards
           /\ repay(r, l, s).mint_supply = r.mint_supply
           /\ repay(r, l, s).queued = r.queued
           /\ repay(r, l, s).next_issued = r.next_issued
           /\ repay(r, l, s).next_withdrawable = r.next_withdrawable
           /\ repay(r, l, s).deprecated = r.deprecated
  <1>0. /\ r.available + l \in Nat
        /\ r.borrowed_sf - Lesser(s, r.borrowed_sf) \in Nat
    BY DEF ReserveState, Lesser
  <1> DEFINE c1 == [r EXCEPT !.available = r.available + l]
             c2 == [c1 EXCEPT !.borrowed_sf = r.borrowed_sf - Lesser(s, r.borrowed_sf)]
  <1>1. repay(r, l, s) = c2
    BY Zenon DEF repay
  <1>2. c1 \in ReserveState
    BY <1>0 DEF ReserveState
  <1> HIDE DEF c1
  <1>3. c2 \in ReserveState
    BY <1>0, <1>2 DEF ReserveState
  <1> HIDE DEF c2
  <1> QED
    BY <1>1, <1>3 DEF ReserveState, c1, c2

\* The reserve after its fees are paid out.
LEMMA FeeFields ==
    ASSUME NEW r \in ReserveState, NEW l \in Nat, l <= r.available, l * SF \in Nat,
           l * SF <= r.protocol_fees_sf
    PROVE  /\ redeem_fees(r, l) \in ReserveState
           /\ redeem_fees(r, l).available = r.available - l
           /\ redeem_fees(r, l).borrowed_sf = r.borrowed_sf
           /\ redeem_fees(r, l).protocol_fees_sf = r.protocol_fees_sf - l * SF
           /\ redeem_fees(r, l).rewards = r.rewards
           /\ redeem_fees(r, l).mint_supply = r.mint_supply
           /\ redeem_fees(r, l).queued = r.queued
           /\ redeem_fees(r, l).next_issued = r.next_issued
           /\ redeem_fees(r, l).next_withdrawable = r.next_withdrawable
           /\ redeem_fees(r, l).deprecated = r.deprecated
  <1>0. /\ r.available - l \in Nat /\ r.protocol_fees_sf - l * SF \in Nat
    BY DEF ReserveState
  <1> DEFINE c1 == [r EXCEPT !.available = r.available - l]
             c2 == [c1 EXCEPT !.protocol_fees_sf = r.protocol_fees_sf - l * SF]
  <1>1. redeem_fees(r, l) = c2
    BY Zenon DEF redeem_fees
  <1>2. c1 \in ReserveState
    BY <1>0 DEF ReserveState
  <1> HIDE DEF c1
  <1>3. c2 \in ReserveState
    BY <1>0, <1>2 DEF ReserveState
  <1> HIDE DEF c2
  <1> QED
    BY <1>1, <1>3 DEF ReserveState, c1, c2

\* The reserve after a ticket is issued.
LEMMA EnqueueFields ==
    ASSUME NEW r \in ReserveState, NEW c \in Nat
    PROVE  /\ enqueue(r, c) \in ReserveState
           /\ enqueue(r, c).available = r.available
           /\ enqueue(r, c).borrowed_sf = r.borrowed_sf
           /\ enqueue(r, c).protocol_fees_sf = r.protocol_fees_sf
           /\ enqueue(r, c).rewards = r.rewards
           /\ enqueue(r, c).mint_supply = r.mint_supply
           /\ enqueue(r, c).queued = r.queued + c
           /\ enqueue(r, c).next_issued = r.next_issued + 1
           /\ enqueue(r, c).next_withdrawable = r.next_withdrawable
           /\ enqueue(r, c).deprecated = r.deprecated
  <1>0. /\ r.queued + c \in Nat /\ r.next_issued + 1 \in Nat
    BY DEF ReserveState
  <1> DEFINE c1 == [r EXCEPT !.queued = r.queued + c]
             c2 == [c1 EXCEPT !.next_issued = r.next_issued + 1]
  <1>1. enqueue(r, c) = c2
    BY Zenon DEF enqueue
  <1>2. c1 \in ReserveState
    BY <1>0 DEF ReserveState
  <1> HIDE DEF c1
  <1>3. c2 \in ReserveState
    BY <1>0, <1>2 DEF ReserveState
  <1> HIDE DEF c2
  <1> QED
    BY <1>1, <1>3 DEF ReserveState, c1, c2

\* The reserve after its head is taken off the queue.
LEMMA CloseFields ==
    ASSUME NEW r \in ReserveState, NEW c \in Nat, c <= r.queued
    PROVE  /\ dequeue(r, c, TRUE) \in ReserveState
           /\ dequeue(r, c, TRUE).available = r.available
           /\ dequeue(r, c, TRUE).borrowed_sf = r.borrowed_sf
           /\ dequeue(r, c, TRUE).protocol_fees_sf = r.protocol_fees_sf
           /\ dequeue(r, c, TRUE).rewards = r.rewards
           /\ dequeue(r, c, TRUE).mint_supply = r.mint_supply
           /\ dequeue(r, c, TRUE).queued = r.queued - c
           /\ dequeue(r, c, TRUE).next_issued = r.next_issued
           /\ dequeue(r, c, TRUE).next_withdrawable = r.next_withdrawable + 1
           /\ dequeue(r, c, TRUE).deprecated = r.deprecated
  <1>0. /\ r.queued - c \in Nat /\ r.next_withdrawable + 1 \in Nat
    BY DEF ReserveState
  <1> DEFINE c1 == [r EXCEPT !.queued = r.queued - c]
             c2 == [c1 EXCEPT !.next_withdrawable = r.next_withdrawable + 1]
  <1>1. dequeue(r, c, TRUE) = c2
    BY Zenon DEF dequeue
  <1>2. c1 \in ReserveState
    BY <1>0 DEF ReserveState
  <1> HIDE DEF c1
  <1>3. c2 \in ReserveState
    BY <1>0, <1>2 DEF ReserveState
  <1> HIDE DEF c2
  <1> QED
    BY <1>1, <1>3 DEF ReserveState, c1, c2

\* The reserve after a ticket is reduced.
LEMMA ReduceFields ==
    ASSUME NEW r \in ReserveState, NEW c \in Nat, c <= r.queued
    PROVE  /\ dequeue(r, c, FALSE) \in ReserveState
           /\ dequeue(r, c, FALSE).available = r.available
           /\ dequeue(r, c, FALSE).borrowed_sf = r.borrowed_sf
           /\ dequeue(r, c, FALSE).protocol_fees_sf = r.protocol_fees_sf
           /\ dequeue(r, c, FALSE).rewards = r.rewards
           /\ dequeue(r, c, FALSE).mint_supply = r.mint_supply
           /\ dequeue(r, c, FALSE).queued = r.queued - c
           /\ dequeue(r, c, FALSE).next_issued = r.next_issued
           /\ dequeue(r, c, FALSE).next_withdrawable = r.next_withdrawable
           /\ dequeue(r, c, FALSE).deprecated = r.deprecated
  <1>0. /\ r.queued - c \in Nat /\ r.next_withdrawable \in Nat
    BY DEF ReserveState
  <1> DEFINE c1 == [r EXCEPT !.queued = r.queued - c]
             c2 == [c1 EXCEPT !.next_withdrawable = r.next_withdrawable]
  <1>1. dequeue(r, c, FALSE) = c2
    BY Zenon DEF dequeue
  <1>2. c1 \in ReserveState
    BY <1>0 DEF ReserveState
  <1> HIDE DEF c1
  <1>3. c2 \in ReserveState
    BY <1>0, <1>2 DEF ReserveState
  <1> HIDE DEF c2
  <1> QED
    BY <1>1, <1>3 DEF ReserveState, c1, c2

\* The reserve after its rewards are topped up.
LEMMA TopupFields ==
    ASSUME NEW r \in ReserveState, NEW l \in Nat
    PROVE  /\ [r EXCEPT !.rewards = @ + l] \in ReserveState
           /\ [r EXCEPT !.rewards = @ + l].available = r.available
           /\ [r EXCEPT !.rewards = @ + l].borrowed_sf = r.borrowed_sf
           /\ [r EXCEPT !.rewards = @ + l].protocol_fees_sf = r.protocol_fees_sf
           /\ [r EXCEPT !.rewards = @ + l].rewards = r.rewards + l
           /\ [r EXCEPT !.rewards = @ + l].mint_supply = r.mint_supply
           /\ [r EXCEPT !.rewards = @ + l].queued = r.queued
           /\ [r EXCEPT !.rewards = @ + l].next_issued = r.next_issued
           /\ [r EXCEPT !.rewards = @ + l].next_withdrawable = r.next_withdrawable
           /\ [r EXCEPT !.rewards = @ + l].deprecated = r.deprecated
  <1>0. /\ r.rewards + l \in Nat
    BY DEF ReserveState
  <1> QED
    BY <1>0 DEF ReserveState

\* The reserve after debt is forgiven.
LEMMA ForgiveFields ==
    ASSUME NEW r \in ReserveState, NEW f \in Nat, f <= r.borrowed_sf
    PROVE  /\ forgive_debt(r, f) \in ReserveState
           /\ forgive_debt(r, f).available = r.available
           /\ forgive_debt(r, f).borrowed_sf = r.borrowed_sf - f
           /\ forgive_debt(r, f).protocol_fees_sf = r.protocol_fees_sf
           /\ forgive_debt(r, f).rewards = r.rewards
           /\ forgive_debt(r, f).mint_supply = r.mint_supply
           /\ forgive_debt(r, f).queued = r.queued
           /\ forgive_debt(r, f).next_issued = r.next_issued
           /\ forgive_debt(r, f).next_withdrawable = r.next_withdrawable
           /\ forgive_debt(r, f).deprecated = (r.deprecated \/ f >= total_supply(r))
  <1>0. /\ r.borrowed_sf - f \in Nat
        /\ (r.deprecated \/ f >= total_supply(r)) \in BOOLEAN
    BY DEF ReserveState
  <1> DEFINE c1 == [r EXCEPT !.borrowed_sf = r.borrowed_sf - f]
             c2 == [c1 EXCEPT !.deprecated = (r.deprecated \/ f >= total_supply(r))]
  <1>1. forgive_debt(r, f) = c2
    BY Zenon DEF forgive_debt
  <1>2. c1 \in ReserveState
    BY <1>0 DEF ReserveState
  <1> HIDE DEF c1
  <1>3. c2 \in ReserveState
    BY <1>0, <1>2 DEF ReserveState
  <1> HIDE DEF c2
  <1> QED
    BY <1>1, <1>3 DEF ReserveState, c1, c2

-----------------------------------------------------------------------------
(* Rounding                                                                *)

LEMMA DivBounds ==
    ASSUME NEW a \in Nat, NEW b \in Nat \ {0}
    PROVE  (a \div b) \in Nat /\ b * (a \div b) <= a /\ a < b * (a \div b) + b
  OBVIOUS

LEMMA CeilBounds ==
    ASSUME NEW a \in Nat, NEW b \in Nat \ {0}
    PROVE  DivCeil(a, b) \in Nat /\ a <= b * DivCeil(a, b)
  <1> DEFINE n == a + b - 1
  <1>1. n \in Nat
    OBVIOUS
  <1> HIDE DEF n
  <1>2. (n \div b) \in Nat /\ n < b * (n \div b) + b
    BY <1>1, DivBounds
  <1>3. DivCeil(a, b) = n \div b
    BY DEF DivCeil, n
  <1>4. b * (n \div b) \in Nat
    BY <1>2
  <1> QED
    BY <1>2, <1>3, <1>4 DEF n

LEMMA Product == ASSUME NEW a \in Nat, NEW b \in Nat PROVE a * b \in Nat
  OBVIOUS

LEMMA ProductMono ==
    ASSUME NEW a \in Nat, NEW b \in Nat, NEW c \in Nat, a <= b
    PROVE  a * c <= b * c
  OBVIOUS

LEMMA ProductStrict ==
    ASSUME NEW a \in Nat, NEW b \in Nat, NEW c \in Nat \ {0}, a < b
    PROVE  a * c < b * c
  OBVIOUS

LEMMA ProductCancel ==
    ASSUME NEW a \in Nat, NEW b \in Nat, NEW c \in Nat, a * c < b * c
    PROVE  a < b
  OBVIOUS

LEMMA ProductSwap ==
    ASSUME NEW a \in Nat, NEW b \in Nat, NEW c \in Nat
    PROVE  (a * b) * c = (c * b) * a /\ (a * b) * c = (a * c) * b
  OBVIOUS

\* What a conversion rounded down says about the exact value.
LEMMA FlooredValue ==
    ASSUME NEW S \in Nat \ {0}, NEW m \in Nat \ {0}, NEW T \in Nat, NEW c \in Nat,
           NEW l, l = (c * T) \div (m * S)
    PROVE  l \in Nat /\ (l * S) * m <= c * T /\ c * T < (l * S) * m + m * S
  <1> DEFINE d == m * S
             e == c * T
  <1>1. d \in Nat \ {0} /\ e \in Nat /\ l = e \div d
    OBVIOUS
  <1>2. l \in Nat /\ d * l <= e /\ e < d * l + d
    <2> HIDE DEF d, e
    <2> QED
      BY <1>1, DivBounds
  <1>3. (l * S) * m = (m * S) * l
    BY <1>2, ProductSwap
  <1> QED
    BY <1>2, <1>3

\* A conversion rounded up twice is at least the exact value.
LEMMA CeiledValue ==
    ASSUME NEW S \in Nat \ {0}, NEW m \in Nat \ {0}, NEW T \in Nat, NEW c \in Nat,
           NEW l, l = DivCeil(DivCeil(c * T, m), S)
    PROVE  l \in Nat /\ c * T <= (l * S) * m
  <1> DEFINE e == c * T
             k == DivCeil(e, m)
  <1>1. e \in Nat
    OBVIOUS
  <1>2. k \in Nat /\ e <= m * k
    <2> HIDE DEF e
    <2> QED
      BY <1>1, CeilBounds
  <1>3. l = DivCeil(k, S)
    OBVIOUS
  <1> HIDE DEF k
  <1>4. l \in Nat /\ k <= S * l
    BY <1>2, <1>3, CeilBounds
  <1>5. k * m <= (S * l) * m
    BY <1>2, <1>4, ProductMono, Product
  <1>6. m * k = k * m /\ (S * l) * m = (l * S) * m
    BY <1>2, <1>4
  <1> QED
    BY <1>2, <1>4, <1>5, <1>6

-----------------------------------------------------------------------------
(* The exchange rate.  On a reserve with ctokens and assets it is the      *)
(* ratio of the two; the initial rate is never used.                       *)

Sound(r) == r \in ReserveState /\ r.mint_supply > 0 /\ total_supply(r) > 0

\* The value of c ctokens.
Worth(r, c) == collateral_to_liquidity(collateral_exchange_rate(r), c)

\* In s a ctoken buys at least what it buys in r.
NoWorse(r, s) == total_supply(s) * r.mint_supply >= total_supply(r) * s.mint_supply

LEMMA SupplyType == ASSUME NEW r \in ReserveState PROVE total_supply(r) \in Int
  BY ScaleAssumption DEF total_supply, ReserveState

LEMMA SoundTypes ==
    ASSUME NEW r, Sound(r)
    PROVE  /\ r.mint_supply \in Nat \ {0} /\ total_supply(r) \in Nat \ {0}
           /\ SF \in Nat \ {0} /\ r.available \in Nat /\ r.queued \in Nat
  BY SupplyType, ScaleAssumption DEF Sound, ReserveState

LEMMA SoundRate ==
    ASSUME NEW r, Sound(r)
    PROVE  /\ collateral_exchange_rate(r).collateral = r.mint_supply
           /\ collateral_exchange_rate(r).liquidity = total_supply(r)
  <1>1. r.mint_supply # 0 /\ total_supply(r) # 0
    BY SoundTypes
  <1> QED
    BY <1>1 DEF collateral_exchange_rate

LEMMA WorthBounds ==
    ASSUME NEW r, Sound(r), NEW c \in Nat
    PROVE  /\ Worth(r, c) \in Nat
           /\ (Worth(r, c) * SF) * r.mint_supply <= c * total_supply(r)
           /\ c * total_supply(r)
                < (Worth(r, c) * SF) * r.mint_supply + r.mint_supply * SF
  <1> DEFINE m == r.mint_supply
             T == total_supply(r)
             l == Worth(r, c)
  <1>1. m \in Nat \ {0} /\ T \in Nat \ {0} /\ SF \in Nat \ {0}
    BY SoundTypes
  <1>2. l = (c * T) \div (m * SF)
    BY SoundRate DEF Worth, collateral_to_liquidity
  <1> HIDE DEF m, T, l
  <1>3. l \in Nat /\ (l * SF) * m <= c * T /\ c * T < (l * SF) * m + m * SF
    BY <1>1, <1>2, FlooredValue
  <1> QED
    BY <1>3 DEF m, T, l

\* The same number of ctokens and no fewer assets.
LEMMA MoreAssets ==
    ASSUME NEW r, Sound(r), NEW s \in ReserveState, s.mint_supply = r.mint_supply,
           total_supply(s) >= total_supply(r)
    PROVE  Sound(s) /\ NoWorse(r, s)
  <1> DEFINE T == total_supply(r)
             U == total_supply(s)
             m == r.mint_supply
  <1>1. T \in Nat \ {0} /\ m \in Nat \ {0} /\ U \in Int
    BY SoundTypes, SupplyType
  <1>2. U >= T /\ s.mint_supply = m
    OBVIOUS
  <1>3. Sound(s)
    BY <1>1, <1>2 DEF Sound
  <1> HIDE DEF T, U, m
  <1>4. T * m <= U * m
    BY <1>1, <1>2, ProductMono
  <1>5. T * m \in Nat /\ U * m \in Nat
    BY <1>1, <1>2, Product
  <1>6. U * m >= T * m
    BY <1>4, <1>5
  <1> QED
    BY <1>2, <1>3, <1>6 DEF NoWorse, T, U, m

LEMMA NoWorseTrans ==
    ASSUME NEW r, NEW s, NEW t, Sound(r), Sound(s), Sound(t), NoWorse(r, s), NoWorse(s, t)
    PROVE  NoWorse(r, t)
  <1> DEFINE T == total_supply(r)
             U == total_supply(s)
             V == total_supply(t)
             m == r.mint_supply
             n == s.mint_supply
             k == t.mint_supply
  <1>1. /\ T \in Nat /\ U \in Nat \ {0} /\ V \in Nat
        /\ m \in Nat /\ n \in Nat \ {0} /\ k \in Nat
    BY SoundTypes
  <1>2. T * n <= U * m /\ U * k <= V * n
    BY DEF NoWorse
  <1> HIDE DEF T, U, V, m, n, k
  <1>3. (T * n) * k <= (U * m) * k
    BY <1>1, <1>2, ProductMono, Product
  <1>4. (U * k) * m <= (V * n) * m
    BY <1>1, <1>2, ProductMono, Product
  <1>5. (U * m) * k = (U * k) * m
    BY <1>1, ProductSwap
  <1>6. (T * n) * k = (T * k) * n /\ (V * n) * m = (V * m) * n
    BY <1>1, ProductSwap
  <1>7. (T * k) * n <= (V * m) * n
    BY <1>1, <1>3, <1>4, <1>5, <1>6
  <1>8. T * k \in Nat /\ V * m \in Nat
    BY <1>1, Product
  <1> DEFINE p == T * k
             q == V * m
  <1>9. p <= q
    <2> HIDE DEF p, q
    <2>1. p \in Nat /\ q \in Nat /\ p * n <= q * n
      BY <1>7, <1>8 DEF p, q
    <2>2. SUFFICES ASSUME q < p PROVE FALSE
      BY <2>1
    <2>3. q * n < p * n
      BY <1>1, <2>1, <2>2, ProductStrict
    <2>4. q * n \in Nat /\ p * n \in Nat
      BY <1>1, <2>1, Product
    <2> QED
      BY <2>1, <2>3, <2>4
  <1> QED
    BY <1>8, <1>9 DEF NoWorse, T, V, m, k

LEMMA Distribute ==
    ASSUME NEW a \in Int, NEW b \in Int, NEW c \in Int
    PROVE  (a + b) * c = a * c + b * c /\ (a - b) * c = a * c - b * c
  OBVIOUS

LEMMA RefreshKeeps ==
    ASSUME NEW r, Sound(r), NEW a \in Accrual, CanAccrue(r, a)
    PROVE  Sound(refresh_reserve(r, a)) /\ NoWorse(r, refresh_reserve(r, a))
  <1> DEFINE s == refresh_reserve(r, a)
  <1>1. r \in ReserveState
    BY DEF Sound
  <1>2. /\ s \in ReserveState /\ s.available = r.available + a.reward
        /\ s.borrowed_sf = r.borrowed_sf + a.interest
        /\ s.protocol_fees_sf = r.protocol_fees_sf + a.fee
        /\ s.mint_supply = r.mint_supply
    BY <1>1, RefreshFields
  <1>3. /\ r.available \in Nat /\ r.borrowed_sf \in Nat /\ r.protocol_fees_sf \in Nat
        /\ a.reward \in Nat /\ a.interest \in Nat /\ a.fee \in Nat /\ a.fee <= a.interest
        /\ SF \in Nat
    BY <1>1, ScaleAssumption DEF ReserveState, Accrual, CanAccrue
  <1> HIDE DEF s
  <1>4. (r.available + a.reward) * SF = r.available * SF + a.reward * SF
    BY <1>3, Distribute
  <1>5. r.available * SF \in Nat /\ a.reward * SF \in Nat
    BY <1>3, Product
  <1>6. total_supply(s) >= total_supply(r)
    BY <1>2, <1>3, <1>4, <1>5 DEF total_supply
  <1>7. Sound(s) /\ NoWorse(r, s)
    BY <1>2, <1>6, MoreAssets
  <1> QED
    BY <1>7 DEF s

\* The seed's ctokens are never redeemed, so c is less than all there are: what
\* is paid out is less than all the assets, and the rate does not fall.
LEMMA RedeemKeeps ==
    ASSUME NEW r, Sound(r), NEW c \in Nat, c < r.mint_supply, Worth(r, c) <= r.available
    PROVE  /\ Sound(redeem_collateral(r, c)) /\ NoWorse(r, redeem_collateral(r, c))
           /\ total_supply(redeem_collateral(r, c)) = total_supply(r) - Worth(r, c) * SF
  <1> DEFINE s == redeem_collateral(r, c)
             l == Worth(r, c)
             m == r.mint_supply
             T == total_supply(r)
  <1>1. r \in ReserveState
    BY DEF Sound
  <1>2. l \in Nat /\ (l * SF) * m <= c * T
    BY WorthBounds
  <1>3. m \in Nat \ {0} /\ T \in Nat \ {0} /\ SF \in Nat \ {0} /\ c < m
    BY SoundTypes
  <1>4. l <= r.available /\ l = collateral_to_liquidity(collateral_exchange_rate(r), c)
    BY DEF Worth
  <1> HIDE DEF s, l
  <1>5. /\ s \in ReserveState /\ s.available = r.available - l /\ s.mint_supply = m - c
        /\ s.borrowed_sf = r.borrowed_sf /\ s.protocol_fees_sf = r.protocol_fees_sf
    BY <1>1, <1>2, <1>3, <1>4, RedeemFields DEF s
  <1>6. total_supply(s) = T - l * SF
    <2>1. (r.available - l) * SF = r.available * SF - l * SF
      BY <1>1, <1>2, <1>3, Distribute DEF ReserveState
    <2>2. r.available * SF \in Nat /\ l * SF \in Nat
      BY <1>1, <1>2, <1>3, Product DEF ReserveState
    <2>3. r.borrowed_sf \in Nat /\ r.protocol_fees_sf \in Nat
      BY <1>1 DEF ReserveState
    <2> QED
      BY <1>5, <2>1, <2>2, <2>3 DEF total_supply
  <1> DEFINE p == l * SF
  <1>7. p \in Nat /\ p * m <= c * T
    BY <1>2, <1>3, Product
  <1> HIDE DEF m, T, p
  <1>8. p < T
    <2>1. c * T < m * T
      BY <1>3, ProductStrict
    <2>2. p * m \in Nat /\ c * T \in Nat /\ m * T \in Nat /\ m * T = T * m
      BY <1>3, <1>7, Product
    <2>3. p * m < T * m
      BY <1>7, <2>1, <2>2
    <2> QED
      BY <1>3, <1>7, <2>3, ProductCancel
  <1>9. T * (m - c) <= (T - p) * m
    <2>1. T * (m - c) = T * m - c * T
      BY <1>3
    <2>2. (T - p) * m = T * m - p * m
      BY <1>3, <1>7, Distribute
    <2>3. p * m \in Nat /\ c * T \in Nat /\ T * m \in Nat
      BY <1>3, <1>7, Product
    <2> QED
      BY <1>7, <2>1, <2>2, <2>3
  <1>10. Sound(s)
    BY <1>3, <1>5, <1>6, <1>7, <1>8 DEF Sound, p
  <1>11. NoWorse(r, s)
    <2>1. T * (m - c) \in Nat /\ (T - p) * m \in Nat
      BY <1>3, <1>7, <1>8, Product
    <2> QED
      BY <1>5, <1>6, <1>9, <2>1 DEF NoWorse, p, m, T
  <1> QED
    BY <1>6, <1>10, <1>11 DEF s, l, T

\* The depositor pays the rounded-up value of the ctokens minted.
LEMMA DepositKeeps ==
    ASSUME NEW r, Sound(r), NEW a \in Nat, NEW l, NEW c,
           l = depositable(r, a).liquidity, c = depositable(r, a).collateral
    PROVE  /\ l \in Nat /\ c \in Nat
           /\ Sound(deposit_liquidity(r, l, c)) /\ NoWorse(r, deposit_liquidity(r, l, c))
  <1> DEFINE s == deposit_liquidity(r, l, c)
             m == r.mint_supply
             T == total_supply(r)
  <1>1. r \in ReserveState
    BY DEF Sound
  <1>2. m \in Nat \ {0} /\ T \in Nat \ {0} /\ SF \in Nat \ {0}
    BY SoundTypes
  <1>3. /\ c = (a * m * SF) \div T
        /\ l = DivCeil(DivCeil(c * T, m), SF)
    BY SoundRate DEF depositable, liquidity_to_collateral, collateral_to_liquidity_ceil
  <1>4. c \in Nat
    <2> DEFINE q == a * m * SF
    <2>1. q \in Nat /\ T \in Nat \ {0}
      BY <1>2, Product
    <2> HIDE DEF q, T
    <2>2. (q \div T) \in Nat
      BY <2>1, DivBounds
    <2> QED
      BY <1>3, <2>2 DEF q
  <1> HIDE DEF s, m, T
  <1>5. l \in Nat /\ c * T <= (l * SF) * m
    BY <1>2, <1>3, <1>4, CeiledValue
  <1>6. /\ s \in ReserveState /\ s.available = r.available + l /\ s.mint_supply = m + c
        /\ s.borrowed_sf = r.borrowed_sf /\ s.protocol_fees_sf = r.protocol_fees_sf
    <2>1. r \in ReserveState /\ l \in Nat /\ c \in Nat
      BY <1>1, <1>4, <1>5
    <2>2. LET d == deposit_liquidity(r, l, c)
          IN  /\ d \in ReserveState /\ d.available = r.available + l
              /\ d.mint_supply = r.mint_supply + c
              /\ d.borrowed_sf = r.borrowed_sf
              /\ d.protocol_fees_sf = r.protocol_fees_sf
      BY ONLY <2>1, DepositFields
    <2> QED
      BY <2>2 DEF s, m
  <1>7. total_supply(s) = T + l * SF
    <2>1. (r.available + l) * SF = r.available * SF + l * SF
      BY <1>1, <1>2, <1>5, Distribute DEF ReserveState
    <2>2. r.available * SF \in Nat /\ l * SF \in Nat
      BY <1>1, <1>2, <1>5, Product DEF ReserveState
    <2>3. r.borrowed_sf \in Nat /\ r.protocol_fees_sf \in Nat
      BY <1>1 DEF ReserveState
    <2> QED
      BY <1>6, <2>1, <2>2, <2>3 DEF total_supply, T
  <1> DEFINE p == l * SF
  <1>8. p \in Nat /\ c * T <= p * m
    BY <1>2, <1>5, Product
  <1> HIDE DEF p
  <1>9. T * (m + c) <= (T + p) * m
    <2>1. T * (m + c) = T * m + c * T
      BY <1>2, <1>4
    <2>2. (T + p) * m = T * m + p * m
      BY <1>2, <1>8, Distribute
    <2>3. p * m \in Nat /\ c * T \in Nat /\ T * m \in Nat
      BY <1>2, <1>4, <1>8, Product
    <2> QED
      BY <1>8, <2>1, <2>2, <2>3
  <1>10. Sound(s)
    BY <1>2, <1>4, <1>6, <1>7, <1>8 DEF Sound, p
  <1>11. NoWorse(r, s)
    <2>1. T * (m + c) \in Nat /\ (T + p) * m \in Nat
      BY <1>2, <1>4, <1>8, Product
    <2> QED
      BY <1>6, <1>7, <1>9, <2>1 DEF NoWorse, p, m, T
  <1> QED
    BY <1>4, <1>5, <1>10, <1>11 DEF s

LEMMA BorrowKeeps ==
    ASSUME NEW r, Sound(r), NEW b \in Nat, b \div SF <= r.available
    PROVE  /\ Sound(borrow(r, b)) /\ NoWorse(r, borrow(r, b))
           /\ total_supply(borrow(r, b)) < total_supply(r) + SF
  <1> DEFINE s == borrow(r, b)
             l == b \div SF
  <1>1. r \in ReserveState
    BY DEF Sound
  <1>2. SF \in Nat \ {0}
    BY ScaleAssumption
  <1>3. l \in Nat /\ SF * l <= b /\ b < SF * l + SF /\ l <= r.available
    BY <1>2, DivBounds
  <1>4. /\ s \in ReserveState /\ s.available = r.available - l
        /\ s.borrowed_sf = r.borrowed_sf + b /\ s.mint_supply = r.mint_supply
        /\ s.protocol_fees_sf = r.protocol_fees_sf
    BY <1>1, <1>3, BorrowFields
  <1> HIDE DEF s, l
  <1>5. total_supply(s) = total_supply(r) + b - SF * l /\ total_supply(r) \in Int
    <2>1. (r.available - l) * SF = r.available * SF - l * SF
      BY <1>1, <1>2, <1>3, Distribute DEF ReserveState
    <2>2. r.available * SF \in Nat /\ l * SF \in Nat /\ l * SF = SF * l
      BY <1>1, <1>2, <1>3, Product DEF ReserveState
    <2>3. r.borrowed_sf \in Nat /\ r.protocol_fees_sf \in Nat
      BY <1>1 DEF ReserveState
    <2> QED
      BY <1>4, <2>1, <2>2, <2>3 DEF total_supply
  <1>6. SF * l \in Nat
    BY <1>2, <1>3, Product
  <1>7. total_supply(s) >= total_supply(r) /\ total_supply(s) < total_supply(r) + SF
    BY <1>2, <1>3, <1>5, <1>6
  <1>8. Sound(s) /\ NoWorse(r, s)
    BY <1>4, <1>7, MoreAssets
  <1> QED
    BY <1>7, <1>8 DEF s

LEMMA RepayKeeps ==
    ASSUME NEW r, Sound(r), NEW d \in Nat, d <= r.borrowed_sf
    PROVE  /\ DivCeil(d, SF) \in Nat
           /\ Sound(repay(r, DivCeil(d, SF), d)) /\ NoWorse(r, repay(r, DivCeil(d, SF), d))
  <1> DEFINE l == DivCeil(d, SF)
             s == repay(r, l, d)
  <1>1. r \in ReserveState
    BY DEF Sound
  <1>2. SF \in Nat \ {0}
    BY ScaleAssumption
  <1>3. l \in Nat /\ d <= SF * l
    BY <1>2, CeilBounds
  <1> HIDE DEF l, s
  <1>4. Lesser(d, r.borrowed_sf) = d
    BY DEF Lesser
  <1>5. /\ s \in ReserveState /\ s.available = r.available + l
        /\ s.borrowed_sf = r.borrowed_sf - d /\ s.mint_supply = r.mint_supply
        /\ s.protocol_fees_sf = r.protocol_fees_sf
    BY <1>1, <1>3, <1>4, RepayFields DEF s
  <1>6. total_supply(s) >= total_supply(r)
    <2>1. (r.available + l) * SF = r.available * SF + l * SF
      BY <1>1, <1>2, <1>3, Distribute DEF ReserveState
    <2>2. r.available * SF \in Nat /\ l * SF \in Nat /\ l * SF = SF * l
      BY <1>1, <1>2, <1>3, Product DEF ReserveState
    <2>3. r.borrowed_sf \in Nat /\ r.protocol_fees_sf \in Nat
      BY <1>1 DEF ReserveState
    <2> QED
      BY <1>3, <1>5, <2>1, <2>2, <2>3 DEF total_supply
  <1>7. Sound(s) /\ NoWorse(r, s)
    BY <1>5, <1>6, MoreAssets
  <1> QED
    BY <1>3, <1>7 DEF s, l

\* The fees are no assets of the ctoken holders.
LEMMA FeesKeep ==
    ASSUME NEW r, Sound(r), NEW l \in Nat, l <= r.available, l <= r.protocol_fees_sf \div SF
    PROVE  /\ l * SF \in Nat /\ l * SF <= r.protocol_fees_sf
           /\ Sound(redeem_fees(r, l)) /\ NoWorse(r, redeem_fees(r, l))
           /\ total_supply(redeem_fees(r, l)) = total_supply(r)
  <1> DEFINE s == redeem_fees(r, l)
  <1>1. r \in ReserveState /\ SF \in Nat \ {0}
    BY ScaleAssumption DEF Sound
  <1>2. l * SF \in Nat /\ l * SF <= r.protocol_fees_sf
    <2> DEFINE k == r.protocol_fees_sf \div SF
    <2>1. r.protocol_fees_sf \in Nat
      BY <1>1 DEF ReserveState
    <2>2. k \in Nat /\ SF * k <= r.protocol_fees_sf /\ l <= k
      BY <1>1, <2>1, DivBounds
    <2> HIDE DEF k
    <2>3. l * SF <= k * SF
      BY <1>1, <2>2, ProductMono
    <2>4. l * SF \in Nat /\ k * SF \in Nat /\ k * SF = SF * k
      BY <1>1, <2>2, Product
    <2> QED
      BY <2>1, <2>2, <2>3, <2>4
  <1>3. /\ s \in ReserveState /\ s.available = r.available - l
        /\ s.protocol_fees_sf = r.protocol_fees_sf - l * SF
        /\ s.borrowed_sf = r.borrowed_sf /\ s.mint_supply = r.mint_supply
    BY <1>1, <1>2, FeeFields
  <1> HIDE DEF s
  <1>4. total_supply(s) = total_supply(r) /\ total_supply(r) \in Int
    <2>1. (r.available - l) * SF = r.available * SF - l * SF
      BY <1>1, Distribute DEF ReserveState
    <2>2. r.available * SF \in Nat
      BY <1>1, Product DEF ReserveState
    <2>3. r.borrowed_sf \in Nat /\ r.protocol_fees_sf \in Nat
      BY <1>1 DEF ReserveState
    <2> QED
      BY <1>2, <1>3, <2>1, <2>2, <2>3 DEF total_supply
  <1>5. Sound(s) /\ NoWorse(r, s)
    BY <1>3, <1>4, MoreAssets
  <1> QED
    BY <1>2, <1>4, <1>5 DEF s

\* A loss that takes all the assets deprecates the reserve.
LEMMA ForgiveKeeps ==
    ASSUME NEW r, Sound(r), NEW f \in Nat, f <= r.borrowed_sf
    PROVE  \/ forgive_debt(r, f).deprecated
           \/ Sound(forgive_debt(r, f))
  <1> DEFINE s == forgive_debt(r, f)
  <1>1. r \in ReserveState
    BY DEF Sound
  <1>2. /\ s \in ReserveState /\ s.mint_supply = r.mint_supply
        /\ s.borrowed_sf = r.borrowed_sf - f /\ s.available = r.available
        /\ s.protocol_fees_sf = r.protocol_fees_sf
    BY <1>1, ForgiveFields
  <1>3. s.deprecated = (r.deprecated \/ f >= total_supply(r))
    BY <1>1, ForgiveFields
  <1> HIDE DEF s
  <1>4. total_supply(s) = total_supply(r) - f
    <2>1. r.available * SF \in Nat
      BY <1>1, Product, ScaleAssumption DEF ReserveState
    <2>2. r.borrowed_sf \in Nat /\ r.protocol_fees_sf \in Nat
      BY <1>1 DEF ReserveState
    <2> QED
      BY <1>2, <2>1, <2>2 DEF total_supply
  <1>5. CASE f >= total_supply(r)
    BY <1>3, <1>5, Zenon DEF s
  <1>6. CASE ~(f >= total_supply(r))
    <2>1. total_supply(s) > 0
      BY <1>1, <1>4, <1>6, SupplyType
    <2>2. Sound(s)
      BY <1>2, <2>1 DEF Sound
    <2> QED
      BY <2>2 DEF s
  <1> QED
    BY <1>5, <1>6

-----------------------------------------------------------------------------
(* The queue's claim.                                                      *)

\* With at most SF lost to rounding, and no more ctokens queued than there are,
\* what is queued is worth at most one unit more than before.
LEMMA ShareBound ==
    ASSUME NEW S \in Nat \ {0}, NEW m \in Nat \ {0}, NEW n \in Nat \ {0}, NEW T \in Nat,
           NEW U \in Nat, NEW q \in Nat, NEW Q \in Nat, NEW R \in Nat,
           q <= n, U * m <= T * n + m * S,
           q * T < (Q * S) * m + m * S, (R * S) * n <= q * U
    PROVE  R <= Q + 1
  <1> DEFINE k == (m * S) * n
  <1>1. m * S \in Nat \ {0} /\ k \in Nat \ {0}
    OBVIOUS
  <1>2. R * k <= (q * U) * m
    <2>1. ((R * S) * n) * m <= (q * U) * m
      BY ProductMono, Product
    <2>2. ((R * S) * n) * m = R * k
      OBVIOUS
    <2> QED
      BY <2>1, <2>2
  <1>3. (q * U) * m <= (q * T) * n + k
    <2>1. (U * m) * q <= (T * n + m * S) * q
      BY ProductMono, Product
    <2>2. (T * n + m * S) * q = (T * n) * q + (m * S) * q
      BY Distribute
    <2>3. q * (m * S) <= n * (m * S)
      BY ProductMono, Product
    <2>4. (U * m) * q = (q * U) * m /\ (T * n) * q = (q * T) * n
      OBVIOUS
    <2>5. (m * S) * q = q * (m * S) /\ n * (m * S) = k
      OBVIOUS
    <2>6. (q * U) * m \in Nat /\ (q * T) * n \in Nat /\ (m * S) * q \in Nat
      BY Product
    <2> QED
      BY <1>1, <2>1, <2>2, <2>3, <2>4, <2>5, <2>6
  <1>4. (q * T) * n < (Q + 1) * k
    <2> DEFINE e == (Q * S) * m + m * S
    <2>1. q * T \in Nat /\ e \in Nat /\ q * T < e
      BY Product
    <2>2. (q * T) * n < e * n
      <3> HIDE DEF e
      <3> QED
        BY <2>1, ProductStrict
    <2>3. e * n = ((Q * S) * m) * n + (m * S) * n
      BY Distribute, Product
    <2>4. ((Q * S) * m) * n = Q * k
      OBVIOUS
    <2>5. (Q + 1) * k = Q * k + k
      BY <1>1, Distribute
    <2> QED
      BY <2>2, <2>3, <2>4, <2>5
  <1>5. R * k < (Q + 2) * k
    <2>1. (Q + 2) * k = (Q + 1) * k + k
      BY <1>1, Distribute
    <2>2. R * k \in Nat /\ (Q + 1) * k \in Nat /\ (q * U) * m \in Nat /\ (q * T) * n \in Nat
      BY <1>1, Product
    <2> HIDE DEF k
    <2> QED
      BY <1>1, <1>2, <1>3, <1>4, <2>1, <2>2
  <1> HIDE DEF k
  <1>6. R < Q + 2
    BY <1>1, <1>5, ProductCancel
  <1> QED
    BY <1>6

\* What is queued is worth at most one unit more after an operation that leaves
\* the rate where it was, up to rounding.
LEMMA ClaimKept ==
    ASSUME NEW r, NEW s, Sound(r), Sound(s), s.queued = r.queued, s.queued <= s.mint_supply,
           total_supply(s) * r.mint_supply
              <= total_supply(r) * s.mint_supply + r.mint_supply * SF
    PROVE  /\ queued_liquidity_amount(r) \in Nat /\ queued_liquidity_amount(s) \in Nat
           /\ queued_liquidity_amount(s) <= queued_liquidity_amount(r) + 1
  <1> DEFINE m == r.mint_supply
             n == s.mint_supply
             T == total_supply(r)
             U == total_supply(s)
             q == r.queued
             Q == queued_liquidity_amount(r)
             R == queued_liquidity_amount(s)
  <1>1. /\ m \in Nat \ {0} /\ n \in Nat \ {0} /\ T \in Nat /\ U \in Nat
        /\ q \in Nat /\ SF \in Nat \ {0}
    BY SoundTypes
  <1>2. Q = Worth(r, q) /\ R = Worth(s, q)
    BY DEF queued_liquidity_amount, Worth
  <1>3. Q \in Nat /\ q * T < (Q * SF) * m + m * SF
    BY <1>1, <1>2, WorthBounds
  <1>4. R \in Nat /\ (R * SF) * n <= q * U
    BY <1>1, <1>2, WorthBounds
  <1>5. q <= n /\ U * m <= T * n + m * SF
    OBVIOUS
  <1> HIDE DEF m, n, T, U, q, Q, R
  <1>6. R <= Q + 1
    BY <1>1, <1>3, <1>4, <1>5, ShareBound
  <1> QED
    BY <1>3, <1>4, <1>6 DEF Q, R

LEMMA RedeemClaim ==
    ASSUME NEW r, Sound(r), NEW c \in Nat, c < r.mint_supply, Worth(r, c) <= r.available,
           r.queued <= r.mint_supply - c
    PROVE  LET s == redeem_collateral(r, c)
           IN  /\ queued_liquidity_amount(r) \in Nat /\ queued_liquidity_amount(s) \in Nat
               /\ queued_liquidity_amount(s) <= queued_liquidity_amount(r) + 1
  <1> DEFINE s == redeem_collateral(r, c)
             l == Worth(r, c)
             m == r.mint_supply
             T == total_supply(r)
  <1>1. r \in ReserveState
    BY DEF Sound
  <1>2. l \in Nat /\ c * T < (l * SF) * m + m * SF
    BY WorthBounds
  <1>3. m \in Nat \ {0} /\ T \in Nat \ {0} /\ SF \in Nat \ {0}
    BY SoundTypes
  <1>4. Sound(s) /\ total_supply(s) = T - l * SF
    BY RedeemKeeps
  <1>5. l <= r.available /\ l = collateral_to_liquidity(collateral_exchange_rate(r), c)
    BY DEF Worth
  <1>6. c <= r.mint_supply
    BY <1>3
  <1> HIDE DEF s, l
  <1>7. s.queued = r.queued /\ s.mint_supply = m - c
    BY <1>1, <1>2, <1>5, <1>6, RedeemFields DEF s
  <1> DEFINE p == l * SF
             e == m * SF
  <1>8. p \in Nat /\ e \in Nat /\ c * T < p * m + e
    BY <1>2, <1>3, Product
  <1> HIDE DEF m, T, p, e
  <1>9. (T - p) * m <= T * (m - c) + e
    <2>1. T * (m - c) = T * m - c * T
      BY <1>3
    <2>2. (T - p) * m = T * m - p * m
      BY <1>3, <1>8, Distribute
    <2>3. p * m \in Nat /\ c * T \in Nat /\ T * m \in Nat
      BY <1>3, <1>8, Product
    <2> QED
      BY <1>8, <2>1, <2>2, <2>3
  <1>10. /\ s.queued = r.queued /\ s.queued <= s.mint_supply
         /\ total_supply(s) * r.mint_supply
              <= total_supply(r) * s.mint_supply + r.mint_supply * SF
    BY <1>4, <1>7, <1>9 DEF m, T, p, e
  <1>11. /\ queued_liquidity_amount(r) \in Nat /\ queued_liquidity_amount(s) \in Nat
         /\ queued_liquidity_amount(s) <= queued_liquidity_amount(r) + 1
    BY <1>4, <1>10, ClaimKept
  <1> QED
    BY <1>11 DEF s

\* The same for a reserve whose ctokens stay as they are and whose assets grow
\* by less than a unit.
LEMMA SmallGain ==
    ASSUME NEW r, NEW s, Sound(r), Sound(s), s.queued = r.queued,
           s.mint_supply = r.mint_supply, r.queued <= r.mint_supply,
           total_supply(s) <= total_supply(r) + SF
    PROVE  /\ queued_liquidity_amount(r) \in Nat /\ queued_liquidity_amount(s) \in Nat
           /\ queued_liquidity_amount(s) <= queued_liquidity_amount(r) + 1
  <1> DEFINE m == r.mint_supply
             T == total_supply(r)
             U == total_supply(s)
  <1>1. m \in Nat \ {0} /\ T \in Nat \ {0} /\ U \in Nat /\ SF \in Nat \ {0} /\ U <= T + SF
    BY SoundTypes
  <1>2. U * m <= T * m + m * SF
    <2> HIDE DEF m, T, U
    <2>1. U * m <= (T + SF) * m
      BY <1>1, ProductMono
    <2>2. (T + SF) * m = T * m + SF * m
      BY <1>1, Distribute
    <2>3. SF * m = m * SF
      BY <1>1
    <2> QED
      BY <2>1, <2>2, <2>3
  <1>3. /\ s.queued = r.queued /\ s.queued <= s.mint_supply
        /\ total_supply(s) * r.mint_supply
              <= total_supply(r) * s.mint_supply + r.mint_supply * SF
    BY <1>2
  <1> QED
    BY <1>3, ClaimKept

\* Taking what is freely available leaves what the queue can claim.
LEMMA FreeAmount ==
    ASSUME NEW r, Sound(r), NEW l \in Nat, l <= freely_available_liquidity_amount(r)
    PROVE  /\ queued_liquidity_amount(r) \in Nat /\ l <= r.available
           /\ l # 0 => r.available - l >= queued_liquidity_amount(r)
  <1> DEFINE Q == queued_liquidity_amount(r)
  <1>1. r.available \in Nat /\ r.queued \in Nat
    BY SoundTypes
  <1>2. Q \in Nat
    <2>1. Worth(r, r.queued) \in Nat
      BY <1>1, WorthBounds
    <2> QED
      BY <2>1 DEF queued_liquidity_amount, Worth
  <1>3. l <= saturating_sub(r.available, Q)
    BY DEF freely_available_liquidity_amount
  <1> HIDE DEF Q
  <1>4. l <= r.available /\ (l # 0 => r.available - l >= Q)
    BY <1>1, <1>2, <1>3 DEF saturating_sub
  <1> QED
    BY <1>2, <1>4 DEF Q

-----------------------------------------------------------------------------
(* Withdrawal caps                                                         *)

\* What the reset leaves: caps of the same settings, whose interval has not
\* run out.
LEMMA CurrentInterval ==
    ASSUME NEW c \in Caps, NEW t \in Nat, c.start <= t, Limited(c)
    PROVE  LET r == current_interval(c, t)
           IN  /\ r \in Caps
               /\ r.capacity = c.capacity /\ r.interval = c.interval
               /\ r.start <= t
               /\ ~check_last_interval_elapsed(r, t)
               /\ r.total = IF check_last_interval_elapsed(c, t) THEN 0 ELSE c.total
<1>1. CASE check_last_interval_elapsed(c, t)
  <2>1. current_interval(c, t) = [capacity |-> c.capacity, interval |-> c.interval,
                                  start |-> t, total |-> 0]
    BY <1>1 DEF current_interval, Caps
  <2>2. 0 \in I64
    BY WidthAssumption DEF I64, MinI64
  <2> QED
    BY <1>1, <2>1, <2>2 DEF Caps, Limited, check_last_interval_elapsed
<1>2. CASE ~check_last_interval_elapsed(c, t)
  BY <1>2 DEF current_interval
<1> QED
  BY <1>1, <1>2

\* The counter's arithmetic stays in i64.
LEMMA CountedTyped ==
    ASSUME NEW c \in Caps, NEW t \in Nat, c.start <= t, NEW d \in Int
    PROVE  /\ Counted(c, d, t) \in Caps
           /\ Counted(c, d, t).start <= t
           /\ Counted(c, d, t).interval = c.interval
           /\ Counted(c, d, t).capacity = c.capacity
<1> DEFINE r == IF Limited(c) THEN current_interval(c, t) ELSE c
<1>1. r \in Caps /\ r.start <= t /\ r.interval = c.interval /\ r.capacity = c.capacity
  BY CurrentInterval
<1>2. Clamp(r.total + d) \in I64
  BY <1>1, WidthAssumption DEF Clamp, I64, MinI64, Caps
<1>3. Counted(c, d, t) = [r EXCEPT !.total = Clamp(r.total + d)]
  BY <1>1 DEF Counted, Caps
<1> HIDE DEF r
<1> QED
  BY <1>1, <1>2, <1>3 DEF Caps
=============================================================================

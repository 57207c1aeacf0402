------------------------- MODULE DebtTrackersProofs -------------------------
(***************************************************************************)
(* Proofs about DebtTrackers, for any number of obligations, reserves and  *)
(* elevation groups, any amounts, rates and scale.                         *)
(*                                                                         *)
(* An instruction works on one obligation and all reserves (a "book").     *)
(* For each operation of the model a lemma shows that it keeps the book    *)
(* sane, changes each counter by what it changes of the obligation's own   *)
(* share in it (Others), and keeps the shares as near to the debts as      *)
(* they were (Shares).  Instructions are chains of such operations.  Inv   *)
(* then says of all obligations together that counters are sums of shares. *)
(***************************************************************************)
EXTENDS DebtTrackers, ReserveTheorems

Books == [res : [ReserveId -> ReserveAccount], ob : ObligationAccount]

\* The part of the counter of group g on reserve x that is the obligation's.
ShareIn(ob, x, g) == IF ob.group = g THEN ob.against[x] ELSE 0

\* An entry in its default state has no share, and no obligation has a share
\* outside groups together with one inside.
Orderly(ob, x) ==
    /\ ob.borrowed_sf[x] = 0 => ob.outside[x] = 0
    /\ ob.deposited[x] = 0 => ob.against[x] = 0
    /\ IF InGroup(ob) THEN ob.outside[x] = 0 ELSE ob.against[x] = 0

\* A debt was last compounded at a rate the reserve had before or has now.
Rated(s, x) ==
    s.ob.borrowed_sf[x] # 0 => s.ob.rate[x] # 0 /\ s.ob.rate[x] <= s.res[x].rate

\* The obligation's shares are within the counters.
Covered(s, x) ==
    /\ s.ob.outside[x] <= s.res[x].outside
    /\ \A g \in Group : ShareIn(s.ob, x, g) <= s.res[x].against[g]

Sane(s) ==
    /\ s \in Books
    /\ \A x \in ReserveId : Orderly(s.ob, x) /\ Rated(s, x) /\ Covered(s, x)

\* The rules of the obligation's group, but for the number of its collaterals.
Member(ob) ==
    InGroup(ob) =>
        \A x \in ReserveId :
            /\ ob.borrowed_sf[x] # 0 => x = debt_reserve[ob.group]
            /\ ob.deposited[x] # 0 => /\ ob.group \in elevation_groups[x]
                                      /\ x # debt_reserve[ob.group]

Within(a, b, k) == a <= b + k /\ b <= a + k
Debt(ob) == Ceil(ob.borrowed_sf[debt_reserve[ob.group]])

\* Every share is at most k units from the debt it stands for.
Shares(ob, k) ==
    \A x \in ReserveId :
        IF InGroup(ob) THEN ob.deposited[x] # 0 => Within(ob.against[x], Debt(ob), k)
                       ELSE Within(ob.outside[x], Ceil(ob.borrowed_sf[x]), k)

\* What the counters hold of others is the same in s and t.
Others(s, t) ==
    \A x \in ReserveId :
        /\ t.res[x].rate = s.res[x].rate
        /\ t.res[x].outside - t.ob.outside[x] = s.res[x].outside - s.ob.outside[x]
        /\ \A g \in Group :
              t.res[x].against[g] - ShareIn(t.ob, x, g)
                = s.res[x].against[g] - ShareIn(s.ob, x, g)

-----------------------------------------------------------------------------
(* Steps that touch neither debts nor shares                               *)

Neutral(s, t) ==
    /\ t \in Books
    /\ t.ob.group = s.ob.group /\ t.ob.deposited = s.ob.deposited
    /\ t.ob.against = s.ob.against /\ t.ob.borrowed_sf = s.ob.borrowed_sf
    /\ t.ob.rate = s.ob.rate /\ t.ob.outside = s.ob.outside
    /\ \A x \in ReserveId : /\ t.res[x].rate = s.res[x].rate
                            /\ t.res[x].outside = s.res[x].outside
                            /\ t.res[x].against = s.res[x].against

LEMMA StaleNeutral ==
    ASSUME NEW s \in Books
    PROVE  Neutral(s, stale(s)) /\ stale(s).ob.fresh = FALSE /\ stale(s).res = s.res
  <1> DEFINE t == stale(s)
  <1>1. t.ob = [s.ob EXCEPT !.fresh = FALSE] /\ t.res = s.res /\ t \in Books
    BY DEF stale, Books, ObligationAccount
  <1> DEFINE b == [s.ob EXCEPT !.fresh = FALSE]
  <1>2. s.ob \in ObligationAccount
    BY DEF Books
  <1>3. /\ b.fresh = FALSE /\ b.group = s.ob.group /\ b.deposited = s.ob.deposited
        /\ b.against = s.ob.against /\ b.borrowed_sf = s.ob.borrowed_sf
        /\ b.rate = s.ob.rate /\ b.outside = s.ob.outside
    BY <1>2 DEF ObligationAccount
  <1> HIDE DEF t, b
  <1>4. t.ob = b
    BY <1>1 DEF b
  <1>5. Neutral(s, t)
    BY <1>1, <1>3, <1>4 DEF Neutral
  <1> QED
    BY <1>1, <1>3, <1>4, <1>5 DEF t

LEMMA TouchedNeutral ==
    ASSUME NEW s \in Books, NEW r \in ReserveId
    PROVE  /\ Neutral(s, touched(s, r)) /\ touched(s, r).ob = s.ob
           /\ Neutral(s, refreshed(s, r)) /\ refreshed(s, r).ob = s.ob
  <1> DEFINE A(v) == [s EXCEPT !.res[r].status = v]
  <1>1. ASSUME NEW v \in {"touched", "fresh"}
        PROVE  Neutral(s, A(v)) /\ A(v).ob = s.ob
    <2> DEFINE c == [s.res[r] EXCEPT !.status = v]
               t == A(v)
    <2>1. s.res[r] \in ReserveAccount
      BY DEF Books
    <2>2. /\ c \in ReserveAccount /\ c.rate = s.res[r].rate
          /\ c.outside = s.res[r].outside /\ c.against = s.res[r].against
      BY <2>1 DEF ReserveAccount
    <2>3. t.res = [s.res EXCEPT ![r] = c] /\ t.ob = s.ob /\ t = [res |-> t.res, ob |-> t.ob]
      BY DEF Books
    <2> HIDE DEF c, t
    <2>4. s.res \in [ReserveId -> ReserveAccount] /\ s.ob \in ObligationAccount
      BY DEF Books
    <2>5. t \in Books
      BY <2>2, <2>3, <2>4 DEF Books
    <2>6. Neutral(s, t)
      BY <2>2, <2>3, <2>4, <2>5 DEF Neutral
    <2> QED
      BY <2>3, <2>6 DEF t
  <1> QED
    BY <1>1 DEF touched, refreshed

LEMMA Exactly ==
    ASSUME NEW a \in Nat, NEW b \in Nat
    PROVE  /\ Within(a, b, 0) <=> a = b
           /\ Within(a, b, 0) => Within(a, b, 1)
  BY DEF Within

\* What a neutral step keeps.
LEMMA NeutralKeeps ==
    ASSUME NEW s \in Books, NEW t, Neutral(s, t)
    PROVE  /\ Others(s, t)
           /\ Sane(s) => Sane(t)
           /\ Member(s.ob) => Member(t.ob)
           /\ \A k : Shares(s.ob, k) => Shares(t.ob, k)
  <1>1. \A x \in ReserveId, g \in Group : ShareIn(t.ob, x, g) = ShareIn(s.ob, x, g)
    BY DEF ShareIn, Neutral
  <1>2. Others(s, t)
    BY <1>1 DEF Others, Neutral
  <1>3. Sane(s) => Sane(t)
    BY <1>1 DEF Sane, Orderly, Rated, Covered, Neutral, InGroup
  <1>4. Member(s.ob) => Member(t.ob)
    BY DEF Member, Neutral, InGroup
  <1>5. \A k : Shares(s.ob, k) => Shares(t.ob, k)
    BY DEF Shares, Debt, Neutral, InGroup
  <1> QED
    BY <1>2, <1>3, <1>4, <1>5

LEMMA OthersTrans ==
    ASSUME NEW s, NEW t, NEW u, Others(s, t), Others(t, u)
    PROVE  Others(s, u)
  BY DEF Others

-----------------------------------------------------------------------------
(* Whole units                                                             *)

LEMMA CeilGap ==
    ASSUME NEW x \in Nat
    PROVE  Ceil(x) \in Nat /\ x <= Ceil(x) * SF /\ Ceil(x) * SF < x + SF
  <1> DEFINE n == x + SF - 1
             c == n \div SF
  <1>1. n \in Nat /\ SF \in Nat \ {0}
    BY ScaleAssumption
  <1> HIDE DEF n
  <1>2. c \in Nat /\ SF * c <= n /\ n < SF * c + SF
    BY <1>1, DivBounds
  <1>3. Ceil(x) = c
    BY DEF Ceil, DivCeil, n
  <1> HIDE DEF c
  <1>4. SF * c = c * SF /\ c * SF \in Nat
    BY <1>1, <1>2
  <1>5. n = x + SF - 1
    BY DEF n
  <1> QED
    BY <1>1, <1>2, <1>3, <1>4, <1>5

\* One number lies within a scale above x.
LEMMA CeilIs ==
    ASSUME NEW x \in Nat, NEW n \in Nat, x <= n * SF, n * SF < x + SF
    PROVE  Ceil(x) = n
  <1> DEFINE c == Ceil(x)
  <1>1. c \in Nat /\ x <= c * SF /\ c * SF < x + SF
    BY CeilGap
  <1> HIDE DEF c
  <1>2. SF \in Nat \ {0} /\ (n + 1) * SF = n * SF + SF /\ (c + 1) * SF = c * SF + SF
    BY <1>1, ScaleAssumption
  <1>3. n * SF \in Nat /\ c * SF \in Nat
    BY <1>1, <1>2
  <1>4. c * SF < (n + 1) * SF /\ n * SF < (c + 1) * SF
    BY <1>1, <1>2, <1>3
  <1>5. c < n + 1 /\ n < c + 1
    BY <1>1, <1>2, <1>4, ProductCancel
  <1> QED
    BY <1>1, <1>5 DEF c

LEMMA CeilZero == Ceil(0) = 0
  BY CeilIs, ScaleAssumption

\* Whole units are their own number, and add exactly.
LEMMA CeilWhole ==
    ASSUME NEW x \in Nat, NEW n \in Nat
    PROVE  n * SF \in Nat /\ Ceil(n * SF) = n /\ Ceil(x + n * SF) = Ceil(x) + n
  <1> DEFINE c == Ceil(x)
             b == n * SF
  <1>1. c \in Nat /\ x <= c * SF /\ c * SF < x + SF
    BY CeilGap
  <1> HIDE DEF c
  <1>2. SF \in Nat \ {0} /\ b \in Nat /\ (c + n) * SF = c * SF + b
    BY <1>1, ScaleAssumption
  <1>3. c * SF \in Nat
    BY <1>1, <1>2
  <1>4. b = n * SF
    OBVIOUS
  <1> HIDE DEF b
  <1>5. Ceil(b) = n
    BY <1>2, <1>4, CeilIs
  <1>6. Ceil(x + b) = c + n
    <2>1. x + b \in Nat /\ c + n \in Nat
      BY <1>1, <1>2
    <2>2. x + b <= (c + n) * SF /\ (c + n) * SF < (x + b) + SF
      BY <1>1, <1>2, <1>3
    <2> QED
      BY <2>1, <2>2, CeilIs
  <1> QED
    BY <1>2, <1>5, <1>6 DEF b, c

\* Two roundings up exceed the rounding of the sum by one unit at most.
LEMMA CeilAdd ==
    ASSUME NEW x \in Nat, NEW y \in Nat
    PROVE  Ceil(x + y) <= Ceil(x) + Ceil(y) /\ Ceil(x) + Ceil(y) <= Ceil(x + y) + 1
  <1> DEFINE a == Ceil(x)
             b == Ceil(y)
             c == Ceil(x + y)
  <1>1. /\ a \in Nat /\ x <= a * SF /\ a * SF < x + SF
        /\ b \in Nat /\ y <= b * SF /\ b * SF < y + SF
        /\ c \in Nat /\ x + y <= c * SF /\ c * SF < x + y + SF
    BY CeilGap
  <1> HIDE DEF a, b, c
  <1>2. SF \in Nat \ {0}
    BY ScaleAssumption
  <1>3. /\ (a + b + 1) * SF = a * SF + b * SF + SF
        /\ (a + b) * SF = a * SF + b * SF
        /\ (c + 2) * SF = c * SF + SF + SF
        /\ a * SF \in Nat /\ b * SF \in Nat /\ c * SF \in Nat
    BY <1>1, <1>2
  <1>4. c * SF < (a + b + 1) * SF /\ (a + b) * SF < (c + 2) * SF
    BY <1>1, <1>2, <1>3
  <1>5. c < a + b + 1 /\ a + b < c + 2
    BY <1>1, <1>2, <1>4, ProductCancel
  <1> QED
    BY <1>1, <1>5 DEF a, b, c

LEMMA CeilMore ==
    ASSUME NEW d \in Nat, NEW a \in Nat
    PROVE  /\ Ceil(a) \in Nat /\ Ceil(d) \in Nat /\ Ceil(d + a) \in Nat
           /\ Ceil(d + a) <= Ceil(d) + Ceil(a) /\ Ceil(d) + Ceil(a) <= Ceil(d + a) + 1
  <1>1. d + a \in Nat
    OBVIOUS
  <1>2. Ceil(a) \in Nat /\ Ceil(d) \in Nat /\ Ceil(d + a) \in Nat
    BY <1>1, CeilGap
  <1> QED
    BY <1>2, CeilAdd

\* The units a repayment takes off are covered, and leave no more than the rest.
LEMMA CeilRest ==
    ASSUME NEW d \in Nat, NEW a \in Nat, a <= d
    PROVE  /\ Ceil(a) \in Nat /\ Ceil(d) \in Nat /\ Ceil(d - a) \in Nat /\ Ceil(a) <= Ceil(d)
           /\ Within(Ceil(d) - Ceil(a), Ceil(d - a), 1)
  <1> DEFINE y == d - a
  <1>1. y \in Nat /\ d = y + a
    OBVIOUS
  <1> HIDE DEF y
  <1>2. Ceil(d) <= Ceil(y) + Ceil(a) /\ Ceil(y) + Ceil(a) <= Ceil(d) + 1
    BY <1>1, CeilAdd
  <1>3. Ceil(a) \in Nat /\ Ceil(d) \in Nat /\ Ceil(y) \in Nat
    BY <1>1, CeilGap
  <1>4. Ceil(a) <= Ceil(d)
    <2> DEFINE p == Ceil(a)
               q == Ceil(d)
    <2>1. p * SF < a + SF /\ d <= q * SF /\ p \in Nat /\ q \in Nat
      BY CeilGap
    <2> HIDE DEF p, q
    <2>2. (q + 1) * SF = q * SF + SF /\ SF \in Nat \ {0} /\ p * SF \in Nat /\ q * SF \in Nat
      BY <2>1, ScaleAssumption
    <2>3. p * SF < (q + 1) * SF
      BY <2>1, <2>2
    <2>4. p < q + 1
      BY <2>1, <2>2, <2>3, ProductCancel
    <2> QED
      BY <2>1, <2>4 DEF p, q
  <1> QED
    BY <1>2, <1>3, <1>4 DEF Within, y

\* Compounding at a rate that did not fall never ends a debt.
LEMMA Compounded ==
    ASSUME NEW d \in Nat \ {0}, NEW new \in Nat, NEW old \in Nat \ {0}, old <= new
    PROVE  (d * new) \div old \in Nat \ {0}
  <1> DEFINE p == d * new
             e == p \div old
  <1>1. p \in Nat /\ d * old <= p /\ d * old \in Nat
    BY Product, ProductMono, ProductSwap
  <1>2. d * old >= old
    OBVIOUS
  <1> HIDE DEF p
  <1>3. e \in Nat /\ p < old * e + old
    BY <1>1, DivBounds
  <1> HIDE DEF e
  <1>4. old * e = 0 => e = 0
    BY <1>3
  <1>5. e # 0
    <2> SUFFICES ASSUME e = 0 PROVE FALSE
      OBVIOUS
    <2>1. old * e = 0
      BY <2>1
    <2> QED
      BY <1>1, <1>2, <1>3, <2>1
  <1> QED
    BY <1>3, <1>5 DEF e, p

-----------------------------------------------------------------------------
(* Counters inside a group, and outside                                    *)

\* The operations on counters have one of two forms: for the reserves of S, the
\* counters become A and the shares B.
Regroup(s, S, g, A, B) ==
    [res |-> [q \in ReserveId |->
                IF q \in S THEN [s.res[q] EXCEPT !.against[g] = A[q]] ELSE s.res[q]],
     ob |-> [s.ob EXCEPT !.against = [q \in ReserveId |->
                IF q \in S THEN B[q] ELSE s.ob.against[q]]]]

Reside(s, S, A, B) ==
    [res |-> [q \in ReserveId |->
                IF q \in S THEN [s.res[q] EXCEPT !.outside = A[q]] ELSE s.res[q]],
     ob |-> [s.ob EXCEPT !.outside = [q \in ReserveId |->
                IF q \in S THEN B[q] ELSE s.ob.outside[q]]]]

\* Everything but counters and shares.
SameEntries(s, t) ==
    /\ t \in Books
    /\ t.ob.group = s.ob.group /\ t.ob.fresh = s.ob.fresh
    /\ t.ob.deposited = s.ob.deposited /\ t.ob.borrowed_sf = s.ob.borrowed_sf
    /\ t.ob.rate = s.ob.rate
    /\ \A x \in ReserveId : t.res[x].rate = s.res[x].rate /\ t.res[x].status = s.res[x].status

SameOutside(s, t) ==
    t.ob.outside = s.ob.outside /\ \A x \in ReserveId : t.res[x].outside = s.res[x].outside
SameInside(s, t) ==
    t.ob.against = s.ob.against /\ \A x \in ReserveId : t.res[x].against = s.res[x].against

Regrouped(s, t, S, g, A, B) ==
    /\ SameEntries(s, t) /\ SameOutside(s, t)
    /\ \A x \in ReserveId :
          /\ t.ob.against[x] = IF x \in S THEN B[x] ELSE s.ob.against[x]
          /\ \A h \in Group :
                t.res[x].against[h] = IF x \in S /\ h = g THEN A[x] ELSE s.res[x].against[h]

Resided(s, t, S, A, B) ==
    /\ SameEntries(s, t) /\ SameInside(s, t)
    /\ \A x \in ReserveId :
          /\ t.ob.outside[x] = IF x \in S THEN B[x] ELSE s.ob.outside[x]
          /\ t.res[x].outside = IF x \in S THEN A[x] ELSE s.res[x].outside

LEMMA RegroupFields ==
    ASSUME NEW s \in Books, NEW S, NEW g \in Group,
           NEW A \in [ReserveId -> Nat], NEW B \in [ReserveId -> Nat]
    PROVE  Regrouped(s, Regroup(s, S, g, A, B), S, g, A, B)
  <1> DEFINE t == Regroup(s, S, g, A, B)
             C(q) == [s.res[q] EXCEPT !.against[g] = A[q]]
             b == [q \in ReserveId |-> IF q \in S THEN B[q] ELSE s.ob.against[q]]
  <1>1. s.res \in [ReserveId -> ReserveAccount] /\ s.ob \in ObligationAccount
    BY DEF Books
  <1>2. b \in [ReserveId -> Nat]
    BY <1>1 DEF ObligationAccount
  <1>3. ASSUME NEW q \in ReserveId
        PROVE  /\ C(q) \in ReserveAccount /\ C(q).rate = s.res[q].rate
               /\ C(q).status = s.res[q].status /\ C(q).outside = s.res[q].outside
               /\ \A h \in Group : C(q).against[h] =
                     IF h = g THEN A[q] ELSE s.res[q].against[h]
    <2> DEFINE e == s.res[q]
               f == [e.against EXCEPT ![g] = A[q]]
    <2>1. e \in ReserveAccount /\ A[q] \in Nat
      BY <1>1
    <2>2. C(q) = [e EXCEPT !.against = f]
      OBVIOUS
    <2>3. f \in [Group -> Nat] /\ \A h \in Group : f[h] = IF h = g THEN A[q] ELSE e.against[h]
      BY <2>1 DEF ReserveAccount
    <2> HIDE DEF f, e
    <2>4. [e EXCEPT !.against = f] \in ReserveAccount
      BY <2>1, <2>3 DEF ReserveAccount
    <2>5. /\ [e EXCEPT !.against = f].rate = e.rate /\ [e EXCEPT !.against = f].status = e.status
          /\ [e EXCEPT !.against = f].outside = e.outside /\ [e EXCEPT !.against = f].against = f
      BY <2>1 DEF ReserveAccount
    <2> HIDE DEF C
    <2> QED
      BY <2>2, <2>3, <2>4, <2>5 DEF e
  <1>4. /\ t.res = [q \in ReserveId |-> IF q \in S THEN C(q) ELSE s.res[q]]
        /\ t.ob = [s.ob EXCEPT !.against = b] /\ t = [res |-> t.res, ob |-> t.ob]
    BY DEF Regroup
  <1>5. /\ [s.ob EXCEPT !.against = b] \in ObligationAccount
        /\ t.ob.against = b /\ t.ob.group = s.ob.group /\ t.ob.fresh = s.ob.fresh
        /\ t.ob.deposited = s.ob.deposited /\ t.ob.borrowed_sf = s.ob.borrowed_sf
        /\ t.ob.rate = s.ob.rate /\ t.ob.outside = s.ob.outside
    <2> HIDE DEF b, t
    <2> QED
      BY <1>1, <1>2, <1>4 DEF ObligationAccount
  <1> HIDE DEF t, C
  <1>6. t \in Books
    BY <1>1, <1>3, <1>4, <1>5 DEF Books
  <1>7. \A x \in ReserveId : t.res[x] = IF x \in S THEN C(x) ELSE s.res[x]
    BY <1>4
  <1>8. SameEntries(s, t) /\ SameOutside(s, t)
    BY <1>3, <1>5, <1>6, <1>7 DEF SameEntries, SameOutside
  <1>9. ASSUME NEW x \in ReserveId
        PROVE  /\ t.ob.against[x] = IF x \in S THEN B[x] ELSE s.ob.against[x]
               /\ \A h \in Group : t.res[x].against[h] =
                     IF x \in S /\ h = g THEN A[x] ELSE s.res[x].against[h]
    BY <1>3, <1>5, <1>7
  <1> QED
    BY <1>8, <1>9 DEF t, Regrouped

LEMMA ResideFields ==
    ASSUME NEW s \in Books, NEW S, NEW A \in [ReserveId -> Nat], NEW B \in [ReserveId -> Nat]
    PROVE  Resided(s, Reside(s, S, A, B), S, A, B)
  <1> DEFINE t == Reside(s, S, A, B)
             C(q) == [s.res[q] EXCEPT !.outside = A[q]]
             b == [q \in ReserveId |-> IF q \in S THEN B[q] ELSE s.ob.outside[q]]
  <1>1. s.res \in [ReserveId -> ReserveAccount] /\ s.ob \in ObligationAccount
    BY DEF Books
  <1>2. b \in [ReserveId -> Nat]
    BY <1>1 DEF ObligationAccount
  <1>3. ASSUME NEW q \in ReserveId
        PROVE  /\ C(q) \in ReserveAccount /\ C(q).rate = s.res[q].rate
               /\ C(q).status = s.res[q].status /\ C(q).against = s.res[q].against
               /\ C(q).outside = A[q]
    BY <1>1 DEF ReserveAccount
  <1>4. /\ t.res = [q \in ReserveId |-> IF q \in S THEN C(q) ELSE s.res[q]]
        /\ t.ob = [s.ob EXCEPT !.outside = b] /\ t = [res |-> t.res, ob |-> t.ob]
    BY DEF Reside
  <1>5. /\ [s.ob EXCEPT !.outside = b] \in ObligationAccount
        /\ t.ob.outside = b /\ t.ob.group = s.ob.group /\ t.ob.fresh = s.ob.fresh
        /\ t.ob.deposited = s.ob.deposited /\ t.ob.borrowed_sf = s.ob.borrowed_sf
        /\ t.ob.rate = s.ob.rate /\ t.ob.against = s.ob.against
    <2> HIDE DEF b, t
    <2> QED
      BY <1>1, <1>2, <1>4 DEF ObligationAccount
  <1> HIDE DEF t, C
  <1>6. t \in Books
    BY <1>1, <1>3, <1>4, <1>5 DEF Books
  <1>7. \A x \in ReserveId : t.res[x] = IF x \in S THEN C(x) ELSE s.res[x]
    BY <1>4
  <1>8. SameEntries(s, t) /\ SameInside(s, t)
    BY <1>3, <1>5, <1>6, <1>7 DEF SameEntries, SameInside
  <1>9. ASSUME NEW x \in ReserveId
        PROVE  /\ t.ob.outside[x] = IF x \in S THEN B[x] ELSE s.ob.outside[x]
               /\ t.res[x].outside = IF x \in S THEN A[x] ELSE s.res[x].outside
    BY <1>3, <1>5, <1>7
  <1> QED
    BY <1>8, <1>9 DEF t, Resided

LEMMA GroupOf ==
    ASSUME NEW s \in Books
    PROVE  /\ InGroup(s.ob) => s.ob.group \in Group
           /\ ~InGroup(s.ob) => s.ob.group \notin Group
  BY GroupAssumption DEF Books, ObligationAccount, InGroup, ELEVATION_GROUP_NONE

LEMMA BookTypes ==
    ASSUME NEW s \in Books, NEW x \in ReserveId
    PROVE  /\ s.ob.deposited[x] \in Nat /\ s.ob.against[x] \in Nat
           /\ s.ob.borrowed_sf[x] \in Nat /\ s.ob.rate[x] \in Nat /\ s.ob.outside[x] \in Nat
           /\ s.res[x].rate \in Nat \ {0} /\ s.res[x].outside \in Nat
           /\ \A g \in Group : s.res[x].against[g] \in Nat /\ ShareIn(s.ob, x, g) \in Nat
  <1>1. s.ob \in ObligationAccount /\ s.res[x] \in ReserveAccount
    BY DEF Books
  <1> QED
    BY <1>1 DEF ObligationAccount, ReserveAccount, ShareIn

Raised(f, n) == [q \in ReserveId |-> f[q] + n]
Lowered(f, n) == [q \in ReserveId |-> saturating_sub(f[q], n)]
OutsideOf(s) == [q \in ReserveId |-> s.res[q].outside]
AgainstOf(s, g) == [q \in ReserveId |-> s.res[q].against[g]]

LEMMA CounterTypes ==
    ASSUME NEW s \in Books, NEW n \in Nat
    PROVE  /\ OutsideOf(s) \in [ReserveId -> Nat]
           /\ \A g \in Group : AgainstOf(s, g) \in [ReserveId -> Nat]
           /\ s.ob.against \in [ReserveId -> Nat] /\ s.ob.outside \in [ReserveId -> Nat]
           /\ \A f \in [ReserveId -> Nat] : /\ Raised(f, n) \in [ReserveId -> Nat]
                                            /\ Lowered(f, n) \in [ReserveId -> Nat]
  <1>1. s.ob.against \in [ReserveId -> Nat] /\ s.ob.outside \in [ReserveId -> Nat]
    BY DEF Books, ObligationAccount
  <1> QED
    BY <1>1, BookTypes DEF OutsideOf, AgainstOf, Raised, Lowered, saturating_sub

LEMMA OnBorrowFields ==
    ASSUME NEW s \in Books, NEW r \in ReserveId, NEW n \in Nat
    PROVE  /\ InGroup(s.ob) =>
                 Regrouped(s, on_borrow(s, r, n), Deposits(s.ob), s.ob.group,
                           Raised(AgainstOf(s, s.ob.group), n), Raised(s.ob.against, n))
           /\ ~InGroup(s.ob) =>
                 Resided(s, on_borrow(s, r, n), {r}, Raised(OutsideOf(s), n),
                         Raised(s.ob.outside, n))
  <1> DEFINE A == Raised(AgainstOf(s, s.ob.group), n)
             B == Raised(s.ob.against, n)
             C == Raised(OutsideOf(s), n)
             D == Raised(s.ob.outside, n)
  <1>1. CASE InGroup(s.ob)
    <2>1. on_borrow(s, r, n) = Regroup(s, Deposits(s.ob), s.ob.group, A, B)
      BY <1>1 DEF on_borrow, Regroup, Raised, AgainstOf
    <2>2. A \in [ReserveId -> Nat] /\ B \in [ReserveId -> Nat] /\ s.ob.group \in Group
      BY <1>1, GroupOf, CounterTypes
    <2> HIDE DEF A, B
    <2>3. Regrouped(s, on_borrow(s, r, n), Deposits(s.ob), s.ob.group, A, B)
      BY <2>1, <2>2, RegroupFields
    <2> QED
      BY <1>1, <2>3 DEF A, B
  <1>2. CASE ~InGroup(s.ob)
    <2>1. on_borrow(s, r, n) = Reside(s, {r}, C, D)
      <3> DEFINE e == [s.res[r] EXCEPT !.outside = @ + n]
                 o == [s.ob.outside EXCEPT ![r] = @ + n]
      <3>1. on_borrow(s, r, n) = [res |-> [s.res EXCEPT ![r] = e],
                                  ob |-> [s.ob EXCEPT !.outside = o]]
        BY <1>2 DEF on_borrow, Books
      <3>2. [s.res EXCEPT ![r] = e] = [q \in ReserveId |->
                IF q \in {r} THEN [s.res[q] EXCEPT !.outside = C[q]] ELSE s.res[q]]
        BY DEF Books, Raised, OutsideOf
      <3>3. o = [q \in ReserveId |-> IF q \in {r} THEN D[q] ELSE s.ob.outside[q]]
        BY DEF Books, ObligationAccount, Raised
      <3> QED
        BY <3>1, <3>2, <3>3 DEF Reside
    <2>2. C \in [ReserveId -> Nat] /\ D \in [ReserveId -> Nat]
      BY CounterTypes
    <2> HIDE DEF C, D
    <2>3. Resided(s, on_borrow(s, r, n), {r}, C, D)
      BY <2>1, <2>2, ResideFields
    <2> QED
      BY <1>2, <2>3 DEF C, D
  <1> QED
    BY <1>1, <1>2

LEMMA OnRepayFields ==
    ASSUME NEW s \in Books, NEW r \in ReserveId, NEW n \in Nat
    PROVE  /\ InGroup(s.ob) =>
                 Regrouped(s, on_repay(s, r, n), Deposits(s.ob), s.ob.group,
                           Lowered(AgainstOf(s, s.ob.group), n), Lowered(s.ob.against, n))
           /\ ~InGroup(s.ob) =>
                 Resided(s, on_repay(s, r, n), {r}, Lowered(OutsideOf(s), n),
                         Lowered(s.ob.outside, n))
  <1> DEFINE A == Lowered(AgainstOf(s, s.ob.group), n)
             B == Lowered(s.ob.against, n)
             C == Lowered(OutsideOf(s), n)
             D == Lowered(s.ob.outside, n)
  <1>1. CASE InGroup(s.ob)
    <2>1. on_repay(s, r, n) = Regroup(s, Deposits(s.ob), s.ob.group, A, B)
      BY <1>1 DEF on_repay, Regroup, Lowered, AgainstOf
    <2>2. A \in [ReserveId -> Nat] /\ B \in [ReserveId -> Nat] /\ s.ob.group \in Group
      BY <1>1, GroupOf, CounterTypes
    <2> HIDE DEF A, B
    <2>3. Regrouped(s, on_repay(s, r, n), Deposits(s.ob), s.ob.group, A, B)
      BY <2>1, <2>2, RegroupFields
    <2> QED
      BY <1>1, <2>3 DEF A, B
  <1>2. CASE ~InGroup(s.ob)
    <2>1. on_repay(s, r, n) = Reside(s, {r}, C, D)
      <3> DEFINE e == [s.res[r] EXCEPT !.outside = saturating_sub(@, n)]
                 o == [s.ob.outside EXCEPT ![r] = saturating_sub(@, n)]
      <3>1. on_repay(s, r, n) = [res |-> [s.res EXCEPT ![r] = e],
                                 ob |-> [s.ob EXCEPT !.outside = o]]
        BY <1>2 DEF on_repay, Books
      <3>2. [s.res EXCEPT ![r] = e] = [q \in ReserveId |->
                IF q \in {r} THEN [s.res[q] EXCEPT !.outside = C[q]] ELSE s.res[q]]
        BY DEF Books, Lowered, OutsideOf
      <3>3. o = [q \in ReserveId |-> IF q \in {r} THEN D[q] ELSE s.ob.outside[q]]
        BY DEF Books, ObligationAccount, Lowered
      <3> QED
        BY <3>1, <3>2, <3>3 DEF Reside
    <2>2. C \in [ReserveId -> Nat] /\ D \in [ReserveId -> Nat]
      BY CounterTypes
    <2> HIDE DEF C, D
    <2>3. Resided(s, on_repay(s, r, n), {r}, C, D)
      BY <2>1, <2>2, ResideFields
    <2> QED
      BY <1>2, <2>3 DEF C, D
  <1> QED
    BY <1>1, <1>2

\* What Obligation::borrow changes: the debt of r grows by a, and a debt that
\* was not there starts at the reserve's rate.
Owes(s, t, r, a) ==
    /\ t \in Books /\ t.res = s.res
    /\ t.ob.group = s.ob.group /\ t.ob.fresh = s.ob.fresh
    /\ t.ob.deposited = s.ob.deposited /\ t.ob.against = s.ob.against
    /\ t.ob.outside = s.ob.outside
    /\ \A x \in ReserveId :
          /\ t.ob.borrowed_sf[x] = s.ob.borrowed_sf[x] + (IF x = r THEN a ELSE 0)
          /\ t.ob.rate[x] = IF x = r /\ s.ob.borrowed_sf[x] = 0 THEN s.res[r].rate
                                                              ELSE s.ob.rate[x]

\* find_or_add_liquidity_to_borrows, ObligationLiquidity::borrow
LEMMA OwedFields ==
    ASSUME NEW s \in Books, NEW r \in ReserveId, NEW a \in Nat
    PROVE  Owes(s, owed(s, r, a), r, a)
  <1> DEFINE t == owed(s, r, a)
             b == [s.ob.borrowed_sf EXCEPT ![r] = @ + a]
             e == [s.ob.rate EXCEPT ![r] = IF r \in Borrows(s.ob) THEN @ ELSE s.res[r].rate]
             c1 == [s.ob EXCEPT !.borrowed_sf = b]
             c2 == [c1 EXCEPT !.rate = e]
  <1>1. s.ob \in ObligationAccount /\ s.res \in [ReserveId -> ReserveAccount]
    BY DEF Books
  <1>2. b \in [ReserveId -> Nat] /\ e \in [ReserveId -> Nat]
    BY <1>1, BookTypes DEF ObligationAccount
  <1>3. t.ob = c2 /\ t.res = s.res /\ t = [res |-> t.res, ob |-> t.ob]
    <2> DEFINE k1 == [s EXCEPT !.ob = c1]
               k2 == [k1 EXCEPT !.ob = c2]
    <2>1. t = k2
      BY DEF owed, Books, ObligationAccount
    <2> HIDE DEF c1, c2, t
    <2> QED
      BY <2>1 DEF Books
  <1>4. \A x \in ReserveId :
            /\ b[x] = s.ob.borrowed_sf[x] + (IF x = r THEN a ELSE 0)
            /\ e[x] = IF x = r /\ s.ob.borrowed_sf[x] = 0 THEN s.res[r].rate ELSE s.ob.rate[x]
    BY <1>1, BookTypes DEF ObligationAccount, Borrows
  <1> HIDE DEF t, b, e
  <1>5. c1 \in ObligationAccount /\ c1.borrowed_sf = b
    BY <1>1, <1>2 DEF ObligationAccount
  <1>6. /\ c1.group = s.ob.group /\ c1.fresh = s.ob.fresh /\ c1.deposited = s.ob.deposited
        /\ c1.against = s.ob.against /\ c1.outside = s.ob.outside
    BY <1>1 DEF ObligationAccount
  <1> HIDE DEF c1
  <1>7. c2 \in ObligationAccount /\ c2.rate = e /\ c2.borrowed_sf = b
    BY <1>2, <1>5 DEF ObligationAccount
  <1>8. /\ c2.group = s.ob.group /\ c2.fresh = s.ob.fresh /\ c2.deposited = s.ob.deposited
        /\ c2.against = s.ob.against /\ c2.outside = s.ob.outside
    BY <1>5, <1>6 DEF ObligationAccount
  <1> HIDE DEF c2
  <1>9. t \in Books
    BY <1>1, <1>3, <1>7 DEF Books
  <1> QED
    BY <1>3, <1>4, <1>7, <1>8, <1>9 DEF t, Owes

\* Obligation::repay
LEMMA SettledFields ==
    ASSUME NEW s \in Books, NEW r \in ReserveId, NEW a \in Nat, a <= s.ob.borrowed_sf[r]
    PROVE  LET t == settled(s, r, a)
               all == a = s.ob.borrowed_sf[r]
           IN  /\ t \in Books /\ t.res = s.res
               /\ t.ob.group = s.ob.group /\ t.ob.fresh = s.ob.fresh
               /\ t.ob.deposited = s.ob.deposited /\ t.ob.against = s.ob.against
               /\ \A x \in ReserveId :
                     /\ t.ob.borrowed_sf[x] = s.ob.borrowed_sf[x] - (IF x = r THEN a ELSE 0)
                     /\ t.ob.rate[x] = IF x = r /\ all THEN 0 ELSE s.ob.rate[x]
                     /\ t.ob.outside[x] = IF x = r /\ all THEN 0 ELSE s.ob.outside[x]
  <1> DEFINE t == settled(s, r, a)
  <1>1. s.ob \in ObligationAccount /\ s.res \in [ReserveId -> ReserveAccount]
    BY DEF Books
  <1>2. CASE a = s.ob.borrowed_sf[r]
    <2> DEFINE b == [s.ob.borrowed_sf EXCEPT ![r] = 0]
               e == [s.ob.rate EXCEPT ![r] = 0]
               f == [s.ob.outside EXCEPT ![r] = 0]
               c1 == [s.ob EXCEPT !.borrowed_sf = b]
               c2 == [c1 EXCEPT !.rate = e]
               c3 == [c2 EXCEPT !.outside = f]
    <2>1. b \in [ReserveId -> Nat] /\ e \in [ReserveId -> Nat] /\ f \in [ReserveId -> Nat]
      BY <1>1 DEF ObligationAccount
    <2>2. t.ob = c3 /\ t.res = s.res /\ t = [res |-> t.res, ob |-> t.ob]
      <3> DEFINE k1 == [s EXCEPT !.ob = c1]
                 k2 == [k1 EXCEPT !.ob = c2]
                 k3 == [k2 EXCEPT !.ob = c3]
      <3>1. t = k3
        BY <1>2 DEF settled, Books, ObligationAccount
      <3> HIDE DEF c1, c2, c3, t
      <3> QED
        BY <3>1 DEF Books
    <2>3. \A x \in ReserveId :
              /\ b[x] = s.ob.borrowed_sf[x] - (IF x = r THEN a ELSE 0)
              /\ e[x] = IF x = r THEN 0 ELSE s.ob.rate[x]
              /\ f[x] = IF x = r THEN 0 ELSE s.ob.outside[x]
      BY <1>1, <1>2, BookTypes DEF ObligationAccount
    <2> HIDE DEF t, b, e, f
    <2>4. /\ c1 \in ObligationAccount /\ c1.borrowed_sf = b
          /\ c1.group = s.ob.group /\ c1.fresh = s.ob.fresh /\ c1.deposited = s.ob.deposited
          /\ c1.against = s.ob.against
      BY <1>1, <2>1 DEF ObligationAccount
    <2> HIDE DEF c1
    <2>5. /\ c2 \in ObligationAccount /\ c2.rate = e /\ c2.borrowed_sf = b
          /\ c2.group = s.ob.group /\ c2.fresh = s.ob.fresh /\ c2.deposited = s.ob.deposited
          /\ c2.against = s.ob.against
      BY <2>1, <2>4 DEF ObligationAccount
    <2> HIDE DEF c2
    <2>6. /\ c3 \in ObligationAccount /\ c3.rate = e /\ c3.borrowed_sf = b /\ c3.outside = f
          /\ c3.group = s.ob.group /\ c3.fresh = s.ob.fresh /\ c3.deposited = s.ob.deposited
          /\ c3.against = s.ob.against
      BY <2>1, <2>5 DEF ObligationAccount
    <2> HIDE DEF c3
    <2>7. t \in Books
      BY <1>1, <2>2, <2>6 DEF Books
    <2> QED
      BY <1>2, <2>2, <2>3, <2>6, <2>7 DEF t
  <1>3. CASE a # s.ob.borrowed_sf[r]
    <2> DEFINE b == [s.ob.borrowed_sf EXCEPT ![r] = @ - a]
               c1 == [s.ob EXCEPT !.borrowed_sf = b]
    <2>1. b \in [ReserveId -> Nat]
      BY <1>1, BookTypes DEF ObligationAccount
    <2>2. t.ob = c1 /\ t.res = s.res /\ t = [res |-> t.res, ob |-> t.ob]
      BY <1>3 DEF settled, Books, ObligationAccount
    <2>3. \A x \in ReserveId : b[x] = s.ob.borrowed_sf[x] - (IF x = r THEN a ELSE 0)
      BY <1>1, BookTypes DEF ObligationAccount
    <2> HIDE DEF t, b
    <2>4. /\ c1 \in ObligationAccount /\ c1.borrowed_sf = b
          /\ c1.group = s.ob.group /\ c1.fresh = s.ob.fresh /\ c1.deposited = s.ob.deposited
          /\ c1.against = s.ob.against /\ c1.rate = s.ob.rate /\ c1.outside = s.ob.outside
      BY <1>1, <2>1 DEF ObligationAccount
    <2> HIDE DEF c1
    <2>5. t \in Books
      BY <1>1, <2>2, <2>4 DEF Books
    <2> QED
      BY <1>3, <2>2, <2>3, <2>4, <2>5 DEF t
  <1> QED
    BY <1>2, <1>3

\* Obligation::withdraw
LEMMA WithdrawnFields ==
    ASSUME NEW s \in Books, NEW q \in ReserveId, NEW c \in Nat, c <= s.ob.deposited[q]
    PROVE  LET t == withdrawn(s, q, c)
               all == c = s.ob.deposited[q]
           IN  /\ t \in Books /\ t.res = s.res
               /\ t.ob.group = s.ob.group /\ t.ob.fresh = s.ob.fresh
               /\ t.ob.borrowed_sf = s.ob.borrowed_sf /\ t.ob.rate = s.ob.rate
               /\ t.ob.outside = s.ob.outside
               /\ \A x \in ReserveId :
                     /\ t.ob.deposited[x] = s.ob.deposited[x] - (IF x = q THEN c ELSE 0)
                     /\ t.ob.against[x] = IF x = q /\ all THEN 0 ELSE s.ob.against[x]
  <1> DEFINE t == withdrawn(s, q, c)
  <1>1. s.ob \in ObligationAccount /\ s.res \in [ReserveId -> ReserveAccount]
    BY DEF Books
  <1>2. CASE c = s.ob.deposited[q]
    <2> DEFINE b == [s.ob.deposited EXCEPT ![q] = 0]
               e == [s.ob.against EXCEPT ![q] = 0]
               c1 == [s.ob EXCEPT !.deposited = b]
               c2 == [c1 EXCEPT !.against = e]
    <2>1. b \in [ReserveId -> Nat] /\ e \in [ReserveId -> Nat]
      BY <1>1 DEF ObligationAccount
    <2>2. t.ob = c2 /\ t.res = s.res /\ t = [res |-> t.res, ob |-> t.ob]
      <3> DEFINE k1 == [s EXCEPT !.ob = c1]
                 k2 == [k1 EXCEPT !.ob = c2]
      <3>1. t = k2
        BY <1>2 DEF withdrawn, Books, ObligationAccount
      <3> HIDE DEF c1, c2, t
      <3> QED
        BY <3>1 DEF Books
    <2>3. \A x \in ReserveId :
              /\ b[x] = s.ob.deposited[x] - (IF x = q THEN c ELSE 0)
              /\ e[x] = IF x = q THEN 0 ELSE s.ob.against[x]
      BY <1>1, <1>2, BookTypes DEF ObligationAccount
    <2> HIDE DEF t, b, e
    <2>4. /\ c1 \in ObligationAccount /\ c1.deposited = b
          /\ c1.group = s.ob.group /\ c1.fresh = s.ob.fresh /\ c1.borrowed_sf = s.ob.borrowed_sf
          /\ c1.rate = s.ob.rate /\ c1.outside = s.ob.outside
      BY <1>1, <2>1 DEF ObligationAccount
    <2> HIDE DEF c1
    <2>5. /\ c2 \in ObligationAccount /\ c2.deposited = b /\ c2.against = e
          /\ c2.group = s.ob.group /\ c2.fresh = s.ob.fresh /\ c2.borrowed_sf = s.ob.borrowed_sf
          /\ c2.rate = s.ob.rate /\ c2.outside = s.ob.outside
      BY <2>1, <2>4 DEF ObligationAccount
    <2> HIDE DEF c2
    <2>6. t \in Books
      BY <1>1, <2>2, <2>5 DEF Books
    <2> QED
      BY <1>2, <2>2, <2>3, <2>5, <2>6 DEF t
  <1>3. CASE c # s.ob.deposited[q]
    <2> DEFINE b == [s.ob.deposited EXCEPT ![q] = @ - c]
               c1 == [s.ob EXCEPT !.deposited = b]
    <2>1. b \in [ReserveId -> Nat]
      BY <1>1, BookTypes DEF ObligationAccount
    <2>2. t.ob = c1 /\ t.res = s.res /\ t = [res |-> t.res, ob |-> t.ob]
      BY <1>3 DEF withdrawn, Books, ObligationAccount
    <2>3. \A x \in ReserveId : b[x] = s.ob.deposited[x] - (IF x = q THEN c ELSE 0)
      BY <1>1, BookTypes DEF ObligationAccount
    <2> HIDE DEF t, b
    <2>4. /\ c1 \in ObligationAccount /\ c1.deposited = b
          /\ c1.group = s.ob.group /\ c1.fresh = s.ob.fresh /\ c1.borrowed_sf = s.ob.borrowed_sf
          /\ c1.against = s.ob.against /\ c1.rate = s.ob.rate /\ c1.outside = s.ob.outside
      BY <1>1, <2>1 DEF ObligationAccount
    <2> HIDE DEF c1
    <2>5. t \in Books
      BY <1>1, <2>2, <2>4 DEF Books
    <2> QED
      BY <1>3, <2>2, <2>3, <2>4, <2>5 DEF t
  <1> QED
    BY <1>2, <1>3

-----------------------------------------------------------------------------
(* Debts                                                                   *)

\* A borrow of a sf from reserve r.
LEMMA BorrowMoves ==
    ASSUME NEW s, Sane(s), Member(s.ob), Shares(s.ob, 0),
           NEW r \in ReserveId, NEW a \in Nat \ {0},
           InGroup(s.ob) => r = debt_reserve[s.ob.group]
    PROVE  LET t == on_borrow(stale(touched(owed(s, r, a), r)), r, Ceil(a))
           IN  /\ Sane(t) /\ Member(t.ob) /\ Shares(t.ob, 1) /\ Others(s, t)
               /\ t.ob.fresh = FALSE /\ t.ob.deposited = s.ob.deposited
               /\ t.ob.group = s.ob.group
  <1> DEFINE u == owed(s, r, a)
             v == touched(u, r)
             w == stale(v)
             n == Ceil(a)
             t == on_borrow(w, r, n)
  <1>0. a \in Nat
    OBVIOUS
  <1>1. s \in Books /\ n \in Nat
    BY CeilGap DEF Sane
  <1>2. /\ u \in Books /\ u.res = s.res
        /\ u.ob.group = s.ob.group
        /\ u.ob.deposited = s.ob.deposited /\ u.ob.against = s.ob.against
        /\ u.ob.outside = s.ob.outside
        /\ \A x \in ReserveId :
              /\ u.ob.borrowed_sf[x] = s.ob.borrowed_sf[x] + (IF x = r THEN a ELSE 0)
              /\ u.ob.rate[x] = IF x = r /\ s.ob.borrowed_sf[x] = 0 THEN s.res[r].rate
                                                                   ELSE s.ob.rate[x]
    BY <1>1, OwedFields DEF Owes
  <1> HIDE DEF u
  <1>3. Neutral(u, v)
    BY <1>2, TouchedNeutral
  <1>4. v \in Books
    BY <1>3 DEF Neutral
  <1> HIDE DEF v
  <1>5. Neutral(v, w) /\ w.ob.fresh = FALSE
    BY <1>4, StaleNeutral
  <1> HIDE DEF w, n
  <1>6. /\ w \in Books /\ w.ob.fresh = FALSE
        /\ w.ob.group = s.ob.group
        /\ w.ob.deposited = s.ob.deposited /\ w.ob.against = s.ob.against
        /\ w.ob.outside = s.ob.outside
        /\ \A x \in ReserveId :
              /\ w.ob.borrowed_sf[x] = s.ob.borrowed_sf[x] + (IF x = r THEN a ELSE 0)
              /\ w.ob.rate[x] = IF x = r /\ s.ob.borrowed_sf[x] = 0 THEN s.res[r].rate
                                                                   ELSE s.ob.rate[x]
              /\ w.res[x].rate = s.res[x].rate /\ w.res[x].outside = s.res[x].outside
              /\ w.res[x].against = s.res[x].against
    BY <1>2, <1>3, <1>5 DEF Neutral
  <1>7. /\ InGroup(w.ob) => Regrouped(w, t, Deposits(w.ob), w.ob.group,
                                      Raised(AgainstOf(w, w.ob.group), n),
                                      Raised(w.ob.against, n))
        /\ ~InGroup(w.ob) => Resided(w, t, {r}, Raised(OutsideOf(w), n),
                                     Raised(w.ob.outside, n))
    BY <1>1, <1>6, OnBorrowFields
  <1> HIDE DEF t
  <1>8. InGroup(w.ob) <=> InGroup(s.ob)
    BY <1>6 DEF InGroup
  <1>9. SameEntries(w, t)
    BY <1>7 DEF Regrouped, Resided
  <1>10. /\ t \in Books /\ t.ob.fresh = FALSE /\ t.ob.group = s.ob.group
         /\ t.ob.deposited = s.ob.deposited
         /\ \A x \in ReserveId :
               /\ t.ob.borrowed_sf[x] = s.ob.borrowed_sf[x] + (IF x = r THEN a ELSE 0)
               /\ t.ob.rate[x] = IF x = r /\ s.ob.borrowed_sf[x] = 0 THEN s.res[r].rate
                                                                    ELSE s.ob.rate[x]
               /\ t.res[x].rate = s.res[x].rate
    BY <1>6, <1>9 DEF SameEntries
  <1>11. ASSUME NEW x \in ReserveId, InGroup(s.ob)
         PROVE  /\ t.ob.outside[x] = s.ob.outside[x] /\ t.res[x].outside = s.res[x].outside
                /\ t.ob.against[x] = IF s.ob.deposited[x] # 0 THEN s.ob.against[x] + n
                                                             ELSE s.ob.against[x]
                /\ \A g \in Group : t.res[x].against[g] =
                      IF s.ob.deposited[x] # 0 /\ g = s.ob.group THEN s.res[x].against[g] + n
                                                                ELSE s.res[x].against[g]
    BY <1>6, <1>7, <1>8, <1>11
       DEF Regrouped, SameOutside, Raised, AgainstOf, Deposits
  <1>12. ASSUME NEW x \in ReserveId, ~InGroup(s.ob)
         PROVE  /\ t.ob.against[x] = s.ob.against[x] /\ t.res[x].against = s.res[x].against
                /\ t.ob.outside[x] = s.ob.outside[x] + (IF x = r THEN n ELSE 0)
                /\ t.res[x].outside = s.res[x].outside + (IF x = r THEN n ELSE 0)
    BY <1>1, <1>6, <1>7, <1>8, <1>12, BookTypes
       DEF Resided, SameInside, Raised, OutsideOf
  <1>13. InGroup(t.ob) <=> InGroup(s.ob)
    BY <1>10 DEF InGroup
  <1>14. ASSUME NEW x \in ReserveId
         PROVE  /\ Orderly(t.ob, x) /\ Rated(t, x) /\ Covered(t, x)
                /\ t.res[x].outside - t.ob.outside[x] = s.res[x].outside - s.ob.outside[x]
                /\ \A g \in Group : t.res[x].against[g] - ShareIn(t.ob, x, g)
                                      = s.res[x].against[g] - ShareIn(s.ob, x, g)
    <2>1. /\ s.ob.deposited[x] \in Nat /\ s.ob.against[x] \in Nat
          /\ s.ob.borrowed_sf[x] \in Nat /\ s.ob.rate[x] \in Nat /\ s.ob.outside[x] \in Nat
          /\ s.res[x].rate \in Nat \ {0} /\ s.res[x].outside \in Nat
          /\ \A g \in Group : s.res[x].against[g] \in Nat
      BY <1>1, BookTypes
    <2>2. Orderly(s.ob, x) /\ Rated(s, x) /\ Covered(s, x)
      BY DEF Sane
    <2>3. Rated(t, x)
      BY <1>10, <2>1, <2>2 DEF Rated
    <2>4. CASE InGroup(s.ob)
      <3>1. Orderly(t.ob, x)
        BY <1>1, <1>10, <1>11, <1>13, <2>1, <2>2, <2>4 DEF Orderly
      <3>2. \A g \in Group : t.res[x].against[g] - ShareIn(t.ob, x, g)
                               = s.res[x].against[g] - ShareIn(s.ob, x, g)
        BY <1>1, <1>10, <1>11, <2>1, <2>2, <2>4 DEF Orderly, ShareIn
      <3>3. Covered(t, x)
        BY <1>1, <1>10, <1>11, <2>1, <2>2, <2>4 DEF Covered, ShareIn
      <3> QED
        BY <1>11, <2>3, <2>4, <3>1, <3>2, <3>3
    <2>5. CASE ~InGroup(s.ob)
      <3>1. Orderly(t.ob, x)
        BY <1>1, <1>10, <1>12, <1>13, <2>1, <2>2, <2>5 DEF Orderly
      <3>2. \A g \in Group : ShareIn(t.ob, x, g) = ShareIn(s.ob, x, g)
        BY <1>10, <1>12, <2>5 DEF ShareIn
      <3>3. Covered(t, x)
        BY <1>1, <1>12, <2>1, <2>2, <2>5, <3>2 DEF Covered
      <3> QED
        BY <1>1, <1>12, <2>1, <2>3, <2>5, <3>1, <3>2, <3>3
    <2> QED
      BY <2>4, <2>5
  <1>15. Sane(t) /\ Others(s, t)
    BY <1>10, <1>14 DEF Sane, Others
  <1>16. Member(t.ob)
    <2> SUFFICES ASSUME InGroup(s.ob), NEW x \in ReserveId
                 PROVE  /\ t.ob.borrowed_sf[x] # 0 => x = debt_reserve[s.ob.group]
                        /\ s.ob.deposited[x] # 0 => /\ s.ob.group \in elevation_groups[x]
                                                    /\ x # debt_reserve[s.ob.group]
      BY <1>10, <1>13 DEF Member
    <2>1. s.ob.borrowed_sf[x] \in Nat
      BY <1>1, BookTypes
    <2> QED
      BY <1>10, <2>1 DEF Member
  <1>17. Shares(t.ob, 1)
    <2>1. CASE InGroup(s.ob)
      <3> DEFINE d == s.ob.borrowed_sf[r]
      <3>1. d \in Nat
        BY <1>1, BookTypes
      <3>2. Debt(s.ob) = Ceil(d) /\ Debt(t.ob) = Ceil(d + a)
        BY <1>10, <2>1 DEF Debt
      <3> HIDE DEF d
      <3>3. /\ Ceil(d + a) <= Ceil(d) + n /\ Ceil(d) + n <= Ceil(d + a) + 1
            /\ Ceil(d) \in Nat /\ Ceil(d + a) \in Nat
        BY <1>0, <3>1, CeilMore DEF n
      <3> SUFFICES ASSUME NEW x \in ReserveId, s.ob.deposited[x] # 0
                   PROVE  Within(t.ob.against[x], Debt(t.ob), 1)
        BY <1>10, <1>13, <2>1 DEF Shares
      <3>4. Within(s.ob.against[x], Ceil(d), 0) /\ s.ob.against[x] \in Nat
        BY <1>1, <2>1, <3>2, BookTypes DEF Shares
      <3>5. s.ob.against[x] = Ceil(d)
        BY <3>3, <3>4, Exactly
      <3>6. t.ob.against[x] = s.ob.against[x] + n
        BY <1>11, <2>1
      <3> QED
        BY <1>1, <3>2, <3>3, <3>5, <3>6 DEF Within
    <2>2. CASE ~InGroup(s.ob)
      <3> SUFFICES ASSUME NEW x \in ReserveId
                   PROVE  Within(t.ob.outside[x], Ceil(t.ob.borrowed_sf[x]), 1)
        BY <1>13, <2>2 DEF Shares
      <3> DEFINE d == s.ob.borrowed_sf[x]
      <3>1. d \in Nat /\ s.ob.outside[x] \in Nat
        BY <1>1, BookTypes
      <3>2. Within(s.ob.outside[x], Ceil(d), 0)
        BY <2>2 DEF Shares
      <3>3. t.ob.borrowed_sf[x] = d + (IF x = r THEN a ELSE 0)
        BY <1>10
      <3> HIDE DEF d
      <3>4. /\ Ceil(d + a) <= Ceil(d) + n /\ Ceil(d) + n <= Ceil(d + a) + 1
            /\ Ceil(d) \in Nat /\ Ceil(d + a) \in Nat
        BY <1>0, <3>1, CeilMore DEF n
      <3>5. CASE x = r
        <4>1. t.ob.borrowed_sf[x] = d + a /\ t.ob.outside[x] = s.ob.outside[x] + n
          BY <1>12, <2>2, <3>3, <3>5
        <4>2. s.ob.outside[x] = Ceil(d)
          BY <3>1, <3>2, <3>4, Exactly
        <4> QED
          BY <1>1, <3>4, <4>1, <4>2 DEF Within
      <3>6. CASE x # r
        <4>1. t.ob.borrowed_sf[x] = d /\ t.ob.outside[x] = s.ob.outside[x]
          BY <1>12, <2>2, <3>1, <3>3, <3>6
        <4> QED
          BY <3>1, <3>2, <3>4, <4>1 DEF Within
      <3> QED
        BY <3>5, <3>6
    <2> QED
      BY <2>1, <2>2
  <1> QED
    BY <1>10, <1>15, <1>16, <1>17 DEF t, w, v, u, n

\* A repayment of a sf to reserve r, by its owner, a liquidator or a write-off.
LEMMA RepaidMoves ==
    ASSUME NEW s, Sane(s), Member(s.ob), Shares(s.ob, 0),
           NEW r \in ReserveId, NEW a \in Nat \ {0}, a <= s.ob.borrowed_sf[r]
    PROVE  LET t == repaid(s, r, a)
           IN  /\ Sane(t) /\ Member(t.ob) /\ Shares(t.ob, 1) /\ Others(s, t)
               /\ t.ob.fresh = FALSE /\ t.ob.deposited = s.ob.deposited
               /\ t.ob.group = s.ob.group
  <1> DEFINE n == Ceil(a)
             d == s.ob.borrowed_sf[r]
             u == on_repay(s, r, n)
             v == settled(u, r, a)
             w == touched(v, r)
             t == stale(w)
  <1>0. /\ a \in Nat /\ d \in Nat /\ d # 0 /\ a <= d
        /\ \A x \in ReserveId : x = r => s.ob.borrowed_sf[x] = d
    BY BookTypes DEF Sane
  <1>1. s \in Books /\ n \in Nat
    BY CeilGap DEF Sane
  <1>2. t = repaid(s, r, a)
    BY DEF repaid
  <1>3. /\ InGroup(s.ob) => Regrouped(s, u, Deposits(s.ob), s.ob.group,
                                      Lowered(AgainstOf(s, s.ob.group), n),
                                      Lowered(s.ob.against, n))
        /\ ~InGroup(s.ob) => Resided(s, u, {r}, Lowered(OutsideOf(s), n),
                                     Lowered(s.ob.outside, n))
    BY <1>1, OnRepayFields
  <1> HIDE DEF u, n
  <1>4. SameEntries(s, u)
    BY <1>3 DEF Regrouped, Resided
  <1>5. /\ u \in Books /\ u.ob.group = s.ob.group /\ u.ob.deposited = s.ob.deposited
        /\ u.ob.borrowed_sf = s.ob.borrowed_sf /\ u.ob.rate = s.ob.rate
        /\ \A x \in ReserveId : u.res[x].rate = s.res[x].rate
    BY <1>4 DEF SameEntries
  <1>6. /\ v \in Books /\ v.res = u.res
        /\ v.ob.group = s.ob.group
        /\ v.ob.deposited = s.ob.deposited /\ v.ob.against = u.ob.against
        /\ \A x \in ReserveId :
              /\ v.ob.borrowed_sf[x] = s.ob.borrowed_sf[x] - (IF x = r THEN a ELSE 0)
              /\ v.ob.rate[x] = IF x = r /\ a = d THEN 0 ELSE s.ob.rate[x]
              /\ v.ob.outside[x] = IF x = r /\ a = d THEN 0 ELSE u.ob.outside[x]
    BY <1>0, <1>5, SettledFields
  <1> HIDE DEF v
  <1>7. Neutral(v, w)
    BY <1>6, TouchedNeutral
  <1>8. w \in Books
    BY <1>7 DEF Neutral
  <1> HIDE DEF w
  <1>9. Neutral(w, t) /\ t.ob.fresh = FALSE
    BY <1>8, StaleNeutral
  <1> HIDE DEF t, d
  <1>10. /\ t \in Books /\ t.ob.fresh = FALSE /\ t.ob.group = s.ob.group
         /\ t.ob.deposited = s.ob.deposited /\ t.ob.against = u.ob.against
         /\ \A x \in ReserveId :
               /\ t.ob.borrowed_sf[x] = s.ob.borrowed_sf[x] - (IF x = r THEN a ELSE 0)
               /\ t.ob.rate[x] = IF x = r /\ a = d THEN 0 ELSE s.ob.rate[x]
               /\ t.ob.outside[x] = IF x = r /\ a = d THEN 0 ELSE u.ob.outside[x]
               /\ t.res[x].rate = s.res[x].rate /\ t.res[x].outside = u.res[x].outside
               /\ t.res[x].against = u.res[x].against
    BY <1>5, <1>6, <1>7, <1>9 DEF Neutral
  <1>11. /\ n <= Ceil(d) /\ Ceil(d) \in Nat /\ Ceil(d - a) \in Nat /\ d - a \in Nat
         /\ Within(Ceil(d) - n, Ceil(d - a), 1)
    BY <1>0, CeilRest DEF n
  <1>12. InGroup(s.ob) => r = debt_reserve[s.ob.group] /\ Debt(s.ob) = Ceil(d)
    BY <1>0 DEF Member, Debt
  <1>13. ASSUME NEW x \in ReserveId
         PROVE  /\ s.ob.deposited[x] \in Nat /\ s.ob.against[x] \in Nat
                /\ s.ob.borrowed_sf[x] \in Nat /\ s.ob.rate[x] \in Nat /\ s.ob.outside[x] \in Nat
                /\ s.res[x].rate \in Nat \ {0} /\ s.res[x].outside \in Nat
                /\ \A g \in Group : s.res[x].against[g] \in Nat
                /\ Orderly(s.ob, x) /\ Rated(s, x) /\ Covered(s, x)
    BY <1>1, BookTypes DEF Sane
  \* In a group every share is the debt, so it covers what is taken off.
  <1>14. ASSUME NEW x \in ReserveId, InGroup(s.ob)
         PROVE  /\ t.ob.outside[x] = 0 /\ s.ob.outside[x] = 0
                /\ t.res[x].outside = s.res[x].outside
                /\ s.ob.deposited[x] # 0 => s.ob.against[x] = Ceil(d)
                /\ t.ob.against[x] = IF s.ob.deposited[x] # 0 THEN s.ob.against[x] - n
                                                             ELSE s.ob.against[x]
                /\ \A g \in Group : t.res[x].against[g] =
                      IF s.ob.deposited[x] # 0 /\ g = s.ob.group THEN s.res[x].against[g] - n
                                                                ELSE s.res[x].against[g]
    <2>1. s.ob.outside[x] = 0
      BY <1>13, <1>14 DEF Orderly
    <2>2. /\ u.ob.outside[x] = s.ob.outside[x] /\ u.res[x].outside = s.res[x].outside
          /\ u.ob.against[x] = IF s.ob.deposited[x] # 0 THEN saturating_sub(s.ob.against[x], n)
                                                       ELSE s.ob.against[x]
          /\ \A g \in Group : u.res[x].against[g] =
                IF s.ob.deposited[x] # 0 /\ g = s.ob.group
                THEN saturating_sub(s.res[x].against[g], n) ELSE s.res[x].against[g]
      BY <1>3, <1>14 DEF Regrouped, SameOutside, Lowered, AgainstOf, Deposits
    <2>3. s.ob.deposited[x] # 0 => s.ob.against[x] = Ceil(d)
      <3>1. s.ob.deposited[x] # 0 => Within(s.ob.against[x], Ceil(d), 0)
        BY <1>12, <1>14 DEF Shares
      <3> QED
        BY <1>11, <1>13, <3>1, Exactly
    <2>4. s.res[x].against[s.ob.group] >= s.ob.against[x]
      <3>1. s.ob.group \in Group /\ ShareIn(s.ob, x, s.ob.group) = s.ob.against[x]
        BY <1>1, <1>14, GroupOf DEF ShareIn
      <3> QED
        BY <1>13, <3>1 DEF Covered
    <2>5. /\ t.ob.outside[x] = 0 /\ t.res[x].outside = s.res[x].outside
          /\ t.ob.against[x] = u.ob.against[x] /\ t.res[x].against = u.res[x].against
      BY <1>10, <2>1, <2>2
    <2> QED
      BY <1>1, <1>11, <1>13, <2>1, <2>2, <2>3, <2>4, <2>5 DEF saturating_sub
  <1>15. ASSUME NEW x \in ReserveId, ~InGroup(s.ob)
         PROVE  /\ t.ob.against[x] = s.ob.against[x] /\ t.res[x].against = s.res[x].against
                /\ s.ob.outside[x] = Ceil(s.ob.borrowed_sf[x])
                /\ t.ob.outside[x] = s.ob.outside[x] - (IF x = r THEN n ELSE 0)
                /\ t.res[x].outside = s.res[x].outside - (IF x = r THEN n ELSE 0)
    <2>1. /\ u.ob.against[x] = s.ob.against[x] /\ u.res[x].against = s.res[x].against
          /\ u.ob.outside[x] = IF x = r THEN saturating_sub(s.ob.outside[x], n)
                                        ELSE s.ob.outside[x]
          /\ u.res[x].outside = IF x = r THEN saturating_sub(s.res[x].outside, n)
                                         ELSE s.res[x].outside
      BY <1>3, <1>15 DEF Resided, SameInside, Lowered, OutsideOf
    <2>2. s.ob.outside[x] = Ceil(s.ob.borrowed_sf[x])
      <3>1. Within(s.ob.outside[x], Ceil(s.ob.borrowed_sf[x]), 0)
        BY <1>15 DEF Shares
      <3> QED
        BY <1>13, <3>1, Exactly, CeilGap
    <2>3. s.ob.outside[x] <= s.res[x].outside
      BY <1>13 DEF Covered
    <2>4. CASE x # r
      BY <1>10, <1>13, <2>1, <2>2, <2>4
    <2>5. CASE x = r
      <3>1. s.ob.outside[x] = Ceil(d)
        BY <1>0, <2>2, <2>5
      <3>2. /\ u.ob.outside[x] = s.ob.outside[x] - n /\ u.res[x].outside = s.res[x].outside - n
        BY <1>1, <1>11, <1>13, <2>1, <2>3, <2>5, <3>1 DEF saturating_sub
      <3>3. a = d => s.ob.outside[x] - n = 0
        BY <1>11, <3>1 DEF n
      <3> QED
        BY <1>10, <2>1, <2>2, <2>5, <3>2, <3>3
    <2> QED
      BY <2>4, <2>5
  <1>16. InGroup(t.ob) <=> InGroup(s.ob)
    BY <1>10 DEF InGroup
  <1>17. ASSUME NEW x \in ReserveId
         PROVE  /\ Orderly(t.ob, x) /\ Rated(t, x) /\ Covered(t, x)
                /\ t.res[x].outside - t.ob.outside[x] = s.res[x].outside - s.ob.outside[x]
                /\ \A g \in Group : t.res[x].against[g] - ShareIn(t.ob, x, g)
                                      = s.res[x].against[g] - ShareIn(s.ob, x, g)
    <2>1. Rated(t, x)
      BY <1>0, <1>10, <1>13 DEF Rated
    <2>2. CASE InGroup(s.ob)
      <3>1. Orderly(t.ob, x)
        BY <1>10, <1>13, <1>14, <1>16, <2>2 DEF Orderly
      <3>2. \A g \in Group : t.res[x].against[g] - ShareIn(t.ob, x, g)
                               = s.res[x].against[g] - ShareIn(s.ob, x, g)
        BY <1>1, <1>10, <1>13, <1>14, <2>2 DEF Orderly, ShareIn
      <3>3. Covered(t, x)
        BY <1>1, <1>10, <1>13, <1>14, <2>2 DEF Covered, ShareIn, Orderly
      <3> QED
        BY <1>14, <2>1, <2>2, <3>1, <3>2, <3>3
    <2>3. CASE ~InGroup(s.ob)
      <3>1. Orderly(t.ob, x)
        <4>1. t.ob.borrowed_sf[x] = 0 => t.ob.outside[x] = 0
          <5>1. CASE x = r
            <6>1. t.ob.borrowed_sf[x] = 0 => a = d
              BY <1>0, <1>10, <5>1
            <6> QED
              BY <1>10, <5>1, <6>1
          <5>2. CASE x # r
            BY <1>10, <1>13, <1>15, <2>3, <5>2 DEF Orderly
          <5> QED
            BY <5>1, <5>2
        <4> QED
          BY <1>10, <1>13, <1>15, <1>16, <2>3, <4>1 DEF Orderly
      <3>2. \A g \in Group : ShareIn(t.ob, x, g) = ShareIn(s.ob, x, g)
        BY <1>10, <1>15, <2>3 DEF ShareIn
      <3>3. Covered(t, x)
        BY <1>1, <1>13, <1>15, <2>3, <3>2 DEF Covered
      <3> QED
        BY <1>1, <1>13, <1>15, <2>1, <2>3, <3>1, <3>2, <3>3
    <2> QED
      BY <2>2, <2>3
  <1>18. Sane(t) /\ Others(s, t)
    BY <1>10, <1>17 DEF Sane, Others
  <1>19. Member(t.ob)
    <2> SUFFICES ASSUME InGroup(s.ob), NEW x \in ReserveId
                 PROVE  /\ t.ob.borrowed_sf[x] # 0 => x = debt_reserve[s.ob.group]
                        /\ s.ob.deposited[x] # 0 => /\ s.ob.group \in elevation_groups[x]
                                                    /\ x # debt_reserve[s.ob.group]
      BY <1>10, <1>16 DEF Member
    <2> QED
      BY <1>10, <1>12, <1>13 DEF Member
  <1>20. Shares(t.ob, 1)
    <2>1. CASE InGroup(s.ob)
      <3>1. t.ob.borrowed_sf[r] = d - a
        BY <1>0, <1>10
      <3>2. Debt(t.ob) = Ceil(d - a)
        BY <1>10, <1>12, <2>1, <3>1 DEF Debt
      <3> SUFFICES ASSUME NEW x \in ReserveId, s.ob.deposited[x] # 0
                   PROVE  Within(t.ob.against[x], Debt(t.ob), 1)
        BY <1>10, <1>16, <2>1 DEF Shares
      <3> QED
        BY <1>11, <1>14, <2>1, <3>2
    <2>2. CASE ~InGroup(s.ob)
      <3> SUFFICES ASSUME NEW x \in ReserveId
                   PROVE  Within(t.ob.outside[x], Ceil(t.ob.borrowed_sf[x]), 1)
        BY <1>16, <2>2 DEF Shares
      <3>1. CASE x = r
        <4>1. t.ob.borrowed_sf[x] = d - a /\ t.ob.outside[x] = Ceil(d) - n
          BY <1>0, <1>10, <1>15, <2>2, <3>1
        <4> QED
          BY <1>11, <4>1
      <3>2. CASE x # r
        <4>1. t.ob.borrowed_sf[x] = s.ob.borrowed_sf[x]
              /\ t.ob.outside[x] = Ceil(s.ob.borrowed_sf[x])
          BY <1>10, <1>13, <1>15, <2>2, <3>2
        <4> QED
          BY <1>13, <4>1, Exactly, CeilGap
      <3> QED
        BY <3>1, <3>2
    <2> QED
      BY <2>1, <2>2
  <1> QED
    BY <1>2, <1>10, <1>18, <1>19, <1>20

-----------------------------------------------------------------------------
(* Collateral                                                              *)

\* The members of a group owe in one reserve only.
LEMMA SingleAmount ==
    ASSUME NEW ob, Member(ob), InGroup(ob), debt_reserve[ob.group] \in ReserveId
    PROVE  borrowed_amount(ob) = Debt(ob)
  <1> DEFINE d == debt_reserve[ob.group]
  <1>1. \A x \in Borrows(ob) : x = d
    BY DEF Member, Borrows
  <1>2. CASE Borrows(ob) = {}
    <2>1. ob.borrowed_sf[d] = 0
      BY <1>2 DEF Borrows
    <2> QED
      BY <1>2, <2>1, CeilZero DEF borrowed_amount, Debt
  <1>3. CASE Borrows(ob) # {}
    <2>1. (CHOOSE r \in Borrows(ob) : TRUE) = d
      BY <1>1, <1>3
    <2> QED
      BY <1>3, <2>1 DEF borrowed_amount, Debt
  <1> QED
    BY <1>2, <1>3

LEMMA DebtType ==
    ASSUME NEW s \in Books, InGroup(s.ob)
    PROVE  debt_reserve[s.ob.group] \in ReserveId /\ Debt(s.ob) \in Nat
  <1>1. debt_reserve[s.ob.group] \in ReserveId
    BY GroupOf, GroupAssumption
  <1> QED
    BY <1>1, BookTypes, CeilGap DEF Debt

LEMMA StaleIdle ==
    ASSUME NEW s \in Books, s.ob.fresh = FALSE
    PROVE  stale(s) = s
  <1>1. [s.ob EXCEPT !.fresh = FALSE] = s.ob
    BY DEF Books, ObligationAccount
  <1> QED
    BY <1>1 DEF stale, Books

\* Collateral is added to an entry.
LEMMA AddedFields ==
    ASSUME NEW s \in Books, NEW r \in ReserveId, NEW c \in Nat
    PROVE  LET t == [s EXCEPT !.ob.deposited[r] = @ + c]
           IN  /\ t \in Books /\ t.res = s.res
               /\ t.ob.group = s.ob.group /\ t.ob.fresh = s.ob.fresh
               /\ t.ob.borrowed_sf = s.ob.borrowed_sf /\ t.ob.rate = s.ob.rate
               /\ t.ob.outside = s.ob.outside /\ t.ob.against = s.ob.against
               /\ \A x \in ReserveId :
                     t.ob.deposited[x] = s.ob.deposited[x] + (IF x = r THEN c ELSE 0)
  <1> DEFINE t == [s EXCEPT !.ob.deposited[r] = @ + c]
             b == [s.ob.deposited EXCEPT ![r] = @ + c]
             c1 == [s.ob EXCEPT !.deposited = b]
  <1>1. s.ob \in ObligationAccount /\ s.res \in [ReserveId -> ReserveAccount]
    BY DEF Books
  <1>2. b \in [ReserveId -> Nat]
    BY <1>1, BookTypes DEF ObligationAccount
  <1>3. t.ob = c1 /\ t.res = s.res /\ t = [res |-> t.res, ob |-> t.ob]
    BY DEF Books, ObligationAccount
  <1>4. \A x \in ReserveId : b[x] = s.ob.deposited[x] + (IF x = r THEN c ELSE 0)
    BY <1>1, BookTypes DEF ObligationAccount
  <1> HIDE DEF t, b
  <1>5. /\ c1 \in ObligationAccount /\ c1.deposited = b
        /\ c1.group = s.ob.group /\ c1.fresh = s.ob.fresh /\ c1.borrowed_sf = s.ob.borrowed_sf
        /\ c1.against = s.ob.against /\ c1.rate = s.ob.rate /\ c1.outside = s.ob.outside
    BY <1>1, <1>2 DEF ObligationAccount
  <1> HIDE DEF c1
  <1>6. t \in Books
    BY <1>1, <1>3, <1>5 DEF Books
  <1> QED
    BY <1>3, <1>4, <1>5, <1>6 DEF t

\* A new collateral of a group's member backs its whole debt.
LEMMA OnNewDepositFields ==
    ASSUME NEW s \in Books, NEW r \in ReserveId, InGroup(s.ob), borrowed_amount(s.ob) \in Nat
    PROVE  LET t == on_new_deposit(s, r)
               g == s.ob.group
               n == borrowed_amount(s.ob)
           IN  Regrouped(s, t, {r}, g, Raised(AgainstOf(s, g), n), [x \in ReserveId |-> n])
  <1> DEFINE t == on_new_deposit(s, r)
             g == s.ob.group
             n == borrowed_amount(s.ob)
             A == Raised(AgainstOf(s, g), n)
             B == [x \in ReserveId |-> n]
             e == [s.res[r] EXCEPT !.against[g] = @ + n]
             o == [s.ob.against EXCEPT ![r] = n]
  <1>1. g \in Group /\ A \in [ReserveId -> Nat] /\ B \in [ReserveId -> Nat]
    BY GroupOf, CounterTypes
  <1>2. t = [res |-> [s.res EXCEPT ![r] = e], ob |-> [s.ob EXCEPT !.against = o]]
    BY DEF on_new_deposit, Books
  <1>3. [s.res EXCEPT ![r] = e] = [q \in ReserveId |->
            IF q \in {r} THEN [s.res[q] EXCEPT !.against[g] = A[q]] ELSE s.res[q]]
    BY <1>1 DEF Books, Raised, AgainstOf
  <1>4. o = [q \in ReserveId |-> IF q \in {r} THEN B[q] ELSE s.ob.against[q]]
    BY DEF Books, ObligationAccount
  <1>5. t = Regroup(s, {r}, g, A, B)
    BY <1>2, <1>3, <1>4 DEF Regroup
  <1> HIDE DEF t, A, B
  <1>6. Regrouped(s, t, {r}, g, A, B)
    BY <1>1, <1>5, RegroupFields
  <1> QED
    BY <1>6 DEF t, A, B

\* A deposit of c into reserve r.
LEMMA DepositMoves ==
    ASSUME NEW s, Sane(s), Member(s.ob), Shares(s.ob, 0),
           NEW r \in ReserveId, NEW c \in Nat \ {0},
           InGroup(s.ob) => s.ob.group \in elevation_groups[r],
           InGroup(s.ob) /\ s.ob.deposited[r] = 0 => r # debt_reserve[s.ob.group]
    PROVE  LET t == deposit_obligation_collateral(s, r, c)
           IN  /\ Sane(t) /\ Member(t.ob) /\ Shares(t.ob, 0) /\ Others(s, t)
               /\ t.ob.fresh = FALSE /\ t.ob.group = s.ob.group
               /\ \A x \in ReserveId :
                     t.ob.deposited[x] = s.ob.deposited[x] + (IF x = r THEN c ELSE 0)
  <1> DEFINE new == r \notin Deposits(s.ob)
             u == IF r \in Deposits(s.ob) THEN s ELSE on_new_deposit(s, r)
             v == [u EXCEPT !.ob.deposited[r] = @ + c]
             w == touched(v, r)
             t == stale(w)
             n == Debt(s.ob)
  <1>0. t = deposit_obligation_collateral(s, r, c)
    BY DEF deposit_obligation_collateral
  <1>1. s \in Books /\ (new <=> s.ob.deposited[r] = 0)
    BY DEF Sane, Deposits
  <1> HIDE DEF new
  <1>2. ASSUME NEW x \in ReserveId
         PROVE  /\ s.ob.deposited[x] \in Nat /\ s.ob.against[x] \in Nat
                /\ s.ob.borrowed_sf[x] \in Nat /\ s.ob.rate[x] \in Nat /\ s.ob.outside[x] \in Nat
                /\ s.res[x].rate \in Nat \ {0} /\ s.res[x].outside \in Nat
                /\ \A g \in Group : s.res[x].against[g] \in Nat
                /\ Orderly(s.ob, x) /\ Rated(s, x) /\ Covered(s, x)
    BY <1>1, BookTypes DEF Sane
  <1>3. InGroup(s.ob) => n \in Nat /\ borrowed_amount(s.ob) = n
    BY <1>1, DebtType, SingleAmount
  <1> HIDE DEF n
  <1>4. /\ SameEntries(s, u) /\ SameOutside(s, u)
        /\ \A x \in ReserveId :
              /\ u.ob.against[x] = IF InGroup(s.ob) /\ new /\ x = r THEN n ELSE s.ob.against[x]
              /\ \A g \in Group : u.res[x].against[g] =
                    IF InGroup(s.ob) /\ new /\ x = r /\ g = s.ob.group
                    THEN s.res[x].against[g] + n ELSE s.res[x].against[g]
    <2>1. CASE InGroup(s.ob) /\ new
      <3>1. Regrouped(s, u, {r}, s.ob.group, Raised(AgainstOf(s, s.ob.group), n),
                      [x \in ReserveId |-> n])
        BY <1>1, <1>3, <2>1, OnNewDepositFields DEF new
      <3> HIDE DEF u
      <3> QED
        BY <2>1, <3>1 DEF Regrouped, Raised, AgainstOf
    <2>2. CASE ~(InGroup(s.ob) /\ new)
      <3>1. u = s
        BY <2>2 DEF new, on_new_deposit
      <3> HIDE DEF u
      <3> QED
        BY <1>1, <2>2, <3>1 DEF SameEntries, SameOutside
    <2> QED
      BY <2>1, <2>2
  <1>5. u \in Books
    BY <1>4 DEF SameEntries
  <1> HIDE DEF u
  <1>6. /\ v \in Books /\ v.res = u.res
        /\ v.ob.group = u.ob.group
        /\ v.ob.borrowed_sf = u.ob.borrowed_sf /\ v.ob.rate = u.ob.rate
        /\ v.ob.outside = u.ob.outside /\ v.ob.against = u.ob.against
        /\ \A x \in ReserveId :
              v.ob.deposited[x] = u.ob.deposited[x] + (IF x = r THEN c ELSE 0)
    BY <1>5, AddedFields
  <1> HIDE DEF v
  <1>7. Neutral(v, w)
    BY <1>6, TouchedNeutral
  <1>8. w \in Books
    BY <1>7 DEF Neutral
  <1> HIDE DEF w
  <1>9. Neutral(w, t) /\ t.ob.fresh = FALSE
    BY <1>8, StaleNeutral
  <1> HIDE DEF t
  <1>10. /\ t \in Books /\ t.ob.fresh = FALSE /\ t.ob.group = s.ob.group
         /\ t.ob.borrowed_sf = s.ob.borrowed_sf /\ t.ob.rate = s.ob.rate
         /\ t.ob.outside = s.ob.outside
         /\ \A x \in ReserveId :
               /\ t.ob.deposited[x] = s.ob.deposited[x] + (IF x = r THEN c ELSE 0)
               /\ t.ob.against[x] = u.ob.against[x]
               /\ t.res[x].rate = s.res[x].rate /\ t.res[x].outside = s.res[x].outside
               /\ t.res[x].against = u.res[x].against
    BY <1>4, <1>6, <1>7, <1>9 DEF Neutral, SameEntries, SameOutside
  <1>11. \A x \in ReserveId :
            /\ t.ob.against[x] = IF InGroup(s.ob) /\ new /\ x = r THEN n ELSE s.ob.against[x]
            /\ \A g \in Group : t.res[x].against[g] =
                  IF InGroup(s.ob) /\ new /\ x = r /\ g = s.ob.group
                  THEN s.res[x].against[g] + n ELSE s.res[x].against[g]
    BY <1>4, <1>10
  <1>12. InGroup(t.ob) <=> InGroup(s.ob)
    BY <1>10 DEF InGroup
  <1>13. ASSUME NEW x \in ReserveId
         PROVE  /\ Orderly(t.ob, x) /\ Rated(t, x) /\ Covered(t, x)
                /\ t.res[x].outside - t.ob.outside[x] = s.res[x].outside - s.ob.outside[x]
                /\ \A g \in Group : t.res[x].against[g] - ShareIn(t.ob, x, g)
                                      = s.res[x].against[g] - ShareIn(s.ob, x, g)
    <2>1. Rated(t, x)
      BY <1>2, <1>10 DEF Rated
    <2>2. CASE InGroup(s.ob) /\ new /\ x = r
      <3>1. s.ob.against[x] = 0 /\ n \in Nat /\ s.ob.deposited[x] = 0
        BY <1>1, <1>2, <1>3, <2>2 DEF Orderly
      <3>2. t.ob.against[x] = n /\ t.ob.deposited[x] # 0
        BY <1>10, <1>11, <2>2, <3>1
      <3>3. \A g \in Group : t.res[x].against[g] =
               IF g = s.ob.group THEN s.res[x].against[g] + n ELSE s.res[x].against[g]
        BY <1>11, <2>2
      <3>4. Orderly(t.ob, x)
        BY <1>2, <1>10, <1>12, <2>2, <3>2 DEF Orderly
      <3>5. \A g \in Group : t.res[x].against[g] - ShareIn(t.ob, x, g)
                               = s.res[x].against[g] - ShareIn(s.ob, x, g)
        BY <1>2, <1>10, <3>1, <3>2, <3>3 DEF ShareIn
      <3>6. Covered(t, x)
        BY <1>2, <1>10, <3>1, <3>2, <3>3 DEF Covered, ShareIn
      <3> QED
        BY <1>10, <2>1, <3>4, <3>5, <3>6
    <2>3. CASE ~(InGroup(s.ob) /\ new /\ x = r)
      <3>1. /\ t.ob.against[x] = s.ob.against[x]
            /\ \A g \in Group : t.res[x].against[g] = s.res[x].against[g]
        BY <1>11, <2>3
      <3>2. s.ob.deposited[x] # 0 => t.ob.deposited[x] # 0
        BY <1>2, <1>10
      <3>3. Orderly(t.ob, x)
        BY <1>2, <1>10, <1>12, <3>1, <3>2 DEF Orderly
      <3>4. \A g \in Group : ShareIn(t.ob, x, g) = ShareIn(s.ob, x, g)
        BY <1>10, <3>1 DEF ShareIn
      <3> QED
        BY <1>2, <1>10, <2>1, <3>1, <3>3, <3>4 DEF Covered
    <2> QED
      BY <2>2, <2>3
  <1>14. Sane(t) /\ Others(s, t)
    BY <1>10, <1>13 DEF Sane, Others
  <1>15. Member(t.ob)
    <2> SUFFICES ASSUME InGroup(s.ob), NEW x \in ReserveId
                 PROVE  /\ s.ob.borrowed_sf[x] # 0 => x = debt_reserve[s.ob.group]
                        /\ t.ob.deposited[x] # 0 => /\ s.ob.group \in elevation_groups[x]
                                                    /\ x # debt_reserve[s.ob.group]
      BY <1>10, <1>12 DEF Member
    <2> QED
      BY <1>2, <1>10 DEF Member
  <1>16. Shares(t.ob, 0)
    <2>1. CASE InGroup(s.ob)
      <3>1. Debt(t.ob) = n
        BY <1>10 DEF Debt, n
      <3> SUFFICES ASSUME NEW x \in ReserveId, t.ob.deposited[x] # 0
                   PROVE  Within(t.ob.against[x], n, 0)
        BY <1>12, <2>1, <3>1 DEF Shares
      <3>2. CASE new /\ x = r
        BY <1>3, <1>11, <2>1, <3>2, Exactly
      <3>3. CASE ~(new /\ x = r)
        <4>1. s.ob.deposited[x] # 0
          BY <1>1, <1>2, <1>10, <3>3
        <4>2. Within(s.ob.against[x], n, 0)
          BY <2>1, <4>1 DEF Shares, n
        <4> QED
          BY <1>11, <3>3, <4>2
      <3> QED
        BY <3>2, <3>3
    <2>2. CASE ~InGroup(s.ob)
      BY <1>10, <1>12, <2>2 DEF Shares
    <2> QED
      BY <2>1, <2>2
  <1> QED
    BY <1>0, <1>10, <1>14, <1>15, <1>16

\* A collateral that is gone takes the obligation's share out of its counter.
LEMMA OnFullWithdrawFields ==
    ASSUME NEW s \in Books, NEW q \in ReserveId, NEW n \in Nat, InGroup(s.ob)
    PROVE  Regrouped(s, on_full_withdraw(s, q, n), {q}, s.ob.group,
                     Lowered(AgainstOf(s, s.ob.group), n), s.ob.against)
  <1> DEFINE t == on_full_withdraw(s, q, n)
             g == s.ob.group
             A == Lowered(AgainstOf(s, g), n)
             e == [s.res[q] EXCEPT !.against[g] = saturating_sub(@, n)]
             o == [x \in ReserveId |-> IF x \in {q} THEN s.ob.against[x] ELSE s.ob.against[x]]
  <1>1. g \in Group /\ A \in [ReserveId -> Nat] /\ s.ob.against \in [ReserveId -> Nat]
    BY GroupOf, CounterTypes
  <1>2. t = [res |-> [s.res EXCEPT ![q] = e], ob |-> s.ob]
    BY DEF on_full_withdraw, Books
  <1>3. [s.res EXCEPT ![q] = e] = [x \in ReserveId |->
            IF x \in {q} THEN [s.res[x] EXCEPT !.against[g] = A[x]] ELSE s.res[x]]
    BY <1>1 DEF Books, Lowered, AgainstOf
  <1>4. o = s.ob.against
    BY <1>1
  <1>5. [s.ob EXCEPT !.against = s.ob.against] = s.ob
    BY DEF Books, ObligationAccount
  <1>6. t = Regroup(s, {q}, g, A, s.ob.against)
    BY <1>2, <1>3, <1>4, <1>5 DEF Regroup
  <1> HIDE DEF t, A
  <1>7. Regrouped(s, t, {q}, g, A, s.ob.against)
    BY <1>1, <1>6, RegroupFields
  <1> QED
    BY <1>7 DEF t, A

\* t has c less of the collateral q than s, and the same debts.
Drawn(s, t, q, c) ==
    /\ t.ob.fresh = FALSE /\ t.ob.group = s.ob.group
    /\ t.ob.borrowed_sf = s.ob.borrowed_sf
    /\ \A x \in ReserveId :
          t.ob.deposited[x] = s.ob.deposited[x] - (IF x = q THEN c ELSE 0)

\* A withdrawal of c from reserve q.
LEMMA WithdrawMoves ==
    ASSUME NEW s, Sane(s), Member(s.ob), NEW k \in {0, 1}, Shares(s.ob, k),
           NEW q \in ReserveId, NEW c \in Nat \ {0}, c <= s.ob.deposited[q]
    PROVE  LET t == withdraw_obligation_collateral(s, q, c)
           IN  /\ Sane(t) /\ Member(t.ob) /\ Shares(t.ob, k) /\ Others(s, t)
               /\ Drawn(s, t, q, c)
  <1> DEFINE all == c = s.ob.deposited[q]
             u == withdrawn(s, q, c)
             v == stale(u)
             n == s.ob.against[q]
             t == IF q \in Deposits(v.ob) THEN v ELSE on_full_withdraw(v, q, n)
  <1>0. t = withdraw_obligation_collateral(s, q, c)
    BY DEF withdraw_obligation_collateral
  <1>1. s \in Books /\ c \in Nat
    BY DEF Sane
  <1>2. ASSUME NEW x \in ReserveId
         PROVE  /\ s.ob.deposited[x] \in Nat /\ s.ob.against[x] \in Nat
                /\ s.ob.borrowed_sf[x] \in Nat /\ s.ob.rate[x] \in Nat /\ s.ob.outside[x] \in Nat
                /\ s.res[x].rate \in Nat \ {0} /\ s.res[x].outside \in Nat
                /\ \A g \in Group : s.res[x].against[g] \in Nat
                /\ Orderly(s.ob, x) /\ Rated(s, x) /\ Covered(s, x)
    BY <1>1, BookTypes DEF Sane
  <1>3. n \in Nat /\ (all <=> c = s.ob.deposited[q])
    BY <1>2
  <1> HIDE DEF n, all
  <1>4. /\ u \in Books /\ u.res = s.res
        /\ u.ob.group = s.ob.group
        /\ u.ob.borrowed_sf = s.ob.borrowed_sf /\ u.ob.rate = s.ob.rate
        /\ u.ob.outside = s.ob.outside
        /\ \A x \in ReserveId :
              /\ u.ob.deposited[x] = s.ob.deposited[x] - (IF x = q THEN c ELSE 0)
              /\ u.ob.against[x] = IF x = q /\ all THEN 0 ELSE s.ob.against[x]
    BY <1>1, <1>3, WithdrawnFields
  <1> HIDE DEF u
  <1>5. Neutral(u, v) /\ v.ob.fresh = FALSE /\ v.res = u.res
    BY <1>4, StaleNeutral
  <1> HIDE DEF v
  <1>6. v \in Books /\ (q \in Deposits(v.ob) <=> ~all)
    <2>1. v \in Books /\ v.ob.deposited = u.ob.deposited
      BY <1>5 DEF Neutral
    <2> QED
      BY <1>2, <1>3, <1>4, <2>1 DEF Deposits
  <1>7. /\ SameEntries(v, t) /\ SameOutside(v, t)
        /\ \A x \in ReserveId :
              /\ t.ob.against[x] = v.ob.against[x]
              /\ \A g \in Group : t.res[x].against[g] =
                    IF InGroup(s.ob) /\ all /\ x = q /\ g = s.ob.group
                    THEN saturating_sub(v.res[x].against[g], n) ELSE v.res[x].against[g]
    <2>0. v.ob.group = s.ob.group /\ (InGroup(v.ob) <=> InGroup(s.ob))
      BY <1>4, <1>5 DEF Neutral, InGroup
    <2>1. CASE InGroup(s.ob) /\ all
      <3>1. t = on_full_withdraw(v, q, n)
        BY <1>6, <2>1
      <3>2. Regrouped(v, t, {q}, s.ob.group, Lowered(AgainstOf(v, s.ob.group), n), v.ob.against)
        BY <1>3, <1>6, <2>0, <2>1, <3>1, OnFullWithdrawFields
      <3> HIDE DEF t
      <3> QED
        BY <2>1, <3>2 DEF Regrouped, Lowered, AgainstOf
    <2>2. CASE ~(InGroup(s.ob) /\ all)
      <3>1. t = v
        BY <1>6, <2>0, <2>2 DEF on_full_withdraw
      <3> HIDE DEF t
      <3> QED
        BY <1>6, <2>2, <3>1 DEF SameEntries, SameOutside
    <2> QED
      BY <2>1, <2>2
  <1> HIDE DEF t
  <1>8. /\ t \in Books /\ t.ob.fresh = FALSE /\ t.ob.group = s.ob.group
        /\ t.ob.borrowed_sf = s.ob.borrowed_sf /\ t.ob.rate = s.ob.rate
        /\ t.ob.outside = s.ob.outside
        /\ \A x \in ReserveId :
              /\ t.ob.deposited[x] = s.ob.deposited[x] - (IF x = q THEN c ELSE 0)
              /\ t.ob.against[x] = IF x = q /\ all THEN 0 ELSE s.ob.against[x]
              /\ t.res[x].rate = s.res[x].rate /\ t.res[x].outside = s.res[x].outside
              /\ \A g \in Group : t.res[x].against[g] =
                    IF InGroup(s.ob) /\ all /\ x = q /\ g = s.ob.group
                    THEN saturating_sub(s.res[x].against[g], n) ELSE s.res[x].against[g]
    BY <1>4, <1>5, <1>7 DEF Neutral, SameEntries, SameOutside
  <1>9. InGroup(t.ob) <=> InGroup(s.ob)
    BY <1>8 DEF InGroup
  <1>10. ASSUME NEW x \in ReserveId
         PROVE  /\ Orderly(t.ob, x) /\ Rated(t, x) /\ Covered(t, x)
                /\ t.res[x].outside - t.ob.outside[x] = s.res[x].outside - s.ob.outside[x]
                /\ \A g \in Group : t.res[x].against[g] - ShareIn(t.ob, x, g)
                                      = s.res[x].against[g] - ShareIn(s.ob, x, g)
    <2>1. Rated(t, x)
      BY <1>2, <1>8 DEF Rated
    <2>2. Orderly(t.ob, x)
      <3>1. t.ob.deposited[x] = 0 => t.ob.against[x] = 0
        BY <1>2, <1>3, <1>8 DEF Orderly
      <3>2. s.ob.against[x] = 0 => t.ob.against[x] = 0
        BY <1>8
      <3> QED
        BY <1>2, <1>8, <1>9, <3>1, <3>2 DEF Orderly
    <2>3. CASE InGroup(s.ob) /\ all /\ x = q
      <3>1. s.ob.group \in Group /\ ShareIn(s.ob, x, s.ob.group) = n
        BY <1>1, <2>3, GroupOf DEF ShareIn, n
      <3>2. n <= s.res[x].against[s.ob.group]
        BY <1>2, <3>1 DEF Covered
      <3>3. \A g \in Group : t.res[x].against[g] =
               IF g = s.ob.group THEN s.res[x].against[g] - n ELSE s.res[x].against[g]
        BY <1>2, <1>3, <1>8, <2>3, <3>1, <3>2 DEF saturating_sub
      <3>4. \A g \in Group : /\ ShareIn(t.ob, x, g) = 0
                             /\ ShareIn(s.ob, x, g) = IF g = s.ob.group THEN n ELSE 0
        BY <1>8, <2>3 DEF ShareIn, n
      <3>5. \A g \in Group : t.res[x].against[g] - ShareIn(t.ob, x, g)
                               = s.res[x].against[g] - ShareIn(s.ob, x, g)
        BY <1>2, <1>3, <3>3, <3>4
      <3>6. Covered(t, x)
        BY <1>2, <1>3, <1>8, <3>1, <3>2, <3>3, <3>4 DEF Covered
      <3> QED
        BY <1>8, <2>1, <2>2, <3>5, <3>6
    <2>4. CASE ~(InGroup(s.ob) /\ all /\ x = q)
      <3>1. \A g \in Group : t.res[x].against[g] = s.res[x].against[g]
        BY <1>8, <2>4
      <3>2. t.ob.against[x] = s.ob.against[x]
        BY <1>2, <1>8, <2>4 DEF Orderly
      <3>3. \A g \in Group : ShareIn(t.ob, x, g) = ShareIn(s.ob, x, g)
        BY <1>8, <3>2 DEF ShareIn
      <3> QED
        BY <1>2, <1>8, <2>1, <2>2, <3>1, <3>3 DEF Covered
    <2> QED
      BY <2>3, <2>4
  <1>11. Sane(t) /\ Others(s, t)
    BY <1>8, <1>10 DEF Sane, Others
  <1>12. \A x \in ReserveId : t.ob.deposited[x] # 0 => s.ob.deposited[x] # 0
    BY <1>2, <1>3, <1>8
  <1>13. Member(t.ob)
    BY <1>8, <1>9, <1>12 DEF Member
  <1>14. Shares(t.ob, k)
    <2>1. CASE InGroup(s.ob)
      <3>1. Debt(t.ob) = Debt(s.ob)
        BY <1>8 DEF Debt
      <3> SUFFICES ASSUME NEW x \in ReserveId, t.ob.deposited[x] # 0
                   PROVE  Within(t.ob.against[x], Debt(s.ob), k)
        BY <1>9, <2>1, <3>1 DEF Shares
      <3>2. Within(s.ob.against[x], Debt(s.ob), k)
        BY <1>12, <2>1 DEF Shares
      <3>3. ~(x = q /\ all)
        BY <1>2, <1>3, <1>8
      <3> QED
        BY <1>8, <3>2, <3>3
    <2>2. CASE ~InGroup(s.ob)
      BY <1>8, <1>9, <2>2 DEF Shares
    <2> QED
      BY <2>1, <2>2
  <1>15. Drawn(s, t, q, c)
    BY <1>8 DEF Drawn
  <1> QED
    BY <1>0, <1>11, <1>13, <1>14, <1>15

\* An account without entries is closed, and is the same when opened again.
LEMMA CloseMoves ==
    ASSUME NEW s, Sane(s), Member(s.ob), NEW k \in {0, 1}, Shares(s.ob, k)
    PROVE  LET t == closed_if_empty(s)
           IN  /\ Sane(t) /\ Member(t.ob) /\ Shares(t.ob, k) /\ Others(s, t)
               /\ t = s \/ t.ob = NewObligation
  <1> DEFINE t == closed_if_empty(s)
  <1>1. CASE t = s
    BY <1>1 DEF Others
  <1>2. CASE Deposits(s.ob) = {} /\ Borrows(s.ob) = {}
    <2>1. s \in Books
      BY DEF Sane
    <2>2. NewObligation \in ObligationAccount
      BY DEF NewObligation, ObligationAccount, Zero
    <2>3. t = [s EXCEPT !.ob = NewObligation]
      BY <1>2 DEF closed_if_empty
    <2> HIDE DEF t
    <2>4. t \in Books /\ t.ob = NewObligation /\ t.res = s.res
      BY <2>1, <2>2, <2>3 DEF Books
    <2>5. /\ t.ob.group = ELEVATION_GROUP_NONE /\ ~InGroup(t.ob)
          /\ \A x \in ReserveId : /\ t.ob.deposited[x] = 0 /\ t.ob.against[x] = 0
                                  /\ t.ob.borrowed_sf[x] = 0 /\ t.ob.outside[x] = 0
      BY <2>4 DEF NewObligation, Zero, InGroup
    <2>6. \A g \in Group, x \in ReserveId : ShareIn(t.ob, x, g) = 0
      BY <2>5 DEF ShareIn
    <2>7. ASSUME NEW x \in ReserveId
          PROVE  /\ s.ob.against[x] = 0 /\ s.ob.outside[x] = 0
                 /\ \A g \in Group : ShareIn(s.ob, x, g) = 0 /\ s.res[x].against[g] \in Nat
                 /\ s.res[x].outside \in Nat
      <3>1. s.ob.deposited[x] = 0 /\ s.ob.borrowed_sf[x] = 0
        BY <1>2 DEF Deposits, Borrows
      <3>2. s.ob.against[x] = 0 /\ s.ob.outside[x] = 0
        BY <3>1 DEF Sane, Orderly
      <3> QED
        BY <2>1, <3>2, BookTypes DEF ShareIn
    <2>8. Others(s, t)
      BY <2>4, <2>5, <2>6, <2>7 DEF Others
    <2>9. Sane(t)
      BY <2>4, <2>5, <2>6, <2>7 DEF Sane, Orderly, Rated, Covered
    <2>10. Member(t.ob) /\ Shares(t.ob, k)
      BY <2>5, CeilZero DEF Member, Shares, Within
    <2> QED
      BY <2>4, <2>8, <2>9, <2>10 DEF t
  <1>3. t = s \/ (Deposits(s.ob) = {} /\ Borrows(s.ob) = {})
    BY DEF closed_if_empty
  <1> QED
    BY <1>1, <1>2, <1>3

-----------------------------------------------------------------------------
(* Refreshing an obligation                                                *)

\* Interest leaves debts debts, and brings them to the reserves' rates.
LEMMA AccrueFields ==
    ASSUME NEW s \in Books, \A x \in ReserveId : Rated(s, x)
    PROVE  LET t == accrue_interest(s)
           IN  /\ t \in Books /\ t.res = s.res
               /\ t.ob.group = s.ob.group /\ t.ob.fresh = s.ob.fresh
               /\ t.ob.deposited = s.ob.deposited /\ t.ob.against = s.ob.against
               /\ t.ob.outside = s.ob.outside
               /\ \A x \in ReserveId : /\ t.ob.borrowed_sf[x] = 0 <=> s.ob.borrowed_sf[x] = 0
                                       /\ Rated(t, x)
  <1> DEFINE t == accrue_interest(s)
             b == [r \in ReserveId |-> IF r \in Borrows(s.ob)
                      THEN (s.ob.borrowed_sf[r] * s.res[r].rate) \div s.ob.rate[r]
                      ELSE s.ob.borrowed_sf[r]]
             e == [r \in ReserveId |-> IF r \in Borrows(s.ob) THEN s.res[r].rate
                                                             ELSE s.ob.rate[r]]
             c1 == [s.ob EXCEPT !.borrowed_sf = b]
             c2 == [c1 EXCEPT !.rate = e]
  <1>1. s.ob \in ObligationAccount /\ s.res \in [ReserveId -> ReserveAccount]
    BY DEF Books
  <1>2. ASSUME NEW r \in ReserveId
        PROVE  /\ b[r] \in Nat /\ e[r] \in Nat
               /\ b[r] = 0 <=> s.ob.borrowed_sf[r] = 0
               /\ b[r] # 0 => e[r] = s.res[r].rate /\ e[r] # 0
    <2>1. /\ s.ob.borrowed_sf[r] \in Nat /\ s.res[r].rate \in Nat \ {0} /\ s.ob.rate[r] \in Nat
      BY BookTypes
    <2>2. CASE s.ob.borrowed_sf[r] # 0
      <3>1. s.ob.rate[r] # 0 /\ s.ob.rate[r] <= s.res[r].rate
        BY <2>2 DEF Rated
      <3>2. (s.ob.borrowed_sf[r] * s.res[r].rate) \div s.ob.rate[r] \in Nat \ {0}
        BY <2>1, <2>2, <3>1, Compounded
      <3>3. r \in Borrows(s.ob)
        BY <2>2 DEF Borrows
      <3> QED
        BY <2>1, <2>2, <3>2, <3>3
    <2>3. CASE s.ob.borrowed_sf[r] = 0
      <3>1. r \notin Borrows(s.ob)
        BY <2>3 DEF Borrows
      <3> QED
        BY <2>1, <2>3, <3>1
    <2> QED
      BY <2>2, <2>3
  <1>3. t.ob = c2 /\ t.res = s.res /\ t = [res |-> t.res, ob |-> t.ob]
    <2> DEFINE k1 == [s EXCEPT !.ob = c1]
               k2 == [k1 EXCEPT !.ob = c2]
    <2>1. t = k2
      BY DEF accrue_interest, Books, ObligationAccount
    <2> HIDE DEF c1, c2, t
    <2> QED
      BY <2>1 DEF Books
  <1>4. b \in [ReserveId -> Nat] /\ e \in [ReserveId -> Nat]
    BY <1>2
  <1> HIDE DEF t, b, e
  <1>5. c1 \in ObligationAccount /\ c1.borrowed_sf = b
    BY <1>1, <1>4 DEF ObligationAccount
  <1>6. /\ c1.group = s.ob.group /\ c1.fresh = s.ob.fresh /\ c1.deposited = s.ob.deposited
        /\ c1.against = s.ob.against /\ c1.outside = s.ob.outside
    BY <1>1 DEF ObligationAccount
  <1> HIDE DEF c1
  <1>7. c2 \in ObligationAccount /\ c2.rate = e /\ c2.borrowed_sf = b
    BY <1>4, <1>5 DEF ObligationAccount
  <1>8. /\ c2.group = s.ob.group /\ c2.fresh = s.ob.fresh /\ c2.deposited = s.ob.deposited
        /\ c2.against = s.ob.against /\ c2.outside = s.ob.outside
    BY <1>5, <1>6 DEF ObligationAccount
  <1> HIDE DEF c2
  <1>9. t \in Books
    BY <1>1, <1>3, <1>7 DEF Books
  <1>10. \A x \in ReserveId : /\ t.ob.borrowed_sf[x] = 0 <=> s.ob.borrowed_sf[x] = 0
                              /\ Rated(t, x)
    BY <1>2, <1>3, <1>7, BookTypes DEF Rated
  <1> QED
    BY <1>3, <1>7, <1>8, <1>9, <1>10 DEF t

Core(s, g) == refresh_obligation_deposits(refresh_obligation_borrows(s, g), g)

\* The shares of t are those of s counted anew, for group g.
Recounted(s, t, g) ==
    /\ t \in Books
    /\ t.ob.group = s.ob.group /\ t.ob.fresh = s.ob.fresh /\ t.ob.deposited = s.ob.deposited
    /\ \A x \in ReserveId :
          /\ t.ob.borrowed_sf[x] = 0 <=> s.ob.borrowed_sf[x] = 0
          /\ Rated(t, x) /\ t.res[x].rate = s.res[x].rate
    /\ g = ELEVATION_GROUP_NONE =>
          /\ SameInside(s, t)
          /\ \A x \in ReserveId :
                /\ t.ob.outside[x] = IF s.ob.borrowed_sf[x] # 0 THEN Ceil(t.ob.borrowed_sf[x])
                                                               ELSE s.ob.outside[x]
                /\ t.res[x].outside =
                      IF s.ob.borrowed_sf[x] # 0
                      THEN saturating_sub(s.res[x].outside, s.ob.outside[x])
                             + Ceil(t.ob.borrowed_sf[x])
                      ELSE s.res[x].outside
    /\ g # ELEVATION_GROUP_NONE =>
          /\ SameOutside(s, t)
          /\ \A x \in ReserveId :
                /\ t.ob.against[x] = IF s.ob.deposited[x] # 0 THEN borrowed_amount(t.ob)
                                                             ELSE s.ob.against[x]
                /\ \A h \in Group : t.res[x].against[h] =
                      IF s.ob.deposited[x] # 0 /\ h = g
                      THEN saturating_sub(s.res[x].against[h], s.ob.against[x])
                             + borrowed_amount(t.ob)
                      ELSE s.res[x].against[h]

LEMMA AmountType ==
    ASSUME NEW s \in Books
    PROVE  borrowed_amount(s.ob) \in Nat
  <1>1. CASE Borrows(s.ob) = {}
    BY <1>1 DEF borrowed_amount
  <1>2. CASE Borrows(s.ob) # {}
    <2>1. (CHOOSE r \in Borrows(s.ob) : TRUE) \in ReserveId
      BY <1>2 DEF Borrows
    <2> QED
      BY <1>2, <2>1, BookTypes, CeilGap DEF borrowed_amount
  <1> QED
    BY <1>1, <1>2

LEMMA CoreFields ==
    ASSUME NEW s \in Books, \A x \in ReserveId : Rated(s, x),
           NEW g \in Group \cup {ELEVATION_GROUP_NONE}
    PROVE  Recounted(s, Core(s, g), g)
  <1> DEFINE a == accrue_interest(s)
             t == Core(s, g)
  <1>1. /\ a \in Books /\ a.res = s.res
        /\ a.ob.group = s.ob.group /\ a.ob.fresh = s.ob.fresh
        /\ a.ob.deposited = s.ob.deposited /\ a.ob.against = s.ob.against
        /\ a.ob.outside = s.ob.outside
        /\ \A x \in ReserveId : /\ a.ob.borrowed_sf[x] = 0 <=> s.ob.borrowed_sf[x] = 0
                                /\ Rated(a, x)
    BY AccrueFields
  <1>2. CASE g = ELEVATION_GROUP_NONE
    <2> DEFINE B == [r \in ReserveId |-> Ceil(a.ob.borrowed_sf[r])]
               A == [r \in ReserveId |-> saturating_sub(a.res[r].outside, a.ob.outside[r])
                                           + Ceil(a.ob.borrowed_sf[r])]
    <2>1. t = Reside(a, Borrows(a.ob), A, B)
      BY <1>2 DEF Core, refresh_obligation_deposits, refresh_obligation_borrows, Reside
    <2> HIDE DEF a, t
    <2>2. \A r \in ReserveId : Ceil(a.ob.borrowed_sf[r]) \in Nat /\ a.res[r].outside \in Nat
                               /\ a.ob.outside[r] \in Nat
      BY <1>1, BookTypes, CeilGap
    <2>3. A \in [ReserveId -> Nat] /\ B \in [ReserveId -> Nat]
      BY <2>2 DEF saturating_sub
    <2>4. /\ \A r \in ReserveId : B[r] = Ceil(a.ob.borrowed_sf[r])
          /\ \A r \in ReserveId : A[r] = saturating_sub(s.res[r].outside, s.ob.outside[r])
                                           + Ceil(a.ob.borrowed_sf[r])
      BY <1>1
    <2> HIDE DEF A, B
    <2>5. Resided(a, t, Borrows(a.ob), A, B)
      BY <1>1, <2>1, <2>3, ResideFields
    <2>6. /\ t \in Books
          /\ t.ob.group = s.ob.group /\ t.ob.fresh = s.ob.fresh /\ t.ob.deposited = s.ob.deposited
          /\ t.ob.borrowed_sf = a.ob.borrowed_sf /\ t.ob.rate = a.ob.rate
          /\ \A x \in ReserveId : t.res[x].rate = s.res[x].rate
          /\ SameInside(s, t)
      BY <1>1, <2>5 DEF Resided, SameEntries, SameInside
    <2>7. \A x \in ReserveId : Rated(t, x)
      BY <1>1, <2>6 DEF Rated
    <2>8. \A x \in ReserveId :
                /\ t.ob.outside[x] = IF s.ob.borrowed_sf[x] # 0 THEN Ceil(t.ob.borrowed_sf[x])
                                                               ELSE s.ob.outside[x]
                /\ t.res[x].outside =
                      IF s.ob.borrowed_sf[x] # 0
                      THEN saturating_sub(s.res[x].outside, s.ob.outside[x])
                             + Ceil(t.ob.borrowed_sf[x])
                      ELSE s.res[x].outside
      BY <1>1, <2>4, <2>5, <2>6 DEF Resided, Borrows
    <2>9. Recounted(s, t, g)
      BY <1>1, <1>2, <2>6, <2>7, <2>8 DEF Recounted
    <2> QED
      BY <2>9 DEF t
  <1>3. CASE g # ELEVATION_GROUP_NONE
    <2> DEFINE n == borrowed_amount(a.ob)
               B == [r \in ReserveId |-> n]
               A == [r \in ReserveId |-> saturating_sub(a.res[r].against[g], a.ob.against[r]) + n]
    <2>1. t = Regroup(a, Deposits(a.ob), g, A, B)
      BY <1>3 DEF Core, refresh_obligation_deposits, refresh_obligation_borrows, Regroup
    <2> HIDE DEF a, t
    <2>2. n \in Nat /\ g \in Group
      BY <1>1, <1>3, AmountType
    <2>3. \A r \in ReserveId : a.res[r].against[g] \in Nat /\ a.ob.against[r] \in Nat
      BY <1>1, <2>2, BookTypes
    <2> HIDE DEF n
    <2>4. A \in [ReserveId -> Nat] /\ B \in [ReserveId -> Nat]
      BY <2>2, <2>3 DEF saturating_sub
    <2>5. /\ \A r \in ReserveId : B[r] = n
          /\ \A r \in ReserveId : A[r] = saturating_sub(s.res[r].against[g], s.ob.against[r]) + n
      BY <1>1
    <2> HIDE DEF A, B
    <2>6. Regrouped(a, t, Deposits(a.ob), g, A, B)
      BY <1>1, <2>1, <2>2, <2>4, RegroupFields
    <2>7. /\ t \in Books
          /\ t.ob.group = s.ob.group /\ t.ob.fresh = s.ob.fresh /\ t.ob.deposited = s.ob.deposited
          /\ t.ob.borrowed_sf = a.ob.borrowed_sf /\ t.ob.rate = a.ob.rate
          /\ \A x \in ReserveId : t.res[x].rate = s.res[x].rate
          /\ SameOutside(s, t)
      BY <1>1, <2>6 DEF Regrouped, SameEntries, SameOutside
    <2>8. \A x \in ReserveId : Rated(t, x)
      BY <1>1, <2>7 DEF Rated
    <2>9. borrowed_amount(t.ob) = n
      BY <2>7 DEF borrowed_amount, Borrows, n
    <2>10. \A x \in ReserveId :
                /\ t.ob.against[x] = IF s.ob.deposited[x] # 0 THEN borrowed_amount(t.ob)
                                                             ELSE s.ob.against[x]
                /\ \A h \in Group : t.res[x].against[h] =
                      IF s.ob.deposited[x] # 0 /\ h = g
                      THEN saturating_sub(s.res[x].against[h], s.ob.against[x])
                             + borrowed_amount(t.ob)
                      ELSE s.res[x].against[h]
      BY <1>1, <2>5, <2>6, <2>9 DEF Regrouped, Deposits
    <2>11. Recounted(s, t, g)
      BY <1>1, <1>3, <2>7, <2>8, <2>10 DEF Recounted
    <2> QED
      BY <2>11 DEF t
  <1> QED
    BY <1>2, <1>3

\* Counting anew makes every share exact, and leaves the others' as they are.
LEMMA RecountMoves ==
    ASSUME NEW s, Sane(s), Member(s.ob), NEW t, Recounted(s, t, s.ob.group)
    PROVE  Sane(t) /\ Member(t.ob) /\ Shares(t.ob, 0) /\ Others(s, t)
  <1>1. s \in Books /\ t \in Books /\ t.ob.group = s.ob.group /\ t.ob.deposited = s.ob.deposited
    BY DEF Sane, Recounted
  <1>2. ASSUME NEW x \in ReserveId
         PROVE  /\ s.ob.deposited[x] \in Nat /\ s.ob.against[x] \in Nat
                /\ s.ob.borrowed_sf[x] \in Nat /\ s.ob.rate[x] \in Nat /\ s.ob.outside[x] \in Nat
                /\ s.res[x].rate \in Nat \ {0} /\ s.res[x].outside \in Nat
                /\ \A g \in Group : s.res[x].against[g] \in Nat
                /\ Orderly(s.ob, x) /\ Rated(s, x) /\ Covered(s, x)
    BY <1>1, BookTypes DEF Sane
  <1>3. \A x \in ReserveId :
          /\ t.ob.borrowed_sf[x] = 0 <=> s.ob.borrowed_sf[x] = 0
          /\ t.ob.borrowed_sf[x] \in Nat /\ Ceil(t.ob.borrowed_sf[x]) \in Nat
          /\ Rated(t, x) /\ t.res[x].rate = s.res[x].rate
    BY <1>1, BookTypes, CeilGap DEF Recounted
  <1>4. InGroup(t.ob) <=> InGroup(s.ob)
    BY <1>1 DEF InGroup
  <1>5. Member(t.ob)
    BY <1>1, <1>3, <1>4 DEF Member
  <1>6. CASE InGroup(s.ob)
    <2> DEFINE g == s.ob.group
               n == Debt(t.ob)
    <2>1. g \in Group /\ g # ELEVATION_GROUP_NONE
      BY <1>1, <1>6, GroupOf DEF InGroup
    <2>2. n \in Nat /\ borrowed_amount(t.ob) = n
      BY <1>1, <1>4, <1>5, <1>6, DebtType, SingleAmount
    <2> HIDE DEF n
    <2>3. \A x \in ReserveId :
            /\ t.ob.outside[x] = s.ob.outside[x] /\ t.res[x].outside = s.res[x].outside
            /\ t.ob.against[x] = IF s.ob.deposited[x] # 0 THEN n ELSE s.ob.against[x]
            /\ \A h \in Group : t.res[x].against[h] =
                  IF s.ob.deposited[x] # 0 /\ h = g
                  THEN saturating_sub(s.res[x].against[h], s.ob.against[x]) + n
                  ELSE s.res[x].against[h]
      BY <2>1, <2>2 DEF Recounted, SameOutside
    <2>4. ASSUME NEW x \in ReserveId
          PROVE  /\ Orderly(t.ob, x) /\ Covered(t, x)
                 /\ \A h \in Group : t.res[x].against[h] - ShareIn(t.ob, x, h)
                                       = s.res[x].against[h] - ShareIn(s.ob, x, h)
      <3>1. s.ob.against[x] <= s.res[x].against[g]
        <4>1. ShareIn(s.ob, x, g) = s.ob.against[x]
          BY DEF ShareIn
        <4> QED
          BY <1>2, <2>1, <4>1 DEF Covered
      <3>2. Orderly(t.ob, x)
        BY <1>1, <1>2, <1>3, <1>4, <1>6, <2>3 DEF Orderly
      <3>3. \A h \in Group : t.res[x].against[h] =
                IF s.ob.deposited[x] # 0 /\ h = g
                THEN s.res[x].against[h] - s.ob.against[x] + n ELSE s.res[x].against[h]
        BY <1>2, <2>3, <3>1 DEF saturating_sub
      <3>4. \A h \in Group :
                /\ ShareIn(s.ob, x, h) = IF h = g THEN s.ob.against[x] ELSE 0
                /\ ShareIn(t.ob, x, h) = IF h = g THEN t.ob.against[x] ELSE 0
        BY <1>1 DEF ShareIn
      <3>5. \A h \in Group : t.res[x].against[h] - ShareIn(t.ob, x, h)
                               = s.res[x].against[h] - ShareIn(s.ob, x, h)
        BY <1>2, <2>2, <2>3, <3>3, <3>4
      <3>6. \A h \in Group : ShareIn(t.ob, x, h) <= t.res[x].against[h]
        BY <1>2, <2>2, <2>3, <3>1, <3>3, <3>4
      <3> QED
        BY <1>2, <2>3, <3>2, <3>5, <3>6 DEF Covered
    <2>5. Sane(t) /\ Others(s, t)
      BY <1>1, <1>3, <2>3, <2>4 DEF Sane, Others
    <2>6. Shares(t.ob, 0)
      BY <1>1, <1>4, <1>6, <2>2, <2>3, Exactly DEF Shares, n
    <2> QED
      BY <1>5, <2>5, <2>6
  <1>7. CASE ~InGroup(s.ob)
    <2>1. s.ob.group = ELEVATION_GROUP_NONE
      BY <1>7 DEF InGroup
    <2>2. \A x \in ReserveId :
            /\ t.ob.against[x] = s.ob.against[x] /\ t.res[x].against = s.res[x].against
            /\ t.ob.outside[x] = IF s.ob.borrowed_sf[x] # 0 THEN Ceil(t.ob.borrowed_sf[x])
                                                           ELSE s.ob.outside[x]
            /\ t.res[x].outside =
                  IF s.ob.borrowed_sf[x] # 0
                  THEN saturating_sub(s.res[x].outside, s.ob.outside[x])
                         + Ceil(t.ob.borrowed_sf[x])
                  ELSE s.res[x].outside
      BY <2>1 DEF Recounted, SameInside
    <2>3. ASSUME NEW x \in ReserveId
          PROVE  /\ Orderly(t.ob, x) /\ Covered(t, x)
                 /\ t.res[x].outside - t.ob.outside[x] = s.res[x].outside - s.ob.outside[x]
                 /\ \A h \in Group : t.res[x].against[h] - ShareIn(t.ob, x, h)
                                       = s.res[x].against[h] - ShareIn(s.ob, x, h)
                 /\ t.ob.outside[x] = Ceil(t.ob.borrowed_sf[x])
      <3>1. s.ob.outside[x] <= s.res[x].outside
        BY <1>2 DEF Covered
      <3>2. \A h \in Group : ShareIn(t.ob, x, h) = ShareIn(s.ob, x, h)
        BY <1>1, <2>2 DEF ShareIn
      <3>3. t.ob.outside[x] = Ceil(t.ob.borrowed_sf[x])
        BY <1>2, <1>3, <2>2, CeilZero DEF Orderly
      <3>4. t.res[x].outside - t.ob.outside[x] = s.res[x].outside - s.ob.outside[x]
        BY <1>2, <1>3, <2>2, <3>1 DEF saturating_sub
      <3>5. t.ob.outside[x] <= t.res[x].outside
        BY <1>2, <1>3, <2>2, <3>1 DEF saturating_sub
      <3>6. Orderly(t.ob, x)
        BY <1>1, <1>2, <1>3, <1>4, <1>7, <2>2 DEF Orderly
      <3> QED
        BY <1>2, <2>2, <3>2, <3>3, <3>4, <3>5, <3>6 DEF Covered
    <2>4. Sane(t) /\ Others(s, t)
      BY <1>1, <1>3, <2>3 DEF Sane, Others
    <2>5. Shares(t.ob, 0)
      BY <1>3, <1>4, <1>7, <2>3, Exactly DEF Shares
    <2> QED
      BY <1>5, <2>4, <2>5
  <1> QED
    BY <1>6, <1>7

LEMMA FreshNeutral ==
    ASSUME NEW s \in Books
    PROVE  LET t == [s EXCEPT !.ob.fresh = TRUE]
           IN  Neutral(s, t) /\ t.ob.fresh = TRUE
  <1> DEFINE t == [s EXCEPT !.ob.fresh = TRUE]
             b == [s.ob EXCEPT !.fresh = TRUE]
  <1>1. t.ob = b /\ t.res = s.res /\ t \in Books
    BY DEF Books, ObligationAccount
  <1>2. s.ob \in ObligationAccount
    BY DEF Books
  <1>3. /\ b.fresh = TRUE /\ b.group = s.ob.group /\ b.deposited = s.ob.deposited
        /\ b.against = s.ob.against /\ b.borrowed_sf = s.ob.borrowed_sf
        /\ b.rate = s.ob.rate /\ b.outside = s.ob.outside
    BY <1>2 DEF ObligationAccount
  <1> HIDE DEF t, b
  <1>4. Neutral(s, t)
    BY <1>1, <1>3 DEF Neutral
  <1> QED
    BY <1>1, <1>3, <1>4 DEF t

\* A refresh of the obligation.
LEMMA RefreshMoves ==
    ASSUME NEW s, Sane(s), Member(s.ob)
    PROVE  LET t == refresh_obligation(s)
           IN  /\ Sane(t) /\ Member(t.ob) /\ Shares(t.ob, 0) /\ Others(s, t)
               /\ t.ob.group = s.ob.group /\ t.ob.deposited = s.ob.deposited
               /\ t.ob.fresh = TRUE
  <1> DEFINE u == Core(s, s.ob.group)
             t == [u EXCEPT !.ob.fresh = TRUE]
  <1>0. t = refresh_obligation(s)
    BY DEF refresh_obligation, Core
  <1>1. s \in Books /\ \A x \in ReserveId : Rated(s, x)
    BY DEF Sane
  <1>2. s.ob.group \in Group \cup {ELEVATION_GROUP_NONE}
    BY <1>1, GroupOf DEF InGroup
  <1>3. Recounted(s, u, s.ob.group)
    BY <1>1, <1>2, CoreFields
  <1> HIDE DEF u
  <1>4. Sane(u) /\ Member(u.ob) /\ Shares(u.ob, 0) /\ Others(s, u)
    BY <1>3, RecountMoves
  <1>5. u \in Books /\ u.ob.group = s.ob.group /\ u.ob.deposited = s.ob.deposited
    BY <1>3 DEF Recounted
  <1>6. Neutral(u, t) /\ t.ob.fresh = TRUE
    BY <1>5, FreshNeutral
  <1> HIDE DEF t
  <1>7. Sane(t) /\ Member(t.ob) /\ Shares(t.ob, 0) /\ Others(u, t)
    BY <1>4, <1>5, <1>6, NeutralKeeps
  <1>8. t.ob.group = s.ob.group /\ t.ob.deposited = s.ob.deposited
    BY <1>5, <1>6 DEF Neutral
  <1>9. Others(s, t)
    BY <1>4, <1>7, OthersTrans
  <1> QED
    BY <1>0, <1>6, <1>7, <1>8, <1>9

-----------------------------------------------------------------------------
(* Changing the group                                                      *)

\* Leaving a group, or the outside of groups, an obligation takes all its
\* shares with it.
LEMMA ResetMoves ==
    ASSUME NEW s, Sane(s)
    PROVE  LET t == reset_elevation_group_debts(s)
           IN  /\ SameEntries(s, t) /\ Sane(t) /\ Others(s, t)
               /\ \A x \in ReserveId : t.ob.outside[x] = 0 /\ t.ob.against[x] = 0
  <1> DEFINE t == reset_elevation_group_debts(s)
  <1>1. s \in Books
    BY DEF Sane
  <1>2. ASSUME NEW x \in ReserveId
         PROVE  /\ s.ob.deposited[x] \in Nat /\ s.ob.against[x] \in Nat
                /\ s.ob.borrowed_sf[x] \in Nat /\ s.ob.rate[x] \in Nat /\ s.ob.outside[x] \in Nat
                /\ s.res[x].rate \in Nat \ {0} /\ s.res[x].outside \in Nat
                /\ \A g \in Group : s.res[x].against[g] \in Nat
                /\ Orderly(s.ob, x) /\ Rated(s, x) /\ Covered(s, x)
    BY <1>1, BookTypes DEF Sane
  <1>3. /\ SameEntries(s, t)
        /\ \A x \in ReserveId :
              /\ t.ob.outside[x] = 0 /\ t.ob.against[x] = 0
              /\ t.res[x].outside = s.res[x].outside - s.ob.outside[x]
              /\ \A h \in Group : t.res[x].against[h] = s.res[x].against[h] - ShareIn(s.ob, x, h)
    <2>1. CASE InGroup(s.ob)
      <3> DEFINE g == s.ob.group
                 A == [r \in ReserveId |-> saturating_sub(s.res[r].against[g], s.ob.against[r])]
      <3>1. g \in Group
        BY <1>1, <2>1, GroupOf
      <3>2. t = Regroup(s, Deposits(s.ob), g, A, Zero)
        BY <2>1 DEF reset_elevation_group_debts, Regroup, Zero
      <3>3. A \in [ReserveId -> Nat] /\ Zero \in [ReserveId -> Nat]
        BY <1>2, <3>1 DEF saturating_sub, Zero
      <3>4. \A x \in ReserveId : A[x] = saturating_sub(s.res[x].against[g], s.ob.against[x])
        OBVIOUS
      <3> HIDE DEF t, A
      <3>5. Regrouped(s, t, Deposits(s.ob), g, A, Zero)
        BY <1>1, <3>1, <3>2, <3>3, RegroupFields
      <3>6. ASSUME NEW x \in ReserveId
            PROVE  /\ t.ob.outside[x] = 0 /\ t.ob.against[x] = 0
                   /\ t.res[x].outside = s.res[x].outside - s.ob.outside[x]
                   /\ \A h \in Group : t.res[x].against[h]
                                         = s.res[x].against[h] - ShareIn(s.ob, x, h)
        <4>1. s.ob.outside[x] = 0 /\ (s.ob.deposited[x] = 0 => s.ob.against[x] = 0)
          BY <1>2, <2>1 DEF Orderly
        <4>2. t.ob.outside[x] = s.ob.outside[x] /\ t.res[x].outside = s.res[x].outside
          BY <3>5 DEF Regrouped, SameOutside
        <4>3. /\ t.ob.against[x] = IF s.ob.deposited[x] # 0 THEN 0 ELSE s.ob.against[x]
              /\ \A h \in Group : t.res[x].against[h] =
                    IF s.ob.deposited[x] # 0 /\ h = g
                    THEN saturating_sub(s.res[x].against[g], s.ob.against[x])
                    ELSE s.res[x].against[h]
          BY <3>4, <3>5 DEF Regrouped, Deposits, Zero
        <4>4. s.ob.against[x] <= s.res[x].against[g]
          <5>1. ShareIn(s.ob, x, g) = s.ob.against[x]
            BY DEF ShareIn
          <5> QED
            BY <1>2, <3>1, <5>1 DEF Covered
        <4>5. \A h \in Group : ShareIn(s.ob, x, h) = IF h = g THEN s.ob.against[x] ELSE 0
          BY DEF ShareIn
        <4>6. ASSUME NEW h \in Group
              PROVE  t.res[x].against[h] = s.res[x].against[h] - ShareIn(s.ob, x, h)
          BY <1>2, <4>1, <4>3, <4>4, <4>5 DEF saturating_sub
        <4> QED
          BY <1>2, <4>1, <4>2, <4>3, <4>6
      <3> QED
        BY <3>5, <3>6 DEF Regrouped
    <2>2. CASE ~InGroup(s.ob)
      <3> DEFINE A == [r \in ReserveId |-> saturating_sub(s.res[r].outside, s.ob.outside[r])]
      <3>1. t = Reside(s, Borrows(s.ob), A, Zero)
        BY <2>2 DEF reset_elevation_group_debts, Reside, Zero
      <3>2. A \in [ReserveId -> Nat] /\ Zero \in [ReserveId -> Nat]
        BY <1>2 DEF saturating_sub, Zero
      <3>3. \A x \in ReserveId : A[x] = saturating_sub(s.res[x].outside, s.ob.outside[x])
        OBVIOUS
      <3> HIDE DEF t, A
      <3>4. Resided(s, t, Borrows(s.ob), A, Zero)
        BY <1>1, <3>1, <3>2, ResideFields
      <3>5. ASSUME NEW x \in ReserveId
            PROVE  /\ t.ob.outside[x] = 0 /\ t.ob.against[x] = 0
                   /\ t.res[x].outside = s.res[x].outside - s.ob.outside[x]
                   /\ \A h \in Group : t.res[x].against[h]
                                         = s.res[x].against[h] - ShareIn(s.ob, x, h)
        <4>1. s.ob.against[x] = 0 /\ (s.ob.borrowed_sf[x] = 0 => s.ob.outside[x] = 0)
          BY <1>2, <2>2 DEF Orderly
        <4>2. t.ob.against[x] = s.ob.against[x] /\ t.res[x].against = s.res[x].against
          BY <3>4 DEF Resided, SameInside
        <4>3. /\ t.ob.outside[x] = IF s.ob.borrowed_sf[x] # 0 THEN 0 ELSE s.ob.outside[x]
              /\ t.res[x].outside = IF s.ob.borrowed_sf[x] # 0
                                    THEN saturating_sub(s.res[x].outside, s.ob.outside[x])
                                    ELSE s.res[x].outside
          BY <3>3, <3>4 DEF Resided, Borrows, Zero
        <4>4. s.ob.outside[x] <= s.res[x].outside
          BY <1>2 DEF Covered
        <4>5. t.res[x].outside = s.res[x].outside - s.ob.outside[x]
          BY <1>2, <4>1, <4>3, <4>4 DEF saturating_sub
        <4>6. \A h \in Group : ShareIn(s.ob, x, h) = 0
          BY <4>1 DEF ShareIn
        <4> QED
          BY <1>2, <4>1, <4>2, <4>3, <4>5, <4>6
      <3> QED
        BY <3>4, <3>5 DEF Resided
    <2> QED
      BY <2>1, <2>2
  <1> HIDE DEF t
  <1>4. \A x \in ReserveId, h \in Group : ShareIn(t.ob, x, h) = 0
    BY <1>3 DEF ShareIn
  <1>5. ASSUME NEW x \in ReserveId
        PROVE  /\ Orderly(t.ob, x) /\ Rated(t, x) /\ Covered(t, x)
               /\ t.res[x].outside - t.ob.outside[x] = s.res[x].outside - s.ob.outside[x]
               /\ \A g \in Group : t.res[x].against[g] - ShareIn(t.ob, x, g)
                                     = s.res[x].against[g] - ShareIn(s.ob, x, g)
    <2>1. Orderly(t.ob, x)
      BY <1>3 DEF Orderly
    <2>2. Rated(t, x)
      BY <1>2, <1>3 DEF Rated, SameEntries
    <2>3. /\ t.res[x].outside \in Nat /\ s.ob.outside[x] \in Nat
          /\ \A g \in Group : t.res[x].against[g] \in Nat /\ ShareIn(s.ob, x, g) \in Nat
      BY <1>1, <1>3, BookTypes DEF SameEntries
    <2>4. Covered(t, x)
      BY <1>3, <1>4, <2>3 DEF Covered
    <2> QED
      BY <1>2, <1>3, <1>4, <2>1, <2>2, <2>3, <2>4
  <1>6. Sane(t) /\ Others(s, t)
    BY <1>3, <1>5 DEF Sane, Others, SameEntries
  <1> QED
    BY <1>3, <1>6 DEF t

LEMMA GroupFields ==
    ASSUME NEW s \in Books, NEW g \in Group \cup {ELEVATION_GROUP_NONE}
    PROVE  LET t == [s EXCEPT !.ob.group = g]
           IN  /\ t \in Books /\ t.res = s.res
               /\ t.ob.group = g /\ t.ob.fresh = s.ob.fresh
               /\ t.ob.deposited = s.ob.deposited /\ t.ob.against = s.ob.against
               /\ t.ob.borrowed_sf = s.ob.borrowed_sf
               /\ t.ob.rate = s.ob.rate /\ t.ob.outside = s.ob.outside
  <1> DEFINE t == [s EXCEPT !.ob.group = g]
             b == [s.ob EXCEPT !.group = g]
  <1>1. t.ob = b /\ t.res = s.res /\ t \in Books
    BY DEF Books, ObligationAccount
  <1>2. s.ob \in ObligationAccount
    BY DEF Books
  <1>3. /\ b.group = g /\ b.fresh = s.ob.fresh /\ b.deposited = s.ob.deposited
        /\ b.against = s.ob.against /\ b.borrowed_sf = s.ob.borrowed_sf
        /\ b.rate = s.ob.rate /\ b.outside = s.ob.outside
    BY <1>2 DEF ObligationAccount
  <1> HIDE DEF t, b
  <1> QED
    BY <1>1, <1>3 DEF t

\* A request for group g whose rules the obligation meets.
LEMMA RequestMoves ==
    ASSUME NEW s, Sane(s), NEW g \in Group \cup {ELEVATION_GROUP_NONE},
           g # ELEVATION_GROUP_NONE =>
              \A x \in ReserveId :
                 /\ s.ob.borrowed_sf[x] # 0 => x = debt_reserve[g]
                 /\ s.ob.deposited[x] # 0 => g \in elevation_groups[x] /\ x # debt_reserve[g]
    PROVE  LET t == stale([Core(reset_elevation_group_debts(s), g) EXCEPT !.ob.group = g])
           IN  /\ Sane(t) /\ Member(t.ob) /\ Shares(t.ob, 0) /\ Others(s, t)
               /\ t.ob.group = g /\ t.ob.deposited = s.ob.deposited
               /\ t.ob.fresh = FALSE
  <1> DEFINE c == reset_elevation_group_debts(s)
             k == [c EXCEPT !.ob.group = g]
             u == Core(c, g)
             v == [u EXCEPT !.ob.group = g]
             t == stale(v)
  <1>1. /\ SameEntries(s, c) /\ Sane(c) /\ Others(s, c)
        /\ \A x \in ReserveId : c.ob.outside[x] = 0 /\ c.ob.against[x] = 0
    BY ResetMoves
  <1> HIDE DEF c
  <1>2. /\ c \in Books /\ c.ob.deposited = s.ob.deposited /\ c.ob.borrowed_sf = s.ob.borrowed_sf
    BY <1>1 DEF SameEntries
  <1>3. /\ k \in Books /\ k.res = c.res
        /\ k.ob.group = g /\ k.ob.fresh = c.ob.fresh
        /\ k.ob.deposited = c.ob.deposited /\ k.ob.against = c.ob.against
        /\ k.ob.borrowed_sf = c.ob.borrowed_sf
        /\ k.ob.rate = c.ob.rate /\ k.ob.outside = c.ob.outside
    BY <1>2, GroupFields
  <1> HIDE DEF k
  <1>4. \A x \in ReserveId, h \in Group : ShareIn(k.ob, x, h) = 0 /\ ShareIn(c.ob, x, h) = 0
    BY <1>1, <1>3 DEF ShareIn
  <1>5. Others(c, k)
    BY <1>1, <1>3, <1>4 DEF Others
  <1>6. Sane(k)
    <2> SUFFICES ASSUME NEW x \in ReserveId
                 PROVE  Orderly(k.ob, x) /\ Rated(k, x) /\ Covered(k, x)
      BY <1>3 DEF Sane
    <2>1. Orderly(k.ob, x)
      BY <1>1, <1>3 DEF Orderly
    <2>2. Rated(c, x) /\ Covered(c, x)
      BY <1>1 DEF Sane
    <2>3. Rated(k, x)
      BY <1>3, <2>2 DEF Rated
    <2>4. Covered(k, x)
      BY <1>3, <1>4, <2>2 DEF Covered
    <2> QED
      BY <2>1, <2>3, <2>4
  <1>7. Member(k.ob)
    BY <1>2, <1>3 DEF Member, InGroup
  <1>8. Recounted(c, u, g)
    <2>1. \A x \in ReserveId : Rated(c, x)
      BY <1>1 DEF Sane
    <2> QED
      BY <1>2, <2>1, CoreFields
  <1> HIDE DEF u
  <1>9. u \in Books
    BY <1>8 DEF Recounted
  <1>10. /\ v \in Books /\ v.res = u.res
         /\ v.ob.group = g /\ v.ob.fresh = u.ob.fresh
         /\ v.ob.deposited = u.ob.deposited /\ v.ob.against = u.ob.against
         /\ v.ob.borrowed_sf = u.ob.borrowed_sf
         /\ v.ob.rate = u.ob.rate /\ v.ob.outside = u.ob.outside
    BY <1>9, GroupFields
  <1> HIDE DEF v
  <1>11. Recounted(k, v, g)
    <2>1. borrowed_amount(v.ob) = borrowed_amount(u.ob)
      BY <1>10 DEF borrowed_amount, Borrows
    <2>2. \A x \in ReserveId : Rated(u, x) <=> Rated(v, x)
      BY <1>10 DEF Rated
    <2>3. SameInside(c, u) => SameInside(k, v)
      BY <1>3, <1>10 DEF SameInside
    <2>4. SameOutside(c, u) => SameOutside(k, v)
      BY <1>3, <1>10 DEF SameOutside
    <2> QED
      BY <1>3, <1>8, <1>10, <2>1, <2>2, <2>3, <2>4 DEF Recounted
  <1>12. Sane(v) /\ Member(v.ob) /\ Shares(v.ob, 0) /\ Others(k, v)
    BY <1>3, <1>6, <1>7, <1>11, RecountMoves
  <1>13. v.ob.deposited = s.ob.deposited
    BY <1>2, <1>8, <1>10 DEF Recounted
  <1>14. Neutral(v, t) /\ t.ob.fresh = FALSE
    BY <1>10, StaleNeutral
  <1> HIDE DEF t
  <1>15. Sane(t) /\ Member(t.ob) /\ Shares(t.ob, 0) /\ Others(v, t)
    BY <1>10, <1>12, <1>14, NeutralKeeps
  <1>16. t.ob.group = g /\ t.ob.deposited = s.ob.deposited
    BY <1>10, <1>13, <1>14 DEF Neutral
  <1>17. Others(s, t)
    BY <1>1, <1>5, <1>12, <1>15, OthersTrans
  <1> QED
    BY <1>14, <1>15, <1>16, <1>17 DEF t, v, u, c

-----------------------------------------------------------------------------
(* Rollovers and liquidations                                              *)

LEMMA OnRolloverFields ==
    ASSUME NEW s \in Books, NEW r \in ReserveId, NEW q \in ReserveId, r # q, NEW n \in Nat
    PROVE  LET u == on_rollover(s, r, q, n)
           IN  /\ SameEntries(s, u) /\ SameInside(s, u)
               /\ \A x \in ReserveId :
                     /\ u.res[x].outside =
                           IF x = r THEN saturating_sub(s.res[x].outside, n)
                           ELSE s.res[x].outside + (IF x = q THEN n ELSE 0)
                     /\ u.ob.outside[x] =
                           IF x = r THEN IF s.ob.borrowed_sf[r] # 0
                                         THEN saturating_sub(s.ob.outside[x], n)
                                         ELSE s.ob.outside[x]
                           ELSE s.ob.outside[x] + (IF x = q THEN n ELSE 0)
  <1> DEFINE A == [x \in ReserveId |-> IF x = r THEN saturating_sub(s.res[x].outside, n)
                                               ELSE s.res[x].outside + n]
             B == [x \in ReserveId |-> IF x = r THEN IF s.ob.borrowed_sf[r] # 0
                                                     THEN saturating_sub(s.ob.outside[x], n)
                                                     ELSE s.ob.outside[x]
                                               ELSE s.ob.outside[x] + n]
             u == on_rollover(s, r, q, n)
  <1>1. s.ob \in ObligationAccount /\ s.res \in [ReserveId -> ReserveAccount]
    BY DEF Books
  <1>2. A \in [ReserveId -> Nat] /\ B \in [ReserveId -> Nat]
    BY BookTypes DEF saturating_sub
  <1>3. u = Reside(s, {r, q}, A, B)
    <2> DEFINE e == [s.res[r] EXCEPT !.outside = saturating_sub(@, n)]
               f == [s.res[q] EXCEPT !.outside = @ + n]
               m == [s.res EXCEPT ![r] = e]
               k == [m EXCEPT ![q] = f]
               o == [s.ob.outside EXCEPT ![r] = IF r \in Borrows(s.ob) THEN saturating_sub(@, n)
                                                                       ELSE @,
                                         ![q] = @ + n]
    <2>1. u = [res |-> k, ob |-> [s.ob EXCEPT !.outside = o]]
      <3> DEFINE o1 == [s.ob.outside EXCEPT ![r] = IF r \in Borrows(s.ob)
                                                   THEN saturating_sub(@, n) ELSE @]
                 c1 == [s.ob EXCEPT !.outside = o1]
                 c2 == [c1 EXCEPT !.outside = o]
                 k1 == [s EXCEPT !.res = m]
                 k2 == [k1 EXCEPT !.res = k]
                 k3 == [k2 EXCEPT !.ob = c1]
                 k4 == [k3 EXCEPT !.ob = c2]
      <3>1. f = [m[q] EXCEPT !.outside = @ + n]
        BY <1>1
      <3>2. o = [o1 EXCEPT ![q] = @ + n]
        OBVIOUS
      <3>3. u = k4
        BY <1>1, <3>1, <3>2 DEF on_rollover, Books, ObligationAccount, Borrows
      <3>4. c2 = [s.ob EXCEPT !.outside = o]
        BY DEF ObligationAccount
      <3> HIDE DEF u, k, m, c1, c2, o, o1
      <3> QED
        BY <3>3, <3>4 DEF Books
    <2>2. k = [x \in ReserveId |->
                IF x \in {r, q} THEN [s.res[x] EXCEPT !.outside = A[x]] ELSE s.res[x]]
      <3>1. \A x \in ReserveId : m[x] = IF x = r THEN e ELSE s.res[x]
        BY <1>1
      <3>2. m = [x \in ReserveId |-> m[x]] /\ k = [x \in ReserveId |-> k[x]]
        BY <1>1
      <3>3. \A x \in ReserveId : k[x] = IF x = q THEN f ELSE m[x]
        BY <3>2
      <3>4. e = [s.res[r] EXCEPT !.outside = A[r]] /\ f = [s.res[q] EXCEPT !.outside = A[q]]
        OBVIOUS
      <3> HIDE DEF e, f, m, k, A
      <3> QED
        BY <3>1, <3>2, <3>3, <3>4
    <2>3. o = [x \in ReserveId |-> IF x \in {r, q} THEN B[x] ELSE s.ob.outside[x]]
      BY <1>1 DEF ObligationAccount, Borrows
    <2> HIDE DEF k, o, A, B
    <2> QED
      BY <2>1, <2>2, <2>3 DEF Reside
  <1> HIDE DEF u
  <1>4. Resided(s, u, {r, q}, A, B)
    <2> HIDE DEF A, B
    <2> QED
      BY <1>2, <1>3, ResideFields
  <1>5. SameEntries(s, u) /\ SameInside(s, u)
    BY <1>4 DEF Resided
  <1>6. ASSUME NEW x \in ReserveId
        PROVE  /\ u.ob.outside[x] = IF x \in {r, q} THEN B[x] ELSE s.ob.outside[x]
               /\ u.res[x].outside = IF x \in {r, q} THEN A[x] ELSE s.res[x].outside
               /\ s.res[x].outside \in Nat /\ s.ob.outside[x] \in Nat
    BY <1>4, BookTypes DEF Resided
  <1> QED
    BY <1>5, <1>6 DEF u

\* The collateral of s, and stale.
SameCollateral(s, t) ==
    t.ob.fresh = FALSE /\ t.ob.deposited = s.ob.deposited /\ t.ob.group = s.ob.group

RolledOver(s, r, q, n) ==
    LET moved == owed(settled(s, r, calculate_repay(s, r, n)), q, n * SF)
    IN  stale(touched(touched(on_rollover(moved, r, q, n), r), q))

\* The rolled debt leaves one counter and enters the other in whole units; an
\* exact share stays exact in both.
LEMMA RolloverMoves ==
    ASSUME NEW s, Sane(s), Shares(s.ob, 0), ~InGroup(s.ob),
           NEW r \in ReserveId, NEW q \in ReserveId, r # q,
           NEW n \in Nat \ {0}, s.ob.borrowed_sf[r] # 0, n <= Ceil(s.ob.borrowed_sf[r])
    PROVE  LET t == RolledOver(s, r, q, n)
           IN  /\ Sane(t) /\ Member(t.ob) /\ Shares(t.ob, 1) /\ Others(s, t)
               /\ SameCollateral(s, t)
  <1> DEFINE d == s.ob.borrowed_sf[r]
             p == calculate_repay(s, r, n)
             b == n * SF
             y == settled(s, r, p)
             m == owed(y, q, b)
             u == on_rollover(m, r, q, n)
             v == touched(u, r)
             w == touched(v, q)
             t == stale(w)
  <1>1. s \in Books /\ d \in Nat \ {0} /\ b \in Nat /\ Ceil(b) = n /\ Ceil(d) \in Nat
    BY BookTypes, CeilWhole, CeilGap DEF Sane
  \* What is paid: everything, when n is all units of the debt; else n units.
  <1>2. /\ p \in Nat /\ p <= d
        /\ p = d => n = Ceil(d)
        /\ p # d => p = b /\ d - p \in Nat /\ Ceil(d - p) = Ceil(d) - n
    <2>1. p = Lesser(b, d)
      BY DEF calculate_repay
    <2> HIDE DEF p, b, d
    <2>2. CASE b <= d
      <3>1. p = b
        BY <2>1, <2>2 DEF Lesser
      <3> DEFINE e == d - b
      <3>2. e \in Nat /\ d = e + b
        BY <1>1, <2>2
      <3> HIDE DEF e
      <3>3. Ceil(d) = Ceil(e) + n /\ Ceil(e) \in Nat
        BY <3>2, CeilWhole, CeilGap DEF b
      <3>4. b = d => n = Ceil(d)
        BY <1>1
      <3> QED
        BY <1>1, <2>2, <3>1, <3>3, <3>4 DEF e
    <2>3. CASE ~(b <= d)
      <3>1. p = d /\ d <= b
        BY <1>1, <2>1, <2>3 DEF Lesser
      <3>2. d < Ceil(d) * SF + 1 /\ Ceil(d) * SF < d + SF
        BY <1>1, CeilGap, ScaleAssumption
      <3>3. n >= Ceil(d)
        <4> DEFINE c == Ceil(d)
        <4>1. c * SF < d + SF /\ c \in Nat /\ SF \in Nat \ {0}
          BY <1>1, <3>2, ScaleAssumption
        <4> HIDE DEF c
        <4>2. c * SF \in Nat /\ (n + 1) * SF = b + SF
          BY <1>1, <4>1 DEF b
        <4>3. c * SF < (n + 1) * SF
          BY <1>1, <3>1, <4>1, <4>2
        <4>4. c < n + 1
          BY <1>1, <4>1, <4>3, ProductCancel
        <4> QED
          BY <1>1, <4>1, <4>4 DEF c
      <3>4. n = Ceil(d)
        BY <1>1, <3>3 DEF d
      <3> QED
        BY <1>1, <3>1, <3>4
    <2> QED
      BY <2>2, <2>3
  <1> HIDE DEF p, b
  <1>3. /\ y \in Books /\ y.res = s.res
        /\ y.ob.group = s.ob.group /\ y.ob.deposited = s.ob.deposited
        /\ y.ob.against = s.ob.against
        /\ \A x \in ReserveId :
              /\ y.ob.borrowed_sf[x] = s.ob.borrowed_sf[x] - (IF x = r THEN p ELSE 0)
              /\ y.ob.rate[x] = IF x = r /\ p = d THEN 0 ELSE s.ob.rate[x]
              /\ y.ob.outside[x] = IF x = r /\ p = d THEN 0 ELSE s.ob.outside[x]
    BY <1>1, <1>2, SettledFields
  <1> HIDE DEF y
  <1>4. /\ m \in Books /\ m.res = y.res
        /\ m.ob.group = y.ob.group /\ m.ob.deposited = y.ob.deposited
        /\ m.ob.against = y.ob.against /\ m.ob.outside = y.ob.outside
        /\ \A x \in ReserveId :
              /\ m.ob.borrowed_sf[x] = y.ob.borrowed_sf[x] + (IF x = q THEN b ELSE 0)
              /\ m.ob.rate[x] = IF x = q /\ y.ob.borrowed_sf[x] = 0 THEN y.res[q].rate
                                                                   ELSE y.ob.rate[x]
    <2>1. b \in Nat /\ y \in Books
      BY <1>1, <1>3
    <2> HIDE DEF d
    <2>2. Owes(y, m, q, b)
      BY <2>1, OwedFields
    <2> HIDE DEF m
    <2> QED
      BY <2>2 DEF Owes
  <1> HIDE DEF m
  <1>5. /\ SameEntries(m, u) /\ SameInside(m, u)
        /\ \A x \in ReserveId :
              /\ u.res[x].outside =
                    IF x = r THEN saturating_sub(m.res[x].outside, n)
                    ELSE m.res[x].outside + (IF x = q THEN n ELSE 0)
              /\ u.ob.outside[x] =
                    IF x = r THEN IF m.ob.borrowed_sf[r] # 0
                                  THEN saturating_sub(m.ob.outside[x], n)
                                  ELSE m.ob.outside[x]
                    ELSE m.ob.outside[x] + (IF x = q THEN n ELSE 0)
    BY <1>4, OnRolloverFields
  <1> HIDE DEF u
  <1>6. u \in Books /\ Neutral(u, v)
    BY <1>5, TouchedNeutral DEF SameEntries
  <1>7. v \in Books
    BY <1>6 DEF Neutral
  <1> HIDE DEF v
  <1>8. Neutral(v, w)
    BY <1>7, TouchedNeutral
  <1>9. w \in Books
    BY <1>8 DEF Neutral
  <1> HIDE DEF w
  <1>10. Neutral(w, t) /\ t.ob.fresh = FALSE
    BY <1>9, StaleNeutral
  <1> HIDE DEF t
  <1>11. /\ t \in Books /\ t.ob.group = s.ob.group /\ t.ob.deposited = s.ob.deposited
         /\ t.ob.against = s.ob.against
         /\ \A x \in ReserveId :
               /\ t.ob.borrowed_sf[x] = m.ob.borrowed_sf[x] /\ t.ob.rate[x] = m.ob.rate[x]
               /\ t.ob.outside[x] = u.ob.outside[x] /\ t.res[x].outside = u.res[x].outside
               /\ t.res[x].against = s.res[x].against /\ t.res[x].rate = s.res[x].rate
    <2>1. /\ u.ob.group = s.ob.group /\ u.ob.deposited = s.ob.deposited
          /\ u.ob.against = s.ob.against
          /\ u.ob.borrowed_sf = m.ob.borrowed_sf /\ u.ob.rate = m.ob.rate
          /\ \A x \in ReserveId : /\ u.res[x].against = s.res[x].against
                                  /\ u.res[x].rate = s.res[x].rate
      BY <1>3, <1>4, <1>5 DEF SameEntries, SameInside
    <2> QED
      BY <1>6, <1>8, <1>10, <2>1 DEF Neutral
  <1>12. ASSUME NEW x \in ReserveId
         PROVE  /\ s.ob.deposited[x] \in Nat /\ s.ob.against[x] \in Nat
                /\ s.ob.borrowed_sf[x] \in Nat /\ s.ob.rate[x] \in Nat /\ s.ob.outside[x] \in Nat
                /\ s.res[x].rate \in Nat \ {0} /\ s.res[x].outside \in Nat
                /\ Orderly(s.ob, x) /\ Rated(s, x) /\ Covered(s, x)
                /\ s.ob.outside[x] <= s.res[x].outside
                /\ s.ob.outside[x] = Ceil(s.ob.borrowed_sf[x])
    <2>1. Within(s.ob.outside[x], Ceil(s.ob.borrowed_sf[x]), 0)
      BY DEF Shares
    <2>2. s.ob.outside[x] \in Nat /\ s.ob.borrowed_sf[x] \in Nat
      BY <1>1, BookTypes
    <2>3. s.ob.outside[x] = Ceil(s.ob.borrowed_sf[x])
      BY <2>1, <2>2, Exactly, CeilGap
    <2>4. Covered(s, x)
      BY DEF Sane
    <2>5. s.ob.outside[x] <= s.res[x].outside
      BY <2>4 DEF Covered
    <2> QED
      BY <1>1, <2>3, <2>4, <2>5, BookTypes DEF Sane
  <1>13. s.ob.outside[r] = Ceil(d) /\ n <= Ceil(d)
    BY <1>12
  \* The reserve that is left, the reserve that is entered, and the rest.
  <1>14. /\ t.ob.borrowed_sf[r] = d - p
         /\ t.ob.rate[r] = IF p = d THEN 0 ELSE s.ob.rate[r]
         /\ t.ob.outside[r] = s.ob.outside[r] - n
         /\ t.res[r].outside = s.res[r].outside - n
         /\ t.ob.outside[r] = Ceil(t.ob.borrowed_sf[r])
    <2>1. /\ m.ob.borrowed_sf[r] = d - p /\ m.ob.rate[r] = IF p = d THEN 0 ELSE s.ob.rate[r]
          /\ m.ob.outside[r] = IF p = d THEN 0 ELSE s.ob.outside[r]
          /\ m.res[r].outside = s.res[r].outside
      <3>1. y.ob.borrowed_sf[r] = d - p /\ d - p \in Nat
        BY <1>1, <1>2, <1>3
      <3> QED
        BY <1>3, <1>4, <3>1
    <2>2. t.res[r].outside = s.res[r].outside - n
      <3>1. t.res[r].outside = saturating_sub(s.res[r].outside, n)
        BY <1>5, <1>11, <2>1
      <3>2. n <= s.res[r].outside
        BY <1>1, <1>12, <1>13
      <3> QED
        BY <1>12, <3>1, <3>2 DEF saturating_sub
    <2>3. CASE p = d
      <3>1. m.ob.borrowed_sf[r] = 0 /\ m.ob.outside[r] = 0
        BY <1>1, <2>1, <2>3
      <3>2. t.ob.outside[r] = 0
        BY <1>5, <1>11, <3>1
      <3>3. t.ob.borrowed_sf[r] = 0
        BY <1>11, <3>1
      <3> QED
        BY <1>1, <1>2, <1>11, <1>13, <2>1, <2>2, <2>3, <3>2, <3>3, CeilZero
    <2>4. CASE p # d
      <3>1. m.ob.borrowed_sf[r] # 0 /\ m.ob.outside[r] = s.ob.outside[r]
        BY <1>1, <1>2, <2>1, <2>4
      <3>2. t.ob.outside[r] = saturating_sub(s.ob.outside[r], n)
        BY <1>5, <1>11, <3>1
      <3>3. t.ob.outside[r] = Ceil(d) - n
        BY <1>1, <1>13, <3>2 DEF saturating_sub
      <3> QED
        BY <1>2, <1>11, <1>13, <2>1, <2>2, <2>4, <3>3
    <2> QED
      BY <2>3, <2>4
  <1>15. ASSUME NEW x \in ReserveId, x # r
         PROVE  /\ t.ob.borrowed_sf[x] = s.ob.borrowed_sf[x] + (IF x = q THEN b ELSE 0)
                /\ t.ob.rate[x] = IF x = q /\ s.ob.borrowed_sf[x] = 0 THEN s.res[q].rate
                                                                     ELSE s.ob.rate[x]
                /\ t.ob.outside[x] = s.ob.outside[x] + (IF x = q THEN n ELSE 0)
                /\ t.res[x].outside = s.res[x].outside + (IF x = q THEN n ELSE 0)
                /\ t.ob.outside[x] = Ceil(t.ob.borrowed_sf[x])
    <2>1. /\ t.ob.borrowed_sf[x] = s.ob.borrowed_sf[x] + (IF x = q THEN b ELSE 0)
          /\ t.ob.rate[x] = IF x = q /\ s.ob.borrowed_sf[x] = 0 THEN s.res[q].rate
                                                               ELSE s.ob.rate[x]
      <3>1. y.ob.borrowed_sf[x] = s.ob.borrowed_sf[x] /\ y.ob.rate[x] = s.ob.rate[x]
        BY <1>3, <1>12, <1>15
      <3> QED
        BY <1>3, <1>4, <1>11, <3>1
    <2>2. /\ t.ob.outside[x] = s.ob.outside[x] + (IF x = q THEN n ELSE 0)
          /\ t.res[x].outside = s.res[x].outside + (IF x = q THEN n ELSE 0)
      BY <1>3, <1>4, <1>5, <1>11, <1>15
    <2>3. Ceil(s.ob.borrowed_sf[x] + b) = Ceil(s.ob.borrowed_sf[x]) + n
      BY <1>12, CeilWhole DEF b
    <2> QED
      BY <1>12, <2>1, <2>2, <2>3
  <1>16. ~InGroup(t.ob)
    BY <1>11 DEF InGroup
  <1>17. \A x \in ReserveId, g \in Group : ShareIn(t.ob, x, g) = ShareIn(s.ob, x, g)
    BY <1>11 DEF ShareIn
  <1>18. \A x \in ReserveId :
            /\ t.ob.borrowed_sf[x] \in Nat /\ t.ob.outside[x] \in Nat /\ t.ob.rate[x] \in Nat
            /\ t.ob.outside[x] = Ceil(t.ob.borrowed_sf[x])
    BY <1>11, <1>14, <1>15, BookTypes
  <1>19. ASSUME NEW x \in ReserveId
         PROVE  /\ Orderly(t.ob, x) /\ Rated(t, x) /\ Covered(t, x)
                /\ t.res[x].outside - t.ob.outside[x] = s.res[x].outside - s.ob.outside[x]
    <2>1. Orderly(t.ob, x)
      <3>1. t.ob.borrowed_sf[x] = 0 => t.ob.outside[x] = 0
        BY <1>18, CeilZero
      <3> QED
        BY <1>11, <1>12, <1>16, <3>1 DEF Orderly
    <2>2. /\ t.res[x].outside - t.ob.outside[x] = s.res[x].outside - s.ob.outside[x]
          /\ t.ob.outside[x] <= t.res[x].outside
      <3>1. CASE x = r
        BY <1>1, <1>12, <1>14, <3>1
      <3>2. CASE x # r
        BY <1>1, <1>12, <1>15, <3>2
      <3> QED
        BY <3>1, <3>2
    <2>3. Rated(t, x)
      <3>1. CASE x = r
        <4>1. p = d => t.ob.borrowed_sf[x] = 0
          BY <1>1, <1>14, <3>1
        <4> QED
          BY <1>1, <1>11, <1>12, <1>14, <3>1, <4>1 DEF Rated
      <3>2. CASE x # r /\ x = q /\ s.ob.borrowed_sf[x] = 0
        BY <1>11, <1>12, <1>15, <3>2 DEF Rated
      <3>3. CASE x # r /\ (x # q \/ s.ob.borrowed_sf[x] # 0)
        <4>1. t.ob.rate[x] = s.ob.rate[x] /\ t.res[x].rate = s.res[x].rate
          BY <1>11, <1>15, <3>3
        <4>2. s.ob.borrowed_sf[x] = 0 => t.ob.borrowed_sf[x] = 0
          BY <1>12, <1>15, <3>3
        <4> QED
          BY <1>12, <4>1, <4>2 DEF Rated
      <3> QED
        BY <3>1, <3>2, <3>3
    <2>4. Covered(t, x)
      BY <1>11, <1>12, <1>17, <2>2 DEF Covered
    <2> QED
      BY <2>1, <2>2, <2>3, <2>4
  <1>20. Sane(t) /\ Others(s, t)
    BY <1>11, <1>17, <1>19 DEF Sane, Others
  <1>21. Shares(t.ob, 1)
    BY <1>16, <1>18, Exactly DEF Shares
  <1>22. Member(t.ob)
    BY <1>16 DEF Member
  <1> QED
    BY <1>10, <1>11, <1>20, <1>21, <1>22
       DEF RolledOver, SameCollateral, t, w, v, u, m, y, p, b

Good(s, k) == Sane(s) /\ Member(s.ob) /\ Shares(s.ob, k)

LEMMA NeutralGood ==
    ASSUME NEW s, NEW k, Good(s, k), NEW t, Neutral(s, t)
    PROVE  /\ Good(t, k) /\ Others(s, t)
           /\ t.ob.group = s.ob.group /\ t.ob.deposited = s.ob.deposited
  <1>1. s \in Books
    BY DEF Good, Sane
  <1> QED
    BY <1>1, NeutralKeeps DEF Good, Neutral

\* Marking a reserve stale or refreshing it.
LEMMA MarkGood ==
    ASSUME NEW s, NEW k, Good(s, k), NEW r \in ReserveId, NEW t \in {touched(s, r), refreshed(s, r)}
    PROVE  Good(t, k) /\ Others(s, t) /\ t.ob = s.ob
  <1>1. s \in Books
    BY DEF Good, Sane
  <1>2. Neutral(s, t) /\ t.ob = s.ob
    BY <1>1, TouchedNeutral
  <1> QED
    BY <1>2, NeutralGood

\* WithdrawMoves, for collateral that leaves exact shares or shares in a unit.
LEMMA WithdrawGood ==
    ASSUME NEW s, NEW k \in {0, 1}, Good(s, k), NEW q \in ReserveId, NEW c \in Nat \ {0},
           c <= s.ob.deposited[q], NEW t, t = withdraw_obligation_collateral(s, q, c)
    PROVE  Good(t, k) /\ Others(s, t) /\ Drawn(s, t, q, c)
  <1>1. Sane(s) /\ Member(s.ob) /\ Shares(s.ob, k)
    BY DEF Good
  <1> QED
    BY <1>1, WithdrawMoves DEF Good

LEMMA DrawnFewer ==
    ASSUME NEW s \in Books, NEW t, NEW q \in ReserveId, NEW c \in Nat \ {0},
           c <= s.ob.deposited[q], Drawn(s, t, q, c)
    PROVE  Deposits(t.ob) \subseteq Deposits(s.ob)
  <1> SUFFICES ASSUME NEW x \in ReserveId, t.ob.deposited[x] # 0 PROVE s.ob.deposited[x] # 0
    BY DEF Deposits
  <1>1. s.ob.deposited[x] \in Nat
    BY BookTypes
  <1>2. t.ob.deposited[x] = s.ob.deposited[x] - (IF x = q THEN c ELSE 0)
    BY DEF Drawn
  <1> QED
    BY <1>1, <1>2

LEMMA LiquidatedMoves ==
    ASSUME NEW s, Good(s, 0), NEW r \in ReserveId, NEW q \in ReserveId,
           NEW a \in Nat \ {0}, a <= s.ob.borrowed_sf[r],
           NEW c \in Nat \ {0}, c <= s.ob.deposited[q]
    PROVE  LET t == liquidated(s, r, q, a, c)
           IN  /\ Good(t, 1) /\ Others(s, t)
               /\ t.ob.fresh = FALSE /\ t.ob.group = s.ob.group
               /\ Deposits(t.ob) \subseteq Deposits(s.ob)
  <1> DEFINE p == repaid(s, r, a)
             left == withdrawn(p, q, c)
             t == liquidated(s, r, q, a, c)
  <1>1. /\ Sane(p) /\ Member(p.ob) /\ Shares(p.ob, 1) /\ Others(s, p)
        /\ p.ob.fresh = FALSE /\ p.ob.deposited = s.ob.deposited /\ p.ob.group = s.ob.group
    BY RepaidMoves DEF Good
  <1>2. t = IF q \in Deposits(left.ob) THEN left ELSE on_full_withdraw(left, q, p.ob.against[q])
    BY DEF liquidated
  <1> HIDE DEF p, t
  <1>3. left \in Books /\ left.ob.fresh = FALSE
    BY <1>1, WithdrawnFields DEF Sane
  <1>4. stale(left) = left
    BY <1>3, StaleIdle
  <1>5. t = withdraw_obligation_collateral(p, q, c)
    BY <1>2, <1>4 DEF withdraw_obligation_collateral
  <1>6. Good(t, 1) /\ Others(p, t) /\ Drawn(p, t, q, c)
    <2>1. c <= p.ob.deposited[q] /\ Good(p, 1)
      BY <1>1 DEF Good
    <2> QED
      BY <1>5, <2>1, WithdrawGood
  <1>7. Others(s, t)
    BY <1>1, <1>6, OthersTrans
  <1>8. Deposits(t.ob) \subseteq Deposits(p.ob)
    <2>1. p \in Books /\ c \in Nat \ {0} /\ c <= p.ob.deposited[q]
      BY <1>1 DEF Sane
    <2> QED
      BY <1>6, <2>1, DrawnFewer
  <1>9. Deposits(t.ob) \subseteq Deposits(s.ob)
    BY <1>1, <1>8 DEF Deposits
  <1>10. t.ob.fresh = FALSE /\ t.ob.group = p.ob.group
    BY <1>6 DEF Drawn
  <1> QED
    BY <1>1, <1>6, <1>7, <1>9, <1>10 DEF t

\* The states of a swap of collateral: when r is deposited and all is up to date,
\* when q is withdrawn, and at the end.
UpToDate(s, r, c) == refresh_obligation(refreshed(deposit_obligation_collateral(s, r, c), r))
Left(s, r, q, c, d) ==
    refreshed(touched(withdraw_obligation_collateral(UpToDate(s, r, c), q, d), q), q)
Swapped(s, r, q, c, d) == stale(touched(refresh_obligation(Left(s, r, q, c, d)), q))

\* One collateral for another: five steps, each of which keeps the books.
LEMMA SwapMoves ==
    ASSUME NEW s, Good(s, 0), NEW r \in ReserveId, NEW q \in ReserveId,
           NEW c \in Nat \ {0}, NEW d \in Nat \ {0}, CanDeposit(s, r, FALSE),
           d <= UpToDate(s, r, c).ob.deposited[q]
    PROVE  LET t == Swapped(s, r, q, c, d)
           IN  Good(t, 0) /\ Others(s, t) /\ SameCollateral(Left(s, r, q, c, d), t)
  <1> DEFINE a1 == deposit_obligation_collateral(s, r, c)
             a2 == refreshed(a1, r)
             a3 == refresh_obligation(a2)
             a4 == withdraw_obligation_collateral(a3, q, d)
             a5 == touched(a4, q)
             a6 == refreshed(a5, q)
             a7 == refresh_obligation(a6)
             a8 == touched(a7, q)
             t == stale(a8)
  <1>1. Good(a1, 0) /\ Others(s, a1) /\ a1.ob.group = s.ob.group
    <2>1. /\ InGroup(s.ob) => s.ob.group \in elevation_groups[r]
          /\ InGroup(s.ob) /\ s.ob.deposited[r] = 0 => r # debt_reserve[s.ob.group]
      BY DEF CanDeposit, Deposits
    <2> QED
      BY <2>1, DepositMoves DEF Good
  <1>0. /\ d <= a3.ob.deposited[q]
        /\ t = Swapped(s, r, q, c, d) /\ a6 = Left(s, r, q, c, d)
    BY DEF UpToDate, Left, Swapped
  <1> HIDE DEF a1
  <1>2. Good(a2, 0) /\ Others(a1, a2) /\ a2.ob.group = s.ob.group
    BY <1>1, MarkGood
  <1> HIDE DEF a2
  <1>3. Good(a3, 0) /\ Others(a2, a3) /\ a3.ob.group = s.ob.group
    BY <1>2, RefreshMoves DEF Good
  <1> HIDE DEF a3
  <1>4. Good(a4, 0) /\ Others(a3, a4) /\ a4.ob.group = s.ob.group
    <2>1. Good(a4, 0) /\ Others(a3, a4) /\ Drawn(a3, a4, q, d)
      BY <1>0, <1>3, WithdrawGood
    <2> QED
      BY <1>3, <2>1 DEF Drawn
  <1> HIDE DEF a4
  <1>5. Good(a5, 0) /\ Others(a4, a5) /\ a5.ob.group = s.ob.group
    BY <1>4, MarkGood
  <1> HIDE DEF a5
  <1>6. Good(a6, 0) /\ Others(a5, a6) /\ a6.ob.group = s.ob.group
    BY <1>5, MarkGood
  <1> HIDE DEF a6
  <1>7. /\ Good(a7, 0) /\ Others(a6, a7) /\ a7.ob.group = s.ob.group
        /\ a7.ob.deposited = a6.ob.deposited
    BY <1>6, RefreshMoves DEF Good
  <1> HIDE DEF a7
  <1>8. /\ Good(a8, 0) /\ Others(a7, a8) /\ a8.ob = a7.ob
    BY <1>7, MarkGood
  <1> HIDE DEF a8
  <1>9. Neutral(a8, t) /\ t.ob.fresh = FALSE
    BY <1>8, StaleNeutral DEF Good, Sane
  <1>10. /\ Good(t, 0) /\ Others(a8, t)
         /\ t.ob.group = s.ob.group /\ t.ob.deposited = a6.ob.deposited
    BY <1>7, <1>8, <1>9, NeutralGood
  <1> HIDE DEF t
  <1>11. Others(s, t)
    <2>1. Others(s, a3)
      BY <1>1, <1>2, <1>3, OthersTrans
    <2>2. Others(s, a5)
      BY <2>1, <1>4, <1>5, OthersTrans
    <2>3. Others(s, a7)
      BY <2>2, <1>6, <1>7, OthersTrans
    <2> QED
      BY <2>3, <1>8, <1>10, OthersTrans
  <1> QED
    BY <1>0, <1>6, <1>9, <1>10, <1>11 DEF SameCollateral

-----------------------------------------------------------------------------
(* The inductive invariant                                                 *)

OutsideShares(x) == [o \in ObligationId |-> obligation[o].outside[x]]
InsideShares(x, g) == [o \in ObligationId |-> ShareIn(obligation[o], x, g)]

\* The counters are sums over all obligations.
SharesCounted ==
    \A x \in ReserveId :
        /\ reserve[x].outside = SumFunctionOnSet(OutsideShares(x), ObligationId)
        /\ \A g \in Group :
              reserve[x].against[g] = SumFunctionOnSet(InsideShares(x, g), ObligationId)

Few(ob) == InGroup(ob) => Cardinality(Deposits(ob)) <= max_reserves_as_collateral[ob.group]

\* Shares are exact from a refresh to the next instruction that moves the debt.
Kept(ob) ==
    /\ Member(ob) /\ Few(ob)
    /\ Shares(ob, 1)
    /\ ob.fresh => Shares(ob, 0)

Inv ==
    /\ TypeOK
    /\ SharesCounted
    /\ \A o \in ObligationId :
          /\ Kept(obligation[o])
          /\ \A x \in ReserveId : Orderly(obligation[o], x) /\ Rated(At(o), x)

-----------------------------------------------------------------------------
(* The invariant before and after an instruction                           *)

LEMMA SharesAreNat ==
    ASSUME TypeOK
    PROVE  /\ IsFiniteSet(ObligationId)
           /\ \A o \in ObligationId : At(o) \in Books
           /\ \A x \in ReserveId :
                 /\ NatOn(OutsideShares(x), ObligationId)
                 /\ \A g \in Group : NatOn(InsideShares(x, g), ObligationId)
  <1>1. IsFiniteSet(ObligationId)
    BY GroupAssumption
  <1>2. \A o \in ObligationId : At(o) \in Books
    BY DEF TypeOK, At, Books
  <1>3. ASSUME NEW x \in ReserveId, NEW o \in ObligationId
        PROVE  /\ obligation[o].outside[x] \in Nat
               /\ \A g \in Group : ShareIn(obligation[o], x, g) \in Nat
    <2>1. At(o).ob = obligation[o]
      BY DEF At
    <2> QED
      BY <1>2, <2>1, BookTypes
  <1> QED
    BY <1>1, <1>2, <1>3 DEF NatOn, OutsideShares, InsideShares

\* Nobody's share exceeds the counter it is part of.
LEMMA InvGood ==
    ASSUME Inv, NEW o \in ObligationId
    PROVE  Good(At(o), 1) /\ (obligation[o].fresh => Good(At(o), 0))
  <1> DEFINE s == At(o)
  <1>1. s.ob = obligation[o] /\ s.res = reserve
    BY DEF At
  <1> HIDE DEF s
  <1>2. s \in Books /\ IsFiniteSet(ObligationId)
    BY SharesAreNat DEF Inv, s
  <1>3. ASSUME NEW x \in ReserveId PROVE Covered(s, x)
    <2>1. s.ob.outside[x] <= s.res[x].outside
      <3>1. OutsideShares(x)[o] <= SumFunctionOnSet(OutsideShares(x), ObligationId)
        BY <1>2, SharesAreNat, SumAtLeast DEF Inv
      <3>2. OutsideShares(x)[o] = s.ob.outside[x]
        BY <1>1 DEF OutsideShares
      <3> QED
        BY <1>1, <3>1, <3>2 DEF Inv, SharesCounted
    <2>2. ASSUME NEW g \in Group PROVE ShareIn(s.ob, x, g) <= s.res[x].against[g]
      <3>1. InsideShares(x, g)[o] <= SumFunctionOnSet(InsideShares(x, g), ObligationId)
        BY <1>2, SharesAreNat, SumAtLeast DEF Inv
      <3>2. InsideShares(x, g)[o] = ShareIn(s.ob, x, g)
        BY <1>1 DEF InsideShares
      <3> QED
        BY <1>1, <3>1, <3>2 DEF Inv, SharesCounted
    <2> QED
      BY <2>1, <2>2 DEF Covered
  <1>4. Sane(s)
    BY <1>1, <1>2, <1>3 DEF Inv, Sane, s
  <1> QED
    BY <1>1, <1>4 DEF Inv, Kept, Good, s

LEMMA ExactShares ==
    ASSUME NEW s \in Books, Shares(s.ob, 0)
    PROVE  Shares(s.ob, 1)
  <1>1. \A x \in ReserveId :
           /\ s.ob.against[x] \in Nat /\ s.ob.outside[x] \in Nat
           /\ Ceil(s.ob.borrowed_sf[x]) \in Nat
    BY BookTypes, CeilGap
  <1>2. InGroup(s.ob) => Debt(s.ob) \in Nat
    BY DebtType
  <1> QED
    BY <1>1, <1>2, Exactly DEF Shares

\* One instruction on one obligation: it keeps its own books, and leaves what
\* the counters hold of the others.
LEMMA InvStep ==
    ASSUME Inv, NEW o \in ObligationId, NEW t, Becomes(o, t), NEW k \in {0, 1}, Good(t, k),
           Others(At(o), t), Few(t.ob), t.ob.fresh = TRUE => k = 0
    PROVE  Inv'
  <1>1. /\ reserve' = t.res /\ obligation' = [obligation EXCEPT ![o] = t.ob]
        /\ At(o).res = reserve /\ At(o).ob = obligation[o]
    BY DEF Becomes, At
  <1>2. t \in Books /\ \A x \in ReserveId : Orderly(t.ob, x) /\ Rated(t, x)
    BY DEF Good, Sane
  <1>3. TypeOK /\ SharesCounted
    BY DEF Inv
  <1>4. /\ obligation'[o] = t.ob
        /\ \A p \in ObligationId \ {o} : obligation'[p] = obligation[p]
    BY <1>1, <1>3 DEF TypeOK
  <1>5. TypeOK'
    BY <1>1, <1>2, <1>3 DEF TypeOK, Books
  <1>6. ASSUME NEW x \in ReserveId
        PROVE  /\ t.res[x].rate = reserve[x].rate
               /\ t.res[x].outside - t.ob.outside[x] = reserve[x].outside - obligation[o].outside[x]
               /\ \A g \in Group : t.res[x].against[g] - ShareIn(t.ob, x, g)
                                     = reserve[x].against[g] - ShareIn(obligation[o], x, g)
    BY <1>1 DEF Others
  <1>7. ASSUME NEW x \in ReserveId
        PROVE  /\ t.res[x].outside \in Nat /\ t.ob.outside[x] \in Nat
               /\ reserve[x].outside \in Nat /\ obligation[o].outside[x] \in Nat
               /\ \A g \in Group : /\ t.res[x].against[g] \in Nat
                                   /\ ShareIn(t.ob, x, g) \in Nat
                                   /\ reserve[x].against[g] \in Nat
                                   /\ ShareIn(obligation[o], x, g) \in Nat
    <2>1. At(o) \in Books
      BY <1>3, SharesAreNat
    <2> QED
      BY <1>1, <1>2, <2>1, BookTypes
  <1>8. SharesCounted'
    <2>0. IsFiniteSet(ObligationId)
      BY GroupAssumption
    <2> SUFFICES ASSUME NEW x \in ReserveId
                 PROVE  /\ reserve'[x].outside
                              = SumFunctionOnSet(OutsideShares(x)', ObligationId)
                        /\ \A g \in Group : reserve'[x].against[g]
                              = SumFunctionOnSet(InsideShares(x, g)', ObligationId)
      BY DEF SharesCounted
    <2>1. reserve'[x].outside = SumFunctionOnSet(OutsideShares(x)', ObligationId)
      <3> DEFINE f == OutsideShares(x)
                 h == OutsideShares(x)'
      <3>1. NatOn(f, ObligationId)
        BY <1>3, SharesAreNat
      <3>2. /\ f[o] = obligation[o].outside[x] /\ h[o] = t.ob.outside[x]
            /\ \A p \in ObligationId \ {o} : h[p] = f[p]
        BY <1>4 DEF OutsideShares
      <3>3. NatOn(h, ObligationId)
        BY <1>7, <3>1, <3>2 DEF NatOn
      <3>4. SumFunctionOnSet(f, ObligationId) = reserve[x].outside
        BY <1>3 DEF SharesCounted
      <3> HIDE DEF f, h
      <3>5. SumFunctionOnSet(h, ObligationId)
              = SumFunctionOnSet(f, ObligationId) - f[o] + h[o]
        BY <2>0, <3>1, <3>2, <3>3, SumUpdate
      <3>6. t.res[x].outside = SumFunctionOnSet(h, ObligationId)
        BY <1>6, <1>7, <3>2, <3>4, <3>5
      <3> QED
        BY <1>1, <3>6 DEF h
    <2>2. ASSUME NEW g \in Group
          PROVE  reserve'[x].against[g] = SumFunctionOnSet(InsideShares(x, g)', ObligationId)
      <3> DEFINE f == InsideShares(x, g)
                 h == InsideShares(x, g)'
      <3>1. NatOn(f, ObligationId)
        BY <1>3, SharesAreNat
      <3>2. /\ f[o] = ShareIn(obligation[o], x, g) /\ h[o] = ShareIn(t.ob, x, g)
            /\ \A p \in ObligationId \ {o} : h[p] = f[p]
        BY <1>4 DEF InsideShares
      <3>3. NatOn(h, ObligationId)
        BY <1>7, <3>1, <3>2 DEF NatOn
      <3>4. SumFunctionOnSet(f, ObligationId) = reserve[x].against[g]
        BY <1>3 DEF SharesCounted
      <3> HIDE DEF f, h
      <3>5. SumFunctionOnSet(h, ObligationId)
              = SumFunctionOnSet(f, ObligationId) - f[o] + h[o]
        BY <2>0, <3>1, <3>2, <3>3, SumUpdate
      <3>6. t.res[x].against[g] = SumFunctionOnSet(h, ObligationId)
        BY <1>6, <1>7, <3>2, <3>4, <3>5
      <3> QED
        BY <1>1, <3>6 DEF h
    <2> QED
      BY <2>1, <2>2
  <1>9. ASSUME NEW p \in ObligationId
        PROVE  /\ Kept(obligation'[p])
               /\ \A x \in ReserveId : Orderly(obligation'[p], x) /\ Rated(At(p)', x)
    <2>1. At(p)'.res = t.res /\ At(p)'.ob = obligation'[p]
      BY <1>1 DEF At
    <2>2. CASE p = o
      <3>1. Kept(t.ob)
        <4>1. Shares(t.ob, 1)
          <5>1. CASE k = 1
            BY <5>1 DEF Good
          <5>2. CASE k = 0
            BY <1>2, <5>2, ExactShares DEF Good
          <5> QED
            BY <5>1, <5>2
        <4>2. t.ob.fresh => Shares(t.ob, 0)
          BY <1>2 DEF Good, Books, ObligationAccount
        <4> QED
          BY <4>1, <4>2 DEF Kept, Good
      <3> QED
        BY <1>2, <1>4, <2>1, <2>2, <3>1 DEF Rated
    <2>3. CASE p # o
      <3>1. obligation'[p] = obligation[p] /\ At(p).ob = obligation[p] /\ At(p).res = reserve
        BY <1>4, <2>3 DEF At
      <3>2. \A x \in ReserveId : Rated(At(p), x) /\ Orderly(obligation[p], x)
        BY DEF Inv
      <3>3. \A x \in ReserveId : Rated(At(p)', x)
        BY <1>6, <2>1, <3>1, <3>2 DEF Rated
      <3> QED
        BY <3>1, <3>2, <3>3 DEF Inv
    <2> QED
      BY <2>2, <2>3
  <1> QED
    BY <1>5, <1>8, <1>9 DEF Inv

LEMMA FewFewer ==
    ASSUME NEW a \in ObligationAccount, NEW b, Few(a),
           b.group = a.group, Deposits(b) \subseteq Deposits(a)
    PROVE  Few(b)
  <1>1. IsFiniteSet(ReserveId)
    BY GroupAssumption
  <1>2. Deposits(a) \subseteq ReserveId
    BY DEF Deposits
  <1>3. IsFiniteSet(Deposits(a))
    BY <1>1, <1>2, FS_Subset
  <1>4. Cardinality(Deposits(b)) <= Cardinality(Deposits(a))
    BY <1>3, FS_Subset
  <1>5. Cardinality(Deposits(a)) \in Nat /\ Cardinality(Deposits(b)) \in Nat
    BY <1>3, FS_Subset, FS_CardinalityType
  <1> SUFFICES ASSUME InGroup(a)
               PROVE  Cardinality(Deposits(b)) <= max_reserves_as_collateral[a.group]
    BY DEF Few, InGroup
  <1>6. Cardinality(Deposits(a)) <= max_reserves_as_collateral[a.group]
    BY DEF Few
  <1> DEFINE m == max_reserves_as_collateral[a.group]
             c == Cardinality(Deposits(a))
             d == Cardinality(Deposits(b))
  <1>7. d <= c /\ c <= m /\ c \in Nat /\ d \in Nat /\ m \in Nat
    <2>1. a.group \in Group
      BY DEF ObligationAccount, InGroup
    <2> QED
      BY <1>4, <1>5, <1>6, <2>1, GroupAssumption
  <1> HIDE DEF m, c, d
  <1>8. d <= m
    BY <1>7
  <1> QED
    BY <1>8 DEF m, d

LEMMA InvAt ==
    ASSUME Inv, NEW o \in ObligationId
    PROVE  /\ At(o).ob = obligation[o] /\ At(o).res = reserve
           /\ At(o) \in Books /\ At(o).ob \in ObligationAccount
           /\ Good(At(o), 1) /\ Few(At(o).ob)
           /\ At(o).ob.fresh => Good(At(o), 0)
  <1>1. At(o).ob = obligation[o] /\ At(o).res = reserve
    BY DEF At
  <1>2. Good(At(o), 1) /\ (At(o).ob.fresh => Good(At(o), 0))
    BY <1>1, InvGood
  <1>3. Few(At(o).ob)
    BY <1>1 DEF Inv, Kept
  <1>4. At(o) \in Books /\ At(o).ob \in ObligationAccount
    BY <1>2 DEF Good, Sane, Books
  <1> QED
    BY <1>1, <1>2, <1>3, <1>4

\* The same collaterals, or fewer.
LEMMA InvStepFewer ==
    ASSUME Inv, NEW o \in ObligationId, NEW t, Becomes(o, t), NEW k \in {0, 1}, Good(t, k),
           Others(At(o), t), t.ob.group = At(o).ob.group,
           Deposits(t.ob) \subseteq Deposits(At(o).ob), t.ob.fresh = TRUE => k = 0
    PROVE  Inv'
  <1>1. Few(t.ob)
    BY InvAt, FewFewer
  <1> QED
    BY <1>1, InvStep

-----------------------------------------------------------------------------
(* Every action                                                            *)

LEMMA KeptByRefreshObligation ==
    ASSUME Inv, NEW o \in ObligationId, RefreshObligation(o)
    PROVE  Inv'
  <1> DEFINE s == At(o)
             t == refresh_obligation(s)
  <1>1. Good(s, 1)
    BY InvAt
  <1>2. Becomes(o, t)
    BY DEF RefreshObligation
  <1> HIDE DEF s
  <1>3. /\ Good(t, 0) /\ Others(s, t)
        /\ t.ob.group = s.ob.group /\ t.ob.deposited = s.ob.deposited
    BY <1>1, RefreshMoves DEF Good
  <1> HIDE DEF t
  <1>4. Deposits(t.ob) \subseteq Deposits(s.ob)
    BY <1>3 DEF Deposits
  <1> QED
    BY <1>2, <1>3, <1>4, InvStepFewer DEF s

LEMMA KeptByDepositCollateral ==
    ASSUME Inv, NEW o \in ObligationId, NEW r \in ReserveId, NEW c \in Amounts,
           DepositCollateral(o, r, c)
    PROVE  Inv'
  <1> DEFINE s == At(o)
             t == deposit_obligation_collateral(s, r, c)
  <1>0. c \in Nat \ {0}
    BY GroupAssumption
  <1>1. CanDeposit(s, r, TRUE) /\ Becomes(o, t)
    BY DEF DepositCollateral
  <1>2. s \in Books /\ s.ob \in ObligationAccount /\ Few(s.ob) /\ (s.ob.fresh => Good(s, 0))
    BY InvAt
  <1> HIDE DEF s
  <1>3. Good(s, 0)
    BY <1>1, <1>2 DEF CanDeposit
  <1>4. /\ InGroup(s.ob) => s.ob.group \in elevation_groups[r]
        /\ InGroup(s.ob) /\ s.ob.deposited[r] = 0 => r # debt_reserve[s.ob.group]
        /\ InGroup(s.ob) /\ s.ob.deposited[r] = 0 =>
              Cardinality(Deposits(s.ob)) + 1 <= max_reserves_as_collateral[s.ob.group]
    BY <1>1 DEF CanDeposit, Deposits
  <1>5. /\ Good(t, 0) /\ Others(s, t) /\ t.ob.fresh = FALSE /\ t.ob.group = s.ob.group
        /\ \A x \in ReserveId :
              t.ob.deposited[x] = s.ob.deposited[x] + (IF x = r THEN c ELSE 0)
    BY <1>0, <1>3, <1>4, DepositMoves DEF Good
  <1> HIDE DEF t
  <1>6. \A x \in ReserveId : s.ob.deposited[x] \in Nat
    BY <1>2, BookTypes
  <1>7. Few(t.ob)
    <2>1. CASE r \in Deposits(s.ob)
      <3>1. Deposits(t.ob) \subseteq Deposits(s.ob)
        BY <1>0, <1>5, <1>6, <2>1 DEF Deposits
      <3> QED
        BY <1>2, <1>5, <3>1, FewFewer
    <2>2. CASE r \notin Deposits(s.ob)
      <3>1. Deposits(t.ob) = Deposits(s.ob) \cup {r}
        BY <1>0, <1>5, <1>6 DEF Deposits
      <3>2. IsFiniteSet(Deposits(s.ob))
        <4>1. IsFiniteSet(ReserveId) /\ Deposits(s.ob) \subseteq ReserveId
          BY GroupAssumption DEF Deposits
        <4> QED
          BY <4>1, FS_Subset
      <3>3. Cardinality(Deposits(t.ob)) = Cardinality(Deposits(s.ob)) + 1
        BY <2>2, <3>1, <3>2, FS_AddElement
      <3>4. InGroup(s.ob) => s.ob.deposited[r] = 0
        BY <2>2 DEF Deposits
      <3> QED
        BY <1>4, <1>5, <3>3, <3>4 DEF Few, InGroup
    <2> QED
      BY <2>1, <2>2
  <1> QED
    BY <1>1, <1>5, <1>7, InvStep DEF s

LEMMA KeptByWithdrawCollateral ==
    ASSUME Inv, NEW o \in ObligationId, NEW q \in ReserveId, NEW c \in Amounts,
           NEW redeemed \in BOOLEAN, WithdrawCollateral(o, q, c, redeemed)
    PROVE  Inv'
  <1> DEFINE s == At(o)
             a == withdraw_obligation_collateral(s, q, c)
             b == IF redeemed THEN touched(a, q) ELSE a
             t == closed_if_empty(b)
  <1>1. CanWithdraw(s, q, c) /\ Becomes(o, t)
    BY DEF WithdrawCollateral
  <1>2. s \in Books /\ (s.ob.fresh => Good(s, 0)) /\ Few(s.ob) /\ s.ob \in ObligationAccount
    BY InvAt
  <1> HIDE DEF s
  <1>3. Good(s, 0) /\ c \in Nat \ {0} /\ c <= s.ob.deposited[q]
    BY <1>1, <1>2, GroupAssumption, BookTypes DEF CanWithdraw
  <1>4. Good(a, 0) /\ Others(s, a) /\ Drawn(s, a, q, c)
    BY <1>3, WithdrawGood
  <1>5. /\ a.ob.group = s.ob.group /\ a.ob.fresh = FALSE
        /\ Deposits(a.ob) \subseteq Deposits(s.ob)
    BY <1>2, <1>3, <1>4, DrawnFewer DEF Drawn
  <1> HIDE DEF a
  <1>6. Good(b, 0) /\ Others(a, b) /\ b.ob = a.ob
    <2>1. CASE redeemed
      BY <1>4, <2>1, MarkGood
    <2>2. CASE ~redeemed
      BY <1>4, <2>2, MarkGood DEF Others
    <2> QED
      BY <2>1, <2>2
  <1> HIDE DEF b
  <1>7. Good(t, 0) /\ Others(b, t) /\ (t = b \/ t.ob = NewObligation)
    BY <1>6, CloseMoves DEF Good
  <1> HIDE DEF t
  <1>8. Others(s, t)
    BY <1>4, <1>6, <1>7, OthersTrans
  <1>9. Few(t.ob) /\ t.ob.fresh = FALSE
    <2>1. Few(b.ob)
      BY <1>2, <1>5, <1>6, FewFewer
    <2>2. Few(NewObligation) /\ NewObligation.fresh = FALSE
      BY DEF Few, InGroup, NewObligation
    <2> QED
      BY <1>5, <1>6, <1>7, <2>1, <2>2
  <1> QED
    BY <1>1, <1>7, <1>8, <1>9, InvStep DEF s

LEMMA KeptByBorrow ==
    ASSUME Inv, NEW o \in ObligationId, NEW r \in ReserveId, NEW a \in Borrowed_sf,
           Borrow(o, r, a)
    PROVE  Inv'
  <1> DEFINE s == At(o)
             t == on_borrow(stale(touched(owed(s, r, a), r)), r, Ceil(a))
  <1>0. a \in Nat \ {0}
    BY GroupAssumption
  <1>1. CanBorrow(s, r, Ceil(a)) /\ Becomes(o, t)
    BY DEF Borrow
  <1>2. s.ob.fresh => Good(s, 0)
    BY InvAt
  <1> HIDE DEF s
  <1>3. Good(s, 0) /\ (InGroup(s.ob) => r = debt_reserve[s.ob.group])
    BY <1>1, <1>2 DEF CanBorrow, check_obligation_fully_refreshed_and_not_null
  <1>4. /\ Good(t, 1) /\ Others(s, t) /\ t.ob.fresh = FALSE
        /\ t.ob.deposited = s.ob.deposited /\ t.ob.group = s.ob.group
    BY <1>0, <1>3, BorrowMoves DEF Good
  <1> HIDE DEF t
  <1>5. Deposits(t.ob) \subseteq Deposits(s.ob)
    BY <1>4 DEF Deposits
  <1> QED
    BY <1>1, <1>4, <1>5, InvStepFewer DEF s

\* What a repayment settles is something, and no more than the debt.
LEMMA RepayAmount ==
    ASSUME NEW s \in Books, NEW r \in Borrows(s.ob), NEW n \in Nat \ {0}
    PROVE  /\ calculate_repay(s, r, n) \in Nat \ {0}
           /\ calculate_repay(s, r, n) <= s.ob.borrowed_sf[r]
  <1> DEFINE b == n * SF
             d == s.ob.borrowed_sf[r]
  <1>1. b \in Nat \ {0}
    BY ScaleAssumption
  <1>2. d \in Nat \ {0}
    BY BookTypes DEF Borrows
  <1>3. calculate_repay(s, r, n) = Lesser(b, d)
    BY DEF calculate_repay
  <1> HIDE DEF b, d
  <1> QED
    BY <1>1, <1>2, <1>3 DEF Lesser, d

LEMMA KeptByRepaid ==
    ASSUME Inv, NEW o \in ObligationId, NEW r \in ReserveId, NEW a \in Nat \ {0},
           At(o).ob.fresh, a <= At(o).ob.borrowed_sf[r], Becomes(o, repaid(At(o), r, a))
    PROVE  Inv'
  <1> DEFINE s == At(o)
             t == repaid(s, r, a)
  <1>1. Good(s, 0)
    BY InvAt
  <1>2. Becomes(o, t) /\ a <= s.ob.borrowed_sf[r]
    OBVIOUS
  <1> HIDE DEF s
  <1>3. /\ Good(t, 1) /\ Others(s, t) /\ t.ob.fresh = FALSE
        /\ t.ob.deposited = s.ob.deposited /\ t.ob.group = s.ob.group
    BY <1>1, <1>2, RepaidMoves DEF Good
  <1> HIDE DEF t
  <1>4. Deposits(t.ob) \subseteq Deposits(s.ob)
    BY <1>3 DEF Deposits
  <1> QED
    BY <1>2, <1>3, <1>4, InvStepFewer DEF s

LEMMA KeptByRepay ==
    ASSUME Inv, NEW o \in ObligationId, NEW r \in ReserveId, NEW n \in Amounts,
           Repay(o, r, n) \/ SocializeLoss(o, r, n)
    PROVE  Inv'
  <1> DEFINE s == At(o)
             a == calculate_repay(s, r, n)
  <1>1. s.ob.fresh /\ r \in Borrows(s.ob) /\ Becomes(o, repaid(s, r, a))
    BY DEF Repay, SocializeLoss
  <1>2. s \in Books /\ n \in Nat \ {0}
    BY InvAt, GroupAssumption
  <1>3. a \in Nat \ {0} /\ a <= s.ob.borrowed_sf[r]
    <2> HIDE DEF s
    <2> QED
      BY <1>1, <1>2, RepayAmount
  <1> HIDE DEF a
  <1> QED
    BY <1>1, <1>3, KeptByRepaid

LEMMA KeptByLiquidate ==
    ASSUME Inv, NEW o \in ObligationId, NEW r \in ReserveId, NEW q \in ReserveId,
           NEW a \in Borrowed_sf, NEW c \in Amounts, NEW redeemed \in BOOLEAN,
           Liquidate(o, r, q, a, c, redeemed)
    PROVE  Inv'
  <1> DEFINE s == At(o)
             u == liquidated(s, r, q, a, c)
             l == refreshed(u, q)
             t == IF redeemed THEN touched(l, q) ELSE l
  <1>1. /\ s.ob.fresh /\ a \in 1..s.ob.borrowed_sf[r] /\ c \in 1..s.ob.deposited[q]
        /\ Becomes(o, t)
    BY DEF Liquidate
  <1>2. s \in Books /\ Good(s, 0)
    BY <1>1, InvAt
  <1> HIDE DEF s
  <1>3. /\ a \in Nat \ {0} /\ a <= s.ob.borrowed_sf[r]
        /\ c \in Nat \ {0} /\ c <= s.ob.deposited[q]
    BY <1>1, <1>2, BookTypes
  <1>4. /\ Good(u, 1) /\ Others(s, u)
        /\ u.ob.fresh = FALSE /\ u.ob.group = s.ob.group
        /\ Deposits(u.ob) \subseteq Deposits(s.ob)
    BY <1>2, <1>3, LiquidatedMoves
  <1> HIDE DEF u
  <1>5. Good(l, 1) /\ Others(u, l) /\ l.ob = u.ob
    BY <1>4, MarkGood
  <1> HIDE DEF l
  <1>6. Good(t, 1) /\ Others(l, t) /\ t.ob = l.ob
    <2>1. CASE redeemed
      BY <1>5, <2>1, MarkGood
    <2>2. CASE ~redeemed
      BY <1>5, <2>2 DEF Others
    <2> QED
      BY <2>1, <2>2
  <1> HIDE DEF t
  <1>7. Others(s, t)
    BY <1>4, <1>5, <1>6, OthersTrans
  <1> QED
    BY <1>1, <1>4, <1>5, <1>6, <1>7, InvStepFewer DEF s

LEMMA KeptByRequestElevationGroup ==
    ASSUME Inv, NEW o \in ObligationId, NEW g \in Group \cup {ELEVATION_GROUP_NONE},
           RequestElevationGroup(o, g)
    PROVE  Inv'
  <1> DEFINE s == At(o)
             t == stale([Core(reset_elevation_group_debts(s), g) EXCEPT !.ob.group = g])
  <1>1. /\ s.ob.fresh /\ WithinMax(s.ob, g) /\ CanRefresh(s, g) /\ Becomes(o, t)
    BY DEF RequestElevationGroup, Core, check_obligation_fully_refreshed_and_not_null
  <1>2. s \in Books /\ Good(s, 0)
    BY <1>1, InvAt
  <1> HIDE DEF s
  <1>3. g # ELEVATION_GROUP_NONE =>
            \A x \in ReserveId :
               /\ s.ob.borrowed_sf[x] # 0 => x = debt_reserve[g]
               /\ s.ob.deposited[x] # 0 => g \in elevation_groups[x] /\ x # debt_reserve[g]
    BY <1>1 DEF CanRefresh, Deposits, Borrows
  <1>4. /\ Good(t, 0) /\ Others(s, t)
        /\ t.ob.group = g /\ t.ob.deposited = s.ob.deposited /\ t.ob.fresh = FALSE
    BY <1>2, <1>3, RequestMoves DEF Good
  <1> HIDE DEF t
  <1>5. Few(t.ob)
    BY <1>1, <1>4 DEF Few, InGroup, WithinMax, Deposits
  <1> QED
    BY <1>1, <1>4, <1>5, InvStep DEF s

LEMMA KeptByRollover ==
    ASSUME Inv, NEW o \in ObligationId, NEW r \in ReserveId, NEW q \in ReserveId,
           NEW n \in Amounts, Rollover(o, r, q, n)
    PROVE  Inv'
  <1> DEFINE s == At(o)
             t == RolledOver(s, r, q, n)
  <1>1. /\ ~InGroup(s.ob) /\ r # q /\ r \in Borrows(s.ob) /\ s.ob.fresh
        /\ n <= Ceil(s.ob.borrowed_sf[r]) /\ Becomes(o, t)
    BY DEF Rollover, RolledOver, check_obligation_fully_refreshed_and_not_null
  <1>2. Good(s, 0) /\ n \in Nat \ {0}
    BY <1>1, InvAt, GroupAssumption
  <1> HIDE DEF s
  <1>3. s.ob.borrowed_sf[r] # 0
    BY <1>1 DEF Borrows
  <1>4. /\ Good(t, 1) /\ Others(s, t) /\ t.ob.fresh = FALSE
        /\ t.ob.deposited = s.ob.deposited /\ t.ob.group = s.ob.group
    <2>1. /\ Sane(s) /\ Shares(s.ob, 0) /\ ~InGroup(s.ob) /\ n \in Nat \ {0} /\ r # q
          /\ s.ob.borrowed_sf[r] # 0 /\ n <= Ceil(s.ob.borrowed_sf[r])
      BY <1>1, <1>2, <1>3 DEF Good
    <2>2. /\ Sane(t) /\ Member(t.ob) /\ Shares(t.ob, 1) /\ Others(s, t)
          /\ SameCollateral(s, t)
      BY <2>1, RolloverMoves
    <2> QED
      BY <2>2 DEF Good, SameCollateral
  <1> HIDE DEF t
  <1>5. Deposits(t.ob) \subseteq Deposits(s.ob)
    BY <1>4 DEF Deposits
  <1> QED
    BY <1>1, <1>4, <1>5, InvStepFewer DEF s

LEMMA KeptByRolloverInPlace ==
    ASSUME Inv, NEW o \in ObligationId, NEW r \in ReserveId, RolloverInPlace(o, r)
    PROVE  Inv'
  <1> DEFINE s == At(o)
             t == stale(s)
  <1>1. Becomes(o, t)
    BY DEF RolloverInPlace
  <1>2. s \in Books /\ Good(s, 1)
    BY InvAt
  <1> HIDE DEF s
  <1>3. Neutral(s, t) /\ t.ob.fresh = FALSE
    BY <1>2, StaleNeutral
  <1> HIDE DEF t
  <1>4. Good(t, 1) /\ Others(s, t) /\ t.ob.group = s.ob.group /\ t.ob.deposited = s.ob.deposited
    BY <1>2, <1>3, NeutralGood
  <1>5. Deposits(t.ob) \subseteq Deposits(s.ob)
    BY <1>4 DEF Deposits
  <1> QED
    BY <1>1, <1>3, <1>4, <1>5, InvStepFewer DEF s

LEMMA KeptByDepositAndWithdraw ==
    ASSUME Inv, NEW o \in ObligationId, NEW r \in ReserveId, NEW q \in ReserveId,
           NEW c \in Amounts, NEW d \in Amounts, DepositAndWithdraw(o, r, q, c, d)
    PROVE  Inv'
  <1> DEFINE s == At(o)
             up_to_date == UpToDate(s, r, c)
             left == Left(s, r, q, c, d)
             t == Swapped(s, r, q, c, d)
  <1>1. /\ CanDeposit(s, r, FALSE) /\ d \in 1..up_to_date.ob.deposited[q]
        /\ WithinMax(left.ob, left.ob.group) /\ Becomes(o, t)
    BY DEF DepositAndWithdraw, CanWithdraw, UpToDate, Left, Swapped
  <1>2. c \in Nat \ {0} /\ d \in Nat \ {0} /\ (s.ob.fresh => Good(s, 0))
    BY GroupAssumption, InvAt
  <1> HIDE DEF s
  <1>3. Good(s, 0) /\ d <= up_to_date.ob.deposited[q]
    BY <1>1, <1>2 DEF CanDeposit
  <1>4. Good(t, 0) /\ Others(s, t) /\ SameCollateral(left, t)
    BY <1>1, <1>2, <1>3, SwapMoves
  <1> HIDE DEF t, left
  <1>5. Few(t.ob)
    BY <1>1, <1>4 DEF Few, InGroup, WithinMax, Deposits, SameCollateral
  <1> QED
    BY <1>1, <1>4, <1>5, InvStep DEF s, SameCollateral

\* Time and interest: no counter and no share moves, and rates do not fall.
LEMMA KeptByTime ==
    ASSUME Inv, TypeOK',
           \A x \in ReserveId : /\ reserve'[x].outside = reserve[x].outside
                                /\ reserve'[x].against = reserve[x].against
                                /\ reserve[x].rate <= reserve'[x].rate,
           \A o \in ObligationId :
              LET a == obligation[o]
                  b == obligation'[o]
              IN  /\ b.group = a.group /\ b.deposited = a.deposited /\ b.against = a.against
                  /\ b.borrowed_sf = a.borrowed_sf /\ b.rate = a.rate /\ b.outside = a.outside
                  /\ b.fresh => a.fresh
    PROVE  Inv'
  <1>1. SharesCounted'
    <2>1. \A x \in ReserveId : OutsideShares(x)' = OutsideShares(x)
      BY DEF OutsideShares
    <2>2. \A x \in ReserveId, g \in Group : InsideShares(x, g)' = InsideShares(x, g)
      BY DEF InsideShares, ShareIn
    <2>3. ASSUME NEW x \in ReserveId
          PROVE  /\ reserve'[x].outside = SumFunctionOnSet(OutsideShares(x)', ObligationId)
                 /\ \A g \in Group : reserve'[x].against[g]
                       = SumFunctionOnSet(InsideShares(x, g)', ObligationId)
      BY <2>1, <2>2 DEF Inv, SharesCounted
    <2> QED
      BY <2>3 DEF SharesCounted
  <1>2. ASSUME NEW o \in ObligationId
        PROVE  /\ Kept(obligation'[o])
               /\ \A x \in ReserveId : Orderly(obligation'[o], x) /\ Rated(At(o)', x)
    <2> DEFINE a == obligation[o]
               b == obligation'[o]
    <2>1. /\ b.group = a.group /\ b.deposited = a.deposited /\ b.against = a.against
          /\ b.borrowed_sf = a.borrowed_sf /\ b.rate = a.rate /\ b.outside = a.outside
          /\ b.fresh => a.fresh
      OBVIOUS
    <2>2. Kept(a) /\ \A x \in ReserveId : Orderly(a, x) /\ Rated(At(o), x)
      BY DEF Inv
    <2>3. /\ At(o).ob = a /\ At(o).res = reserve /\ At(o)'.ob = b /\ At(o)'.res = reserve'
          /\ At(o) \in Books
      BY InvAt DEF At
    <2> HIDE DEF a, b
    <2>4. Member(b) /\ Shares(b, 1) /\ (b.fresh => Shares(b, 0))
      BY <2>1, <2>2 DEF Kept, Member, Shares, Debt, InGroup
    <2>5. Few(b)
      BY <2>1, <2>2 DEF Kept, Few, InGroup, Deposits
    <2>6. ASSUME NEW x \in ReserveId PROVE Orderly(b, x) /\ Rated(At(o)', x)
      <3>1. Orderly(b, x)
        BY <2>1, <2>2 DEF Orderly, InGroup
      <3>2. a.rate[x] \in Nat /\ reserve[x].rate \in Nat /\ reserve'[x].rate \in Nat
        <4>1. reserve'[x].rate \in Nat
          BY DEF TypeOK, ReserveAccount
        <4> QED
          BY <2>3, <4>1, BookTypes
      <3>3. reserve[x].rate <= reserve'[x].rate
        OBVIOUS
      <3>4. Rated(At(o)', x)
        BY <2>1, <2>2, <2>3, <3>2, <3>3 DEF Rated
      <3> QED
        BY <3>1, <3>4
    <2> QED
      BY <2>4, <2>5, <2>6 DEF Kept, b
  <1> QED
    BY <1>1, <1>2 DEF Inv

LEMMA KeptByTick == ASSUME Inv, Tick PROVE Inv'
  <1>1. ASSUME NEW r \in ReserveId
        PROVE  /\ reserve'[r] \in ReserveAccount
               /\ reserve'[r].outside = reserve[r].outside
               /\ reserve'[r].against = reserve[r].against
               /\ reserve'[r].rate = reserve[r].rate /\ reserve[r].rate \in Nat
    <2>1. reserve[r] \in ReserveAccount /\ reserve'[r] = [reserve[r] EXCEPT !.status = "old"]
      BY DEF Inv, TypeOK, Tick
    <2> QED
      BY <2>1 DEF ReserveAccount
  <1>2. ASSUME NEW o \in ObligationId
        PROVE  LET a == obligation[o]
                   b == obligation'[o]
               IN  /\ b \in ObligationAccount
                   /\ b.group = a.group /\ b.deposited = a.deposited /\ b.against = a.against
                   /\ b.borrowed_sf = a.borrowed_sf /\ b.rate = a.rate /\ b.outside = a.outside
                   /\ b.fresh = FALSE
    <2> DEFINE a == obligation[o]
               b == obligation'[o]
    <2>1. a \in ObligationAccount /\ b = [a EXCEPT !.fresh = FALSE]
      BY DEF Inv, TypeOK, Tick
    <2> HIDE DEF a, b
    <2> QED
      BY <2>1 DEF ObligationAccount, a, b
  <1>3. TypeOK'
    <2>1. reserve' = [r \in ReserveId |-> reserve'[r]]
      BY DEF Tick
    <2>2. obligation' = [o \in ObligationId |-> obligation'[o]]
      BY DEF Tick
    <2> QED
      BY <1>1, <1>2, <2>1, <2>2 DEF TypeOK
  <1>4. \A x \in ReserveId : /\ reserve'[x].outside = reserve[x].outside
                             /\ reserve'[x].against = reserve[x].against
                             /\ reserve[x].rate <= reserve'[x].rate
    BY <1>1
  <1>5. \A o \in ObligationId :
            LET a == obligation[o]
                b == obligation'[o]
            IN  /\ b.group = a.group /\ b.deposited = a.deposited /\ b.against = a.against
                /\ b.borrowed_sf = a.borrowed_sf /\ b.rate = a.rate /\ b.outside = a.outside
                /\ b.fresh => a.fresh
    BY <1>2
  <1> QED
    BY <1>3, <1>4, <1>5, KeptByTime

LEMMA KeptByRefreshReserve ==
    ASSUME Inv, NEW r \in ReserveId, NEW growth \in {0, 1}, RefreshReserve(r, growth)
    PROVE  Inv'
  <1> DEFINE e == [reserve[r] EXCEPT !.status = "fresh"]
             f == [e EXCEPT !.rate = @ + growth]
  <1>1. reserve \in [ReserveId -> ReserveAccount] /\ UNCHANGED obligation
        /\ reserve[r] \in ReserveAccount
    BY DEF Inv, TypeOK, RefreshReserve
  <1>2. reserve' = [reserve EXCEPT ![r] = f]
    BY <1>1 DEF RefreshReserve, ReserveAccount
  <1>3. /\ e \in ReserveAccount /\ e.rate = reserve[r].rate
        /\ e.outside = reserve[r].outside /\ e.against = reserve[r].against
    BY <1>1 DEF ReserveAccount
  <1> HIDE DEF e
  <1>4. f \in ReserveAccount /\ f.rate = reserve[r].rate + growth
        /\ f.outside = reserve[r].outside /\ f.against = reserve[r].against
    BY <1>3 DEF ReserveAccount
  <1> HIDE DEF f
  <1>5. \A x \in ReserveId : /\ reserve'[x] \in ReserveAccount
                             /\ reserve'[x].outside = reserve[x].outside
                             /\ reserve'[x].against = reserve[x].against
                             /\ reserve[x].rate <= reserve'[x].rate
    <2>1. \A x \in ReserveId : reserve[x].rate \in Nat
      BY <1>1 DEF ReserveAccount
    <2> QED
      BY <1>1, <1>2, <1>4, <2>1
  <1>6. TypeOK'
    BY <1>1, <1>2, <1>4 DEF TypeOK, Inv
  <1> QED
    BY <1>1, <1>5, <1>6, KeptByTime

LEMMA KeptByTouchReserve ==
    ASSUME Inv, NEW r \in ReserveId, TouchReserve(r)
    PROVE  Inv'
  <1> DEFINE e == [reserve[r] EXCEPT !.status = "touched"]
  <1>1. reserve \in [ReserveId -> ReserveAccount] /\ UNCHANGED obligation
        /\ reserve[r] \in ReserveAccount
    BY DEF Inv, TypeOK, TouchReserve
  <1>2. reserve' = [reserve EXCEPT ![r] = e]
    BY DEF TouchReserve
  <1>3. /\ e \in ReserveAccount /\ e.rate = reserve[r].rate
        /\ e.outside = reserve[r].outside /\ e.against = reserve[r].against
    BY <1>1 DEF ReserveAccount
  <1> HIDE DEF e
  <1>4. \A x \in ReserveId : /\ reserve'[x] \in ReserveAccount
                             /\ reserve'[x].outside = reserve[x].outside
                             /\ reserve'[x].against = reserve[x].against
                             /\ reserve[x].rate <= reserve'[x].rate
    <2>1. \A x \in ReserveId : reserve[x].rate \in Nat
      BY <1>1 DEF ReserveAccount
    <2> QED
      BY <1>1, <1>2, <1>3, <2>1
  <1>5. TypeOK'
    BY <1>1, <1>2, <1>3 DEF TypeOK, Inv
  <1> QED
    BY <1>1, <1>4, <1>5, KeptByTime

LEMMA InitInv == ASSUME Init PROVE Inv
  <1>0. SF \in Nat \ {0} /\ IsFiniteSet(ObligationId)
    BY ScaleAssumption, GroupAssumption
  <1>1. Zero \in [ReserveId -> Nat] /\ \A x \in ReserveId : Zero[x] = 0
    BY DEF Zero
  <1>2. NewObligation \in ObligationAccount
    BY <1>1 DEF NewObligation, ObligationAccount
  <1>3. TypeOK
    BY <1>0, <1>2 DEF Init, TypeOK, ReserveAccount
  <1>4. ASSUME NEW f, \A o \in ObligationId : f[o] = 0
        PROVE  SumFunctionOnSet(f, ObligationId) = 0
    <2>1. {} \in SUBSET ObligationId /\ NatOn(f, {})
      BY DEF NatOn
    <2>2. \A o \in {} : f[o] = f[o]
      OBVIOUS
    <2>3. \A o \in ObligationId \ {} : f[o] = 0
      BY <1>4
    <2>4. SumFunctionOnSet(f, {}) = SumFunctionOnSet(f, ObligationId)
      BY <1>0, <2>1, <2>2, <2>3, SumFilter
    <2> QED
      BY <2>4, SumEmpty
  <1>5. ASSUME NEW o \in ObligationId, NEW x \in ReserveId
        PROVE  /\ obligation[o] = NewObligation
               /\ obligation[o].outside[x] = 0 /\ obligation[o].against[x] = 0
               /\ obligation[o].borrowed_sf[x] = 0 /\ obligation[o].deposited[x] = 0
               /\ ~InGroup(obligation[o]) /\ obligation[o].fresh = FALSE
    BY <1>1 DEF Init, NewObligation, InGroup
  <1>6. ASSUME NEW x \in ReserveId, NEW g \in Group
        PROVE  /\ reserve[x].outside = 0 /\ reserve[x].against[g] = 0
    BY DEF Init
  <1>7. SharesCounted
    <2>1. ASSUME NEW x \in ReserveId
          PROVE  /\ reserve[x].outside = SumFunctionOnSet(OutsideShares(x), ObligationId)
                 /\ \A g \in Group :
                       reserve[x].against[g] = SumFunctionOnSet(InsideShares(x, g), ObligationId)
      <3>1. \A o \in ObligationId : OutsideShares(x)[o] = 0
        BY <1>5 DEF OutsideShares
      <3>2. \A g \in Group, o \in ObligationId : InsideShares(x, g)[o] = 0
        BY <1>5 DEF InsideShares, ShareIn
      <3>3. SumFunctionOnSet(OutsideShares(x), ObligationId) = 0
        BY <1>4, <3>1
      <3>4. \A g \in Group : SumFunctionOnSet(InsideShares(x, g), ObligationId) = 0
        BY <1>4, <3>2
      <3>5. reserve[x].outside = 0
        BY DEF Init
      <3> QED
        BY <1>6, <3>3, <3>4, <3>5
    <2> QED
      BY <2>1 DEF SharesCounted
  <1>8. ASSUME NEW o \in ObligationId
        PROVE  /\ Kept(obligation[o])
               /\ \A x \in ReserveId : Orderly(obligation[o], x) /\ Rated(At(o), x)
    <2>1. obligation[o] = NewObligation /\ ~InGroup(obligation[o]) /\ obligation[o].fresh = FALSE
      BY DEF Init, NewObligation, InGroup
    <2>2. Member(obligation[o]) /\ Few(obligation[o])
      BY <2>1 DEF Member, Few
    <2>3. Shares(obligation[o], 1)
      <3> SUFFICES ASSUME NEW x \in ReserveId
                   PROVE  Within(obligation[o].outside[x], Ceil(obligation[o].borrowed_sf[x]), 1)
        BY <2>1 DEF Shares
      <3>1. obligation[o].outside[x] = 0 /\ Ceil(obligation[o].borrowed_sf[x]) = 0
        BY <1>5, CeilZero
      <3> QED
        BY <3>1 DEF Within
    <2>4. \A x \in ReserveId : Orderly(obligation[o], x) /\ Rated(At(o), x)
      BY <1>5 DEF Orderly, Rated, At
    <2> QED
      BY <2>1, <2>2, <2>3, <2>4 DEF Kept
  <1> QED
    BY <1>3, <1>7, <1>8 DEF Inv

-----------------------------------------------------------------------------
(* The theorems                                                            *)

LEMMA InvNext == ASSUME Inv, [Next]_vars PROVE Inv'
  <1>1. CASE Tick
    BY <1>1, KeptByTick
  <1>2. CASE \E r \in ReserveId :
                TouchReserve(r) \/ \E growth \in {0, 1} : RefreshReserve(r, growth)
    BY <1>2, KeptByTouchReserve, KeptByRefreshReserve
  <1>3. ASSUME NEW o \in ObligationId,
               \/ RefreshObligation(o)
               \/ \E g \in Group \cup {ELEVATION_GROUP_NONE} : RequestElevationGroup(o, g)
        PROVE  Inv'
    BY <1>3, KeptByRefreshObligation, KeptByRequestElevationGroup
  <1>4. ASSUME NEW o \in ObligationId, NEW r \in ReserveId, NEW c \in Amounts,
               \/ DepositCollateral(o, r, c) \/ Repay(o, r, c) \/ SocializeLoss(o, r, c)
               \/ \E redeemed \in BOOLEAN : WithdrawCollateral(o, r, c, redeemed)
        PROVE  Inv'
    BY <1>4, KeptByDepositCollateral, KeptByRepay, KeptByWithdrawCollateral
  <1>5. ASSUME NEW o \in ObligationId, NEW r \in ReserveId,
               \/ \E a \in Borrowed_sf : Borrow(o, r, a)
               \/ RolloverInPlace(o, r)
        PROVE  Inv'
    BY <1>5, KeptByBorrow, KeptByRolloverInPlace
  <1>6. ASSUME NEW o \in ObligationId, NEW r \in ReserveId, NEW q \in ReserveId, NEW c \in Amounts,
               \/ Rollover(o, r, q, c)
               \/ \E d \in Amounts : DepositAndWithdraw(o, r, q, c, d)
               \/ \E a \in Borrowed_sf, redeemed \in BOOLEAN : Liquidate(o, r, q, a, c, redeemed)
        PROVE  Inv'
    BY <1>6, KeptByRollover, KeptByDepositAndWithdraw, KeptByLiquidate
  <1>7. CASE UNCHANGED vars
    <2>1. reserve' = reserve /\ obligation' = obligation
      BY <1>7 DEF vars
    <2>2. TypeOK'
      BY <2>1 DEF Inv, TypeOK
    <2>3. \A x \in ReserveId : reserve[x].rate <= reserve'[x].rate
      BY <2>1 DEF Inv, TypeOK, ReserveAccount
    <2> QED
      BY <2>1, <2>2, <2>3, KeptByTime
  <1> QED
    BY <1>1, <1>2, <1>3, <1>4, <1>5, <1>6, <1>7 DEF Next

\* Types and the counters' arithmetic hold after any instructions in any order.
THEOREM BooksKept == Spec => []Inv
  <1>1. Init => Inv
    BY InitInv
  <1>2. Inv /\ [Next]_vars => Inv'
    BY InvNext
  <1> QED
    BY <1>1, <1>2, PTL DEF Spec

\* Each reserve's counters, outside groups and against it in every group, are the
\* sums of what the obligations hold: on_borrow, on_repay, on_full_withdraw,
\* on_new_deposit, on_rollover, reset_elevation_group_debts and refresh_obligation
\* move both sides alike and no saturating_sub hides a difference.
THEOREM CountersExact == Spec => []CountersAgree
  <1>1. Inv => CountersAgree
    <2> SUFFICES ASSUME Inv, NEW r \in ReserveId
                 PROVE  /\ reserve[r].outside = SumFunctionOnSet(
                              [o \in ObligationId |-> obligation[o].outside[r]], ObligationId)
                        /\ \A g \in Group :
                              LET members == {o \in ObligationId : obligation[o].group = g}
                              IN  reserve[r].against[g] = SumFunctionOnSet(
                                     [o \in members |-> obligation[o].against[r]], members)
      BY DEF CountersAgree
    <2>1. reserve[r].outside = SumFunctionOnSet(
             [o \in ObligationId |-> obligation[o].outside[r]], ObligationId)
      BY DEF Inv, SharesCounted, OutsideShares
    <2>2. ASSUME NEW g \in Group
          PROVE  LET members == {o \in ObligationId : obligation[o].group = g}
                 IN  reserve[r].against[g] = SumFunctionOnSet(
                        [o \in members |-> obligation[o].against[r]], members)
      <3> DEFINE members == {o \in ObligationId : obligation[o].group = g}
                 f == [o \in members |-> obligation[o].against[r]]
                 h == InsideShares(r, g)
      <3>1. members \in SUBSET ObligationId /\ IsFiniteSet(ObligationId)
        BY GroupAssumption
      <3>2. \A o \in members : h[o] = f[o]
        BY DEF InsideShares, ShareIn
      <3>3. \A o \in ObligationId \ members : h[o] = 0
        BY DEF InsideShares, ShareIn
      <3>4. NatOn(f, members)
        <4>1. NatOn(h, ObligationId)
          BY SharesAreNat DEF Inv
        <4> HIDE DEF h, f, members
        <4> QED
          BY <3>1, <3>2, <4>1 DEF NatOn
      <3>5. reserve[r].against[g] = SumFunctionOnSet(h, ObligationId)
        BY DEF Inv, SharesCounted
      <3> HIDE DEF members, f, h
      <3>6. SumFunctionOnSet(f, members) = SumFunctionOnSet(h, ObligationId)
        BY <3>1, <3>2, <3>3, <3>4, SumFilter
      <3>7. reserve[r].against[g] = SumFunctionOnSet(f, members)
        BY <3>5, <3>6
      <3> QED
        BY <3>7 DEF f, members
    <2> QED
      BY <2>1, <2>2
  <1> QED
    BY <1>1, BooksKept, PTL

\* The difference between a share and the debt it stands for never grows beyond one
\* unit, however often borrow, repay, liquidate and roll over round.
THEOREM NeverDrifts == Spec => []NoDrift
  <1>1. Inv => NoDrift
    <2> SUFFICES ASSUME Inv, NEW o \in ObligationId, NEW r \in ReserveId
                 PROVE  LET ob == obligation[o]
                        IN  IF InGroup(ob)
                            THEN /\ ob.outside[r] = 0
                                 /\ r \in Deposits(ob) => Near(ob.against[r], borrowed_amount(ob))
                            ELSE /\ ob.against[r] = 0
                                 /\ Near(ob.outside[r], Ceil(ob.borrowed_sf[r]))
      BY DEF NoDrift
    <2> DEFINE s == At(o)
    <2>1. s.ob = obligation[o] /\ s \in Books
      BY InvAt
    <2>2. Orderly(s.ob, r) /\ Shares(s.ob, 1) /\ Member(s.ob)
      BY <2>1 DEF Inv, Kept
    <2> HIDE DEF s
    <2>3. CASE InGroup(s.ob)
      <3>1. borrowed_amount(s.ob) = Debt(s.ob)
        BY <2>1, <2>2, <2>3, DebtType, SingleAmount
      <3>2. s.ob.outside[r] = 0
        BY <2>2, <2>3 DEF Orderly
      <3>3. r \in Deposits(s.ob) => Near(s.ob.against[r], borrowed_amount(s.ob))
        BY <2>2, <2>3, <3>1 DEF Shares, Within, Near, Deposits
      <3> QED
        BY <2>1, <2>3, <3>2, <3>3
    <2>4. CASE ~InGroup(s.ob)
      <3>1. s.ob.against[r] = 0
        BY <2>2, <2>4 DEF Orderly
      <3>2. Near(s.ob.outside[r], Ceil(s.ob.borrowed_sf[r]))
        BY <2>2, <2>4 DEF Shares, Within, Near
      <3> QED
        BY <2>1, <2>4, <3>1, <3>2
    <2> QED
      BY <2>3, <2>4
  <1> QED
    BY <1>1, BooksKept, PTL

\* An obligation in an elevation group owes the group's debt reserve only, against the
\* group's other reserves only and no more of them than allowed, whatever was
\* deposited, withdrawn, borrowed, swapped or liquidated since it joined.
THEOREM GroupsClosed == Spec => []GroupClosed
  <1>1. Inv => GroupClosed
    <2>1. ASSUME Inv, NEW o \in ObligationId, InGroup(obligation[o])
          PROVE  LET ob == obligation[o]
                 IN  /\ Borrows(ob) \subseteq {debt_reserve[ob.group]}
                     /\ \A r \in Deposits(ob) :
                           ob.group \in elevation_groups[r] /\ r # debt_reserve[ob.group]
                     /\ Cardinality(Deposits(ob)) <= max_reserves_as_collateral[ob.group]
      <3>1. Member(obligation[o]) /\ Few(obligation[o])
        BY <2>1 DEF Inv, Kept
      <3> QED
        BY <2>1, <3>1 DEF Member, Few, Borrows, Deposits
    <2> QED
      BY <2>1 DEF GroupClosed, Inv
  <1> QED
    BY <1>1, BooksKept, PTL
=============================================================================

------------------------- MODULE WithdrawQueueProofs -------------------------
(***************************************************************************)
(* Proofs about WithdrawQueue, for every scale SF, any number of owners    *)
(* and tickets and any amounts.  Part by part: sums of tickets and of      *)
(* holdings; one lemma per instruction; the theorems.  What the operations *)
(* do to the reserve and to its exchange rate is in ReserveTheorems.       *)
(***************************************************************************)
EXTENDS WithdrawQueue, ReserveTheorems

-----------------------------------------------------------------------------
(* Sums over tickets and over holders.  All of them are over every         *)
(* sequence number or every owner, with zero where nothing counts.         *)

Tickets == [Seqno -> Ticket \cup {NoTicket}]

Held(t) == IF t = NoTicket THEN 0 ELSE t.amount
HeldBy(t, o) == IF t # NoTicket /\ t.owner = o THEN t.amount ELSE 0
HeldWaiting(t, n, lo, hi) == IF t # NoTicket /\ lo <= n /\ n < hi THEN t.amount ELSE 0

AllHeld(tk) == [n \in Seqno |-> Held(tk[n])]
OwnerHeld(tk, o) == [n \in Seqno |-> HeldBy(tk[n], o)]
WaitingHeld(tk, lo, hi) == [n \in Seqno |-> HeldWaiting(tk[n], n, lo, hi)]
Holdings(w, q) == [o \in Owner |-> w[o] + q[o]]

AllSum(tk) == SumFunctionOnSet(AllHeld(tk), Seqno)
OwnerSum(tk, o) == SumFunctionOnSet(OwnerHeld(tk, o), Seqno)
WaitingSum(tk, lo, hi) == SumFunctionOnSet(WaitingHeld(tk, lo, hi), Seqno)
HolderSum(w, q) == SumFunctionOnSet(Holdings(w, q), Owner)

LEMMA TicketReal == \A t \in Ticket : t # NoTicket
  <1> SUFFICES ASSUME NEW t \in Ticket, t = NoTicket PROVE FALSE
    OBVIOUS
  <1>1. DOMAIN t = {"owner", "amount", "invalid"}
    BY DEF Ticket
  <1>2. DOMAIN NoTicket = {"owner"}
    BY DEF NoTicket
  <1> QED
    BY <1>1, <1>2

LEMMA SeqnoFinite == IsFiniteSet(Seqno)
  <1>1. 0 \in Int /\ MaxTickets - 1 \in Int
    BY QueueAssumption
  <1> QED
    BY <1>1, FS_Interval DEF Seqno

LEMMA HeldTypes ==
    ASSUME NEW t \in Ticket \cup {NoTicket}, NEW o, NEW n \in Nat, NEW lo \in Nat, NEW hi \in Nat
    PROVE  Held(t) \in Nat /\ HeldBy(t, o) \in Nat /\ HeldWaiting(t, n, lo, hi) \in Nat
  BY DEF Held, HeldBy, HeldWaiting, Ticket

LEMMA HeldNats ==
    ASSUME NEW tk \in Tickets
    PROVE  /\ NatOn(AllHeld(tk), Seqno)
           /\ \A o : NatOn(OwnerHeld(tk, o), Seqno)
           /\ \A lo, hi \in Nat : NatOn(WaitingHeld(tk, lo, hi), Seqno)
  <1>1. \A n \in Seqno : n \in Nat /\ tk[n] \in Ticket \cup {NoTicket}
    BY QueueAssumption DEF Tickets, Seqno
  <1> QED
    BY <1>1, HeldTypes DEF NatOn, AllHeld, OwnerHeld, WaitingHeld

LEMMA HoldingNats ==
    ASSUME NEW w \in [Owner -> Nat], NEW q \in [Owner -> Nat]
    PROVE  NatOn(Holdings(w, q), Owner) /\ NatOn(q, Owner)
  BY DEF NatOn, Holdings

\* The ticket at one sequence number changes.
LEMMA TicketChange ==
    ASSUME NEW tk \in Tickets, NEW uk \in Tickets, NEW x \in Seqno,
           \A y \in Seqno \ {x} : uk[y] = tk[y]
    PROVE  /\ AllSum(uk) = AllSum(tk) - Held(tk[x]) + Held(uk[x])
           /\ \A o : OwnerSum(uk, o) = OwnerSum(tk, o) - HeldBy(tk[x], o) + HeldBy(uk[x], o)
  <1>1. NatOn(AllHeld(tk), Seqno) /\ NatOn(AllHeld(uk), Seqno)
    BY HeldNats
  <1>2. \A y \in Seqno \ {x} : AllHeld(uk)[y] = AllHeld(tk)[y]
    BY DEF AllHeld
  <1>3. AllSum(uk) = AllSum(tk) - AllHeld(tk)[x] + AllHeld(uk)[x]
    BY <1>1, <1>2, SumUpdate, SeqnoFinite DEF AllSum
  <1>4. ASSUME NEW o
        PROVE  OwnerSum(uk, o) = OwnerSum(tk, o) - HeldBy(tk[x], o) + HeldBy(uk[x], o)
    <2>1. NatOn(OwnerHeld(tk, o), Seqno) /\ NatOn(OwnerHeld(uk, o), Seqno)
      BY HeldNats
    <2>2. \A y \in Seqno \ {x} : OwnerHeld(uk, o)[y] = OwnerHeld(tk, o)[y]
      BY DEF OwnerHeld
    <2>3. OwnerSum(uk, o) = OwnerSum(tk, o) - OwnerHeld(tk, o)[x] + OwnerHeld(uk, o)[x]
      BY <2>1, <2>2, SumUpdate, SeqnoFinite DEF OwnerSum
    <2> QED
      BY <2>3 DEF OwnerHeld
  <1> QED
    BY <1>3, <1>4 DEF AllHeld

LEMMA WaitingChange ==
    ASSUME NEW tk \in Tickets, NEW uk \in Tickets, NEW x \in Seqno,
           NEW lo \in Nat, NEW hi \in Nat, NEW lo2 \in Nat, NEW hi2 \in Nat,
           \A y \in Seqno \ {x} : HeldWaiting(uk[y], y, lo2, hi2) = HeldWaiting(tk[y], y, lo, hi)
    PROVE  WaitingSum(uk, lo2, hi2) =
              WaitingSum(tk, lo, hi) - HeldWaiting(tk[x], x, lo, hi)
                                     + HeldWaiting(uk[x], x, lo2, hi2)
  <1> DEFINE f == WaitingHeld(tk, lo, hi)
             g == WaitingHeld(uk, lo2, hi2)
  <1>1. NatOn(f, Seqno) /\ NatOn(g, Seqno)
    BY HeldNats
  <1>2. \A y \in Seqno \ {x} : g[y] = f[y]
    BY DEF WaitingHeld
  <1>3. f[x] = HeldWaiting(tk[x], x, lo, hi) /\ g[x] = HeldWaiting(uk[x], x, lo2, hi2)
    BY DEF WaitingHeld
  <1> HIDE DEF f, g
  <1>4. SumFunctionOnSet(g, Seqno) = SumFunctionOnSet(f, Seqno) - f[x] + g[x]
    BY <1>1, <1>2, SumUpdate, SeqnoFinite
  <1> QED
    BY <1>3, <1>4 DEF WaitingSum, f, g

LEMMA HolderChange ==
    ASSUME NEW w \in [Owner -> Nat], NEW q \in [Owner -> Nat],
           NEW v \in [Owner -> Nat], NEW p \in [Owner -> Nat], NEW o \in Owner,
           \A i \in Owner \ {o} : v[i] = w[i] /\ p[i] = q[i]
    PROVE  HolderSum(v, p) = HolderSum(w, q) - (w[o] + q[o]) + (v[o] + p[o])
  <1> DEFINE f == Holdings(w, q)
             g == Holdings(v, p)
  <1>1. NatOn(f, Owner) /\ NatOn(g, Owner)
    BY HoldingNats
  <1>2. \A i \in Owner \ {o} : g[i] = f[i]
    BY DEF Holdings
  <1>3. f[o] = w[o] + q[o] /\ g[o] = v[o] + p[o]
    BY DEF Holdings
  <1> HIDE DEF f, g
  <1>4. SumFunctionOnSet(g, Owner) = SumFunctionOnSet(f, Owner) - f[o] + g[o]
    BY <1>1, <1>2, SumUpdate, QueueAssumption
  <1> QED
    BY <1>3, <1>4 DEF HolderSum, f, g

LEMMA VaultChange ==
    ASSUME NEW q \in [Owner -> Nat], NEW p \in [Owner -> Nat], NEW o \in Owner,
           \A i \in Owner \ {o} : p[i] = q[i]
    PROVE  SumFunctionOnSet(p, Owner) = SumFunctionOnSet(q, Owner) - q[o] + p[o]
  <1>1. NatOn(p, Owner) /\ NatOn(q, Owner)
    BY HoldingNats
  <1> QED
    BY <1>1, SumUpdate, QueueAssumption

LEMMA SumTypes ==
    ASSUME NEW tk \in Tickets, NEW w \in [Owner -> Nat], NEW q \in [Owner -> Nat],
           NEW lo \in Nat, NEW hi \in Nat, NEW o
    PROVE  /\ AllSum(tk) \in Nat /\ OwnerSum(tk, o) \in Nat
           /\ WaitingSum(tk, lo, hi) \in Nat /\ HolderSum(w, q) \in Nat
           /\ SumFunctionOnSet(q, Owner) \in Nat
  <1>1. AllSum(tk) \in Nat
    BY HeldNats, SeqnoFinite, SumType DEF AllSum
  <1>2. OwnerSum(tk, o) \in Nat
    BY HeldNats, SeqnoFinite, SumType DEF OwnerSum
  <1>3. WaitingSum(tk, lo, hi) \in Nat
    BY HeldNats, SeqnoFinite, SumType DEF WaitingSum
  <1>4. HolderSum(w, q) \in Nat
    BY HoldingNats, QueueAssumption, SumType DEF HolderSum
  <1>5. SumFunctionOnSet(q, Owner) \in Nat
    BY HoldingNats, QueueAssumption, SumType
  <1> QED
    BY <1>1, <1>2, <1>3, <1>4, <1>5

-----------------------------------------------------------------------------
(* The inductive invariant.                                                *)

Good(t) == t \in Ticket /\ t.invalid = FALSE
Passed(t) == t \in Ticket /\ t.invalid = TRUE

\* TicketWindow.
Window(tk, lo, hi) ==
    /\ lo <= hi
    /\ \A n \in Seqno : IF lo <= n /\ n < hi THEN Good(tk[n])
                        ELSE tk[n] = NoTicket \/ (n < lo /\ Passed(tk[n]))

\* The vaults hold what the tickets say, owner by owner and all together.
VaultsHold(tk, q) ==
    /\ \A o \in Owner : q[o] = OwnerSum(tk, o)
    /\ SumFunctionOnSet(q, Owner) = AllSum(tk)

\* TypeOK without the cap, on which the rest of the invariant does not depend.
Typed ==
    /\ reserve \in ReserveState
    /\ supply_vault \in Nat
    /\ ticket \in [Seqno -> Ticket \cup {NoTicket}]
    /\ queued_vault \in [Owner -> Nat]
    /\ wallet \in [Owner -> Nat]
    /\ destination \in [Owner -> Destination]
    /\ switches \subseteq Switch

Inv ==
    /\ Typed
    /\ Window(ticket, reserve.next_withdrawable, reserve.next_issued)
    /\ reserve.queued = WaitingSum(ticket, reserve.next_withdrawable, reserve.next_issued)
    /\ VaultsHold(ticket, queued_vault)
    /\ reserve.mint_supply = Seed + HolderSum(wallet, queued_vault)
    /\ supply_vault = reserve.available + reserve.rewards
    /\ NeverUnderwater

LEMMA InvTypes ==
    ASSUME Inv
    PROVE  /\ reserve \in ReserveState /\ ticket \in Tickets
           /\ queued_vault \in [Owner -> Nat] /\ wallet \in [Owner -> Nat]
           /\ destination \in [Owner -> Destination] /\ switches \subseteq Switch
           /\ reserve.next_withdrawable \in Nat /\ reserve.next_issued \in Nat
           /\ reserve.queued \in Nat /\ reserve.available \in Nat /\ reserve.rewards \in Nat
           /\ Seed \in Nat \ {0} /\ reserve.mint_supply \in Nat
  BY QueueAssumption DEF Inv, Typed, Tickets, ReserveState

\* A reserve that can be used has ctokens and assets.
LEMMA UsableSound == ASSUME Inv, ~reserve.deprecated PROVE Sound(reserve)
  <1>1. reserve.mint_supply = Seed + HolderSum(wallet, queued_vault)
    BY DEF Inv
  <1>2. HolderSum(wallet, queued_vault) \in Nat
    BY InvTypes, SumTypes
  <1>3. total_supply(reserve) > 0
    BY DEF Inv, NeverUnderwater
  <1> QED
    BY <1>1, <1>2, <1>3, InvTypes DEF Sound

\* What a waiting ticket holds is in the queue's total; what any holds is in its
\* owner's vault.
LEMMA TicketHeld ==
    ASSUME Inv, NEW x \in Seqno, ticket[x] # NoTicket
    PROVE  /\ ticket[x] \in Ticket
           /\ ticket[x].owner \in Owner /\ ticket[x].amount \in Nat
           /\ ticket[x].amount <= queued_vault[ticket[x].owner]
           /\ reserve.next_withdrawable <= x /\ x < reserve.next_issued
                => ticket[x].amount <= reserve.queued
  <1>1. ticket[x] \in Ticket
    BY InvTypes DEF Tickets
  <1>2. ticket[x].owner \in Owner /\ ticket[x].amount \in Nat
    BY <1>1 DEF Ticket
  <1>3. ticket[x].amount <= queued_vault[ticket[x].owner]
    <2> DEFINE o == ticket[x].owner
               f == OwnerHeld(ticket, o)
    <2>1. NatOn(f, Seqno)
      BY InvTypes, HeldNats
    <2>2. f[x] = ticket[x].amount
      BY DEF OwnerHeld, HeldBy
    <2>3. queued_vault[o] = SumFunctionOnSet(f, Seqno)
      BY <1>2 DEF Inv, VaultsHold, OwnerSum
    <2> HIDE DEF f
    <2>4. f[x] <= SumFunctionOnSet(f, Seqno)
      BY <2>1, SumAtLeast, SeqnoFinite
    <2> QED
      BY <2>2, <2>3, <2>4
  <1>4. ASSUME reserve.next_withdrawable <= x, x < reserve.next_issued
        PROVE  ticket[x].amount <= reserve.queued
    <2> DEFINE f == WaitingHeld(ticket, reserve.next_withdrawable, reserve.next_issued)
    <2>1. NatOn(f, Seqno)
      BY InvTypes, HeldNats
    <2>2. f[x] = ticket[x].amount
      BY <1>4 DEF WaitingHeld, HeldWaiting
    <2>3. reserve.queued = SumFunctionOnSet(f, Seqno)
      BY DEF Inv, WaitingSum
    <2> HIDE DEF f
    <2>4. f[x] <= SumFunctionOnSet(f, Seqno)
      BY <2>1, SumAtLeast, SeqnoFinite
    <2> QED
      BY <2>2, <2>3, <2>4
  <1> QED
    BY <1>1, <1>2, <1>3, <1>4

\* The ctokens in the queue, in one wallet or vault and the seed's are different ctokens.
LEMMA EnoughCtokens ==
    ASSUME Inv
    PROVE  /\ reserve.queued + Seed <= reserve.mint_supply
           /\ \A o \in Owner : reserve.queued + wallet[o] + Seed <= reserve.mint_supply
           /\ \A o \in Owner : queued_vault[o] + Seed <= reserve.mint_supply
  <1> DEFINE lo == reserve.next_withdrawable
             hi == reserve.next_issued
             V == SumFunctionOnSet(queued_vault, Owner)
             H == HolderSum(wallet, queued_vault)
  <1>0. /\ ticket \in Tickets /\ lo \in Nat /\ hi \in Nat
        /\ wallet \in [Owner -> Nat] /\ queued_vault \in [Owner -> Nat] /\ Seed \in Nat
    BY InvTypes
  <1>1. reserve.queued <= V
    <2> DEFINE f == WaitingHeld(ticket, lo, hi)
               g == AllHeld(ticket)
    <2>1. NatOn(f, Seqno) /\ NatOn(g, Seqno)
      BY <1>0, HeldNats
    <2>2. \A n \in Seqno : f[n] <= g[n]
      <3>1. \A n \in Seqno : f[n] \in {0, g[n]} /\ g[n] \in Nat
        BY <2>1 DEF WaitingHeld, AllHeld, HeldWaiting, Held, NatOn
      <3> HIDE DEF f, g
      <3> QED
        BY <3>1
    <2>3. SumFunctionOnSet(f, Seqno) = reserve.queued /\ SumFunctionOnSet(g, Seqno) = V
      BY DEF Inv, WaitingSum, AllSum, VaultsHold
    <2> HIDE DEF f, g, V
    <2>4. SumFunctionOnSet(f, Seqno) <= SumFunctionOnSet(g, Seqno)
      BY <2>1, <2>2, SumMonotone, SeqnoFinite
    <2> QED
      BY <2>3, <2>4
  <1>2. reserve.mint_supply = Seed + H /\ V \in Nat /\ H \in Nat /\ reserve.queued \in Nat
    BY <1>0, InvTypes, SumTypes DEF Inv
  <1>3. ASSUME NEW o \in Owner PROVE V + wallet[o] <= H /\ queued_vault[o] <= H
    <2> DEFINE z == [i \in Owner |-> 0]
               w == [z EXCEPT ![o] = wallet[o]]
               f == Holdings(w, queued_vault)
               g == Holdings(wallet, queued_vault)
    <2>1. z \in [Owner -> Nat] /\ w \in [Owner -> Nat]
      BY <1>0
    <2>2. HolderSum(w, queued_vault) =
             HolderSum(z, queued_vault) - (z[o] + queued_vault[o]) + (w[o] + queued_vault[o])
      <3>1. \A i \in Owner \ {o} : w[i] = z[i]
        OBVIOUS
      <3> HIDE DEF z, w
      <3> QED
        BY <1>0, <2>1, <3>1, HolderChange
    <2>3. z[o] = 0 /\ w[o] = wallet[o]
      OBVIOUS
    <2>4. HolderSum(z, queued_vault) = V
      <3>1. NatOn(queued_vault, Owner)
        BY <1>0 DEF NatOn
      <3>2. \A i \in Owner : Holdings(z, queued_vault)[i] = queued_vault[i]
        BY <1>0 DEF Holdings
      <3> QED
        BY <3>1, <3>2, SumSame, QueueAssumption DEF HolderSum
    <2>5. NatOn(f, Owner) /\ NatOn(g, Owner)
      BY <1>0, <2>1, HoldingNats
    <2>6. \A i \in Owner : f[i] <= g[i]
      BY <1>0 DEF Holdings
    <2>7. g[o] = wallet[o] + queued_vault[o]
      BY DEF Holdings
    <2> HIDE DEF f, g, z, w
    <2>8. SumFunctionOnSet(f, Owner) <= SumFunctionOnSet(g, Owner)
      BY <2>5, <2>6, SumMonotone, QueueAssumption
    <2>9. g[o] <= SumFunctionOnSet(g, Owner)
      BY <2>5, SumAtLeast, QueueAssumption
    <2>10. wallet[o] \in Nat /\ queued_vault[o] \in Nat
      BY <1>0
    <2>11. SumFunctionOnSet(g, Owner) = H /\ SumFunctionOnSet(f, Owner) = HolderSum(w, queued_vault)
      BY DEF HolderSum, f, g
    <2> HIDE DEF V, H
    <2> QED
      BY <1>2, <2>2, <2>3, <2>4, <2>7, <2>8, <2>9, <2>10, <2>11
  <1>4. \A o \in Owner : wallet[o] \in Nat /\ queued_vault[o] \in Nat
    BY <1>0
  <1>5. V <= H
    <2>1. NatOn(queued_vault, Owner) /\ NatOn(Holdings(wallet, queued_vault), Owner)
      BY <1>0, HoldingNats
    <2>2. \A i \in Owner : queued_vault[i] <= Holdings(wallet, queued_vault)[i]
      BY <1>0 DEF Holdings
    <2> QED
      BY <2>1, <2>2, SumMonotone, QueueAssumption DEF HolderSum
  <1> HIDE DEF V, H
  <1> QED
    BY <1>0, <1>1, <1>2, <1>3, <1>4, <1>5

-----------------------------------------------------------------------------
(* Steps that leave the tickets alone.                                     *)

LEMMA WalletStep ==
    ASSUME Inv, reserve' \in ReserveState, wallet' \in [Owner -> Nat],
           reserve'.mint_supply = Seed + HolderSum(wallet', queued_vault),
           reserve'.queued = reserve.queued, reserve'.next_issued = reserve.next_issued,
           reserve'.next_withdrawable = reserve.next_withdrawable,
           supply_vault' = reserve'.available + reserve'.rewards,
           reserve'.deprecated \/ Sound(reserve'),
           UNCHANGED <<ticket, queued_vault, destination, switches>>
    PROVE  Inv'
  <1>1. supply_vault' \in Nat
    BY DEF ReserveState
  <1>2. Typed'
    BY <1>1 DEF Inv, Typed
  <1>3. NeverUnderwater'
    BY DEF NeverUnderwater, Sound
  <1> QED
    BY <1>2, <1>3 DEF Inv

LEMMA QuietStep ==
    ASSUME Inv, reserve' \in ReserveState,
           reserve'.mint_supply = reserve.mint_supply,
           reserve'.queued = reserve.queued, reserve'.next_issued = reserve.next_issued,
           reserve'.next_withdrawable = reserve.next_withdrawable,
           supply_vault' = reserve'.available + reserve'.rewards,
           reserve'.deprecated \/ Sound(reserve'),
           UNCHANGED <<ticket, queued_vault, wallet, destination, switches>>
    PROVE  Inv'
  <1>1. /\ reserve'.mint_supply = Seed + HolderSum(wallet', queued_vault)
        /\ wallet' \in [Owner -> Nat]
    BY InvTypes DEF Inv
  <1> QED
    BY <1>1, WalletStep

\* Every instruction but recover starts with a refresh.
LEMMA Refreshing ==
    ASSUME Inv, ~reserve.deprecated, NEW a \in Accruals, Refreshes(a), NEW r, r = Refreshed(a)
    PROVE  /\ r \in ReserveState /\ Sound(r) /\ NoWorse(reserve, r) /\ Sound(reserve)
           /\ r.mint_supply = reserve.mint_supply /\ r.queued = reserve.queued
           /\ r.next_issued = reserve.next_issued
           /\ r.next_withdrawable = reserve.next_withdrawable
           /\ r.deprecated = reserve.deprecated
           /\ r.available >= reserve.available
           /\ r.available \in Nat /\ r.rewards \in Nat /\ r.mint_supply \in Nat
           /\ r.available + r.rewards = supply_vault
  <1>1. reserve \in ReserveState /\ a \in Accrual /\ CanAccrue(reserve, a)
    BY InvTypes, QueueAssumption DEF Refreshes
  <1>2. Sound(reserve)
    BY UsableSound
  <1>3. Sound(r) /\ NoWorse(reserve, r)
    BY <1>1, <1>2, RefreshKeeps DEF Refreshed
  <1>4. /\ r \in ReserveState
        /\ r.mint_supply = reserve.mint_supply /\ r.queued = reserve.queued
        /\ r.next_issued = reserve.next_issued
        /\ r.next_withdrawable = reserve.next_withdrawable
        /\ r.deprecated = reserve.deprecated
        /\ r.available = reserve.available + a.reward
        /\ r.rewards = reserve.rewards - a.reward
    BY <1>1, RefreshFields DEF Refreshed
  <1>5. /\ reserve.available \in Nat /\ a.reward \in Nat /\ reserve.rewards \in Nat
        /\ r.available \in Nat /\ r.rewards \in Nat /\ r.mint_supply \in Nat
        /\ supply_vault = reserve.available + reserve.rewards
    BY <1>1, <1>4 DEF Accrual, ReserveState, Inv
  <1> QED
    BY <1>2, <1>3, <1>4, <1>5

\* What one instruction does to the rate, and to the liquidity the queue needs.
RateKept == total_supply(reserve') * reserve.mint_supply
               >= total_supply(reserve) * reserve'.mint_supply
QueueLeft == \/ reserve'.available >= reserve.available
             \/ reserve'.available + 1 >= queued_liquidity_amount(reserve')

LEMMA RefreshStep ==
    ASSUME Inv, NEW a \in Accruals, RefreshReserve(a)
    PROVE  Inv' /\ RateKept /\ QueueLeft
  <1> DEFINE r == Refreshed(a)
  <1>1. ~reserve.deprecated /\ Refreshes(a) /\ reserve' = r
    BY DEF RefreshReserve
  <1>2. UNCHANGED <<supply_vault, ticket, queued_vault, wallet, destination, switches>>
    BY DEF RefreshReserve
  <1> HIDE DEF r
  <1>3. /\ r \in ReserveState /\ Sound(r) /\ NoWorse(reserve, r)
        /\ r.mint_supply = reserve.mint_supply /\ r.queued = reserve.queued
        /\ r.next_issued = reserve.next_issued
        /\ r.next_withdrawable = reserve.next_withdrawable
        /\ r.available >= reserve.available
        /\ r.available + r.rewards = supply_vault
    BY <1>1, Refreshing DEF r
  <1>4. Inv'
    BY <1>1, <1>2, <1>3, QuietStep
  <1> QED
    BY <1>1, <1>3, <1>4 DEF RateKept, QueueLeft, NoWorse

LEMMA TopupStep ==
    ASSUME Inv, NEW a \in Accruals, NEW l \in Amounts, TopupReserveRewards(l, a)
    PROVE  Inv' /\ RateKept /\ QueueLeft
  <1> DEFINE r == Refreshed(a)
             s == [r EXCEPT !.rewards = @ + l]
  <1>1. ~reserve.deprecated /\ Refreshes(a) /\ reserve' = s /\ supply_vault' = supply_vault + l
    BY DEF TopupReserveRewards, Active, Usable
  <1>2. UNCHANGED <<ticket, queued_vault, wallet, destination, switches>>
    BY DEF TopupReserveRewards
  <1>0. l \in Nat
    BY QueueAssumption
  <1> HIDE DEF r
  <1>3. /\ r \in ReserveState /\ Sound(r) /\ NoWorse(reserve, r)
        /\ r.mint_supply = reserve.mint_supply /\ r.queued = reserve.queued
        /\ r.next_issued = reserve.next_issued
        /\ r.next_withdrawable = reserve.next_withdrawable
        /\ r.available >= reserve.available
        /\ r.available \in Nat /\ r.rewards \in Nat
        /\ r.available + r.rewards = supply_vault
    BY <1>1, Refreshing DEF r
  <1>4. /\ s \in ReserveState /\ s.available = r.available /\ s.rewards = r.rewards + l
        /\ s.mint_supply = r.mint_supply /\ s.queued = r.queued
        /\ s.next_issued = r.next_issued /\ s.next_withdrawable = r.next_withdrawable
        /\ s.borrowed_sf = r.borrowed_sf /\ s.protocol_fees_sf = r.protocol_fees_sf
    BY <1>0, <1>3, TopupFields
  <1> HIDE DEF s
  <1>5. total_supply(s) = total_supply(r)
    BY <1>4 DEF total_supply
  <1>6. Sound(s)
    BY <1>3, <1>4, <1>5 DEF Sound
  <1>7. Inv'
    BY <1>0, <1>1, <1>2, <1>3, <1>4, <1>6, QuietStep
  <1> QED
    BY <1>1, <1>3, <1>4, <1>5, <1>7 DEF RateKept, QueueLeft, NoWorse

LEMMA BorrowStep ==
    ASSUME Inv, NEW a \in Accruals, NEW b \in BorrowSizes, Borrow(b, a)
    PROVE  Inv' /\ RateKept /\ QueueLeft
  <1> DEFINE r == Refreshed(a)
             s == borrow(r, b)
             l == b \div SF
             Q == queued_liquidity_amount(r)
  <1>1. /\ ~reserve.deprecated /\ Refreshes(a) /\ reserve' = s
        /\ supply_vault' = supply_vault - l
        /\ l # 0 /\ l <= freely_available_liquidity_amount(r)
    BY DEF Borrow, Active, Usable, Withdrawable
  <1>2. UNCHANGED <<ticket, queued_vault, wallet, destination, switches>>
    BY DEF Borrow
  <1>3. b \in Nat
    BY QueueAssumption, ScaleAssumption DEF BorrowSizes
  <1>4. l \in Nat
    BY <1>3, DivBounds, ScaleAssumption
  <1> HIDE DEF r
  <1>5. /\ r \in ReserveState /\ Sound(r) /\ NoWorse(reserve, r) /\ Sound(reserve)
        /\ r.mint_supply = reserve.mint_supply /\ r.queued = reserve.queued
        /\ r.next_issued = reserve.next_issued
        /\ r.next_withdrawable = reserve.next_withdrawable
        /\ r.available \in Nat /\ r.rewards \in Nat
        /\ r.available + r.rewards = supply_vault
    BY <1>1, Refreshing DEF r
  <1>6. Q \in Nat /\ l <= r.available /\ r.available - l >= Q
    <2> HIDE DEF l
    <2> QED
      BY <1>1, <1>4, <1>5, FreeAmount
  <1> HIDE DEF Q, l
  <1>7. Sound(s) /\ NoWorse(r, s) /\ total_supply(s) < total_supply(r) + SF
    BY <1>3, <1>5, <1>6, BorrowKeeps DEF l
  <1>8. /\ s \in ReserveState /\ s.available = r.available - l /\ s.rewards = r.rewards
        /\ s.mint_supply = r.mint_supply /\ s.queued = r.queued
        /\ s.next_issued = r.next_issued /\ s.next_withdrawable = r.next_withdrawable
    BY <1>3, <1>4, <1>5, <1>6, BorrowFields DEF l
  <1> HIDE DEF s
  <1>9. Inv'
    <2>1. supply_vault' = s.available + s.rewards
      BY <1>1, <1>4, <1>5, <1>8
    <2> QED
      BY <1>1, <1>2, <1>5, <1>7, <1>8, <2>1, QuietStep
  <1>10. NoWorse(reserve, s)
    BY <1>5, <1>7, NoWorseTrans
  <1>11. queued_liquidity_amount(s) \in Nat /\ queued_liquidity_amount(s) <= Q + 1
    <2>1. r.queued <= r.mint_supply
      BY <1>5, EnoughCtokens, InvTypes
    <2>2. total_supply(s) <= total_supply(r) + SF
      BY <1>5, <1>7, <1>8, SupplyType, ScaleAssumption
    <2> QED
      BY <1>5, <1>7, <1>8, <2>1, <2>2, SmallGain DEF Q
  <1>12. QueueLeft
    BY <1>1, <1>4, <1>5, <1>6, <1>8, <1>11 DEF QueueLeft
  <1> QED
    BY <1>1, <1>9, <1>10, <1>12 DEF RateKept, NoWorse

LEMMA RepayStep ==
    ASSUME Inv, NEW a \in Accruals, NEW d \in 1..MaxDebt, Repay(d, a)
    PROVE  Inv' /\ RateKept /\ QueueLeft
  <1> DEFINE r == Refreshed(a)
             l == DivCeil(d, SF)
             s == repay(r, l, d)
  <1>1. /\ ~reserve.deprecated /\ Refreshes(a) /\ reserve' = s
        /\ supply_vault' = supply_vault + l /\ d \in 1..r.borrowed_sf
    BY DEF Repay, Usable
  <1>2. UNCHANGED <<ticket, queued_vault, wallet, destination, switches>>
    BY DEF Repay
  <1> HIDE DEF r
  <1>3. /\ r \in ReserveState /\ Sound(r) /\ NoWorse(reserve, r) /\ Sound(reserve)
        /\ r.mint_supply = reserve.mint_supply /\ r.queued = reserve.queued
        /\ r.next_issued = reserve.next_issued
        /\ r.next_withdrawable = reserve.next_withdrawable
        /\ r.available >= reserve.available /\ reserve.available \in Nat
        /\ r.available \in Nat /\ r.rewards \in Nat
        /\ r.available + r.rewards = supply_vault
    BY <1>1, Refreshing, InvTypes DEF r
  <1>4. d \in Nat /\ d <= r.borrowed_sf
    BY <1>1, <1>3 DEF ReserveState
  <1>5. l \in Nat /\ Sound(s) /\ NoWorse(r, s)
    BY <1>3, <1>4, RepayKeeps
  <1> HIDE DEF l
  <1>6. /\ s \in ReserveState /\ s.available = r.available + l /\ s.rewards = r.rewards
        /\ s.mint_supply = r.mint_supply /\ s.queued = r.queued
        /\ s.next_issued = r.next_issued /\ s.next_withdrawable = r.next_withdrawable
    BY <1>3, <1>4, <1>5, RepayFields
  <1> HIDE DEF s
  <1>7. supply_vault' = s.available + s.rewards
    BY <1>1, <1>3, <1>5, <1>6
  <1>8. Inv'
    BY <1>1, <1>2, <1>3, <1>5, <1>6, <1>7, QuietStep
  <1>9. NoWorse(reserve, s)
    BY <1>3, <1>5, NoWorseTrans
  <1> QED
    BY <1>1, <1>3, <1>5, <1>6, <1>8, <1>9 DEF RateKept, QueueLeft, NoWorse

LEMMA FeesStep ==
    ASSUME Inv, NEW a \in Accruals, RedeemFees(a)
    PROVE  Inv' /\ RateKept /\ QueueLeft
  <1> DEFINE r == Refreshed(a)
             l == calculate_redeem_fees(r)
             s == redeem_fees(r, l)
             Q == queued_liquidity_amount(r)
             F == freely_available_liquidity_amount(r)
  <1>1. /\ ~reserve.deprecated /\ Refreshes(a) /\ reserve' = s
        /\ supply_vault' = supply_vault - l /\ l # 0
    BY DEF RedeemFees, Usable
  <1>2. UNCHANGED <<ticket, queued_vault, wallet, destination, switches>>
    BY DEF RedeemFees
  <1> HIDE DEF r
  <1>3. /\ r \in ReserveState /\ Sound(r) /\ NoWorse(reserve, r) /\ Sound(reserve)
        /\ r.mint_supply = reserve.mint_supply /\ r.queued = reserve.queued
        /\ r.next_issued = reserve.next_issued
        /\ r.next_withdrawable = reserve.next_withdrawable
        /\ r.available \in Nat /\ r.rewards \in Nat
        /\ r.available + r.rewards = supply_vault
    BY <1>1, Refreshing DEF r
  <1>4. l \in Nat /\ l <= F /\ l <= r.protocol_fees_sf \div SF
    <2>1. r.protocol_fees_sf \div SF \in Nat
      BY <1>3, DivBounds, ScaleAssumption DEF ReserveState
    <2>2. Q \in Nat /\ r.available \in Nat
      <3>1. r.queued \in Nat
        BY <1>3 DEF ReserveState
      <3>2. Worth(r, r.queued) \in Nat
        BY <1>3, <3>1, WorthBounds
      <3> QED
        BY <1>3, <3>2 DEF queued_liquidity_amount, Worth
    <2> HIDE DEF Q
    <2>3. F \in Nat
      BY <2>2 DEF freely_available_liquidity_amount, saturating_sub, Q
    <2>4. l = Lesser(F, r.protocol_fees_sf \div SF)
      BY DEF calculate_redeem_fees
    <2> HIDE DEF F, l
    <2> QED
      BY <2>1, <2>3, <2>4 DEF Lesser
  <1> HIDE DEF l
  <1>5. Q \in Nat /\ l <= r.available /\ r.available - l >= Q
    BY <1>1, <1>3, <1>4, FreeAmount
  <1> HIDE DEF Q
  <1>6. /\ l * SF \in Nat /\ l * SF <= r.protocol_fees_sf
        /\ Sound(s) /\ NoWorse(r, s) /\ total_supply(s) = total_supply(r)
    BY <1>3, <1>4, <1>5, FeesKeep
  <1>7. /\ s \in ReserveState /\ s.available = r.available - l /\ s.rewards = r.rewards
        /\ s.mint_supply = r.mint_supply /\ s.queued = r.queued
        /\ s.next_issued = r.next_issued /\ s.next_withdrawable = r.next_withdrawable
    BY <1>3, <1>4, <1>5, <1>6, FeeFields
  <1> HIDE DEF s
  <1>8. supply_vault' = s.available + s.rewards
    BY <1>1, <1>3, <1>4, <1>7
  <1>9. Inv'
    BY <1>1, <1>2, <1>3, <1>6, <1>7, <1>8, QuietStep
  <1>10. NoWorse(reserve, s)
    BY <1>3, <1>6, NoWorseTrans
  <1>11. queued_liquidity_amount(s) \in Nat /\ queued_liquidity_amount(s) <= Q + 1
    <2>1. r.queued <= r.mint_supply
      BY <1>3, EnoughCtokens, InvTypes
    <2>2. total_supply(s) <= total_supply(r) + SF
      BY <1>3, <1>6, SupplyType, ScaleAssumption
    <2> QED
      BY <1>3, <1>6, <1>7, <2>1, <2>2, SmallGain DEF Q
  <1>12. QueueLeft
    BY <1>1, <1>3, <1>4, <1>5, <1>7, <1>11 DEF QueueLeft
  <1> QED
    BY <1>1, <1>9, <1>10, <1>12 DEF RateKept, NoWorse

LEMMA SocializeStep ==
    ASSUME Inv, NEW a \in Accruals, NEW l \in Amounts, SocializeLoss(l, a)
    PROVE  Inv' /\ QueueLeft
  <1> DEFINE r == Refreshed(a)
             f == Lesser(l * SF, r.borrowed_sf)
             s == forgive_debt(r, f)
  <1>1. ~reserve.deprecated /\ Refreshes(a) /\ reserve' = s
    BY DEF SocializeLoss, Usable
  <1>2. UNCHANGED <<supply_vault, ticket, queued_vault, wallet, destination, switches>>
    BY DEF SocializeLoss
  <1> HIDE DEF r
  <1>3. /\ r \in ReserveState /\ Sound(r)
        /\ r.mint_supply = reserve.mint_supply /\ r.queued = reserve.queued
        /\ r.next_issued = reserve.next_issued
        /\ r.next_withdrawable = reserve.next_withdrawable
        /\ r.available >= reserve.available
        /\ r.available + r.rewards = supply_vault
    BY <1>1, Refreshing DEF r
  <1>4. f \in Nat /\ f <= r.borrowed_sf
    <2>1. l * SF \in Nat /\ r.borrowed_sf \in Nat
      BY <1>3, QueueAssumption, ScaleAssumption, Product DEF ReserveState
    <2> QED
      BY <2>1 DEF Lesser
  <1> HIDE DEF f
  <1>5. s.deprecated \/ Sound(s)
    BY <1>3, <1>4, ForgiveKeeps
  <1>6. /\ s \in ReserveState /\ s.available = r.available /\ s.rewards = r.rewards
        /\ s.mint_supply = r.mint_supply /\ s.queued = r.queued
        /\ s.next_issued = r.next_issued /\ s.next_withdrawable = r.next_withdrawable
    BY <1>3, <1>4, ForgiveFields
  <1> HIDE DEF s
  <1>7. Inv'
    BY <1>1, <1>2, <1>3, <1>5, <1>6, QuietStep
  <1> QED
    BY <1>1, <1>3, <1>6, <1>7 DEF QueueLeft

LEMMA DepositStep ==
    ASSUME Inv, NEW a \in Accruals, NEW o \in Owner, NEW x \in Amounts,
           DepositReserveLiquidity(o, x, a)
    PROVE  Inv' /\ RateKept /\ QueueLeft
  <1> DEFINE r == Refreshed(a)
             l == depositable(r, x).liquidity
             c == depositable(r, x).collateral
             s == deposit_liquidity(r, l, c)
  <1>1. /\ ~reserve.deprecated /\ Refreshes(a) /\ reserve' = s
        /\ supply_vault' = supply_vault + l
        /\ wallet' = [wallet EXCEPT ![o] = @ + c]
    BY DEF DepositReserveLiquidity, Active, Usable
  <1>2. UNCHANGED <<ticket, queued_vault, destination, switches>>
    BY DEF DepositReserveLiquidity
  <1>3. x \in Nat
    BY QueueAssumption
  <1> HIDE DEF r
  <1>4. /\ r \in ReserveState /\ Sound(r) /\ NoWorse(reserve, r) /\ Sound(reserve)
        /\ r.mint_supply = reserve.mint_supply /\ r.queued = reserve.queued
        /\ r.next_issued = reserve.next_issued
        /\ r.next_withdrawable = reserve.next_withdrawable
        /\ r.available >= reserve.available /\ reserve.available \in Nat
        /\ r.available \in Nat /\ r.rewards \in Nat
        /\ r.available + r.rewards = supply_vault
    BY <1>1, Refreshing, InvTypes DEF r
  <1>5. l \in Nat /\ c \in Nat /\ Sound(s) /\ NoWorse(r, s)
    BY <1>3, <1>4, DepositKeeps
  <1> HIDE DEF l, c
  <1>6. /\ s \in ReserveState /\ s.available = r.available + l /\ s.rewards = r.rewards
        /\ s.mint_supply = r.mint_supply + c /\ s.queued = r.queued
        /\ s.next_issued = r.next_issued /\ s.next_withdrawable = r.next_withdrawable
    BY <1>4, <1>5, DepositFields
  <1> HIDE DEF s
  <1>7. supply_vault' = s.available + s.rewards
    BY <1>1, <1>4, <1>5, <1>6
  <1>8. wallet \in [Owner -> Nat] /\ queued_vault \in [Owner -> Nat] /\ wallet' \in [Owner -> Nat]
    BY <1>1, <1>5, InvTypes
  <1>9. s.mint_supply = Seed + HolderSum(wallet', queued_vault)
    <2>1. wallet'[o] = wallet[o] + c /\ \A i \in Owner \ {o} : wallet'[i] = wallet[i]
      BY <1>1, <1>8
    <2>2. HolderSum(wallet', queued_vault) = HolderSum(wallet, queued_vault)
             - (wallet[o] + queued_vault[o]) + (wallet'[o] + queued_vault[o])
      BY <1>8, <2>1, HolderChange
    <2>3. /\ wallet[o] \in Nat /\ queued_vault[o] \in Nat
          /\ HolderSum(wallet, queued_vault) \in Nat /\ Seed \in Nat
      BY <1>8, InvTypes, SumTypes
    <2>4. reserve.mint_supply = Seed + HolderSum(wallet, queued_vault)
      BY DEF Inv
    <2> QED
      BY <1>4, <1>5, <1>6, <2>1, <2>2, <2>3, <2>4
  <1>10. Inv'
    BY <1>1, <1>2, <1>4, <1>5, <1>6, <1>7, <1>8, <1>9, WalletStep
  <1>11. NoWorse(reserve, s)
    BY <1>4, <1>5, NoWorseTrans
  <1> QED
    BY <1>1, <1>4, <1>5, <1>6, <1>10, <1>11 DEF RateKept, QueueLeft, NoWorse

LEMMA WorthNothing == ASSUME NEW r, Sound(r) PROVE Worth(r, 0) = 0
  <1> DEFINE l == Worth(r, 0)
             m == r.mint_supply
             T == total_supply(r)
  <1>1. m \in Nat \ {0} /\ T \in Nat \ {0} /\ SF \in Nat \ {0}
    BY SoundTypes
  <1>2. l \in Nat /\ (l * SF) * m <= 0 * T
    BY WorthBounds
  <1> HIDE DEF l, m, T
  <1>3. (l * SF) * m <= 0
    <2>1. 0 * T = 0
      BY <1>1
    <2> QED
      BY <1>2, <2>1
  <1>4. CASE l # 0
    <2>1. l * SF \in Nat \ {0}
      BY <1>1, <1>2, <1>4
    <2> DEFINE p == l * SF
    <2>2. p * m \in Nat \ {0} /\ p * m <= 0
      <3>0. p * m <= 0
        BY <1>3
      <3> HIDE DEF p
      <3>1. p \in Nat \ {0}
        BY <2>1 DEF p
      <3> QED
        BY <1>1, <3>0, <3>1
    <2> HIDE DEF p
    <2> QED
      BY <2>2
  <1> QED
    BY <1>4 DEF l

\* Ctokens out of wallets are burned for liquidity of the reserve.
LEMMA Burning ==
    ASSUME Inv, ~reserve.deprecated, NEW a \in Accruals, Refreshes(a),
           NEW o \in Owner, NEW c \in Nat, c <= wallet[o],
           Worth(Refreshed(a), c) <= Refreshed(a).available,
           reserve' = redeem_collateral(Refreshed(a), c),
           supply_vault' = supply_vault - Worth(Refreshed(a), c),
           wallet' \in [Owner -> Nat],
           HolderSum(wallet', queued_vault) = HolderSum(wallet, queued_vault) - c,
           UNCHANGED <<ticket, queued_vault, destination, switches>>
    PROVE  /\ Inv' /\ RateKept
           /\ Worth(Refreshed(a), c) <= freely_available_liquidity_amount(Refreshed(a))
                => QueueLeft
  <1> DEFINE r == Refreshed(a)
             l == Worth(r, c)
             s == redeem_collateral(r, c)
             Q == queued_liquidity_amount(r)
  <1>1. l <= r.available /\ reserve' = s /\ supply_vault' = supply_vault - l
    OBVIOUS
  <1>2. /\ r \in ReserveState /\ Sound(r) /\ NoWorse(reserve, r) /\ Sound(reserve)
        /\ r.mint_supply = reserve.mint_supply /\ r.queued = reserve.queued
        /\ r.next_issued = reserve.next_issued
        /\ r.next_withdrawable = reserve.next_withdrawable
        /\ r.available >= reserve.available /\ reserve.available \in Nat
        /\ r.available \in Nat /\ r.rewards \in Nat /\ r.queued \in Nat
        /\ r.available + r.rewards = supply_vault
    BY Refreshing, InvTypes
  <1> HIDE DEF r
  <1>3. c < r.mint_supply /\ r.queued <= r.mint_supply - c /\ c <= r.mint_supply
    <2>1. reserve.queued + wallet[o] + Seed <= reserve.mint_supply
      BY EnoughCtokens
    <2>2. wallet[o] \in Nat /\ Seed \in Nat \ {0} /\ reserve.mint_supply \in Nat
      BY InvTypes
    <2> QED
      BY <1>2, <2>1, <2>2
  <1>4. l \in Nat
    BY <1>2, WorthBounds
  <1>5. Sound(s) /\ NoWorse(r, s)
    BY <1>1, <1>2, <1>3, RedeemKeeps
  <1>6. /\ queued_liquidity_amount(s) \in Nat /\ Q \in Nat
        /\ queued_liquidity_amount(s) <= Q + 1
    BY <1>1, <1>2, <1>3, RedeemClaim
  <1>7. l = collateral_to_liquidity(collateral_exchange_rate(r), c)
    BY DEF Worth
  <1> HIDE DEF l
  <1>8. /\ s \in ReserveState /\ s.available = r.available - l /\ s.rewards = r.rewards
        /\ s.mint_supply = r.mint_supply - c /\ s.queued = r.queued
        /\ s.next_issued = r.next_issued /\ s.next_withdrawable = r.next_withdrawable
    BY <1>1, <1>2, <1>3, <1>4, <1>7, RedeemFields
  <1> HIDE DEF s, Q
  <1>9. Inv'
    <2>1. supply_vault' = s.available + s.rewards
      BY <1>1, <1>2, <1>4, <1>8
    <2>2. s.mint_supply = Seed + HolderSum(wallet', queued_vault)
      <3>1. reserve.mint_supply = Seed + HolderSum(wallet, queued_vault)
        BY DEF Inv
      <3>2. HolderSum(wallet, queued_vault) \in Nat /\ Seed \in Nat
        BY InvTypes, SumTypes
      <3> QED
        BY <1>2, <1>8, <3>1, <3>2
    <2> QED
      BY <1>1, <1>2, <1>5, <1>8, <2>1, <2>2, WalletStep
  <1>10. NoWorse(reserve, s)
    BY <1>2, <1>5, NoWorseTrans
  <1>11. ASSUME l <= freely_available_liquidity_amount(r) PROVE QueueLeft
    <2>1. CASE l = 0
      BY <1>1, <1>2, <1>8, <2>1 DEF QueueLeft
    <2>2. CASE l # 0
      <3>1. r.available - l >= Q
        BY <1>2, <1>4, <1>11, <2>2, FreeAmount DEF Q
      <3> QED
        BY <1>1, <1>2, <1>4, <1>6, <1>8, <3>1 DEF QueueLeft
    <2> QED
      BY <2>1, <2>2
  <1> QED
    BY <1>1, <1>9, <1>10, <1>11 DEF RateKept, NoWorse, r, l

LEMMA RedeemStep ==
    ASSUME Inv, NEW a \in Accruals, NEW o \in Owner, NEW c \in Amounts,
           RedeemReserveCollateral(o, c, a)
    PROVE  Inv' /\ RateKept /\ QueueLeft
  <1> DEFINE r == Refreshed(a)
             l == Worth(r, c)
  <1>1. /\ ~reserve.deprecated /\ Refreshes(a) /\ c <= wallet[o]
        /\ reserve' = redeem_collateral(r, c) /\ supply_vault' = supply_vault - l
        /\ l <= freely_available_liquidity_amount(r)
        /\ wallet' = [wallet EXCEPT ![o] = @ - c]
        /\ UNCHANGED <<ticket, queued_vault, destination, switches>>
    BY DEF RedeemReserveCollateral, Usable, Withdrawable, Worth
  <1>2. c \in Nat
    BY QueueAssumption
  <1>3. Sound(r)
    BY <1>1, Refreshing
  <1>4. l \in Nat
    BY <1>2, <1>3, WorthBounds
  <1>5. l <= r.available
    <2> HIDE DEF l
    <2> QED
      BY <1>1, <1>3, <1>4, FreeAmount
  <1>6. wallet \in [Owner -> Nat] /\ queued_vault \in [Owner -> Nat]
    BY InvTypes
  <1>7. wallet' \in [Owner -> Nat]
    BY <1>1, <1>2, <1>6
  <1>8. HolderSum(wallet', queued_vault) = HolderSum(wallet, queued_vault) - c
    <2>1. wallet'[o] = wallet[o] - c /\ \A i \in Owner \ {o} : wallet'[i] = wallet[i]
      BY <1>1, <1>6
    <2>2. HolderSum(wallet', queued_vault) = HolderSum(wallet, queued_vault)
             - (wallet[o] + queued_vault[o]) + (wallet'[o] + queued_vault[o])
      BY <1>6, <1>7, <2>1, HolderChange
    <2>3. /\ wallet[o] \in Nat /\ queued_vault[o] \in Nat
          /\ HolderSum(wallet, queued_vault) \in Nat
      BY <1>6, InvTypes, SumTypes
    <2> QED
      BY <1>2, <2>1, <2>2, <2>3
  <1> QED
    BY <1>1, <1>2, <1>5, <1>7, <1>8, Burning

LEMMA RedeemableType ==
    ASSUME NEW r, Sound(r)
    PROVE  /\ total_redeemable_collateral_amount(r) \in Nat
           /\ freely_redeemable_collateral_amount(r) \in Nat
  <1> DEFINE x == collateral_exchange_rate(r)
             n == r.available * x.collateral * SF
  <1>1. /\ r.mint_supply \in Nat \ {0} /\ total_supply(r) \in Nat \ {0}
        /\ SF \in Nat \ {0} /\ r.available \in Nat /\ r.queued \in Nat
    BY SoundTypes
  <1>2. x.collateral = r.mint_supply /\ x.liquidity = total_supply(r)
    BY SoundRate
  <1>3. n \in Nat /\ x.liquidity \in Nat \ {0}
    BY <1>1, <1>2, Product
  <1> HIDE DEF x, n
  <1>4. n \div x.liquidity \in Nat /\ DivCeil(n, x.liquidity) \in Nat
    BY <1>3, DivBounds, CeilBounds
  <1>5. total_redeemable_collateral_amount(r) \in Nat
    BY <1>4 DEF total_redeemable_collateral_amount, liquidity_to_collateral,
                liquidity_to_collateral_ceil, n, x
  <1> QED
    BY <1>1, <1>5 DEF freely_redeemable_collateral_amount, saturating_sub

\* An enforced liquidation may take what the queue needs; one the user ordered
\* leaves it.
LEMMA LiquidateStep ==
    ASSUME Inv, NEW a \in Accruals, NEW o \in Owner, NEW q \in Owner, NEW c \in Amounts,
           NEW e \in Enforced, LiquidateAndRedeem(o, q, c, e, a)
    PROVE  Inv' /\ RateKept /\ (e = FALSE => QueueLeft)
  <1> DEFINE r == Refreshed(a)
             d == Lesser(c, IF e THEN total_redeemable_collateral_amount(r)
                                 ELSE freely_redeemable_collateral_amount(r))
             l == Worth(r, d)
             v == [wallet EXCEPT ![o] = @ - c]
  <1>1. /\ ~reserve.deprecated /\ Refreshes(a) /\ c <= wallet[o]
        /\ reserve' = redeem_collateral(r, d) /\ supply_vault' = supply_vault - l
        /\ d # 0 => Withdrawable(r, l, e)
        /\ wallet' = [v EXCEPT ![q] = @ + c - d]
        /\ UNCHANGED <<ticket, queued_vault, destination, switches>>
    BY DEF LiquidateAndRedeem, Usable, Worth
  <1>2. c \in Nat /\ e \in BOOLEAN
    BY QueueAssumption
  <1>3. Sound(r) /\ r.available \in Nat
    BY <1>1, Refreshing
  <1>4. d \in Nat /\ d <= c
    <2>1. /\ total_redeemable_collateral_amount(r) \in Nat
          /\ freely_redeemable_collateral_amount(r) \in Nat
      BY <1>3, RedeemableType
    <2> HIDE DEF r
    <2> QED
      BY <1>2, <2>1 DEF Lesser
  <1> HIDE DEF d
  <1>5. l \in Nat
    BY <1>3, <1>4, WorthBounds
  <1>6. l <= r.available /\ (e = FALSE => l <= freely_available_liquidity_amount(r))
    <2>1. CASE d = 0
      <3>1. l = 0
        BY <1>3, <2>1, WorthNothing
      <3>2. queued_liquidity_amount(r) \in Nat
        <4>1. r.queued \in Nat
          BY <1>3, SoundTypes
        <4>2. Worth(r, r.queued) \in Nat
          BY <1>3, <4>1, WorthBounds
        <4> QED
          BY <4>2 DEF queued_liquidity_amount, Worth
      <3> HIDE DEF l, r
      <3>3. freely_available_liquidity_amount(r) \in Nat
        BY <1>3, <3>2 DEF freely_available_liquidity_amount, saturating_sub
      <3> QED
        BY <1>3, <3>1, <3>3
    <2>2. CASE d # 0 /\ e = TRUE
      BY <1>1, <2>2 DEF Withdrawable
    <2>3. CASE d # 0 /\ e = FALSE
      <3>1. l <= freely_available_liquidity_amount(r)
        BY <1>1, <2>3 DEF Withdrawable
      <3> HIDE DEF l
      <3> QED
        BY <1>3, <1>5, <3>1, FreeAmount
    <2> QED
      BY <1>2, <2>1, <2>2, <2>3
  <1>7. wallet \in [Owner -> Nat] /\ queued_vault \in [Owner -> Nat] /\ wallet[o] \in Nat
    BY InvTypes
  <1>8. v \in [Owner -> Nat] /\ v[o] = wallet[o] - c /\ \A i \in Owner \ {o} : v[i] = wallet[i]
    BY <1>1, <1>2, <1>7
  <1> HIDE DEF v
  <1>9. v[q] \in Nat /\ v[q] + c - d \in Nat
    BY <1>2, <1>4, <1>8
  <1>10. /\ wallet' \in [Owner -> Nat] /\ wallet'[q] = v[q] + c - d
         /\ \A i \in Owner \ {q} : wallet'[i] = v[i]
    BY <1>1, <1>8, <1>9
  <1>11. HolderSum(wallet', queued_vault) = HolderSum(wallet, queued_vault) - d
    <2>1. HolderSum(v, queued_vault) = HolderSum(wallet, queued_vault)
             - (wallet[o] + queued_vault[o]) + (v[o] + queued_vault[o])
      BY <1>7, <1>8, HolderChange
    <2>2. HolderSum(wallet', queued_vault) = HolderSum(v, queued_vault)
             - (v[q] + queued_vault[q]) + (wallet'[q] + queued_vault[q])
      BY <1>7, <1>8, <1>10, HolderChange
    <2>3. HolderSum(wallet, queued_vault) \in Nat /\ HolderSum(v, queued_vault) \in Nat
      BY <1>7, <1>8, InvTypes, SumTypes
    <2>4. queued_vault[o] \in Nat /\ queued_vault[q] \in Nat
      BY <1>7
    <2> QED
      BY <1>2, <1>4, <1>7, <1>8, <1>9, <1>10, <2>1, <2>2, <2>3, <2>4
  <1>12. d <= wallet[o]
    BY <1>1, <1>2, <1>4, <1>7
  <1> QED
    BY <1>1, <1>4, <1>6, <1>10, <1>11, <1>12, Burning

-----------------------------------------------------------------------------
(* Steps of the queue.  Each changes the ticket at one sequence number.    *)

LEMMA LiveValid ==
    ASSUME Inv, NEW n \in Seqno, ticket[n] # NoTicket, ~ticket[n].invalid
    PROVE  /\ Good(ticket[n])
           /\ reserve.next_withdrawable <= n /\ n < reserve.next_issued
  <1>1. IF reserve.next_withdrawable <= n /\ n < reserve.next_issued THEN Good(ticket[n])
        ELSE ticket[n] = NoTicket
             \/ (n < reserve.next_withdrawable /\ Passed(ticket[n]))
    BY DEF Inv, Window
  <1>2. ~Passed(ticket[n])
    BY DEF Passed
  <1> QED
    BY <1>1, <1>2

LEMMA LiveInvalid ==
    ASSUME Inv, NEW n \in Seqno, ticket[n] # NoTicket, ticket[n].invalid
    PROVE  n < reserve.next_withdrawable /\ Passed(ticket[n])
  <1>1. IF reserve.next_withdrawable <= n /\ n < reserve.next_issued THEN Good(ticket[n])
        ELSE ticket[n] = NoTicket
             \/ (n < reserve.next_withdrawable /\ Passed(ticket[n]))
    BY DEF Inv, Window
  <1>2. ~Good(ticket[n])
    BY DEF Good
  <1> QED
    BY <1>1, <1>2

\* The counters move to lo and hi, past the ticket x only.
MovesPast(x, lo, hi) ==
    /\ lo \in Nat /\ hi \in Nat /\ lo <= hi /\ reserve.next_withdrawable <= lo
    /\ \A y \in Seqno \ {x} : lo <= y /\ y < hi
          <=> reserve.next_withdrawable <= y /\ y < reserve.next_issued

\* t can stand at x when the counters are lo and hi.
Fits(t, x, lo, hi) ==
    IF lo <= x /\ x < hi THEN Good(t) ELSE t = NoTicket \/ (x < lo /\ Passed(t))

LEMMA TicketMoves ==
    ASSUME Inv, NEW x \in Seqno, NEW t \in Ticket \cup {NoTicket},
           ticket' = [ticket EXCEPT ![x] = t],
           NEW lo, NEW hi, MovesPast(x, lo, hi), Fits(t, x, lo, hi)
    PROVE  /\ ticket' \in Tickets /\ ticket'[x] = t
           /\ \A y \in Seqno \ {x} : ticket'[y] = ticket[y]
           /\ Window(ticket', lo, hi)
           /\ WaitingSum(ticket', lo, hi) = reserve.queued
                 - HeldWaiting(ticket[x], x, reserve.next_withdrawable, reserve.next_issued)
                 + HeldWaiting(t, x, lo, hi)
  <1> DEFINE nw == reserve.next_withdrawable
             ni == reserve.next_issued
  <1>0. /\ lo \in Nat /\ hi \in Nat /\ lo <= hi /\ nw <= lo
        /\ \A y \in Seqno \ {x} : lo <= y /\ y < hi <=> nw <= y /\ y < ni
    BY DEF MovesPast
  <1>1. ticket \in Tickets /\ nw \in Nat /\ ni \in Nat
    BY InvTypes
  <1>2. /\ ticket' \in Tickets /\ ticket'[x] = t
        /\ \A y \in Seqno \ {x} : ticket'[y] = ticket[y]
    BY <1>1 DEF Tickets
  <1>3. Window(ticket', lo, hi)
    <2>1. \A n \in Seqno : n \in Int
      BY DEF Seqno
    <2>2. \A n \in Seqno : IF nw <= n /\ n < ni THEN Good(ticket[n])
                           ELSE ticket[n] = NoTicket \/ (n < nw /\ Passed(ticket[n]))
      BY DEF Inv, Window
    <2>3. ASSUME NEW n \in Seqno \ {x}
          PROVE  IF lo <= n /\ n < hi THEN Good(ticket'[n])
                 ELSE ticket'[n] = NoTicket \/ (n < lo /\ Passed(ticket'[n]))
      BY <1>0, <1>1, <1>2, <2>1, <2>2
    <2>4. IF lo <= x /\ x < hi THEN Good(ticket'[x])
          ELSE ticket'[x] = NoTicket \/ (x < lo /\ Passed(ticket'[x]))
      BY <1>2 DEF Fits
    <2> QED
      BY <1>0, <2>3, <2>4 DEF Window
  <1>4. WaitingSum(ticket', lo, hi) = WaitingSum(ticket, nw, ni)
            - HeldWaiting(ticket[x], x, nw, ni) + HeldWaiting(ticket'[x], x, lo, hi)
    <2>1. \A y \in Seqno \ {x} :
             HeldWaiting(ticket'[y], y, lo, hi) = HeldWaiting(ticket[y], y, nw, ni)
      BY <1>0, <1>2 DEF HeldWaiting
    <2>2. x \in Seqno /\ lo \in Nat /\ hi \in Nat
      BY <1>0
    <2> HIDE DEF nw, ni
    <2> QED
      BY ONLY <1>1, <1>2, <2>1, <2>2, WaitingChange
  <1>5. WaitingSum(ticket, nw, ni) = reserve.queued
    BY DEF Inv
  <1> QED
    BY <1>2, <1>3, <1>4, <1>5

LEMMA VaultMoves ==
    ASSUME Inv, NEW x \in Seqno, NEW o \in Owner, NEW v,
           ticket' \in Tickets, \A y \in Seqno \ {x} : ticket'[y] = ticket[y],
           ticket[x] = NoTicket \/ ticket[x].owner = o,
           ticket'[x] = NoTicket \/ ticket'[x].owner = o,
           queued_vault' = [queued_vault EXCEPT ![o] = v],
           v = queued_vault[o] - Held(ticket[x]) + Held(ticket'[x])
    PROVE  /\ queued_vault' \in [Owner -> Nat] /\ VaultsHold(ticket', queued_vault')
           /\ queued_vault'[o] = v
           /\ \A i \in Owner \ {o} : queued_vault'[i] = queued_vault[i]
  <1>1. ticket \in Tickets /\ queued_vault \in [Owner -> Nat]
    BY InvTypes
  <1>2. /\ AllSum(ticket') = AllSum(ticket) - Held(ticket[x]) + Held(ticket'[x])
        /\ \A i : OwnerSum(ticket', i) =
                     OwnerSum(ticket, i) - HeldBy(ticket[x], i) + HeldBy(ticket'[x], i)
    BY <1>1, TicketChange
  <1>3. /\ HeldBy(ticket[x], o) = Held(ticket[x]) /\ HeldBy(ticket'[x], o) = Held(ticket'[x])
        /\ \A i \in Owner \ {o} : HeldBy(ticket[x], i) = 0 /\ HeldBy(ticket'[x], i) = 0
    BY DEF HeldBy, Held
  <1>4. /\ \A i \in Owner : queued_vault[i] = OwnerSum(ticket, i)
        /\ SumFunctionOnSet(queued_vault, Owner) = AllSum(ticket)
    BY DEF Inv, VaultsHold
  <1>5. \A i : OwnerSum(ticket', i) \in Nat
    BY HeldNats, SeqnoFinite, SumType DEF OwnerSum
  <1>6. v = OwnerSum(ticket', o)
    BY <1>2, <1>3, <1>4
  <1>7. v \in Nat
    BY <1>5, <1>6
  <1>8. /\ queued_vault' \in [Owner -> Nat] /\ queued_vault'[o] = v
        /\ \A i \in Owner \ {o} : queued_vault'[i] = queued_vault[i]
    BY <1>1, <1>7
  <1>9. \A i \in Owner : queued_vault'[i] = OwnerSum(ticket', i)
    <2>1. \A i \in Owner \ {o} : queued_vault'[i] = OwnerSum(ticket', i)
      <3>1. ASSUME NEW i \in Owner \ {o} PROVE queued_vault'[i] = OwnerSum(ticket', i)
        <4>1. OwnerSum(ticket', i) =
                 OwnerSum(ticket, i) - HeldBy(ticket[x], i) + HeldBy(ticket'[x], i)
          BY <1>2
        <4>2. HeldBy(ticket[x], i) = 0 /\ HeldBy(ticket'[x], i) = 0
          BY <1>3
        <4>3. queued_vault'[i] = OwnerSum(ticket, i) /\ queued_vault'[i] \in Nat
          BY <1>4, <1>8
        <4> QED
          BY <4>1, <4>2, <4>3
      <3> QED
        BY <3>1
    <2> QED
      BY <1>6, <1>8, <2>1
  <1>10. SumFunctionOnSet(queued_vault', Owner) = AllSum(ticket')
    <2>1. SumFunctionOnSet(queued_vault', Owner) =
             SumFunctionOnSet(queued_vault, Owner) - queued_vault[o] + queued_vault'[o]
      BY <1>1, <1>8, VaultChange
    <2>2. Held(ticket[x]) \in Nat /\ Held(ticket'[x]) \in Nat /\ queued_vault[o] \in Nat
      BY <1>1 DEF Held, Tickets, Ticket
    <2>3. AllSum(ticket) \in Nat
      BY <1>1, HeldNats, SeqnoFinite, SumType DEF AllSum
    <2> QED
      BY <1>2, <1>4, <1>8, <2>1, <2>2, <2>3
  <1> QED
    BY <1>8, <1>9, <1>10 DEF VaultsHold

LEMMA InvAgain ==
    ASSUME Inv, reserve' \in ReserveState, ticket' \in Tickets,
           queued_vault' \in [Owner -> Nat], wallet' \in [Owner -> Nat],
           destination' \in [Owner -> Destination], switches' = switches,
           Window(ticket', reserve'.next_withdrawable, reserve'.next_issued),
           reserve'.queued =
              WaitingSum(ticket', reserve'.next_withdrawable, reserve'.next_issued),
           VaultsHold(ticket', queued_vault'),
           reserve'.mint_supply = Seed + HolderSum(wallet', queued_vault'),
           supply_vault' = reserve'.available + reserve'.rewards, Sound(reserve')
    PROVE  Inv'
  <1>1. supply_vault' \in Nat
    BY DEF ReserveState
  <1>2. Typed'
    BY <1>1, InvTypes DEF Typed, Tickets
  <1>3. NeverUnderwater'
    BY DEF NeverUnderwater, Sound
  <1> QED
    BY <1>2, <1>3 DEF Inv

\* The rate and the vault do not see what the queue counts.
LEMMA SameAssets ==
    ASSUME NEW r, Sound(r), NEW s \in ReserveState, s.available = r.available,
           s.borrowed_sf = r.borrowed_sf, s.protocol_fees_sf = r.protocol_fees_sf,
           s.mint_supply = r.mint_supply
    PROVE  Sound(s) /\ NoWorse(r, s) /\ total_supply(s) = total_supply(r)
  <1>1. total_supply(s) = total_supply(r)
    BY DEF total_supply
  <1>2. r \in ReserveState /\ s.mint_supply > 0 /\ total_supply(s) > 0
    BY <1>1 DEF Sound
  <1>3. total_supply(s) >= total_supply(r)
    BY <1>1, <1>2, SupplyType
  <1> QED
    BY <1>1, <1>3, MoreAssets

LEMMA EnqueueStep ==
    ASSUME Inv, NEW a \in Accruals, NEW o \in Owner, NEW c \in Amounts, NEW price,
           EnqueueToWithdraw(o, c, price, a)
    PROVE  Inv' /\ RateKept /\ QueueLeft
  <1> DEFINE r == Refreshed(a)
             s == enqueue(r, c)
             x == reserve.next_issued
             lo == reserve.next_withdrawable
             t == [owner |-> o, amount |-> c, invalid |-> FALSE]
  <1>1. /\ ~reserve.deprecated /\ Refreshes(a) /\ reserve' = s
        /\ c <= wallet[o] /\ x < MaxTickets /\ ~Live(x)
        /\ ticket' = [ticket EXCEPT ![x] = t]
        /\ wallet' = [wallet EXCEPT ![o] = @ - c]
        /\ queued_vault' = [queued_vault EXCEPT ![o] = @ + c]
        /\ UNCHANGED <<supply_vault, destination, switches>>
    BY DEF EnqueueToWithdraw, Active, Usable
  <1>2. c \in Nat
    BY QueueAssumption
  <1> HIDE DEF r
  <1>3. /\ r \in ReserveState /\ Sound(r) /\ NoWorse(reserve, r) /\ Sound(reserve)
        /\ r.mint_supply = reserve.mint_supply /\ r.queued = reserve.queued
        /\ r.next_issued = x /\ r.next_withdrawable = lo
        /\ r.available >= reserve.available
        /\ r.available + r.rewards = supply_vault
    BY <1>1, Refreshing DEF r
  <1>4. /\ s \in ReserveState /\ s.available = r.available /\ s.rewards = r.rewards
        /\ s.borrowed_sf = r.borrowed_sf /\ s.protocol_fees_sf = r.protocol_fees_sf
        /\ s.mint_supply = r.mint_supply /\ s.queued = r.queued + c
        /\ s.next_issued = x + 1 /\ s.next_withdrawable = lo
    BY <1>2, <1>3, EnqueueFields
  <1> HIDE DEF s
  <1>5. Sound(s) /\ NoWorse(r, s)
    BY <1>3, <1>4, SameAssets
  <1>6. /\ x \in Nat /\ lo \in Nat /\ lo <= x /\ x \in Seqno /\ ticket[x] = NoTicket
        /\ wallet \in [Owner -> Nat] /\ queued_vault \in [Owner -> Nat]
        /\ destination \in [Owner -> Destination] /\ wallet[o] \in Nat
        /\ queued_vault[o] \in Nat /\ reserve.queued \in Nat
    BY <1>1, InvTypes, QueueAssumption DEF Seqno, Live, Inv, Window
  <1>7. t \in Ticket /\ Good(t) /\ t # NoTicket /\ t.owner = o /\ t.amount = c
    <2>1. t \in Ticket /\ t.invalid = FALSE /\ t.owner = o /\ t.amount = c
      BY <1>2 DEF Ticket
    <2> HIDE DEF t
    <2> QED
      BY <2>1, TicketReal DEF Good
  <1> HIDE DEF t
  <1>8. /\ ticket' \in Tickets /\ ticket'[x] = t
        /\ \A y \in Seqno \ {x} : ticket'[y] = ticket[y]
        /\ Window(ticket', lo, x + 1)
        /\ WaitingSum(ticket', lo, x + 1) =
              reserve.queued - HeldWaiting(ticket[x], x, lo, x) + HeldWaiting(t, x, lo, x + 1)
    <2>1. MovesPast(x, lo, x + 1)
      BY <1>6 DEF Seqno, MovesPast
    <2>2. Fits(t, x, lo, x + 1)
      BY <1>6, <1>7 DEF Fits
    <2> QED
      BY <1>1, <1>6, <1>7, <2>1, <2>2, TicketMoves
  <1>9. HeldWaiting(ticket[x], x, lo, x) = 0 /\ HeldWaiting(t, x, lo, x + 1) = c
    BY <1>6, <1>7 DEF HeldWaiting
  <1>10. s.queued = WaitingSum(ticket', lo, x + 1)
    BY <1>2, <1>3, <1>4, <1>6, <1>8, <1>9
  <1>11. /\ queued_vault' \in [Owner -> Nat] /\ VaultsHold(ticket', queued_vault')
         /\ queued_vault'[o] = queued_vault[o] + c
         /\ \A i \in Owner \ {o} : queued_vault'[i] = queued_vault[i]
    <2>1. queued_vault[o] + c = queued_vault[o] - Held(ticket[x]) + Held(ticket'[x])
      BY <1>2, <1>6, <1>7, <1>8 DEF Held
    <2>2. /\ ticket[x] = NoTicket \/ ticket[x].owner = o
          /\ ticket'[x] = NoTicket \/ ticket'[x].owner = o
      BY <1>6, <1>7, <1>8
    <2> QED
      BY <1>1, <1>6, <1>8, <2>1, <2>2, VaultMoves
  <1>12. /\ wallet' \in [Owner -> Nat] /\ wallet'[o] = wallet[o] - c
         /\ \A i \in Owner \ {o} : wallet'[i] = wallet[i]
    BY <1>1, <1>2, <1>6
  <1>13. s.mint_supply = Seed + HolderSum(wallet', queued_vault')
    <2>1. HolderSum(wallet', queued_vault') = HolderSum(wallet, queued_vault)
             - (wallet[o] + queued_vault[o]) + (wallet'[o] + queued_vault'[o])
      BY <1>6, <1>11, <1>12, HolderChange
    <2>2. HolderSum(wallet, queued_vault) \in Nat
      BY <1>6, InvTypes, SumTypes
    <2>3. reserve.mint_supply = Seed + HolderSum(wallet, queued_vault)
      BY DEF Inv
    <2> QED
      BY <1>2, <1>3, <1>4, <1>6, <1>11, <1>12, <2>1, <2>2, <2>3
  <1>14. Inv'
    BY <1>1, <1>3, <1>4, <1>5, <1>6, <1>8, <1>10, <1>11, <1>12, <1>13, InvAgain
  <1>15. NoWorse(reserve, s)
    BY <1>3, <1>5, NoWorseTrans
  <1> QED
    BY <1>1, <1>3, <1>4, <1>14, <1>15 DEF RateKept, QueueLeft, NoWorse

\* The head of the queue.
LEMMA HeadFacts ==
    ASSUME Inv, HeadAccepted
    PROVE  /\ ~reserve.deprecated /\ Sound(reserve) /\ Head \in Seqno /\ Head \in Nat
           /\ Head < reserve.next_issued /\ reserve.next_issued \in Nat
           /\ ticket[Head] # NoTicket /\ Good(ticket[Head])
           /\ ticket[Head] \in Ticket /\ ticket[Head].owner \in Owner
           /\ ticket[Head].amount \in Nat /\ ticket[Head].amount <= reserve.queued
           /\ ticket[Head].amount <= queued_vault[ticket[Head].owner]
  <1>1. ~reserve.deprecated /\ Head \in Seqno /\ ticket[Head] # NoTicket /\ ~ticket[Head].invalid
    BY DEF HeadAccepted, Usable, Live
  <1>2. Good(ticket[Head]) /\ Head < reserve.next_issued /\ reserve.next_withdrawable <= Head
    BY <1>1, LiveValid
  <1>3. /\ ticket[Head] \in Ticket /\ ticket[Head].owner \in Owner
        /\ ticket[Head].amount \in Nat /\ ticket[Head].amount <= reserve.queued
        /\ ticket[Head].amount <= queued_vault[ticket[Head].owner]
    BY <1>1, <1>2, TicketHeld
  <1>4. Sound(reserve)
    BY <1>1, UsableSound
  <1>5. Head \in Nat /\ reserve.next_issued \in Nat
    BY InvTypes DEF Head
  <1> QED
    BY <1>1, <1>2, <1>3, <1>4, <1>5

\* The queue steps over its head, which keeps what it holds or holds nothing.
LEMMA SkipStep ==
    ASSUME Inv, HeadAccepted, NEW c \in Nat, NEW t \in Ticket \cup {NoTicket},
           t = NoTicket \/ (Passed(t) /\ t.owner = ticket[Head].owner),
           c = ticket[Head].amount, Held(t) = c,
           reserve' = dequeue(reserve, c, TRUE),
           ticket' = [ticket EXCEPT ![Head] = t],
           UNCHANGED <<supply_vault, queued_vault, wallet, destination, switches>>
    PROVE  Inv' /\ RateKept /\ QueueLeft
  <1> DEFINE s == dequeue(reserve, c, TRUE)
             x == Head
             hi == reserve.next_issued
             o == ticket[x].owner
  <1>1. /\ Sound(reserve) /\ x \in Seqno /\ x \in Nat /\ x < hi /\ hi \in Nat
        /\ ticket[x] # NoTicket /\ o \in Owner /\ c <= reserve.queued
    BY HeadFacts
  <1>2. /\ reserve \in ReserveState /\ queued_vault \in [Owner -> Nat]
        /\ wallet \in [Owner -> Nat] /\ destination \in [Owner -> Destination]
        /\ reserve.queued \in Nat
    BY InvTypes
  <1>3. reserve.next_withdrawable = x /\ reserve' = s
    BY DEF Head
  <1>4. /\ s \in ReserveState /\ s.available = reserve.available /\ s.rewards = reserve.rewards
        /\ s.borrowed_sf = reserve.borrowed_sf
        /\ s.protocol_fees_sf = reserve.protocol_fees_sf
        /\ s.mint_supply = reserve.mint_supply /\ s.queued = reserve.queued - c
        /\ s.next_issued = hi /\ s.next_withdrawable = x + 1
    BY <1>1, <1>2, <1>3, CloseFields
  <1> HIDE DEF s, x
  <1>5. Sound(s) /\ NoWorse(reserve, s)
    BY <1>1, <1>4, SameAssets
  <1>6. /\ ticket' \in Tickets /\ ticket'[x] = t
        /\ \A y \in Seqno \ {x} : ticket'[y] = ticket[y]
        /\ Window(ticket', x + 1, hi)
        /\ WaitingSum(ticket', x + 1, hi) =
              reserve.queued - HeldWaiting(ticket[x], x, x, hi) + HeldWaiting(t, x, x + 1, hi)
    <2>1. MovesPast(x, x + 1, hi)
      BY <1>1, <1>3 DEF Seqno, MovesPast
    <2>2. Fits(t, x, x + 1, hi)
      BY <1>1 DEF Fits
    <2>3. ticket' = [ticket EXCEPT ![x] = t]
      BY DEF x
    <2>4. Inv /\ x \in Seqno /\ t \in Ticket \cup {NoTicket}
      BY <1>1
    <2>5. /\ ticket' \in Tickets /\ ticket'[x] = t
          /\ \A y \in Seqno \ {x} : ticket'[y] = ticket[y]
          /\ Window(ticket', x + 1, hi)
          /\ WaitingSum(ticket', x + 1, hi) = reserve.queued
                - HeldWaiting(ticket[x], x, reserve.next_withdrawable, hi)
                + HeldWaiting(t, x, x + 1, hi)
      BY ONLY <2>1, <2>2, <2>3, <2>4, TicketMoves
    <2> QED
      BY ONLY <1>3, <2>5
  <1>7. HeldWaiting(ticket[x], x, x, hi) = c /\ HeldWaiting(t, x, x + 1, hi) = 0
    BY <1>1 DEF HeldWaiting, x
  <1>8. s.queued = WaitingSum(ticket', x + 1, hi)
    BY <1>2, <1>4, <1>6, <1>7
  <1>9. VaultsHold(ticket', queued_vault')
    <2>1. queued_vault[o] = queued_vault[o] - Held(ticket[x]) + Held(ticket'[x])
      BY <1>1, <1>2, <1>6 DEF Held, x
    <2>2. /\ ticket[x] = NoTicket \/ ticket[x].owner = o
          /\ ticket'[x] = NoTicket \/ ticket'[x].owner = o
      BY <1>6 DEF x
    <2>3. queued_vault' = [queued_vault EXCEPT ![o] = queued_vault[o]]
      BY <1>1, <1>2
    <2> QED
      BY <1>1, <1>6, <2>1, <2>2, <2>3, VaultMoves
  <1>10. /\ s.mint_supply = Seed + HolderSum(wallet', queued_vault')
         /\ supply_vault' = s.available + s.rewards
    BY <1>4 DEF Inv
  <1>11. Inv'
    BY <1>2, <1>3, <1>4, <1>5, <1>6, <1>8, <1>9, <1>10, InvAgain
  <1>12. reserve'.available >= reserve.available
    BY ONLY <1>3, <1>4, InvTypes, Inv
  <1> QED
    BY <1>3, <1>5, <1>11, <1>12 DEF RateKept, QueueLeft, NoWorse

LEMMA SkipCancelledStep ==
    ASSUME Inv, SkipCancelledTicket
    PROVE  Inv' /\ RateKept /\ QueueLeft
  <1>1. /\ HeadAccepted /\ 0 = ticket[Head].amount /\ reserve' = dequeue(reserve, 0, TRUE)
        /\ ticket' = [ticket EXCEPT ![Head] = NoTicket]
        /\ UNCHANGED <<supply_vault, queued_vault, wallet, destination, switches>>
    BY DEF SkipCancelledTicket
  <1>2. Held(NoTicket) = 0
    BY DEF Held
  <1> QED
    BY <1>1, <1>2, SkipStep

LEMMA SkipInvalidStep ==
    ASSUME Inv, SkipInvalidTicket
    PROVE  Inv' /\ RateKept /\ QueueLeft
  <1> DEFINE t == [ticket[Head] EXCEPT !.invalid = TRUE]
             c == ticket[Head].amount
  <1>1. /\ HeadAccepted /\ reserve' = dequeue(reserve, c, TRUE)
        /\ ticket' = [ticket EXCEPT ![Head] = t]
        /\ UNCHANGED <<supply_vault, queued_vault, wallet, destination, switches>>
    BY DEF SkipInvalidTicket
  <1>2. ticket[Head] \in Ticket /\ c \in Nat
    BY <1>1, HeadFacts
  <1>3. t \in Ticket /\ t.invalid = TRUE /\ t.owner = ticket[Head].owner /\ t.amount = c
    BY <1>2 DEF Ticket
  <1> HIDE DEF t
  <1>4. Passed(t) /\ Held(t) = c
    BY <1>3, TicketReal DEF Passed, Held
  <1> QED
    BY <1>1, <1>2, <1>3, <1>4, SkipStep

\* Part or all of the head is redeemed: u is the reserve after the redemption.
LEMMA RedeemTicketStep ==
    ASSUME Inv, NEW a \in Accruals, NEW price, RedeemTicket(price, a)
    PROVE  Inv' /\ RateKept
  <1> DEFINE t == ticket[Head]
             o == t.owner
             r == Refreshed(a)
             c == Lesser(t.amount, total_redeemable_collateral_amount(r))
             rest == t.amount - c
             l == Worth(r, c)
             u == redeem_collateral(r, c)
             s == dequeue(u, c, rest = 0)
             n == IF rest = 0 THEN NoTicket ELSE [t EXCEPT !.amount = rest]
             x == Head
             hi == reserve.next_issued
  <1>1. /\ HeadAccepted /\ Refreshes(a) /\ reserve' = s
        /\ Withdrawable(r, l, TRUE)
        /\ ticket' = [ticket EXCEPT ![x] = n]
        /\ queued_vault' = [queued_vault EXCEPT ![o] = @ - c]
        /\ supply_vault' = supply_vault - l
        /\ destination' = [destination EXCEPT ![o] = "valid"]
        /\ UNCHANGED <<wallet, switches>>
    BY DEF RedeemTicket, Worth
  <1>2. /\ ~reserve.deprecated /\ x \in Seqno /\ x \in Nat /\ x < hi /\ hi \in Nat
        /\ t # NoTicket /\ t \in Ticket /\ Good(t) /\ o \in Owner
        /\ t.amount \in Nat /\ t.amount <= reserve.queued /\ t.amount <= queued_vault[o]
    BY <1>1, HeadFacts
  <1>3. l <= r.available /\ reserve.next_withdrawable = x
    BY <1>1 DEF Withdrawable, Head
  <1>4. /\ r \in ReserveState /\ Sound(r) /\ NoWorse(reserve, r) /\ Sound(reserve)
        /\ r.mint_supply = reserve.mint_supply /\ r.queued = reserve.queued
        /\ r.next_issued = hi /\ r.next_withdrawable = x
        /\ r.available \in Nat /\ r.rewards \in Nat /\ r.mint_supply \in Nat
        /\ r.available + r.rewards = supply_vault
    BY <1>1, <1>2, <1>3, Refreshing
  <1>5. /\ wallet \in [Owner -> Nat] /\ queued_vault \in [Owner -> Nat]
        /\ destination \in [Owner -> Destination] /\ reserve.queued \in Nat
        /\ queued_vault[o] \in Nat /\ wallet[o] \in Nat /\ Seed \in Nat \ {0}
        /\ queued_vault[o] + Seed <= reserve.mint_supply
    BY <1>2, InvTypes, EnoughCtokens
  <1>6. c \in Nat /\ c <= t.amount
    <2>1. total_redeemable_collateral_amount(r) \in Nat
      BY <1>4, RedeemableType
    <2> HIDE DEF t, r
    <2> QED
      BY <1>2, <2>1 DEF Lesser
  <1> HIDE DEF c, x, r
  <1>7. c < r.mint_supply /\ c <= r.mint_supply /\ c <= r.queued /\ rest \in Nat
    BY <1>2, <1>4, <1>5, <1>6
  <1>8. Sound(u) /\ NoWorse(r, u) /\ l \in Nat
    BY <1>3, <1>4, <1>6, <1>7, RedeemKeeps, WorthBounds
  <1>9. l = collateral_to_liquidity(collateral_exchange_rate(r), c)
    BY DEF Worth
  <1> HIDE DEF l
  <1>10. /\ u \in ReserveState /\ u.available = r.available - l /\ u.rewards = r.rewards
         /\ u.mint_supply = r.mint_supply - c /\ u.queued = reserve.queued
         /\ u.next_issued = hi /\ u.next_withdrawable = x
    BY <1>3, <1>4, <1>6, <1>7, <1>8, <1>9, RedeemFields
  <1> HIDE DEF u
  <1>11. /\ s \in ReserveState /\ s.available = u.available /\ s.rewards = u.rewards
         /\ s.borrowed_sf = u.borrowed_sf /\ s.protocol_fees_sf = u.protocol_fees_sf
         /\ s.mint_supply = u.mint_supply /\ s.queued = u.queued - c
         /\ s.next_issued = hi
         /\ s.next_withdrawable = IF rest = 0 THEN x + 1 ELSE x
    <2>1. c <= u.queued
      BY <1>4, <1>7, <1>10
    <2>2. CASE rest = 0
      <3>1. s = dequeue(u, c, TRUE)
        BY <2>2 DEF dequeue
      <3> HIDE DEF s
      <3> QED
        BY <1>6, <1>10, <2>1, <2>2, <3>1, CloseFields
    <2>3. CASE rest # 0
      <3>1. s = dequeue(u, c, FALSE)
        BY <2>3 DEF dequeue
      <3> HIDE DEF s
      <3> QED
        BY <1>6, <1>10, <2>1, <2>3, <3>1, ReduceFields
    <2> QED
      BY <2>2, <2>3
  <1> HIDE DEF s
  <1>12. Sound(s) /\ NoWorse(u, s)
    BY <1>8, <1>11, SameAssets
  <1>13. /\ n \in Ticket \cup {NoTicket} /\ Held(n) = rest
         /\ n = NoTicket \/ n.owner = o
         /\ rest # 0 => Good(n) /\ n # NoTicket /\ n.amount = rest
         /\ rest = 0 => n = NoTicket
    <2>1. CASE rest = 0
      BY <2>1 DEF Held
    <2>2. CASE rest # 0
      <3> DEFINE k == [t EXCEPT !.amount = rest]
      <3> HIDE DEF rest, t
      <3>1. k \in Ticket /\ k.amount = rest /\ k.owner = t.owner /\ k.invalid = t.invalid
        BY <1>2, <1>7 DEF Ticket
      <3>2. t.invalid = FALSE
        BY <1>2 DEF Good
      <3>3. k = n
        BY <2>2 DEF rest, t
      <3> HIDE DEF k, n
      <3>4. Good(k) /\ k # NoTicket
        BY <3>1, <3>2, TicketReal DEF Good
      <3> QED
        BY <2>2, <3>1, <3>3, <3>4 DEF Held
    <2> QED
      BY <2>1, <2>2
  <1> HIDE DEF n
  <1> DEFINE lo == IF rest = 0 THEN x + 1 ELSE x
  <1>14. /\ ticket' \in Tickets /\ ticket'[x] = n
         /\ \A y \in Seqno \ {x} : ticket'[y] = ticket[y]
         /\ Window(ticket', lo, hi)
         /\ WaitingSum(ticket', lo, hi) = reserve.queued - HeldWaiting(ticket[x], x, x, hi)
                                            + HeldWaiting(n, x, lo, hi)
    <2>1. MovesPast(x, lo, hi)
      <3>1. CASE rest = 0
        BY <1>2, <1>3, <3>1 DEF MovesPast, Seqno
      <3>2. CASE rest # 0
        BY <1>2, <1>3, <3>2 DEF MovesPast, Seqno
      <3> QED
        BY <3>1, <3>2
    <2>2. Fits(n, x, lo, hi)
      BY <1>2, <1>13 DEF Fits
    <2> HIDE DEF lo
    <2>3. /\ ticket' \in Tickets /\ ticket'[x] = n
          /\ \A y \in Seqno \ {x} : ticket'[y] = ticket[y]
          /\ Window(ticket', lo, hi)
          /\ WaitingSum(ticket', lo, hi) = reserve.queued
                - HeldWaiting(ticket[x], x, reserve.next_withdrawable, hi)
                + HeldWaiting(n, x, lo, hi)
      BY ONLY <1>1, <1>2, <1>13, <2>1, <2>2, Inv, TicketMoves
    <2> QED
      BY ONLY <1>3, <2>3
  <1>15. HeldWaiting(ticket[x], x, x, hi) = t.amount /\ HeldWaiting(n, x, lo, hi) = rest
    <2>1. HeldWaiting(ticket[x], x, x, hi) = t.amount
      BY <1>2 DEF HeldWaiting, x
    <2>2. CASE rest = 0
      BY <1>13, <2>1, <2>2 DEF HeldWaiting
    <2>3. CASE rest # 0
      BY <1>2, <1>13, <2>1, <2>3 DEF HeldWaiting
    <2> QED
      BY <2>1, <2>2, <2>3
  <1>16. s.queued = WaitingSum(ticket', lo, hi)
    BY <1>2, <1>5, <1>6, <1>10, <1>11, <1>14, <1>15
  <1>17. /\ queued_vault' \in [Owner -> Nat] /\ VaultsHold(ticket', queued_vault')
         /\ queued_vault'[o] = queued_vault[o] - c
         /\ \A i \in Owner \ {o} : queued_vault'[i] = queued_vault[i]
    <2>1. Held(ticket[x]) = t.amount /\ Held(ticket'[x]) = rest
      BY <1>2, <1>13, <1>14 DEF Held, x
    <2>2. queued_vault[o] - c = queued_vault[o] - Held(ticket[x]) + Held(ticket'[x])
      BY <1>2, <1>5, <1>6, <2>1
    <2>3. /\ ticket[x] = NoTicket \/ ticket[x].owner = o
          /\ ticket'[x] = NoTicket \/ ticket'[x].owner = o
      BY <1>13, <1>14 DEF x
    <2> HIDE DEF o
    <2> QED
      BY <1>1, <1>2, <1>14, <2>2, <2>3, VaultMoves
  <1>18. s.mint_supply = Seed + HolderSum(wallet', queued_vault')
    <2>1. HolderSum(wallet, queued_vault') = HolderSum(wallet, queued_vault)
             - (wallet[o] + queued_vault[o]) + (wallet[o] + queued_vault'[o])
      BY <1>2, <1>5, <1>17, HolderChange
    <2>2. HolderSum(wallet, queued_vault) \in Nat
      BY <1>5, InvTypes, SumTypes
    <2>3. reserve.mint_supply = Seed + HolderSum(wallet, queued_vault) /\ wallet' = wallet
      BY <1>1 DEF Inv
    <2> QED
      BY <1>4, <1>5, <1>6, <1>10, <1>11, <1>17, <2>1, <2>2, <2>3
  <1>19. supply_vault' = s.available + s.rewards
    BY <1>1, <1>4, <1>8, <1>10, <1>11
  <1>20. /\ destination' \in [Owner -> Destination] /\ wallet' \in [Owner -> Nat]
         /\ switches' = switches
    BY <1>1, <1>2, <1>5 DEF Destination
  <1>21. s.next_withdrawable = lo /\ s.next_issued = hi /\ reserve' = s
    BY <1>1, <1>11
  <1> HIDE DEF lo, hi
  <1>22. Inv'
    BY ONLY <1>11, <1>12, <1>14, <1>16, <1>17, <1>18, <1>19, <1>20, <1>21, Inv, InvAgain
  <1>23. NoWorse(reserve, s)
    BY ONLY <1>4, <1>8, <1>12, NoWorseTrans
  <1> QED
    BY <1>21, <1>22, <1>23 DEF RateKept, NoWorse

LEMMA CancelStep ==
    ASSUME Inv, NEW a \in Accruals, NEW o \in Owner, NEW x \in Seqno, NEW d \in Amounts,
           NEW price, CancelWithdrawTicket(o, x, d, price, a)
    PROVE  Inv' /\ RateKept /\ QueueLeft
  <1> DEFINE t == ticket[x]
             r == Refreshed(a)
             c == Lesser(d, t.amount)
             rest == t.amount - c
             s == dequeue(r, c, FALSE)
             n == [t EXCEPT !.amount = rest]
             lo == reserve.next_withdrawable
             hi == reserve.next_issued
  <1>1. /\ ~reserve.deprecated /\ Refreshes(a) /\ reserve' = s
        /\ t # NoTicket /\ o = t.owner /\ ~t.invalid
        /\ ticket' = [ticket EXCEPT ![x] = n]
        /\ queued_vault' = [queued_vault EXCEPT ![o] = @ - c]
        /\ wallet' = [wallet EXCEPT ![o] = @ + c]
        /\ UNCHANGED <<supply_vault, destination, switches>>
    BY DEF CancelWithdrawTicket, Usable, Live
  <1>2. Good(t) /\ lo <= x /\ x < hi
    BY <1>1, LiveValid
  <1>3. /\ t \in Ticket /\ t.amount \in Nat /\ t.amount <= reserve.queued
        /\ t.amount <= queued_vault[o]
    BY <1>1, <1>2, TicketHeld
  <1> HIDE DEF r
  <1>4. /\ r \in ReserveState /\ Sound(r) /\ NoWorse(reserve, r) /\ Sound(reserve)
        /\ r.mint_supply = reserve.mint_supply /\ r.queued = reserve.queued
        /\ r.next_issued = hi /\ r.next_withdrawable = lo
        /\ r.available >= reserve.available
        /\ r.available + r.rewards = supply_vault
    BY <1>1, Refreshing DEF r
  <1>5. /\ wallet \in [Owner -> Nat] /\ queued_vault \in [Owner -> Nat]
        /\ destination \in [Owner -> Destination] /\ reserve.queued \in Nat
        /\ queued_vault[o] \in Nat /\ wallet[o] \in Nat /\ lo \in Nat /\ hi \in Nat
    BY InvTypes
  <1>6. c \in Nat /\ c <= t.amount
    <2>1. d \in Nat
      BY QueueAssumption
    <2> HIDE DEF t
    <2> QED
      BY <1>3, <2>1 DEF Lesser
  <1> HIDE DEF c
  <1>7. c <= r.queued /\ rest \in Nat
    BY <1>3, <1>4, <1>5, <1>6
  <1>8. /\ s \in ReserveState /\ s.available = r.available /\ s.rewards = r.rewards
        /\ s.borrowed_sf = r.borrowed_sf /\ s.protocol_fees_sf = r.protocol_fees_sf
        /\ s.mint_supply = r.mint_supply /\ s.queued = r.queued - c
        /\ s.next_issued = hi /\ s.next_withdrawable = lo
    BY <1>4, <1>6, <1>7, ReduceFields
  <1> HIDE DEF s
  <1>9. Sound(s) /\ NoWorse(r, s)
    BY <1>4, <1>8, SameAssets
  <1>10. n \in Ticket /\ Good(n) /\ n # NoTicket /\ n.amount = rest /\ n.owner = o
    <2> HIDE DEF t, rest
    <2>1. n \in Ticket /\ n.amount = rest /\ n.owner = t.owner /\ n.invalid = t.invalid
      BY <1>3, <1>7 DEF Ticket
    <2>2. t.invalid = FALSE
      BY <1>2 DEF Good
    <2> HIDE DEF n
    <2> QED
      BY <1>1, <2>1, <2>2, TicketReal DEF Good
  <1> HIDE DEF n
  <1>11. /\ ticket' \in Tickets /\ ticket'[x] = n
         /\ \A y \in Seqno \ {x} : ticket'[y] = ticket[y]
         /\ Window(ticket', lo, hi)
         /\ WaitingSum(ticket', lo, hi) = reserve.queued
               - HeldWaiting(ticket[x], x, lo, hi) + HeldWaiting(n, x, lo, hi)
    <2>1. MovesPast(x, lo, hi)
      BY <1>5 DEF MovesPast, Inv, Window
    <2>2. Fits(n, x, lo, hi)
      BY <1>2, <1>10 DEF Fits
    <2>3. x \in Seqno
      OBVIOUS
    <2> QED
      BY ONLY <1>1, <1>10, <2>1, <2>2, <2>3, Inv, TicketMoves
  <1>12. HeldWaiting(ticket[x], x, lo, hi) = t.amount /\ HeldWaiting(n, x, lo, hi) = rest
    BY <1>1, <1>2, <1>10 DEF HeldWaiting
  <1>13. s.queued = WaitingSum(ticket', lo, hi)
    BY <1>3, <1>4, <1>5, <1>6, <1>8, <1>11, <1>12
  <1>14. /\ queued_vault' \in [Owner -> Nat] /\ VaultsHold(ticket', queued_vault')
         /\ queued_vault'[o] = queued_vault[o] - c
         /\ \A i \in Owner \ {o} : queued_vault'[i] = queued_vault[i]
    <2>1. Held(ticket[x]) = t.amount /\ Held(ticket'[x]) = rest
      BY <1>1, <1>10, <1>11 DEF Held
    <2>2. queued_vault[o] - c = queued_vault[o] - Held(ticket[x]) + Held(ticket'[x])
      BY <1>3, <1>5, <1>6, <2>1
    <2>3. /\ ticket[x] = NoTicket \/ ticket[x].owner = o
          /\ ticket'[x] = NoTicket \/ ticket'[x].owner = o
      BY <1>1, <1>10, <1>11
    <2> QED
      BY <1>1, <1>11, <2>2, <2>3, VaultMoves
  <1>15. /\ wallet' \in [Owner -> Nat] /\ wallet'[o] = wallet[o] + c
         /\ \A i \in Owner \ {o} : wallet'[i] = wallet[i]
    BY <1>1, <1>5, <1>6
  <1>16. s.mint_supply = Seed + HolderSum(wallet', queued_vault')
    <2>1. HolderSum(wallet', queued_vault') = HolderSum(wallet, queued_vault)
             - (wallet[o] + queued_vault[o]) + (wallet'[o] + queued_vault'[o])
      BY <1>5, <1>14, <1>15, HolderChange
    <2>2. HolderSum(wallet, queued_vault) \in Nat
      BY <1>5, InvTypes, SumTypes
    <2>3. reserve.mint_supply = Seed + HolderSum(wallet, queued_vault)
      BY DEF Inv
    <2> QED
      BY <1>4, <1>5, <1>6, <1>8, <1>14, <1>15, <2>1, <2>2, <2>3
  <1>17. /\ supply_vault' = s.available + s.rewards
         /\ destination' \in [Owner -> Destination] /\ switches' = switches
         /\ reserve' = s
    BY <1>1, <1>4, <1>5, <1>8
  <1> HIDE DEF lo, hi
  <1>18. Inv'
    BY ONLY <1>8, <1>9, <1>11, <1>13, <1>14, <1>15, <1>16, <1>17, Inv, InvAgain
  <1>19. NoWorse(reserve, s)
    BY ONLY <1>4, <1>9, NoWorseTrans
  <1> QED
    BY <1>4, <1>8, <1>17, <1>18, <1>19 DEF RateKept, QueueLeft, NoWorse

LEMMA RecoverStep ==
    ASSUME Inv, NEW x \in Seqno, RecoverInvalidTicketCollateral(x)
    PROVE  Inv' /\ RateKept /\ QueueLeft
  <1> DEFINE t == ticket[x]
             o == t.owner
             c == t.amount
             lo == reserve.next_withdrawable
             hi == reserve.next_issued
  <1>1. /\ ~reserve.deprecated /\ t # NoTicket /\ t.invalid
        /\ ticket' = [ticket EXCEPT ![x] = NoTicket]
        /\ queued_vault' = [queued_vault EXCEPT ![o] = @ - c]
        /\ wallet' = [wallet EXCEPT ![o] = @ + c]
        /\ UNCHANGED <<reserve, supply_vault, destination, switches>>
    BY DEF RecoverInvalidTicketCollateral, Usable, Live
  <1>2. x < lo /\ Sound(reserve)
    BY <1>1, LiveInvalid, UsableSound
  <1>3. o \in Owner /\ c \in Nat
    BY <1>1, TicketHeld
  <1>4. /\ wallet \in [Owner -> Nat] /\ queued_vault \in [Owner -> Nat]
        /\ destination \in [Owner -> Destination] /\ reserve.queued \in Nat
        /\ queued_vault[o] \in Nat /\ wallet[o] \in Nat /\ lo \in Nat /\ hi \in Nat
        /\ reserve \in ReserveState /\ reserve.available \in Nat
    BY <1>3, InvTypes
  <1>5. /\ ticket' \in Tickets /\ ticket'[x] = NoTicket
        /\ \A y \in Seqno \ {x} : ticket'[y] = ticket[y]
        /\ Window(ticket', lo, hi)
        /\ WaitingSum(ticket', lo, hi) = reserve.queued
              - HeldWaiting(ticket[x], x, lo, hi) + HeldWaiting(NoTicket, x, lo, hi)
    <2>1. MovesPast(x, lo, hi)
      BY <1>4 DEF MovesPast, Inv, Window
    <2>2. Fits(NoTicket, x, lo, hi)
      BY <1>2, <1>4 DEF Fits, Seqno
    <2>3. x \in Seqno /\ NoTicket \in Ticket \cup {NoTicket}
      OBVIOUS
    <2> QED
      BY ONLY <1>1, <2>1, <2>2, <2>3, Inv, TicketMoves
  <1>6. HeldWaiting(ticket[x], x, lo, hi) = 0 /\ HeldWaiting(NoTicket, x, lo, hi) = 0
    BY <1>2, <1>4 DEF HeldWaiting, Seqno
  <1>7. reserve.queued = WaitingSum(ticket', lo, hi)
    BY <1>4, <1>5, <1>6
  <1>8. /\ queued_vault' \in [Owner -> Nat] /\ VaultsHold(ticket', queued_vault')
        /\ queued_vault'[o] = queued_vault[o] - c
        /\ \A i \in Owner \ {o} : queued_vault'[i] = queued_vault[i]
    <2>1. Held(ticket[x]) = c /\ Held(ticket'[x]) = 0
      BY <1>1, <1>5 DEF Held
    <2>2. queued_vault[o] - c = queued_vault[o] - Held(ticket[x]) + Held(ticket'[x])
      BY <1>3, <1>4, <2>1
    <2>3. /\ ticket[x] = NoTicket \/ ticket[x].owner = o
          /\ ticket'[x] = NoTicket \/ ticket'[x].owner = o
      BY <1>5
    <2> HIDE DEF o
    <2> QED
      BY <1>1, <1>3, <1>5, <2>2, <2>3, VaultMoves
  <1>9. /\ wallet' \in [Owner -> Nat] /\ wallet'[o] = wallet[o] + c
        /\ \A i \in Owner \ {o} : wallet'[i] = wallet[i]
    BY <1>1, <1>3, <1>4
  <1>10. reserve.mint_supply = Seed + HolderSum(wallet', queued_vault')
    <2>1. HolderSum(wallet', queued_vault') = HolderSum(wallet, queued_vault)
             - (wallet[o] + queued_vault[o]) + (wallet'[o] + queued_vault'[o])
      BY <1>3, <1>4, <1>8, <1>9, HolderChange
    <2>2. HolderSum(wallet, queued_vault) \in Nat
      BY <1>4, InvTypes, SumTypes
    <2>3. reserve.mint_supply = Seed + HolderSum(wallet, queued_vault)
      BY DEF Inv
    <2> QED
      BY <1>3, <1>4, <1>8, <1>9, <2>1, <2>2, <2>3
  <1>11. /\ supply_vault' = reserve'.available + reserve'.rewards
         /\ destination' \in [Owner -> Destination] /\ switches' = switches
         /\ reserve' = reserve
    BY <1>1, <1>4 DEF Inv
  <1>12. Inv'
    <2>1. reserve'.queued = WaitingSum(ticket', reserve'.next_withdrawable, reserve'.next_issued)
      BY <1>7, <1>11
    <2>2. Window(ticket', reserve'.next_withdrawable, reserve'.next_issued)
      BY <1>5, <1>11
    <2> QED
      BY ONLY <1>2, <1>4, <1>5, <1>8, <1>9, <1>10, <1>11, <2>1, <2>2, Inv, InvAgain
  <1>13. RateKept
    <2>1. total_supply(reserve) \in Nat /\ reserve.mint_supply \in Nat
      BY <1>2, SoundTypes
    <2>2. total_supply(reserve) * reserve.mint_supply \in Nat
      BY <2>1, Product
    <2> QED
      BY <1>11, <2>2 DEF RateKept
  <1> QED
    BY <1>4, <1>11, <1>12, <1>13 DEF QueueLeft

-----------------------------------------------------------------------------
(* The specification.                                                      *)

LEMMA UnchangedStep ==
    ASSUME Inv, destination' \in [Owner -> Destination], switches' \subseteq Switch,
           UNCHANGED <<reserve, supply_vault, ticket, queued_vault, wallet>>
    PROVE  Inv' /\ RateKept /\ QueueLeft
  <1>1. Typed'
    BY DEF Inv, Typed
  <1>2. NeverUnderwater'
    BY DEF Inv, NeverUnderwater
  <1>3. Inv'
    BY <1>1, <1>2 DEF Inv
  <1>4. RateKept
    <2>1. total_supply(reserve) \in Int /\ reserve.mint_supply \in Int
      BY InvTypes, SupplyType
    <2> QED
      BY <2>1 DEF RateKept
  <1>5. QueueLeft
    BY InvTypes DEF QueueLeft
  <1> QED
    BY <1>3, <1>4, <1>5

LEMMA SumZero ==
    ASSUME NEW g, NEW S, IsFiniteSet(S), \A x \in S : g[x] = 0
    PROVE  SumFunctionOnSet(g, S) = 0
  <1>1. NatOn(g, {}) /\ {} \in SUBSET S
    BY DEF NatOn
  <1>2. SumFunctionOnSet(g, {}) = SumFunctionOnSet(g, S)
    BY <1>1, SumFilter
  <1> QED
    BY <1>2, SumEmpty

LEMMA InitInv == ASSUME Init PROVE Inv
  <1>1. /\ reserve.available = Seed /\ reserve.borrowed_sf = 0
        /\ reserve.protocol_fees_sf = 0 /\ reserve.rewards = 0
        /\ reserve.mint_supply = Seed /\ reserve.queued = 0
        /\ reserve.next_issued = 0 /\ reserve.next_withdrawable = 0
        /\ reserve \in ReserveState
    BY QueueAssumption DEF Init, ReserveState
  <1>2. /\ ticket = [n \in Seqno |-> NoTicket] /\ queued_vault = [o \in Owner |-> 0]
        /\ wallet = [o \in Owner |-> 0] /\ supply_vault = Seed
    BY DEF Init
  <1>3. Seed \in Nat \ {0} /\ SF \in Nat \ {0} /\ IsFiniteSet(Owner)
    BY QueueAssumption, ScaleAssumption
  <1>4. Typed
    <2>1. destination \in [Owner -> Destination] /\ switches \subseteq Switch
      BY QueueAssumption DEF Init, Destination
    <2> QED
      BY <1>1, <1>2, <1>3, <2>1 DEF Typed
  <1>5. Window(ticket, 0, 0)
    BY <1>2 DEF Window, Seqno
  <1>6. WaitingSum(ticket, 0, 0) = 0
    <2>1. \A n \in Seqno : WaitingHeld(ticket, 0, 0)[n] = 0
      BY <1>2 DEF WaitingHeld, HeldWaiting
    <2> QED
      BY <2>1, SumZero, SeqnoFinite DEF WaitingSum
  <1>7. VaultsHold(ticket, queued_vault)
    <2>1. ASSUME NEW o \in Owner PROVE OwnerSum(ticket, o) = 0
      <3>1. \A n \in Seqno : OwnerHeld(ticket, o)[n] = 0
        BY <1>2 DEF OwnerHeld, HeldBy
      <3> QED
        BY <3>1, SumZero, SeqnoFinite DEF OwnerSum
    <2>2. AllSum(ticket) = 0
      <3>1. \A n \in Seqno : AllHeld(ticket)[n] = 0
        BY <1>2 DEF AllHeld, Held
      <3> QED
        BY <3>1, SumZero, SeqnoFinite DEF AllSum
    <2>3. SumFunctionOnSet(queued_vault, Owner) = 0
      BY <1>2, <1>3, SumZero
    <2> QED
      BY <1>2, <2>1, <2>2, <2>3 DEF VaultsHold
  <1>8. HolderSum(wallet, queued_vault) = 0
    <2>1. \A o \in Owner : Holdings(wallet, queued_vault)[o] = 0
      BY <1>2 DEF Holdings
    <2> QED
      BY <1>3, <2>1, SumZero DEF HolderSum
  <1>9. NeverUnderwater
    <2>1. Seed * SF \in Nat \ {0}
      BY <1>3
    <2> QED
      BY <1>1, <2>1 DEF NeverUnderwater, total_supply
  <1> QED
    BY <1>1, <1>2, <1>3, <1>4, <1>5, <1>6, <1>7, <1>8, <1>9 DEF Inv

\* The steps the action properties let go.
Socializes == \E a \in Accruals, l \in Amounts : SocializeLoss(l, a)
HeadRedeemed == \E a \in Accruals, price \in Prices : RedeemTicket(price, a)
EnforcedLiquidation ==
    \E a \in Accruals, c \in Amounts, o, q \in Owner : LiquidateAndRedeem(o, q, c, TRUE, a)

LEMMA NextStep ==
    ASSUME Inv, [Next]_vars
    PROVE  /\ Inv' /\ (RateKept \/ Socializes)
           /\ (QueueLeft \/ HeadRedeemed \/ EnforcedLiquidation)
  <1>1. CASE UNCHANGED vars
    <2>1. /\ destination' \in [Owner -> Destination] /\ switches' \subseteq Switch
          /\ UNCHANGED <<reserve, supply_vault, ticket, queued_vault, wallet>>
      BY <1>1, InvTypes DEF vars
    <2> QED
      BY <2>1, UnchangedStep
  <1>2. CASE AdminStep
    <2>1. /\ destination' \in [Owner -> Destination] /\ switches' \subseteq Switch
          /\ UNCHANGED <<reserve, supply_vault, ticket, queued_vault, wallet>>
      <3>1. CASE \E o \in Owner, d \in Destinations : ChangeDestination(o, d)
        BY <3>1, InvTypes, QueueAssumption DEF ChangeDestination
      <3>2. CASE \E s \in SwitchSets : SetSwitches(s)
        BY <3>2, InvTypes, QueueAssumption DEF SetSwitches
      <3>3. CASE \E s \in CapSettings : SetWithdrawalCap(s)
        BY <3>3, InvTypes DEF SetWithdrawalCap
      <3> QED
        BY <1>2, <3>1, <3>2, <3>3 DEF AdminStep
    <2> QED
      BY <2>1, UnchangedStep
  <1>3. ASSUME NEW a \in Accruals, NEW price \in Prices, QueueStep(a, price)
        PROVE  Inv' /\ RateKept /\ (QueueLeft \/ HeadRedeemed)
    <2>1. CASE SkipCancelledTicket
      BY <2>1, SkipCancelledStep
    <2>2. CASE SkipInvalidTicket
      BY <2>2, SkipInvalidStep
    <2>3. CASE RedeemTicket(price, a)
      BY <2>3, RedeemTicketStep DEF HeadRedeemed
    <2>4. CASE \E o \in Owner, c \in Amounts : EnqueueToWithdraw(o, c, price, a)
      BY <2>4, EnqueueStep
    <2>5. CASE \E o \in Owner, n \in Seqno, c \in Amounts :
                  CancelWithdrawTicket(o, n, c, price, a)
      BY <2>5, CancelStep
    <2>6. CASE \E n \in Seqno : RecoverInvalidTicketCollateral(n)
      BY <2>6, RecoverStep
    <2> QED
      BY <1>3, <2>1, <2>2, <2>3, <2>4, <2>5, <2>6 DEF QueueStep, WithdrawQueuedLiquidity
  <1>4. ASSUME NEW a \in Accruals, ReserveStep(a)
        PROVE  /\ Inv' /\ (RateKept \/ Socializes)
               /\ (QueueLeft \/ EnforcedLiquidation)
    <2>1. CASE RefreshReserve(a)
      BY <2>1, RefreshStep
    <2>2. CASE RedeemFees(a)
      BY <2>2, FeesStep
    <2>3. CASE \E o \in Owner, l \in Amounts : DepositReserveLiquidity(o, l, a)
      BY <2>3, DepositStep
    <2>4. CASE \E o \in Owner, c \in Amounts : RedeemReserveCollateral(o, c, a)
      BY <2>4, RedeemStep
    <2>5. CASE \E b \in BorrowSizes : Borrow(b, a)
      BY <2>5, BorrowStep
    <2>6. CASE \E s \in 1..MaxDebt : Repay(s, a)
      BY <2>6, RepayStep
    <2>7. ASSUME NEW o \in Owner, NEW q \in Owner, NEW c \in Amounts, NEW e \in Enforced,
                 LiquidateAndRedeem(o, q, c, e, a)
          PROVE  Inv' /\ RateKept /\ (QueueLeft \/ EnforcedLiquidation)
      <3>1. Inv' /\ RateKept /\ (e = FALSE => QueueLeft)
        BY <2>7, LiquidateStep
      <3>2. e = TRUE \/ e = FALSE
        BY QueueAssumption
      <3>3. CASE e = TRUE
        BY <2>7, <3>1, <3>3 DEF EnforcedLiquidation
      <3> QED
        BY <3>1, <3>2, <3>3
    <2>8. ASSUME NEW l \in Amounts, SocializeLoss(l, a)
          PROVE  Inv' /\ Socializes /\ QueueLeft
      BY <2>8, SocializeStep DEF Socializes
    <2>9. ASSUME NEW l \in Amounts, TopupReserveRewards(l, a)
          PROVE  Inv' /\ RateKept /\ QueueLeft
      BY <2>9, TopupStep
    <2> QED
      BY <1>4, <2>1, <2>2, <2>3, <2>4, <2>5, <2>6, <2>7, <2>8, <2>9 DEF ReserveStep
  <1>5. CASE TimePasses
    <2>1. /\ destination' \in [Owner -> Destination] /\ switches' \subseteq Switch
          /\ UNCHANGED <<reserve, supply_vault, ticket, queued_vault, wallet>>
      BY <1>5, InvTypes DEF TimePasses
    <2> QED
      BY <2>1, UnchangedStep
  <1> QED
    BY <1>1, <1>2, <1>3, <1>4, <1>5 DEF Next

\* What the invariant says of tickets, vaults and sums, in the specification's words.
LEMMA InvImplies == ASSUME Inv PROVE Typed /\ TicketWindow /\ QueueBacked /\ NeverUnderwater
  <1> DEFINE lo == reserve.next_withdrawable
             hi == reserve.next_issued
  <1>1. /\ ticket \in Tickets /\ lo \in Nat /\ hi \in Nat
        /\ \A n \in Seqno : n \in Nat /\ ticket[n] \in Ticket \cup {NoTicket}
    <2>1. ticket \in Tickets /\ lo \in Nat /\ hi \in Nat
      BY InvTypes
    <2>2. \A n \in Seqno : n \in Nat
      BY QueueAssumption DEF Seqno
    <2> QED
      BY ONLY <2>1, <2>2 DEF Tickets
  <1>2. TicketWindow
    <2>1. lo <= hi /\ Head = lo
      BY DEF Inv, Window, Head
    <2>2. ASSUME NEW n \in Seqno
          PROVE  /\ Waiting(n) => Live(n) /\ ~ticket[n].invalid
                 /\ Live(n) /\ ~Waiting(n) => n < Head /\ ticket[n].invalid
      <3>1. IF lo <= n /\ n < hi THEN Good(ticket[n])
            ELSE ticket[n] = NoTicket \/ (n < lo /\ Passed(ticket[n]))
        BY DEF Inv, Window
      <3>2. Waiting(n) <=> lo <= n /\ n < hi
        BY <2>1 DEF Waiting
      <3>3. Good(ticket[n]) => Live(n) /\ ~ticket[n].invalid
        BY TicketReal DEF Good, Live
      <3>4. Passed(ticket[n]) => ticket[n].invalid
        BY DEF Passed
      <3>5. Live(n) <=> ticket[n] # NoTicket
        BY DEF Live
      <3> QED
        BY <2>1, <3>1, <3>2, <3>3, <3>4, <3>5
    <2> QED
      BY <2>1, <2>2 DEF TicketWindow
  <1>3. reserve.queued = SumTickets({n \in Seqno : Live(n) /\ Waiting(n)})
    <2> DEFINE T == {n \in Seqno : Live(n) /\ Waiting(n)}
               f == [n \in T |-> ticket[n].amount]
               g == WaitingHeld(ticket, lo, hi)
    <2>1. T \in SUBSET Seqno
      OBVIOUS
    <2>2. \A n \in Seqno : n \in T <=> ticket[n] # NoTicket /\ lo <= n /\ n < hi
      BY DEF Live, Waiting, Head
    <2>3. NatOn(f, T)
      BY <1>1, <2>2 DEF NatOn, Ticket
    <2>4. /\ \A n \in T : g[n] = f[n]
          /\ \A n \in Seqno \ T : g[n] = 0
      BY <2>2 DEF WaitingHeld, HeldWaiting
    <2>5. reserve.queued = SumFunctionOnSet(g, Seqno)
      BY DEF Inv, WaitingSum
    <2> HIDE DEF T, f, g
    <2>6. SumFunctionOnSet(f, T) = SumFunctionOnSet(g, Seqno)
      BY <2>1, <2>3, <2>4, SumFilter, SeqnoFinite
    <2> QED
      BY <2>5, <2>6 DEF SumTickets, T, f
  <1>4. ASSUME NEW o \in Owner
        PROVE  queued_vault[o] = SumTickets({n \in Seqno : Live(n) /\ ticket[n].owner = o})
    <2> DEFINE T == {n \in Seqno : Live(n) /\ ticket[n].owner = o}
               f == [n \in T |-> ticket[n].amount]
               g == OwnerHeld(ticket, o)
    <2>1. T \in SUBSET Seqno
      OBVIOUS
    <2>2. \A n \in Seqno : n \in T <=> ticket[n] # NoTicket /\ ticket[n].owner = o
      BY DEF Live
    <2>3. NatOn(f, T)
      BY <1>1, <2>2 DEF NatOn, Ticket
    <2>4. /\ \A n \in T : g[n] = f[n]
          /\ \A n \in Seqno \ T : g[n] = 0
      BY <2>2 DEF OwnerHeld, HeldBy
    <2>5. queued_vault[o] = SumFunctionOnSet(g, Seqno)
      BY DEF Inv, OwnerSum, VaultsHold
    <2> HIDE DEF T, f, g
    <2>6. SumFunctionOnSet(f, T) = SumFunctionOnSet(g, Seqno)
      BY <2>1, <2>3, <2>4, SumFilter, SeqnoFinite
    <2> QED
      BY <2>5, <2>6 DEF SumTickets, T, f
  <1>5. TokensBacked
    BY DEF Inv, TokensBacked, HolderSum, Holdings
  <1> QED
    BY <1>2, <1>3, <1>4, <1>5 DEF Inv, QueueBacked, TicketsBacked

LEMMA QueueInvariant == Spec => []Inv
  <1>1. Init => Inv
    BY InitInv
  <1>2. Inv /\ [Next]_vars => Inv'
    BY NextStep
  <1> QED
    BY <1>1, <1>2, PTL DEF Spec

-----------------------------------------------------------------------------
(* The cap.  What is counted is a number of units, whatever the rate: the  *)
(* counter stays in its type.                                              *)

CapInv == cap \in Caps /\ cap.start <= Now

LEMMA CapCounts ==
    ASSUME CapInv, NEW l \in Nat
    PROVE  (CapAdds(l) => CapInv') /\ (CapSubtracts(l) => CapInv')
  <1>1. /\ cap \in Caps /\ cap.start <= Now /\ Now \in Nat
        /\ l \in Int /\ -l \in Int
    BY QueueAssumption DEF CapInv
  <1>2. /\ Counted(cap, l, Now) \in Caps /\ Counted(cap, l, Now).start <= Now
        /\ Counted(cap, -l, Now) \in Caps /\ Counted(cap, -l, Now).start <= Now
    BY <1>1, CountedTyped
  <1> QED
    BY <1>2 DEF CapAdds, CapSubtracts, CapInv

\* The ctokens of any part of the supply are worth a number of units.
LEMMA WorthType ==
    ASSUME Inv, ~reserve.deprecated, NEW a \in Accruals, Refreshes(a), NEW c \in Nat
    PROVE  Worth(Refreshed(a), c) \in Nat
  <1>1. Sound(Refreshed(a))
    BY Refreshing
  <1> QED
    BY <1>1, WorthBounds

LEMMA CapOfRedemption ==
    ASSUME Inv, CapInv, NEW a \in Accruals, NEW o \in Owner, NEW c \in Amounts,
           RedeemReserveCollateral(o, c, a)
    PROVE  CapInv'
  <1>1. /\ ~reserve.deprecated /\ Refreshes(a) /\ CapAdds(Worth(Refreshed(a), c))
    BY DEF RedeemReserveCollateral, Usable, Worth
  <1>2. Worth(Refreshed(a), c) \in Nat
    BY <1>1, WorthType, QueueAssumption
  <1> QED
    BY <1>1, <1>2, CapCounts

LEMMA CapOfDeposit ==
    ASSUME Inv, CapInv, NEW a \in Accruals, NEW o \in Owner, NEW x \in Amounts,
           DepositReserveLiquidity(o, x, a)
    PROVE  CapInv'
  <1> DEFINE l == depositable(Refreshed(a), x).liquidity
  <1>1. ~reserve.deprecated /\ Refreshes(a) /\ CapSubtracts(l)
    BY DEF DepositReserveLiquidity, Active, Usable
  <1>2. Sound(Refreshed(a)) /\ x \in Nat
    BY <1>1, Refreshing, QueueAssumption
  <1>3. l \in Nat
    BY <1>2, DepositKeeps
  <1> QED
    BY <1>1, <1>3, CapCounts

LEMMA CapOfLiquidation ==
    ASSUME Inv, CapInv, NEW a \in Accruals, NEW o \in Owner, NEW q \in Owner,
           NEW c \in Amounts, NEW e \in Enforced, LiquidateAndRedeem(o, q, c, e, a)
    PROVE  CapInv'
  <1> DEFINE r == Refreshed(a)
             d == Lesser(c, IF e THEN total_redeemable_collateral_amount(r)
                                 ELSE freely_redeemable_collateral_amount(r))
  <1>1. /\ ~reserve.deprecated /\ Refreshes(a)
        /\ UNCHANGED cap \/ CapAdds(Worth(r, d))
    BY DEF LiquidateAndRedeem, Usable, Worth
  <1>2. /\ total_redeemable_collateral_amount(r) \in Nat
        /\ freely_redeemable_collateral_amount(r) \in Nat /\ c \in Nat
    BY <1>1, Refreshing, RedeemableType, QueueAssumption
  <1> HIDE DEF r
  <1>3. d \in Nat
    BY <1>2 DEF Lesser
  <1> HIDE DEF d
  <1>4. Worth(r, d) \in Nat
    BY <1>1, <1>3, WorthType DEF r
  <1> QED
    BY <1>1, <1>4, CapCounts DEF CapInv

LEMMA CapOfHead ==
    ASSUME Inv, CapInv, NEW a \in Accruals, NEW price, RedeemTicket(price, a)
    PROVE  CapInv'
  <1> DEFINE r == Refreshed(a)
             t == ticket[Head]
             c == Lesser(t.amount, total_redeemable_collateral_amount(r))
  <1>1. HeadAccepted /\ Refreshes(a) /\ CapAdds(Worth(r, c))
    BY DEF RedeemTicket, Worth
  <1>2. ~reserve.deprecated /\ t.amount \in Nat
    BY <1>1, HeadFacts
  <1>3. total_redeemable_collateral_amount(r) \in Nat
    BY <1>1, <1>2, Refreshing, RedeemableType
  <1> HIDE DEF r, t
  <1>4. c \in Nat
    BY <1>2, <1>3 DEF Lesser
  <1> HIDE DEF c
  <1>5. Worth(r, c) \in Nat
    BY <1>1, <1>2, <1>4, WorthType DEF r
  <1> QED
    BY <1>1, <1>5, CapCounts

LEMMA CapKept == ASSUME CapInv, UNCHANGED cap PROVE CapInv'
  BY DEF CapInv

LEMMA CapStep == ASSUME Inv, CapInv, [Next]_vars PROVE CapInv'
  <1>1. CASE UNCHANGED vars
    BY <1>1, CapKept DEF vars
  <1>2. CASE AdminStep
    <2>1. CASE \E o \in Owner, d \in Destinations : ChangeDestination(o, d)
      BY <2>1, CapKept DEF ChangeDestination
    <2>2. CASE \E s \in SwitchSets : SetSwitches(s)
      BY <2>2, CapKept DEF SetSwitches
    <2>3. CASE \E s \in CapSettings : SetWithdrawalCap(s)
      <3>1. PICK s \in [capacity : 0..MaxI64, interval : 0..Now] : SetWithdrawalCap(s)
        BY <2>3, QueueAssumption
      <3>2. /\ Now \in Nat /\ s.capacity \in 0..MaxI64 /\ s.interval \in Nat
        BY QueueAssumption
      <3>3. cap' = [cap EXCEPT !.capacity = s.capacity, !.interval = s.interval]
        BY <3>1 DEF SetWithdrawalCap
      <3> QED
        BY <3>2, <3>3 DEF CapInv, Caps
    <2> QED
      BY <1>2, <2>1, <2>2, <2>3 DEF AdminStep
  <1>3. CASE TimePasses
    BY <1>3, QueueAssumption DEF TimePasses, CapInv, Caps
  <1>4. ASSUME NEW a \in Accruals, NEW price \in Prices, QueueStep(a, price)
        PROVE  CapInv'
    <2>1. CASE RedeemTicket(price, a)
      BY <2>1, CapOfHead
    <2>2. CASE SkipCancelledTicket \/ SkipInvalidTicket
      BY <2>2, CapKept DEF SkipCancelledTicket, SkipInvalidTicket
    <2>3. CASE \E o \in Owner, c \in Amounts : EnqueueToWithdraw(o, c, price, a)
      BY <2>3, CapKept DEF EnqueueToWithdraw
    <2>4. CASE \E o \in Owner, n \in Seqno, c \in Amounts :
                  CancelWithdrawTicket(o, n, c, price, a)
      BY <2>4, CapKept DEF CancelWithdrawTicket
    <2>5. CASE \E n \in Seqno : RecoverInvalidTicketCollateral(n)
      BY <2>5, CapKept DEF RecoverInvalidTicketCollateral
    <2> QED
      BY <1>4, <2>1, <2>2, <2>3, <2>4, <2>5 DEF QueueStep, WithdrawQueuedLiquidity
  <1>5. ASSUME NEW a \in Accruals, ReserveStep(a) PROVE CapInv'
    <2>1. CASE RefreshReserve(a) \/ RedeemFees(a)
      BY <2>1, CapKept DEF RefreshReserve, RedeemFees
    <2>2. CASE \E o \in Owner, l \in Amounts : DepositReserveLiquidity(o, l, a)
      BY <2>2, CapOfDeposit
    <2>3. CASE \E o \in Owner, c \in Amounts : RedeemReserveCollateral(o, c, a)
      BY <2>3, CapOfRedemption
    <2>4. CASE \E b \in BorrowSizes : Borrow(b, a)
      BY <2>4, CapKept DEF Borrow
    <2>5. CASE \E s \in 1..MaxDebt : Repay(s, a)
      BY <2>5, CapKept DEF Repay
    <2>6. CASE \E o, q \in Owner, c \in Amounts, e \in Enforced :
                  LiquidateAndRedeem(o, q, c, e, a)
      BY <2>6, CapOfLiquidation
    <2>7. CASE \E l \in Amounts : SocializeLoss(l, a) \/ TopupReserveRewards(l, a)
      BY <2>7, CapKept DEF SocializeLoss, TopupReserveRewards
    <2> QED
      BY <1>5, <2>1, <2>2, <2>3, <2>4, <2>5, <2>6, <2>7 DEF ReserveStep
  <1> QED
    BY <1>1, <1>2, <1>3, <1>4, <1>5 DEF Next

LEMMA CapInvariant == Spec => []CapInv
  <1>1. Init => CapInv
    <2>1. 0 \in I64
      BY WidthAssumption DEF I64, MinI64
    <2> QED
      BY <2>1, QueueAssumption DEF Init, CapInv, Caps
  <1>2. Inv /\ CapInv /\ [Next]_vars => CapInv'
    BY CapStep
  <1> QED
    BY <1>1, <1>2, QueueInvariant, PTL DEF Spec

-----------------------------------------------------------------------------
\* No instruction takes a figure of the reserve, a balance or a ticket below zero:
\* the subtractions of the handlers never underflow.
THEOREM QueueTyping == Spec => []TypeOK
  <1>1. Inv /\ CapInv => TypeOK
    BY InvImplies DEF Typed, TypeOK, CapInv
  <1> QED
    BY <1>1, QueueInvariant, CapInvariant, PTL

\* The two counters delimit the waiting tickets, whatever is enqueued, cancelled,
\* skipped or recovered and in whatever order.
THEOREM TicketsInWindow == Spec => []TicketWindow
  <1>1. Inv => TicketWindow
    BY InvImplies
  <1> QED
    BY <1>1, QueueInvariant, PTL

\* Counted and held amounts agree, for any number of owners and tickets.
THEOREM FiguresBacked == Spec => []QueueBacked
  <1>1. Inv => QueueBacked
    BY InvImplies
  <1> QED
    BY <1>1, QueueInvariant, PTL

\* A reserve that is not deprecated has assets: no redemption takes the last of
\* them, because the seed's ctokens are never redeemed, and a loss that does
\* deprecates it.
THEOREM ReserveSolvent == Spec => []NeverUnderwater
  <1>1. Inv => NeverUnderwater
    BY InvImplies
  <1> QED
    BY <1>1, QueueInvariant, PTL

\* Whatever the amounts, the scale and the rate, no rounding is in favour of the
\* user who deposits, redeems, borrows or repays.
THEOREM RateHolds == Spec => RateNeverDrops
  <1>1. Inv /\ [Next]_vars =>
          [\/ total_supply(reserve') * reserve.mint_supply
                 >= total_supply(reserve) * reserve'.mint_supply
           \/ \E a \in Accruals, l \in Amounts : SocializeLoss(l, a)]_vars
    BY NextStep DEF RateKept, Socializes
  <1> QED
    BY <1>1, QueueInvariant, PTL DEF Spec, RateNeverDrops

\* Liquidity the queue needs is taken by its head and by enforced liquidations only.
THEOREM FirstServed == Spec => QueueFirst
  <1>1. Inv /\ [Next]_vars =>
          [\/ reserve'.available >= reserve.available
           \/ reserve'.available + 1 >= queued_liquidity_amount(reserve')
           \/ \E a \in Accruals, price \in Prices : RedeemTicket(price, a)
           \/ \E a \in Accruals, c \in Amounts, o, q \in Owner :
                 LiquidateAndRedeem(o, q, c, TRUE, a)]_vars
    BY NextStep DEF QueueLeft, HeadRedeemed, EnforcedLiquidation
  <1> QED
    BY <1>1, QueueInvariant, PTL DEF Spec, QueueFirst
=============================================================================

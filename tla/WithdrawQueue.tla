---------------------------- MODULE WithdrawQueue ----------------------------
(***************************************************************************)
(* klend's withdraw queue on one reserve: users who cannot redeem because  *)
(* the liquidity is lent out leave their ctokens in a queue and get a      *)
(* numbered ticket; anyone may later redeem the ticket at the head.        *)
(*                                                                         *)
(* One action is one instruction of the program (a failed instruction      *)
(* changes nothing and is not a step).  The instructions that share the    *)
(* reserve with the queue are here with what they do to the reserve and to *)
(* the token accounts; what they do to obligations is not.                 *)
(*                                                                         *)
(* Redemptions pass the reserve's deposit_withdrawal_cap, that of the head *)
(* included, and deposits credit it.  All that counts of the time is how   *)
(* long ago the cap's interval began: the clock stands at Now, and time    *)
(* passes by the beginning of the interval moving back.                    *)
(***************************************************************************)
EXTENDS Reserve, WithdrawalCaps, FiniteSets, Functions

CONSTANTS Owner,         \* ctoken holders
          Seed,          \* min_initial_deposit_amount
          DepositLimit,  \* config.deposit_limit
          MinValue,      \* market.min_withdraw_queued_liquidity_value
          Enforced,      \* liquidations met: TRUE enforced, FALSE user-requested
          Prices,        \* market values of one unit of liquidity
          Accruals,      \* bound: the refresh outcomes tried
          Amounts,       \* bound: the instruction arguments tried
          MaxTickets,    \* bound: tickets issued
          MaxDebt,       \* bound: borrowed_sf, interest included
          MaxAssets,     \* bound: liquidity, debt and rewards together, times SF
          MaxMint,       \* bound: ctokens outstanding
          Now,           \* the clock
          CapSettings,   \* bound: capacities and intervals of the cap tried
          Destinations,  \* bound: the states of a destination tried
          SwitchSets     \* bound: the settings tried

\* "missing": the owner's associated token account, closed;  "invalid":
\* frozen, delegated, re-owned or otherwise unusable.
Destination == {"valid", "missing", "invalid"}
Switch == {"issuance", "redemption", "cancellation", "emergency", "obsolete"}

ASSUME QueueAssumption ==
    /\ IsFiniteSet(Owner)
    /\ Seed \in Nat \ {0}
    /\ {DepositLimit, MinValue, MaxTickets, MaxDebt,
        MaxAssets, MaxMint, Now} \subseteq Nat
    /\ CapSettings \subseteq [capacity : 0..MaxI64, interval : 0..Now]
    /\ Enforced \subseteq BOOLEAN
    /\ Prices \subseteq Nat /\ Amounts \subseteq Nat
    /\ Accruals \subseteq Accrual
    /\ Destinations \subseteq Destination /\ SwitchSets \subseteq SUBSET Switch

VARIABLES reserve,       \* the Reserve account
          supply_vault,  \* token balance of reserve.liquidity.supply_vault
          ticket,        \* the WithdrawTicket accounts, by sequence number
          queued_vault,  \* owner_queued_collateral_vault balances (ctokens)
          wallet,        \* ctokens held otherwise: token account or obligation
          destination,   \* state of each owner's liquidity account
          switches,      \* market and reserve settings in force
          cap            \* config.deposit_withdrawal_cap

vars == <<reserve, supply_vault, ticket, queued_vault, wallet, destination, switches, cap>>

Seqno == 0..(MaxTickets - 1)
Ticket == [owner : Owner, amount : Nat, invalid : BOOLEAN]
NoTicket == [owner |-> "none"]

Init ==
    /\ reserve = [available |-> Seed, borrowed_sf |-> 0, protocol_fees_sf |-> 0,
                  rewards |-> 0, mint_supply |-> Seed, queued |-> 0,
                  next_issued |-> 0, next_withdrawable |-> 0,
                  deprecated |-> FALSE]
    /\ supply_vault = Seed
    /\ ticket = [n \in Seqno |-> NoTicket]
    /\ queued_vault = [o \in Owner |-> 0]
    /\ wallet = [o \in Owner |-> 0]
    /\ destination = [o \in Owner |-> "valid"]
    /\ switches \in SwitchSets
    /\ \E s \in CapSettings :
          cap = [capacity |-> s.capacity, interval |-> s.interval, start |-> 0, total |-> 0]

-----------------------------------------------------------------------------
\* What every instruction below asks of the reserve account first.
Usable == "emergency" \notin switches /\ ~reserve.deprecated
Active == Usable /\ "obsolete" \notin switches

\* The reserve after the refresh at the start of an instruction.
Refreshes(a) == /\ CanAccrue(reserve, a)
                /\ Solvent(reserve)
Refreshed(a) == refresh_reserve(reserve, a)

\* A second refresh in the same slot accrues nothing.
NoAccrual == [interest |-> 0, fee |-> 0, reward |-> 0]

\* l units of liquidity leave with a redemption, or come with a deposit.
CapAdds(l) == AddAccepted(cap, l, Now) /\ cap' = Counted(cap, l, Now)
CapSubtracts(l) == SubAccepted(cap, l, Now) /\ cap' = Counted(cap, -l, Now)

Live(n) == n \in Seqno /\ ticket[n] # NoTicket
Head == reserve.next_withdrawable

\* check_min_withdraw_ticket_value, check_min_withdrawn_queued_liquidity_value
ReachesMinValue(l, price) == l * price >= MinValue
ReachesMinTicket(r, c, price) ==
    ReachesMinValue(collateral_to_liquidity(collateral_exchange_rate(r), c), price)

-----------------------------------------------------------------------------
(* The queue's own instructions.                                           *)

EnqueueToWithdraw(o, c, price, a) ==
    /\ Active /\ "issuance" \in switches /\ Refreshes(a)
    /\ destination[o] = "valid"
    /\ c # 0 /\ c <= wallet[o]
    /\ ReachesMinTicket(Refreshed(a), c, price)
    /\ reserve.next_issued < MaxTickets
    /\ ~Live(reserve.next_issued)
    /\ reserve' = enqueue(Refreshed(a), c)
    /\ ticket' = [ticket EXCEPT ![reserve.next_issued] =
                    [owner |-> o, amount |-> c, invalid |-> FALSE]]
    /\ wallet' = [wallet EXCEPT ![o] = @ - c]
    /\ queued_vault' = [queued_vault EXCEPT ![o] = @ + c]
    /\ UNCHANGED <<supply_vault, destination, switches, cap>>

\* withdraw_queued_liquidity only accepts the ticket at the head of the queue.
HeadAccepted ==
    /\ Usable /\ "redemption" \in switches
    /\ Live(Head) /\ ~ticket[Head].invalid

\* The head was cancelled: close its account and step over it.
SkipCancelledTicket ==
    /\ HeadAccepted /\ ticket[Head].amount = 0
    /\ reserve' = dequeue(reserve, 0, TRUE)
    /\ ticket' = [ticket EXCEPT ![Head] = NoTicket]
    /\ UNCHANGED <<supply_vault, queued_vault, wallet, destination, switches, cap>>

\* Faulty variant: the skipped ticket's collateral stays in the queue total.
SkipInvalidTicketQueued ==
    /\ HeadAccepted /\ ticket[Head].amount # 0
    /\ destination[ticket[Head].owner] = "invalid"
    /\ reserve' = dequeue(reserve, 0, TRUE)
    /\ ticket' = [ticket EXCEPT ![Head].invalid = TRUE]
    /\ UNCHANGED <<supply_vault, queued_vault, wallet, destination, switches, cap>>

\* The head cannot be paid out: mark it invalid and step over it.
SkipInvalidTicket ==
    /\ HeadAccepted /\ ticket[Head].amount # 0
    /\ destination[ticket[Head].owner] = "invalid"
    /\ reserve' = dequeue(reserve, ticket[Head].amount, TRUE)
    /\ ticket' = [ticket EXCEPT ![Head].invalid = TRUE]
    /\ UNCHANGED <<supply_vault, queued_vault, wallet, destination, switches, cap>>

\* Redeem as much of the head as the reserve's liquidity allows.  A missing
\* destination is created, which is only paid for when the ticket is emptied.
RedeemTicket(price, a) ==
    /\ HeadAccepted /\ Refreshes(a)
    /\ LET t == ticket[Head]
           r == Refreshed(a)
           max == total_redeemable_collateral_amount(r)
           burned == Lesser(t.amount, max)
           rest == t.amount - burned
           liquidity == collateral_to_liquidity(collateral_exchange_rate(r), burned)
       IN  /\ t.amount # 0 /\ destination[t.owner] # "invalid"
           /\ max # 0
           /\ rest # 0 => /\ ReachesMinTicket(r, rest, price)
                          /\ ReachesMinValue(liquidity, price)
                          /\ destination[t.owner] = "valid"
           /\ Withdrawable(r, liquidity, TRUE)
           /\ CapAdds(liquidity)
           /\ reserve' = dequeue(redeem_collateral(r, burned), burned, rest = 0)
           /\ ticket' = [ticket EXCEPT ![Head] =
                           IF rest = 0 THEN NoTicket ELSE [t EXCEPT !.amount = rest]]
           /\ queued_vault' = [queued_vault EXCEPT ![t.owner] = @ - burned]
           /\ supply_vault' = supply_vault - liquidity
           /\ destination' = [destination EXCEPT ![t.owner] = "valid"]
    /\ UNCHANGED <<wallet, switches>>

WithdrawQueuedLiquidity(price, a) ==
    SkipCancelledTicket \/ SkipInvalidTicket \/ RedeemTicket(price, a)

\* Faulty variant: a ticket cancelled to zero is closed on the spot.
CancelWithdrawTicketClosing(o, n, c, price, a) ==
    /\ Usable /\ "cancellation" \in switches /\ Refreshes(a)
    /\ Live(n) /\ ticket[n].owner = o /\ ~ticket[n].invalid /\ ticket[n].amount # 0
    /\ c # 0
    /\ LET cancelled == Lesser(c, ticket[n].amount)
           rest == ticket[n].amount - cancelled
       IN  /\ rest # 0 => ReachesMinTicket(Refreshed(a), rest, price)
           /\ ticket' = [ticket EXCEPT ![n] = IF rest = 0 THEN NoTicket
                                              ELSE [@ EXCEPT !.amount = rest]]
           /\ reserve' = dequeue(Refreshed(a), cancelled, FALSE)
           /\ queued_vault' = [queued_vault EXCEPT ![o] = @ - cancelled]
           /\ wallet' = [wallet EXCEPT ![o] = @ + cancelled]
    /\ UNCHANGED <<supply_vault, destination, switches, cap>>

\* Any of the owner's live tickets, wherever it stands in the queue; a ticket
\* cancelled to zero keeps its account until the queue gets to it.
CancelWithdrawTicket(o, n, c, price, a) ==
    /\ Usable /\ "cancellation" \in switches /\ Refreshes(a)
    /\ Live(n) /\ ticket[n].owner = o /\ ~ticket[n].invalid /\ ticket[n].amount # 0
    /\ c # 0
    /\ LET cancelled == Lesser(c, ticket[n].amount)
           rest == ticket[n].amount - cancelled
       IN  /\ rest # 0 => ReachesMinTicket(Refreshed(a), rest, price)
           /\ ticket' = [ticket EXCEPT ![n].amount = rest]
           /\ reserve' = dequeue(Refreshed(a), cancelled, FALSE)
           /\ queued_vault' = [queued_vault EXCEPT ![o] = @ - cancelled]
           /\ wallet' = [wallet EXCEPT ![o] = @ + cancelled]
    /\ UNCHANGED <<supply_vault, destination, switches, cap>>

\* An invalid ticket's ctokens go back to its owner and the account is closed.
RecoverInvalidTicketCollateral(n) ==
    /\ Usable /\ Live(n) /\ ticket[n].invalid
    /\ LET t == ticket[n]
       IN  /\ queued_vault' = [queued_vault EXCEPT ![t.owner] = @ - t.amount]
           /\ wallet' = [wallet EXCEPT ![t.owner] = @ + t.amount]
    /\ ticket' = [ticket EXCEPT ![n] = NoTicket]
    /\ UNCHANGED <<reserve, supply_vault, destination, switches, cap>>

-----------------------------------------------------------------------------
(* The other instructions on the reserve.  Those that need the reserve     *)
(* fresh in this slot, but do not refresh it themselves, are one step with *)
(* the refresh_reserve before them: each of them leaves the reserve stale, *)
(* so no other of them can come between.                                   *)

RefreshReserve(a) ==
    /\ ~reserve.deprecated /\ Refreshes(a)
    /\ reserve' = Refreshed(a)
    /\ UNCHANGED <<supply_vault, ticket, queued_vault, wallet, destination, switches, cap>>

DepositReserveLiquidity(o, l, a) ==
    /\ Active /\ l # 0 /\ Refreshes(a)
    /\ LET r == Refreshed(a)
           d == depositable(r, l)
       IN  /\ d.liquidity <= l
           /\ d.liquidity * SF + total_supply(r) <= DepositLimit * SF
           /\ CapSubtracts(d.liquidity)
           /\ reserve' = deposit_liquidity(r, d.liquidity, d.collateral)
           /\ supply_vault' = supply_vault + d.liquidity
           /\ wallet' = [wallet EXCEPT ![o] = @ + d.collateral]
    /\ UNCHANGED <<ticket, queued_vault, destination, switches>>

\* redeem_reserve_collateral with RedeemCollateralOptions::REGULAR, alone or
\* after a withdrawal from an obligation.
RedeemReserveCollateral(o, c, a) ==
    /\ Usable /\ Refreshes(a)
    /\ c # 0 /\ c <= wallet[o]
    /\ LET r == Refreshed(a)
           l == collateral_to_liquidity(collateral_exchange_rate(r), c)
       IN  /\ Withdrawable(r, l, FALSE)
           /\ CapAdds(l)
           /\ reserve' = redeem_collateral(r, c)
           /\ supply_vault' = supply_vault - l
    /\ wallet' = [wallet EXCEPT ![o] = @ - c]
    /\ UNCHANGED <<ticket, queued_vault, destination, switches>>

\* What calculate_borrow may return: a whole amount, or any fraction when the
\* obligation's borrowing power is the limit.
BorrowSizes == {l * SF + part : l \in Amounts, part \in {0, SF - 1}}

Borrow(b_sf, a) ==
    /\ Active /\ Refreshes(a)
    /\ LET r == Refreshed(a)
       IN  /\ b_sf \div SF # 0
           /\ b_sf <= freely_available_liquidity_amount(r) * SF
           /\ Withdrawable(r, b_sf \div SF, FALSE)
           /\ reserve' = borrow(r, b_sf)
    /\ supply_vault' = supply_vault - b_sf \div SF
    /\ UNCHANGED <<ticket, queued_vault, wallet, destination, switches, cap>>

\* settle_sf is the lesser of the amount offered and one obligation's debt.
Repay(settle_sf, a) ==
    /\ Usable /\ Refreshes(a)
    /\ settle_sf \in 1..Refreshed(a).borrowed_sf
    /\ reserve' = repay(Refreshed(a), DivCeil(settle_sf, SF), settle_sf)
    /\ supply_vault' = supply_vault + DivCeil(settle_sf, SF)
    /\ UNCHANGED <<ticket, queued_vault, wallet, destination, switches, cap>>

RedeemFees(a) ==
    /\ Usable /\ Refreshes(a)
    /\ LET amount == calculate_redeem_fees(Refreshed(a))
       IN  /\ amount # 0
           /\ reserve' = redeem_fees(Refreshed(a), amount)
           /\ supply_vault' = supply_vault - amount
    /\ UNCHANGED <<ticket, queued_vault, wallet, destination, switches, cap>>

\* A liquidator takes c ctokens out of o's obligation, redeems what it can and
\* keeps the rest.  The debt repaid is another reserve's.  A liquidation the
\* protocol enforces may use the queue's liquidity and passes no cap; one the
\* user ordered may not, and does.
LiquidateAndRedeem(o, liquidator, c, enforced, a) ==
    /\ Usable /\ Refreshes(a)
    /\ c # 0 /\ c <= wallet[o]
    /\ LET r == Refreshed(a)
           redeemed == Lesser(c, IF enforced THEN total_redeemable_collateral_amount(r)
                                            ELSE freely_redeemable_collateral_amount(r))
           l == collateral_to_liquidity(collateral_exchange_rate(r), redeemed)
       IN  /\ redeemed # 0 => Withdrawable(r, l, enforced)
           /\ IF enforced \/ redeemed = 0 THEN UNCHANGED cap ELSE CapAdds(l)
           /\ reserve' = redeem_collateral(r, redeemed)
           /\ supply_vault' = supply_vault - l
           /\ wallet' = [[wallet EXCEPT ![o] = @ - c]
                           EXCEPT ![liquidator] = @ + c - redeemed]
    /\ UNCHANGED <<ticket, queued_vault, destination, switches>>

\* The market owner writes off debt of an obligation without collateral; the
\* prices it needs are not there in emergency mode.
SocializeLoss(l, a) ==
    /\ Usable /\ Refreshes(a)
    /\ LET r == Refreshed(a)
           forgive_sf == Lesser(l * SF, r.borrowed_sf)
       IN  /\ forgive_sf # 0
           /\ reserve' = forgive_debt(r, forgive_sf)
    /\ UNCHANGED <<supply_vault, ticket, queued_vault, wallet, destination, switches, cap>>

TopupReserveRewards(l, a) ==
    /\ Active /\ l # 0 /\ Refreshes(a)
    /\ reserve' = [Refreshed(a) EXCEPT !.rewards = @ + l]
    /\ supply_vault' = supply_vault + l
    /\ UNCHANGED <<ticket, queued_vault, wallet, destination, switches, cap>>

\* The owner closes, breaks or restores the account a ticket pays into.
ChangeDestination(o, d) ==
    /\ destination' = [destination EXCEPT ![o] = d]
    /\ UNCHANGED <<reserve, supply_vault, ticket, queued_vault, wallet, switches, cap>>

\* The market owner's settings.
SetSwitches(s) ==
    /\ switches' = s
    /\ UNCHANGED <<reserve, supply_vault, ticket, queued_vault, wallet, destination, cap>>

\* update_reserve_config: counter and start of the interval are kept.
SetWithdrawalCap(s) ==
    /\ cap' = [cap EXCEPT !.capacity = s.capacity, !.interval = s.interval]
    /\ UNCHANGED <<reserve, supply_vault, ticket, queued_vault, wallet, destination, switches>>

\* An interval as old as Now has run out, however long ago it began.
TimePasses ==
    /\ cap.start > 0
    /\ cap' = [cap EXCEPT !.start = @ - 1]
    /\ UNCHANGED <<reserve, supply_vault, ticket, queued_vault, wallet, destination, switches>>

-----------------------------------------------------------------------------
QueueStep(a, price) ==
    \/ WithdrawQueuedLiquidity(price, a)
    \/ \E o \in Owner, c \in Amounts : EnqueueToWithdraw(o, c, price, a)
    \/ \E o \in Owner, n \in Seqno, c \in Amounts : CancelWithdrawTicket(o, n, c, price, a)
    \/ \E n \in Seqno : RecoverInvalidTicketCollateral(n)

ReserveStep(a) ==
    \/ RefreshReserve(a) \/ RedeemFees(a)
    \/ \E o \in Owner, l \in Amounts : DepositReserveLiquidity(o, l, a)
    \/ \E o \in Owner, c \in Amounts : RedeemReserveCollateral(o, c, a)
    \/ \E b \in BorrowSizes : Borrow(b, a)
    \/ \E s \in 1..MaxDebt : Repay(s, a)
    \/ \E o, q \in Owner, c \in Amounts, e \in Enforced : LiquidateAndRedeem(o, q, c, e, a)
    \/ \E l \in Amounts : SocializeLoss(l, a) \/ TopupReserveRewards(l, a)

AdminStep ==
    \/ \E o \in Owner, d \in Destinations : ChangeDestination(o, d)
    \/ \E s \in SwitchSets : SetSwitches(s)
    \/ \E s \in CapSettings : SetWithdrawalCap(s)

WithinBounds(r) ==
    /\ r.borrowed_sf <= MaxDebt /\ r.mint_supply <= MaxMint
    /\ (r.available + r.rewards) * SF + r.borrowed_sf <= MaxAssets

Next ==
    /\ \/ \E a \in Accruals : \/ \E price \in Prices : QueueStep(a, price)
                              \/ ReserveStep(a)
       \/ AdminStep
       \/ TimePasses
    /\ WithinBounds(reserve')

Spec == Init /\ [][Next]_vars

-----------------------------------------------------------------------------
(* Properties                                                              *)

TypeOK ==
    /\ reserve \in ReserveState
    /\ supply_vault \in Nat
    /\ ticket \in [Seqno -> Ticket \cup {NoTicket}]
    /\ queued_vault \in [Owner -> Nat]
    /\ wallet \in [Owner -> Nat]
    /\ destination \in [Owner -> Destination]
    /\ switches \subseteq Switch
    /\ cap \in Caps

Waiting(n) == Head <= n /\ n < reserve.next_issued

\* The two counters of WithdrawQueue and the ticket accounts agree: exactly the
\* tickets between the counters wait, every one of them has a valid account
\* that withdraw_queued_liquidity accepts when its turn comes, and an account
\* the queue has passed is there only to have its ctokens recovered.
TicketWindow ==
    /\ Head <= reserve.next_issued
    /\ \A n \in Seqno :
          /\ Waiting(n) => Live(n) /\ ~ticket[n].invalid
          /\ Live(n) /\ ~Waiting(n) => n < Head /\ ticket[n].invalid

SumTickets(S) == SumFunctionOnSet([n \in S |-> ticket[n].amount], S)

\* queued_collateral_amount, which every borrow and redemption subtracts, is
\* what the waiting tickets hold, and every owner's vault has the ctokens of
\* all their tickets, passed over or not.
TicketsBacked ==
    /\ reserve.queued = SumTickets({n \in Seqno : Live(n) /\ Waiting(n)})
    /\ \A o \in Owner :
          queued_vault[o] = SumTickets({n \in Seqno : Live(n) /\ ticket[n].owner = o})

\* The reserve's figures against the token accounts: every ctoken the reserve
\* counts is somebody's (the seed deposit's are never handed out), and the
\* liquidity it counts is in its vault, rewards not yet distributed included.
TokensBacked ==
    /\ reserve.mint_supply =
         Seed + SumFunctionOnSet([o \in Owner |-> wallet[o] + queued_vault[o]], Owner)
    /\ supply_vault = reserve.available + reserve.rewards

\* Every figure of the reserve and of the queue is backed by tokens: what the
\* handlers count and what they transfer, mint and burn never come apart.
QueueBacked == TicketsBacked /\ TokensBacked

\* total_supply never underflows while the reserve can be used: socialize_loss
\* deprecates it in time.
NeverUnderwater == reserve.deprecated \/ total_supply(reserve) > 0

\* The cap of the reserve lets l units out: it is off, or the present interval,
\* a new one if that has run out, has room for them.
CapHasRoom(l) ==
    cap.interval # 0 =>
        l + (IF Now - cap.start >= cap.interval THEN 0 ELSE cap.total) <= cap.capacity

\* The queue moves: on a reserve refreshed in this slot, whose liquidity covers
\* what is queued, whose ctoken is worth at least a unit (no loss was socialized)
\* and whose withdrawal cap has room for what the head is worth, no minimum-value
\* check, no rounding and nothing the cap counted in an earlier interval keeps
\* anyone from taking the head off the queue.  (A vault program that is told of
\* the redemption may still refuse it.)
CoveredHeadMoves ==
    /\ Usable /\ "redemption" \in switches /\ Waiting(Head)
    /\ total_supply(reserve) >= reserve.mint_supply * SF
    /\ reserve.available >= queued_liquidity_amount(reserve)
    /\ CapHasRoom(collateral_to_liquidity(collateral_exchange_rate(reserve),
                                          ticket[Head].amount))
    => \A price \in Prices :
          ENABLED (\/ SkipCancelledTicket \/ SkipInvalidTicket
                   \/ RedeemTicket(price, NoAccrual) /\ reserve'.next_withdrawable = Head + 1)

\* First come, first served: unless the protocol enforces a liquidation,
\* only the redemption of the head takes liquidity the queue needs.  Whatever
\* else lowers the available amount leaves enough for the queue at the new
\* exchange rate, up to the one unit by which its rounding can raise that rate.
QueueFirst ==
    [][\/ reserve'.available >= reserve.available
       \/ reserve'.available + 1 >= queued_liquidity_amount(reserve')
       \/ \E a \in Accruals, price \in Prices : RedeemTicket(price, a)
       \/ \E a \in Accruals, c \in Amounts, o, q \in Owner :
              LiquidateAndRedeem(o, q, c, TRUE, a)]_vars

\* No rounding and no order of instructions lets anyone take value from the
\* ctoken holders: a ctoken never buys less than before, except when the
\* market owner socializes a loss.
RateNeverDrops ==
    [][\/ total_supply(reserve') * reserve.mint_supply
              >= total_supply(reserve) * reserve'.mint_supply
       \/ \E a \in Accruals, l \in Amounts : SocializeLoss(l, a)]_vars
=============================================================================

------------------------------ MODULE FlashLoan ------------------------------
(***************************************************************************)
(* klend's flash loans: liquidity lent without collateral because the same *)
(* transaction gives it back.  Nothing is stored about a loan; the borrow  *)
(* looks ahead, and the repayment looks back, in the transaction itself    *)
(* (lending_market/flash_ixs.rs).                                          *)
(*                                                                         *)
(* A behaviour is one transaction on refreshed reserves; all of it is in   *)
(* one slot, so nothing accrues.  Fees go to the fee vault and do not      *)
(* touch the reserve; referrers are left out, and so are deposit and       *)
(* borrow limits and withdrawal caps, which only refuse more.  The ctokens *)
(* of the seed deposit are never redeemed: a redemption takes less than    *)
(* the mint's supply.                                                      *)
(***************************************************************************)
EXTENDS Reserve, Sequences

CONSTANTS ReserveId,     \* the reserves
          Opening,       \* bound: reserve states a transaction may start in
          Tried,         \* bound: the instructions tried
          MaxLength      \* bound: instructions in a transaction

VARIABLES tx,        \* the transaction: its top-level instructions
          ip,        \* the instruction to execute next
          status,    \* of the transaction
          reserve,   \* the Reserve accounts
          entry,     \* the accounts before the transaction, for its rollback
          loan,      \* history variable: lent and not yet repaid, by reserve
          without    \* history variable: the reserves had there been no loan

flashVars == <<tx, ip, status, reserve, entry, loan, without>>

\* The call an instruction makes to klend: itself when its program is klend,
\* from inside when it is another program's.  `index` is the position of the
\* borrow that a repayment names.
Call == {"deposit", "redeem", "borrow", "flash_borrow", "flash_repay"}
Instruction == [program : {"klend", "other"}, call : Call, reserve : ReserveId,
                amount : Nat, index : Nat \ {0}]

\* A reserve in use has its seed deposit and the assets behind it
\* (WithdrawQueueProofs shows that it keeps both until it is deprecated).
ASSUME FlashAssumption ==
    /\ MaxLength \in Nat
    /\ Opening \subseteq ReserveState
    /\ \A r \in Opening : r.mint_supply > 0 /\ total_supply(r) > 0
    /\ Tried \subseteq Instruction

Transactions == UNION {[1..n -> Tried] : n \in 1..MaxLength}

FlashInit ==
    /\ tx \in Transactions
    /\ ip = 1 /\ status = "running"
    /\ entry \in [ReserveId -> Opening]
    /\ reserve = entry /\ without = entry
    /\ loan = [r \in ReserveId |-> 0]

-----------------------------------------------------------------------------
is_flash_forbidden_cpi_call(i) == tx[i].program # "klend"

\* What load_instruction_at and the discriminators see.
IsFlash(i, call) == tx[i].program = "klend" /\ tx[i].call = call

SameLoan(i, j) == tx[i].reserve = tx[j].reserve /\ tx[i].amount = tx[j].amount

\* flash_borrow_check_matching_repay
MatchingRepay(i, j) == SameLoan(i, j) /\ tx[j].index = i

\* Faulty variant: the absence of a repayment goes unnoticed.
flash_borrow_checks_none(i) ==
    /\ ~is_flash_forbidden_cpi_call(i)
    /\ \A j \in i + 1 .. Len(tx) :
          /\ ~IsFlash(j, "flash_borrow")
          /\ IsFlash(j, "flash_repay") => MatchingRepay(i, j)

\* Looking ahead: no other flash borrow, and exactly one repayment, of this one.
flash_borrow_checks(i) ==
    /\ ~is_flash_forbidden_cpi_call(i)
    /\ \A j \in i + 1 .. Len(tx) : ~IsFlash(j, "flash_borrow")
    /\ \E j \in i + 1 .. Len(tx) :
          /\ IsFlash(j, "flash_repay") /\ MatchingRepay(i, j)
          /\ \A k \in i + 1 .. Len(tx) : IsFlash(k, "flash_repay") => k = j

\* Looking back: the instruction named is a flash borrow of the same.
flash_repay_checks(i) ==
    /\ ~is_flash_forbidden_cpi_call(i)
    /\ tx[i].index <= i
    /\ IsFlash(tx[i].index, "flash_borrow")
    /\ SameLoan(tx[i].index, i)

-----------------------------------------------------------------------------
Current(call) ==
    /\ status = "running" /\ ip <= Len(tx) /\ tx[ip].call = call
    /\ ip' = ip + 1
    /\ UNCHANGED <<tx, status, entry>>

\* A flash loan may take liquidity that waits for the withdraw queue.
FlashBorrow ==
    /\ Current("flash_borrow") /\ flash_borrow_checks(ip)
    /\ LET r == tx[ip].reserve
           amount == tx[ip].amount
       IN  /\ Withdrawable(reserve[r], amount, TRUE)
           /\ reserve' = [reserve EXCEPT ![r] = borrow(@, amount * SF)]
           /\ loan' = [loan EXCEPT ![r] = @ + amount]
    /\ UNCHANGED without

\* Faulty variant: the liquidity comes back, the debt stays.
FlashRepayKeepingDebt ==
    /\ Current("flash_repay") /\ flash_repay_checks(ip)
    /\ reserve' = [reserve EXCEPT ![tx[ip].reserve].available = @ + tx[ip].amount]
    /\ loan' = [loan EXCEPT ![tx[ip].reserve] = @ - tx[ip].amount]
    /\ UNCHANGED without

FlashRepay ==
    /\ Current("flash_repay") /\ flash_repay_checks(ip)
    /\ LET r == tx[ip].reserve
           amount == tx[ip].amount
       IN  /\ reserve' = [reserve EXCEPT ![r] = repay(@, amount, amount * SF)]
           /\ loan' = [loan EXCEPT ![r] = @ - amount]
    /\ UNCHANGED without

\* What the klend operations between borrow and repayment do to the reserve.
Deposited(r, l) ==
    LET d == depositable(r, l) IN deposit_liquidity(r, d.liquidity, d.collateral)

Deposit ==
    /\ Current("deposit") /\ tx[ip].amount # 0
    /\ reserve' = [reserve EXCEPT ![tx[ip].reserve] = Deposited(@, tx[ip].amount)]
    /\ without' = [without EXCEPT ![tx[ip].reserve] = Deposited(@, tx[ip].amount)]
    /\ UNCHANGED loan

Redeem ==
    /\ Current("redeem") /\ tx[ip].amount # 0
    /\ LET r == reserve[tx[ip].reserve]
           liquidity == collateral_to_liquidity(collateral_exchange_rate(r), tx[ip].amount)
       IN  tx[ip].amount < r.mint_supply /\ Withdrawable(r, liquidity, FALSE)
    /\ reserve' = [reserve EXCEPT ![tx[ip].reserve] = redeem_collateral(@, tx[ip].amount)]
    /\ without' = [without EXCEPT ![tx[ip].reserve] = redeem_collateral(@, tx[ip].amount)]
    /\ UNCHANGED loan

Borrow ==
    /\ Current("borrow") /\ tx[ip].amount # 0
    /\ Withdrawable(reserve[tx[ip].reserve], tx[ip].amount, FALSE)
    /\ reserve' = [reserve EXCEPT ![tx[ip].reserve] = borrow(@, tx[ip].amount * SF)]
    /\ without' = [without EXCEPT ![tx[ip].reserve] = borrow(@, tx[ip].amount * SF)]
    /\ UNCHANGED loan

\* The runtime: all instructions succeeded, or one failed (also for want of
\* funds, or in a program of somebody else) and everything is undone.
Commit ==
    /\ status = "running" /\ ip = Len(tx) + 1
    /\ status' = "committed"
    /\ UNCHANGED <<tx, ip, reserve, entry, loan, without>>

Abort ==
    /\ status = "running" /\ ip <= Len(tx)
    /\ status' = "aborted"
    /\ reserve' = entry /\ without' = entry
    /\ loan' = [r \in ReserveId |-> 0]
    /\ UNCHANGED <<tx, ip, entry>>

FlashNext ==
    \/ FlashBorrow \/ FlashRepay \/ Deposit \/ Redeem \/ Borrow
    \/ Commit \/ Abort

FlashSpec == FlashInit /\ [][FlashNext]_flashVars

-----------------------------------------------------------------------------
(* Properties                                                              *)

FlashTypeOK ==
    /\ tx \in Seq(Instruction)
    /\ ip \in 1 .. Len(tx) + 1
    /\ status \in {"running", "committed", "aborted"}
    /\ reserve \in [ReserveId -> ReserveState]
    /\ without \in [ReserveId -> ReserveState]
    /\ entry \in [ReserveId -> ReserveState]
    /\ loan \in [ReserveId -> Nat]

\* However borrows and repayments are combined in a transaction, a committed
\* one has given everything back, to the reserve it came from and exactly once.
CommittedRepaid == status = "committed" => \A r \in ReserveId : loan[r] = 0

\* The repayment names an instruction that is a borrow, and the borrow found a
\* repayment: together they leave room for one loan at a time, of one reserve.
SingleLoan == \A r, s \in ReserveId : loan[r] # 0 /\ loan[s] # 0 => r = s

\* A loan leaves no trace: at every instruction the reserve differs from what
\* it would be without the loan by just the amount lent, whatever was deposited,
\* redeemed or borrowed meanwhile; in particular the exchange rate is the same,
\* and no figure of either underflows.
NoTrace ==
    /\ FlashTypeOK
    /\ \A r \in ReserveId :
          reserve[r] = [without[r] EXCEPT !.available = @ - loan[r],
                                          !.borrowed_sf = @ + loan[r] * SF]
=============================================================================

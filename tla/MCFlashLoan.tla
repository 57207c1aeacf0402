----------------------------- MODULE MCFlashLoan -----------------------------
(* A small instance of FlashLoan for TLC.                                  *)
EXTENDS FlashLoan

CONSTANTS usdc, sol

\* Some debt, an exchange rate other than one, and a waiting ticket.
LentReserve ==
    [available |-> 4, borrowed_sf |-> 1, protocol_fees_sf |-> 0, rewards |-> 0,
     mint_supply |-> 3, queued |-> 1, next_issued |-> 1, next_withdrawable |-> 0,
     deprecated |-> FALSE]
OneOpening == {LentReserve}

Loans == {<<usdc, 1>>, <<usdc, 2>>, <<sol, 1>>}
Klend(call, l, i) == [program |-> "klend", call |-> call, reserve |-> l[1],
                      amount |-> l[2], index |-> i]
\* Three different loans, repayments naming any of the first three
\* instructions, operations on the reserve, and nested flash calls.
MixedInstructions ==
    {Klend("flash_borrow", l, 1) : l \in Loans}
    \cup {Klend("flash_repay", l, i) : l \in Loans, i \in 1..3}
    \cup {Klend(call, <<usdc, 2>>, 1) : call \in {"deposit", "redeem", "borrow"}}
    \cup {[Klend(call, <<usdc, 1>>, 1) EXCEPT !.program = "other"] :
              call \in {"flash_borrow", "flash_repay", "deposit"}}
=============================================================================

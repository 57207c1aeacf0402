---------------------------- MODULE MCDebtTrackers ----------------------------
(* Small instances of DebtTrackers for TLC.                                *)
EXTENDS DebtTrackers, TLC

CONSTANTS o1, o2, usdc, sol, msol

OneGroup == {1}
TwoGroups == {1, 2}
\* usdc is borrowed in the first group, sol in the second.
DebtReserves == [g \in Group |-> IF g = 1 THEN usdc ELSE sol]
\* Every reserve is in the first group; usdc is not in the second.
Membership == [r \in ReserveId |-> IF r = usdc THEN Group \cap {1} ELSE Group]
OneCollateral == [g \in Group |-> 1]
OutsideLimit == [r \in ReserveId |-> 3]
AgainstLimit == [r \in ReserveId |-> [g \in Group |-> 3]]

Symmetry == Permutations(ObligationId)
===============================================================================

----------------------------- MODULE MCFixedTerm -----------------------------
(* A fixed-term and an open-term reserve, and orders for both.             *)
EXTENDS FixedTerm

Market ==
    [min_borrow_order_fill_value |-> 1, min_partial_rollover_value |-> 1,
     borrow_order_creation_enabled |-> TRUE, borrow_order_execution_enabled |-> TRUE,
     rollover_configuration_enabled |-> TRUE, migration_to_fixed_enabled |-> TRUE,
     fixed_term_window |-> 1, open_term_window |-> 1]
MaxRates == [r \in ReserveId |-> IF r = "fix" THEN 1 ELSE 2]
FirstMaturity == [r \in ReserveId |-> IF r = "fix" THEN 0 ELSE 3]
Queued == [r \in ReserveId |-> IF r = "fix" THEN 0 ELSE 1]
FirstTerm == [r \in ReserveId |-> IF r = "fix" THEN 1 ELSE 0]
Liquidity == [r \in ReserveId |-> 2]
Orders == {[remaining |-> 1, rate |-> 1, min_term |-> 1, until |-> 3, auto |-> FALSE],
           [remaining |-> 2, rate |-> 2, min_term |-> 0, until |-> 2, auto |-> TRUE]}
==============================================================================

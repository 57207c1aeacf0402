------------------------- MODULE WithdrawalCapLedger -------------------------
(***************************************************************************)
(* WithdrawalCap with a record of what left and what came back in every    *)
(* second, to say what the fixed intervals of the cap are worth over an    *)
(* arbitrary span of time.                                                 *)
(***************************************************************************)
EXTENDS WithdrawalCap, Functions

CONSTANTS MaxFlow,      \* bound: units withdrawn, and returned, per second
          MaxChanges    \* bound: changes of the settings

VARIABLES out, in,      \* units withdrawn and returned, by second
          changed,      \* when the settings last changed
          changes       \* counter behind MaxChanges

ledgerVars == <<out, in, changed, changes>>

LedgerInit ==
    /\ Init
    /\ out = [t \in Time |-> 0] /\ in = [t \in Time |-> 0]
    /\ changed = Epoch /\ changes = 0

RecordWithdraw(x) ==
    /\ Withdraw(x) /\ out[now] + x <= MaxFlow
    /\ out' = [out EXCEPT ![now] = @ + x]
    /\ UNCHANGED <<in, changed, changes>>

RecordReturn(x) ==
    /\ Return(x) /\ in[now] + x <= MaxFlow
    /\ in' = [in EXCEPT ![now] = @ + x]
    /\ UNCHANGED <<out, changed, changes>>

RecordConfigure(c, i) ==
    /\ Configure(c, i) /\ changes < MaxChanges
    /\ changed' = now /\ changes' = changes + 1
    /\ UNCHANGED <<out, in>>

LedgerNext ==
    \/ \E x \in Amounts : RecordWithdraw(x) \/ RecordReturn(x)
    \/ \E c \in Capacities, i \in Intervals : RecordConfigure(c, i)
    \/ Tick /\ UNCHANGED ledgerVars

LedgerSpec == LedgerInit /\ [][LedgerNext]_<<vars, ledgerVars>>

Total(f, first, last) ==
    SumFunctionOnSet(f, {t \in Time : first < t /\ t <= last})

\* What the cap is worth to the market owner: with settings in force for two
\* intervals, no span of one interval lets out more than twice the capacity
\* beyond what came in during it and the interval before.
SlidingWindow ==
    Limited(caps) /\ now - changed >= 2 * caps.interval =>
        Total(out, now - caps.interval, now)
            <= 2 * caps.capacity + Total(in, now - 2 * caps.interval, now)
=============================================================================

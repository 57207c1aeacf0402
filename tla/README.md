# Verification of solana-auditor-skill

TLA+ models of the parts of this repository that keep state: the audit tool's
history store under `scripts/`, and klend, the lending program under
`klend/programs/klend` that the repository carries as its audit target. TLC
checks the models on small instances; TLAPS proves the main results for every
instance.

## 1. Inventory

| part | state it keeps | operations | what is hard |
|---|---|---|---|
| audit history (`scripts/audit-history.sh`) | one JSON file, one lock file | `init`, `add`, `get`, `list`, `diff`, `stats` | several processes, kills, a lock that is tested and then created, failing jq/mktemp/mv under `set -e`, fallbacks that answer for a jq that failed |
| klend reserve (`state/reserve.rs`) | available liquidity, debt, fees, rewards, ctoken supply, queue totals | deposit, redeem, borrow, repay, accrue, fees, loss | rounding, unsigned differences, many instructions on one account |
| klend withdraw queue (`handler_enqueue_to_withdraw.rs` and three more handlers) | two counters and a total in the reserve, one account per ticket, one vault per owner | enqueue, redeem head, cancel, recover | any order of instructions by any user; destinations that break while a ticket waits; minimum values |
| klend withdrawal caps (`withdrawal_cap_operations.rs`) | capacity, interval, start, signed counter | add, subtract, configure | time, 64-bit signed edges, reconfiguration |
| klend flash loans (`flash_ixs.rs`) | none of its own: it reads the transaction | borrow, repay | pairing of instructions in one transaction, nested calls |
| klend obligations, liquidation, orders | deposits, borrows, elevation groups, stop-loss orders, margin calls | deposit, borrow, repay, liquidate, ... | stale values, many reserves in one instruction, values checked before a change, splits of a liquidation |
| klend borrow orders and fixed terms (`borrow_order_operations.rs`, rollover handlers) | a standing order, rollover settings, debt terms | set, fill, roll over, configure | strangers act on the obligation; the owner signs on what it saw; terms and maturities change under debts |
| klend authority | admin, market owner, obligation owner, each with a pending one | nominate, take over; initiate, approve, accept, abort | signatures in flight, orders placed during a transfer |
| klend configuration (`handler_update_*`, `config_items.rs`) | market and reserve settings | update, clone, init | several roles, phases that depend on settings, updates without validation |
| klend access control (`lending_checks.rs`, `permissioning.rs`, `lib.rs`) | switches of market and reserves | every instruction's checks | a switch is as good as the instruction that forgets it |
| klend prices (`utils/prices`, `token_info.rs`) | a saved price with the checks it passed | load, check, save, use | checked at one time, used at another |
| pre-commit hook (`pre-commit-audit.sh`) | counters, `.audit-precommit.json` | scan, report, block | early exits under `set -e`, a stale report |
| fix verification (`fix-verification.sh`) | counters | test, build, PoC | exit statuses under `set -e` |
| triage (`triage-findings.py`) | none | scoring and ordering | numeric edges |
| fix suggestions, reports, exports, discovery, tool runners, installer, examples, prompts | none or pure I/O | | |

The scripts talk to each other only through files: findings JSON in, reports
and the history out. klend's instructions talk through accounts: every
instruction on a reserve reads and writes the same `Reserve`, most need it
refreshed in the same slot and leave it stale.

`PROJECT.json` lists every component with its status, and under `hazards` what
can go wrong at which line and which property looks for it.

## 2. Modules

| module | models | kind |
|---|---|---|
| `AuditLog` | what the audit history promises: an append-only log per program, each version once, but for two named faults | abstract specification |
| `AuditHistory` | `scripts/audit-history.sh`, one shell step per action | state machine |
| `AuditHistoryProofs` | theorems about `AuditHistory` | proofs |
| `Reserve` | the arithmetic of `state/reserve.rs` on a reserve record | operators |
| `ReserveTheorems` | sums over finite sets, what each operation of `Reserve` does to the record and to the exchange rate, types of `WithdrawalCaps` | proofs |
| `WithdrawalCaps` | the arithmetic of `withdrawal_cap_operations.rs` on a `WithdrawalCaps` record | operators |
| `WithdrawQueue` | the withdraw queue and every instruction that shares its reserve | state machine, extends `Reserve` and `WithdrawalCaps` |
| `WithdrawQueueProofs` | theorems about `WithdrawQueue` | proofs, extends `ReserveTheorems` |
| `WithdrawalCap` | one accumulator of a reserve, its settings and the clock | state machine, extends `WithdrawalCaps` |
| `WithdrawalCapLedger` | the same with a record of all movements by second | adds history to `WithdrawalCap` |
| `FlashLoan` | `flash_ixs.rs`, `ix_utils.rs` and both flash handlers, one transaction per behaviour | state machine, extends `Reserve` |
| `OutflowProofs` | theorems about `WithdrawalCap`, `WithdrawalCapLedger` and `FlashLoan` | proofs, extends `ReserveTheorems` |
| `DebtTrackers` | elevation groups and debt counters through every instruction on obligations | state machine, extends `Reserve` |
| `DebtTrackersProofs` | theorems about `DebtTrackers` | proofs, extends `ReserveTheorems` |
| `Position` | values, health, orders and liquidation of one obligation (`obligation.rs`, `liquidation_operations.rs`, `obligation_order_operations.rs`) | state machine, extends `Reserve` |
| `PositionProofs` | theorems about `Position` | proofs, extends `ReserveTheorems` |
| `FixedTerm` | borrow orders, rollovers and debt terms of one obligation | state machine, extends `Reserve` |
| `FixedTermProofs` | theorems about `FixedTerm` | proofs, extends `ReserveTheorems` |
| `Authority` | handovers of admin and market owner, transfer of an obligation | state machine |
| `MarketConfig` | roles, phases and validation of a market's and a reserve's settings | state machine |
| `Prices` | loading, checking, saving and using prices | state machine |
| `Access` | the switches on the path of every instruction that moves cTokens or debt | state machine |
| `AdministrationProofs` | theorems about `Authority`, `MarketConfig`, `Prices` and `Access` | proofs |
| `MC...` | instances for TLC | |

Operators named `..Late`, `..Unguarded`, `..Never` and the like, each marked
"Faulty variant", are deliberate mistakes. No specification uses them; putting
one in the place of the operator below it must violate a property, which shows
that the property can see that mistake.

### AuditHistory

A process runs one command at a time; `pc` says between which shell steps it
is. A shell test, a jq call, `rm` and `mv` are one step. `echo > file` is two:
opening truncates, writing follows, and a redirect opened on a file that was
since replaced by `mv` writes to the old file (`stale`). The history file is
`absent`, `empty` or `json` with a sequence of audits per program. An audit is
a version and a set of finding ids. `set -e` decides where a failing command
ends the process and where it does not: inside `if ! _jq_append_audit` it is
off, so a failing `mv` goes unnoticed; a failing test at the end of
`_release_lock` ends the process with status 1. `Crash` is `kill -9` at any
step; nothing in the script traps it.

Every jq call may fail, and so may `date`. Where `||` stands behind the call its
fallback answers: the test for the program says no (`has_program` goes to
`insert`), the test for the version finds nothing (`has_version` goes to
`append`), a reader is told that the version is not there, the finding ids come
out empty. Where nothing stands behind it `set -e` ends the process with jq's
status (`JQ_STATUS`): the `jq -n` that builds the entry, the severity counts of
`diff`. `blind` holds which test of the file an add under way was misled by, and
the history variable `repeated` the versions whose test failed while they were
there.

Left out: timestamps, commit hashes, severity counts, log lines, `list` and
`stats` (they only read), what `diff` prints.

### Reserve and WithdrawQueue

A `Fraction` is an integer multiple of `1/SF`, as in the code's `_sf` fields,
so that every floor and ceiling of the code is one in the model. A refresh
adds some interest, some of it as protocol fee, and distributes some rewards:
the amounts depend on rates and slots, and the model takes any amounts the code
could compute (`CanAccrue`).

One action is one successful instruction; a failing instruction is rolled back
by the runtime and changes nothing. Instructions that need the reserve
refreshed in the current slot and leave it stale are one step together with
the refresh before them. `SkipCancelledTicket`, `SkipInvalidTicket` and
`RedeemTicket` are the three ways through `withdraw_queued_liquidity`.
`wallet` holds all ctokens that are neither queued nor the seed deposit's:
those in token accounts and those deposited in obligations.

`cap` is the reserve's `deposit_withdrawal_cap`. Redemptions add to it, from the
wallet, by a liquidation or of the head of the queue, and are refused by it once it
is full; deposits are taken off again. Its settings may change at any time. How long ago its interval
began is all that counts of the time, so the clock stands at `Now` and
`TimePasses` moves the beginning back.

Left out: referrer fees, early-repay penalties, the cap on debt, permissions,
utilization and borrow limits (none of them is on the path of the head of the
queue; elsewhere each only refuses more), the callback to a vault program after
a redemption (`handler_withdraw_queued_liquidity.rs:165`; one that fails keeps
the head where it is), and everything on the obligation's side.

### WithdrawalCaps, WithdrawalCap and WithdrawalCapLedger

`caps` is the code's `WithdrawalCaps`; `MaxI64` stands for `i64::MAX`, so the
edges of the signed counter are a few units away. `Withdraw` and `Return` are
`add_to_withdrawal_accum` and `sub_from_withdrawal_accum` as the reserve's
operations call them: refused on overflow while the cap is on, saturating while
it is off. `net` and `steady` are history variables, what moved since the
interval began and whether the settings stayed the same. The ledger adds what
moved in each second, to compare fixed intervals with arbitrary spans of time.

### FlashLoan

A behaviour is one transaction, a sequence of instructions that `Init` chooses
freely. Each instruction is klend's own or another program's that calls klend.
`flash_borrow_checks` looks for repayments behind the borrow,
`flash_repay_checks` looks at the instruction the repayment names. A failing
check aborts the transaction and restores the accounts. Deposits, redemptions
and borrows run in between and price ctokens on the reserve as the loan left
it; `without` carries the same operations on a reserve without the loan.

### DebtTrackers

Each reserve keeps how much of it is borrowed outside elevation groups, and
how much is borrowed against it inside each group; each obligation keeps its
share of these counters. The model has both, and the `LastUpdate` of reserves
and obligations: `status` and `fresh` say what `is_stale` would. One action is
one instruction; operators that take and return `s` (all reserves and one
obligation) are the functions of `lending_operations.rs`, so an action composes
them in the code's order. `DepositAndWithdraw` is one step although it refreshes
in between, because its checks look at the end result only.
`handler_repay_and_withdraw_redeem` runs `Repay`, `RefreshReserve`,
`RefreshObligation` and `WithdrawCollateral` in a row, which the model does
too, with other steps in between allowed.

Left out because they only refuse more: values, health, prices, permissions,
liquidity. A liquidation may settle and withdraw any amounts. The settings of
markets and reserves are constant.

### Position

One obligation with its deposits, borrows, elevation group, orders and margin
call. `Values` is what a refresh computes; the obligation remembers in `valued`
the prices it was refreshed at, because a reserve may be refreshed again in the
slot and the obligation still passes as current. `get_liquidation_params` has
the reasons for a liquidation in the code's order (loan-to-value, margin call,
crossed limits, maturity, end of a term, the owner's orders), each with its
amount and its bonus. Fractions are integers over `SF` and round down where
`U68F60` does; amounts that leave the obligation are rounded as the code rounds
them.

Left out: interest on the debt (its price moves instead), permissions, caps and
liquidity, which only refuse.

### FixedTerm

One obligation with one borrow order, a slot per reserve, and the reserves'
terms and maturities. A debt falls due (`falls_due`) at the end of its term or at
the maturity of its reserve, each a reason for a liquidation of its own.
`SetBorrowOrder` carries the owner's expectation on the remaining amount;
`seen` and `unseen` are what the owner knows of the order and what was filled
since. `promised` is the earliest time the owner agreed to for a debt to fall
due, by the order, by its rollover settings or by borrowing directly. Rollovers
by anyone come in two forms, into the same reserve and into another. A fill is
promised the order's minimum term whatever the reserve's maturity; a rollover and
a direct borrow are promised their term or the reserve's maturity, whichever is
sooner, and a new maturity caps what was promised.

### Authority

The two-step handovers and the transfer of an obligation, which its owner
offers, the global admin approves and the new owner accepts. An approval is
signed for what the admin saw and lands later, or never; the owner may abort and
offer again in between, and place borrow orders all the time. `nominator` and
`consent` are history variables.

### MarketConfig

One market and one reserve. A step is one update of one setting by one of five
roles, a clone, or a use of the reserve, since the phase of a reserve (closed
and unused) decides who may do what and whether validation may be skipped. Kept
are the settings that others depend on.

### Prices

Two reserves with different oracles and an obligation over both. A message of an
oracle is an input with an age; `get_most_recent_price_and_twap` and
`price_checks` turn it into a price with flags. Flags and timestamps are saved
with the price, and an operation looks at them, not at the oracle. A Pyth price
below zero ends the instruction (`pyth_aborts`); it is not passed over for the
next oracle.

### Access

Every instruction of `lib.rs` that moves cTokens or debt, with the emergency
modes, statuses, blocked cTokens, disabled borrowing, permissions and switches of
the withdraw queue on its path, over balances that only count units. A market
starts with issuing, redeeming and cancelling tickets switched off, the code's
defaults. Limits and values are left out: here they never refuse, so that only
the switches do. `MaxSupplied` and `MaxOwed` bound what is tried.

## 3. Runs

| run | question | bounds |
|---|---|---|
| `history_concurrent` | what survives overlapping commands and kills; does every command end, and do all paths remove the lock file | 2 processes, 1 program, 2 versions, 3 commands, 1 kill, failing `mv` and jq, findings without ids: enough for two adds and an init to meet in every order |
| `history_sequential` | does one command at a time implement `AuditLog`, kills included | 2 programs, 2 versions, audits with and without ids, 4 commands, 1 kill, failing jq: three adds of one program, one of them misled, and a look at what they left |
| `queue_tickets` | do counters, tickets, totals and token accounts agree | 2 owners, 3 tickets, every destination state, three settings, whole amounts, no cap |
| `queue_rate` | do the roundings keep the rate and solvency; does the head move when liquidity and cap have room for it; does anyone else take the queue's liquidity | 1 owner, 2 tickets, half units, interest, fees, rewards, losses, a cap of 2 units for an interval of 1 second, of which 2 instants tell whether it ran out, turned on and off |
| `withdrawal_cap` | does the cap hold within an interval, over any span, and at the edges of the counter | counter of -3..2, interval of 2 seconds, 5 seconds, 2 changes of the settings |
| `flash_loan` | can any transaction keep a loan or profit from it | up to 4 of 18 instructions on 2 reserves: two loans and their repayments, or one with two operations in between |
| `debt_counters` | do counters and shares agree, and stay near the debts | 2 obligations, 2 reserves, 1 group, half units, one growth of the rate |
| `debt_groups` | do members of a group keep its rules | 1 obligation, 3 reserves, 2 groups with different debt reserves, partial withdrawals |
| `position_ltv` | do owners stay safe, do liquidations help, do orders keep their size | 2 collaterals, one with two prices, 1 debt, 1 group, two kinds of orders, 1 day |
| `position_term` | is debt past its term liquidated no faster than the throttle lets it | 1 collateral whose limit may be crossed, a debt with a term and one with a maturity, margin calls, 5 days: the end of the term and a throttle of 3 days |
| `fixed_term` | do debts run as long as their owner agreed to, and do orders ask for no more than it saw | a fixed and an open reserve, the open one maturing at the last instant and either to mature earlier, two orders, terms of 0, 1 and 2, 3 instants: a term, its end and a second one |
| `administration` | do roles, phases, prices and switches hold in any order of changes | 3 keys and 3 instants; 1 reserve, 5 roles and values on both sides of each validation; 2 priced reserves, 3 seconds, messages on both sides of each check; 2 reserves, each with at most one unit supplied and one owed, switches of the market and of one reserve, deposits restricted by the market and borrows by that reserve |

`administration` runs four components that share no variable: a behaviour is one
of them (`part`) while the others rest.

Types are checked in `queue_tickets` and `withdrawal_cap` on their own, and as
the first part of `NoTrace`, `GroupClosed`, `TermThrottle`, `IntegrityKept` and
`PricesYoung`. Types are proved for every state machine.

Deadlock checking is off: commands and instructions are bounded by the
constants, both systems may rest at any time, and an immutable market with an
unconfigured reserve stays as it is.

Fairness: `FairSpec` asks that a process that can take its next shell step
takes it. The operating system schedules every runnable process, and the only
wait in the script is a loop of one-second sleeps with a timeout. No fairness
is put on starting commands or on kills. klend has no scheduler of its own, so
its runs claim no liveness; that the head of the queue can move, that an
unhealthy position can be liquidated and that users can leave while the switches
let them are stated as invariants, with `ENABLED` or the guards themselves.

### What the properties make exceptions for

Where the code does less than one might expect, a property carries the exception
by name:

1. `UniqueUnlessOverlap`: `_acquire_lock` tests for the file and then creates it
   with a redirect that succeeds on an existing file, so two processes may enter
   and store one version twice. A version is also stored twice when the jq of its
   idempotent guard fails, for `|| echo ''` then says that it is not there
   (`repeated` has exactly these versions).
2. `LossNeedsRace`, `AckedUnlessEmpty` and `ImplementsLog`: when the jq that looks
   for the program fails, `|| echo 'false'` sends the add to the filter that
   inserts a new program, and every audit of the program is replaced by the new one,
   with status 0. The exception is for that add and that program (`Overwritten`);
   `AuditLog` has this fault and the repeated version as `Replace` and `Record`
   behind a `Fail`.
   `AckedUnlessEmpty` has a second one: `init` killed between truncation and write
   leaves an empty file. jq reads it without error and prints nothing, so a later
   `add` installs an empty file again and exits 0. The run keeps `mv` working: its
   status is not looked at, and an add whose `mv` fails exits 0 too.
3. `LockFreed`: a findings argument that jq parses but `--argjson` does not take,
   or another failure of a call without a fallback, ends `add` under `set -e` with
   the lock file in place; the next adds time out.
4. `QueueFirst` has a slack of one unit: a redemption rounds down for the user,
   which raises the exchange rate, and with it what the queue is worth, after
   the liquidity was checked.
5. `CaptureOfThisTerm`: the amount captured at the end of a term stays if the
   market owner prolongs or removes the term afterwards and the debt's owner
   borrows again.
6. `TermPromised`: a rollover into an unused slot of another reserve guarantees
   only the minimum term of the rollover settings, counted from the rollover, and
   not that: it compares the target's term (`lending_operations.rs:1156`) but not
   its maturity, which a fill does compare, so a rolled-over debt may fall due with
   the target's other debts. The market owner may set any maturity that is not in
   the past, with debts in the reserve.
7. `SwitchesObeyed`: `socialize_loss` has no emergency check (`EmergencyStep`);
   a rollover creates debt in a reserve whose borrows are restricted without the
   permissioner (`PermittedStep`); liquidations, cancelled and recovered tickets
   put cTokens in wallets while their use is blocked (`CTokenStep`).
8. `ExitOpen`: queued cTokens are paid out only while the market's
   `is_withdraw_ticket_redemption_enabled`, and come back to their owner only while
   `is_withdraw_ticket_cancellation_enabled`; with both off they wait.
9. `LiquidationHelps` leaves out a last debt that is worth less than one unit of
   the collateral: the liquidator takes the whole unit
   (`DUST_LAMPORT_THRESHOLD`).
10. `OrdersSupported` leaves out debt without collateral: after a liquidation
    took the last of it, orders on a price ratio stay although they no longer
    fit, until the owner deposits or the debt ends.
11. `TermThrottle` says nothing while the market sets no days for the throttle;
    a debt past its term may then be liquidated at once.

### What else came to light

- A head of the queue that is worth more than the capacity of the reserve's deposit
  cap cannot be redeemed whole, and not in parts if liquidity covers it: the code
  redeems as much as there is liquidity for, and the cap refuses that. The tickets
  behind it wait until its owner cancels or the settings change
  (`CoveredHeadMoves` asks for room in the cap).
- A jq that fails on the finding ids of an add leaves `[]` in the entry, and
  nothing says so.
- After a partial rollover from a fixed to an open reserve the target slot has
  default rollover settings, so the rest of the debt cannot follow into it.
- Raising `min_initial_deposit_amount` makes a reserve that holds others'
  deposits count as unused; once it is closed its settings can be changed
  without validation, also by the proposer.
- A borrow limit of 0 set by the emergency council is refused by validation as
  long as a limit outside elevation groups is set.
- A change of the market's elevation group is not validated against the
  reserves in it.
- A clone made by the owner lifts the lock on the proposer; in initialization
  the proposer may set the fees otherwise reserved to the global admin;
  `init_reserve` is not refused in an immutable market.
- After the approval of a transfer its owner can no longer abort it; stop-loss
  orders and rollover settings pass to the new owner.
- A negative price of a Pyth account panics in `validate_pyth_confidence`, where any
  other bad price lets the next oracle answer.
- `block_price_usage` takes effect at the next load of a price. A bad status
  stays until the saved price reaches the age that triggers a refresh, a saved
  price may be replaced by an older one, and a timestamp ahead of the clock
  counts as age 0. A Switchboard feed that is the most recent but too uncertain
  yields no price instead of the next oracle's.
- The restricted operations of a reserve have no effect in a market without a
  permissioner.

## 4. Proofs

Every theorem holds for all values of the constants that the named assumptions
of the modules allow: any number of processes, reserves, owners, obligations,
tickets or seconds, any amounts, any scale `SF` of fractions. Each rests on an
inductive invariant, which TLC checked on the instances of the runs before it
was proved. `PROJECT.json` lists the theorems with the property each one states.

### Sums and the reserve: `ReserveTheorems`

Totals and counters are written with `SumFunctionOnSet` of the community
modules, which is defined by recursion over the subsets of a set. Induction over
data is out of the prover's reach, so the laws of sums are proved by a detour
(`SumIsUnits`): a sum of natural numbers is the cardinality of the set that has
`f[x]` units for each `x`. The cardinality satisfies the recursion, and a
recursion on finite subsets has one solution, for two that differ would differ
on a smallest set. Adding, removing or changing an element and comparing two
sums then follow from facts about cardinalities.

The other half says for every operation of `Reserve` which fields it changes and
how, and what its rounding does to the exchange rate, multiplied out so that no
quotient is left: on a sound reserve (assets for its cTokens) no operation but a
loss lets the rate fall, and all keep it sound.

### Audit history: `AuditHistoryProofs`

For any number of processes, programs, versions, commands, kills and failing
calls:

- `Typing`: `TypeOK` is an invariant.
- `LockedInvariant`: `LockedInv` is an invariant. Uniqueness of versions is not
  inductive: the step that appends relies on a version test made earlier, and
  the step that renames relies on a file built earlier. `LockedInv` adds what
  each of these labels knows about the file, mutual exclusion of the locked
  part, and that an init that has opened its redirect still faces an empty
  file or has been cut off from it. All but the last hold as long as `overlap`
  is FALSE. Where a fallback may have answered a test, the label knows only that
  or that the answer is true (`ReadsStillHold`).
- `GuardUnlessOverlap` and `NoSilentLoss` follow: a version is doubled only after
  an overlap of two locked parts or a failed test for that version, an audit lost
  only after an overlap, in the truncation by an unlocked init, or in the rename of
  an add whose test for that program failed.

For one command at a time (`SeqSpec`), with `SeqInv`: whatever the one running
process has learnt about the file is still so, label by label (`Learnt`), and the
file it is about to install is the present one with one audit more, or the
present one if that is empty (`Prepared`).

- `SequentialLog`: `SeqSpec` implements `AuditLog`, with the tests that misled an
  add under way for `failed`. The initial file is an empty log; `Rename` is the
  abstract `Record` or, after a failed test for the program, `Replace`; a test that
  fails is `Fail`, the end of a misled add `GiveUp`; every other step, kills
  included, is a stutter.
- `AcknowledgedKept`: an add that exited 0 stays recorded, unless the file is
  empty or a misled add of the same program replaced its list. `AckInv` adds that nothing is acknowledged before the file exists and
  that status 0 is decided only with the version in the file. The theorem
  assumes `~MvMayFail`: the script ignores the status of `mv`.

### Withdraw queue: `WithdrawQueueProofs`

Types, `TicketWindow`, `QueueBacked` and `NeverUnderwater` are proved together,
because no one of them is inductive: a redemption does not underflow because the
queue's total covers its head, which needs the total to be the sum of the
tickets between the two counters, which needs nothing valid to wait outside
them. `Inv` has the types, the window of waiting tickets, the total as a sum over
the window, each owner's vault as the sum of the owner's tickets, the supply of
cTokens as the seed plus all holdings, the supply vault as what is available plus
rewards, and that the reserve has assets. The seed's cTokens are never redeemed,
so no redemption takes the last assets. `CapInv` adds that the cap's counter is in
its range and its interval did not begin in the future; each instruction leaves the
cap alone, adds to it or takes off it (`CapStep`).

`RateHolds` (`RateNeverDrops`) and `FirstServed` (`QueueFirst`) follow from `Inv`
and the lemmas on rounding in `ReserveTheorems`, one per instruction; the unit of
slack in `QueueFirst` is exactly what rounding a redemption adds to the queue's
worth.

### Withdrawal caps: `OutflowProofs`

For every width of the integers, all settings and amounts and any length of time:

- `CapTyping`: the counter stays in its signed range. What counting does to an
  accumulator is a lemma of `ReserveTheorems`, which the withdraw queue uses too.
- `CapHolds`: while the settings stay, the counter is exactly what moved since
  the interval began, and that is at most the capacity.
- `RemainingExact`: a withdrawal is accepted exactly when it is at most the
  amount `remaining_withdrawal_caps_amount` reports, although the report is made
  before the interval is rolled over and the check after it. It needs the
  typing and that no interval starts in the future.
- `WindowHolds` (`SlidingWindow`): the bound over a span that fits no interval.
  `LedgerInv` says of the recorded movements that the counter is the balance of
  the interval that is open (`Present`), that what left at the end of the one
  before is bounded from any second on (`Past`), that nothing moves in an interval
  that ran out (`Expired`), and that nothing is recorded for the future. The
  interval that was open when the settings changed is not bounded, which is why
  the settings must have been in force for two intervals. A span touches at most
  two intervals, and so gets at most twice the capacity.

### Flash loans: `OutflowProofs`

For transactions of any length and any instructions:

- `LoansRepaid`: a committed transaction has given every loan back.
- `OneLoan`: no two reserves have a loan open together.
- `LoanLeavesNoTrace` (`NoTrace`): the reserve differs from the one without the
  loan by exactly the amount lent, moved from what is available to what is
  borrowed, so it has the same assets, the same exchange rate and the same
  cTokens after any deposits, redemptions and borrows in between.

The first two are not inductive: a loan is repaid in time because of instructions
that have not run yet. The invariant `Pairing` says what the checks knew: every
executed flash instruction passed its check, and what is outstanding is nothing
or exactly the amount of an executed borrow that no executed repayment follows.
The borrow's check found its repayment further on, so the transaction cannot
end there. For the third, `Apart` relates the two reserves field by field and is
kept by each operation. It needs the reserves to be sound, which the constants
assume of the reserves a transaction starts with: they have assets and cTokens,
as the seed deposit leaves them.

### Debt counters and groups: `DebtTrackersProofs`

For any obligations, reserves, groups, amounts and rates:

- `CountersExact` (`CountersAgree`): each counter of a reserve is the sum of the
  obligations' shares.
- `NeverDrifts` (`NoDrift`): a share is within a unit of the debt it stands for.
- `GroupsClosed` (`GroupClosed`), with the types.

An instruction works on one obligation and all reserves, a book. `Others` says
that an operation changes each counter by what it changes of the obligation's own
share, so that the other obligations' part of the sum is untouched. This fails if
any `saturating_sub` saturates, so it is proved together with the fact that a
share is part of its counter. `NoDrift` is not inductive: two roundings in a row
would drift by two. `Shares` says that shares are exact while the obligation is
fresh and within one unit when it is not; an instruction starts fresh and rounds
once. `Inv` adds `Orderly` (default entries have no share, an obligation has
shares outside groups or inside, never both) and `Rated` (a debt was compounded at
a rate the reserve had).

### Obligations and liquidation: `PositionProofs`

For any reserves, settings, elevation groups, prices, orders, amounts and days:

- `PositionTyping` (`TypeOK`, the first part of `TermThrottle`).
- `OrdersSettleTheirSize` (`OrderSizeRespected`), `OrdersFollowDebts`
  (`OrdersSupported`) and `TermsThrottled` (`TermThrottle`).
- `UnhealthyIsLiquidatable` (`LiquidationPossible`).
- `LiquidationsHelp` (`LiquidationHelps`), for `SF >= 10000`; a `Fraction` has
  `SF = 2^60`.
- `OwnersStaySafe`: `SafeStaysSafe` for every step but a liquidation.

The settings are within what validation bounds them to (`MarketSettings`,
`ReserveSettings` and `GroupSettings`, which `PositionAssumption` uses).

The first three are not inductive. What was settled for an order says nothing of
the next settlement without what the order has left; orders fit until something
else adds or removes an entry; and the throttle measures by what was captured when
the term ended, which must still be about the same debt.

`Inv` is `Kept` with the types of prices, days and limits, and `Kept` says

- `Sane`: types, valid orders, and for each debt `Captured`: what is left and what
  was settled for the term are together within what was owed when it ended, what
  was settled is within the share of the days gone by (`ThrottledBy`), and a
  refreshed debt past its term has been captured;
- `Logged`: what liquidators settled for an order and what it is still good for
  are together within what its owner put in it;
- `Fits`: the orders fit the debts and collateral unless the debt has no
  collateral.

TLC checked `Inv` on both instances. `Stable` also proves of each step that it
takes the orders with the last debt (`Cleared`), which no state shows.

`UnhealthyIsLiquidatable` finds the pair: among the debts the one with the
highest borrow factor, among the collateral the one with the lowest threshold.
Both maximum and minimum are over the entries that are not too small to count
and start from a default, so the proof also has to find an entry when none
counts: a sum of values that is not zero has a part that is not.

`LiquidationsHelp` is about products of rounded quotients. With the loan-to-value
`x`, below 99 %, no reason gives a bonus above `1 - x` (`to_bad_debt`), so the
collateral taken for a unit of debt is at most `2 - x` units, and `(2 - x) x` is
`1 - (1 - x)^2`. What is missing to 1 is at least a 10000th, and the rounding of
`x` is less than that once a Fraction is as fine as `SF >= 10000`.

`OwnersStaySafe` needs `Margin`: the LTV up to which one may borrow is below the
liquidation threshold by more than a rounding, for each reserve and each group
that lends at all. Validation (`lending_operations.rs:4344`) only asks that it is
not above; with both equal, a borrow may end exactly at the threshold. Under
`Margin` what may be borrowed is at least two units below what makes unhealthy as
long as anything may be borrowed, which is what the checks before a change can be
wrong by. Each operation is then shown to keep the sum of its own check: the
withdrawal's `max_withdraw_value`, the borrow's remaining value, the comparison
after both swaps, the values in the new group.

### Borrow orders and terms: `FixedTermProofs`

- `SettingsKeepIntegrity` (`IntegrityKept`), `TermsArePromised` (`TermPromised`),
  `NoUpdateIsBlind` (`NoBlindUpdate`) and `CapturesOfThisTerm`
  (`CaptureOfThisTerm`), for any reserves, markets, orders and instants.

`Inv` is the conjunction of types, whole slots, a whole order, kept promises and
`SeenBound`: what remains of the order and what was filled unseen are together no
more than what the owner saw. Kept promises speak of the end of terms; that
nothing is promised beyond the maturity of a reserve is `WithinMaturity`, which
follows at a fill from the order's check of the maturity, and both together give
`TermPromised`. The last makes `NoBlindUpdate` provable: an order may
be filled up, expire and be replaced between two looks.

### Handovers, settings, prices and switches: `AdministrationProofs`

`Authority`, for any set of keys and any length of time: the types,
`TransferAgreed`, `OrderOfOwner` and `NomineeOfHolder` (whoever may take over was
nominated by the present holder). Each is inductive together with the types:
nominations are written with their nominator, an approval that lands names the
pending owner of that moment, and the obligation changes hands only without an
order.

`MarketConfig`, for any values the roles may try and any configurations to clone
from: the types, `OpenReserveSound` and `ProposerConfined`, and three properties
that no run needs to repeat: `RolloverHasMinimum`, `ProtocolShareHeld` and
`ImmutableFrozen`. That an open reserve is sound is not inductive: a redemption
might empty it. The invariant `Seeded` says that the smallest initial deposit is
never below the program's, that a reserve that was supplied holds its initial
deposit, and that one that does not exist holds nothing.

`Prices`, for any oracle messages, settings and instants: `PricesYoung`
(`PricesAreYoung`). A saved price carries flags that were right when it was saved,
and `current`, which only a refresh sets and any change of the settings or the
clock clears. `PricesInv` says that a current price with the flags of its checks is
young enough for the settings in force now, that one that may be used although its
reserve is blocked was loaded before the block, and that the prices an obligation
counted were young when it counted them.

`Access`, for any number of reserves, balances and switch values: the types and
`SwitchesObeyed`, disabled borrowing and the queue's switches included. `Guarded` says what one step owes to each reserve; each
instruction is shown to be guarded from its own checks and its own effect on the
ledger.

### Only model-checked

- The liveness properties of the history (`CommandReturns`, `LockFreed`), and
  `CoveredHeadMoves` and `ExitOpen`, which use ENABLED: out of the prover's reach.
- `SafeStaysSafe` across a liquidation by an order, a margin call, an end of term
  or a maturity: whether a healthy obligation stays healthy then depends on
  settings the code does not relate ((1 + bonus) times the threshold at most 1)
  and on the whole unit of collateral that rounding may take. The instances have
  such settings.

## 5. Not modelled

- The contents of oracle accounts, and everything else read from other programs:
  inputs of the models.
- Interest rate curves: a refresh adds any interest the code could compute.
- Farms, referrals, token transfers, the callback to a vault program: bookkeeping
  for or calls of external programs; one that fails fails the instruction.
- Settings on which no other setting, phase, role or check depends: their updates
  are single assignments.
- The client interface (`libs/klend-interface`): it builds instructions and keeps
  no state.
- `pre-commit-audit.sh`, `fix-verification.sh`: one process each, without state
  between runs; what they do is decided by the text they match and by the exit
  statuses of cargo and anchor.
- Triage, fix suggestions, reports, exports, dashboards: text and numbers
  computed from findings, without state.
- Program discovery and tool runners: what they do is decided by the tools.
- Installer, packaging, example programs, prompts and guides.

## 6. Plan

Theorems: which relation of bonus, threshold and dust makes `SafeStaysSafe` hold
across liquidations, as a hypothesis like `Margin`.

Modules: referrer fees and the fees of early repayment in `Reserve`, and the
vault callback as a fault of the withdraw queue's redemption.

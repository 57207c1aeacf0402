--------------------------- MODULE MCWithdrawQueue ---------------------------
(* Small instances of WithdrawQueue for TLC.                               *)
EXTENDS WithdrawQueue, TLC

CONSTANTS alice, bob

QuietAccruals == {NoAccrual}
\* Nothing, interest with and without a protocol share, rewards.
MixedAccruals ==
    {NoAccrual, [interest |-> 1, fee |-> 0, reward |-> 0],
     [interest |-> 2, fee |-> 2, reward |-> 0], [interest |-> 0, fee |-> 0, reward |-> 1]}

OpenQueue == {"issuance", "redemption", "cancellation"}
AlwaysOpen == {OpenQueue}
EverySetting == {OpenQueue, OpenQueue \cup {"emergency"}, {"redemption", "obsolete"}}

NoCap == {[capacity |-> 0, interval |-> 0]}
\* Turned on and off.
OptionalCap == {[capacity |-> 2, interval |-> 1]} \cup NoCap

Symmetry == Permutations(Owner)
=============================================================================

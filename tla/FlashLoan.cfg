SPECIFICATION FlashSpec
CONSTANTS
    usdc = usdc  sol = sol
    ReserveId = {usdc, sol}
    SF = 2
    Tried <- MixedInstructions
    Opening <- OneOpening
    MaxLength = 4
INVARIANT CommittedRepaid
INVARIANT NoTrace
CHECK_DEADLOCK FALSE

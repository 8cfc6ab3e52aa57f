SPECIFICATION FairSpec
CONSTANTS
    Pubkeys = {k1, k2}
    Outputs <- TwoOutputs
    NoKey = NoKey
    Confirmations = 2
    Amounts = {1}
    MaxHeight = 3
    MaxAddresses = 2
    MaxCalls = 1
    MaxPushed = 1
    MaxRestarts = 1
INVARIANTS TypeOK CreditedOncePerConfirmation DepositsAccounted SpendableBacked
PROPERTY DepositSettles
CHECK_DEADLOCK FALSE

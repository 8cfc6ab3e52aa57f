SPECIFICATION Spec
CONSTANTS
    Pubkeys = {k1, k2}
    Outputs <- OneOutput
    NoKey = NoKey
    Confirmations = 1
    Amounts = {1}
    MaxHeight = 2
    MaxAddresses = 2
    MaxCalls = 1
    MaxPushed = 1
    MaxRestarts = 0
INVARIANT CreditCreatesBalance
CHECK_DEADLOCK FALSE

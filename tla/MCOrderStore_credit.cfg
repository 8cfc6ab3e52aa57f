SPECIFICATION Spec
CONSTANTS
    Pubkeys = {k1, k2}
    CoinList <- TwoCoins
    Configurations <- BothCoins
    UpdateSetsTime = TRUE
    Amounts = {1, 2}
    MaxOrders = 2
    MaxDeposit = 3
    MaxWithdrawal = 0
    MaxTime = 0
CHECK_DEADLOCK FALSE
PROPERTY BuyerGetsWhatSellerGives

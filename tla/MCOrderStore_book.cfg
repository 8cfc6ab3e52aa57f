SPECIFICATION FairSpec
CONSTANTS
    Pubkeys = {k1, k2}
    CoinList <- TwoCoins
    Configurations <- CoinAdded
    UpdateSetsTime = TRUE
    Amounts = {1, 2}
    MaxOrders = 3
    MaxDeposit = 3
    MaxWithdrawal = 1
    MaxTime = 1
INVARIANTS TypeOK NoCrossedBook CreditsHaveRows QuoteConserved LimitHonoured SellerNotOverpaid OnlyPlacerPays
PROPERTIES TimePriority ImplementsExchange PlacementEnds
CHECK_DEADLOCK FALSE

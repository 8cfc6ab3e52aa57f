SPECIFICATION FairSpec
CONSTANTS
    s1 = s1
    s2 = s2
    Submissions = {s1, s2}
    Order <- MCOrder
    OrderChanSize = 1
    MaxID = 4
    MaxRestarts = 1
INVARIANTS TypeOK CommitmentExact ChainLinked
PROPERTIES ImplementsChain EveryPuzzleHandled EveryTickCommits
CHECK_DEADLOCK FALSE

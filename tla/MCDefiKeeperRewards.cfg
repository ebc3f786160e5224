CONSTANTS
    a1 = a1
    a2 = a2
    Accounts <- MCAccounts
    Defis <- MCDefis
    GenesisDefis <- MCGenesisDefis
    WithdrawAddrMsgs <- MCWithdrawAddrMsgs
    Precision = 1
    GenesisStake = 2
    InitialBalance = 1
    Amounts = {1}
    MinSelfValues = {1, 2}
    MarketRates = {5}
    CommissionRate = 5
    MarketRate = 5
    CommunityTax = 1
    MintInflation = 5
    UnbondingTime = 1
    MaxHeight = 1
    MaxEntries = 2
    MaxPeriod = 4
    MaxSupply = 9
SPECIFICATION Spec
CONSTRAINT HeightBound
INVARIANT TypeOK HistoricalRatioMonotone StakeNotAboveCurrent CanWithdraw ModuleSolvency RewardQueriesMatchWithdraw
PROPERTY HistoricalImmutable

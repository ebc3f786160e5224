CONSTANTS
    a1 = a1
    a2 = a2
    Accounts <- MCAccounts
    Defis <- MCDefis
    GenesisDefis = {}
    WithdrawAddrMsgs = {}
    Precision = 1
    GenesisStake = 1
    InitialBalance = 2
    Amounts = {1}
    MinSelfValues = {1}
    MarketRates = {5}
    CommissionRate = 5
    MarketRate = 5
    CommunityTax = 1
    MintInflation = 5
    UnbondingTime = 1
    MaxHeight = 3
    MaxEntries = 2
    MaxPeriod = 5
    MaxSupply = 4
SPECIFICATION LiveSpec
PROPERTY MatureEntriesPaid
CHECK_DEADLOCK FALSE

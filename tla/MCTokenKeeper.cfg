CONSTANTS
    a1 = a1
    a2 = a2
    tokenModule = tokenModule
    feeCollector = feeCollector
    defiModule = defiModule
    noOwner = noOwner
    Accounts <- MCAccounts
    TokenModule <- tokenModule
    FeeCollector <- feeCollector
    DefiModule <- defiModule
    BlockedAddrs <- MCBlockedAddrs
    NoOwner <- noOwner
    Denoms <- MCDenoms
    GenesisTokens <- MCGenesisTokens
    IssueMsgs <- MCIssueMsgs
    FeeDenom <- stake
    BondDenom <- stake
    IssueFee = 2
    TokenTax = 5
    MintFeeRatio = 5
    DefaultSendEnabled = TRUE
    MaximumAmount = 1000
    GenesisBalance = 2
    Amounts = {1}
    MaxMinted = 5
    MultiMsgTxs <- MCMultiMsgTxs
SPECIFICATION Spec
INVARIANT TypeOK SupplyCap TokenQueriesConsistent AnteFeeSufficient TokenExportRestores
PROPERTY RegistryRefinement

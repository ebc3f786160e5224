----------------------------- MODULE TokenKeeper -----------------------------
(***************************************************************************)
(* The x/token keeper (keeper/keeper.go, send.go, store.go, rules.go,      *)
(* view.go) and its message server, as operators from a store record to   *)
(* the store they leave, with the bank keeper it drives reduced to the    *)
(* balances, the stored supply and the send-enabled parameters it writes. *)
(* A token is a record: symbol, smallest unit, total supply, mintable and *)
(* owner; name and decimals are left out, no operation branches on them.  *)
(* Symbols and units are strings of one namespace (Denoms), so one        *)
(* token's symbol may be another's unit, as in the code; a string is the  *)
(* sequence of its one-character strings, so that the validation regexps  *)
(* of types/validation.go can be stated over it.                          *)
(***************************************************************************)
EXTENDS Integers, FiniteSets, TLC
LOCAL INSTANCE SequencesExt

CONSTANTS
    Accounts,          \* user accounts, which sign messages
    TokenModule,       \* the token module account (minter and burner)
    FeeCollector,      \* the fee collector module account
    DefiModule,        \* the defi module account, MintTokenWithUnit's recipient
    BlockedAddrs,      \* GetBlockedAddress: module accounts users may not name
    NoOwner,           \* the empty owner string of an owner-less token
    Denoms,            \* strings that may be a symbol or a smallest unit
    FeeDenom,          \* Params.IssueFee.Denom
    IssueFee,          \* Params.IssueFee.Amount
    TokenTax,          \* Params.TokenTax, in tenths
    MintFeeRatio,      \* Params.MintFeeRatio, in tenths
    DefaultSendEnabled, \* the bank's default for a denom without a SendEnabled entry
    MaximumAmount,     \* types.MaximumAmount (math.MaxUint64)
    GenesisTokens,     \* GenesisState.Tokens
    GenesisBalance,    \* bank genesis: FeeDenom coins of every account
    IssueMsgs,         \* MsgIssueToken values a user may send
    Amounts,           \* amounts of MsgMintToken, MsgBurnToken and MintTokenWithUnit
    BondDenom,         \* the unit the defi module mints through MintTokenWithUnit
    MaxMinted,         \* bound on the coins ever minted of every denom
    MultiMsgTxs        \* message lists a transaction of several messages may carry

Modules == {TokenModule, FeeCollector, DefiModule}
Addrs == Accounts \cup Modules

None == "none"
PanicKinds == {"PanicUint64OutOfBound"}
Abort(s, e) == IF s.err = None THEN [s EXCEPT !.err = e] ELSE s
(* Then(s, op): op applied to s, which is evaluated once, unless s failed. *)
Then(s, op(_)) == CHOOSE r \in {IF t.err = None THEN op(t) ELSE t : t \in {s}} : TRUE
Lookup(f, k, zero) == IF k \in DOMAIN f THEN f[k] ELSE zero

-----------------------------------------------------------------------------
(* Bank keeper: a failing send or burn leaves an error and the caller      *)
(* returns it.  minted is a history variable, not store state: everything  *)
(* MintCoins ever created, per denom.                                      *)
Bal(s, a, d) == s.balances[<<a, d>>]
SendCoins(s, from, to, d, amt) ==
    IF Bal(s, from, d) < amt THEN Abort(s, "ErrInsufficientFunds")
    ELSE [s EXCEPT !.balances = [@ EXCEPT ![<<from, d>>] = @ - amt, ![<<to, d>>] = @ + amt]]
MintCoins(s, m, d, amt) ==
    [s EXCEPT !.balances[<<m, d>>] = @ + amt, !.supply[d] = @ + amt, !.minted[d] = @ + amt]
BurnCoins(s, m, d, amt) ==
    IF Bal(s, m, d) < amt THEN Abort(s, "ErrInsufficientFunds")
    ELSE [s EXCEPT !.balances[<<m, d>>] = @ - amt, !.supply[d] = @ - amt]

-----------------------------------------------------------------------------
(* Validation (types/validation.go, types/msgs.go, types/params.go).      *)
(* Addresses are model values and always parse; name and decimals are     *)
(* not modelled, so their checks are left out.                            *)
MinimumSymbolLen == 3
MaximumSymbolLen == 64
LowerLetters == {"a", "b", "c", "d", "e", "f", "g", "h", "i", "j", "k", "l", "m",
                 "n", "o", "p", "q", "r", "s", "t", "u", "v", "w", "x", "y", "z"}
DigitChars == {"0", "1", "2", "3", "4", "5", "6", "7", "8", "9"}
keywords == {<<"p", "e", "g">>, <<"i", "b", "c">>, <<"s", "w", "a", "p">>}

(* ^[a-z][a-z0-9]{2,63}$ and ^(peg|ibc|swap).*                            *)
regexpSymbol(d) ==
    /\ Len(d) \in MinimumSymbolLen..MaximumSymbolLen
    /\ d[1] \in LowerLetters
    /\ \A i \in 2..Len(d) : d[i] \in LowerLetters \cup DigitChars
regexpKeyword(d) == \E w \in keywords : IsPrefix(w, d)

ValidateSymbol(d) == regexpSymbol(d) /\ ~regexpKeyword(d)
ValidateSmallestUnit(d) == regexpSymbol(d) /\ ~regexpKeyword(d)
ValidateAmountGTZero(amt) == amt > 0

(* Token.Validate: symbol, unit, and a total supply not below the initial *)
(* one.                                                                   *)
ValidateToken(t) ==
    /\ ValidateSymbol(t.symbol)
    /\ ValidateSmallestUnit(t.unit)
    /\ t.totalSupply >= t.initialSupply

(* Params.Validate: the two rates within [0, 1], a non-negative fee.       *)
validateRate(v) == 0 <= v /\ v <= 10
ValidateParams == validateRate(TokenTax) /\ validateRate(MintFeeRatio) /\ IssueFee >= 0

-----------------------------------------------------------------------------
(* Fees (keeper/rules.go).  getFactor is (ln(len)/ln 3)^4 in float64,     *)
(* printed with two decimals and parsed back as a Dec; FactorTable holds  *)
(* what that conversion yields, in hundredths, for lengths 1 to 8.        *)
FactorTable == <<0, 16, 100, 254, 461, 708, 984, 1284>>
getFactor(sym) == FactorTable[Len(sym)]

(* fees = IssueFee / factor; more than one is truncated, otherwise one.   *)
calcIssueTokenFee(sym) ==
    IF IssueFee * 100 > getFactor(sym) THEN (IssueFee * 100) \div getFactor(sym) ELSE 1

GetMintTokenFee(sym) == (calcIssueTokenFee(sym) * MintFeeRatio) \div 10

(* handleFees: the fee goes to the module, the tax on to the fee          *)
(* collector, and the rest is burned.                                     *)
handleFees(s, from, fee) ==
    LET tax == (fee * TokenTax) \div 10 IN
    Then(SendCoins(s, from, TokenModule, FeeDenom, fee), LAMBDA u :
      Then(SendCoins(u, TokenModule, FeeCollector, FeeDenom, tax), LAMBDA v :
        BurnCoins(v, TokenModule, FeeDenom, fee - tax)))

DeductIssueTokenFee(s, owner, sym) == handleFees(s, owner, calcIssueTokenFee(sym))
DeductMintTokenFee(s, owner, sym) == handleFees(s, owner, GetMintTokenFee(sym))

-----------------------------------------------------------------------------
(* Token store (send.go, store.go, view.go).                              *)
NewToken(sym, unit, init, total, mintable, owner) ==
    [symbol |-> sym, unit |-> unit, mintable |-> mintable, owner |-> owner, initialSupply |-> init,
     totalSupply |-> IF total # 0 THEN total ELSE IF mintable THEN MaximumAmount ELSE init]

hasIssuedToken(s, t) == t.symbol \in DOMAIN s.tokens \/ t.unit \in DOMAIN s.units
hasToken(s, t) == hasIssuedToken(s, t) \/ s.supply[t.symbol] > 0 \/ s.supply[t.unit] > 0

(* addToken: token by symbol, symbol by unit, symbol by owner (when there *)
(* is one), and the bank's denom metadata for the unit.                   *)
addToken(s, t) ==
    [s EXCEPT !.tokens = (t.symbol :> t) @@ @, !.units = (t.unit :> t.symbol) @@ @,
              !.ownerSymbols = IF t.owner = NoOwner THEN @ ELSE @ \cup {<<t.owner, t.symbol>>},
              !.denomMeta = (t.unit :> t.symbol) @@ @]

AddToken(s, t) == IF hasToken(s, t) THEN Abort(s, "ErrSymbolAlreadyExists") ELSE addToken(s, t)
AddIssuedToken(s, t) == IF hasIssuedToken(s, t) THEN Abort(s, "ErrSymbolAlreadyExists") ELSE addToken(s, t)

AddBurnedCoin(s, unit, amt) == [s EXCEPT !.burnt = (unit :> Lookup(@, unit, 0) + amt) @@ @]

IsUnlocked(s, d) == Lookup(s.sendEnabled, d, DefaultSendEnabled)
unlockToken(s, d, unlocked) == [s EXCEPT !.sendEnabled = (d :> unlocked) @@ @]

(* Faulty variant: the old owner's index key is not deleted.              *)
resetTokenOwnerKeepOld(s, sym, old, new) == [s EXCEPT !.ownerSymbols = @ \cup {<<new, sym>>}]
resetTokenOwner(s, sym, old, new) ==
    [s EXCEPT !.ownerSymbols = (@ \ {<<old, sym>>}) \cup {<<new, sym>>}]

mintCoinsToAccount(s, to, d, amt) ==
    Then(MintCoins(s, TokenModule, d, amt), LAMBDA u : SendCoins(u, TokenModule, to, d, amt))
mintCoinsToModule(s, to, d, amt) ==
    Then(MintCoins(s, TokenModule, d, amt), LAMBDA u : SendCoins(u, TokenModule, to, d, amt))
burnCoins(s, from, d, amt) ==
    Then(SendCoins(s, from, TokenModule, d, amt), LAMBDA u : BurnCoins(u, TokenModule, d, amt))

(* getTokenBySymbol's not-found error, or the owner check of a handler.   *)
CheckToken(s, sym) == IF sym \notin DOMAIN s.tokens THEN Abort(s, "ErrTokenNotExists") ELSE s
CheckOwner(s, sym, owner) ==
    Then(CheckToken(s, sym), LAMBDA u :
      IF u.tokens[sym].owner # owner THEN Abort(u, "ErrInvalidOwner") ELSE u)

-----------------------------------------------------------------------------
(* BaseKeeper operations (keeper/keeper.go).                              *)

(* IssueToken: add the token, set its send-enabled flag when it differs   *)
(* from the current one, and mint the initial supply to the owner.        *)
IssueToken(s, m) ==
    LET t == NewToken(m.symbol, m.unit, m.initialSupply, m.totalSupply, m.mintable, m.owner) IN
    Then(AddToken(s, t), LAMBDA u :
      LET v == IF m.unlocked # IsUnlocked(u, t.unit) THEN unlockToken(u, t.unit, m.unlocked) ELSE u
      IN mintCoinsToAccount(v, m.owner, t.unit, m.initialSupply))

EditToken(s, sym, mintable, owner) ==
    Then(CheckOwner(s, sym, owner), LAMBDA u :
      [u EXCEPT !.tokens[sym].mintable = mintable])

(* getMintCoins: the mintable amount is the total supply less the unit's  *)
(* bank supply and its burnt coins; sdk.Int.Uint64 panics when that is    *)
(* negative.                                                              *)
(* Faulty variants: burnt coins are not subtracted from the mintable      *)
(* amount; the mintable flag is not looked at.                            *)
getMintCoinsIgnoreMintable(s, t, amt) ==
    LET mintable == t.totalSupply - s.supply[t.unit] - Lookup(s.burnt, t.unit, 0) IN
    IF mintable < 0 THEN Abort(s, "PanicUint64OutOfBound")
    ELSE IF amt > mintable THEN Abort(s, "ErrInvalidAmount")
    ELSE s
getMintCoinsIgnoreBurnt(s, t, amt) ==
    IF ~t.mintable THEN Abort(s, "ErrNotMintable")
    ELSE IF amt > t.totalSupply - s.supply[t.unit] THEN Abort(s, "ErrInvalidAmount")
    ELSE s
getMintCoins(s, t, amt) ==
    LET mintable == t.totalSupply - s.supply[t.unit] - Lookup(s.burnt, t.unit, 0) IN
    IF ~t.mintable THEN Abort(s, "ErrNotMintable")
    ELSE IF mintable < 0 THEN Abort(s, "PanicUint64OutOfBound")
    ELSE IF amt > mintable THEN Abort(s, "ErrInvalidAmount")
    ELSE s

(* MintToken as the message server calls it: the owner is always given,  *)
(* and the recipient is a parsed, non-empty address.                      *)
MintToken(s, sym, amt, to, owner) ==
    IF amt = 0 THEN s
    ELSE Then(CheckOwner(s, sym, owner), LAMBDA u :
           Then(getMintCoins(u, u.tokens[sym], amt), LAMBDA v :
             mintCoinsToAccount(v, to, v.tokens[sym].unit, amt)))

(* MintTokenWithUnit: the owner-less mint of another module, by unit.     *)
MintTokenWithUnit(s, unit, amt, to) ==
    IF amt = 0 THEN s
    ELSE IF unit \notin DOMAIN s.units THEN Abort(s, "ErrTokenNotExists")
    ELSE Then(CheckToken(s, s.units[unit]), LAMBDA u :
           Then(getMintCoins(u, u.tokens[u.units[unit]], amt), LAMBDA v :
             mintCoinsToModule(v, to, unit, amt)))

BurnToken(s, sym, amt, owner) ==
    Then(CheckToken(s, sym), LAMBDA u :
      IF u.tokens[sym].owner # owner THEN Abort(u, "ErrUnauthorized")
      ELSE Then(burnCoins(u, owner, u.tokens[sym].unit, amt), LAMBDA v :
             AddBurnedCoin(v, v.tokens[sym].unit, amt)))

UnlockToken(s, sym, owner) ==
    Then(CheckOwner(s, sym, owner), LAMBDA u :
      IF IsUnlocked(u, u.tokens[sym].unit) THEN Abort(u, "ErrUnlockedToken")
      ELSE unlockToken(u, u.tokens[sym].unit, TRUE))

TransferTokenOwner(s, sym, old, new) ==
    Then(CheckOwner(s, sym, old), LAMBDA u :
      resetTokenOwner([u EXCEPT !.tokens[sym].owner = new], sym, old, new))

-----------------------------------------------------------------------------
(* msgServer (keeper/msg_server.go): the blocked-address checks, then the *)
(* fee, then the keeper call.                                             *)
IssueTokenHandler(s, m) ==
    IF m.owner \in BlockedAddrs THEN Abort(s, "ErrUnauthorized")
    ELSE Then(DeductIssueTokenFee(s, m.owner, m.symbol), LAMBDA u : IssueToken(u, m))

MintTokenHandler(s, sym, amt, to, owner) ==
    IF to \in BlockedAddrs THEN Abort(s, "ErrUnauthorized")
    ELSE Then(DeductMintTokenFee(s, owner, sym), LAMBDA u : MintToken(u, sym, amt, to, owner))

(* EditToken, BurnToken and UnlockToken check no address: the handler is  *)
(* the keeper call (the sender always parses; events are not modelled).   *)
EditTokenHandler(s, sym, mintable, owner) == EditToken(s, sym, mintable, owner)

BurnTokenHandler(s, sym, amt, owner) == BurnToken(s, sym, amt, owner)

UnlockTokenHandler(s, sym, owner) == UnlockToken(s, sym, owner)

(* Faulty variant: the new owner is not checked against blocked addresses. *)
TransferTokenOwnerHandlerUnblocked(s, sym, old, new) == TransferTokenOwner(s, sym, old, new)
TransferTokenOwnerHandler(s, sym, old, new) ==
    IF new \in BlockedAddrs THEN Abort(s, "ErrUnauthorized")
    ELSE TransferTokenOwner(s, sym, old, new)

-----------------------------------------------------------------------------
(* Reads (view.go) and the gRPC queries (grpc_query.go).  A read answers *)
(* [err, val] and writes nothing; a list is a function from symbol.       *)
Answer(x) == [err |-> None, val |-> x]
Refuse(e) == [err |-> e, val |-> None]

HasToken(s, sym) == sym \in DOMAIN s.tokens

GetToken(s, sym) ==
    IF sym \notin DOMAIN s.tokens THEN Refuse("ErrTokenNotExists") ELSE Answer(s.tokens[sym])

getSymbolByUnit(s, unit) ==
    IF unit \notin DOMAIN s.units THEN Refuse("ErrTokenNotExists") ELSE Answer(s.units[unit])

GetTokenWithUnit(s, unit) ==
    IF getSymbolByUnit(s, unit).err # None THEN getSymbolByUnit(s, unit)
    ELSE GetToken(s, getSymbolByUnit(s, unit).val)

(* getAllTokenOfOwner walks the owner index and skips a symbol whose      *)
(* token is gone.                                                         *)
getAllTokenOfOwner(s, owner) ==
    Restrict(s.tokens, {x \in DOMAIN s.tokens : <<owner, x>> \in s.ownerSymbols})

GetTokens(s, owner) == IF owner = NoOwner THEN s.tokens ELSE getAllTokenOfOwner(s, owner)

GetOwner(s, sym) == IF GetToken(s, sym).err # None THEN GetToken(s, sym) ELSE Answer(s.tokens[sym].owner)

QueryToken(s, sym) ==
    CASE ~ValidateSymbol(sym) -> Refuse("InvalidArgument")
      [] GetToken(s, sym).err # None -> Refuse("NotFound")
      [] OTHER -> Answer([token |-> s.tokens[sym], unlocked |-> IsUnlocked(s, s.tokens[sym].unit)])

(* Tokens: every token for an empty owner, otherwise the owner index.    *)
QueryTokens(s, owner) == Answer(GetTokens(s, owner))

(* Burntoken: Exist is only filled in when a burn was recorded.          *)
Burntoken(s, sym) ==
    LET unit == s.tokens[sym].unit IN
    CASE ~ValidateSymbol(sym) -> Refuse("InvalidArgument")
      [] GetToken(s, sym).err # None -> Refuse("NotFound")
      [] unit \notin DOMAIN s.burnt -> Answer([exist |-> FALSE, burnedCoin |-> 0])
      [] OTHER -> Answer([exist |-> HasToken(s, sym), burnedCoin |-> s.burnt[unit]])

Fees(s, sym) ==
    IF ~ValidateSymbol(sym) THEN Refuse("InvalidArgument")
    ELSE Answer([exist |-> HasToken(s, sym), issueFee |-> calcIssueTokenFee(sym),
                 mintFee |-> GetMintTokenFee(sym)])

-----------------------------------------------------------------------------
(* Transactions of several messages.  A message is a record (msgs.go);    *)
(* the ante chain (x/auth/ante/ante.go) runs the token module's two       *)
(* decorators on the whole message list before any message runs; the      *)
(* SDK decorators before them (signatures, gas fees, sequence) are not     *)
(* modelled.  The messages then run in order in one cache.                *)
IssueMsg(m) == [type |-> "IssueToken", owner |-> m.owner, symbol |-> m.symbol, issue |-> m]

MintMsg(sym, amt, to, owner) ==
    [type |-> "MintToken", owner |-> owner, symbol |-> sym, amount |-> amt, to |-> to]

BurnMsg(sym, amt, owner) == [type |-> "BurnToken", owner |-> owner, symbol |-> sym, amount |-> amt]

(* ValidateTokenDecorator (token/decorator.go): a burn of a symbol that   *)
(* has no token refuses the whole transaction.                            *)
ValidateTokenDecorator(s, msgs) ==
    IF \E i \in DOMAIN msgs : msgs[i].type = "BurnToken" /\ GetToken(s, msgs[i].symbol).err # None
    THEN Abort(s, "ErrInvalidRequest") ELSE s

(* The fees map of keeper.ValidateTokenDecorator: each issue and mint     *)
(* message adds its fee to its owner's entry; other messages add nothing. *)
(* Faulty variant: a later fee message overwrites the owner's entry.      *)
TxFeesOverwrite(msgs, a) ==
    FoldLeft(LAMBDA acc, msg :
               CASE msg.owner # a -> acc
                 [] msg.type = "IssueToken" -> calcIssueTokenFee(msg.symbol)
                 [] msg.type = "MintToken" -> GetMintTokenFee(msg.symbol)
                 [] OTHER -> acc, 0, msgs)
TxFees(msgs, a) ==
    FoldLeft(LAMBDA acc, msg :
               CASE msg.owner # a -> acc
                 [] msg.type = "IssueToken" -> acc + calcIssueTokenFee(msg.symbol)
                 [] msg.type = "MintToken" -> acc + GetMintTokenFee(msg.symbol)
                 [] OTHER -> acc, 0, msgs)

(* keeper.ValidateTokenDecorator (keeper/decorators.go): every owner's    *)
(* FeeDenom balance must cover the fees of all its messages together.     *)
KeeperValidateTokenDecorator(s, msgs) ==
    IF \E a \in Addrs : Bal(s, a, FeeDenom) < TxFees(msgs, a)
    THEN Abort(s, "ErrInsufficientFunds") ELSE s

(* NewAnteHandler: the token module's decorators in chain order.  They    *)
(* write nothing.                                                         *)
AnteHandle(s, msgs) ==
    Then(ValidateTokenDecorator(s, msgs), LAMBDA u : KeeperValidateTokenDecorator(u, msgs))

(* ValidateBasic of each message type (types/msgs.go); the addresses are  *)
(* model values and always parse.                                         *)
IssueValidateBasic(m) ==
    ValidateToken(NewToken(m.symbol, m.unit, m.initialSupply, m.totalSupply, m.mintable, m.owner))
MintValidateBasic(sym, amt) == ValidateSymbol(sym) /\ ValidateAmountGTZero(amt)
BurnValidateBasic(sym, amt) == ValidateSymbol(sym) /\ ValidateAmountGTZero(amt)

MsgValidateBasic(msg) ==
    CASE msg.type = "IssueToken" -> IssueValidateBasic(msg.issue)
      [] msg.type = "MintToken" -> MintValidateBasic(msg.symbol, msg.amount)
      [] msg.type = "BurnToken" -> BurnValidateBasic(msg.symbol, msg.amount)

(* The messages in order, each through its msgServer method; the first   *)
(* error ends the transaction.  This is the SDK's baseapp message loop,   *)
(* which is not part of this repository.                                  *)
RunMsgs(s, msgs) ==
    LET deliver(u, msg) ==
          CASE msg.type = "IssueToken" -> IssueTokenHandler(u, msg.issue)
            [] msg.type = "MintToken" -> MintTokenHandler(u, msg.symbol, msg.amount, msg.to, msg.owner)
            [] msg.type = "BurnToken" -> BurnTokenHandler(u, msg.symbol, msg.amount, msg.owner)
    IN FoldLeft(LAMBDA t, msg : Then(t, LAMBDA u : deliver(u, msg)), s, msgs)

-----------------------------------------------------------------------------
VARIABLES tokens, units, ownerSymbols, denomMeta, burnt, sendEnabled,
          balances, supply, minted

vars == <<tokens, units, ownerSymbols, denomMeta, burnt, sendEnabled,
          balances, supply, minted>>

store == [tokens |-> tokens, units |-> units, ownerSymbols |-> ownerSymbols,
          denomMeta |-> denomMeta, burnt |-> burnt, sendEnabled |-> sendEnabled,
          balances |-> balances, supply |-> supply, minted |-> minted, err |-> None]

(* One transaction: it commits when the handler returns no error, and an  *)
(* error or a recovered panic leaves the store as it was.                 *)
Tx(r) ==
    /\ r.err = None
    /\ \A d \in Denoms : r.minted[d] <= MaxMinted
    /\ tokens' = r.tokens /\ units' = r.units /\ ownerSymbols' = r.ownerSymbols
    /\ denomMeta' = r.denomMeta /\ burnt' = r.burnt /\ sendEnabled' = r.sendEnabled
    /\ balances' = r.balances /\ supply' = r.supply /\ minted' = r.minted

(* InitGenesis (keeper/genesis.go) over the state the bank module's own *)
(* genesis left: every token by AddIssuedToken, whose error panics, then  *)
(* every burned coin by AddBurnedCoin.  The parameters are constants.     *)
(* Faulty variant: the burned coins are not imported.                     *)
InitGenesisNoBurnt(s, gs) ==
    FoldSet(LAMBDA t, u : Then(u, LAMBDA v : AddIssuedToken(v, t)), s, gs.tokens)
InitGenesis(s, gs) ==
    FoldSet(LAMBDA d, u : AddBurnedCoin(u, d, gs.burnedCoins[d]),
            FoldSet(LAMBDA t, u : Then(u, LAMBDA v : AddIssuedToken(v, t)), s, gs.tokens),
            DOMAIN gs.burnedCoins)

(* ExportGenesis: every token record and the burnt coins by unit.         *)
ExportGenesis(s) == [tokens |-> {s.tokens[x] : x \in DOMAIN s.tokens}, burnedCoins |-> s.burnt]

(* GenesisState.Validate: the parameters and every token; a burned coin   *)
(* of a valid denom with a non-negative amount.                           *)
ValidateGenesis(gs) ==
    /\ ValidateParams
    /\ \A t \in gs.tokens : ValidateToken(t)
    /\ \A d \in DOMAIN gs.burnedCoins : gs.burnedCoins[d] >= 0

(* The chain's genesis: a bank genesis in which every account holds       *)
(* GenesisBalance of FeeDenom, and GenesisTokens with no burned coins.     *)
EmptyMap == [k \in {} |-> 0]
GenesisData == [tokens |-> GenesisTokens, burnedCoins |-> EmptyMap]
GenesisStore ==
    LET bal == [p \in Addrs \X Denoms |->
                  IF p[1] \in Accounts /\ p[2] = FeeDenom THEN GenesisBalance ELSE 0]
        sup == [d \in Denoms |-> IF d = FeeDenom THEN GenesisBalance * Cardinality(Accounts) ELSE 0]
    IN InitGenesis([tokens |-> EmptyMap, units |-> EmptyMap, ownerSymbols |-> {},
                    denomMeta |-> EmptyMap, burnt |-> EmptyMap, sendEnabled |-> EmptyMap,
                    balances |-> bal, supply |-> sup, minted |-> sup, err |-> None], GenesisData)

ASSUME ValidateGenesis(GenesisData) /\ GenesisStore.err = None
ASSUME \A d \in Denoms : Len(d) <= Len(FactorTable)

Init ==
    /\ tokens = GenesisStore.tokens /\ units = GenesisStore.units
    /\ ownerSymbols = GenesisStore.ownerSymbols /\ denomMeta = GenesisStore.denomMeta
    /\ burnt = GenesisStore.burnt /\ sendEnabled = GenesisStore.sendEnabled
    /\ balances = GenesisStore.balances /\ supply = GenesisStore.supply
    /\ minted = GenesisStore.minted

(* Each message is delivered only if its ValidateBasic (types/msgs.go)   *)
(* passes, and then runs its msgServer method as one transaction.         *)
IssueTokenMsg(m) ==
    /\ IssueValidateBasic(m)
    /\ Tx(IssueTokenHandler(store, m))

EditTokenMsg(sym, mintable, owner) ==
    /\ ValidateSymbol(sym)
    /\ Tx(EditTokenHandler(store, sym, mintable, owner))

MintTokenMsg(sym, amt, to, owner) ==
    /\ MintValidateBasic(sym, amt)
    /\ Tx(MintTokenHandler(store, sym, amt, to, owner))

BurnTokenMsg(sym, amt, owner) ==
    /\ BurnValidateBasic(sym, amt)
    /\ Tx(BurnTokenHandler(store, sym, amt, owner))

UnlockTokenMsg(sym, owner) ==
    /\ ValidateSymbol(sym)
    /\ Tx(UnlockTokenHandler(store, sym, owner))

(* MsgTransferTokenOwner: ValidateBasic also refuses a new owner equal to *)
(* the old one.                                                           *)
TransferTokenOwnerMsg(sym, old, new) ==
    /\ ValidateSymbol(sym) /\ old # new
    /\ Tx(TransferTokenOwnerHandler(store, sym, old, new))

(* A transaction of several messages: each passes its ValidateBasic, the *)
(* ante handler admits the list, and the messages run in order; an error  *)
(* in any of them discards the whole transaction.                         *)
MultiMsgTx(msgs) ==
    /\ \A i \in DOMAIN msgs : MsgValidateBasic(msgs[i])
    /\ Tx(Then(AnteHandle(store, msgs), LAMBDA u : RunMsgs(u, msgs)))

(* The defi module's mintCoin: MintTokenWithUnit of its bond denom to the *)
(* defi module account, in any transaction that mints rewards.            *)
DefiMintCall(amt) == Tx(MintTokenWithUnit(store, BondDenom, amt, DefiModule))

Next ==
    \/ \E m \in IssueMsgs : IssueTokenMsg(m)
    \/ \E sym \in Denoms, a \in Accounts :
         \/ \E b \in BOOLEAN : EditTokenMsg(sym, b, a)
         \/ UnlockTokenMsg(sym, a)
         \/ \E amt \in Amounts :
              \/ BurnTokenMsg(sym, amt, a)
              \/ \E to \in Addrs : MintTokenMsg(sym, amt, to, a)
         \/ \E new \in Addrs : TransferTokenOwnerMsg(sym, a, new)
    \/ \E amt \in Amounts : DefiMintCall(amt)
    \/ \E msgs \in MultiMsgTxs : MultiMsgTx(msgs)

Spec == Init /\ [][Next]_vars

-----------------------------------------------------------------------------
TokenRecord == [symbol : Denoms, unit : Denoms, mintable : BOOLEAN, initialSupply : Nat,
                owner : Accounts \cup {NoOwner}, totalSupply : Nat]
TypeOK ==
    /\ DOMAIN tokens \subseteq Denoms /\ \A x \in DOMAIN tokens : tokens[x] \in TokenRecord
    /\ DOMAIN units \subseteq Denoms /\ Range(units) \subseteq Denoms
    /\ ownerSymbols \subseteq Accounts \X Denoms
    /\ DOMAIN burnt \subseteq Denoms /\ DOMAIN sendEnabled \subseteq Denoms
    /\ balances \in [Addrs \X Denoms -> Nat] /\ supply \in [Denoms -> Nat]

(* The mint cap of getMintCoins keeps every token's bank supply plus its  *)
(* burnt coins within its total supply, across issue, mint, burn, the fee *)
(* burns of every message and the defi module's MintTokenWithUnit; so     *)
(* mintableAmount.Uint64() never meets a negative amount.                 *)
SupplyCap ==
    \A x \in DOMAIN tokens :
        supply[tokens[x].unit] + Lookup(burnt, tokens[x].unit, 0) <= tokens[x].totalSupply

(* What the token queries answer agrees with the token records, whatever *)
(* sequence of issues, owner transfers and burns led there: a registered *)
(* symbol's Token query returns its record and its unit's lock; its unit  *)
(* leads back to it, through the unit index addToken writes and the      *)
(* bank's denom metadata, and no other denom leads anywhere; Burntoken    *)
(* reports the burns recorded for its unit; and the Tokens query of an    *)
(* owner, through the owner index TransferTokenOwner resets, lists        *)
(* exactly that owner's tokens.                                           *)
TokenQueriesConsistent ==
    /\ \A x \in DOMAIN tokens :
          /\ QueryToken(store, x) = Answer([token |-> tokens[x],
                                            unlocked |-> IsUnlocked(store, tokens[x].unit)])
          /\ GetTokenWithUnit(store, tokens[x].unit) = Answer(tokens[x])
          /\ denomMeta[tokens[x].unit] = x
          /\ Burntoken(store, x).val.burnedCoin = Lookup(burnt, tokens[x].unit, 0)
    /\ \A d \in Denoms \ {tokens[x].unit : x \in DOMAIN tokens} : GetTokenWithUnit(store, d).err # None
    /\ \A a \in Accounts :
          QueryTokens(store, a).val = Restrict(tokens, {x \in DOMAIN tokens : tokens[x].owner = a})

(* The fee check of the ante handler is sound for whole transactions     *)
(* (keeper/decorators.go: it checks "if the balance of the fee payer is   *)
(* sufficient for token related fee"): in every reachable state, a list   *)
(* of issue and mint messages that passes ValidateBasic and that the ante *)
(* handler admits never fails for want of coins, although each message's  *)
(* msgServer method deducts its fee in turn from what the earlier ones    *)
(* left its owner.                                                        *)
AnteFeeSufficient ==
    \A msgs \in MultiMsgTxs :
        (/\ \A i \in DOMAIN msgs : msgs[i].type \in {"IssueToken", "MintToken"}
         /\ \A i \in DOMAIN msgs : MsgValidateBasic(msgs[i])
         /\ AnteHandle(store, msgs).err = None)
        => RunMsgs(store, msgs).err # "ErrInsufficientFunds"

(* A chain stopped at any point and restarted from its export keeps its  *)
(* token registry: the export passes GenesisState.Validate, and           *)
(* InitGenesis of it, over the bank state the bank module restores,       *)
(* succeeds and rebuilds the token records, the unit and owner indexes,   *)
(* the denom metadata and the burnt coins, so that getMintCoins allows    *)
(* after the restart exactly what it allowed before.                      *)
TokenExportRestores ==
    LET r == InitGenesis([store EXCEPT !.tokens = EmptyMap, !.units = EmptyMap,
                                       !.ownerSymbols = {}, !.burnt = EmptyMap],
                         ExportGenesis(store))
    IN /\ ValidateGenesis(ExportGenesis(store))
       /\ r.err = None
       /\ r.tokens = tokens /\ r.units = units /\ r.ownerSymbols = ownerSymbols
       /\ r.denomMeta = denomMeta /\ r.burnt = burnt

(* The refinement mapping onto TokenRegistry: the token records without  *)
(* their initial supply, the send-enabled registered units, and for each  *)
(* registered unit its bank supply plus its recorded burnt coins.         *)
IssuedUnits == {tokens[x].unit : x \in DOMAIN tokens}
UnlockedUnits == {d \in IssuedUnits : IsUnlocked(store, d)}
Registry == INSTANCE TokenRegistry WITH
    Owners <- Addrs,
    registry <- [x \in DOMAIN tokens |->
                   [unit |-> tokens[x].unit, owner |-> tokens[x].owner,
                    mintable |-> tokens[x].mintable, total |-> tokens[x].totalSupply]],
    unlocked <- UnlockedUnits,
    issued <- [d \in IssuedUnits |-> supply[d] + Lookup(burnt, d, 0)]

(* Every transaction of the keeper, its message server and the defi      *)
(* module's MintTokenWithUnit is a step of the registry the module        *)
(* promises, or leaves it alone: units stay bound to one token, coins are *)
(* created only by issuing or by minting a mintable token within its      *)
(* total, owners pass only from an owner to an unblocked account, and     *)
(* unlocking is never undone.                                             *)
RegistryRefinement == Registry!Spec

-----------------------------------------------------------------------------
(* Property the code is checked against and found not to keep.            *)

(* getMintCoins subtracts burnt coins from the mintable amount, and       *)
(* AddBurnedCoin "saves the total amount of the burned tokens": no coin   *)
(* of a token's unit is ever created beyond its total supply, however    *)
(* many are burned.                                                       *)
MintedWithinTotal ==
    \A x \in DOMAIN tokens : minted[tokens[x].unit] <= tokens[x].totalSupply
====

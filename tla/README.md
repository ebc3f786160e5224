# TLA+ models of the gauss `x/defi` and `x/token` modules

This directory holds TLA+ models of the defi engine of `src/x/defi`. That is the
delegation ledger, the defi status machine with its unbonding queues, and the
F1 reward distribution with its commission and community pool. It also holds the
TLC configurations that check them, and `PROJECT.json`. That file lists every
component, run, mutant, finding and hazard, and maps each TLA+ definition to
the Go lines it translates.

## The system

`x/defi` is a staking-like module. A **defi** is created by its operator with a
self-delegation (`MsgCreateDefi`). Other accounts delegate tokens to it and
receive shares at the defi's exchange rate. `MsgUndelegate` burns shares and
appends an *unbonding delegation entry*. The entry is paid out by `EndBlocker`
once its completion time has passed.

Tokens of a Bonded defi sit in the *bonded pool*. Tokens of other defis and of
unbonding entries sit in the *not-bonded pool*. When an operator's self-stake
falls below its `MinSelfDelegation`, the defi starts unbonding. A defi leaves
the store when it is Unbonded and has no shares left.

Rewards come from `MintTokens`:
- it mints `MintInflation` into the defi module account;
- it sends `marketRate` of that to a market;
- it adds `communityTax` to the community pool;
- it gives the rest to one defi, as commission (`CommissionRate`) and as
  rewards shared by its delegators.

Delegator rewards use the F1 scheme:
- each defi has a *period* counter and a *historical* cumulative
  reward-per-share ratio for every ended period, with reference counts;
- each delegation has a *starting info* (previous period, stake, height);
- any change to a delegation first withdraws its rewards, then starts a new
  period.

The staking part (`delegation.go`, `defi.go`, `defi_state_change.go`) calls the
reward part through hooks (`rewards_hooks.go`). Both live in one keeper and one
store, so they are modelled together.

## Modules

| Module | Models | Source |
|---|---|---|
| `DefiDec` | `sdk.Dec` with `Precision` decimal places as scaled integers: `Mul` and `Quo` round half to even (banker's rounding, `chopPrecisionAndRound`), the `*Truncate` forms truncate, plus `TruncateInt` and `TruncateDecimal`. | cosmos-sdk `types/decimal.go`, as used by the keeper |
| `DefiTypes` | The `Defi` record and its exchange-rate arithmetic (`AddTokensFromDel`, `RemoveDelShares`, `TokensFromShares*`, `SharesFromTokens*`), plus the store's get/put/delete. | `types/defi.go`, `types/delegation.go` |
| `DefiRewards` | The reward store and F1 engine, with commission, community pool and withdraw addresses. It covers `IncrementDefiPeriod`, `initializeDelegation`, `CalculateDelegationRewards`, `withdrawDelegationRewards`, every hook, `WithdrawDefiCommission`, `FundCommunityPool`, `SetWithdrawAddr`, `MintTokens` and the allocation helpers. | `keeper/defi.go`, `delegation.go`, `rewards_*.go`, `keeper.go` |
| `DefiStaking` | The ledger and status machine. It covers `Delegate`, `Unbond`, `Undelegate`, unbonding entries, the UBD time-slice queue, the unbonding-defi queue, `bondedToUnbonding` and `beginUnbondingDefi`, `UnbondingToUnbonded`, `UnbondAllMatureDefis`, `CompleteUnbonding` and `BlockDefiUpdates`. | `keeper/delegation.go`, `defi.go`, `defi_state_change.go` |
| `DefiKeeper` | The whole keeper as a state machine. The store and the bank balances it moves are the VARIABLES, genesis is `Init`, and each message, `MintTokens` and `EndBlock` is an action. The invariants are its properties. | `keeper/msg_server.go`, `handler.go`, `abci.go`, `keeper/genesis.go`, `keeper/invariants.go` |
| `DefiGenesis` | `ExportGenesis`, `ValidateGenesis` and `InitGenesis`. Defis are set first, with the unbonding-defi queue. Delegations and unbonding delegations follow, with the UBD queue. Pool and module balances are written only when the bank left them empty. The reward records are written last. `DefiKeeper`'s `Init` is `InitGenesis` of a genesis state, applied to the bank's genesis. | `x/defi/keeper/genesis.go` |
| `DefiQuery` | The defi module's gRPC queries and the helpers they call. A query is an operator from a store record to an answer `[err, val]`, and it writes nothing. The reward queries run `IncrementDefiPeriod` on the query's context. Baseapp serves a query from a cache of the committed store and never writes that cache back, so the model computes on the incremented store and then drops it. `DelegationTotalRewards` threads that store through its delegations in turn. | `keeper/grpc_query.go`, `querier.go`, `query_utils.go`, `alias_functions.go` |
| `DefiParams` | `Params.Validate` and its per-key validators. `DefiKeeper` assumes the constant parameters pass it, as `ValidateGenesis` requires. | `x/defi/types/params.go` |
| `MCDefiKeeper` | Model values `a1` and `a2`, the height bound, and the liveness specification `LiveSpec` with `MatureEntriesPaid`. | — |
| `TokenKeeper` | The token module as a state machine. The token registry (`tokens`, the unit index `units`, the owner index `ownerSymbols`, `denomMeta`, `burnt`, `sendEnabled`), bank balances and supply are the VARIABLES. Each `Msg*` is an action that runs the whole `msgServer` method: the blocked-address check, the fee (`DeductIssueTokenFee`/`DeductMintTokenFee` → `handleFees`), the keeper call and its bank calls. The defi module's `MintTokenWithUnit` call is the action `DefiMintCall`. The reads of `view.go` and the gRPC queries are operators that answer `[err, val]`. `MultiMsgTx` is a transaction of several messages. It runs every message's `ValidateBasic`, then the ante chain of `x/auth/ante/ante.go` as far as this repository writes it, then the messages in order, and it commits only if all of them succeed. The ante chain is the burn check of `x/token/decorator.go` followed by the fee check of `keeper/decorators.go`. `InitGenesis` and `ExportGenesis` are operators, and `Init` is `InitGenesis` over a bank genesis. | `x/token/keeper/*.go`, `types/token.go`, `types/msgs.go`, `types/genesis.go`, `x/token/decorator.go`, `x/auth/ante/ante.go` |
| `TokenRegistry` | The abstract specification of what the token module promises: a registry of symbols with unit, owner, mintability and total, the unlocked units, and the coins issued per unit. One transaction may register several symbols, each with its own unit. `TokenKeeper` is checked to implement it. | — (from the module's documented behaviour) |
| `MCTokenKeeper` | Accounts `a1`, `a2`, the three module accounts, six denominations and four issue messages for TLC. | — |

**Functions from store to store.** Every keeper function is an operator that
maps a store record `s` to the store it leaves behind. `s.err` carries a
returned error (one of `Errors`) or a panic (one of `PanicKinds`). Most
functions return a value, and they put it in `s.ret`. `AndThen` sequences two
calls and stops at the first error, as Go's `if err != nil { return }` does.
This way an action contains the whole handler, every hook and bank transfer
included, in the order the code runs them.

**Transactions.** `DefiKeeper!Tx` models DeliverTx:
- the store commits only when the handler returned no error;
- an error leaves no trace;
- a panic is recovered by baseapp, writes nothing, and is recorded in
  `panics`.

A panic in `EndBlock` is recorded too, and it halts the chain (`Halted`
disables every action).

**Abstractions:**
- Addresses are model values, and a defi's operator account is the defi's
  own address.
- There is one denomination, so coins are integers and `DecCoins` are
  decimals.
- `sdk.Dec` keeps 18 decimals. The model keeps `Precision` = 1. Rounding
  then happens at small amounts, where TLC can reach it, and the rounding
  rules are kept exactly.
- Block time advances by one unit per block. `UnbondingTime` is in those
  units.
- Bech32 parsing, descriptions, events and logging are left out.

**Environment.** `MintTokens` has no caller in this repository. Any module
could call it. The model therefore lets the environment call it between any
two messages, with any existing defi, any market rate of `MarketRates`, and
either outcome of the token mint (`minted`) and of the send to the market
(`sent`).

## The token module

`x/token` lets an account issue a token: a symbol, a smallest unit, an initial
supply and a `TotalSupply` cap. The issuer pays a fee in the fee denomination.
`getFactor` makes short symbols dearer. Of the fee, `TokenTax` goes to the fee
collector and the rest is burned. The owner can later mint more up to the cap,
edit mintability, unlock transfers of the unit and hand ownership over. Anyone
can burn their own coins, and the burn is recorded in `burnt`. The cap is
enforced by `getMintCoins`: mintable = `TotalSupply` − supply − burnt.

In the model:
- `getFactor` is a float formula, `(ln len / ln 3)^4` printed with two
  decimals. It is tabulated in `FactorTable` for lengths 1 to 8, in hundredths,
  from that formula.
- `TotalSupply` = 0 means `MaximumAmount` (`MaxUint64` in the code) for a
  mintable token. The model sets it to 1000, far above any amount reached.
- Every transaction commits only when the handler returned no error. That
  includes the fee already deducted, because baseapp discards the whole write
  set.
- `minted` is a history variable: every coin `MintCoins` ever created.
- A denomination is the sequence of its one-character strings, such as
  `<<"e","t","h">>`. Then `ValidateSymbol`'s regular expressions
  (`^[a-z][a-z0-9]{2,63}$`, and the refused prefixes `peg`, `ibc`, `swap`)
  can be stated exactly. `ibcx` is a symbol the keyword check refuses.
- The `Burntoken` query answers `Exist` FALSE and zero coins for a token
  whose units were never burned, although the token exists. An unknown
  symbol gets `NotFound` instead. `TokenQueriesConsistent` checks the amount
  only.
- A message is delivered only when its `ValidateBasic` passes. The genesis
  tokens and parameters are assumed to pass `GenesisState.Validate`.

**Refinement.** `TokenRegistry` states what the module promises, with no
stores, indexes or fees:
- a registered token keeps its unit and total, and a unit belongs to one
  token;
- coins are created only by registering a token, or by minting a mintable
  one within its total;
- an owner-less token never gets an owner, and no token passes to a blocked
  address;
- an unlocked unit stays unlocked;
- the one way issued coins vanish is the unrecorded burn of the fee denom
  (finding 6).

`TokenKeeper` defines the refinement mapping:
- `registry` is the token records;
- `unlocked` is the send-enabled registered units;
- `issued` is each registered unit's bank supply plus its recorded burnt
  coins.

`RegistryRefinement == Registry!Spec` is checked as a `PROPERTY`.

## Runs

All defi runs use accounts `{a1, a2}`, which are also the possible defis.
Every run has genesis defi `a1`, except `mature_entries_paid`, which has none. The parameters are:
- `CommissionRate` = `MarketRate` = 0.5;
- `CommunityTax` = 0.1;
- `MintInflation` = 5;
- `MaxEntries` = 2;
- `UnbondingTime` = 1 block.

Messages carry amount 1 and MinSelfDelegation 1 or 2.

| Run | Cfg | Expect | What it shows |
|---|---|---|---|
| `defi_rewards` | `MCDefiKeeperRewards.cfg` | pass | `TypeOK`, `HistoricalRatioMonotone`, `StakeNotAboveCurrent`, `CanWithdraw`, `ModuleSolvency` and the action property `HistoricalImmutable` hold. So does `RewardQueriesMatchWithdraw`: for every delegation, `DelegationRewards` and the delegation's entry in `DelegationTotalRewards` answer the same amount, and withdrawing at once pays the withdraw address exactly its truncation. They hold over every interleaving of create, edit, delegate, undelegate, withdraw, set-withdraw-address, fund-pool and external mint in the first block and across the boundary. So reward accounting never reaches its panics, and the module can always pay everyone. |
| `defi_blocks` | `MCDefiKeeperBlocks.cfg` | pass | Across three blocks, `DelegatorShares` and `ReferenceCount` (the code's own invariants) hold. These blocks include defis unbonding, maturing and being removed, and entries being paid. Every reachable state also exports to a genesis that passes `ValidateGenesis` (`ExportValidates`). `InitGenesis` of that export, on a store whose defi stores are empty, rebuilds both queues and the pool and module balances (`ImportRestoresState`). Every delegation query answers without an internal error in every reachable state (`DelegationQueriesResolve`). This holds although the queries look up the defi of each delegation and some defis are removed. So a chain whose pools are balanced can be stopped and restarted at any point. |
| `pool_balances` | `MCPoolBalances.cfg` | violation | `PoolBalances`, the pool half of `ModuleAccountInvariants`, breaks. |
| `defi_module_balance` | `MCDefiModuleBalance.cfg` | violation | `DefiModuleBalance`, the rewards half of `ModuleAccountInvariants`, breaks after one `MintTokens`. |
| `unbonding_entry_queued` | `MCUnbondingEntryQueued.cfg` | violation | An unbonding entry loses its queue slot and is never paid. |
| `no_bad_state_transition` | `MCNoBadStateTransition.cfg` | violation | An operator's self-undelegation panics in `bondedToUnbonding`. |
| `undelegate_begin_info` | `MCUndelegateBeginInfo.cfg` | violation | Undelegation ignores the defi's status when setting the completion time. |
| `token_keeper` | `MCTokenKeeper.cfg` | pass | `TypeOK`, `SupplyCap` (supply + burnt ≤ `TotalSupply` for every token, so the `Uint64()` conversion in `getMintCoins` never panics), `TokenQueriesConsistent` (the symbol, unit and owner queries and the burn query answer what the token records, the unit and owner indexes and `denomMeta` say) and `RegistryRefinement` (the keeper implements `TokenRegistry`) hold. So do two more. `AnteFeeSufficient`: a transaction of issue and mint messages that the ante fee check lets through never fails for lack of fee funds, because the check adds up every fee a signer owes. `TokenExportRestores`: at every reachable state, the export passes `GenesisState.Validate`, and `InitGenesis` of it rebuilds the same token records, indexes, metadata and burnt coins. They hold over every interleaving of issue, edit, mint, burn, unlock, transfer, defi minting of the bond denom and four multi-message transactions. One of these issues two tokens in one transaction. Another issues a token and burns it, and it is always refused: either the ante finds no token to burn, or the issue fails because the token already exists. |
| `minted_within_total` | `MCMintedWithinTotal.cfg` | violation | `MintedWithinTotal` breaks: coins burned as fees can be minted again. |
| `mint_never_panics` | `MCMintNeverPanics.cfg` | violation | With `CommunityTax` = 0.6, which `Params.Validate` accepts, `MintTokens` panics (`MintNeverPanics`). |
| `import_restores_state_unbalanced` | `MCImportRestoresState.cfg` | violation | After the imbalance of finding 2, a restart from the export creates a coin in the not-bonded pool (`ImportRestoresState`). |
| `mature_entries_paid` | `MCMatureEntriesPaid.cfg` | pass | Liveness. Under weak fairness of `EndBlock`, every unbonding entry that matures by the last block is eventually paid (`MatureEntriesPaid`). This holds whatever the delegators do, with defis created by `MsgCreateDefi` only. |

The violations are code bugs and one divergence from `spec.md`. They are
explained in `PROJECT.json` under `findings`. In short:

1. **Defis never become Bonded.** `ApplyAndReturnDefiSetUpdates` is a stub,
   so no created defi is ever Bonded. The forced `bondedToUnbonding` in
   `Unbond` then panics for it (`NoBadStateTransition`).
2. **Pools are not moved on unbonding.** `beginUnbondingDefi` moves no tokens
   between the pools (`PoolBalances`).
3. **A failed payout loses its entry.** The UBD queue slice is deleted before
   `CompleteUnbonding`, and that call's error is ignored. A failed payout
   therefore loses its entry for good (`UnbondingEntryQueued`).
4. **Minted coins are orphaned.** `MintTokens` ignores `allocateTokensToMarket`'s
   error, and that function drops fractional coins (`DefiModuleBalance`).
5. **The begin-info rule is skipped.** `Undelegate` never uses `getBeginInfo`
   (`UndelegateBeginInfo`).
6. **Burned fees are forgotten.** `handleFees` burns fees without
   `AddBurnedCoin`. When the fee denom is itself a registered token, such as
   the genesis bond denom that the defi module mints, each burned fee becomes
   mintable again, and more than `TotalSupply` coins are ever minted
   (`MintedWithinTotal`).
7. **Rates are validated one by one.** `Params.Validate` checks
   `marketRate` and `communityTax` each against [0, 1], but `MintTokens`
   needs their sum to be at most 1. Above it, the defi's reward is negative
   and `DecCoins.Sub` panics after the coins were minted (`MintNeverPanics`).
8. **A restart mints into an empty pool.** `InitGenesis` sets a pool account to
   the tokens it counts only when the bank genesis left the account empty.
   It never compares the two. After finding 2, an Unbonded defi can still
   hold 1 token while the not-bonded pool is empty. Importing that export
   gives the pool a new coin, and the bonded pool keeps its stray one
   (`ImportRestoresState`).

**Mutants.** Each property of a passing run has a mutant in `PROJECT.json`: a
faulty variant of one mapped definition, written next to it, that TLC shows
breaks the property. For example:
- the hook runs before the tokens leave in `Unbond`;
- the period ratio is not cumulative;
- outstanding is not reduced on withdrawal;
- historical records are not released on removal.

## Bounds

- **`MaxHeight`** is a `CONSTRAINT` on `height`: 1 block in `defi_rewards`,
  3 in `defi_blocks`.
  - Three blocks with `UnbondingTime` = 1 is enough for an undelegation to
    mature in a later block.
  - It is also enough for a defi to pass Bonded → Unbonding → Unbonded → removed.
- **`MaxPeriod`** (4 in `defi_rewards`, 3 in `defi_blocks`) bounds each defi's
  reward period. **`MaxSupply`** bounds the total supply that `MintTokens`
  grows. A transaction that would pass either bound is not taken.
  - Four periods give a delegator at least two withdrawals with mints between
    them.
  - That exercises ratios across several periods and the zero-token branch of
    `IncrementDefiPeriod`.
- **`GenesisStake`** is 2 in the rewards run. A genesis operator can then
  undelegate partly, and a delegation keeps stake after an undelegation.
  Nothing in this repository slashes a defi, so its tokens always equal its
  shares. The exchange rate stays 1:1, and the share rounding of
  `RemoveDelShares` and the stake margin of `CalculateDelegationRewards`
  are never reached. `StakeNotAboveCurrent` checks the order of the hooks
  around `Unbond`, not that margin.
- **`WithdrawAddrMsgs`** is `{<<a1, a2>>}` in the rewards run only. It sends
  `a1`'s rewards and commission to another account, and keeps the state space
  small enough for a coverage run.

- **Token run.** The token run bounds every denomination's total ever minted by
  `MaxMinted` = 5, which the `Tx` guard enforces. Genesis gives each account 2
  stake and registers `gauss`/`stake` with a total of 4, all of it already in
  circulation. Three issue messages cover the cases that matter:
  - a mintable token with room to mint;
  - a token with total 0 and not mintable;
  - a message whose symbol is another token's unit.
  One issue fee (1 stake) plus one defi mint is enough to pass the cap.

- **Liveness runs.** `MaxHeight` is 3 in both, a bound in `LiveNext` and not
  a constraint.
  - Entries made in the first block mature at time 1, and the last sweep
    runs at time 1.
  - `InitialBalance` is 2, so each account can both create a defi and
    delegate to the other.
  - `MaxSupply` is 4, the genesis supply, so no mint commits. Minting is not
    part of this question and is covered by `defi_rewards`.

Between them, the passing runs fire every action and every disjunct of
`Next`.

## Fairness and liveness

Blocks are committed by CometBFT whatever transactions arrive, so `EndBlock`
cannot be postponed for ever. `MCDefiKeeper!LiveSpec` assumes weak fairness of
`BlockProduced` (`EndBlock` below `MaxHeight`) and nothing of the users:
messages may come in any number and order, or not at all. Instead of a
`CONSTRAINT`, `LiveNext` stops block production at `MaxHeight`, so every
explored behaviour is a real prefix followed by stuttering. The last
`EndBlock` runs at time `MaxHeight - 2`. `MatureEntriesPaid` asks only about
entries that mature by then.

- **`mature_entries_paid` passes** with defis created by `MsgCreateDefi`. Such
  defis stay Unbonded (finding 1), so the pools stay balanced. `MaxPeriod` = 5
  lets two delegation pairs undelegate in the same block. Their pairs then
  share a queue time slice, which is where `InsertUBDQueue` must append. The
  mutant that overwrites the slice breaks the property.
- **With a Bonded genesis defi the property fails.** This is the liveness
  form of findings 2 and 3, and it has no run of its own. Setting
  `GenesisDefis <- MCGenesisDefis`, `GenesisStake` 2 and `MinSelfValues {1, 2}`
  in `MCMatureEntriesPaid.cfg` reproduces it. An operator forced to Unbonding
  leaves its delegators' tokens in the bonded pool. Their entries then find
  the not-bonded pool short. The failed payout is skipped and its queue slot
  is gone, so an entry stays due for ever.

The safety counterpart, `UnbondingEntryQueued`, is also checked. It says that
every entry stays reachable from the queue the sweep reads.

## Not modelled

- **Two queries, the CLI and the REST layer.** `DefiQuery` and `TokenKeeper` model
  the gRPC queries. Left out are `HistoricalInfo`, which reads the header
  snapshots below, `Params`, and the CLI and REST code (`client/`), which only
  format requests and answers.
- **Parts of the genesis inputs.** `InitGenesis` is modelled whole. The
  initial states are a non-exported genesis of Bonded, self-delegated defis.
  Exported genesis states, with unbonding delegations and withdraw infos, are
  the exports of reachable states (`defi_blocks`).
- **Wiring of the hooks.** `Keeper.SetHooks` is never called in this
  repository, and the app that would wire it is not part of it. The model
  assumes, as `spec.md` describes, that the staking part's hooks are the
  keeper's own reward hooks.
- **`BeginBlocker`'s `TrackHistoricalInfo`.** It writes header snapshots that
  only queries read. Neither it nor `GetHistoricalInfo` is defined anywhere in
  this repository, so there is no code to translate.
- **`x/token` inside the defi model.** `DefiKeeper` abstracts it to the success
  or failure of its mint. `TokenKeeper` models the module itself, with the
  defi module's mint as one of its actions.
- **The rest of `x/token`.** Its CLI and its invariants (stubs that return
  true) are not modelled. Single-message transactions skip the ante chain,
  because every transaction it refuses is also refused by the handler.
- **The SDK decorators of `x/auth/ante`.** Signatures, sequence numbers, gas
  and the fee payment are Cosmos SDK code, not this repository's.
- **`x/orderbook` and the simulation packages.** The orderbook decorator's
  body is commented out, and `x/orderbook/keeper` is not in the repository.
  The simulation packages only generate random transactions.
- **Parameter changes.** The parameters are constants that pass
  `Params.Validate` (`DefiParams`). Governance changes go through the same
  per-key validators, so any constant set the validator accepts stands for a
  reachable parameter state. Finding 7 is one of them.

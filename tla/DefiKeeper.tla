----------------------------- MODULE DefiKeeper -----------------------------
(***************************************************************************)
(* The x/defi keeper as a state machine: the store and the bank balances  *)
(* it moves are the VARIABLES, genesis (keeper/genesis.go, non-exported)  *)
(* is Init, every Msg handler of keeper/msg_server.go, the external        *)
(* MintTokens entry point and EndBlock (abci.go -> BlockDefiUpdates) are   *)
(* the actions.  A transaction is atomic: it commits when its handler     *)
(* returns no error, changes nothing when it returns an error, and when    *)
(* it panics baseapp recovers, nothing is written and the panic is         *)
(* recorded in panics.  A panic in EndBlock halts the chain.               *)
(***************************************************************************)
EXTENDS DefiGenesis, DefiQuery

CONSTANTS
    Accounts,        \* account addresses
    Defis,           \* defi addresses; a defi's operator account is its own address
    GenesisDefis,    \* defis created Bonded at genesis, each self-delegated
    GenesisStake,    \* tokens of each genesis self-delegation
    InitialBalance,  \* genesis balance of every account
    Amounts,         \* token amounts a message may carry
    MinSelfValues,   \* MinSelfDelegation values a message may carry
    MarketRates,     \* marketRate arguments MintTokens may be called with
    WithdrawAddrMsgs, \* <<delegator, withdraw address>> pairs SetWithdrawAddress may carry
    MaxPeriod,       \* bound on every defi's reward period
    MaxSupply        \* bound on the total supply of the bond denom, which MintTokens grows

(* The parameters, as Params.Validate sees them; ValidateGenesis           *)
(* (genesis.go) refuses a genesis whose parameters it rejects.             *)
Params == [mintInflation |-> MintInflation, communityTax |-> CommunityTax,
           commissionRate |-> CommissionRate, marketRate |-> MarketRate,
           unbondingTime |-> UnbondingTime, maxEntries |-> MaxEntries]
ASSUME ValidateParams(Params)

ASSUME Defis \subseteq Accounts /\ GenesisDefis \subseteq Defis /\ WithdrawAddrMsgs \subseteq Accounts \X Accounts

VARIABLES defis, delegations, ubds, defiQueue, ubdQueue,
          historical, current, commission, outstanding, startingInfo, feePool,
          withdrawAddrs, balances, bondedPool, notBondedPool, defiModule, market,
          time, height, panics

storeVars == <<defis, delegations, ubds, defiQueue, ubdQueue,
               historical, current, commission, outstanding, startingInfo, feePool,
               withdrawAddrs, balances, bondedPool, notBondedPool, defiModule, market, time, height>>
vars == <<storeVars, panics>>

store == [defis |-> defis, delegations |-> delegations, ubds |-> ubds,
          defiQueue |-> defiQueue, ubdQueue |-> ubdQueue,
          historical |-> historical, current |-> current, commission |-> commission,
          outstanding |-> outstanding, startingInfo |-> startingInfo,
          feePool |-> feePool, withdrawAddrs |-> withdrawAddrs, balances |-> balances, bondedPool |-> bondedPool,
          notBondedPool |-> notBondedPool, defiModule |-> defiModule,
          market |-> market, time |-> time, height |-> height,
          err |-> None, ret |-> 0]

Commit(r) ==
    /\ defis' = r.defis /\ delegations' = r.delegations /\ ubds' = r.ubds
    /\ defiQueue' = r.defiQueue /\ ubdQueue' = r.ubdQueue
    /\ historical' = r.historical /\ current' = r.current
    /\ commission' = r.commission /\ outstanding' = r.outstanding
    /\ startingInfo' = r.startingInfo /\ feePool' = r.feePool
    /\ withdrawAddrs' = r.withdrawAddrs
    /\ balances' = r.balances /\ bondedPool' = r.bondedPool
    /\ notBondedPool' = r.notBondedPool /\ defiModule' = r.defiModule
    /\ market' = r.market /\ time' = r.time /\ height' = r.height

Halted == \E p \in panics : p[1] = "EndBlock"

(* Every token of the bond denom: accounts, pools, module, market.        *)
TotalSupply(r) ==
    FoldFunction(+, 0, r.balances) + r.bondedPool + r.notBondedPool + r.defiModule + r.market

WithinBounds(r) ==
    /\ \A v \in DOMAIN r.current : r.current[v].period <= MaxPeriod
    /\ TotalSupply(r) <= MaxSupply

(* DeliverTx of one message whose handler leaves r.                       *)
Tx(name, result) ==
    /\ ~Halted
    /\ \E r \in {result} :
       \/ /\ r.err = None /\ WithinBounds(r)
          /\ Commit(r) /\ UNCHANGED panics
       \/ /\ r.err \in PanicKinds
          /\ panics' = panics \cup {<<name, r.err>>} /\ UNCHANGED storeVars

(* A fresh chain: the bank genesis gives every account InitialBalance and *)
(* leaves the module accounts empty; the defi genesis lists the genesis    *)
(* defis, Bonded, each with its operator's self-delegation, and is not an *)
(* export, so InitGenesis runs the creation hooks.  It is applied at       *)
(* height 0; the first block is 1.                                         *)
EmptyFn == [k \in {} |-> 0]
GenesisDefi == [NewDefi EXCEPT !.status = Bonded, !.tokens = GenesisStake,
                               !.shares = ToDec(GenesisStake)]
BankGenesis ==
    [defis |-> EmptyFn, delegations |-> EmptyFn, ubds |-> EmptyFn,
     defiQueue |-> EmptyFn, ubdQueue |-> EmptyFn, historical |-> EmptyFn,
     current |-> EmptyFn, commission |-> EmptyFn, outstanding |-> EmptyFn,
     startingInfo |-> EmptyFn, feePool |-> 0, withdrawAddrs |-> EmptyFn,
     balances |-> [a \in Accounts |-> InitialBalance],
     bondedPool |-> 0, notBondedPool |-> 0, defiModule |-> 0, market |-> 0,
     time |-> 0, height |-> 0, err |-> None, ret |-> 0]
GenesisData ==
    [feePool |-> 0, defis |-> [v \in GenesisDefis |-> GenesisDefi],
     delegations |-> [k \in {<<v, v>> : v \in GenesisDefis} |-> ToDec(GenesisStake)],
     ubds |-> EmptyFn, withdrawInfos |-> EmptyFn, outstanding |-> EmptyFn,
     commissions |-> EmptyFn, historical |-> EmptyFn, current |-> EmptyFn,
     startingInfos |-> EmptyFn, exported |-> FALSE]
GenesisStore == InitGenesis(BankGenesis, GenesisData)
ASSUME ValidateGenesis(GenesisData, Params) /\ GenesisStore.err = None

Init ==
    LET g == GenesisStore IN
    /\ defis = g.defis /\ delegations = g.delegations /\ ubds = g.ubds
    /\ defiQueue = g.defiQueue /\ ubdQueue = g.ubdQueue
    /\ historical = g.historical /\ current = g.current
    /\ commission = g.commission /\ outstanding = g.outstanding
    /\ startingInfo = g.startingInfo /\ feePool = g.feePool /\ withdrawAddrs = g.withdrawAddrs
    /\ balances = g.balances /\ bondedPool = g.bondedPool /\ notBondedPool = g.notBondedPool
    /\ defiModule = g.defiModule /\ market = g.market
    /\ time = g.time /\ height = 1 /\ panics = {}

-----------------------------------------------------------------------------
(* msgServer.CreateDefi; ValidateBasic asks Value >= MinSelfDelegation > 0 *)
(* and the delegator to be the defi's own account.                        *)
CreateDefiHandler(s, v, amt, minSelf) ==
    LET d == [NewDefi EXCEPT !.minSelf = minSelf] IN
    IF v \in DOMAIN s.defis THEN Fail(s, "ErrDefiOwnerExists")
    ELSE Delegate(initializeDefi(SetDefi(s, v, d), v), v, amt, v, d)

(* msgServer.EditDefi with a new MinSelfDelegation.                        *)
EditDefiHandler(s, v, minSelf) ==
    CASE v \notin DOMAIN s.defis -> Fail(s, "ErrNoDefiFound")
      [] minSelf <= s.defis[v].minSelf -> Fail(s, "ErrMinSelfDelegation")
      [] minSelf > s.defis[v].tokens -> Fail(s, "ErrMinSelfDelegation")
      [] OTHER -> SetDefi(s, v, [s.defis[v] EXCEPT !.minSelf = minSelf])

DelegateHandler(s, del, v, amt) ==
    IF v \notin DOMAIN s.defis THEN Fail(s, "ErrNoDefiFound")
    ELSE Delegate(s, del, amt, v, s.defis[v])

UndelegateHandler(s, del, v, amt) ==
    AndThen(DefiUnbondAmount(s, del, v, amt), LAMBDA t : Undelegate(t, del, v, t.ret))

CreateDefi(v, amt, minSelf) ==
    /\ amt > 0 /\ minSelf > 0 /\ amt >= minSelf
    /\ Tx("CreateDefi", CreateDefiHandler(store, v, amt, minSelf))

(* The ValidateBasic of MsgEditDefi, MsgDefiDelegate and                  *)
(* MsgDefiUndelegate (types/msg.go) ask a positive MinSelfDelegation or   *)
(* amount; the address and description checks have no counterpart here.  *)
EditDefi(v, minSelf) ==
    /\ minSelf > 0
    /\ Tx("EditDefi", EditDefiHandler(store, v, minSelf))

DelegateMsg(del, v, amt) ==
    /\ amt > 0
    /\ Tx("Delegate", DelegateHandler(store, del, v, amt))

UndelegateMsg(del, v, amt) ==
    /\ amt > 0
    /\ Tx("Undelegate", UndelegateHandler(store, del, v, amt))

WithdrawDelegatorReward(del, v) ==
    Tx("WithdrawDelegatorReward", WithdrawDelegationRewards(store, del, v))

WithdrawDefiCommissionMsg(v) == Tx("WithdrawDefiCommission", WithdrawDefiCommission(store, v))

SetWithdrawAddress(del, w) == Tx("SetWithdrawAddress", SetWithdrawAddr(store, del, w))

(* MsgFundDefiCommunityPool.ValidateBasic: valid, hence positive, coins.   *)
FundCommunityPoolMsg(a, amt) ==
    /\ amt > 0
    /\ Tx("FundCommunityPool", FundCommunityPool(store, a, amt))

(* MintTokens has no caller in this repository; it is offered to the     *)
(* environment with an existing defi, any market rate, and either outcome *)
(* of the mint and of the send to the market.                             *)
MintTokensCall(v, rate, minted, sent) ==
    /\ v \in DOMAIN defis
    /\ Tx("MintTokens", MintTokens(store, v, rate, minted, sent))

(* EndBlocker, then the next block begins one time unit later.            *)
EndBlock ==
    /\ ~Halted
    /\ \E r \in {BlockDefiUpdates(store)} :
       \/ /\ r.err = None
          /\ Commit([r EXCEPT !.time = @ + 1, !.height = @ + 1]) /\ UNCHANGED panics
       \/ /\ r.err \in PanicKinds
          /\ panics' = panics \cup {<<"EndBlock", r.err>>} /\ UNCHANGED storeVars

Next ==
    \/ \E v \in Defis, amt \in Amounts, m \in MinSelfValues : CreateDefi(v, amt, m)
    \/ \E v \in Defis, m \in MinSelfValues : EditDefi(v, m)
    \/ \E del \in Accounts, v \in Defis, amt \in Amounts :
         DelegateMsg(del, v, amt) \/ UndelegateMsg(del, v, amt)
    \/ \E del \in Accounts, v \in Defis : WithdrawDelegatorReward(del, v)
    \/ \E v \in Defis : WithdrawDefiCommissionMsg(v)
    \/ \E m \in WithdrawAddrMsgs : SetWithdrawAddress(m[1], m[2])
    \/ \E a \in Accounts, amt \in Amounts : FundCommunityPoolMsg(a, amt)
    \/ \E v \in Defis, rate \in MarketRates, minted, sent \in BOOLEAN :
         MintTokensCall(v, rate, minted, sent)
    \/ EndBlock

Spec == Init /\ [][Next]_vars

-----------------------------------------------------------------------------
(* Every variable holds a value of the kind the store keeps.               *)
DefiRecord == [status : BondStatus, tokens : Nat, shares : Nat, minSelf : Nat,
               unbondingTime : Nat, unbondingHeight : Nat]
TypeOK ==
    /\ DOMAIN defis \subseteq Defis /\ \A v \in DOMAIN defis : defis[v] \in DefiRecord
    /\ DOMAIN delegations \subseteq Accounts \X Defis
    /\ \A k \in DOMAIN ubds : k \in Accounts \X Defis /\ ubds[k] \in Seq([creationHeight : Nat,
            completionTime : Nat, initialBalance : Nat, balance : Nat])
    /\ \A k \in DOMAIN defiQueue : k \in Nat \X Nat /\ defiQueue[k] \in Seq(Defis)
    /\ \A k \in DOMAIN ubdQueue : k \in Nat /\ ubdQueue[k] \in Seq(Accounts \X Defis)
    /\ \A k \in DOMAIN historical : k \in Defis \X Nat
         /\ historical[k] \in [ratio : Int, refCount : Nat]
    /\ \A v \in DOMAIN current : v \in Defis /\ current[v] \in [rewards : Int, period : Nat]
    /\ DOMAIN startingInfo \subseteq Defis \X Accounts
    /\ DOMAIN withdrawAddrs \subseteq Accounts /\ Range(withdrawAddrs) \subseteq Accounts
    /\ balances \in [Accounts -> Nat]
    /\ {bondedPool, notBondedPool, defiModule, market, time, height} \subseteq Nat
    /\ panics \subseteq {"CreateDefi", "EditDefi", "Delegate", "Undelegate",
                         "WithdrawDelegatorReward", "WithdrawDefiCommission", "SetWithdrawAddress",
                         "FundCommunityPool", "MintTokens", "EndBlock"} \X PanicKinds
DelegatorsOf(v) == {k[1] : k \in {k2 \in DOMAIN delegations : k2[2] = v}}
SharesOf(v) == FoldSet(LAMBDA del, acc : acc + delegations[<<del, v>>], 0, DelegatorsOf(v))
RefCountOf(v) ==
    FoldSet(LAMBDA k, acc : acc + historical[k].refCount, 0,
            {k \in DOMAIN historical : k[1] = v})

(* DelegatorSharesInvariant (keeper/invariants.go): the shares Delegate   *)
(* and Unbond write into delegations add up to the defi's                 *)
(* DelegatorShares, and no delegation outlives its defi (RemoveDefi runs  *)
(* only once the last shares are gone).                                   *)
DelegatorShares ==
    /\ \A k \in DOMAIN delegations : k[2] \in DOMAIN defis
    /\ \A v \in DOMAIN defis : SharesOf(v) = defis[v].shares

(* ReferenceCountInvariant: the reference counts of all historical       *)
(* records add up to one per defi and one per delegation, and so they do  *)
(* per defi: IncrementDefiPeriod, initializeDelegation,                   *)
(* withdrawDelegationRewards and AfterDefiRemoved keep exactly one        *)
(* reference for a defi's last period and one for each delegation's       *)
(* starting period.  Every delegation has a starting info pointing at a   *)
(* historical record of an ended period.                                  *)
ReferenceCount ==
    /\ FoldFunction(LAMBDA h, acc : acc + h.refCount, 0, historical)
         = Cardinality(DOMAIN defis) + Cardinality(DOMAIN delegations)
    /\ \A v \in DOMAIN defis : RefCountOf(v) = 1 + Cardinality(DelegatorsOf(v))
    /\ \A k \in DOMAIN delegations :
         /\ <<k[2], k[1]>> \in DOMAIN startingInfo
         /\ LET p == startingInfo[<<k[2], k[1]>>].previousPeriod IN
            <<k[2], p>> \in DOMAIN historical /\ p < current[k[2]].period

(* The cumulative reward ratio IncrementDefiPeriod stores never decreases *)
(* from one period to a later one, so calculateDelegationRewardsBetween   *)
(* never meets its "negative rewards" panic.                              *)
HistoricalRatioMonotone ==
    \A k1, k2 \in DOMAIN historical :
        k1[1] = k2[1] /\ k1[2] < k2[2] => historical[k1].ratio <= historical[k2].ratio

(* The stake initializeDelegation records (truncated, before Unbond takes *)
(* the tokens out of the defi) never exceeds the delegation's current     *)
(* worth by more than CalculateDelegationRewards tolerates (three of the  *)
(* smallest decimal), so withdrawing never panics on the stake check.    *)
StakeNotAboveCurrent ==
    \A k \in DOMAIN startingInfo :
        <<k[2], k[1]>> \in DOMAIN delegations =>
          startingInfo[k].stake <=
            TokensFromShares(defis[k[1]], delegations[<<k[2], k[1]>>]) + 3 * SmallestDec

(* CanWithdrawInvariant: in one cached context, withdraw every defi's     *)
(* commission (errors ignored) and then every delegation's rewards; no    *)
(* withdrawal may fail or panic, and no outstanding goes negative.       *)
WithdrawAll(s) ==
    LET withdrawDefi(v, t) ==
          LET c == WithdrawDefiCommission(t, v)
              t1 == IF c.err \in Errors THEN [c EXCEPT !.err = None] ELSE c
              dels == {k[1] : k \in {k2 \in DOMAIN t1.delegations : k2[2] = v}}
          IN AndThen(t1, LAMBDA u :
               FoldSet(LAMBDA del, w : AndThen(w, LAMBDA x : WithdrawDelegationRewards(x, del, v)),
                       u, dels))
    IN FoldSet(LAMBDA v, t : AndThen(t, LAMBDA u : withdrawDefi(v, u)), s, DOMAIN s.defis)
CanWithdraw ==
    \A r \in {WithdrawAll(store)} :
    r.err = None /\ \A v \in DOMAIN r.outstanding : r.outstanding[v] >= 0

(* The defi module account can always pay what the keeper owes from it:  *)
(* every outstanding reward and the community pool.  Minting, withdrawals *)
(* and AfterDefiRemoved each move coins and bookkeeping together.         *)
ModuleSolvency ==
    ToDec(defiModule) >= FoldFunction(+, 0, outstanding) + feePool

(* A historical rewards record, once IncrementDefiPeriod has written it,  *)
(* keeps its ratio until it is deleted: delegations starting from it are  *)
(* paid against the value they started with.                              *)
HistoricalImmutable ==
    [][\A k \in DOMAIN historical \cap DOMAIN historical' :
          historical'[k].ratio = historical[k].ratio]_vars

-----------------------------------------------------------------------------
(* Properties the code is checked against and found not to keep.          *)
TokensOf(st) == FoldSet(LAMBDA v, acc : acc + defis[v].tokens, 0,
                        {v \in DOMAIN defis : defis[v].status \in st})
EntryBalances == FoldFunction(LAMBDA es, acc : acc + FoldSeq(LAMBDA e, b : b + e.balance, 0, es),
                              0, ubds)

(* ModuleAccountInvariants, pool half: the bonded pool holds the tokens of *)
(* Bonded defis, the not-bonded pool those of the other defis and of every *)
(* unbonding entry; bondedToUnbonding and Undelegate must move tokens     *)
(* between the pools whenever a defi's status changes.                    *)
PoolBalances ==
    /\ bondedPool = TokensOf({Bonded})
    /\ notBondedPool = TokensOf({Unbonding, Unbonded}) + EntryBalances

(* ModuleAccountInvariants, rewards half: the defi module account holds   *)
(* exactly the truncated sum of outstanding rewards and community pool;   *)
(* MintTokens must keep whatever it does not book or send.                *)
DefiModuleBalance ==
    defiModule = TruncateInt(FoldFunction(+, 0, outstanding) + feePool)

(* Every unbonding entry Undelegate writes stays reachable from the       *)
(* unbonding queue at its completion time until CompleteUnbonding pays it; *)
(* an entry no queue slot names is never paid out.                        *)
UnbondingEntryQueued ==
    \A k \in DOMAIN ubds : \A i \in DOMAIN ubds[k] :
        LET t == ubds[k][i].completionTime IN
        t \in DOMAIN ubdQueue /\ k \in Range(ubdQueue[t])

(* A bonding state transition is never attempted from the wrong state:   *)
(* an operator undelegating its self-stake below MinSelfDelegation moves  *)
(* its defi to Unbonding (spec 8) instead of panicking in                 *)
(* bondedToUnbonding.                                                     *)
NoBadStateTransition == \A p \in panics : p[2] # "PanicBadStateTransition"

(* Begin-info rule (spec 4.2): an entry Undelegate appends matures a full *)
(* unbonding period from now for a Bonded defi, at the defi's own         *)
(* unbonding time for an Unbonding one, and at once for an Unbonded one.  *)
UndelegateBeginInfo ==
    [][\A k \in DOMAIN ubds' :
          /\ Len(ubds'[k]) > Len(Get(ubds, k, <<>>))
          /\ k[2] \in DOMAIN defis
          => Last(ubds'[k]).completionTime =
               CASE defis[k[2]].status = Bonded -> time + UnbondingTime
                 [] defis[k[2]].status = Unbonding -> defis[k[2]].unbondingTime
                 [] OTHER -> time]_vars
(* MintTokens, called for an existing defi with parameters the chain       *)
(* accepted, never panics: market share, delegator share and community    *)
(* share of the minted coins are all non-negative.                        *)
MintNeverPanics == \A p \in panics : p[1] # "MintTokens"

-----------------------------------------------------------------------------
(* Export and import.  The bank genesis of an export is the bank as it     *)
(* is; every defi store starts empty and InitGenesis fills it.             *)
ImportBase ==
    [store EXCEPT !.defis = EmptyFn, !.delegations = EmptyFn, !.ubds = EmptyFn,
                  !.defiQueue = EmptyFn, !.ubdQueue = EmptyFn, !.historical = EmptyFn,
                  !.current = EmptyFn, !.commission = EmptyFn, !.outstanding = EmptyFn,
                  !.startingInfo = EmptyFn, !.feePool = 0, !.withdrawAddrs = EmptyFn]
Restored == InitGenesis(ImportBase, ExportGenesis(store))

(* Two queues hold the same items in every time slice, in any order.      *)
Occurrences(seq, x) == Cardinality({i \in DOMAIN seq : seq[i] = x})
SameQueue(q1, q2) ==
    /\ DOMAIN q1 = DOMAIN q2
    /\ \A t \in DOMAIN q1 : \A x \in Range(q1[t]) \cup Range(q2[t]) :
          Occurrences(q1[t], x) = Occurrences(q2[t], x)

(* Every state the chain reaches can be exported and passes the           *)
(* ValidateGenesis that a restart from that export runs first.            *)
ExportValidates == ValidateGenesis(ExportGenesis(store), Params)

(* A chain restarted from its own export is the chain it was: InitGenesis *)
(* rebuilds both queues with the same items, the pool and defi module     *)
(* accounts keep the coins they hold, and no account is given coins that  *)
(* were not there (ExportGenesis and InitGenesis copy the other stores).  *)
ImportRestoresState ==
    LET r == Restored IN
    /\ r.err = None
    /\ SameQueue(r.ubdQueue, ubdQueue) /\ SameQueue(r.defiQueue, defiQueue)
    /\ r.bondedPool = bondedPool /\ r.notBondedPool = notBondedPool
    /\ r.defiModule = defiModule
(* What the reward queries report is what a withdrawal pays.  For every   *)
(* delegation, DelegationRewards (which ends the defi's period in the     *)
(* query's context) and the delegator's entry in DelegationTotalRewards   *)
(* (which ends the periods of all its defis in one context) answer        *)
(* without error, agree, and their integral part is exactly what          *)
(* MsgWithdrawDelegatorReward would send to the withdraw address now,     *)
(* after capping at the outstanding rewards and truncating.              *)
RewardQueriesMatchWithdraw ==
    \A k \in DOMAIN delegations :
      LET q == DefiDelegationRewards(store, k[1], k[2])
          t == DefiDelegationTotalRewards(store, k[1])
          w == WithdrawDelegationRewards(store, k[1], k[2])
          to == WithdrawAddr(store, k[1])
      IN /\ q.err = None /\ t.err = None /\ w.err = None
         /\ t.val.rewards[k[2]] = q.val
         /\ w.balances[to] - balances[to] = TruncateInt(q.val)

(* Every delegation and unbonding delegation the queries list resolves   *)
(* to a defi that exists: the per-defi and per-delegator listings, the    *)
(* response conversion (DelegationToDelegationResponse) and              *)
(* GetDelegatorDefi never meet a missing defi.  It takes Unbond removing  *)
(* a delegation with its last share, and RemoveDefi and the EndBlock      *)
(* sweep removing only a defi nobody delegates to, to keep it.           *)
DelegationQueriesResolve ==
    /\ \A a \in Accounts :
          /\ DelegatorDefis(store, a).err = None
          /\ DefiDelegatorDelegations(store, a).err \in {None, "NotFound"}
          /\ \A v \in Defis : DelegatorDefi(store, a, v).err \in {None, "Internal"}
    /\ \A v \in Defis : DefiDelegations(store, v).err = None
=============================================================================

----------------------------- MODULE DefiRewards -----------------------------
(***************************************************************************)
(* The F1 reward engine of x/defi: period accounting (defi.go), delegator  *)
(* reward calculation and withdrawal (delegation.go), commission and       *)
(* community pool (keeper.go), allocation of minted tokens                 *)
(* (rewards_allocation.go) and the distribution hooks (rewards_hooks.go).  *)
(*                                                                         *)
(* Every keeper function is an operator from a store record s to the      *)
(* store it leaves.  s.err is None, or the error or panic the function     *)
(* stopped with; a function called on a store with an error returns it    *)
(* unchanged, which is how an early return or a panic skips the rest of a  *)
(* handler.  Rewards are of the one bond denom, so a DecCoins is one Dec.  *)
(***************************************************************************)
EXTENDS DefiTypes

CONSTANTS CommissionRate, MarketRate, CommunityTax, MintInflation

None == "none"
Fail(s, e) == IF s.err = None THEN [s EXCEPT !.err = e] ELSE s
(* Bind(x, op): op applied to the value of x, which is evaluated once.     *)
Bind(x, op(_)) == CHOOSE r \in {op(y) : y \in {x}} : TRUE
AndThen(s, op(_)) == Bind(s, LAMBDA t : IF t.err = None THEN op(t) ELSE t)

(* Errors end a message with no effect; panics are recovered by baseapp   *)
(* inside a transaction and halt the chain inside EndBlock.               *)
Errors == {"ErrNoDefiFound", "ErrNoDefiDistInfo", "ErrDefiOwnerExists", "ErrNoDelegation",
           "ErrNoDelegatorForAddress",
           "ErrInsufficientShares", "ErrBadSharesAmount", "ErrInvalidExRate",
           "ErrMaxUnbondingEntries", "ErrNoUnbondingDelegation",
           "ErrEmptyDelegationDistInfo", "ErrNoDefiCommission",
           "ErrMinSelfDelegation", "ErrInsufficientFunds", "ErrMintFailed"}
PanicKinds == {"PanicBadStateTransition", "PanicNegativeRefCount",
               "PanicRefCountAbove2", "PanicStakeAboveCurrent",
               "PanicNegativeRewards", "PanicNegativeCoins",
               "PanicDefiNotFound", "PanicDefiNotUnbonding",
               "PanicRemoveBondedDefi", "PanicRemoveDefiWithTokens",
               "PanicBankSend", "PanicNilDefi", "PanicWithdrawInHook"}

ZeroHistorical == [ratio |-> 0, refCount |-> 0]
ZeroCurrent == [rewards |-> 0, period |-> 0]
ZeroStartingInfo == [previousPeriod |-> 0, stake |-> 0, height |-> 0]

Historical(s, v, p) == Get(s.historical, <<v, p>>, ZeroHistorical)
Current(s, v) == Get(s.current, v, ZeroCurrent)
Outstanding(s, v) == Get(s.outstanding, v, 0)
Commission(s, v) == Get(s.commission, v, 0)
StartingInfo(s, v, del) == Get(s.startingInfo, <<v, del>>, ZeroStartingInfo)
(* GetDelegatorWithdrawAddr: the address SetWithdrawAddr stored, or the   *)
(* delegator's own account.                                                *)
WithdrawAddr(s, del) == Get(s.withdrawAddrs, del, del)

(* Keeper.SetWithdrawAddr.  Its guard refuses the blocked (module)         *)
(* accounts, which are not among the accounts a message can name here.    *)
SetWithdrawAddr(s, del, w) == [s EXCEPT !.withdrawAddrs = Put(@, del, w)]

(* DecCoins.Sub panics on a negative result.                               *)
SubCoins(s, a, b) == IF a - b < 0 THEN Fail(s, "PanicNegativeCoins") ELSE s

(* bank SendCoinsFromModuleToAccount from the defi module account.         *)
SendFromModule(s, to, amt) ==
    IF amt > s.defiModule THEN Fail(s, "ErrInsufficientFunds")
    ELSE [s EXCEPT !.defiModule = @ - amt, !.balances[to] = @ + amt]

initializeDefi(s, v) ==
    [s EXCEPT !.historical = Put(@, <<v, 0>>, [ratio |-> 0, refCount |-> 1]),
              !.current = Put(@, v, [rewards |-> 0, period |-> 1]),
              !.commission = Put(@, v, 0),
              !.outstanding = Put(@, v, 0)]

incrementReferenceCount(s, v, p) ==
    LET h == Historical(s, v, p) IN
    IF h.refCount > 2 THEN Fail(s, "PanicRefCountAbove2")
    ELSE [s EXCEPT !.historical = Put(@, <<v, p>>, [h EXCEPT !.refCount = @ + 1])]

decrementReferenceCount(s, v, p) ==
    LET h == Historical(s, v, p) IN
    IF h.refCount = 0 THEN Fail(s, "PanicNegativeRefCount")
    ELSE IF h.refCount = 1 THEN [s EXCEPT !.historical = Del(@, <<v, p>>)]
    ELSE [s EXCEPT !.historical = Put(@, <<v, p>>, [h EXCEPT !.refCount = @ - 1])]

(* Faulty variants of IncrementDefiPeriod: the new record stores this    *)
(* period's ratio alone, or is written over the previous period's record. *)
IncrementDefiPeriodNotCumulative(s, v, d) ==
    LET rw == Current(s, v)
        ratio == IF d.tokens = 0 THEN 0 ELSE QuoTruncate(rw.rewards, ToDec(d.tokens))
    IN AndThen(decrementReferenceCount(s, v, rw.period - 1), LAMBDA t :
         [t EXCEPT !.historical = Put(@, <<v, rw.period>>, [ratio |-> ratio, refCount |-> 1]),
                   !.current = Put(@, v, [rewards |-> 0, period |-> rw.period + 1])])
IncrementDefiPeriodPrevKey(s, v, d) ==
    LET rw == Current(s, v)
        ratio == IF d.tokens = 0 THEN 0 ELSE QuoTruncate(rw.rewards, ToDec(d.tokens))
        prev == Historical(s, v, rw.period - 1)
    IN [s EXCEPT !.historical = Put(@, <<v, rw.period - 1>>, [prev EXCEPT !.ratio = @ + ratio]),
                 !.current = Put(@, v, [rewards |-> 0, period |-> rw.period + 1])]

(* IncrementDefiPeriod(defi): d is the defi record the caller passes.     *)
(* The period it ends is Current(s, v).period, read before the call.      *)
IncrementDefiPeriod(s, v, d) ==
    LET rw == Current(s, v)
        zeroTokens == d.tokens = 0
        ratio == IF zeroTokens THEN 0 ELSE QuoTruncate(rw.rewards, ToDec(d.tokens))
        s1 == IF ~zeroTokens THEN s
              ELSE SubCoins([s EXCEPT !.feePool = @ + rw.rewards,
                                      !.outstanding = Put(@, v, Outstanding(s, v) - rw.rewards)],
                            Outstanding(s, v), rw.rewards)
    IN AndThen(s1, LAMBDA t1 :
       LET prev == Historical(t1, v, rw.period - 1).ratio IN
       AndThen(decrementReferenceCount(t1, v, rw.period - 1), LAMBDA t :
         [t EXCEPT !.historical = Put(@, <<v, rw.period>>, [ratio |-> prev + ratio, refCount |-> 1]),
                   !.current = Put(@, v, [rewards |-> 0, period |-> rw.period + 1])]))

(* initializeDelegation: stake is read from the defi and delegation as     *)
(* they are in the store when the hook runs.                               *)
initializeDelegation(s, v, del) ==
    LET p == Current(s, v).period - 1
        s1 == incrementReferenceCount(s, v, p)
    IN AndThen(s1, LAMBDA t :
         [t EXCEPT !.startingInfo = Put(@, <<v, del>>,
             [previousPeriod |-> p,
              stake |-> TokensFromSharesTruncated(t.defis[v], t.delegations[<<del, v>>]),
              height |-> t.height])])

(* calculateDelegationRewardsBetween, as [rewards, err].                   *)
RewardsBetween(s, v, sp, ep, stake) ==
    LET diff == Historical(s, v, ep).ratio - Historical(s, v, sp).ratio IN
    CASE sp > ep \/ stake < 0 -> [rewards |-> 0, err |-> "PanicNegativeRewards"]
      [] diff < 0 -> [rewards |-> 0, err |-> "PanicNegativeRewards"]
      [] OTHER -> [rewards |-> MulTruncate(diff, stake), err |-> None]

(* CalculateDelegationRewards: nothing in the block the delegation began; *)
(* a stake above the current stake by at most three of the smallest       *)
(* decimal is clamped, by more it panics.                                  *)
CalculateDelegationRewards(s, v, d, del, ep) ==
    LET si == StartingInfo(s, v, del)
        currentStake == TokensFromShares(d, s.delegations[<<del, v>>])
        stake == IF si.stake > currentStake THEN currentStake ELSE si.stake
    IN CASE si.height = s.height -> [rewards |-> 0, err |-> None]
         [] si.stake > currentStake + 3 * SmallestDec ->
                [rewards |-> 0, err |-> "PanicStakeAboveCurrent"]
         [] OTHER -> RewardsBetween(s, v, si.previousPeriod, ep, stake)

(* Faulty variant: the rewards are paid out but stay outstanding.        *)
withdrawDelegationRewardsKeepOutstanding(s, v, d, del) ==
    IF <<v, del>> \notin DOMAIN s.startingInfo
    THEN Fail(s, "ErrEmptyDelegationDistInfo")
    ELSE
    AndThen(IncrementDefiPeriod(s, v, d), LAMBDA s1 :
    Bind(CalculateDelegationRewards(s1, v, d, del, Current(s, v).period), LAMBDA raw :
    LET split == TruncateDecimal(Intersect(raw.rewards, Outstanding(s1, v))) IN
    IF raw.err # None THEN Fail(s1, raw.err)
    ELSE AndThen(IF split.coins = 0 THEN s1
                 ELSE SendFromModule(s1, WithdrawAddr(s1, del), split.coins), LAMBDA t3 :
         AndThen(decrementReferenceCount(t3, v, StartingInfo(t3, v, del).previousPeriod),
                 LAMBDA t4 : [t4 EXCEPT !.startingInfo = Del(@, <<v, del>>)]))))

(* withdrawDelegationRewards(defi, del).                                   *)
withdrawDelegationRewards(s, v, d, del) ==
    IF <<v, del>> \notin DOMAIN s.startingInfo
    THEN Fail(s, "ErrEmptyDelegationDistInfo")
    ELSE
    AndThen(IncrementDefiPeriod(s, v, d), LAMBDA s1 :
    Bind(CalculateDelegationRewards(s1, v, d, del, Current(s, v).period), LAMBDA raw :
    LET rewards == Intersect(raw.rewards, Outstanding(s1, v))
        split == TruncateDecimal(rewards)
        send(t) == IF split.coins = 0 THEN t
                   ELSE SendFromModule(t, WithdrawAddr(t, del), split.coins)
    IN IF raw.err # None THEN Fail(s1, raw.err)
       ELSE AndThen(send(s1), LAMBDA t2 :
            AndThen([t2 EXCEPT !.outstanding = Put(@, v, Outstanding(t2, v) - rewards),
                               !.feePool = @ + split.change], LAMBDA t3 :
            AndThen(decrementReferenceCount(t3, v, StartingInfo(t3, v, del).previousPeriod),
                    LAMBDA t4 : [t4 EXCEPT !.startingInfo = Del(@, <<v, del>>)])))))

(* Keeper.WithdrawDelegationRewards: withdraw, then start a new period.   *)
WithdrawDelegationRewards(s, del, v) ==
    CASE v \notin DOMAIN s.defis -> Fail(s, "ErrNoDefiDistInfo")
      [] <<del, v>> \notin DOMAIN s.delegations -> Fail(s, "ErrEmptyDelegationDistInfo")
      [] OTHER -> AndThen(withdrawDelegationRewards(s, v, s.defis[v], del),
                          LAMBDA t : initializeDelegation(t, v, del))

(* Keeper.WithdrawDefiCommission: pays the integral part and keeps the    *)
(* fraction as commission still to withdraw.                               *)
WithdrawDefiCommission(s, v) ==
    LET split == TruncateDecimal(Commission(s, v))
        s1 == SubCoins([s EXCEPT !.commission = Put(@, v, split.change),
                                 !.outstanding = Put(@, v, Outstanding(s, v) - ToDec(split.coins))],
                       Outstanding(s, v), ToDec(split.coins))
    IN IF Commission(s, v) = 0 THEN Fail(s, "ErrNoDefiCommission")
       ELSE IF split.coins = 0 THEN s1
       ELSE AndThen(s1, LAMBDA t : SendFromModule(t, WithdrawAddr(t, v), split.coins))

(* Faulty variant: the depositor's balance is not checked.               *)
FundCommunityPoolUnchecked(s, a, amt) ==
    [s EXCEPT !.balances[a] = @ - amt, !.defiModule = @ + amt, !.feePool = @ + ToDec(amt)]

(* Keeper.FundCommunityPool from account a.                                *)
FundCommunityPool(s, a, amt) ==
    IF s.balances[a] < amt THEN Fail(s, "ErrInsufficientFunds")
    ELSE [s EXCEPT !.balances[a] = @ - amt, !.defiModule = @ + amt,
                   !.feePool = @ + ToDec(amt)]

(* Faulty variant: only the delegators' share is added to outstanding.   *)
allocateTokensToDefiSharedOnly(s, v, tokens) ==
    LET commission == Mul(tokens, CommissionRate) IN
    [s EXCEPT !.commission = Put(@, v, Commission(s, v) + commission),
              !.current = Put(@, v, [Current(s, v) EXCEPT !.rewards = @ + (tokens - commission)]),
              !.outstanding = Put(@, v, Outstanding(s, v) + (tokens - commission))]

(* allocateTokensToDefi: the commission share is rounded (MulDec), the    *)
(* rest goes to the current period, all of it to outstanding.             *)
allocateTokensToDefi(s, v, tokens) ==
    LET commission == Mul(tokens, CommissionRate) IN
    [s EXCEPT !.commission = Put(@, v, Commission(s, v) + commission),
              !.current = Put(@, v, [Current(s, v) EXCEPT !.rewards = @ + (tokens - commission)]),
              !.outstanding = Put(@, v, Outstanding(s, v) + tokens)]

(* allocateTokensToMarket: the integral part is sent and the fraction is  *)
(* dropped; its error is ignored by MintTokens (sent = FALSE).            *)
allocateTokensToMarket(s, tokens, sent) ==
    LET coins == TruncateInt(tokens) IN
    IF sent /\ coins <= s.defiModule
    THEN [s EXCEPT !.defiModule = @ - coins, !.market = @ + coins]
    ELSE s

(* MintTokens(defiAddr, marketAddr, marketRate, toModule): mintTokens     *)
(* mints MintInflation into the module account (minted = FALSE when the   *)
(* token keeper refuses), then splits it between market, defi and the     *)
(* community pool.                                                         *)
MintTokens(s, v, marketRate, minted, sent) ==
    LET amount == IF minted THEN ToDec(MintInflation) ELSE 0
        marketRateL == IF marketRate < MarketRate THEN marketRate ELSE MarketRate
        voteMultiplier == DecOne - marketRateL - CommunityTax
        marketTokens == Mul(amount, marketRateL)
        rewards == Mul(amount, voteMultiplier)
        s1 == allocateTokensToMarket([s EXCEPT !.defiModule = @ + MintInflation],
                                     marketTokens, sent)
        s2 == CASE v \notin DOMAIN s.defis -> Fail(s1, "PanicNilDefi")
                [] rewards < 0 -> Fail(s1, "PanicNegativeCoins")
                [] OTHER -> allocateTokensToDefi(s1, v, rewards)
        s3 == AndThen(s2, LAMBDA t : SubCoins(t, amount - marketTokens, rewards))
    IN IF amount = 0 THEN s
       ELSE AndThen(s3, LAMBDA t : [t EXCEPT !.feePool = @ + (amount - marketTokens - rewards)])

(* Faulty variant: the defi's historical records are left behind.        *)
AfterDefiRemovedKeepHistorical(s, v) ==
    [s EXCEPT !.feePool = @ + Outstanding(s, v), !.outstanding = Del(@, v),
              !.commission = Del(@, v), !.current = Del(@, v)]

(* AfterDefiRemoved: force-withdraw the commission, give the rest of the  *)
(* outstanding rewards to the community pool, delete every reward record. *)
AfterDefiRemoved(s, v) ==
    LET commission == Commission(s, v)
        split == TruncateDecimal(commission)
        outstanding == Outstanding(s, v) - commission
        s1 == IF commission = 0 THEN s
              ELSE SubCoins([s EXCEPT !.feePool = @ + split.change], Outstanding(s, v), commission)
        s2 == IF commission = 0 \/ split.coins = 0 THEN s1
              ELSE AndThen(s1, LAMBDA t : IF split.coins > t.defiModule
                                         THEN Fail(t, "PanicBankSend")
                                         ELSE SendFromModule(t, WithdrawAddr(t, v), split.coins))
    IN AndThen(s2, LAMBDA t :
         [t EXCEPT !.feePool = @ + (IF commission = 0 THEN Outstanding(s, v) ELSE outstanding),
                   !.outstanding = Del(@, v), !.commission = Del(@, v),
                   !.historical = [k \in {k2 \in DOMAIN @ : k2[1] # v} |-> @[k]],
                   !.current = Del(@, v)])
=============================================================================

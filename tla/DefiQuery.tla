------------------------------ MODULE DefiQuery ------------------------------
(***************************************************************************)
(* The defi module's gRPC queries (keeper/grpc_query.go) and the helpers   *)
(* they call (querier.go, query_utils.go, alias_functions.go).  A query    *)
(* reads a store record s and answers [err, val]; it writes nothing.  The *)
(* reward queries do call IncrementDefiPeriod, on the query's context:    *)
(* baseapp serves a query from a cache of the committed store that is     *)
(* never written back, so the model computes on the incremented store and *)
(* drops it.  A page is the whole result; a list is a set or a function   *)
(* from its store key; gRPC status codes are error names.  Addresses      *)
(* always parse; an empty one is EmptyAddr.                               *)
(***************************************************************************)
EXTENDS DefiStaking

EmptyAddr == ""

Answer(x) == [err |-> None, val |-> x]
Refuse(e) == [err |-> e, val |-> None]

(* The first checks of a query: a request naming an empty address is     *)
(* refused with InvalidArgument.                                          *)
Requires(addrs, r) == IF EmptyAddr \in addrs THEN Refuse("InvalidArgument") ELSE r

DelegationsOf(s, del) == {k \in DOMAIN s.delegations : k[1] = del}
DelegationsTo(s, v) == {k \in DOMAIN s.delegations : k[2] = v}

(* DelegationToDelegationResponse: the shares and their worth in tokens,  *)
(* truncated; the delegation's defi must exist.                           *)
DelegationResponse(s, k) ==
    IF k[2] \notin DOMAIN s.defis THEN Refuse("ErrNoDefiFound")
    ELSE Answer([delegator |-> k[1], defi |-> k[2], shares |-> s.delegations[k],
                 balance |-> TruncateInt(TokensFromShares(s.defis[k[2]], s.delegations[k]))])

(* DelegationsToDelegationResponses: the first failure aborts the list,   *)
(* and the gRPC method reports it as Internal.                            *)
DelegationResponses(s, ks) ==
    IF \E k \in ks : DelegationResponse(s, k).err # None THEN Refuse("Internal")
    ELSE Answer({DelegationResponse(s, k).val : k \in ks})

(* Querier.Defis: the status filter must name a status or be empty.       *)
QueryDefis(s, status) ==
    IF status \notin BondStatus \cup {EmptyAddr} THEN Refuse("InvalidArgument")
    ELSE Answer(Restrict(s.defis, {v \in DOMAIN s.defis :
                                     status = EmptyAddr \/ s.defis[v].status = status}))

QueryDefi(s, v) ==
    Requires({v}, IF v \notin DOMAIN s.defis THEN Refuse("NotFound") ELSE Answer(s.defis[v]))

DefiDelegations(s, v) == Requires({v}, DelegationResponses(s, DelegationsTo(s, v)))

(* Read through the by-defi index, which SetUnbondingDelegation and       *)
(* RemoveUnbondingDelegation write with the record itself.                *)
DefiUnbondingDelegations(s, v) ==
    Requires({v}, Answer(Restrict(s.ubds, {k \in DOMAIN s.ubds : k[2] = v})))

DefiDelegation(s, del, v) ==
    Requires({del, v},
      IF <<del, v>> \notin DOMAIN s.delegations THEN Refuse("NotFound")
      ELSE IF DelegationResponse(s, <<del, v>>).err # None THEN Refuse("Internal")
      ELSE DelegationResponse(s, <<del, v>>))

DefiUnbondingDelegation(s, del, v) ==
    Requires({del, v},
      IF <<del, v>> \notin DOMAIN s.ubds THEN Refuse("NotFound") ELSE Answer(s.ubds[<<del, v>>]))

(* A delegator without delegations is NotFound, not an empty list.       *)
DefiDelegatorDelegations(s, del) ==
    Requires({del},
      IF DelegationsOf(s, del) = {} THEN Refuse("NotFound")
      ELSE DelegationResponses(s, DelegationsOf(s, del)))

(* Keeper.GetDelegatorDefi: a delegation whose defi is gone panics.      *)
GetDelegatorDefi(s, del, v) ==
    CASE <<del, v>> \notin DOMAIN s.delegations -> Refuse("ErrNoDelegation")
      [] v \notin DOMAIN s.defis -> Refuse("PanicNoDefiFound")
      [] OTHER -> Answer(s.defis[v])

DelegatorDefi(s, del, v) ==
    Requires({del, v},
      IF GetDelegatorDefi(s, del, v).err = "ErrNoDelegation" THEN Refuse("Internal")
      ELSE GetDelegatorDefi(s, del, v))

(* Faulty variant: the defi is looked up by the delegation's delegator   *)
(* address instead of its defi address.                                   *)
DelegatorDefisByDelegator(s, del) ==
    LET vs == {k[1] : k \in DelegationsOf(s, del)} IN
    Requires({del}, IF vs \subseteq DOMAIN s.defis THEN Answer(Restrict(s.defis, vs))
                    ELSE Refuse("Internal"))

(* The paginated walk returns ErrNoDefiFound for a delegation whose defi  *)
(* is gone, reported as Internal.                                         *)
DelegatorDefis(s, del) ==
    LET vs == {k[2] : k \in DelegationsOf(s, del)} IN
    Requires({del}, IF vs \subseteq DOMAIN s.defis THEN Answer(Restrict(s.defis, vs))
                    ELSE Refuse("Internal"))

DefiDelegatorUnbondingDelegations(s, del) ==
    Requires({del}, Answer(Restrict(s.ubds, {k \in DOMAIN s.ubds : k[1] = del})))

DefiPool(s) == Answer([notBonded |-> s.notBondedPool, bonded |-> s.bondedPool])

(* Neither checks that the defi exists: an unknown one has zero.          *)
DefiOutstandingRewards(s, v) == Requires({v}, Answer(Outstanding(s, v)))
DefiCommission(s, v) == Requires({v}, Answer(Commission(s, v)))

(* The body shared by the reward queries: end the defi's period in the   *)
(* query's context and compute the delegation's rewards up to it.  The    *)
(* defi passed on is the one read before the increment.                   *)
RewardsAfterIncrement(s, del, v) ==
    LET d == s.defis[v]
        s1 == IncrementDefiPeriod(s, v, d)
        r == CalculateDelegationRewards(s1, v, d, del, Current(s, v).period)
    IN CASE s1.err # None -> [st |-> s1, err |-> s1.err, rewards |-> 0]
         [] r.err # None -> [st |-> s1, err |-> r.err, rewards |-> 0]
         [] OTHER -> [st |-> s1, err |-> None, rewards |-> r.rewards]

(* Faulty variant: the rewards are computed up to the last ended period, *)
(* without ending the current one.                                        *)
DefiDelegationRewardsNoIncrement(s, del, v) ==
    Requires({del, v},
      CASE v \notin DOMAIN s.defis -> Refuse("ErrNoDefiFound")
        [] <<del, v>> \notin DOMAIN s.delegations -> Refuse("ErrBadDelegatorAddr")
        [] OTHER -> LET r == CalculateDelegationRewards(s, v, s.defis[v], del, Current(s, v).period - 1)
                    IN IF r.err # None THEN Refuse(r.err) ELSE Answer(r.rewards))

DefiDelegationRewards(s, del, v) ==
    Requires({del, v},
      CASE v \notin DOMAIN s.defis -> Refuse("ErrNoDefiFound")
        [] <<del, v>> \notin DOMAIN s.delegations -> Refuse("ErrBadDelegatorAddr")
        [] OTHER -> LET r == RewardsAfterIncrement(s, del, v) IN
                    IF r.err # None THEN Refuse(r.err) ELSE Answer(r.rewards))

(* DelegationTotalRewards: every delegation of del, one after the other   *)
(* in the same context, each period increment seen by the next step.  A   *)
(* delegation whose defi is gone dereferences nil.                        *)
DefiDelegationTotalRewards(s, del) ==
    LET step(v, acc) ==
          IF acc.err # None THEN acc
          ELSE IF v \notin DOMAIN acc.st.defis THEN [acc EXCEPT !.err = "PanicNilDefi"]
          ELSE LET r == RewardsAfterIncrement(acc.st, del, v) IN
               [st |-> r.st, err |-> r.err, rewards |-> Put(acc.rewards, v, r.rewards),
                total |-> acc.total + r.rewards]
        res == FoldSet(step, [st |-> s, err |-> None, rewards |-> <<>>, total |-> 0],
                       {k[2] : k \in DelegationsOf(s, del)})
    IN Requires({del}, IF res.err # None THEN Refuse(res.err)
                       ELSE Answer([rewards |-> res.rewards, total |-> res.total]))

DelegatorDefisEx(s, del) == Requires({del}, Answer({k[2] : k \in DelegationsOf(s, del)}))

DefiDelegatorWithdrawAddress(s, del) == Requires({del}, Answer(WithdrawAddr(s, del)))

DefiCommunityPool(s) == Answer(s.feePool)
=============================================================================

----------------------------- MODULE DefiStaking -----------------------------
(***************************************************************************)
(* The defi registry and delegation ledger of x/defi/keeper: status       *)
(* transitions (defi_state_change.go), the unbonding-defi queue and        *)
(* RemoveDefi (defi.go), Delegate / Unbond / Undelegate /                  *)
(* CompleteUnbonding and the unbonding-delegation queue (delegation.go),   *)
(* and the EndBlock sweep BlockDefiUpdates.  The bank is three balances:  *)
(* account balances, the bonded pool and the not-bonded pool.             *)
(*                                                                         *)
(* Store fields: defis (address -> defi), delegations (<<del, defi>> ->    *)
(* shares), ubds (<<del, defi>> -> entries), defiQueue (<<time, height>>   *)
(* -> addresses), ubdQueue (time -> <<del, defi>> pairs).  s.ret carries   *)
(* a returned value (Unbond's amount) to the caller.                       *)
(***************************************************************************)
EXTENDS DefiRewards, SequencesExt

CONSTANTS UnbondingTime, MaxEntries

SetDefi(s, v, d) == [s EXCEPT !.defis = Put(@, v, d)]

(* RemoveDefi: only an Unbonded defi without tokens; then AfterDefiRemoved.*)
RemoveDefi(s, v) ==
    CASE v \notin DOMAIN s.defis -> s
      [] s.defis[v].status # Unbonded -> Fail(s, "PanicRemoveBondedDefi")
      [] s.defis[v].tokens > 0 -> Fail(s, "PanicRemoveDefiWithTokens")
      [] OTHER -> AfterDefiRemoved([s EXCEPT !.defis = Del(@, v)], v)

(* The defi queue: the addresses keyed by <<time, height>>; a missing    *)
(* key reads as the empty list.                                           *)
GetUnbondingDefis(s, key) == Get(s.defiQueue, key, <<>>)

SetUnbondingDefisQueue(s, key, addrs) == [s EXCEPT !.defiQueue = Put(@, key, addrs)]

InsertUnbondingDefiQueue(s, v, d) ==
    LET key == <<d.unbondingTime, d.unbondingHeight>> IN
    SetUnbondingDefisQueue(s, key, Append(GetUnbondingDefis(s, key), v))

(* Faulty variant: the queue key is taken from the defi as it was before  *)
(* its unbonding time and height were set.                                *)
beginUnbondingDefiStaleKey(s, v, d) ==
    LET d2 == [d EXCEPT !.status = Unbonding,
                        !.unbondingTime = s.time + UnbondingTime,
                        !.unbondingHeight = s.height]
    IN IF d.status # Bonded THEN Fail(s, "PanicBadStateTransition")
       ELSE InsertUnbondingDefiQueue(SetDefi(s, v, d2), v, d)

(* beginUnbondingDefi: only the status, the unbonding time and height    *)
(* and the queue change (the AfterDefiBeginUnbonding hook is empty).      *)
beginUnbondingDefi(s, v, d) ==
    LET d2 == [d EXCEPT !.status = Unbonding,
                        !.unbondingTime = s.time + UnbondingTime,
                        !.unbondingHeight = s.height]
    IN IF d.status # Bonded THEN Fail(s, "PanicBadStateTransition")
       ELSE InsertUnbondingDefiQueue(SetDefi(s, v, d2), v, d2)

bondedToUnbonding(s, v, d) ==
    IF d.status # Bonded THEN Fail(s, "PanicBadStateTransition")
    ELSE beginUnbondingDefi(s, v, d)

(* completeUnbondingDefi: the status becomes Unbonded, nothing else.      *)
completeUnbondingDefi(s, v) == SetDefi(s, v, [s.defis[v] EXCEPT !.status = Unbonded])

UnbondingToUnbonded(s, v) ==
    IF s.defis[v].status # Unbonding THEN Fail(s, "PanicBadStateTransition")
    ELSE completeUnbondingDefi(s, v)

(* Faulty variant: a matured defi without shares is not removed.         *)
UnbondMatureDefiKeep(s, v) ==
    CASE v \notin DOMAIN s.defis -> Fail(s, "PanicDefiNotFound")
      [] s.defis[v].status # Unbonding -> Fail(s, "PanicDefiNotUnbonding")
      [] OTHER -> UnbondingToUnbonded(s, v)

(* The body of UnbondAllMatureDefis for one queued address.               *)
UnbondMatureDefi(s, v) ==
    CASE v \notin DOMAIN s.defis -> Fail(s, "PanicDefiNotFound")
      [] s.defis[v].status # Unbonding -> Fail(s, "PanicDefiNotUnbonding")
      [] OTHER -> AndThen(UnbondingToUnbonded(s, v), LAMBDA s1 :
                  IF s1.defis[v].shares = 0 THEN RemoveDefi(s1, v) ELSE s1)

(* UnbondAllMatureDefis: the queue keys up to (time, height), in key      *)
(* order; a key is deleted after its addresses are processed.              *)
KeyBefore(a, b) == a[1] < b[1] \/ (a[1] = b[1] /\ a[2] < b[2])
UnbondAllMatureDefis(s) ==
    LET mature == {k \in DOMAIN s.defiQueue : k[2] <= s.height /\ k[1] <= s.time}
        unbondKey(t, k) ==
            AndThen(FoldLeft(LAMBDA u, v : AndThen(u, LAMBDA w : UnbondMatureDefi(w, v)),
                             t, t.defiQueue[k]),
                    LAMBDA u : [u EXCEPT !.defiQueue = Del(@, k)])
    IN FoldLeft(LAMBDA t, k : AndThen(t, LAMBDA u : unbondKey(u, k)),
                s, SetToSortSeq(mature, KeyBefore))

(* BeforeDelegationSharesModified: a failed withdrawal panics.            *)
BeforeDelegationSharesModified(s, del, v) ==
    Bind(withdrawDelegationRewards(s, v, s.defis[v], del), LAMBDA r :
    IF r.err \in Errors THEN Fail(s, "PanicWithdrawInHook") ELSE r)

(* AddDefiTokensAndShares and RemoveDefiTokensAndShares: the defi record *)
(* updated and saved; the tokens removed are returned in s.ret.          *)
AddDefiTokensAndShares(s, v, d, amt) == SetDefi(s, v, AddTokensFromDel(d, amt))

RemoveDefiTokensAndShares(s, v, shares) ==
    [SetDefi(s, v, RemoveDelShares(s.defis[v], shares)) EXCEPT
        !.ret = IssuedTokens(s.defis[v], shares)]

(* Keeper.Delegate with tokenSrc Unbonded and subtractAccount TRUE, the   *)
(* only arguments it is called with; d is the defi the handler read.      *)
Delegate(s, del, amt, v, d) ==
    LET found == <<del, v>> \in DOMAIN s.delegations
        s1 == IF found THEN BeforeDelegationSharesModified(s, del, v)
              ELSE IncrementDefiPeriod(s, v, s.defis[v])
        toBonded == d.status = Bonded
        s2 == AndThen(s1, LAMBDA t :
                IF t.balances[del] < amt THEN Fail(t, "ErrInsufficientFunds")
                ELSE [t EXCEPT !.balances[del] = @ - amt,
                               !.bondedPool = IF toBonded THEN @ + amt ELSE @,
                               !.notBondedPool = IF toBonded THEN @ ELSE @ + amt])
        s3 == AndThen(s2, LAMBDA t :
                [AddDefiTokensAndShares(t, v, d, amt) EXCEPT
                    !.delegations = Put(@, <<del, v>>, Get(@, <<del, v>>, 0) + IssuedShares(d, amt))])
    IN IF InvalidExRate(d) THEN Fail(s, "ErrInvalidExRate")
       ELSE AndThen(s3, LAMBDA t : initializeDelegation(t, v, del))

(* Faulty variant: AfterDelegationModified runs before SetDelegation, so *)
(* the new starting stake is taken from the old shares.                  *)
UnbondHookFirst(s, del, v, shares) ==
    IF <<del, v>> \notin DOMAIN s.delegations THEN Fail(s, "ErrNoDelegatorForAddress")
    ELSE AndThen(BeforeDelegationSharesModified(s, del, v), LAMBDA s1 :
    LET remaining == s.delegations[<<del, v>>] - shares
        d == s1.defis[v]
    IN CASE remaining < 0 -> Fail(s1, "ErrInsufficientShares")
         [] v \notin DOMAIN s1.defis -> Fail(s1, "ErrNoDefiFound")
         [] OTHER ->
            AndThen(IF del = v /\ TruncateInt(TokensFromShares(d, remaining)) < d.minSelf
                    THEN bondedToUnbonding(s1, v, d) ELSE s1, LAMBDA s2 :
            AndThen(IF remaining = 0 THEN [s2 EXCEPT !.delegations = Del(@, <<del, v>>)]
                    ELSE AndThen(initializeDelegation(s2, v, del), LAMBDA u :
                           [u EXCEPT !.delegations = Put(@, <<del, v>>, remaining)]), LAMBDA s3 :
            AndThen(RemoveDefiTokensAndShares(s3, v, shares), LAMBDA s4 :
            IF s4.defis[v].shares = 0 /\ s4.defis[v].status = Unbonded
            THEN RemoveDefi(s4, v) ELSE s4))))

(* Keeper.Unbond: the rewards are withdrawn before the shares are checked;*)
(* the new starting stake is taken before the tokens leave the defi.      *)
Unbond(s, del, v, shares) ==
    IF <<del, v>> \notin DOMAIN s.delegations THEN Fail(s, "ErrNoDelegatorForAddress")
    ELSE AndThen(BeforeDelegationSharesModified(s, del, v), LAMBDA s1 :
    LET remaining == s.delegations[<<del, v>>] - shares
        d == s1.defis[v]
        belowMin == del = v /\ TruncateInt(TokensFromShares(d, remaining)) < d.minSelf
    IN CASE remaining < 0 -> Fail(s1, "ErrInsufficientShares")
         [] v \notin DOMAIN s1.defis -> Fail(s1, "ErrNoDefiFound")
         [] OTHER ->
            AndThen(IF belowMin THEN bondedToUnbonding(s1, v, d) ELSE s1, LAMBDA s2 :
            AndThen(IF remaining = 0 THEN [s2 EXCEPT !.delegations = Del(@, <<del, v>>)]
                    ELSE initializeDelegation([s2 EXCEPT !.delegations = Put(@, <<del, v>>, remaining)],
                                              v, del), LAMBDA s3 :
            AndThen(RemoveDefiTokensAndShares(s3, v, shares), LAMBDA s4 :
            IF s4.defis[v].shares = 0 /\ s4.defis[v].status = Unbonded
            THEN RemoveDefi(s4, v) ELSE s4))))

(* bondedTokensToNotBonded: a module-to-module send that panics on error. *)
bondedTokensToNotBonded(s, amt) ==
    IF s.bondedPool < amt THEN Fail(s, "PanicBankSend")
    ELSE [s EXCEPT !.bondedPool = @ - amt, !.notBondedPool = @ + amt]

(* HasMaxUnbondingDelegationEntries, SetUnbondingDelegationEntry (a new   *)
(* entry is appended) and InsertUBDQueue (the pair is appended to the     *)
(* time slice of its completion time, duplicates included).               *)
HasMaxUnbondingDelegationEntries(s, del, v) ==
    Len(Get(s.ubds, <<del, v>>, <<>>)) >= MaxEntries

(* SetUnbondingDelegation and RemoveUnbondingDelegation write the record *)
(* and its by-defi index together; the model keeps one map for both.      *)
SetUnbondingDelegation(s, del, v, entries) ==
    [s EXCEPT !.ubds = Put(@, <<del, v>>, entries)]

RemoveUnbondingDelegation(s, del, v) == [s EXCEPT !.ubds = Del(@, <<del, v>>)]

SetUnbondingDelegationEntry(s, del, v, height, completion, balance) ==
    SetUnbondingDelegation(s, del, v, Append(Get(s.ubds, <<del, v>>, <<>>),
                           NewUnbondingDelegationEntry(height, completion, balance)))

GetUBDQueueTimeSlice(s, completion) == Get(s.ubdQueue, completion, <<>>)

SetUBDQueueTimeSlice(s, completion, pairs) == [s EXCEPT !.ubdQueue = Put(@, completion, pairs)]

(* Faulty variant: the time slice is written afresh, dropping the pairs   *)
(* already queued at that completion time.                                *)
InsertUBDQueueOverwrite(s, del, v, completion) ==
    [s EXCEPT !.ubdQueue = Put(@, completion, <<<<del, v>>>>)]

InsertUBDQueue(s, del, v, completion) ==
    SetUBDQueueTimeSlice(s, completion, Append(GetUBDQueueTimeSlice(s, completion), <<del, v>>))

(* Keeper.Undelegate: the status is read before Unbond; the completion    *)
(* time is always a full unbonding period from now.                       *)
Undelegate(s, del, v, shares) ==
    LET wasBonded == s.defis[v].status = Bonded
        completion == s.time + UnbondingTime
    IN CASE v \notin DOMAIN s.defis -> Fail(s, "ErrNoDelegatorForAddress")
         [] HasMaxUnbondingDelegationEntries(s, del, v) -> Fail(s, "ErrMaxUnbondingEntries")
         [] OTHER ->
            AndThen(Unbond(s, del, v, shares), LAMBDA s1 :
            AndThen(IF wasBonded THEN bondedTokensToNotBonded(s1, s1.ret) ELSE s1, LAMBDA t :
            InsertUBDQueue(SetUnbondingDelegationEntry(t, del, v, s.height, completion, s1.ret),
                           del, v, completion)))

(* DefiUnbondAmount: the shares worth amt, capped at the delegation's     *)
(* shares; returned in s.ret.                                              *)
DefiUnbondAmount(s, del, v, amt) ==
    LET d == s.defis[v]
        delShares == s.delegations[<<del, v>>]
        shares == SharesFromTokens(d, amt)
    IN CASE v \notin DOMAIN s.defis -> Fail(s, "ErrNoDefiFound")
         [] <<del, v>> \notin DOMAIN s.delegations -> Fail(s, "ErrNoDelegation")
         [] d.tokens = 0 -> Fail(s, "ErrInsufficientShares")
         [] SharesFromTokensTruncated(d, amt) > delShares -> Fail(s, "ErrBadSharesAmount")
         [] OTHER -> [s EXCEPT !.ret = IF shares > delShares THEN delShares ELSE shares]

(* Keeper.CompleteUnbonding: mature entries are paid from the not-bonded  *)
(* pool in order; a failed payment returns at once, the ones before it    *)
(* already made and the unbonding delegation not saved.                   *)
CompleteUnbonding(s, del, v) ==
    LET pay(acc0, e) == Bind(acc0, LAMBDA acc :
          CASE acc.st.err # None -> acc
            [] ~IsMature(e, s.time) -> [acc EXCEPT !.kept = Append(@, e)]
            [] e.balance = 0 -> acc
            [] acc.st.notBondedPool < e.balance -> [acc EXCEPT !.st = Fail(@, "ErrInsufficientFunds")]
            [] OTHER -> [acc EXCEPT !.st = [@ EXCEPT !.notBondedPool = @ - e.balance,
                                                     !.balances[del] = @ + e.balance]])
    IN IF <<del, v>> \notin DOMAIN s.ubds THEN Fail(s, "ErrNoUnbondingDelegation")
       ELSE Bind(FoldLeft(pay, [st |-> s, kept |-> <<>>], s.ubds[<<del, v>>]), LAMBDA r :
            CASE r.st.err # None -> r.st
              [] r.kept = <<>> -> RemoveUnbondingDelegation(r.st, del, v)
              [] OTHER -> SetUnbondingDelegation(r.st, del, v, r.kept))

(* DequeueAllMatureUBDQueue: the pairs of every time slice up to now, in  *)
(* time order, and the store with those slices deleted.                   *)
DequeueAllMatureUBDQueue(s) ==
    LET due == {t \in DOMAIN s.ubdQueue : t <= s.time}
        times == SetToSortSeq(due, <)
    IN [pairs |-> FlattenSeq([i \in DOMAIN times |-> s.ubdQueue[times[i]]]),
        st |-> [s EXCEPT !.ubdQueue = Restrict(@, DOMAIN @ \ due)]]

(* BlockDefiUpdates (EndBlock): mature defis, then the mature unbonding   *)
(* delegations, dequeued in time order; a CompleteUnbonding error is      *)
(* skipped and what it did before the error stays.                        *)
BlockDefiUpdates(s) ==
    LET complete(t, p) ==
          AndThen(t, LAMBDA u : Bind(CompleteUnbonding(u, p[1], p[2]), LAMBDA r :
                                IF r.err \in Errors THEN [r EXCEPT !.err = None] ELSE r))
    IN AndThen(UnbondAllMatureDefis(s), LAMBDA s1 :
       Bind(DequeueAllMatureUBDQueue(s1), LAMBDA dq : FoldLeft(complete, dq.st, dq.pairs)))
=============================================================================

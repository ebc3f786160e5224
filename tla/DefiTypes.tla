------------------------------ MODULE DefiTypes ------------------------------
(***************************************************************************)
(* The Defi record of x/defi/types/defi.go and the key/value store it is   *)
(* kept in.  A defi is a record with the fields the keeper reads: status,  *)
(* tokens (sdk.Int), shares (DelegatorShares, sdk.Dec), minSelf            *)
(* (MinSelfDelegation) and the unbonding time and height.  The             *)
(* description, commission text and operator string are left out: no      *)
(* operation of the keeper branches on them.                               *)
(***************************************************************************)
EXTENDS DefiDec, TLC
LOCAL INSTANCE Functions

Unbonded == "Unbonded"
Unbonding == "Unbonding"
Bonded == "Bonded"
BondStatus == {Unbonded, Unbonding, Bonded}

(* KVStore get / set / delete: a Get of a missing key yields the Go zero   *)
(* value, which the caller passes as zero.                                  *)
Get(f, k, zero) == IF k \in DOMAIN f THEN f[k] ELSE zero
Put(f, k, x) == (k :> x) @@ f
Del(f, k) == Restrict(f, DOMAIN f \ {k})

(* NewDefi: a fresh defi is Unbonded, empty, with MinSelfDelegation one.   *)
NewDefi == [status |-> Unbonded, tokens |-> 0, shares |-> 0, minSelf |-> 1,
            unbondingTime |-> 0, unbondingHeight |-> 0]

InvalidExRate(v) == v.tokens = 0 /\ v.shares > 0

TokensFromShares(v, shares) == Quo(MulInt(shares, v.tokens), v.shares)

TokensFromSharesTruncated(v, shares) == QuoTruncate(MulInt(shares, v.tokens), v.shares)

(* SharesFromTokens errs on a defi without tokens; callers test that first.*)
SharesFromTokens(v, amt) == QuoInt(MulInt(v.shares, amt), v.tokens)

SharesFromTokensTruncated(v, amt) == QuoTruncate(MulInt(v.shares, amt), ToDec(v.tokens))

(* AddTokensFromDel: the shares issued for amt; the first delegation sets  *)
(* the exchange rate to one.                                               *)
IssuedShares(v, amt) == IF v.shares = 0 THEN ToDec(amt) ELSE SharesFromTokens(v, amt)

AddTokensFromDel(v, amt) ==
    [v EXCEPT !.tokens = @ + amt, !.shares = @ + IssuedShares(v, amt)]

(* RemoveDelShares: the tokens paid out for delShares; the last shares get *)
(* every remaining token, otherwise the rounded worth is truncated.         *)
IssuedTokens(v, delShares) ==
    IF v.shares - delShares = 0 THEN v.tokens
    ELSE TruncateInt(TokensFromShares(v, delShares))

(* Faulty variant: the defi's DelegatorShares are not reduced.          *)
RemoveDelSharesKeepShares(v, delShares) ==
    [v EXCEPT !.tokens = @ - IssuedTokens(v, delShares)]

RemoveDelShares(v, delShares) ==
    [v EXCEPT !.tokens = @ - IssuedTokens(v, delShares), !.shares = @ - delShares]

(* UnbondingDelegationEntry and IsMature (types/delegation.go).            *)
NewUnbondingDelegationEntry(height, completion, balance) ==
    [creationHeight |-> height, completionTime |-> completion,
     initialBalance |-> balance, balance |-> balance]

IsMature(e, now) == e.completionTime <= now
=============================================================================

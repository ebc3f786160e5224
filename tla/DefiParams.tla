----------------------------- MODULE DefiParams -----------------------------
(***************************************************************************)
(* The validation of the defi module's parameters (types/params.go).       *)
(* Params.Validate runs at genesis (ValidateGenesis) and the same per-key  *)
(* validators guard every governance change of a key (ParamSetPairs).      *)
(* Rates are Decs of DefiDec; the bond denom, MaxDefis and                 *)
(* HistoricalEntries are not used by the models and are left out.         *)
(***************************************************************************)
EXTENDS DefiDec

\* validateCommunityTax, validateCommissionRate and validateMarketRate:
\* not negative and not above one.  Each rate is checked on its own.
validateRate(v) == 0 <= v /\ v <= DecOne

\* validateMintInflation: sdk.Coin.IsValid, a non-negative amount.
validateMintInflation(v) == v >= 0

\* validateUnbondingTime, validateMaxEntries: strictly positive.
validatePositive(v) == v > 0

\* Params.Validate over the parameters the models use.
ValidateParams(p) ==
    /\ validateMintInflation(p.mintInflation)
    /\ validateRate(p.communityTax)
    /\ validateRate(p.commissionRate)
    /\ validateRate(p.marketRate)
    /\ validatePositive(p.unbondingTime)
    /\ validatePositive(p.maxEntries)
=============================================================================

---------------------------- MODULE MCDefiKeeper ----------------------------
(* Model-checking instance of DefiKeeper: constants and the block bound.  *)
EXTENDS DefiKeeper

CONSTANTS a1, a2, MaxHeight

MCAccounts == {a1, a2}
MCDefis == {a1, a2}
MCGenesisDefis == {a1}
(* a1, the genesis defi, may send its rewards and commission to a2.    *)
MCWithdrawAddrMsgs == {<<a1, a2>>}

(* Blocks explored: states past this height are not expanded.             *)
HeightBound == height <= MaxHeight

-----------------------------------------------------------------------------
(* Liveness.  CometBFT keeps committing blocks whatever transactions       *)
(* arrive, so EndBlock cannot be put off for ever: weak fairness on it.   *)
(* Blocks are produced up to MaxHeight, after which the behaviour stops;  *)
(* the last EndBlock runs at height MaxHeight - 1, at time MaxHeight - 2. *)
LastEndBlockTime == MaxHeight - 2
BlockProduced == EndBlock /\ height < MaxHeight
LiveNext == Next /\ height' <= MaxHeight
LiveSpec == Init /\ [][LiveNext]_vars /\ WF_vars(BlockProduced)

(* An unbonding entry of del from v that matures at or before time t.     *)
DueBy(k, t) == k \in DOMAIN ubds /\ \E i \in DOMAIN ubds[k] : ubds[k][i].completionTime <= t

(* Spec 4.2: the EndBlock sweep pays out every mature unbonding entry.    *)
(* Whatever the delegators do, each entry that matures by the last block *)
(* is eventually taken out of its unbonding delegation by                 *)
(* DequeueAllMatureUBDQueue and CompleteUnbonding.                        *)
MatureEntriesPaid ==
    \A k \in Accounts \X Defis : DueBy(k, LastEndBlockTime) ~> ~DueBy(k, LastEndBlockTime)
=============================================================================

----------------------------- MODULE DefiGenesis -----------------------------
(***************************************************************************)
(* The defi module's genesis (keeper/genesis.go): ExportGenesis, which     *)
(* lists the stores, ValidateGenesis, and InitGenesis, which writes them   *)
(* back.  A genesis state is a record of the lists, each a function from   *)
(* its store key; the order of a list is the store's key order, which the  *)
(* model does not fix.  Addresses always parse, so the Bech32 panics are   *)
(* left out.                                                               *)
(***************************************************************************)
EXTENDS DefiStaking, DefiParams

(* ExportGenesis: every store but the two queues, with Exported set.       *)
ExportGenesis(s) ==
    [feePool |-> s.feePool, defis |-> s.defis, delegations |-> s.delegations,
     ubds |-> s.ubds, withdrawInfos |-> s.withdrawAddrs, outstanding |-> s.outstanding,
     commissions |-> s.commission, historical |-> s.historical, current |-> s.current,
     startingInfos |-> s.startingInfo, exported |-> TRUE]

(* validateGenesisStateDefis: a defi without delegator shares must be     *)
(* Unbonding.  FeePool.ValidateGenesis is not part of this repository.    *)
validateGenesisStateDefis(ds) ==
    \A v \in DOMAIN ds : ds[v].shares = 0 => ds[v].status = Unbonding

ValidateGenesis(g, p) == validateGenesisStateDefis(g.defis) /\ ValidateParams(p)

SumOver(S, f(_)) == FoldSet(LAMBDA x, acc : acc + f(x), 0, S)

(* InitGenesis over a store in which the bank genesis already ran.  Defis *)
(* first (with AfterDefiCreated unless exported, and the unbonding-defi    *)
(* queue for an Unbonding one), then delegations (with                    *)
(* BeforeDelegationCreated and AfterDelegationModified unless exported),  *)
(* then unbonding delegations, each entry queued at its completion time.  *)
(* A pool account gets the tokens counted for it only when the bank left  *)
(* it empty; the reward records are written over the hooks' ones, and the *)
(* defi module account, when empty, gets its truncated holdings.          *)
InitGenesis(s, g) ==
    LET setDefi(v, t) ==
          LET t1 == SetDefi(t, v, g.defis[v])
              t2 == IF g.exported THEN t1 ELSE initializeDefi(t1, v)
          IN IF g.defis[v].status = Unbonding THEN InsertUnbondingDefiQueue(t2, v, g.defis[v]) ELSE t2
        setDelegation(k, t) ==
          LET t1 == IF g.exported THEN t ELSE IncrementDefiPeriod(t, k[2], t.defis[k[2]])
          IN AndThen(t1, LAMBDA u :
             LET u1 == [u EXCEPT !.delegations = Put(@, k, g.delegations[k])]
             IN IF g.exported THEN u1 ELSE initializeDelegation(u1, k[2], k[1]))
        setUbd(k, t) ==
          FoldSeq(LAMBDA e, u : InsertUBDQueue(u, k[1], k[2], e.completionTime),
                  [t EXCEPT !.ubds = Put(@, k, g.ubds[k])], g.ubds[k])
        bondedTokens == SumOver({v \in DOMAIN g.defis : g.defis[v].status = Bonded},
                                LAMBDA v : g.defis[v].tokens)
        notBondedTokens ==
            SumOver({v \in DOMAIN g.defis : g.defis[v].status # Bonded}, LAMBDA v : g.defis[v].tokens)
            + SumOver(DOMAIN g.ubds, LAMBDA k : FoldSeq(LAMBDA e, b : b + e.balance, 0, g.ubds[k]))
        holdings == SumOver(DOMAIN g.outstanding, LAMBDA v : g.outstanding[v]) + g.feePool
        s1 == FoldSet(setDefi, [s EXCEPT !.feePool = g.feePool], DOMAIN g.defis)
        s2 == FoldSet(LAMBDA k, t : AndThen(t, LAMBDA u : setDelegation(k, u)), s1, DOMAIN g.delegations)
    IN AndThen(s2, LAMBDA t2 :
       LET s3 == FoldSet(setUbd, t2, DOMAIN g.ubds) IN
       [s3 EXCEPT !.bondedPool = IF @ = 0 THEN bondedTokens ELSE @,
                  !.notBondedPool = IF @ = 0 THEN notBondedTokens ELSE @,
                  !.withdrawAddrs = g.withdrawInfos @@ @,
                  !.outstanding = g.outstanding @@ @,
                  !.commission = g.commissions @@ @,
                  !.historical = g.historical @@ @,
                  !.current = g.current @@ @,
                  !.startingInfo = g.startingInfos @@ @,
                  !.defiModule = IF @ = 0 THEN TruncateInt(holdings) ELSE @])
=============================================================================

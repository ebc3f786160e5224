---------------------------- MODULE TokenRegistry ----------------------------
(***************************************************************************)
(* What the x/token module promises about its registry of tokens and the   *)
(* coins issued of each, stated without the keeper's stores, indexes, bank *)
(* balances or messages.                                                   *)
(*                                                                         *)
(*   registry  symbol -> [unit, owner, mintable, total]                    *)
(*   unlocked  the registered units that may be sent                       *)
(*   issued    unit -> coins of it in existence plus coins burned through  *)
(*             the token module                                            *)
(*                                                                         *)
(* A token, once registered, keeps its unit and its total; a unit belongs  *)
(* to one token; coins are created only by registering a token or by      *)
(* minting a mintable one, never beyond its total; an owner-less token     *)
(* never gets an owner and no token passes to a blocked address; a unit,  *)
(* once unlocked, stays unlocked.  The one way issued coins disappear is   *)
(* the burn of the fee denom's share of a fee, which the module does not   *)
(* record.                                                                 *)
(***************************************************************************)
EXTENDS Naturals

CONSTANTS Owners, BlockedAddrs, NoOwner, FeeDenom

VARIABLES registry, unlocked, issued

rvars == <<registry, unlocked, issued>>

Units(r) == {r[x].unit : x \in DOMAIN r}

(* Every issued count other than those in keep is left alone, except that *)
(* the fee denom may lose coins to a fee burn.                            *)
OthersOnlyFeeBurned(keep) ==
    \A u \in DOMAIN issued \ keep :
        issued'[u] = issued[u] \/ (u = FeeDenom /\ issued'[u] < issued[u])

WithinTotals(r, i) == \A x \in DOMAIN r : i[r[x].unit] <= r[x].total

Init ==
    /\ \A x, y \in DOMAIN registry : x # y => registry[x].unit # registry[y].unit
    /\ DOMAIN issued = Units(registry)
    /\ WithinTotals(registry, issued)
    /\ unlocked \subseteq Units(registry)

(* New symbols, each with a unit no other token has; their units' locks  *)
(* are set once.  One transaction may issue several tokens.               *)
Register(X) ==
    LET new == {registry'[x].unit : x \in X} IN
    /\ X # {} /\ X \cap DOMAIN registry = {}
    /\ DOMAIN registry' = DOMAIN registry \cup X
    /\ \A y \in DOMAIN registry : registry'[y] = registry[y]
    /\ \A x \in X : /\ registry'[x].unit \notin Units(registry)
                    /\ registry'[x].owner \notin BlockedAddrs
                    /\ issued'[registry'[x].unit] <= registry'[x].total
    /\ \A x, y \in X : x # y => registry'[x].unit # registry'[y].unit
    /\ DOMAIN issued' = DOMAIN issued \cup new
    /\ OthersOnlyFeeBurned({})
    /\ unlocked' \ new = unlocked

(* Coins of a mintable token, within its total.                           *)
Mint(x) ==
    LET u == registry[x].unit IN
    /\ x \in DOMAIN registry
    /\ registry[x].mintable
    /\ DOMAIN issued' = DOMAIN issued
    /\ issued'[u] > issued[u] \/ u = FeeDenom
    /\ issued'[u] <= registry[x].total
    /\ OthersOnlyFeeBurned({u})
    /\ UNCHANGED <<registry, unlocked>>

SetMintable(x) ==
    /\ x \in DOMAIN registry
    /\ \E b \in BOOLEAN : registry' = [registry EXCEPT ![x].mintable = b]
    /\ UNCHANGED <<unlocked, issued>>

(* A token that has an owner passes to another, unblocked one.            *)
SetOwner(x) ==
    /\ x \in DOMAIN registry
    /\ registry[x].owner # NoOwner
    /\ \E o \in Owners \ (BlockedAddrs \cup {registry[x].owner}) :
          registry' = [registry EXCEPT ![x].owner = o]
    /\ UNCHANGED <<unlocked, issued>>

Unlock(u) ==
    /\ u \in Units(registry) \ unlocked
    /\ unlocked' = unlocked \cup {u}
    /\ UNCHANGED <<registry, issued>>

Next ==
    \/ Register(DOMAIN registry' \ DOMAIN registry)
    \/ \E x \in DOMAIN registry' : Mint(x) \/ SetMintable(x) \/ SetOwner(x)
    \/ \E u \in Units(registry) : Unlock(u)

Spec == Init /\ [][Next]_rvars
=============================================================================

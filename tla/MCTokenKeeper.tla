---------------------------- MODULE MCTokenKeeper ----------------------------
(* Model-checking instance of TokenKeeper: two users, three module        *)
(* accounts, and an owner-less native token whose unit is the fee and    *)
(* bond denom, as the defi module's minting needs.                        *)
EXTENDS TokenKeeper

CONSTANTS a1, a2, tokenModule, feeCollector, defiModule, noOwner

MCAccounts == {a1, a2}
MCBlockedAddrs == {tokenModule, feeCollector, defiModule}
eth == <<"e", "t", "h">>
ueth == <<"u", "e", "t", "h">>
atom == <<"a", "t", "o", "m">>
gauss == <<"g", "a", "u", "s", "s">>
stake == <<"s", "t", "a", "k", "e">>
(* A string the symbol regexp accepts but the keyword check refuses.      *)
ibcx == <<"i", "b", "c", "x">>
MCDenoms == {eth, ueth, atom, gauss, stake, ibcx}

(* The native token: owner-less, mintable, its total supply all issued.   *)
MCGenesisTokens ==
    {NewToken(gauss, stake, 0, 4, TRUE, noOwner)}

(* eth/ueth: mintable with a cap; atom: a second token on ueth's unit;    *)
(* ueth/eth: symbol and unit of the first token swapped; ibcx: a symbol  *)
(* ValidateBasic refuses.                                                 *)
MCIssueMsgs ==
    {[owner |-> a1, symbol |-> eth, unit |-> ueth, initialSupply |-> 1, totalSupply |-> 2,
      mintable |-> TRUE, unlocked |-> FALSE],
     [owner |-> a2, symbol |-> atom, unit |-> ueth, initialSupply |-> 0, totalSupply |-> 0,
      mintable |-> FALSE, unlocked |-> FALSE],
     [owner |-> a2, symbol |-> ueth, unit |-> eth, initialSupply |-> 1, totalSupply |-> 0,
      mintable |-> TRUE, unlocked |-> TRUE],
     [owner |-> a1, symbol |-> ibcx, unit |-> atom, initialSupply |-> 1, totalSupply |-> 1,
      mintable |-> FALSE, unlocked |-> FALSE]}

(* Transactions of two messages: a1 issues eth and mints it in one; it    *)
(* mints eth twice; it issues eth and burns it in one (the burn check of  *)
(* the ante handler runs before the issue); a2 issues two tokens.         *)
ethIssue == [owner |-> a1, symbol |-> eth, unit |-> ueth, initialSupply |-> 1, totalSupply |-> 2,
             mintable |-> TRUE, unlocked |-> FALSE]
MCMultiMsgTxs ==
    {<<IssueMsg(ethIssue), MintMsg(eth, 1, a1, a1)>>,
     <<MintMsg(eth, 1, a2, a1), MintMsg(eth, 1, a1, a1)>>,
     <<IssueMsg(ethIssue), BurnMsg(eth, 1, a1)>>,
     <<IssueMsg([owner |-> a2, symbol |-> atom, unit |-> ueth, initialSupply |-> 0, totalSupply |-> 0,
                 mintable |-> FALSE, unlocked |-> FALSE]),
       IssueMsg([owner |-> a2, symbol |-> ueth, unit |-> eth, initialSupply |-> 1, totalSupply |-> 0,
                 mintable |-> TRUE, unlocked |-> TRUE])>>}
====

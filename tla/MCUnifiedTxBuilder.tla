------------------------- MODULE MCUnifiedTxBuilder -------------------------
(***************************************************************************)
(* Outputs of pure ADA, one with tokens, one of a script; payments with    *)
(* and without tokens, one of which leaves change close to the minimum.    *)
(***************************************************************************)
EXTENDS UnifiedTxBuilder, TLC

CONSTANTS u1, u2, u3, u4, x

MCCoinOf == (u1 :> 6000000) @@ (u2 :> 3300000) @@ (u3 :> 2000000) @@ (u4 :> 4000000)

MCTokensOf == [u \in Utxos |-> [t \in Tokens |-> IF u = u3 THEN 5 ELSE 0]]

\* A wallet without tokens: change is paid out as it is or left out.
MCPureOf == [u \in Utxos |-> [t \in Tokens |-> 0]]

MCIndexOf == (u1 :> 0) @@ (u2 :> 1) @@ (u3 :> 0) @@ (u4 :> 99)

MCListings == {<<u1, u2, u3>>, <<u3, u2, u4>>}

Tokenful(n) == [t \in Tokens |-> n]

MCPayments == {[coin |-> 2000000, tokens |-> Tokenful(0), kind |-> "payment"],
               [coin |-> 1500000, tokens |-> Tokenful(3), kind |-> "payment"],
               [coin |-> 7000000, tokens |-> Tokenful(0), kind |-> "reference"]}

MCMints == {[token |-> x, amount |-> 2, script |-> "plutus"],
            [token |-> x, amount |-> -1, script |-> "none"]}

=============================================================================

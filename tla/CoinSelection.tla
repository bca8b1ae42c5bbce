--------------------------- MODULE CoinSelection ---------------------------
(***************************************************************************)
(* Greedy coin selection, as the two transaction builders of the wallet do *)
(* it: outputs are taken in a given order until the lovelace and every     *)
(* native token asked for are covered; what is over is change.             *)
(*                                                                         *)
(* UnifiedTxBuilder::select_coins (src/wallet/unified_tx/builder.rs) and   *)
(* TransactionBuilder::select_utxos (src/wallet/transaction.rs) differ in  *)
(* the order only.                                                         *)
(***************************************************************************)
EXTENDS Integers, SequencesExt

CONSTANTS
    Utxos,     \* UtxoData: outputs of the wallet and of scripts
    CoinOf,    \* utxo -> lovelace
    Tokens,    \* "policy:name" keys
    TokensOf   \* utxo -> token -> amount

ASSUME UtxoTypes ==
    /\ IsFiniteSet(Utxos)
    /\ CoinOf \in [Utxos -> Nat]
    /\ IsFiniteSet(Tokens)
    /\ TokensOf \in [Utxos -> [Tokens -> Nat]]

Coins(S) == MapThenSumSet(LAMBDA u : CoinOf[u], S)

Amount(t, S) == MapThenSumSet(LAMBDA u : TokensOf[u][t], S)

\* The outputs of a list that are in S, in the order of the list.
Those(list, S) ==
    LET upto[i \in 0 .. Len(list)] ==
            IF i = 0 THEN <<>>
            ELSE IF list[i] \in S THEN Append(upto[i - 1], list[i]) ELSE upto[i - 1]
    IN  upto[Len(list)]

\* The lists of distinct outputs.
UtxoLists == {s \in SeqOf(Utxos, Cardinality(Utxos)) : IsInjective(s)}

NoTokens == [t \in Tokens |-> 0]

HasTokens(u) == \E t \in Tokens : TokensOf[u][t] > 0

First(order, n) == {order[i] : i \in 1 .. n}

\* As if the tokens had not to be covered.
CoversCoins(S, coins, tokens) == Coins(S) >= coins

Covers(S, coins, tokens) ==
    /\ Coins(S) >= coins
    /\ \A t \in Tokens : Amount(t, S) >= tokens[t]

\* The loop ends with the first prefix that covers, or with everything.
Taken(order, coins, tokens) ==
    LET enough == {n \in 1 .. Len(order) : Covers(First(order, n), coins, tokens)}
    IN  IF enough = {} THEN Len(order) ELSE Min(enough)

Selected(order, coins, tokens) == First(order, Taken(order, coins, tokens))

Suffices(order, coins, tokens) == Covers(Selected(order, coins, tokens), coins, tokens)

ChangeCoins(order, coins, tokens) == Coins(Selected(order, coins, tokens)) - coins

ChangeTokens(order, coins, tokens) ==
    [t \in Tokens |-> Amount(t, Selected(order, coins, tokens)) - tokens[t]]

=============================================================================

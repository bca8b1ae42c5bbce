----------------------------- MODULE MCChainSync -----------------------------
(***************************************************************************)
(* A small instance of ChainSync: a block tree with two forks, in which an *)
(* output is created and spent in one block (t2, t3 in b2), a transaction  *)
(* of one fork is included again by the other (t4 in b3 and c2), one fork  *)
(* reuses the slot of the other with fewer events (b2 and c2), a block is  *)
(* of a lower slot than the one it replaces in the same epoch (b3 and c3), *)
(* and, in the instances that include d4, an output has an address that    *)
(* does not decode.                                                        *)
(***************************************************************************)
EXTENDS ChainSync, TLC

CONSTANTS b1, b2, b3, c2, c3, d4, t1, t2, t3, t4, t5, a1, a2, w1, w2,
          p1, p2, n1, n2

MCBlocks == {b1, b2, b3, c2, c3}

MCBlocksWithFailure == MCBlocks \cup {d4}

MCTxs == {t1, t2, t3, t4, t5}

MCAddresses == {a1, a2}

\* Chains and contents for every block; the instances restrict them.
AllChains == (b1 :> <<b1>>) @@ (b2 :> <<b1, b2>>) @@ (b3 :> <<b1, b2, b3>>)
             @@ (c2 :> <<b1, c2>>) @@ (c3 :> <<b1, b2, c3>>) @@ (d4 :> <<b1, d4>>)

AllSlots == (b1 :> 1) @@ (b2 :> 3) @@ (b3 :> 5) @@ (c2 :> 3) @@ (c3 :> 4) @@ (d4 :> 3)

AllTxs == (b1 :> <<t1>>) @@ (b2 :> <<t2, t3>>) @@ (b3 :> <<t4>>)
          @@ (c2 :> <<t4>>) @@ (c3 :> <<>>) @@ (d4 :> <<t5>>)

MCChainTo == [b \in Blocks |-> AllChains[b]]

MCSlotOf  == [b \in Blocks |-> AllSlots[b]]

MCTxsOf   == [b \in Blocks |-> AllTxs[b]]

\* t1 pays a1 and a2; t2 moves a1's output to a2, which spends it at once in
\* t3; t4 spends a2's first output and pays a1.
MCInputsOf ==
    (t1 :> <<>>) @@ (t2 :> << <<t1, 1>> >>) @@ (t3 :> << <<t2, 1>> >>)
    @@ (t4 :> << <<t1, 2>> >>) @@ (t5 :> << <<t1, 1>> >>)

Pay(a, n) == [address |-> a, amount |-> n]

MCOutputsOf ==
    (t1 :> <<Pay(a1, 5), Pay(a2, 3)>>) @@ (t2 :> <<Pay(a2, 4)>>)
    @@ (t3 :> <<Pay(a2, 4)>>) @@ (t4 :> <<Pay(a1, 2)>>)
    @@ (t5 :> <<Pay(a1, 4), Pay(a2, 1)>>)

MCTokensOf ==
    [t \in Txs |-> CASE t = t1 -> {[policy |-> p1, name |-> n1], [policy |-> p2, name |-> n2]}
                     [] t = t4 -> {[policy |-> p1, name |-> n2]}
                     [] OTHER -> {}]

MCTrackedTokens == {[policy |-> p1, name |-> n1], [policy |-> p2, name |-> AnyName]}

\* a1 belongs to the wallet w1; a2 is nobody's.
MCOwnerOf == (a1 :> w1) @@ (a2 :> Origin)

MCUndecodable == {<<t5, 2>>}

NoWallets == {{}}

ChangingWallets == {{}, {w1, w2}}

=============================================================================

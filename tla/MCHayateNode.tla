---------------------------- MODULE MCHayateNode ----------------------------
(***************************************************************************)
(* Nine blocks in three forks: transactions of one fork come again in      *)
(* another, outputs have addresses that do not parse, and one block does   *)
(* not decode. Of the three addresses two have a stake credential of their *)
(* own and one has none.                                                   *)
(***************************************************************************)
EXTENDS HayateNode, TLC

CONSTANTS b1, b2, b3, c2, c3, c4, d4, e2, e3, t1, t2, t3, t4, t5, t6, a1, a2, a3, s1, s2

MCBlocks == {b1, b2, b3, c2, c3, c4, d4, e2, e3}

MCLine == {b1, b2, b3}

MCTxs == {t1, t2, t3, t4, t5, t6}

MCAddresses == {a1, a2, a3}

AllChains == (b1 :> <<b1>>) @@ (b2 :> <<b1, b2>>) @@ (b3 :> <<b1, b2, b3>>)
             @@ (c2 :> <<c2>>) @@ (c3 :> <<c2, c3>>) @@ (c4 :> <<c2, c3, c4>>)
             @@ (d4 :> <<b1, b2, b3, d4>>) @@ (e2 :> <<b1, e2>>) @@ (e3 :> <<b1, e2, e3>>)

AllSlots == (b1 :> 1) @@ (b2 :> 2) @@ (b3 :> 4) @@ (c2 :> 1) @@ (c3 :> 3) @@ (c4 :> 5)
            @@ (d4 :> 5) @@ (e2 :> 2) @@ (e3 :> 3)

\* Another fork, from the origin, puts t1 and t4 in blocks of its own and spends
\* with t5 what t2 spends here; a third has a transaction before t2 that fails.
AllTxs == (b1 :> <<t1>>) @@ (b2 :> <<t2, t3>>) @@ (b3 :> <<t4>>)
          @@ (c2 :> <<t1>>) @@ (c3 :> <<t4, t5>>) @@ (c4 :> <<>>) @@ (d4 :> <<>>)
          @@ (e2 :> <<t6, t2>>) @@ (e3 :> <<t3>>)

MCChainTo == [b \in Blocks |-> AllChains[b]]

MCSlotOf == [b \in Blocks |-> AllSlots[b]]

MCTxsOf == [b \in Blocks |-> AllTxs[b]]

MCInputsOf ==
    (t1 :> <<>>) @@ (t2 :> << <<t1, 1>> >>) @@ (t3 :> << <<t2, 1>> >>)
    @@ (t4 :> << <<t1, 2>>, <<t1, 3>> >>) @@ (t5 :> << <<t4, 1>>, <<t1, 1>> >>)
    @@ (t6 :> << <<t1, 2>> >>)

Pay(a, n) == [address |-> a, amount |-> n]

MCOutputsOf ==
    (t1 :> <<Pay(a1, 5), Pay(a2, 3), Pay(a3, 2)>>) @@ (t2 :> <<Pay(a2, 4)>>)
    @@ (t3 :> <<Pay(a2, 4)>>) @@ (t4 :> <<Pay(a1, 2)>>)
    @@ (t5 :> <<Pay(a1, 4), Pay(a2, 1)>>) @@ (t6 :> <<Pay(a1, 1)>>)

MCTokensOf == [t \in Txs |-> {}]

MCStakeOf == (a1 :> s1) @@ (a2 :> s2) @@ (a3 :> NoStake)

MCBadOutputs == {<<t5, 2>>, <<t6, 1>>}

MCVrf == MCBlocks \ {b2}

MCVrfLine == MCLine

=============================================================================

-------------------------- MODULE MCIndexerService --------------------------
(***************************************************************************)
(* Three blocks.  Transaction 1 pays the wallet and a stranger; 2, in its  *)
(* own block, spends the first output and pays back and to the address     *)
(* that will be added; 3 spends what 2 paid back.                          *)
(***************************************************************************)
EXTENDS IndexerService

CONSTANTS c1, c2, home, other

MCAddressOf ==
    [k \in {<<1, 1>>, <<1, 2>>, <<2, 1>>, <<2, 2>>} |->
        IF k = <<2, 2>> THEN other ELSE home]

MCBody ==
    << << <<"out", <<1, 1>>>>, <<"out", <<1, 2>>>> >>,
       << <<"in", <<1, 1>>>>, <<"out", <<2, 1>>>>, <<"out", <<2, 2>>>> >>,
       << <<"in", <<2, 1>>>> >> >>

\* One caller reads, the other rewinds: either may come first.
MCAsks == [c \in Callers |-> IF c = c1 THEN Operations \ {"AddAddressAndRollback"}
                              ELSE {"AddAddressAndRollback"}]

MCHolders == {<<1, 2>>, <<2, 1>>}

=============================================================================

-------------------------- MODULE MCMultisigPortal --------------------------
(***************************************************************************)
(* A wallet and a signer elsewhere, two-of-two, listed in order without    *)
(* --sort-keys and out of order with it, and a threshold that is refused;  *)
(* a spend with change, and one whose amount and fee wrap around.          *)
(***************************************************************************)
EXTENDS MultisigPortal

CONSTANT w

MCArguments ==
    {[wallets |-> <<w>>, addresses |-> <<2>>, threshold |-> 2, sort |-> FALSE],
     [wallets |-> <<>>, addresses |-> <<2, 1>>, threshold |-> 2, sort |-> TRUE],
     [wallets |-> <<>>, addresses |-> <<2>>, threshold |-> 0, sort |-> FALSE]}

MCSpends == {[utxos |-> <<6, 4>>, amount |-> 5, fee |-> 1],
             [utxos |-> <<6>>, amount |-> 15, fee |-> 2]}

=============================================================================

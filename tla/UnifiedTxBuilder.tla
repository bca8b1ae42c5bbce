-------------------------- MODULE UnifiedTxBuilder --------------------------
(***************************************************************************)
(* UnifiedTxBuilder (src/wallet/unified_tx/builder.rs) over                *)
(* PlutusTransactionBuilder (src/wallet/tx_builder/builder.rs): a builder  *)
(* collects outputs, mints and script inputs in any order; build() chooses *)
(* inputs and looks for the fee by building the transaction again;         *)
(* build_and_sign() builds it once more from what build() returned and     *)
(* signs that; build_sign_submit() sends it to the node.                   *)
(*                                                                         *)
(* The builder keeps everything between calls, also after a transaction    *)
(* has been submitted, and an answer of the node may be lost.              *)
(***************************************************************************)
EXTENDS CoinSelection

CONSTANTS
    Listings,       \* the lists of UTxOs a file, a caller or the server may give
    Payments,       \* the outputs that may be asked for
    Mints,          \* the mint operations that may be asked for
    ScriptUtxos,    \* the script outputs that may be spent
    FixedFees,      \* the values of fee()
    Limits,         \* the values of address_scan_limit()
    IndexOf,        \* utxo -> address index that its key is derived for
    MinFeeA, MinFeeB,    \* ProtocolParameters
    MinUtxo,             \* calculate_min_utxo(60)
    TokenBase, PerToken, \* what a change output with tokens needs
    Ada,                 \* lovelace in an ADA
    MaxOutputs, MaxMints, MaxCalls  \* bounds: of the lists, of builds

\* Option<T>
None == <<>>

Some(v) == <<v>>

The(option) == option[1]

TokenCount(tokens) == Cardinality({t \in Tokens : tokens[t] > 0})

Bytes(n) == IF n < 24 THEN 1 ELSE IF n < 256 THEN 2 ELSE IF n < 65536 THEN 3 ELSE 5

\* Encoded size of an output, as pallas writes it: external.
OutputBytes(o) ==
    36 + Bytes(o.coin) + 40 * TokenCount(o.tokens)
    + (IF o.kind = "payment" THEN 0 ELSE 34) + (IF o.kind = "reference" THEN 150 ELSE 0)

Paid(outputs) == MapThenSumSet(LAMBDA i : outputs[i].coin, DOMAIN outputs)

PaidTokens(t, outputs) == MapThenSumSet(LAMBDA i : outputs[i].tokens[t], DOMAIN outputs)

ExtraBytes(o) == IF o.kind = "payment" THEN 0 ELSE IF o.kind = "script" THEN 100 ELSE 300

ExtraSize(outputs) == MapThenSumSet(LAMBDA i : ExtraBytes(outputs[i]), DOMAIN outputs)

Size(outputs) == MapThenSumSet(LAMBDA i : OutputBytes(outputs[i]), DOMAIN outputs)

OutputLists == BoundedSeq(Payments, MaxOutputs)

Output == [coin : Nat, tokens : [Tokens -> Nat], kind : {"payment", "script", "reference"}]

ASSUME BuilderConstants ==
    /\ Listings \subseteq UtxoLists
    /\ Payments \subseteq Output
    /\ Mints \subseteq [token : Tokens, amount : Int, script : {"plutus", "native", "none"}]
    /\ ScriptUtxos \subseteq Utxos
    /\ FixedFees \subseteq Nat
    /\ Limits \subseteq Nat /\ Max(Limits) \in Limits
    /\ IndexOf \in [Utxos -> Nat]
    /\ MinFeeA \in Nat /\ MinFeeB \in Nat
    /\ MinFeeB >= 65536         \* 155,381 on every network
    /\ MinUtxo \in Nat /\ TokenBase \in Nat /\ PerToken \in Nat
    /\ Ada \in Nat \ {0}
    /\ MaxOutputs \in Nat /\ MaxMints \in Nat /\ MaxCalls \in Nat

VARIABLES
    unspent,   \* what the node has: external
    sent,      \* history: what the node has taken since the UTxOs were listed
    builder,   \* UnifiedTxBuilder
    job,       \* the call of build, build_and_sign or build_sign_submit
    calls      \* how many there were

vars == <<unspent, sent, builder, job, calls>>

NoTx == [inputs |-> {}]

Idle == [at |-> "idle", want |-> "none", fee |-> 0, iteration |-> 0, tx |-> NoTx, signed |-> NoTx]

\* new, with_client, offline
Init ==
    /\ unspent = Utxos
    /\ sent = {}
    /\ \E online \in BOOLEAN :
          builder = [client |-> online, utxos |-> None, outputs |-> <<>>, mints |-> <<>>,
                     scripts |-> {}, collateral |-> None, fee |-> None, limit |-> Max(Limits),
                     params |-> FALSE]
    /\ job = Idle
    /\ calls = 0

-----------------------------------------------------------------------------
(* Setters.  Each is a call of its own, between builds.                    *)

Setting(field, value) ==
    /\ job.at = "idle"
    /\ builder' = [builder EXCEPT ![field] = value]
    /\ UNCHANGED <<unspent, job, calls>>

Set(field, value) == Setting(field, value) /\ UNCHANGED sent

\* with_utxos, with_utxos_from_file: any Vec in the code; here a list of distinct outputs.
WithUtxos == (\E s \in Listings : Setting("utxos", Some(s))) /\ sent' = {}

\* The server's answer, for the addresses below the limit; what it has spent is not among them.
QueryUtxos ==
    /\ builder.client
    /\ \E s \in Listings :
          LET own == Those(s, {u \in unspent \ ScriptUtxos : IndexOf[u] < builder.limit})
          IN  Setting("utxos", Some(own))
    /\ sent' = {}

\* send_ada, send_assets, pay_to_script, pay_to_script_with_assets
Send ==
    /\ Len(builder.outputs) < MaxOutputs
    /\ \E o \in Payments : Set("outputs", Append(builder.outputs, o))

\* mint_with_policy, mint_with_native_script, burn
Mint ==
    /\ Len(builder.mints) < MaxMints
    /\ \E m \in Mints : Set("mints", Append(builder.mints, m))

\* The code pushes without looking for a duplicate; a caller names each output once.
SpendFromScript == \E u \in ScriptUtxos \ builder.scripts : Set("scripts", builder.scripts \cup {u})

WithCollateral == \E s \in Listings : Set("collateral", Some(s))

\* auto_collateral takes pure ADA outputs of 2 ADA or more until it has 5.
Pure(u) == ~HasTokens(u) /\ CoinOf[u] >= 2 * Ada

AutoCollateral ==
    /\ builder.collateral = None
    /\ builder.utxos # None
    /\ LET order == Those(The(builder.utxos), {u \in Utxos : Pure(u)})
           n == Taken(order, 5 * Ada, NoTokens)
       IN  /\ Suffices(order, 5 * Ada, NoTokens)
           /\ Set("collateral", Some(SubSeq(order, 1, n)))

\* with_protocol_params, with_protocol_params_from_file, query_protocol_params
WithParams == Set("params", TRUE)

SetFee == \E f \in {None} \cup {Some(n) : n \in FixedFees} : Set("fee", f)

SetScanLimit == \E n \in Limits : Set("limit", n)

-----------------------------------------------------------------------------
(* build                                                                   *)

estimate_fee(bytes) == IF builder.fee = None THEN MinFeeA * bytes + MinFeeB ELSE The(builder.fee)

Minted(t, mints) ==
    MapThenSumSet(LAMBDA i : mints[i].amount,
                  {i \in DOMAIN mints : mints[i].token = t /\ mints[i].amount > 0})

\* Tokens that are minted need not be taken from the wallet.
Needed(t) ==
    LET paid == PaidTokens(t, builder.outputs)
        minted == Minted(t, builder.mints)
    IN  IF paid <= minted THEN 0 ELSE paid - minted

NeededTokens == [t \in Tokens |-> Needed(t)]

\* As if the builder forgot what it has spent itself.
StillThere(utxos) == Those(utxos, unspent \ builder.scripts)

\* select_coins passes over the outputs that are spent as script inputs.
Spendable(utxos) == Those(utxos, Utxos \ builder.scripts)

Order ==
    LET free  == Spendable(The(builder.utxos))
        pure  == Those(free, {u \in Utxos : ~HasTokens(u)})
        mixed == Those(free, {u \in Utxos : HasTokens(u)})
    IN  IF \E t \in Tokens : NeededTokens[t] > 0 THEN mixed \o pure ELSE pure \o mixed

FirstEstimate ==
    LET inputs == (Paid(builder.outputs) \div (10 * Ada)) + 1
    IN  300 + 180 * (IF inputs > 10 THEN 10 ELSE inputs) + 60 * (Len(builder.outputs) + 1)
        + ExtraSize(builder.outputs)

\* NoOutputs, or no parameters: nothing is built.
Build(want) ==
    /\ job.at = "idle"
    /\ calls < MaxCalls
    /\ calls' = calls + 1
    /\ \/ /\ builder.outputs # <<>> \/ builder.mints # <<>>
          /\ builder.params \/ builder.client
          /\ builder' = [builder EXCEPT !.params = TRUE]
          /\ job' = [Idle EXCEPT !.at = "fee", !.want = want, !.fee = estimate_fee(FirstEstimate),
                                 !.iteration = 1]
       \/ /\ \/ builder.outputs = <<>> /\ builder.mints = <<>>
             \/ ~builder.params
          /\ UNCHANGED <<builder, job>>
    /\ UNCHANGED <<unspent, sent>>

\* The call returns an error; the builder is as it was.
Fails == job' = Idle /\ UNCHANGED <<unspent, sent, builder, calls>>

MinChange == IF MinUtxo > Ada THEN MinUtxo ELSE Ada

HasPlutus == builder.scripts # {} \/ \E i \in DOMAIN builder.mints : builder.mints[i].script = "plutus"

TokenMinimum(tokens) == TokenBase + PerToken * TokenCount(tokens)

\* min_utxo_for_output
LeastChange(tokens) == IF tokens # NoTokens THEN TokenMinimum(tokens) ELSE MinChange

\* A change output that carries tokens is raised to its minimum.
ChangeOutput(coins, tokens) ==
    [coin |-> IF coins < LeastChange(tokens) THEN LeastChange(tokens) ELSE coins,
     tokens |-> tokens, kind |-> "payment"]

\* As if change were left out also when it has tokens.
DropsTokens(coins, tokens) == coins >= MinChange

\* As if the minimum were that of an output twice the size.
LargeOnly(coins, tokens) == tokens # NoTokens \/ coins >= 2 * MinChange

\* Without tokens, change below the minimum is left out.
HasChange(coins, tokens) == tokens # NoTokens \/ coins >= MinChange

Body(inputs, change, fee) ==
    [inputs |-> inputs, scripts |-> builder.scripts, outputs |-> builder.outputs \o change,
     collateral |-> IF HasPlutus THEN The(builder.collateral) ELSE <<>>,
     mints |-> builder.mints, fee |-> fee]

\* build_tx_internal
Built(inputs, coins, tokens, fee) ==
    Body(inputs, IF HasChange(coins, tokens) THEN <<ChangeOutput(coins, tokens)>> ELSE <<>>, fee)

\* The encoding of the transaction without witnesses of keys: external.
TxSize(tx) ==
    90 + 36 * Cardinality(tx.inputs) + 200 * Cardinality(tx.scripts) + 36 * Len(tx.collateral)
    + 60 * Len(tx.mints) + Size(builder.outputs) + Bytes(tx.fee)
    + (IF Len(tx.outputs) > Len(builder.outputs) THEN OutputBytes(Last(tx.outputs)) ELSE 0)

\* As if the deficit were covered by a lovelace less.
Short(required) == required - 1

Raised(required) == required

\* Not so: "did not converge after 3 iterations", NoUtxos, InsufficientFunds,
\* InsufficientAssets, CollateralRequired.
CanBuild ==
    /\ job.iteration <= 3
    /\ builder.utxos # None
    /\ Suffices(Order, Paid(builder.outputs) + job.fee, NeededTokens)
    /\ HasPlutus => builder.collateral # None

\* One round of the loop that looks for the fee.
Iterate ==
    /\ job.at = "fee"
    /\ CanBuild
    /\ LET coins == Paid(builder.outputs) + job.fee
           change == ChangeCoins(Order, coins, NeededTokens)
           tx == Built(Selected(Order, coins, NeededTokens), change,
                       ChangeTokens(Order, coins, NeededTokens), job.fee)
           required == estimate_fee(TxSize(tx))
       IN
       \/ /\ required <= job.fee
          /\ job' = [job EXCEPT !.at = "built", !.tx = tx]
          /\ UNCHANGED <<unspent, sent, builder, calls>>
       \/ /\ required > job.fee
          /\ change >= (required - job.fee) + MinChange
          /\ job' = [job EXCEPT !.fee = Raised(required), !.iteration = @ + 1]
          /\ UNCHANGED <<unspent, sent, builder, calls>>
       \/ /\ required > job.fee
          /\ change < (required - job.fee) + MinChange
          /\ Fails

Refuse == job.at = "fee" /\ ~CanBuild /\ Fails

\* build() returns to its caller.
ReturnBuilt == job.at = "built" /\ job.want = "build" /\ Fails

-----------------------------------------------------------------------------
(* build_and_sign_with_keys, build_sign_submit                             *)

\* change_amount: the lovelace of the change output, or 0
ChangeAmount == IF Len(job.tx.outputs) > Len(builder.outputs) THEN Last(job.tx.outputs).coin ELSE 0

\* As if the change were not added when the transaction is built again.
Unchanged(coins) == <<>>

\* The change is added again by its lovelace alone.
Readded(coins) ==
    IF coins > 0 THEN <<[coin |-> coins, tokens |-> NoTokens, kind |-> "payment"]>> ELSE <<>>

\* The keys of the addresses below the limit that inputs have.
Keys == {IndexOf[u] : u \in {v \in job.tx.inputs : IndexOf[v] < builder.limit}}

Sign ==
    /\ job.at = "built"
    /\ job.want # "build"
    /\ job' = [job EXCEPT !.at = "signed",
                          !.signed = [tx |-> Body(job.tx.inputs, Readded(ChangeAmount), job.tx.fee),
                                      keys |-> Keys]]
    /\ UNCHANGED <<unspent, sent, builder, calls>>

\* Offline, the call ends in an error after signing.
ReturnSigned ==
    /\ job.at = "signed"
    /\ job.want = "sign" \/ ~builder.client
    /\ Fails

\* The node takes the transaction, if it has inputs and they are there; or it does not;
\* and the answer may be lost either way.
Submit ==
    /\ job.at = "signed"
    /\ job.want = "submit"
    /\ builder.client
    /\ LET spent == job.signed.tx.inputs \cup job.signed.tx.scripts IN
       \/ /\ spent # {} /\ spent \subseteq unspent
          /\ unspent' = unspent \ spent
          /\ sent' = sent \cup {<<builder.outputs, builder.mints>>}
       \/ UNCHANGED <<unspent, sent>>
    /\ job' = Idle
    /\ UNCHANGED <<builder, calls>>

Next ==
    \/ WithUtxos \/ QueryUtxos \/ Send \/ Mint \/ SpendFromScript
    \/ WithCollateral \/ AutoCollateral \/ WithParams \/ SetFee \/ SetScanLimit
    \/ \E want \in {"build", "sign", "submit"} : Build(want)
    \/ Iterate \/ Refuse \/ ReturnBuilt
    \/ Sign \/ ReturnSigned \/ Submit

Spec == Init /\ [][Next]_vars

-----------------------------------------------------------------------------
TypeOK ==
    /\ unspent \subseteq Utxos
    /\ builder.outputs \in Seq(Payments)
    /\ builder.utxos # None => IsInjective(The(builder.utxos)) /\ ToSet(The(builder.utxos)) \subseteq Utxos
    /\ job.fee \in Nat /\ job.iteration \in 0 .. 4
    /\ job.tx # NoTx => \A i \in DOMAIN job.tx.outputs : job.tx.outputs[i] \in Output

HasTx == job.at \in {"built", "signed"}

(***************************************************************************)
(* The search for the fee ends: the fee is raised once, to what the        *)
(* transaction that will be returned needs, because a raise that the       *)
(* change can pay leaves the inputs and the outputs as they were.          *)
(***************************************************************************)
FeeConverges == job.at = "fee" => job.iteration <= 2

Change(tx) == SubSeq(tx.outputs, Len(builder.outputs) + 1, Len(tx.outputs))

\* What the wallet's inputs have over what is asked for and the fee.
CoinsOver(tx) == Coins(tx.inputs) - Paid(builder.outputs) - tx.fee

TokensOver(tx) == [t \in Tokens |-> Amount(t, tx.inputs) - Needed(t)]

(***************************************************************************)
(* Whatever fee the search ends with, the wallet's inputs pay for the      *)
(* outputs asked for and for it; and if nothing is left over, or enough    *)
(* for a change output, the inputs are worth exactly the outputs, the      *)
(* change and the fee.  What is left over when it is too little is the     *)
(* matter of TransactionBalances.  What script inputs hold is counted      *)
(* neither by the builder nor here.                                        *)
(***************************************************************************)
LovelaceConserved ==
    HasTx => LET over == CoinsOver(job.tx)
                 tokens == TokensOver(job.tx)
             IN  /\ over >= 0
                 /\ \/ over = 0 /\ tokens = NoTokens
                    \/ over >= LeastChange(tokens)
                    => Coins(job.tx.inputs) = Paid(job.tx.outputs) + job.tx.fee

(***************************************************************************)
(* What build is to return is ready for signing, and the log says of       *)
(* change below the minimum that it is added to the fee: with inputs of    *)
(* the wallet only, they are worth the outputs, the change and the fee, no *)
(* lovelace is lost with change that is dropped and none is paid out that  *)
(* no input has (build_tx_internal).                                       *)
(***************************************************************************)
TransactionBalances ==
    HasTx /\ builder.scripts = {} => Coins(job.tx.inputs) = Paid(job.tx.outputs) + job.tx.fee

(***************************************************************************)
(* No token is paid out that is neither in the inputs nor minted, and      *)
(* without mints every token of the inputs goes into an output.            *)
(***************************************************************************)
TokensConserved ==
    HasTx => \A t \in Tokens :
        LET out == PaidTokens(t, job.tx.outputs)
        IN  /\ out <= Amount(t, job.tx.inputs) + Minted(t, builder.mints)
            /\ builder.mints = <<>> => out = Amount(t, job.tx.inputs)

(***************************************************************************)
(* What is signed is what was built, unless the change has tokens; and the *)
(* keys of all inputs sign it when the UTxOs came from a query and the     *)
(* scan limit has not been lowered since.                                  *)
(***************************************************************************)
SignedCorrectly ==
    job.at = "signed" =>
        /\ \/ job.signed.tx = job.tx
           \/ Change(job.tx) # <<>> /\ Last(job.tx.outputs).tokens # NoTokens
        /\ \/ job.signed.keys = {IndexOf[u] : u \in job.tx.inputs}
           \/ \E u \in job.tx.inputs : IndexOf[u] >= builder.limit

(***************************************************************************)
(* Calling build_sign_submit again, because its answer was lost or it      *)
(* failed, does not pay twice: until the UTxOs are listed again the same   *)
(* outputs and mints take an input of the first transaction.               *)
(***************************************************************************)
PaidOnce ==
    [][job.at = "signed" /\ unspent' # unspent
          => <<builder.outputs, builder.mints>> \notin sent]_vars

(***************************************************************************)
(* The comment on the second construction of the transaction ("Re-add all  *)
(* outputs (including change if it was added)").                           *)
(***************************************************************************)
SignedIsBuilt == job.at = "signed" => job.signed.tx = job.tx

=============================================================================

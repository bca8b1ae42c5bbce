--------------------------- MODULE MultisigPortal ---------------------------
(***************************************************************************)
(* N-of-K spending through the signing portal: src/wallet/multisig.rs,     *)
(* multisig_cli.rs, portal.rs and portal_cli.rs, over the wallet store of  *)
(* the air-gapped machine (WalletStore).                                   *)
(*                                                                         *)
(* Files go between the machine with the keys and the one with a network;  *)
(* every command reads whole files and writes one.  The portal and the     *)
(* ledger are not part of the repository: they are modelled from the       *)
(* requests the code makes, and a request may be refused or its answer     *)
(* lost after the portal has acted.  A key is the phrase it is derived     *)
(* from (one account and index per wallet), a signature is the pair of a   *)
(* key and what it signed.                                                 *)
(***************************************************************************)
EXTENDS WalletStore, Integers, SequencesExt

CONSTANTS
    Others,      \* keys of the signers elsewhere, given as addresses
    Arguments,   \* create-address: [wallets, addresses: Seq, threshold, sort]
    Spends,      \* build-tx arguments: [utxos: Seq(lovelace), amount, fee]
    Word,        \* 2^64: lovelace is a u64 and `+` wraps in a release build
    MinUtxo,     \* the ledger's least lovelace of an output
    NoFile,      \* a file that has not been written
    MaxBots,     \* bound: registrations
    MaxPolicies, \* bound: create-address commands
    MaxBuilt,    \* bound: transaction files
    MaxPortal    \* bound: transactions proposed

Keys == Phrases \cup Others

Lovelace == 0 .. Word - 1

ASSUME PortalBounds ==
    /\ Keys \subseteq Nat \* ordered, as key hashes are
    /\ {Word, MinUtxo, MaxBots, MaxPolicies, MaxBuilt, MaxPortal} \subseteq Nat
    /\ Word # 0
    /\ Phrases \cap Others = {}

ASSUME PortalArguments ==
    /\ Arguments \subseteq [wallets : Seq(Wallets), addresses : Seq(Keys),
                            threshold : Nat, sort : BOOLEAN]
    /\ Spends \subseteq [utxos : Seq(Lovelace), amount : Lovelace, fee : Lovelace]

VARIABLES
    policy,     \* the policy file of the live machine
    policies,   \* number of create-address commands so far
    funded,     \* script whose address holds the funds; history of the chain
    built,      \* transaction files: written by build-tx or fetched
    witnesses,  \* witness files
    initFile, signedFile, creds,  \* the files of the portal set-up
    session,    \* the network command under way on the live machine
    bots,       \* portal: registered bots
    nonces,     \* portal: number of nonces given out; the last one counts
    portal      \* portal: transactions proposed

setupVars == <<initFile, signedFile, creds, bots, nonces>>
fileVars == <<policy, policies, funded, built, witnesses>>
vars == <<storeVars, setupVars, fileVars, session, portal>>

Init ==
    /\ StoreInit
    /\ policy = NoFile /\ policies = 0 /\ funded = NoFile
    /\ built = {} /\ witnesses = {}
    /\ initFile = NoFile /\ signedFile = NoFile /\ creds = NoFile
    /\ session = Idle
    /\ bots = <<>> /\ nonces = 0 /\ portal = <<>>

-----------------------------------------------------------------------------
\* create-address.

\* The order of the arguments.
AsGiven(keys) == keys

Ascending(s) == \A i, j \in DOMAIN s : i < j => s[i] <= s[j]

\* Key hashes in the order of the bytes, each as often as it was given.
Sorted(keys) ==
    CHOOSE s \in [DOMAIN keys -> Range(keys)] :
        /\ Ascending(s)
        /\ \E p \in [DOMAIN keys -> DOMAIN keys] :
              IsInjective(p) /\ \A i \in DOMAIN keys : s[i] = keys[p[i]]

\* encode_native_script_n_of_k; whether the keys are in order, because they were
\* given so or with --sort-keys, is history.
Script(keys, threshold, ordered) ==
    [required |-> threshold, keys |-> keys, ordered |-> ordered]

\* Without the check that somebody has to sign.
AnyThreshold(keys, threshold) == threshold <= Len(keys)

\* The two bails of handle_create_address: no key, or a threshold that is 0
\* or more than there are keys.
ValidThreshold(keys, threshold) == threshold \in 1 .. Len(keys)

\* handle_create_address: wallets first, then addresses, in the order of the
\* arguments unless --sort-keys is given.  A signer may be named twice.
CreateAddress(args) ==
    LET given == [i \in DOMAIN args.wallets |-> Phrase(args.wallets[i])] \o args.addresses
        keys == IF args.sort THEN Sorted(given) ELSE given IN
    /\ policies < MaxPolicies
    /\ \A i \in DOMAIN args.wallets : Loads(args.wallets[i])
    /\ ValidThreshold(keys, args.threshold)
    /\ policies' = policies + 1
    /\ policy' = Script(keys, args.threshold, args.sort \/ Ascending(given))
    \* The first address printed is the one that is paid to.
    /\ funded' = IF funded = NoFile THEN policy' ELSE funded
    /\ UNCHANGED <<storeVars, setupVars, built, witnesses, session, portal>>

-----------------------------------------------------------------------------
\* build-tx and sign.

Sum(numbers) == MapThenSumSet(LAMBDA i : numbers[i], DOMAIN numbers)

\* total_input is a u64, and wraps.
Total(utxos) == Sum(utxos) % Word

\* The sum that amount + fee is, wrapped.
Needed(spend) == (spend.amount + spend.fee) % Word

\* Outputs of build_tx_cbor: change only when there is some.
Outputs(spend) ==
    LET change == Total(spend.utxos) - Needed(spend) IN
    IF change > 0 THEN <<spend.amount, change>> ELSE <<spend.amount>>

\* build_tx_cbor: checked_sub is the only check.
BuildTx(spend) ==
    /\ policy # NoFile
    /\ Total(spend.utxos) >= Needed(spend)
    /\ Cardinality(built) < MaxBuilt
    /\ built' = built \cup
          {[body |-> [inputs |-> spend.utxos, outputs |-> Outputs(spend), fee |-> spend.fee],
            script |-> policy, vkeys |-> {}, signers |-> {}]}
    /\ UNCHANGED <<storeVars, setupVars, policy, policies, funded, witnesses, session, portal>>

\* extract_tx_body: what is hashed is the body, whoever has signed before.  The
\* envelope is the array of four that build-tx writes; one with another header
\* is hashed whole, and no such file is modelled.
Body(tx) == tx.body

\* sign_multisig_tx, encode_key_witness.
Witness(key, tx) == [key |-> key, of |-> Body(tx)]

\* handle_sign on the machine with the keys.
Sign(n, tx) ==
    /\ storing = Idle
    /\ Loads(n)
    /\ witnesses' = witnesses \cup {Witness(Phrase(n), tx)}
    /\ UNCHANGED <<storeVars, setupVars, policy, policies, funded, built, session, portal>>

-----------------------------------------------------------------------------
\* Requests to the portal.

Asking(step) == session # Idle /\ session.at = step

\* The command ends with an error: a request is refused, or not answered.
Fails ==
    /\ failures < MaxFailures
    /\ failures' = failures + 1
    /\ session' = Idle

Answered(next) == session' = next /\ UNCHANGED failures

\* What the portal did may come with an answer or without one.
Outcome(next) == Answered(next) \/ Fails

\* bail! and `?` on any answer but a success.
Refused ==
    /\ session # Idle
    /\ Fails
    /\ UNCHANGED <<dir, storing, commands, kept, setupVars, fileVars, portal>>

-----------------------------------------------------------------------------
\* portal init, sign-setup, complete-setup.

\* portal_init: the bot is registered for the key of an address.
PortalInit(key) ==
    /\ session = Idle
    /\ session' = [at |-> "register", address |-> key]
    /\ UNCHANGED <<storeVars, setupVars, fileVars, portal>>

Register ==
    /\ Asking("register")
    /\ Len(bots) < MaxBots
    /\ bots' = Append(bots, [address |-> session.address, status |-> "pending"])
    /\ Outcome([at |-> "nonce", address |-> session.address, bot |-> Len(bots) + 1])
    /\ UNCHANGED <<dir, storing, commands, kept, initFile, signedFile, creds, nonces, fileVars, portal>>

\* get_nonce, then PortalInitFile::save.
GetNonce ==
    /\ Asking("nonce")
    /\ nonces' = nonces + 1
    /\ \/ /\ Answered(Idle)
          /\ initFile' = [address |-> session.address, bot |-> session.bot, nonce |-> nonces + 1]
       \/ Fails /\ UNCHANGED initFile
    /\ UNCHANGED <<dir, storing, commands, kept, signedFile, creds, bots, fileVars, portal>>

\* portal_sign_setup: the nonce goes into the signature and not into the file.
SignSetup(n) ==
    /\ storing = Idle
    /\ initFile # NoFile
    /\ Loads(n)
    /\ signedFile' = [address |-> initFile.address, bot |-> initFile.bot,
                      signature |-> [key |-> Phrase(n), of |-> initFile.nonce]]
    /\ UNCHANGED <<storeVars, initFile, creds, bots, nonces, fileVars, session, portal>>

\* portal_complete_setup reads the signed file once.
CompleteSetup ==
    /\ session = Idle
    /\ signedFile # NoFile
    /\ session' = [at |-> "auth", signed |-> signedFile]
    /\ UNCHANGED <<storeVars, setupVars, fileVars, portal>>

\* auth_signer: a signature of the address' key over the last nonce.
AuthSigner ==
    /\ Asking("auth")
    /\ session.signed.signature = [key |-> session.signed.address, of |-> nonces]
    /\ Outcome([session EXCEPT !.at = "claim"])
    /\ UNCHANGED <<dir, storing, commands, kept, setupVars, fileVars, portal>>

ClaimBot ==
    /\ Asking("claim")
    /\ bots[session.signed.bot].status = "pending"
    /\ bots' = [bots EXCEPT ![session.signed.bot].status = "claimed"]
    /\ Outcome([session EXCEPT !.at = "pickup"])
    /\ UNCHANGED <<dir, storing, commands, kept, initFile, signedFile, creds, nonces, fileVars, portal>>

\* A claim that failed is only reported.
ClaimOrNot == {"claim", "pickup"}

\* The secret is asked for once the claim has been answered.
AfterClaim == {"pickup"}

\* botPickupSecret, asked for without a token; PortalConfig::save.
PickupSecret ==
    /\ \E step \in AfterClaim : Asking(step)
    /\ \/ /\ Answered(Idle)
          /\ creds' = [address |-> session.signed.address, bot |-> session.signed.bot]
       \/ Fails /\ UNCHANGED creds
    /\ UNCHANGED <<dir, storing, commands, kept, initFile, signedFile, bots, nonces, fileVars, portal>>

-----------------------------------------------------------------------------
\* propose-tx, fetch, submit-witness.

\* embed_vkey_witness: what other signers added stays.  The array is read as a
\* set by the ledger, and is one here; a witness added again is appended again.
\* The map and the array of a fetched transaction are of definite length and
\* not tagged: of an indefinite one the code keeps nothing, a tag is an error.
Embedded(tx, witness) == [tx EXCEPT !.vkeys = @ \cup {witness}]

\* handle_propose_tx reads a transaction and a witness, and does not ask
\* whether they belong together.
ProposeTx(tx, witness) ==
    /\ session = Idle
    /\ creds # NoFile
    /\ session' = [at |-> "add",
                    tx |-> [Embedded(tx, witness) EXCEPT !.signers = @ \cup {witness.key}]]
    /\ UNCHANGED <<storeVars, setupVars, fileVars, portal>>

\* handle_submit_witness for a transaction fetched.
SubmitWitness(i, witness) ==
    /\ session = Idle
    /\ creds # NoFile
    /\ session' = [at |-> "sign", id |-> i, witness |-> witness]
    /\ UNCHANGED <<storeVars, setupVars, fileVars, portal>>

\* PortalClient::new: botAuth gives a token to bots that were claimed, and they
\* stay claimed.
Authorised == bots[creds.bot] = [address |-> creds.address, status |-> "claimed"]

AddTransaction ==
    /\ Asking("add")
    /\ Authorised
    /\ Len(portal) < MaxPortal
    /\ portal' = Append(portal, session.tx)
    /\ Outcome(Idle)
    /\ UNCHANGED <<dir, storing, commands, kept, setupVars, fileVars>>

Countersigned(tx, witness) ==
    [tx EXCEPT !.vkeys = @ \cup {witness}, !.signers = @ \cup {witness.key}]

\* signTransaction: the portal adds the witness; a signature of another body
\* is not one of this transaction.
SignTransaction ==
    /\ Asking("sign")
    /\ Authorised
    /\ session.witness.of = portal[session.id].body
    /\ portal' = [portal EXCEPT ![session.id] = Countersigned(@, session.witness)]
    /\ Outcome(Idle)
    /\ UNCHANGED <<dir, storing, commands, kept, setupVars, fileVars>>

\* fetch_pending and the files of handle_fetch.
Fetch(i) ==
    /\ session = Idle
    /\ creds # NoFile
    /\ Authorised
    /\ Cardinality(built) < MaxBuilt
    /\ built' = built \cup {portal[i]}
    /\ UNCHANGED <<storeVars, setupVars, policy, policies, funded, witnesses, session, portal>>

\* A signer elsewhere signs at the portal.
OtherSigns(k, i) ==
    /\ k \notin portal[i].signers
    /\ portal' = [portal EXCEPT ![i] = Countersigned(@, Witness(k, @))]
    /\ UNCHANGED <<storeVars, setupVars, fileVars, session>>

-----------------------------------------------------------------------------

\* A command of the wallet store leaves the rest alone.
StoreStep == StoreNext /\ UNCHANGED <<setupVars, fileVars, session, portal>>

Next ==
    \/ StoreStep
    \/ \E args \in Arguments : CreateAddress(args)
    \/ \E spend \in Spends : BuildTx(spend)
    \/ \E n \in Wallets, tx \in built : Sign(n, tx)
    \/ \E k \in Keys : PortalInit(k)
    \/ Register \/ GetNonce
    \/ \E n \in Wallets : SignSetup(n)
    \/ CompleteSetup \/ AuthSigner \/ ClaimBot \/ PickupSecret
    \/ \E tx \in built, w \in witnesses : ProposeTx(tx, w)
    \/ \E i \in DOMAIN portal, w \in witnesses : SubmitWitness(i, w)
    \/ AddTransaction \/ SignTransaction
    \/ \E i \in DOMAIN portal : Fetch(i)
    \/ \E k \in Others, i \in DOMAIN portal : OtherSigns(k, i)
    \/ Refused

Spec == Init /\ [][Next]_vars

-----------------------------------------------------------------------------

BodyType == [inputs : Seq(Lovelace), outputs : Seq(Lovelace), fee : Lovelace]

ScriptType == [required : Nat \ {0}, keys : Seq(Keys), ordered : BOOLEAN]

WitnessType == [key : Keys, of : BodyType]

TxType == [body : BodyType, script : ScriptType, vkeys : SUBSET WitnessType, signers : SUBSET Keys]

InitType == [address : Keys, bot : 1 .. MaxBots, nonce : Nat \ {0}]

SignedType ==
    [address : Keys, bot : 1 .. MaxBots, signature : [key : Phrases, of : Nat \ {0}]]

SessionType ==
    \/ session = Idle
    \/ session \in [at : {"register"}, address : Keys]
    \/ session \in [at : {"nonce"}, address : Keys, bot : 1 .. MaxBots]
    \/ session \in [at : {"auth", "claim", "pickup"}, signed : SignedType]
    \/ session \in [at : {"add"}, tx : TxType]
    \/ session \in [at : {"sign"}, id : DOMAIN portal, witness : WitnessType]

\* What the files, the requests and the portal hold; every bot, transaction
\* and file that one of them names is there.
TypeOK ==
    /\ StoreTypeOK
    /\ policy \in ScriptType \cup {NoFile} /\ policies \in 0 .. MaxPolicies
    /\ funded \in ScriptType \cup {NoFile}
    /\ \A tx \in built : tx \in TxType
    /\ \A w \in witnesses : w \in WitnessType
    /\ initFile \in InitType \cup {NoFile}
    /\ signedFile \in SignedType \cup {NoFile}
    /\ creds \in [address : Keys, bot : 1 .. MaxBots] \cup {NoFile}
    /\ SessionType
    /\ bots \in Seq([address : Keys, status : {"pending", "claimed"}]) /\ Len(bots) <= MaxBots
    /\ nonces \in Nat
    /\ portal \in Seq(TxType) /\ Len(portal) <= MaxPortal

(***************************************************************************)
(* Credentials on disk are of a bot that the portal has claimed, for the   *)
(* address in the file, however often init, sign-setup and complete-setup  *)
(* were repeated, interleaved or cut off after the portal had acted        *)
(* (portal_complete_setup).                                                *)
(***************************************************************************)
CredentialsWork ==
    creds # NoFile =>
        /\ creds.bot \in DOMAIN bots
        /\ bots[creds.bot] = [address |-> creds.address, status |-> "claimed"]

-----------------------------------------------------------------------------
\* The ledger.

Valid(tx) == {w \in tx.vkeys : w.of = tx.body}

\* The address is a hash of the script.
Address(script) == <<script.required, script.keys>>

\* atLeast counts the entries whose key has signed.
Signed(keys, signers) == Cardinality({i \in DOMAIN keys : keys[i] \in signers})

\* The outputs spent are at the address of `funded`.
Accepted(tx) ==
    /\ Address(tx.script) = Address(funded)
    /\ tx.vkeys = Valid(tx)
    /\ Signed(tx.script.keys, {w.key : w \in Valid(tx)}) >= tx.script.required
    /\ Sum(tx.body.inputs) = Sum(tx.body.outputs) + tx.body.fee

\* The arguments name lovelace that exists, outputs the ledger takes.
Sensible(body) ==
    /\ Sum(body.inputs) < Word
    /\ body.outputs[1] + body.fee < Word
    /\ \A i \in DOMAIN body.outputs : body.outputs[i] >= MinUtxo

\* The policy of the address, or one that was made of the same signers, nobody
\* named twice, and like that of the address in order or with --sort-keys.
SameSigners(script) ==
    /\ funded # NoFile
    /\ \/ script = funded
       \/ /\ script.ordered /\ funded.ordered
          /\ script.required = funded.required
          /\ Range(script.keys) = Range(funded.keys)
          /\ IsInjective(script.keys) /\ IsInjective(funded.keys)

(***************************************************************************)
(* Signers suffice: a proposed transaction that spends sensible amounts,   *)
(* and whose witness files were made for it, is one the ledger accepts as  *)
(* soon as as many signers of the address as it requires have signed: they *)
(* sign before or after each other, fetch, sign and propose again, with    *)
(* the policy file of the address or with one that any of them made with   *)
(* --sort-keys, in whatever order they list the keys, or listed in order   *)
(* (create-address, build-tx, sign, propose-tx).                           *)
(***************************************************************************)
SignersSuffice ==
    \A i \in DOMAIN portal :
        LET tx == portal[i] IN
        (/\ Sensible(tx.body)
         /\ SameSigners(tx.script)
         /\ \A w \in tx.vkeys : w.of = tx.body
         /\ Signed(funded.keys, tx.signers) >= funded.required)
        => Accepted(tx)

(***************************************************************************)
(* A whole mnemonic file is never written over or lost while nobody        *)
(* deletes the wallet: not even one of a wallet whose creation was cut     *)
(* short (create_wallet refuses every directory that exists).              *)
(***************************************************************************)
PhrasesKept ==
    [][\A n \in Wallets :
          (storing = Idle \/ storing.op # "remove") =>
              /\ dir[n].plain \in Phrases => dir'[n].plain = dir[n].plain
              /\ dir[n].gpg \in Phrases => dir'[n].gpg = dir[n].gpg
              /\ dir[n].plain \in Phrases => dir'[n].gpg \notin Phrases]_vars

=============================================================================

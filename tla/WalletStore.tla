----------------------------- MODULE WalletStore -----------------------------
(***************************************************************************)
(* The wallet directory of one machine: src/wallet/storage.rs with the     *)
(* commands of src/wallet/cli.rs and src/gpg.rs that write to it.          *)
(*                                                                         *)
(* A wallet is a directory with a mnemonic, in the clear or encrypted, and *)
(* a metadata file that says which.  create_wallet and delete_wallet are   *)
(* sequences of file operations: each is a step here, and the command may  *)
(* end after any of them (an error returned with `?`, a crash, gpg that    *)
(* fails), with the file being written cut short or not.  There is one     *)
(* person at the machine: one command runs at a time.                      *)
(***************************************************************************)
EXTENDS Naturals, Sequences, FiniteSets

CONSTANTS
    Wallets,      \* names that validate_name accepts
    Phrases,      \* recovery phrases that pass validate_mnemonic
    Idle,         \* no command runs
    Absent,       \* a file that is not there
    Torn,         \* a file whose writing was cut short
    MaxCommands,  \* bound: create and delete commands
    MaxFailures   \* bound: commands cut short, requests that fail

ASSUME StoreConstants ==
    /\ MaxCommands \in Nat /\ MaxFailures \in Nat
    /\ Absent # Torn
    /\ \A v \in {Absent, Torn} : v \notin Phrases /\ v # "plain" /\ v # "gpg"

VARIABLES
    dir,       \* name -> the directory of the wallet
    storing,   \* the create or delete command under way
    commands,  \* number of commands so far
    failures,  \* number of failures so far
    kept       \* history: name -> phrase of the create command that wrote it last

storeVars == <<dir, storing, commands, failures, kept>>

NoDirectory == [there |-> FALSE, plain |-> Absent, gpg |-> Absent, metadata |-> Absent]

StoreInit ==
    /\ dir = [n \in Wallets |-> NoDirectory]
    /\ storing = Idle
    /\ commands = 0
    /\ failures = 0
    /\ kept = [n \in Wallets |-> Absent]

\* The mnemonic file that the metadata names.
Named(d) == IF d.metadata = "gpg" THEN d.gpg ELSE d.plain

\* load_metadata, as list_wallets calls it: the wallets shown.
Listed == {n \in Wallets : dir[n].metadata \in {"gpg", "plain"}}

\* load_mnemonic and derive_root: a phrase that parses.
Loads(n) == n \in Listed /\ Named(dir[n]) \in Phrases

Phrase(n) == Named(dir[n])

\* Only a wallet that can be listed exists.
NotListed(n) == n \notin Listed

\* validate_name and the check on the directory: whatever it holds, a
\* directory of that name is a wallet that exists.
Free(n) == ~dir[n].there

-----------------------------------------------------------------------------

\* handle_init, handle_add: a phrase generated or read, a recipient or none.
CreateWallet(n, phrase, encrypted) ==
    /\ storing = Idle
    /\ commands < MaxCommands
    /\ commands' = commands + 1
    /\ IF Free(n)
       THEN storing' = [op |-> "directory", name |-> n, phrase |-> phrase, encrypted |-> encrypted]
       ELSE UNCHANGED storing
    /\ UNCHANGED <<dir, failures, kept>>

MetadataFirst == [directory |-> "metadata", metadata |-> "mnemonic", mnemonic |-> "done"]

\* The mnemonic first, the metadata last: what is not complete is not listed.
Order == [directory |-> "mnemonic", mnemonic |-> "metadata", metadata |-> "done"]

MakeDirectory ==
    /\ storing # Idle /\ storing.op = "directory"
    /\ dir' = [dir EXCEPT ![storing.name].there = TRUE]
    /\ storing' = [storing EXCEPT !.op = Order[@]]
    /\ UNCHANGED <<commands, failures, kept>>

\* Gpg::encrypt_to_file or fs::write.
WithMnemonic(d, content) ==
    IF storing.encrypted THEN [d EXCEPT !.gpg = content] ELSE [d EXCEPT !.plain = content]

WithMetadata(d) == [d EXCEPT !.metadata = IF storing.encrypted THEN "gpg" ELSE "plain"]

\* The next file of create_wallet, whole.
WriteFile ==
    /\ storing # Idle /\ storing.op \in {"mnemonic", "metadata"}
    /\ dir' = [dir EXCEPT ![storing.name] =
                  IF storing.op = "mnemonic" THEN WithMnemonic(@, storing.phrase)
                                             ELSE WithMetadata(@)]
    /\ storing' = IF Order[storing.op] = "done" THEN Idle
                  ELSE [storing EXCEPT !.op = Order[storing.op]]
    /\ kept' = [kept EXCEPT ![storing.name] = storing.phrase]
    /\ UNCHANGED <<commands, failures>>

\* handle_delete, confirmed.
DeleteWallet(n) ==
    /\ storing = Idle
    /\ commands < MaxCommands
    /\ commands' = commands + 1
    /\ IF dir[n].there
       THEN storing' = [op |-> "remove", name |-> n]
       ELSE UNCHANGED storing
    /\ UNCHANGED <<dir, failures, kept>>

\* fs::remove_dir_all removes the files in the order the directory gives them.
RemoveFile ==
    /\ storing # Idle /\ storing.op = "remove"
    /\ LET d == dir[storing.name] IN
       \/ /\ d.plain # Absent
          /\ dir' = [dir EXCEPT ![storing.name].plain = Absent]
          /\ UNCHANGED storing
       \/ /\ d.gpg # Absent
          /\ dir' = [dir EXCEPT ![storing.name].gpg = Absent]
          /\ UNCHANGED storing
       \/ /\ d.metadata # Absent
          /\ dir' = [dir EXCEPT ![storing.name].metadata = Absent]
          /\ UNCHANGED storing
       \/ /\ d = [NoDirectory EXCEPT !.there = TRUE]
          /\ dir' = [dir EXCEPT ![storing.name] = NoDirectory]
          /\ storing' = Idle
    \* From here on the wallet is being given up.
    /\ kept' = [kept EXCEPT ![storing.name] = Absent]
    /\ UNCHANGED <<commands, failures>>

\* The command ends early.  A file it was writing is as before, or cut short.
CutShort ==
    /\ storing # Idle
    /\ failures < MaxFailures
    /\ \/ UNCHANGED <<dir, kept>>
       \/ /\ storing.op = "mnemonic"
          /\ dir' = [dir EXCEPT ![storing.name] = WithMnemonic(@, Torn)]
          /\ UNCHANGED kept
       \/ /\ storing.op = "metadata"
          /\ dir' = [dir EXCEPT ![storing.name].metadata = Torn]
          /\ UNCHANGED kept
    /\ storing' = Idle
    /\ failures' = failures + 1
    /\ UNCHANGED commands

StoreNext ==
    \/ \E n \in Wallets, p \in Phrases, e \in BOOLEAN : CreateWallet(n, p, e)
    \/ MakeDirectory
    \/ WriteFile
    \/ \E n \in Wallets : DeleteWallet(n)
    \/ RemoveFile
    \/ CutShort

-----------------------------------------------------------------------------

Directory ==
    [there : BOOLEAN, plain : Phrases \cup {Absent, Torn}, gpg : Phrases \cup {Absent, Torn},
     metadata : {Absent, Torn, "plain", "gpg"}]

StoringType ==
    \/ storing = Idle
    \/ storing \in [op : {"directory", "mnemonic", "metadata"}, name : Wallets,
                    phrase : Phrases, encrypted : BOOLEAN]
    \/ storing \in [op : {"remove"}, name : Wallets]

StoreTypeOK ==
    /\ dir \in [Wallets -> Directory]
    /\ StoringType
    /\ commands \in 0 .. MaxCommands
    /\ failures \in 0 .. MaxFailures
    /\ kept \in [Wallets -> Phrases \cup {Absent}]

(***************************************************************************)
(* A wallet that `wallet list` shows opens, with the phrase it was created *)
(* with, whatever commands were cut short on the way: unless a deletion of *)
(* it was begun (WalletStorage::create_wallet, load_mnemonic).             *)
(***************************************************************************)
ListedLoads ==
    \A n \in Listed : kept[n] # Absent => Loads(n) /\ Phrase(n) = kept[n]

=============================================================================

------------------------ MODULE MultisigPortalProofs ------------------------
(***************************************************************************)
(* Proofs about MultisigPortal and the wallet store it runs over: for any  *)
(* wallets, phrases, signers, thresholds and amounts, and any number of    *)
(* commands, registrations, transactions and failures.                     *)
(***************************************************************************)
EXTENDS MultisigPortal, SequenceTheorems, SumProofs

-----------------------------------------------------------------------------
(* The wallet store.                                                       *)

Empty == [NoDirectory EXCEPT !.there = TRUE]

Holds(t, p, g, m) == [there |-> t, plain |-> p, gpg |-> g, metadata |-> m]

\* What writing one entry of a directory leaves.
LEMMA EntryWritten ==
    ASSUME NEW t, NEW p, NEW g, NEW m, NEW x
    PROVE  /\ [Holds(t, p, g, m) EXCEPT !.there = x] = Holds(x, p, g, m)
           /\ [Holds(t, p, g, m) EXCEPT !.plain = x] = Holds(t, x, g, m)
           /\ [Holds(t, p, g, m) EXCEPT !.gpg = x] = Holds(t, p, x, m)
           /\ [Holds(t, p, g, m) EXCEPT !.metadata = x] = Holds(t, p, g, x)
BY SMT DEF Holds

LEMMA EmptyHolds == Empty = Holds(TRUE, Absent, Absent, Absent)
<1>1. PICK no : no = FALSE
  OBVIOUS
<1>2. PICK yes : yes = TRUE
  OBVIOUS
<1>3. [Holds(no, Absent, Absent, Absent) EXCEPT !.there = yes] = Holds(yes, Absent, Absent, Absent)
  BY SMT DEF Holds
<1>4. NoDirectory = Holds(FALSE, Absent, Absent, Absent)
  BY Zenon DEF NoDirectory, Holds
<1>5. QED
  BY <1>1, <1>2, <1>3, <1>4, Zenon DEF Empty

\* The mnemonic in an empty directory, and the metadata beside it.
LEMMA MnemonicHolds ==
    ASSUME NEW p
    PROVE  WithMnemonic(Empty, p) = IF storing.encrypted THEN Holds(TRUE, Absent, p, Absent)
                                                         ELSE Holds(TRUE, p, Absent, Absent)
<1>1. PICK yes : yes = TRUE
  OBVIOUS
<1>2. /\ [Holds(yes, Absent, Absent, Absent) EXCEPT !.gpg = p] = Holds(yes, Absent, p, Absent)
      /\ [Holds(yes, Absent, Absent, Absent) EXCEPT !.plain = p] = Holds(yes, p, Absent, Absent)
  BY SMT DEF Holds
<1>3. QED
  BY <1>1, <1>2, EmptyHolds, Zenon DEF WithMnemonic

LEMMA MetadataHolds ==
    ASSUME NEW p
    PROVE  WithMetadata(WithMnemonic(Empty, p)) =
              IF storing.encrypted THEN Holds(TRUE, Absent, p, "gpg")
                                   ELSE Holds(TRUE, p, Absent, "plain")
<1>1. PICK yes : yes = TRUE
  OBVIOUS
<1>2. /\ [Holds(yes, Absent, p, Absent) EXCEPT !.metadata = "gpg"] = Holds(yes, Absent, p, "gpg")
      /\ [Holds(yes, p, Absent, Absent) EXCEPT !.metadata = "plain"] = Holds(yes, p, Absent, "plain")
  BY SMT DEF Holds
<1>3. QED
  BY <1>1, <1>2, MnemonicHolds, Zenon DEF WithMetadata

\* A create command has the directory for itself, and has written what the
\* step it is at says.
Creating(n, op) == storing # Idle /\ storing.op = op /\ storing.name = n

StoreInv ==
    /\ StoreTypeOK
    /\ \A n \in Wallets :
          /\ ~dir[n].there => dir[n] = NoDirectory
          /\ ~(dir[n].plain \in Phrases /\ dir[n].gpg \in Phrases)
          /\ Creating(n, "directory") => dir[n] = NoDirectory
          /\ Creating(n, "mnemonic") => dir[n] = Empty
          /\ Creating(n, "metadata") =>
                dir[n] = WithMnemonic(Empty, storing.phrase) /\ kept[n] = storing.phrase
          /\ n \in Listed /\ kept[n] # Absent => Phrase(n) = kept[n]

LEMMA StoreInitInv == StoreInit => StoreInv
BY StoreConstants DEF StoreInit, StoreInv, StoreTypeOK, StoringType, Directory, NoDirectory, Creating, Listed

LEMMA StoringFacts ==
    ASSUME StoreInv, storing # Idle
    PROVE  /\ storing.name \in Wallets
           /\ storing.op \in {"directory", "mnemonic", "metadata", "remove"}
           /\ storing.op # "remove" => /\ storing.phrase \in Phrases /\ storing.encrypted \in BOOLEAN
                                       /\ storing = [op |-> storing.op, name |-> storing.name,
                                             phrase |-> storing.phrase, encrypted |-> storing.encrypted]
BY DEF StoreInv, StoreTypeOK, StoringType

LEMMA KeepStore == StoreInv /\ UNCHANGED storeVars => StoreInv'
BY DEF StoreInv, StoreTypeOK, StoringType, Creating, Listed, Phrase, Named, WithMnemonic, storeVars

LEMMA CreateWalletInv ==
    ASSUME StoreInv, NEW n \in Wallets, NEW p \in Phrases, NEW e \in BOOLEAN, CreateWallet(n, p, e)
    PROVE  StoreInv'
<1>1. storing = Idle /\ commands' = commands + 1 /\ commands < MaxCommands
      /\ UNCHANGED <<dir, failures, kept>>
  BY DEF CreateWallet
<1>2. CASE ~Free(n)
  <2>1. storing' = storing
    BY <1>2 DEF CreateWallet
  <2>2. commands' \in 0 .. MaxCommands
    BY <1>1, StoreConstants DEF StoreInv, StoreTypeOK
  <2>3. QED
    BY <1>1, <2>1, <2>2
    DEF StoreInv, StoreTypeOK, StoringType, Creating, Listed, Phrase, Named, WithMnemonic
<1>3. CASE Free(n)
  <2>1. storing' = [op |-> "directory", name |-> n, phrase |-> p, encrypted |-> e]
    BY <1>3 DEF CreateWallet
  <2>2. dir[n] = NoDirectory
    BY <1>3 DEF StoreInv, Free
  <2>3. commands' \in 0 .. MaxCommands
    BY <1>1, StoreConstants DEF StoreInv, StoreTypeOK
  <2>4. QED
    BY <1>1, <2>1, <2>2, <2>3
    DEF StoreInv, StoreTypeOK, StoringType, Creating, Listed, Phrase, Named
<1>4. QED
  BY <1>2, <1>3

LEMMA MakeDirectoryInv == StoreInv /\ MakeDirectory => StoreInv'
<1>. SUFFICES ASSUME StoreInv, MakeDirectory PROVE StoreInv'
  OBVIOUS
<1>. DEFINE n == storing.name
<1>1. /\ storing # Idle /\ storing.op = "directory" /\ n \in Wallets
      /\ dir' = [dir EXCEPT ![n].there = TRUE]
      /\ storing' = [storing EXCEPT !.op = "mnemonic"]
      /\ UNCHANGED <<commands, failures, kept>>
  BY StoringFacts DEF MakeDirectory, Order
<1>2. dir[n] = NoDirectory
  BY <1>1 DEF StoreInv, Creating
<1>3. dir'[n] = Empty /\ \A m \in Wallets : m # n => dir'[m] = dir[m]
  BY <1>1, <1>2 DEF Empty, StoreInv, StoreTypeOK
<1>4. storing' = [op |-> "mnemonic", name |-> n, phrase |-> storing.phrase, encrypted |-> storing.encrypted]
  BY <1>1, StoringFacts
<1>5. StoreTypeOK'
  <2>1. Empty \in Directory
    BY DEF Empty, NoDirectory, Directory
  <2>2. dir' \in [Wallets -> Directory]
    BY <1>1, <1>3, <2>1 DEF StoreInv, StoreTypeOK
  <2>3. StoringType'
    BY <1>1, <1>4, StoringFacts DEF StoringType
  <2>4. QED
    BY <1>1, <2>2, <2>3 DEF StoreInv, StoreTypeOK
<1>6. ASSUME NEW m \in Wallets
      PROVE  /\ ~dir'[m].there => dir'[m] = NoDirectory
             /\ ~(dir'[m].plain \in Phrases /\ dir'[m].gpg \in Phrases)
             /\ ~Creating(m, "directory")' /\ ~Creating(m, "metadata")'
             /\ Creating(m, "mnemonic")' => dir'[m] = Empty
             /\ m \in Listed' /\ kept'[m] # Absent => Phrase(m)' = kept'[m]
  <2>1. CASE m = n
    BY <1>1, <1>3, <1>4, <2>1, StoreConstants DEF Empty, NoDirectory, Creating, Listed
  <2>2. CASE m # n
    BY <1>1, <1>3, <1>4, <2>2 DEF Creating, Listed, StoreInv, Phrase, Named
  <2>3. QED
    BY <2>1, <2>2
<1>7. QED
  BY <1>5, <1>6 DEF StoreInv

LEMMA WriteMnemonicInv ==
    ASSUME StoreInv, WriteFile, storing.op = "mnemonic"
    PROVE  StoreInv'
<1>. DEFINE n == storing.name
            p == storing.phrase
            e == storing.encrypted
            d == WithMnemonic(Empty, p)
<1>1. /\ storing # Idle /\ n \in Wallets /\ p \in Phrases /\ e \in BOOLEAN
      /\ storing = [op |-> "mnemonic", name |-> n, phrase |-> p, encrypted |-> e]
  BY StoringFacts DEF WriteFile
<1>2. dir[n] = Empty
  BY <1>1 DEF StoreInv, Creating
<1>3. /\ dir'[n] = d /\ \A m \in Wallets : m # n => dir'[m] = dir[m]
      /\ dir' = [dir EXCEPT ![n] = d]
  BY <1>1, <1>2 DEF WriteFile, StoreInv, StoreTypeOK
<1>4. /\ storing' = [op |-> "metadata", name |-> n, phrase |-> p, encrypted |-> e]
      /\ kept' = [kept EXCEPT ![n] = p]
      /\ UNCHANGED <<commands, failures>>
  BY <1>1 DEF WriteFile, Order
<1>5. d = IF e THEN Holds(TRUE, Absent, p, Absent) ELSE Holds(TRUE, p, Absent, Absent)
  BY MnemonicHolds
<1>6. StoreTypeOK'
  <2>1. d \in Directory
    BY <1>1, <1>5 DEF Directory, Holds
  <2>2. dir' \in [Wallets -> Directory]
    BY <1>3, <2>1 DEF StoreInv, StoreTypeOK
  <2>3. StoringType'
    BY <1>1, <1>4 DEF StoringType
  <2>4. QED
    BY <1>1, <1>4, <2>2, <2>3 DEF StoreInv, StoreTypeOK
<1>7. ASSUME NEW m \in Wallets
      PROVE  /\ ~dir'[m].there => dir'[m] = NoDirectory
             /\ ~(dir'[m].plain \in Phrases /\ dir'[m].gpg \in Phrases)
             /\ ~Creating(m, "directory")' /\ ~Creating(m, "mnemonic")'
             /\ Creating(m, "metadata")' =>
                   dir'[m] = WithMnemonic(Empty, storing.phrase)' /\ kept'[m] = storing'.phrase
             /\ m \in Listed' /\ kept'[m] # Absent => Phrase(m)' = kept'[m]
  <2>1. CASE m = n
    <3>1. WithMnemonic(Empty, storing.phrase)' = d
      BY <1>1, <1>4 DEF WithMnemonic, Empty
    <3>2. kept'[m] = p
      BY <1>1, <1>4, <2>1 DEF StoreInv, StoreTypeOK
    <3>3. m \notin Listed'
      BY <1>3, <1>5, <2>1, StoreConstants DEF Listed, Holds
    <3>4. QED
      BY <1>3, <1>4, <1>5, <2>1, <3>1, <3>2, <3>3, StoreConstants DEF Creating, Holds
  <2>2. CASE m # n
    BY <1>1, <1>3, <1>4, <2>2 DEF Creating, Listed, StoreInv, StoreTypeOK, Phrase, Named
  <2>3. QED
    BY <2>1, <2>2
<1>8. QED
  BY <1>6, <1>7 DEF StoreInv

LEMMA WriteMetadataInv ==
    ASSUME StoreInv, WriteFile, storing.op = "metadata"
    PROVE  StoreInv'
<1>. DEFINE n == storing.name
            p == storing.phrase
            e == storing.encrypted
            d == WithMnemonic(Empty, p)
<1>1. storing # Idle /\ n \in Wallets /\ p \in Phrases /\ e \in BOOLEAN
  BY StoringFacts DEF WriteFile
<1>2. dir[n] = d /\ kept[n] = p
  BY <1>1 DEF StoreInv, Creating
<1>3. /\ storing' = Idle
      /\ kept' = [kept EXCEPT ![n] = p]
      /\ dir' = [dir EXCEPT ![n] = WithMetadata(@)]
      /\ UNCHANGED <<commands, failures>>
  BY DEF WriteFile, Order
<1>4. d = IF e THEN Holds(TRUE, Absent, p, Absent) ELSE Holds(TRUE, p, Absent, Absent)
  BY MnemonicHolds
<1>. DEFINE w == IF e THEN Holds(TRUE, Absent, p, "gpg") ELSE Holds(TRUE, p, Absent, "plain")
<1>5. WithMetadata(d) = w
  BY MetadataHolds
<1>6. dir'[n] = w /\ \A m \in Wallets : m # n => dir'[m] = dir[m]
  <2>. HIDE DEF w, d, p, e
  <2>1. QED
    BY <1>1, <1>2, <1>3, <1>5 DEF StoreInv, StoreTypeOK
<1>7. kept' = kept
  BY <1>1, <1>2, <1>3 DEF StoreInv, StoreTypeOK
<1>8. StoreTypeOK'
  <2>1. w \in Directory
    BY <1>1 DEF Directory, Holds
  <2>2. dir' \in [Wallets -> Directory]
    <3>. HIDE DEF w, d, p, e
    <3>1. QED
      BY <1>2, <1>3, <1>5, <2>1 DEF StoreInv, StoreTypeOK
  <2>3. QED
    BY <1>3, <1>7, <2>2 DEF StoreInv, StoreTypeOK, StoringType
<1>9. ASSUME NEW m \in Wallets
      PROVE  /\ ~dir'[m].there => dir'[m] = NoDirectory
             /\ ~(dir'[m].plain \in Phrases /\ dir'[m].gpg \in Phrases)
             /\ m \in Listed' /\ kept'[m] # Absent => Phrase(m)' = kept'[m]
  <2>1. CASE m = n
    BY <1>1, <1>2, <1>6, <1>7, <2>1, StoreConstants DEF Phrase, Named, Holds
  <2>2. CASE m # n
    BY <1>1, <1>6, <1>7, <2>2 DEF Listed, StoreInv, Phrase, Named
  <2>3. QED
    BY <2>1, <2>2
<1>10. QED
  BY <1>3, <1>8, <1>9 DEF StoreInv, Creating

LEMMA DeleteWalletInv ==
    ASSUME StoreInv, NEW n \in Wallets, DeleteWallet(n)
    PROVE  StoreInv'
<1>1. /\ storing' = storing \/ storing' = [op |-> "remove", name |-> n]
      /\ commands' \in 0 .. MaxCommands
      /\ UNCHANGED <<dir, failures, kept>>
  BY StoreConstants DEF DeleteWallet, StoreInv, StoreTypeOK
<1>2. QED
  BY <1>1 DEF StoreInv, StoreTypeOK, StoringType, Creating, Listed, Phrase, Named, WithMnemonic

LEMMA RemoveFileInv == StoreInv /\ RemoveFile => StoreInv'
<1>. SUFFICES ASSUME StoreInv, RemoveFile PROVE StoreInv'
  OBVIOUS
<1>. DEFINE n == storing.name
<1>1. /\ storing # Idle /\ storing.op = "remove" /\ n \in Wallets
      /\ kept' = [kept EXCEPT ![n] = Absent]
      /\ storing' = storing \/ storing' = Idle
      /\ UNCHANGED <<commands, failures>>
  BY StoringFacts DEF RemoveFile
<1>2. /\ dir'[n] \in Directory
      /\ ~dir'[n].there => dir'[n] = NoDirectory
      /\ ~(dir'[n].plain \in Phrases /\ dir'[n].gpg \in Phrases)
      /\ \A m \in Wallets : m # n => dir'[m] = dir[m]
      /\ dir' \in [Wallets -> Directory]
  <2>1. dir[n] \in Directory /\ dir \in [Wallets -> Directory]
    BY <1>1 DEF StoreInv, StoreTypeOK
  <2>2. ~(dir[n].plain \in Phrases /\ dir[n].gpg \in Phrases)
    BY <1>1 DEF StoreInv
  <2>3. dir[n].there
        \/ (dir[n].plain = Absent /\ dir[n].gpg = Absent /\ dir[n].metadata = Absent)
    BY <1>1 DEF StoreInv, NoDirectory
  <2>4. CASE dir[n].plain # Absent /\ dir' = [dir EXCEPT ![n].plain = Absent]
    BY <1>1, <2>1, <2>2, <2>3, <2>4, StoreConstants DEF Directory
  <2>5. CASE dir[n].gpg # Absent /\ dir' = [dir EXCEPT ![n].gpg = Absent]
    BY <1>1, <2>1, <2>2, <2>3, <2>5, StoreConstants DEF Directory
  <2>6. CASE dir[n].metadata # Absent /\ dir' = [dir EXCEPT ![n].metadata = Absent]
    BY <1>1, <2>1, <2>2, <2>3, <2>6, StoreConstants DEF Directory
  <2>7. CASE dir' = [dir EXCEPT ![n] = NoDirectory]
    BY <1>1, <2>1, <2>7, StoreConstants DEF NoDirectory, Directory
  <2>8. QED
    BY <2>4, <2>5, <2>6, <2>7 DEF RemoveFile
<1>3. StoreTypeOK'
  BY <1>1, <1>2 DEF StoreInv, StoreTypeOK, StoringType
<1>4. ASSUME NEW m \in Wallets
      PROVE  /\ ~dir'[m].there => dir'[m] = NoDirectory
             /\ ~(dir'[m].plain \in Phrases /\ dir'[m].gpg \in Phrases)
             /\ \A op \in {"directory", "mnemonic", "metadata"} : ~Creating(m, op)'
             /\ m \in Listed' /\ kept'[m] # Absent => Phrase(m)' = kept'[m]
  <2>1. CASE m = n
    BY <1>1, <1>2, <2>1 DEF StoreInv, StoreTypeOK, Creating
  <2>2. CASE m # n
    BY <1>1, <1>2, <2>2 DEF Listed, StoreInv, Phrase, Named, Creating, StoreTypeOK
  <2>3. QED
    BY <2>1, <2>2
<1>5. QED
  BY <1>3, <1>4 DEF StoreInv

LEMMA CutShortInv == StoreInv /\ CutShort => StoreInv'
<1>. SUFFICES ASSUME StoreInv, CutShort PROVE StoreInv'
  OBVIOUS
<1>. DEFINE n == storing.name
<1>1. /\ storing # Idle /\ n \in Wallets
      /\ storing' = Idle /\ commands' = commands /\ kept' = kept
      /\ failures' \in 0 .. MaxFailures
  BY StoringFacts, StoreConstants DEF CutShort, StoreInv, StoreTypeOK
<1>2. dir \in [Wallets -> Directory] /\ dir[n] \in Directory
  BY <1>1 DEF StoreInv, StoreTypeOK
<1>3. /\ dir'[n] \in Directory /\ dir' \in [Wallets -> Directory]
      /\ ~dir'[n].there => dir'[n] = NoDirectory
      /\ ~(dir'[n].plain \in Phrases /\ dir'[n].gpg \in Phrases)
      /\ n \in Listed' /\ kept'[n] # Absent => Named(dir'[n]) = kept'[n]
      /\ \A m \in Wallets : m # n => dir'[m] = dir[m]
  <2>1. CASE dir' = dir
    <3>1. /\ ~dir[n].there => dir[n] = NoDirectory
          /\ ~(dir[n].plain \in Phrases /\ dir[n].gpg \in Phrases)
          /\ n \in Listed /\ kept[n] # Absent => Named(dir[n]) = kept[n]
      BY <1>1 DEF StoreInv, Phrase
    <3>2. Listed' = Listed
      BY <2>1, Zenon DEF Listed
    <3>3. QED
      BY <1>1, <1>2, <2>1, <3>1, <3>2
  <2>2. CASE storing.op = "mnemonic" /\ dir' = [dir EXCEPT ![n] = WithMnemonic(@, Torn)]
    <3>1. dir[n] = Empty
      BY <1>1, <2>2 DEF StoreInv, Creating
    <3>2. \/ WithMnemonic(Empty, Torn) = Holds(TRUE, Absent, Torn, Absent)
          \/ WithMnemonic(Empty, Torn) = Holds(TRUE, Torn, Absent, Absent)
      BY MnemonicHolds
    <3>. DEFINE d == WithMnemonic(Empty, Torn)
    <3>3. /\ d \in Directory /\ d.there /\ d.metadata = Absent
          /\ ~(d.plain \in Phrases /\ d.gpg \in Phrases)
      <4>1. CASE d = Holds(TRUE, Absent, Torn, Absent)
        <5>. HIDE DEF d
        <5>1. QED
          BY <4>1, StoreConstants DEF Holds, Directory
      <4>2. CASE d = Holds(TRUE, Torn, Absent, Absent)
        <5>. HIDE DEF d
        <5>1. QED
          BY <4>2, StoreConstants DEF Holds, Directory
      <4>3. QED
        BY <3>2, <4>1, <4>2
    <3>. HIDE DEF d
    <3>4. dir' = [dir EXCEPT ![n] = d]
      BY <2>2, <3>1 DEF d
    <3>5. dir'[n] = d /\ dir' \in [Wallets -> Directory]
          /\ \A m \in Wallets : m # n => dir'[m] = dir[m]
      BY <1>1, <1>2, <3>3, <3>4
    <3>6. n \notin Listed'
      BY <3>3, <3>5, StoreConstants DEF Listed
    <3>7. QED
      BY <3>3, <3>5, <3>6
  <2>3. CASE storing.op = "metadata" /\ dir' = [dir EXCEPT ![n].metadata = Torn]
    <3>1. \/ dir[n] = Holds(TRUE, Absent, storing.phrase, Absent)
          \/ dir[n] = Holds(TRUE, storing.phrase, Absent, Absent)
      BY <1>1, <2>3, MnemonicHolds DEF StoreInv, Creating
    <3>2. dir[n].there /\ ~(dir[n].plain \in Phrases /\ dir[n].gpg \in Phrases)
      BY <3>1, StoreConstants DEF Holds
    <3>3. /\ dir'[n].there = dir[n].there /\ dir'[n].plain = dir[n].plain
          /\ dir'[n].gpg = dir[n].gpg /\ dir'[n].metadata = Torn
          /\ dir'[n] \in Directory /\ dir' \in [Wallets -> Directory]
          /\ \A m \in Wallets : m # n => dir'[m] = dir[m]
      BY <1>1, <1>2, <2>3 DEF Directory
    <3>4. n \notin Listed'
      BY <3>3, StoreConstants DEF Listed
    <3>5. QED
      BY <3>2, <3>3, <3>4
  <2>4. QED
    BY <2>1, <2>2, <2>3 DEF CutShort
<1>4. StoreTypeOK'
  BY <1>1, <1>3 DEF StoreInv, StoreTypeOK, StoringType
<1>5. ASSUME NEW m \in Wallets
      PROVE  /\ ~dir'[m].there => dir'[m] = NoDirectory
             /\ ~(dir'[m].plain \in Phrases /\ dir'[m].gpg \in Phrases)
             /\ \A op \in {"directory", "mnemonic", "metadata"} : ~Creating(m, op)'
             /\ m \in Listed' /\ kept'[m] # Absent => Phrase(m)' = kept'[m]
  <2>1. CASE m = n
    BY <1>1, <1>3, <2>1 DEF Creating, Listed, Phrase, Named
  <2>2. CASE m # n
    BY <1>1, <1>3, <2>2 DEF Listed, StoreInv, Phrase, Named, Creating
  <2>3. QED
    BY <2>1, <2>2
<1>6. QED
  BY <1>4, <1>5 DEF StoreInv

LEMMA StoreNextInv == StoreInv /\ StoreNext => StoreInv'
<1>. SUFFICES ASSUME StoreInv, StoreNext PROVE StoreInv'
  OBVIOUS
<1>1. ASSUME NEW n \in Wallets, NEW p \in Phrases, NEW e \in BOOLEAN, CreateWallet(n, p, e)
      PROVE  StoreInv'
  BY <1>1, CreateWalletInv
<1>2. CASE MakeDirectory
  BY <1>2, MakeDirectoryInv
<1>3. CASE WriteFile
  <2>1. storing.op = "mnemonic" \/ storing.op = "metadata"
    BY <1>3 DEF WriteFile
  <2>2. QED
    BY <1>3, <2>1, WriteMnemonicInv, WriteMetadataInv
<1>4. ASSUME NEW n \in Wallets, DeleteWallet(n)
      PROVE  StoreInv'
  BY <1>4, DeleteWalletInv
<1>5. CASE RemoveFile
  BY <1>5, RemoveFileInv
<1>6. CASE CutShort
  BY <1>6, CutShortInv
<1>7. QED
  BY <1>1, <1>2, <1>3, <1>4, <1>5, <1>6 DEF StoreNext

\* The portal's commands leave the wallets alone; a request may fail.
LEMMA PortalKeepsStore ==
    ASSUME StoreInv, Next, ~StoreStep
    PROVE  /\ UNCHANGED <<dir, storing, commands, kept>>
           /\ StoreInv'
<1>1. /\ UNCHANGED <<dir, storing, commands, kept>>
      /\ failures' = failures \/ (failures < MaxFailures /\ failures' = failures + 1)
  BY DEF Next, CreateAddress, BuildTx, Sign, PortalInit, Register, GetNonce, SignSetup,
         CompleteSetup, AuthSigner, ClaimBot, PickupSecret, ProposeTx, SubmitWitness,
         AddTransaction, SignTransaction, Fetch, OtherSigns, Refused, Outcome, Answered, Fails,
         storeVars
<1>2. failures' \in 0 .. MaxFailures
  BY <1>1, StoreConstants DEF StoreInv, StoreTypeOK
<1>3. QED
  BY <1>1, <1>2
  DEF StoreInv, StoreTypeOK, StoringType, Creating, Listed, Phrase, Named, WithMnemonic

LEMMA StoreInvariant == Spec => []StoreInv
<1>1. Init => StoreInv
  BY StoreInitInv DEF Init
<1>2. StoreInv /\ [Next]_vars => StoreInv'
  <2>. SUFFICES ASSUME StoreInv, [Next]_vars PROVE StoreInv'
    OBVIOUS
  <2>1. CASE StoreStep
    BY <2>1, StoreNextInv DEF StoreStep
  <2>2. CASE Next /\ ~StoreStep
    BY <2>2, PortalKeepsStore
  <2>3. CASE UNCHANGED vars
    BY <2>3, KeepStore DEF vars
  <2>4. QED
    BY <2>1, <2>2, <2>3
<1>3. QED
  BY <1>1, <1>2, PTL DEF Spec

(***************************************************************************)
(* Every wallet shown opens, with the phrase it was created with: for any  *)
(* number of commands cut short at any step (WalletStorage::create_wallet, *)
(* delete_wallet, load_mnemonic).                                          *)
(***************************************************************************)
THEOREM WalletsLoad == Spec => []ListedLoads
<1>1. StoreInv => ListedLoads
  BY DEF StoreInv, StoreTypeOK, ListedLoads, Listed, Loads, Phrase
<1>2. QED
  BY <1>1, StoreInvariant, PTL

\* What a step of the store leaves of a phrase that is whole.
Keeps(n) ==
    (storing = Idle \/ storing.op # "remove") =>
        /\ dir[n].plain \in Phrases => dir'[n].plain = dir[n].plain
        /\ dir[n].gpg \in Phrases => dir'[n].gpg = dir[n].gpg
        /\ dir[n].plain \in Phrases => dir'[n].gpg \notin Phrases

LEMMA UntouchedKeeps ==
    ASSUME StoreInv, NEW n \in Wallets, dir'[n] = dir[n]
    PROVE  Keeps(n)
BY DEF Keeps, StoreInv

LEMMA StoreKeeps ==
    ASSUME StoreInv, StoreNext, NEW n \in Wallets
    PROVE  Keeps(n)
<1>1. dir \in [Wallets -> Directory] /\ dir[n] \in Directory
  BY DEF StoreInv, StoreTypeOK
<1>2. CASE dir' = dir
  BY <1>2, UntouchedKeeps
<1>3. CASE MakeDirectory
  <2>1. dir'[n].plain = dir[n].plain /\ dir'[n].gpg = dir[n].gpg
    BY <1>1, <1>3, StoringFacts DEF MakeDirectory, Directory
  <2>2. QED
    BY <2>1 DEF Keeps, StoreInv
<1>4. CASE WriteFile
  <2>1. storing # Idle /\ storing.name \in Wallets
    BY <1>4, StoringFacts DEF WriteFile
  <2>2. CASE n # storing.name
    BY <1>1, <1>4, <2>1, <2>2, UntouchedKeeps DEF WriteFile
  <2>3. CASE n = storing.name /\ storing.op = "mnemonic"
    <3>1. dir[n] = Empty
      BY <2>1, <2>3 DEF StoreInv, Creating
    <3>2. QED
      BY <3>1, EmptyHolds, StoreConstants DEF Keeps, Holds
  <2>4. CASE n = storing.name /\ storing.op = "metadata"
    <3>1. dir'[n] = WithMetadata(dir[n])
      BY <1>1, <1>4, <2>1, <2>4 DEF WriteFile
    <3>2. WithMetadata(dir[n]).plain = dir[n].plain /\ WithMetadata(dir[n]).gpg = dir[n].gpg
      BY <1>1 DEF WithMetadata, Directory
    <3>3. QED
      BY <3>1, <3>2 DEF Keeps, StoreInv
  <2>5. QED
    BY <1>4, <2>2, <2>3, <2>4 DEF WriteFile
<1>5. CASE RemoveFile
  BY <1>5 DEF RemoveFile, Keeps
<1>6. CASE CutShort
  <2>1. storing # Idle /\ storing.name \in Wallets
    BY <1>6, StoringFacts DEF CutShort
  <2>2. CASE n # storing.name
    BY <1>1, <1>2, <1>6, <2>1, <2>2, UntouchedKeeps DEF CutShort
  <2>3. CASE n = storing.name /\ storing.op = "mnemonic"
    <3>1. dir[n] = Empty
      BY <2>1, <2>3 DEF StoreInv, Creating
    <3>2. QED
      BY <3>1, EmptyHolds, StoreConstants DEF Keeps, Holds
  <2>4. CASE dir' = [dir EXCEPT ![storing.name].metadata = Torn]
    <3>1. dir'[n].plain = dir[n].plain /\ dir'[n].gpg = dir[n].gpg
      BY <1>1, <2>1, <2>4 DEF Directory
    <3>2. QED
      BY <3>1 DEF Keeps, StoreInv
  <2>5. QED
    BY <1>2, <1>6, <2>2, <2>3, <2>4 DEF CutShort
<1>7. QED
  BY <1>2, <1>3, <1>4, <1>5, <1>6 DEF StoreNext, CreateWallet, DeleteWallet

(***************************************************************************)
(* A whole mnemonic file stays as it is until a deletion of the wallet     *)
(* begins: whatever else was cut short or tried again (create_wallet).     *)
(***************************************************************************)
THEOREM PhrasesStay == Spec => PhrasesKept
<1>1. ASSUME StoreInv, [Next]_vars, NEW n \in Wallets
      PROVE  Keeps(n)
  <2>1. CASE StoreStep
    BY <1>1, <2>1, StoreKeeps DEF StoreStep
  <2>2. CASE Next /\ ~StoreStep
    BY <1>1, <2>2, PortalKeepsStore, UntouchedKeeps
  <2>3. CASE UNCHANGED vars
    BY <1>1, <2>3, UntouchedKeeps DEF vars, storeVars
  <2>4. QED
    BY <1>1, <2>1, <2>2, <2>3
<1>2. StoreInv /\ [Next]_vars =>
        [\A n \in Wallets :
          (storing = Idle \/ storing.op # "remove") =>
              /\ dir[n].plain \in Phrases => dir'[n].plain = dir[n].plain
              /\ dir[n].gpg \in Phrases => dir'[n].gpg = dir[n].gpg
              /\ dir[n].plain \in Phrases => dir'[n].gpg \notin Phrases]_vars
  BY <1>1 DEF Keeps
<1>3. QED
  BY <1>2, StoreInvariant, PTL DEF Spec, PhrasesKept

-----------------------------------------------------------------------------
(* The set-up of the portal.                                               *)

BotType == [address : Keys, status : {"pending", "claimed"}]

\* A file or a command names a bot of its address.
Names(bot, address) == bot \in DOMAIN bots /\ bots[bot].address = address

ClaimStep == Asking("auth") \/ Asking("claim") \/ Asking("pickup")

SetupInv ==
    /\ bots \in Seq(BotType)
    /\ initFile # NoFile => Names(initFile.bot, initFile.address)
    /\ signedFile # NoFile => Names(signedFile.bot, signedFile.address)
    /\ Asking("register") => session.address \in Keys
    /\ Asking("nonce") => Names(session.bot, session.address)
    /\ ClaimStep => /\ session = [at |-> session.at, signed |-> session.signed]
                    /\ Names(session.signed.bot, session.signed.address)
    /\ Asking("pickup") => bots[session.signed.bot].status = "claimed"
    /\ creds # NoFile => /\ Names(creds.bot, creds.address)
                         /\ bots[creds.bot].status = "claimed"

LEMMA SetupInitInv == Init => SetupInv
BY DEF Init, SetupInv, Asking, ClaimStep

\* Bots are registered and claimed, and stay what they are.
BotsStay ==
    /\ bots' \in Seq(BotType)
    /\ \A i \in DOMAIN bots :
          /\ i \in DOMAIN bots'
          /\ bots'[i].address = bots[i].address
          /\ bots[i].status = "claimed" => bots'[i].status = "claimed"

FilesNamed ==
    /\ initFile' # NoFile => initFile'.bot \in DOMAIN bots' /\ bots'[initFile'.bot].address = initFile'.address
    /\ signedFile' # NoFile => signedFile'.bot \in DOMAIN bots' /\ bots'[signedFile'.bot].address = signedFile'.address
    /\ creds' # NoFile => /\ creds'.bot \in DOMAIN bots' /\ bots'[creds'.bot].address = creds'.address
                          /\ bots'[creds'.bot].status = "claimed"

LEMMA UnchangedFilesNamed ==
    ASSUME SetupInv, BotsStay, UNCHANGED <<initFile, signedFile, creds>>
    PROVE  FilesNamed
BY DEF SetupInv, BotsStay, FilesNamed, Names

LEMMA SameBotsStay == SetupInv /\ bots' = bots => BotsStay
BY DEF SetupInv, BotsStay

\* The command has ended, or has not to do with the set-up.
LEMMA OtherSession ==
    ASSUME SetupInv, BotsStay, FilesNamed,
           \/ session' = session
           \/ ~(\E step \in {"register", "nonce", "auth", "claim", "pickup"} : Asking(step)')
    PROVE  SetupInv'
<1>1. CASE session' = session
  BY <1>1 DEF SetupInv, BotsStay, FilesNamed, Names, Asking, ClaimStep
<1>2. CASE ~(\E step \in {"register", "nonce", "auth", "claim", "pickup"} : Asking(step)')
  <2>1. ~ClaimStep' /\ ~Asking("register")' /\ ~Asking("nonce")' /\ ~Asking("pickup")'
    BY <1>2 DEF ClaimStep
  <2>2. QED
    BY <2>1 DEF SetupInv, BotsStay, FilesNamed, Names
<1>3. QED
  BY <1>1, <1>2

LEMMA RegisterInv == SetupInv /\ Register => SetupInv'
<1>. SUFFICES ASSUME SetupInv, Register PROVE SetupInv'
  OBVIOUS
<1>. DEFINE new == [address |-> session.address, status |-> "pending"]
<1>1. session.address \in Keys /\ bots \in Seq(BotType)
  BY DEF Register, SetupInv
<1>2. new \in BotType
  BY <1>1 DEF BotType
<1>3. bots' = Append(bots, new) /\ UNCHANGED <<initFile, signedFile, creds>>
  BY DEF Register
<1>4. /\ bots' \in Seq(BotType) /\ Len(bots) + 1 \in DOMAIN bots' /\ bots'[Len(bots) + 1] = new
      /\ \A i \in DOMAIN bots : i \in DOMAIN bots' /\ bots'[i] = bots[i]
  <2>. HIDE DEF new
  <2>1. QED
    BY <1>1, <1>2, <1>3
<1>5. BotsStay
  BY <1>4 DEF BotsStay
<1>6. FilesNamed
  BY <1>3, <1>5, UnchangedFilesNamed
<1>7. CASE session' = Idle
  BY <1>5, <1>6, <1>7, OtherSession DEF Asking
<1>8. CASE session' = [at |-> "nonce", address |-> session.address, bot |-> Len(bots) + 1]
  <2>1. session'.at = "nonce" /\ session'.bot = Len(bots) + 1 /\ session'.address = session.address
    BY <1>8
  <2>2. /\ ~Asking("register")' /\ ~ClaimStep' /\ ~Asking("pickup")'
    BY <2>1 DEF Asking, ClaimStep
  <2>3. Asking("nonce")' => session'.bot \in DOMAIN bots' /\ bots'[session'.bot].address = session'.address
    BY <1>4, <2>1
  <2>4. QED
    BY <1>5, <1>6, <2>2, <2>3 DEF SetupInv, BotsStay, FilesNamed, Names
<1>9. QED
  BY <1>7, <1>8 DEF Register, Outcome, Answered, Fails

LEMMA GetNonceInv == SetupInv /\ GetNonce => SetupInv'
<1>. SUFFICES ASSUME SetupInv, GetNonce PROVE SetupInv'
  OBVIOUS
<1>1. /\ bots' = bots /\ session' = Idle /\ UNCHANGED <<signedFile, creds>>
      /\ initFile' = initFile
         \/ initFile' = [address |-> session.address, bot |-> session.bot, nonce |-> nonces + 1]
  BY DEF GetNonce, Answered, Fails
<1>2. BotsStay
  BY <1>1, SameBotsStay
<1>3. Names(session.bot, session.address)
  BY DEF GetNonce, SetupInv
<1>4. FilesNamed
  BY <1>1, <1>3 DEF SetupInv, FilesNamed, Names
<1>5. QED
  BY <1>1, <1>2, <1>4, OtherSession DEF Asking

LEMMA SignSetupInv ==
    ASSUME SetupInv, NEW n \in Wallets, SignSetup(n)
    PROVE  SetupInv'
<1>1. /\ bots' = bots /\ session' = session /\ UNCHANGED <<initFile, creds>>
      /\ initFile # NoFile
      /\ signedFile'.bot = initFile.bot /\ signedFile'.address = initFile.address
  BY DEF SignSetup
<1>2. FilesNamed
  BY <1>1 DEF SetupInv, FilesNamed, Names
<1>3. QED
  BY <1>1, <1>2, SameBotsStay, OtherSession

LEMMA CompleteSetupInv == SetupInv /\ CompleteSetup => SetupInv'
<1>. SUFFICES ASSUME SetupInv, CompleteSetup PROVE SetupInv'
  OBVIOUS
<1>1. /\ bots' = bots /\ UNCHANGED <<initFile, signedFile, creds>>
      /\ signedFile # NoFile /\ session' = [at |-> "auth", signed |-> signedFile]
  BY DEF CompleteSetup, setupVars
<1>2. BotsStay /\ FilesNamed
  BY <1>1, SameBotsStay, UnchangedFilesNamed
<1>3. /\ session'.at = "auth" /\ session'.signed = signedFile
      /\ session' = [at |-> session'.at, signed |-> session'.signed]
  BY <1>1
<1>4. ~Asking("register")' /\ ~Asking("nonce")' /\ ~Asking("pickup")'
  BY <1>3 DEF Asking
<1>5. signedFile.bot \in DOMAIN bots' /\ bots'[signedFile.bot].address = signedFile.address
  BY <1>1 DEF SetupInv, Names
<1>6. QED
  BY <1>2, <1>3, <1>4, <1>5 DEF SetupInv, BotsStay, FilesNamed, Names

LEMMA AuthSignerInv == SetupInv /\ AuthSigner => SetupInv'
<1>. SUFFICES ASSUME SetupInv, AuthSigner PROVE SetupInv'
  OBVIOUS
<1>1. /\ bots' = bots /\ UNCHANGED <<initFile, signedFile, creds>>
      /\ session' = Idle \/ session' = [session EXCEPT !.at = "claim"]
      /\ session = [at |-> session.at, signed |-> session.signed]
      /\ Names(session.signed.bot, session.signed.address)
  BY DEF AuthSigner, setupVars, Outcome, Answered, Fails, SetupInv, ClaimStep
<1>2. BotsStay /\ FilesNamed
  BY <1>1, SameBotsStay, UnchangedFilesNamed
<1>3. CASE session' = Idle
  BY <1>2, <1>3, OtherSession DEF Asking
<1>4. CASE session' = [session EXCEPT !.at = "claim"]
  <2>1. /\ session'.at = "claim" /\ session'.signed = session.signed
        /\ session' = [at |-> session'.at, signed |-> session'.signed]
    BY <1>1, <1>4
  <2>2. ~Asking("register")' /\ ~Asking("nonce")' /\ ~Asking("pickup")'
    BY <2>1 DEF Asking
  <2>3. QED
    BY <1>1, <1>2, <2>1, <2>2 DEF SetupInv, BotsStay, FilesNamed, Names
<1>5. QED
  BY <1>1, <1>3, <1>4

LEMMA ClaimBotInv == SetupInv /\ ClaimBot => SetupInv'
<1>. SUFFICES ASSUME SetupInv, ClaimBot PROVE SetupInv'
  OBVIOUS
<1>. DEFINE b == session.signed.bot
<1>1. /\ UNCHANGED <<initFile, signedFile, creds>>
      /\ bots' = [bots EXCEPT ![b].status = "claimed"]
      /\ session' = Idle \/ session' = [session EXCEPT !.at = "pickup"]
      /\ session = [at |-> session.at, signed |-> session.signed]
      /\ b \in DOMAIN bots /\ bots[b].address = session.signed.address
      /\ bots \in Seq(BotType)
  BY DEF ClaimBot, Outcome, Answered, Fails, SetupInv, ClaimStep, Names
<1>2. /\ bots' \in Seq(BotType) /\ DOMAIN bots' = DOMAIN bots
      /\ bots'[b].address = bots[b].address /\ bots'[b].status = "claimed"
      /\ \A i \in DOMAIN bots : i # b => bots'[i] = bots[i]
  <2>. DEFINE c == [bots[b] EXCEPT !.status = "claimed"]
  <2>1. bots[b] \in BotType
    BY <1>1
  <2>2. c \in BotType /\ c.address = bots[b].address /\ c.status = "claimed"
    BY <2>1 DEF BotType
  <2>3. bots' = [bots EXCEPT ![b] = c]
    BY <1>1
  <2>. HIDE DEF c
  <2>4. bots' \in Seq(BotType)
    BY <1>1, <2>2, <2>3
  <2>5. QED
    BY <1>1, <2>2, <2>3, <2>4
<1>3. BotsStay
  BY <1>2 DEF BotsStay
<1>4. FilesNamed
  BY <1>1, <1>3, UnchangedFilesNamed
<1>5. CASE session' = Idle
  BY <1>3, <1>4, <1>5, OtherSession DEF Asking
<1>6. CASE session' = [session EXCEPT !.at = "pickup"]
  <2>1. /\ session'.at = "pickup" /\ session'.signed = session.signed
        /\ session' = [at |-> session'.at, signed |-> session'.signed]
    BY <1>1, <1>6
  <2>2. ~Asking("register")' /\ ~Asking("nonce")'
    BY <2>1 DEF Asking
  <2>3. /\ session'.signed.bot \in DOMAIN bots'
        /\ bots'[session'.signed.bot].address = session'.signed.address
        /\ bots'[session'.signed.bot].status = "claimed"
    BY <1>1, <1>2, <2>1
  <2>4. QED
    BY <1>3, <1>4, <2>1, <2>2, <2>3 DEF SetupInv, BotsStay, FilesNamed, Names
<1>7. QED
  BY <1>1, <1>5, <1>6

LEMMA PickupSecretInv == SetupInv /\ PickupSecret => SetupInv'
<1>. SUFFICES ASSUME SetupInv, PickupSecret PROVE SetupInv'
  OBVIOUS
<1>1. /\ bots' = bots /\ session' = Idle /\ UNCHANGED <<initFile, signedFile>>
      /\ creds' = creds
         \/ creds' = [address |-> session.signed.address, bot |-> session.signed.bot]
  BY DEF PickupSecret, Answered, Fails
<1>2. /\ Names(session.signed.bot, session.signed.address)
      /\ bots[session.signed.bot].status = "claimed"
  BY DEF PickupSecret, AfterClaim, SetupInv, ClaimStep
<1>3. FilesNamed
  BY <1>1, <1>2 DEF SetupInv, FilesNamed, Names
<1>4. QED
  BY <1>1, <1>3, SameBotsStay, OtherSession DEF Asking

LEMMA PortalInitInv ==
    ASSUME SetupInv, NEW k \in Keys, PortalInit(k)
    PROVE  SetupInv'
<1>1. /\ bots' = bots /\ UNCHANGED <<initFile, signedFile, creds>>
      /\ session' = [at |-> "register", address |-> k]
  BY DEF PortalInit, setupVars
<1>2. BotsStay /\ FilesNamed
  BY <1>1, SameBotsStay, UnchangedFilesNamed
<1>3. session'.at = "register" /\ session'.address = k
  BY <1>1
<1>4. ~Asking("nonce")' /\ ~ClaimStep' /\ ~Asking("pickup")'
  BY <1>3 DEF Asking, ClaimStep
<1>5. QED
  BY <1>2, <1>3, <1>4 DEF SetupInv, BotsStay, FilesNamed, Names

\* The commands that have nothing to do with the set-up.
LEMMA OtherStepInv ==
    ASSUME SetupInv, UNCHANGED <<initFile, signedFile, creds, bots>>,
           \/ session' = session \/ session' = Idle
           \/ session'.at \in {"add", "sign"}
    PROVE  SetupInv'
BY SameBotsStay, UnchangedFilesNamed, OtherSession DEF Asking

LEMMA SetupInvariant == Spec => []SetupInv
<1>1. SetupInv /\ [Next]_vars => SetupInv'
  <2>. SUFFICES ASSUME SetupInv, [Next]_vars PROVE SetupInv'
    OBVIOUS
  <2>1. CASE StoreStep
    BY <2>1, OtherStepInv DEF StoreStep, setupVars
  <2>2. ASSUME NEW args \in Arguments, CreateAddress(args)
        PROVE  SetupInv'
    BY <2>2, OtherStepInv DEF CreateAddress, setupVars
  <2>3. ASSUME NEW spend \in Spends, BuildTx(spend)
        PROVE  SetupInv'
    BY <2>3, OtherStepInv DEF BuildTx, setupVars
  <2>4. ASSUME NEW n \in Wallets, NEW tx \in built, Sign(n, tx)
        PROVE  SetupInv'
    BY <2>4, OtherStepInv DEF Sign, setupVars
  <2>5. ASSUME NEW tx \in built, NEW w \in witnesses, ProposeTx(tx, w)
        PROVE  SetupInv'
    <3>1. session'.at = "add" /\ UNCHANGED setupVars
      BY <2>5 DEF ProposeTx
    <3>2. QED
      BY <3>1, OtherStepInv DEF setupVars
  <2>6. ASSUME NEW i \in DOMAIN portal, NEW w \in witnesses, SubmitWitness(i, w)
        PROVE  SetupInv'
    <3>1. session'.at = "sign" /\ UNCHANGED setupVars
      BY <2>6 DEF SubmitWitness
    <3>2. QED
      BY <3>1, OtherStepInv DEF setupVars
  <2>7. CASE AddTransaction \/ SignTransaction \/ Refused
    BY <2>7, OtherStepInv
    DEF AddTransaction, SignTransaction, Refused, setupVars, Outcome, Answered, Fails
  <2>8. ASSUME NEW i \in DOMAIN portal, Fetch(i)
        PROVE  SetupInv'
    BY <2>8, OtherStepInv DEF Fetch, setupVars
  <2>9. ASSUME NEW k \in Others, NEW i \in DOMAIN portal, OtherSigns(k, i)
        PROVE  SetupInv'
    BY <2>9, OtherStepInv DEF OtherSigns, setupVars
  <2>10. CASE UNCHANGED vars
    BY <2>10, OtherStepInv DEF vars, setupVars
  <2>11. ASSUME NEW k \in Keys, PortalInit(k)
         PROVE  SetupInv'
    BY <2>11, PortalInitInv
  <2>12. ASSUME NEW n \in Wallets, SignSetup(n)
         PROVE  SetupInv'
    BY <2>12, SignSetupInv
  <2>13. QED
    BY <2>1, <2>2, <2>3, <2>4, <2>5, <2>6, <2>7, <2>8, <2>9, <2>10, <2>11, <2>12,
       RegisterInv, GetNonceInv, CompleteSetupInv, AuthSignerInv, ClaimBotInv, PickupSecretInv
    DEF Next
<1>2. QED
  BY <1>1, SetupInitInv, PTL DEF Spec

(***************************************************************************)
(* Credentials on disk work: of any number of registrations, signed files, *)
(* repeated set-ups and answers lost after the portal had acted, those     *)
(* saved are of a bot claimed for their address (portal_complete_setup).   *)
(***************************************************************************)
THEOREM CredentialsAlwaysWork == Spec => []CredentialsWork
<1>1. SetupInv => CredentialsWork
  <2>. SUFFICES ASSUME SetupInv, creds # NoFile
                PROVE  /\ creds.bot \in DOMAIN bots
                       /\ bots[creds.bot] = [address |-> creds.address, status |-> "claimed"]
    BY DEF CredentialsWork
  <2>1. /\ creds.bot \in DOMAIN bots /\ bots \in Seq(BotType)
        /\ bots[creds.bot].address = creds.address /\ bots[creds.bot].status = "claimed"
    BY DEF SetupInv, Names
  <2>2. bots[creds.bot] \in BotType
    BY <2>1
  <2>3. bots[creds.bot] =
           [address |-> bots[creds.bot].address, status |-> bots[creds.bot].status]
    BY <2>2 DEF BotType
  <2>4. QED
    BY <2>1, <2>3
<1>2. QED
  BY <1>1, SetupInvariant, PTL

-----------------------------------------------------------------------------
(* Sorted keys.                                                            *)

\* Sets of numbers have a least element.
LEMMA LeastNumber ==
    ASSUME NEW S, S \subseteq Nat, S # {}
    PROVE  \E m \in S : \A n \in S : m <= n
<1>1. PICK m \in S : \A n \in S : ~(<<n, m>> \in OpToRel(<, Nat))
  BY NatLessThanWellFounded, WFMin, Zenon
<1>2. \A n \in S : ~(n < m)
  BY <1>1 DEF OpToRel
<1>3. QED
  BY <1>2

SortOf(f, n, s) ==
    /\ s \in [1 .. n -> Nat]
    /\ Ascending(s)
    /\ \E p \in [1 .. n -> 1 .. n] : IsInjective(p) /\ \A i \in 1 .. n : s[i] = f[p[i]]

\* One place more, before the others from a place on.
LEMMA PermutationInsert ==
    ASSUME NEW n \in Nat, NEW p \in [1 .. n -> 1 .. n], IsInjective(p), NEW a \in 1 .. n + 1,
           NEW r, r = [i \in 1 .. n + 1 |-> IF i < a THEN p[i] ELSE IF i = a THEN n + 1 ELSE p[i - 1]]
    PROVE  r \in [1 .. n + 1 -> 1 .. n + 1] /\ IsInjective(r)
<1>1. \A i \in 1 .. n + 1 : /\ i < a => i \in 1 .. n /\ r[i] = p[i] /\ p[i] \in 1 .. n
                            /\ i = a => r[i] = n + 1
                            /\ i > a => i - 1 \in 1 .. n /\ r[i] = p[i - 1] /\ p[i - 1] \in 1 .. n
  OBVIOUS
<1>2. DOMAIN r = 1 .. n + 1
  OBVIOUS
<1>3. \A i \in 1 .. n + 1 : r[i] \in 1 .. n + 1
  BY <1>1
<1>4. r \in [1 .. n + 1 -> 1 .. n + 1]
  BY <1>3
<1>5. \A i, j \in 1 .. n : p[i] = p[j] => i = j
  BY DEF IsInjective
<1>6. ASSUME NEW i \in 1 .. n + 1, NEW j \in 1 .. n + 1, r[i] = r[j], i < j PROVE FALSE
  <2>1. CASE i < a /\ j < a
    BY <1>1, <1>5, <1>6, <2>1
  <2>2. CASE i < a /\ j > a
    <3>1. /\ i \in 1 .. n /\ j - 1 \in 1 .. n
          /\ p[i] = p[j - 1]
      BY <1>1, <1>6, <2>2
    <3>2. i = j - 1
      BY <1>5, <3>1
    <3>3. QED
      BY <2>2, <3>2
  <2>3. CASE i > a
    <3>1. /\ i - 1 \in 1 .. n /\ j - 1 \in 1 .. n
          /\ p[i - 1] = p[j - 1]
      BY <1>1, <1>6, <2>3
    <3>2. i - 1 = j - 1
      BY <1>5, <3>1
    <3>3. QED
      BY <1>6, <3>2
  <2>4. CASE i = a \/ j = a
    BY <1>1, <1>6, <2>4
  <2>5. QED
    BY <2>1, <2>2, <2>3, <2>4
<1>7. \A i, j \in DOMAIN r : r[i] = r[j] => i = j
  <2>1. \A i, j \in 1 .. n + 1 : i < j \/ i = j \/ j < i
    OBVIOUS
  <2>2. QED
    BY <1>2, <1>6, <2>1
<1>8. QED
  BY <1>4, <1>7 DEF IsInjective

\* One number more goes before the first that is greater.
LEMMA SortInsert ==
    ASSUME NEW n \in Nat, NEW f, \A i \in 1 .. n + 1 : f[i] \in Nat,
           NEW s, SortOf(f, n, s)
    PROVE  \E t : SortOf(f, n + 1, t)
<1>. DEFINE x == f[n + 1]
            S == {q \in 1 .. n + 1 : q = n + 1 \/ s[q] > x}
<1>1. x \in Nat /\ s \in [1 .. n -> Nat]
  BY DEF SortOf
<1>2. PICK a \in S : \A q \in S : a <= q
  <2>1. S \subseteq Nat /\ n + 1 \in S
    OBVIOUS
  <2>. HIDE DEF S
  <2>2. QED
    BY <2>1, LeastNumber
<1>4. \A i, j \in 1 .. n : i < j => s[i] <= s[j]
  BY <1>1 DEF SortOf, Ascending
<1>5. \A i \in 1 .. n : (i < a => s[i] <= x) /\ (i >= a => x <= s[i])
  <2>1. ASSUME NEW i \in 1 .. n, i < a PROVE s[i] <= x
    BY <1>1, <1>2, <2>1
  <2>2. ASSUME NEW i \in 1 .. n, i >= a PROVE x <= s[i]
    <3>1. a \in 1 .. n /\ s[a] > x
      BY <1>2, <2>2
    <3>2. CASE i = a
      BY <1>1, <3>1, <3>2
    <3>3. CASE i # a
      <4>1. s[a] <= s[i]
        BY <1>4, <2>2, <3>1, <3>3
      <4>2. s[a] \in Nat /\ s[i] \in Nat
        BY <1>1, <3>1
      <4>3. QED
        BY <1>1, <3>1, <4>1, <4>2
    <3>4. QED
      BY <3>2, <3>3
  <2>3. QED
    BY <2>1, <2>2
<1>. DEFINE t == [i \in 1 .. n + 1 |-> IF i < a THEN s[i] ELSE IF i = a THEN x ELSE s[i - 1]]
<1>6. a \in 1 .. n + 1
  BY <1>2
<1>. HIDE DEF S
<1>7. t \in [1 .. n + 1 -> Nat]
  BY <1>1, <1>6
<1>8. ASSUME NEW i \in 1 .. n + 1, NEW j \in 1 .. n + 1, i < j PROVE t[i] <= t[j]
  <2>. HIDE DEF x
  <2>1. CASE j < a
    BY <1>1, <1>4, <1>6, <1>8, <2>1
  <2>2. CASE j = a
    BY <1>1, <1>5, <1>6, <1>8, <2>2
  <2>3. CASE j > a /\ i < a
    <3>1. t[j] = s[j - 1] /\ t[i] = s[i] /\ i \in 1 .. n /\ j - 1 \in 1 .. n /\ j - 1 >= a
      BY <1>6, <2>3
    <3>2. s[i] <= x /\ x <= s[j - 1] /\ s[i] \in Nat /\ s[j - 1] \in Nat
      BY <1>1, <1>5, <2>3, <3>1
    <3>3. QED
      BY <1>1, <3>1, <3>2
  <2>4. CASE j > a /\ i = a
    BY <1>1, <1>5, <1>6, <1>8, <2>4
  <2>5. CASE j > a /\ i > a
    <3>1. t[j] = s[j - 1] /\ t[i] = s[i - 1]
      BY <1>6, <2>5
    <3>2. i - 1 \in 1 .. n /\ j - 1 \in 1 .. n /\ i - 1 < j - 1
      BY <1>6, <1>8, <2>5
    <3>3. QED
      BY <1>4, <3>1, <3>2
  <2>6. QED
    BY <1>6, <1>8, <2>1, <2>2, <2>3, <2>4, <2>5
<1>9. \E r \in [1 .. n + 1 -> 1 .. n + 1] :
        IsInjective(r) /\ \A i \in 1 .. n + 1 : t[i] = f[r[i]]
  <2>1. PICK p \in [1 .. n -> 1 .. n] : IsInjective(p) /\ \A i \in 1 .. n : s[i] = f[p[i]]
    BY DEF SortOf
  <2>. DEFINE r == [i \in 1 .. n + 1 |-> IF i < a THEN p[i] ELSE IF i = a THEN n + 1 ELSE p[i - 1]]
  <2>2. r \in [1 .. n + 1 -> 1 .. n + 1] /\ IsInjective(r)
    BY <1>6, <2>1, PermutationInsert
  <2>3. ASSUME NEW i \in 1 .. n + 1 PROVE t[i] = f[r[i]]
    <3>1. CASE i < a
      BY <1>6, <2>1, <3>1
    <3>2. CASE i = a
      BY <3>2
    <3>3. CASE i > a
      <4>1. i - 1 \in 1 .. n /\ t[i] = s[i - 1] /\ r[i] = p[i - 1]
        BY <1>6, <3>3
      <4>2. QED
        BY <2>1, <4>1
    <3>4. QED
      BY <1>6, <3>1, <3>2, <3>3
  <2>. HIDE DEF r, t
  <2>4. QED
    BY <2>2, <2>3
<1>10. SortOf(f, n + 1, t)
  <2>1. DOMAIN t = 1 .. n + 1
    OBVIOUS
  <2>. HIDE DEF t
  <2>2. Ascending(t)
    BY <1>8, <2>1 DEF Ascending
  <2>3. QED
    BY <1>7, <1>9, <2>2 DEF SortOf
<1>11. QED
  BY <1>10

\* Numbers have a sort.
LEMMA SortExists ==
    ASSUME NEW m \in Nat, NEW f, \A i \in 1 .. m : f[i] \in Nat
    PROVE  \E s : SortOf(f, m, s)
<1>. DEFINE N == {n \in 0 .. m : ~\E s : SortOf(f, n, s)}
<1>1. SUFFICES ASSUME N # {} PROVE FALSE
  OBVIOUS
<1>2. PICK n \in N : \A k \in N : n <= k
  <2>1. N \subseteq Nat
    OBVIOUS
  <2>. HIDE DEF N
  <2>2. QED
    BY <1>1, <2>1, LeastNumber
<1>3. CASE n = 0
  <2>. DEFINE s == [i \in 1 .. 0 |-> 0]
  <2>1. 1 .. 0 = {} /\ s \in [1 .. 0 -> Nat] /\ s \in [1 .. 0 -> 1 .. 0]
    OBVIOUS
  <2>. HIDE DEF s
  <2>2. Ascending(s) /\ IsInjective(s) /\ \A i \in 1 .. 0 : s[i] = f[s[i]]
    BY <2>1 DEF Ascending, IsInjective
  <2>3. SortOf(f, 0, s)
    BY <2>1, <2>2 DEF SortOf
  <2>4. QED
    BY <1>2, <1>3, <2>3
<1>4. CASE n # 0
  <2>1. n - 1 \in 0 .. m /\ n - 1 \notin N
    BY <1>2, <1>4
  <2>2. PICK s : SortOf(f, n - 1, s)
    BY <2>1
  <2>3. PICK k \in Nat : k = n - 1 /\ n = k + 1 /\ k + 1 \in 0 .. m
    BY <1>2, <2>1
  <2>4. \E t : SortOf(f, k + 1, t)
    <3>1. \A i \in 1 .. k + 1 : f[i] \in Nat
      BY <2>3
    <3>2. SortOf(f, k, s)
      BY <2>2, <2>3
    <3>3. QED
      BY <3>1, <3>2, SortInsert
  <2>5. QED
    BY <1>2, <2>3, <2>4
<1>5. QED
  BY <1>3, <1>4

\* What --sort-keys writes is sorted, and of the keys given.
LEMMA SortedKeys ==
    ASSUME NEW keys \in Seq(Nat)
    PROVE  Sorted(keys) \in [DOMAIN keys -> Range(keys)] /\ Ascending(Sorted(keys))
<1>1. PICK m \in Nat : m = Len(keys) /\ DOMAIN keys = 1 .. m
  OBVIOUS
<1>2. \A i \in 1 .. m : keys[i] \in Nat
  BY <1>1
<1>3. PICK s : SortOf(keys, m, s)
  BY <1>2, SortExists
<1>4. /\ s \in [DOMAIN keys -> Nat] /\ Ascending(s)
      /\ \E p \in [DOMAIN keys -> DOMAIN keys] :
            IsInjective(p) /\ \A i \in DOMAIN keys : s[i] = keys[p[i]]
  BY <1>1, <1>3, Zenon DEF SortOf
<1>5. s \in [DOMAIN keys -> Range(keys)]
  BY <1>4 DEF Range
<1>6. QED
  BY <1>4, <1>5, Zenon DEF Sorted

\* There is only one way to list the same keys in order.
LEMMA SortUnique ==
    ASSUME NEW s \in Seq(Nat), NEW t \in Seq(Nat), Ascending(s), Ascending(t),
           IsInjective(s), IsInjective(t), Range(s) = Range(t)
    PROVE  s = t
<1>1. PICK m \in Nat, n \in Nat :
         m = Len(s) /\ n = Len(t) /\ DOMAIN s = 1 .. m /\ DOMAIN t = 1 .. n
  OBVIOUS
<1>2. /\ \A i \in 1 .. m : s[i] \in Nat /\ \E j \in 1 .. n : s[i] = t[j]
      /\ \A j \in 1 .. n : t[j] \in Nat /\ \E i \in 1 .. m : t[j] = s[i]
      /\ \A i, j \in 1 .. m : i < j => s[i] < s[j]
      /\ \A i, j \in 1 .. n : i < j => t[i] < t[j]
  <2>1. \A i \in 1 .. m : s[i] \in Range(t)
    BY <1>1 DEF Range
  <2>2. \A j \in 1 .. n : t[j] \in Range(s)
    BY <1>1 DEF Range
  <2>3. /\ \A i \in 1 .. m : s[i] \in Nat
        /\ \A j \in 1 .. n : t[j] \in Nat
    BY <1>1
  <2>4. /\ \A i, j \in 1 .. m : i < j => s[i] < s[j]
        /\ \A i, j \in 1 .. n : i < j => t[i] < t[j]
    <3>1. /\ \A i, j \in 1 .. m : i < j => s[i] <= s[j] /\ s[i] # s[j]
          /\ \A i, j \in 1 .. n : i < j => t[i] <= t[j] /\ t[i] # t[j]
      <4>1. /\ \A i, j \in 1 .. m : i < j => s[i] <= s[j]
            /\ \A i, j \in 1 .. n : i < j => t[i] <= t[j]
        BY <1>1 DEF Ascending
      <4>2. /\ \A i, j \in 1 .. m : s[i] = s[j] => i = j
            /\ \A i, j \in 1 .. n : t[i] = t[j] => i = j
        BY <1>1 DEF IsInjective
      <4>3. QED
        BY <4>1, <4>2
    <3>2. \A x, y \in Nat : x <= y /\ x # y => x < y
      OBVIOUS
    <3>3. QED
      BY <2>3, <3>1, <3>2
  <2>5. /\ \A i \in 1 .. m : \E j \in 1 .. n : s[i] = t[j]
        /\ \A j \in 1 .. n : \E i \in 1 .. m : t[j] = s[i]
    BY <1>1, <2>1, <2>2 DEF Range
  <2>6. QED
    BY <2>3, <2>4, <2>5
<1>. DEFINE N == {i \in Nat : i \in 1 .. m /\ i \in 1 .. n /\ s[i] # t[i]}
<1>3. N = {}
  <2>. SUFFICES ASSUME N # {} PROVE FALSE
    OBVIOUS
  <2>1. PICK i \in N : \A k \in N : i <= k
    <3>1. N \subseteq Nat
      OBVIOUS
    <3>. HIDE DEF N
    <3>2. QED
      BY <3>1, LeastNumber
  <2>2. \A k \in 1 .. i - 1 : s[k] = t[k]
    BY <2>1
  <2>3. i \in 1 .. m /\ i \in 1 .. n /\ s[i] # t[i]
    OBVIOUS
  <2>. HIDE DEF N
  <2>4. PICK j \in 1 .. n : s[i] = t[j]
    BY <1>2, <2>3
  <2>5. PICK k \in 1 .. m : t[i] = s[k]
    BY <1>2, <2>3
  <2>6. ~(j < i) /\ ~(k < i)
    <3>1. ASSUME j < i PROVE FALSE
      <4>1. s[j] = t[j] /\ j \in 1 .. m
        BY <2>2, <2>3, <3>1
      <4>2. s[j] < s[i] /\ s[j] \in Nat
        BY <1>2, <2>3, <3>1, <4>1
      <4>3. QED
        BY <2>4, <4>1, <4>2
    <3>2. ASSUME k < i PROVE FALSE
      <4>1. s[k] = t[k] /\ k \in 1 .. n
        BY <2>2, <2>3, <3>2
      <4>2. t[k] < t[i] /\ t[k] \in Nat
        BY <1>2, <2>3, <3>2, <4>1
      <4>3. QED
        BY <2>5, <4>1, <4>2
    <3>3. QED
      BY <3>1, <3>2
  <2>7. j > i /\ k > i
    BY <2>3, <2>4, <2>5, <2>6
  <2>8. t[i] < t[j] /\ s[i] < s[k]
    BY <1>2, <2>3, <2>7
  <2>9. s[i] \in Nat /\ t[i] \in Nat
    BY <1>2, <2>3
  <2>10. QED
    BY <2>4, <2>5, <2>8, <2>9
<1>4. \A i \in 1 .. m : i \in 1 .. n => s[i] = t[i]
  BY <1>3
<1>. HIDE DEF N
<1>5. ~(m < n)
  <2>. SUFFICES ASSUME m < n PROVE FALSE
    OBVIOUS
  <2>1. PICK k \in 1 .. m : t[m + 1] = s[k]
    BY <1>2
  <2>2. t[k] = t[m + 1] /\ t[k] < t[m + 1] /\ t[k] \in Nat
    BY <1>2, <1>4, <2>1
  <2>3. QED
    BY <2>2
<1>6. ~(n < m)
  <2>. SUFFICES ASSUME n < m PROVE FALSE
    OBVIOUS
  <2>1. PICK k \in 1 .. n : s[n + 1] = t[k]
    BY <1>2
  <2>2. s[k] = s[n + 1] /\ s[k] < s[n + 1] /\ s[k] \in Nat
    BY <1>2, <1>4, <2>1
  <2>3. QED
    BY <2>2
<1>7. m = n
  BY <1>5, <1>6
<1>8. QED
  BY <1>1, <1>4, <1>7

-----------------------------------------------------------------------------
(* Types.                                                                  *)

PolicyTypes ==
    /\ policy \in ScriptType \cup {NoFile} /\ policies \in 0 .. MaxPolicies
    /\ funded \in ScriptType \cup {NoFile}

FileTypes ==
    /\ \A tx \in built : tx \in TxType
    /\ \A w \in witnesses : w \in WitnessType

SetupTypes ==
    /\ initFile \in InitType \cup {NoFile}
    /\ signedFile \in SignedType \cup {NoFile}
    /\ creds \in [address : Keys, bot : 1 .. MaxBots] \cup {NoFile}
    /\ bots \in Seq(BotType) /\ Len(bots) <= MaxBots
    /\ nonces \in Nat

PortalTypes == portal \in Seq(TxType) /\ Len(portal) <= MaxPortal

LEMMA TypeParts ==
    TypeOK <=> StoreTypeOK /\ PolicyTypes /\ FileTypes /\ SetupTypes /\ SessionType /\ PortalTypes
BY DEF TypeOK, PolicyTypes, FileTypes, SetupTypes, PortalTypes, BotType

Typed == PolicyTypes /\ FileTypes /\ SetupTypes /\ SessionType /\ PortalTypes

LEMMA InitTyped == Init => Typed
BY PortalBounds DEF Init, Typed, PolicyTypes, FileTypes, SetupTypes, SessionType, PortalTypes

LEMMA SamePolicy == PolicyTypes /\ UNCHANGED <<policy, policies, funded>> => PolicyTypes'
BY DEF PolicyTypes

LEMMA SameFiles == FileTypes /\ UNCHANGED <<built, witnesses>> => FileTypes'
BY DEF FileTypes

LEMMA SameSetup == SetupTypes /\ UNCHANGED setupVars => SetupTypes'
BY DEF SetupTypes, setupVars

LEMMA SamePortal == PortalTypes /\ UNCHANGED portal => PortalTypes'
BY DEF PortalTypes

\* The command goes on, or ends.
LEMMA SameSession ==
    ASSUME SessionType, session' = session \/ session' = Idle, DOMAIN portal \subseteq DOMAIN portal'
    PROVE  SessionType'
<1>1. CASE session' = Idle
  BY <1>1 DEF SessionType
<1>2. CASE session' = session
  <2>1. CASE session \in [at : {"sign"}, id : DOMAIN portal, witness : WitnessType]
    BY <1>2, <2>1 DEF SessionType
  <2>2. CASE ~(session \in [at : {"sign"}, id : DOMAIN portal, witness : WitnessType])
    BY <1>2, <2>2 DEF SessionType
  <2>3. QED
    BY <2>1, <2>2
<1>3. QED
  BY <1>1, <1>2

\* What a command under way carries.
LEMMA SessionFacts ==
    ASSUME SessionType
    PROVE  /\ Asking("register") => session.address \in Keys
           /\ Asking("nonce") => session.address \in Keys /\ session.bot \in 1 .. MaxBots
           /\ \A step \in {"auth", "claim", "pickup"} :
                 Asking(step) => /\ session = [at |-> step, signed |-> session.signed]
                                 /\ session.signed \in SignedType
           /\ Asking("add") => session.tx \in TxType
           /\ Asking("sign") => session.id \in DOMAIN portal /\ session.witness \in WitnessType
BY DEF SessionType, Asking

LEMMA LoadedPhrase == \A n : Loads(n) => Phrase(n) \in Phrases
BY DEF Loads, Phrase

\* The keys of a policy are in order if it was made so.
InOrder(script) == script.ordered => Ascending(script.keys)

LEMMA SeqOfNumbers ==
    ASSUME NEW S, S \subseteq Nat, NEW s \in Seq(S)
    PROVE  s \in Seq(Nat)
<1>1. PICK m \in Nat : s \in [1 .. m -> S]
  OBVIOUS
<1>2. s \in [1 .. m -> Nat]
  BY <1>1
<1>3. QED
  BY <1>2

\* create-address.
KeysOf(args) == [i \in DOMAIN args.wallets |-> Phrase(args.wallets[i])] \o args.addresses

LEMMA KeysOfTyped ==
    ASSUME NEW args \in Arguments, \A i \in DOMAIN args.wallets : Loads(args.wallets[i])
    PROVE  KeysOf(args) \in Seq(Keys)
<1>1. args.wallets \in Seq(Wallets) /\ args.addresses \in Seq(Keys)
  BY PortalArguments
<1>. DEFINE f == [i \in DOMAIN args.wallets |-> Phrase(args.wallets[i])]
<1>2. \A i \in DOMAIN args.wallets : Phrase(args.wallets[i]) \in Keys
  BY LoadedPhrase DEF Keys
<1>3. f \in Seq(Keys)
  <2>1. PICK m \in Nat : DOMAIN args.wallets = 1 .. m
    BY <1>1
  <2>2. f \in [1 .. m -> Keys]
    BY <1>2, <2>1
  <2>. HIDE DEF f
  <2>3. QED
    BY <2>2
<1>4. KeysOf(args) = f \o args.addresses
  BY DEF KeysOf
<1>. HIDE DEF f
<1>5. QED
  BY <1>1, <1>3, <1>4

LEMMA CreatedAddress ==
    ASSUME NEW args \in Arguments, CreateAddress(args)
    PROVE  /\ policy' \in ScriptType /\ InOrder(policy')
           /\ funded' = funded \/ funded' = policy'
           /\ policies < MaxPolicies /\ policies' = policies + 1
           /\ UNCHANGED <<storeVars, setupVars, built, witnesses, session, portal>>
<1>. DEFINE given == KeysOf(args)
            keys == IF args.sort THEN Sorted(given) ELSE given
            ordered == args.sort \/ Ascending(given)
<1>1. /\ policy' = Script(keys, args.threshold, ordered)
      /\ \A i \in DOMAIN args.wallets : Loads(args.wallets[i])
      /\ args.threshold \in 1 .. Len(keys)
      /\ funded' = IF funded = NoFile THEN policy' ELSE funded
      /\ policies < MaxPolicies /\ policies' = policies + 1
      /\ UNCHANGED <<storeVars, setupVars, built, witnesses, session, portal>>
  BY Zenon DEF CreateAddress, KeysOf, ValidThreshold
<1>2. given \in Seq(Keys)
  BY <1>1, KeysOfTyped
<1>. HIDE DEF given
<1>3. given \in Seq(Nat) /\ Range(given) \subseteq Keys
  <2>1. Keys \subseteq Nat
    BY PortalBounds
  <2>2. given \in Seq(Nat)
    BY <1>2, <2>1, SeqOfNumbers
  <2>3. \A i \in DOMAIN given : given[i] \in Keys
    BY <1>2
  <2>4. QED
    BY <2>2, <2>3 DEF Range
<1>4. keys \in Seq(Keys) /\ (ordered => Ascending(keys))
  <2>1. Sorted(given) \in [DOMAIN given -> Range(given)] /\ Ascending(Sorted(given))
    BY <1>3, SortedKeys
  <2>2. Sorted(given) \in Seq(Keys)
    <3>1. PICK m \in Nat : DOMAIN given = 1 .. m
      BY <1>3
    <3>2. Sorted(given) \in [1 .. m -> Keys]
      BY <1>3, <2>1, <3>1
    <3>3. QED
      BY <3>2
  <2>3. QED
    BY <1>2, <2>1, <2>2
<1>5. ordered \in BOOLEAN
  BY PortalArguments DEF Ascending
<1>. HIDE DEF keys, ordered
<1>6. args.threshold \in Nat \ {0}
  BY <1>1, <1>4
<1>7. policy' \in ScriptType /\ policy'.keys = keys /\ policy'.ordered = ordered
  BY <1>1, <1>4, <1>5, <1>6 DEF Script, ScriptType
<1>8. QED
  BY <1>1, <1>4, <1>7, Zenon DEF InOrder

\* build-tx.
LEMMA SumIsSum == \A s : Sum(s) = SumOf(s, DOMAIN s)
BY DEF Sum, SumOf

LEMMA SumTyped == \A s \in Seq(Nat) : Sum(s) \in Nat
<1>. SUFFICES ASSUME NEW s \in Seq(Nat) PROVE Sum(s) \in Nat
  OBVIOUS
<1>1. IsFiniteSet(DOMAIN s)
  <2>1. IsFiniteSet(1 .. Len(s))
    BY FS_Interval
  <2>2. QED
    BY <2>1
<1>2. \A i \in DOMAIN s : s[i] \in Nat
  OBVIOUS
<1>3. QED
  BY <1>1, <1>2, SumNat, SumIsSum

LEMMA SumSmall ==
    ASSUME NEW a \in Nat, NEW b \in Nat
    PROVE  Sum(<<a>>) = a /\ Sum(<<a, b>>) = a + b
<1>. DEFINE s == <<a>>
            t == <<a, b>>
<1>1. DOMAIN s = {1} /\ s[1] = a /\ DOMAIN t = {1} \cup {2} /\ t[1] = a /\ t[2] = b
  OBVIOUS
<1>. HIDE DEF s, t
<1>2. IsFiniteSet({}) /\ IsFiniteSet({1})
  BY FS_EmptySet, FS_Singleton
<1>3. SumOf(s, {} \cup {1}) = SumOf(s, {}) + s[1]
  BY <1>1, <1>2, SumAdd
<1>4. SumOf(t, {} \cup {1}) = SumOf(t, {}) + t[1]
  BY <1>1, <1>2, SumAdd
<1>5. SumOf(t, {1} \cup {2}) = SumOf(t, {1}) + t[2]
  BY <1>1, <1>2, SumAdd
<1>6. {} \cup {1} = {1} /\ SumOf(s, {}) = 0 /\ SumOf(t, {}) = 0
  BY SumEmpty
<1>7. Sum(s) = a /\ Sum(t) = a + b
  <2>1. SumOf(s, {1}) = 0 + a /\ SumOf(t, {1}) = 0 + a
    BY <1>1, <1>3, <1>4, <1>6, Zenon
  <2>2. SumOf(t, {1} \cup {2}) = a + b
    BY <1>1, <1>5, <2>1
  <2>3. Sum(s) = SumOf(s, {1}) /\ Sum(t) = SumOf(t, {1} \cup {2})
    BY <1>1, SumIsSum, Zenon
  <2>4. QED
    BY <2>1, <2>2, <2>3
<1>8. QED
  BY <1>7 DEF s, t

LEMMA TotalTyped ==
    ASSUME NEW spend \in Spends
    PROVE  /\ spend.utxos \in Seq(Lovelace) /\ spend.amount \in Lovelace /\ spend.fee \in Lovelace
           /\ Sum(spend.utxos) \in Nat
           /\ Total(spend.utxos) \in Lovelace /\ Needed(spend) \in Lovelace
<1>1. spend.utxos \in Seq(Lovelace) /\ spend.amount \in Lovelace /\ spend.fee \in Lovelace
  BY PortalArguments
<1>2. Word \in Nat /\ Word # 0
  BY PortalBounds
<1>3. Sum(spend.utxos) \in Nat
  <2>1. spend.utxos \in Seq(Nat)
    BY <1>1, <1>2 DEF Lovelace
  <2>2. QED
    BY <2>1, SumTyped
<1>4. \A n \in Nat : n % Word \in Lovelace
  BY <1>2 DEF Lovelace
<1>5. spend.amount + spend.fee \in Nat
  BY <1>1, <1>2 DEF Lovelace
<1>6. QED
  BY <1>1, <1>3, <1>4, <1>5 DEF Total, Needed

BodyOf(spend) == [inputs |-> spend.utxos, outputs |-> Outputs(spend), fee |-> spend.fee]

LEMMA BodyTyped ==
    ASSUME NEW spend \in Spends, Total(spend.utxos) >= Needed(spend)
    PROVE  BodyOf(spend) \in BodyType
<1>1. /\ spend.utxos \in Seq(Lovelace) /\ spend.amount \in Lovelace /\ spend.fee \in Lovelace
      /\ Total(spend.utxos) \in Lovelace /\ Needed(spend) \in Lovelace
  BY TotalTyped
<1>2. Total(spend.utxos) - Needed(spend) \in Lovelace
  BY <1>1, PortalBounds DEF Lovelace
<1>3. Outputs(spend) \in Seq(Lovelace)
  BY <1>1, <1>2 DEF Outputs
<1>4. QED
  BY <1>1, <1>3 DEF BodyOf, BodyType

LEMMA BuiltTx ==
    ASSUME Typed, NEW spend \in Spends, BuildTx(spend)
    PROVE  \E tx \in TxType :
              /\ built' = built \cup {tx}
              /\ tx = [body |-> BodyOf(spend), script |-> policy, vkeys |-> {}, signers |-> {}]
              /\ policy \in ScriptType /\ policy # NoFile
              /\ UNCHANGED <<storeVars, setupVars, policy, policies, funded, witnesses, session, portal>>
<1>. DEFINE tx == [body |-> BodyOf(spend), script |-> policy, vkeys |-> {}, signers |-> {}]
<1>1. /\ built' = built \cup {tx} /\ policy # NoFile /\ Total(spend.utxos) >= Needed(spend)
      /\ UNCHANGED <<storeVars, setupVars, policy, policies, funded, witnesses, session, portal>>
  BY DEF BuildTx, BodyOf
<1>2. policy \in ScriptType
  BY <1>1 DEF Typed, PolicyTypes
<1>3. tx \in TxType
  BY <1>1, <1>2, BodyTyped DEF TxType
<1>4. QED
  BY <1>1, <1>2, <1>3

\* A witness more.
TxOf(b, s, v, k) == [body |-> b, script |-> s, vkeys |-> v, signers |-> k]

LEMMA CountersignedTx ==
    ASSUME NEW tx \in TxType, NEW w \in WitnessType
    PROVE  /\ Countersigned(tx, w) \in TxType
           /\ Countersigned(tx, w).body = tx.body /\ Countersigned(tx, w).script = tx.script
           /\ Countersigned(tx, w).vkeys = tx.vkeys \cup {w}
           /\ Countersigned(tx, w).signers = tx.signers \cup {w.key}
           /\ [Embedded(tx, w) EXCEPT !.signers = @ \cup {w.key}] = Countersigned(tx, w)
<1>. DEFINE V == tx.vkeys \cup {w}
            K == tx.signers \cup {w.key}
<1>1. w.key \in Keys
  BY DEF WitnessType
<1>2. V \in SUBSET WitnessType /\ K \in SUBSET Keys
  BY <1>1 DEF TxType
<1>3. PICK b, s, v, k : tx = TxOf(b, s, v, k) /\ b = tx.body /\ s = tx.script /\ v = tx.vkeys /\ k = tx.signers
  BY DEF TxType, TxOf
<1>4. Countersigned(tx, w) = [tx EXCEPT !.vkeys = V, !.signers = K]
  BY DEF Countersigned
<1>5. PICK e : e = Embedded(tx, w) /\ e = [tx EXCEPT !.vkeys = V]
  BY DEF Embedded
<1>6. [Embedded(tx, w) EXCEPT !.signers = @ \cup {w.key}] = [e EXCEPT !.signers = e.signers \cup {w.key}]
  BY <1>5, Zenon
<1>. HIDE DEF V
<1>7. Countersigned(tx, w) = TxOf(b, s, V, K)
  <2>. HIDE DEF K
  <2>1. PICK d : d = [tx EXCEPT !.vkeys = V]
    OBVIOUS
  <2>2. Countersigned(tx, w) = [d EXCEPT !.signers = K]
    BY <1>4, <2>1, Zenon
  <2>3. d = TxOf(b, s, V, k)
    BY <1>3, <2>1 DEF TxOf
  <2>4. QED
    BY <2>2, <2>3 DEF TxOf
<1>8. e = TxOf(b, s, V, k)
  BY <1>3, <1>5 DEF TxOf
<1>9. e.signers \cup {w.key} = K
  <2>1. e.signers = k
    BY <1>8 DEF TxOf
  <2>2. QED
    BY <1>3, <2>1
<1>. HIDE DEF K
<1>10. [e EXCEPT !.signers = e.signers \cup {w.key}] = TxOf(b, s, V, K)
  <2>1. [e EXCEPT !.signers = K] = TxOf(b, s, V, K)
    BY <1>8 DEF TxOf
  <2>2. QED
    BY <1>9, <2>1, Zenon
<1>11. /\ TxOf(b, s, V, K) \in TxType
       /\ TxOf(b, s, V, K).body = tx.body /\ TxOf(b, s, V, K).script = tx.script
       /\ TxOf(b, s, V, K).vkeys = V /\ TxOf(b, s, V, K).signers = K
  BY <1>2, <1>3 DEF TxOf, TxType
<1>12. QED
  BY <1>6, <1>7, <1>10, <1>11, Zenon DEF V, K

LEMMA CreateAddressTyped ==
    ASSUME Typed, NEW args \in Arguments, CreateAddress(args)
    PROVE  Typed'
<1>1. /\ policy' \in ScriptType
      /\ funded' = funded \/ funded' = policy'
      /\ policies < MaxPolicies /\ policies' = policies + 1
      /\ UNCHANGED <<storeVars, setupVars, built, witnesses, session, portal>>
  BY CreatedAddress
<1>2. PolicyTypes'
  BY <1>1, PortalBounds DEF Typed, PolicyTypes
<1>3. QED
  BY <1>1, <1>2, SameFiles, SameSetup, SameSession, SamePortal DEF Typed

LEMMA BuildTxTyped ==
    ASSUME Typed, NEW spend \in Spends, BuildTx(spend)
    PROVE  Typed'
<1>1. PICK tx \in TxType :
         /\ built' = built \cup {tx}
         /\ UNCHANGED <<storeVars, setupVars, policy, policies, funded, witnesses, session, portal>>
  BY BuiltTx
<1>2. FileTypes'
  BY <1>1 DEF Typed, FileTypes
<1>3. QED
  BY <1>1, <1>2, SamePolicy, SameSetup, SameSession, SamePortal DEF Typed

LEMMA WitnessTyped ==
    ASSUME NEW tx \in TxType, NEW k \in Keys
    PROVE  Witness(k, tx) \in WitnessType
BY DEF Witness, Body, WitnessType, TxType

LEMMA SignTyped ==
    ASSUME Typed, NEW n \in Wallets, NEW tx \in built, Sign(n, tx)
    PROVE  Typed'
<1>1. /\ witnesses' = witnesses \cup {Witness(Phrase(n), tx)}
      /\ Loads(n)
      /\ UNCHANGED <<storeVars, setupVars, policy, policies, funded, built, session, portal>>
  BY DEF Sign
<1>2. Phrase(n) \in Keys /\ tx \in TxType
  BY <1>1, LoadedPhrase DEF Keys, Typed, FileTypes
<1>3. FileTypes'
  BY <1>1, <1>2, WitnessTyped DEF Typed, FileTypes
<1>4. QED
  BY <1>1, <1>3, SamePolicy, SameSetup, SameSession, SamePortal DEF Typed

LEMMA PortalInitTyped ==
    ASSUME Typed, NEW k \in Keys, PortalInit(k)
    PROVE  Typed'
<1>1. /\ session' = [at |-> "register", address |-> k]
      /\ UNCHANGED <<storeVars, setupVars, fileVars, portal>>
  BY DEF PortalInit
<1>2. SessionType'
  BY <1>1 DEF SessionType
<1>3. QED
  BY <1>1, <1>2, SamePolicy, SameFiles, SameSetup, SamePortal DEF Typed, fileVars

LEMMA RegisterTyped == Typed /\ Register => Typed'
<1>. SUFFICES ASSUME Typed, Register PROVE Typed'
  OBVIOUS
<1>. DEFINE new == [address |-> session.address, status |-> "pending"]
<1>1. /\ bots' = Append(bots, new) /\ Len(bots) < MaxBots
      /\ session' = Idle \/ session' = [at |-> "nonce", address |-> session.address, bot |-> Len(bots) + 1]
      /\ UNCHANGED <<initFile, signedFile, creds, nonces, fileVars, portal>>
      /\ session.address \in Keys
  BY SessionFacts DEF Register, Outcome, Answered, Fails, Typed
<1>2. new \in BotType
  BY <1>1 DEF BotType
<1>3. bots \in Seq(BotType) /\ MaxBots \in Nat
  BY PortalBounds DEF Typed, SetupTypes
<1>4. bots' \in Seq(BotType) /\ Len(bots') <= MaxBots
  <2>. HIDE DEF new
  <2>1. QED
    BY <1>1, <1>2, <1>3
<1>5. SetupTypes'
  BY <1>1, <1>4 DEF Typed, SetupTypes
<1>6. SessionType'
  <2>1. Len(bots) + 1 \in 1 .. MaxBots
    BY <1>1, <1>3
  <2>2. QED
    BY <1>1, <2>1 DEF SessionType
<1>7. QED
  BY <1>1, <1>5, <1>6, SamePolicy, SameFiles, SamePortal DEF Typed, fileVars

LEMMA GetNonceTyped == Typed /\ GetNonce => Typed'
<1>. SUFFICES ASSUME Typed, GetNonce PROVE Typed'
  OBVIOUS
<1>1. /\ nonces' = nonces + 1 /\ session' = Idle
      /\ initFile' = initFile
         \/ initFile' = [address |-> session.address, bot |-> session.bot, nonce |-> nonces + 1]
      /\ UNCHANGED <<signedFile, creds, bots, fileVars, portal>>
      /\ session.address \in Keys /\ session.bot \in 1 .. MaxBots
  BY SessionFacts DEF GetNonce, Answered, Fails, Typed
<1>2. SetupTypes'
  <2>1. nonces' \in Nat /\ nonces + 1 \in Nat \ {0}
    BY <1>1 DEF Typed, SetupTypes
  <2>2. initFile' \in InitType \cup {NoFile}
    BY <1>1, <2>1 DEF Typed, SetupTypes, InitType
  <2>3. QED
    BY <1>1, <2>1, <2>2 DEF Typed, SetupTypes
<1>3. QED
  BY <1>1, <1>2, SamePolicy, SameFiles, SameSession, SamePortal DEF Typed, fileVars

LEMMA SignSetupTyped ==
    ASSUME Typed, NEW n \in Wallets, SignSetup(n)
    PROVE  Typed'
<1>1. /\ initFile # NoFile /\ Phrase(n) \in Phrases
      /\ signedFile' = [address |-> initFile.address, bot |-> initFile.bot,
                        signature |-> [key |-> Phrase(n), of |-> initFile.nonce]]
      /\ UNCHANGED <<storeVars, initFile, creds, bots, nonces, fileVars, session, portal>>
  BY LoadedPhrase DEF SignSetup
<1>2. initFile \in InitType
  BY <1>1 DEF Typed, SetupTypes
<1>3. signedFile' \in SignedType
  BY <1>1, <1>2 DEF InitType, SignedType
<1>4. SetupTypes'
  BY <1>1, <1>3 DEF Typed, SetupTypes
<1>5. QED
  BY <1>1, <1>4, SamePolicy, SameFiles, SameSession, SamePortal DEF Typed, fileVars

LEMMA CompleteSetupTyped == Typed /\ CompleteSetup => Typed'
<1>. SUFFICES ASSUME Typed, CompleteSetup PROVE Typed'
  OBVIOUS
<1>1. /\ signedFile # NoFile /\ session' = [at |-> "auth", signed |-> signedFile]
      /\ UNCHANGED <<storeVars, setupVars, fileVars, portal>>
  BY DEF CompleteSetup
<1>2. signedFile \in SignedType
  BY <1>1 DEF Typed, SetupTypes
<1>3. SessionType'
  BY <1>1, <1>2 DEF SessionType
<1>4. QED
  BY <1>1, <1>3, SamePolicy, SameFiles, SameSetup, SamePortal DEF Typed, fileVars

\* From one request of complete-setup to the next.
LEMMA NextRequest ==
    ASSUME SessionType, NEW step \in {"auth", "claim", "pickup"}, Asking(step),
           NEW next \in {"auth", "claim", "pickup"},
           session' = Idle \/ session' = [session EXCEPT !.at = next]
    PROVE  SessionType'
<1>1. session = [at |-> step, signed |-> session.signed] /\ session.signed \in SignedType
  BY SessionFacts
<1>2. [session EXCEPT !.at = next] = [at |-> next, signed |-> session.signed]
  BY <1>1
<1>3. [session EXCEPT !.at = next] \in [at : {"auth", "claim", "pickup"}, signed : SignedType]
  BY <1>1, <1>2
<1>4. QED
  BY <1>3 DEF SessionType

LEMMA AuthSignerTyped == Typed /\ AuthSigner => Typed'
<1>. SUFFICES ASSUME Typed, AuthSigner PROVE Typed'
  OBVIOUS
<1>1. /\ Asking("auth")
      /\ session' = Idle \/ session' = [session EXCEPT !.at = "claim"]
      /\ UNCHANGED <<setupVars, fileVars, portal>>
  BY DEF AuthSigner, Outcome, Answered, Fails
<1>2. SessionType'
  BY <1>1, NextRequest DEF Typed
<1>3. QED
  BY <1>1, <1>2, SamePolicy, SameFiles, SameSetup, SamePortal DEF Typed, fileVars

LEMMA ClaimBotTyped == Typed /\ SetupInv' /\ ClaimBot => Typed'
<1>. SUFFICES ASSUME Typed, SetupInv', ClaimBot PROVE Typed'
  OBVIOUS
<1>1. /\ Asking("claim")
      /\ bots' = [bots EXCEPT ![session.signed.bot].status = "claimed"]
      /\ session' = Idle \/ session' = [session EXCEPT !.at = "pickup"]
      /\ UNCHANGED <<initFile, signedFile, creds, nonces, fileVars, portal>>
  BY DEF ClaimBot, Outcome, Answered, Fails
<1>2. bots \in Seq(BotType) /\ bots' \in Seq(BotType) /\ Len(bots) <= MaxBots
  BY DEF Typed, SetupTypes, SetupInv
<1>3. Len(bots') = Len(bots)
  BY <1>1, <1>2
<1>4. SetupTypes'
  BY <1>1, <1>2, <1>3 DEF Typed, SetupTypes
<1>5. SessionType'
  BY <1>1, NextRequest DEF Typed
<1>6. QED
  BY <1>1, <1>4, <1>5, SamePolicy, SameFiles, SamePortal DEF Typed, fileVars

LEMMA PickupSecretTyped == Typed /\ PickupSecret => Typed'
<1>. SUFFICES ASSUME Typed, PickupSecret PROVE Typed'
  OBVIOUS
<1>1. /\ Asking("pickup") /\ session' = Idle
      /\ creds' = creds
         \/ creds' = [address |-> session.signed.address, bot |-> session.signed.bot]
      /\ UNCHANGED <<initFile, signedFile, bots, nonces, fileVars, portal>>
  BY DEF PickupSecret, AfterClaim, Answered, Fails
<1>2. session.signed \in SignedType
  BY <1>1, SessionFacts DEF Typed
<1>3. SetupTypes'
  BY <1>1, <1>2 DEF Typed, SetupTypes, SignedType
<1>4. QED
  BY <1>1, <1>3, SamePolicy, SameFiles, SameSession, SamePortal DEF Typed, fileVars

LEMMA ProposeTxTyped ==
    ASSUME Typed, NEW tx \in built, NEW w \in witnesses, ProposeTx(tx, w)
    PROVE  Typed' /\ session' = [at |-> "add", tx |-> Countersigned(tx, w)]
<1>1. tx \in TxType /\ w \in WitnessType
  BY DEF Typed, FileTypes
<1>2. /\ session' = [at |-> "add", tx |-> Countersigned(tx, w)]
      /\ UNCHANGED <<storeVars, setupVars, fileVars, portal>>
  BY <1>1, CountersignedTx DEF ProposeTx
<1>3. SessionType'
  BY <1>1, <1>2, CountersignedTx DEF SessionType
<1>4. QED
  BY <1>2, <1>3, SamePolicy, SameFiles, SameSetup, SamePortal DEF Typed, fileVars

LEMMA SubmitWitnessTyped ==
    ASSUME Typed, NEW i \in DOMAIN portal, NEW w \in witnesses, SubmitWitness(i, w)
    PROVE  Typed'
<1>1. /\ session' = [at |-> "sign", id |-> i, witness |-> w]
      /\ UNCHANGED <<storeVars, setupVars, fileVars, portal>>
  BY DEF SubmitWitness
<1>2. w \in WitnessType
  BY DEF Typed, FileTypes
<1>3. SessionType'
  BY <1>1, <1>2 DEF SessionType
<1>4. QED
  BY <1>1, <1>3, SamePolicy, SameFiles, SameSetup, SamePortal DEF Typed, fileVars

LEMMA AddTransactionTyped == Typed /\ AddTransaction => Typed'
<1>. SUFFICES ASSUME Typed, AddTransaction PROVE Typed'
  OBVIOUS
<1>1. /\ session.tx \in TxType /\ Len(portal) < MaxPortal
      /\ portal' = Append(portal, session.tx) /\ session' = Idle
      /\ UNCHANGED <<setupVars, fileVars>>
  BY SessionFacts DEF AddTransaction, Outcome, Answered, Fails, Typed
<1>2. portal \in Seq(TxType) /\ MaxPortal \in Nat
  BY PortalBounds DEF Typed, PortalTypes
<1>3. portal' \in Seq(TxType) /\ Len(portal') <= MaxPortal /\ DOMAIN portal \subseteq DOMAIN portal'
  BY <1>1, <1>2
<1>4. QED
  BY <1>1, <1>3, SamePolicy, SameFiles, SameSetup, SameSession DEF Typed, PortalTypes, fileVars

\* A transaction at the portal gets a witness.
LEMMA OneSigned ==
    ASSUME PortalTypes, NEW i \in DOMAIN portal, NEW w \in WitnessType,
           portal' = [portal EXCEPT ![i] = Countersigned(@, w)]
    PROVE  /\ PortalTypes' /\ DOMAIN portal' = DOMAIN portal
           /\ portal[i] \in TxType /\ portal'[i] = Countersigned(portal[i], w)
           /\ \A j \in DOMAIN portal : j # i => portal'[j] = portal[j]
<1>1. portal \in Seq(TxType) /\ portal[i] \in TxType
  BY DEF PortalTypes
<1>. DEFINE new == Countersigned(portal[i], w)
<1>2. new \in TxType
  BY <1>1, CountersignedTx
<1>3. portal' = [portal EXCEPT ![i] = new]
  OBVIOUS
<1>. HIDE DEF new
<1>4. portal' \in Seq(TxType) /\ Len(portal') = Len(portal) /\ DOMAIN portal' = DOMAIN portal
  BY <1>1, <1>2, <1>3
<1>5. portal'[i] = new /\ \A j \in DOMAIN portal : j # i => portal'[j] = portal[j]
  BY <1>1, <1>3
<1>6. PortalTypes'
  BY <1>4 DEF PortalTypes
<1>7. QED
  BY <1>1, <1>4, <1>5, <1>6 DEF new

LEMMA SignTransactionTyped == Typed /\ SignTransaction => Typed'
<1>. SUFFICES ASSUME Typed, SignTransaction PROVE Typed'
  OBVIOUS
<1>1. /\ session.id \in DOMAIN portal /\ session.witness \in WitnessType
      /\ portal' = [portal EXCEPT ![session.id] = Countersigned(@, session.witness)]
      /\ session' = Idle /\ UNCHANGED <<setupVars, fileVars>>
  BY SessionFacts DEF SignTransaction, Outcome, Answered, Fails, Typed
<1>2. PortalTypes' /\ DOMAIN portal' = DOMAIN portal
  BY <1>1, OneSigned DEF Typed
<1>3. QED
  BY <1>1, <1>2, SamePolicy, SameFiles, SameSetup, SameSession DEF Typed, fileVars

LEMMA FetchTyped ==
    ASSUME Typed, NEW i \in DOMAIN portal, Fetch(i)
    PROVE  Typed'
<1>1. /\ built' = built \cup {portal[i]}
      /\ UNCHANGED <<storeVars, setupVars, policy, policies, funded, witnesses, session, portal>>
  BY DEF Fetch
<1>2. portal[i] \in TxType
  BY DEF Typed, PortalTypes
<1>3. FileTypes'
  BY <1>1, <1>2 DEF Typed, FileTypes
<1>4. QED
  BY <1>1, <1>3, SamePolicy, SameSetup, SameSession, SamePortal DEF Typed

LEMMA OtherSignsTyped ==
    ASSUME Typed, NEW k \in Others, NEW i \in DOMAIN portal, OtherSigns(k, i)
    PROVE  Typed' /\ \E w \in WitnessType : portal' = [portal EXCEPT ![i] = Countersigned(@, w)]
<1>. DEFINE w == Witness(k, portal[i])
<1>1. /\ portal' = [portal EXCEPT ![i] = Countersigned(@, w)]
      /\ UNCHANGED <<storeVars, setupVars, fileVars, session>>
  BY DEF OtherSigns
<1>2. w \in WitnessType
  <2>1. portal[i] \in TxType /\ k \in Keys
    BY DEF Typed, PortalTypes, Keys
  <2>2. QED
    BY <2>1, WitnessTyped
<1>. HIDE DEF w
<1>3. PortalTypes' /\ DOMAIN portal' = DOMAIN portal
  BY <1>1, <1>2, OneSigned DEF Typed
<1>4. QED
  BY <1>1, <1>2, <1>3, SamePolicy, SameFiles, SameSetup, SameSession DEF Typed, fileVars

LEMMA UntouchedTyped ==
    ASSUME Typed, UNCHANGED <<setupVars, fileVars, portal>>, session' = session \/ session' = Idle
    PROVE  Typed'
BY SamePolicy, SameFiles, SameSetup, SameSession, SamePortal DEF Typed, fileVars

LEMMA TypedInvariant == Spec => []Typed
<1>1. Typed /\ SetupInv /\ SetupInv' /\ [Next]_vars => Typed'
  <2>. SUFFICES ASSUME Typed, SetupInv', [Next]_vars PROVE Typed'
    OBVIOUS
  <2>1. CASE StoreStep \/ Refused \/ UNCHANGED vars
    <3>1. UNCHANGED <<setupVars, fileVars, portal>> /\ (session' = session \/ session' = Idle)
      BY <2>1 DEF StoreStep, Refused, Fails, vars, setupVars, fileVars
    <3>2. QED
      BY <3>1, UntouchedTyped
  <2>2. ASSUME NEW args \in Arguments, CreateAddress(args)
        PROVE  Typed'
    BY <2>2, CreateAddressTyped
  <2>3. ASSUME NEW spend \in Spends, BuildTx(spend)
        PROVE  Typed'
    BY <2>3, BuildTxTyped
  <2>4. ASSUME NEW n \in Wallets, NEW tx \in built, Sign(n, tx)
        PROVE  Typed'
    BY <2>4, SignTyped
  <2>5. ASSUME NEW tx \in built, NEW w \in witnesses, ProposeTx(tx, w)
        PROVE  Typed'
    BY <2>5, ProposeTxTyped
  <2>6. ASSUME NEW i \in DOMAIN portal, NEW w \in witnesses, SubmitWitness(i, w)
        PROVE  Typed'
    BY <2>6, SubmitWitnessTyped
  <2>7. ASSUME NEW i \in DOMAIN portal, Fetch(i)
        PROVE  Typed'
    BY <2>7, FetchTyped
  <2>8. ASSUME NEW k \in Others, NEW i \in DOMAIN portal, OtherSigns(k, i)
        PROVE  Typed'
    BY <2>8, OtherSignsTyped
  <2>9. ASSUME NEW k \in Keys, PortalInit(k)
        PROVE  Typed'
    BY <2>9, PortalInitTyped
  <2>10. ASSUME NEW n \in Wallets, SignSetup(n)
         PROVE  Typed'
    BY <2>10, SignSetupTyped
  <2>11. QED
    BY <2>1, <2>2, <2>3, <2>4, <2>5, <2>6, <2>7, <2>8, <2>9, <2>10,
       RegisterTyped, GetNonceTyped, CompleteSetupTyped, AuthSignerTyped, ClaimBotTyped,
       PickupSecretTyped, AddTransactionTyped, SignTransactionTyped
    DEF Next
<1>2. QED
  BY <1>1, InitTyped, SetupInvariant, PTL DEF Spec

(***************************************************************************)
(* Types: every amount is a u64, and every bot, transaction and file that  *)
(* a file or a request names is there.                                     *)
(***************************************************************************)
THEOREM PortalTypeCorrect == Spec => []TypeOK
<1>1. StoreInv /\ Typed => TypeOK
  BY TypeParts DEF StoreInv, Typed
<1>2. QED
  BY <1>1, StoreInvariant, TypedInvariant, PTL

-----------------------------------------------------------------------------
(* Signers suffice.                                                        *)

\* A transaction is one that build-tx wrote, for a policy that is in order if
\* it should be, and has the witnesses of just its signers.
TxSound(tx) ==
    /\ tx \in TxType
    /\ InOrder(tx.script)
    /\ tx.signers = {w.key : w \in tx.vkeys}
    /\ \E spend \in Spends : Total(spend.utxos) >= Needed(spend) /\ tx.body = BodyOf(spend)

SignInv ==
    /\ policy # NoFile => InOrder(policy)
    /\ funded # NoFile => InOrder(funded)
    /\ \A tx \in built : TxSound(tx)
    /\ Asking("add") => TxSound(session.tx)
    /\ \A i \in DOMAIN portal : TxSound(portal[i])

LEMMA SignInitInv == Init => SignInv
BY DEF Init, SignInv, Asking

LEMMA CountersignedSound ==
    ASSUME NEW tx, TxSound(tx), NEW w \in WitnessType
    PROVE  TxSound(Countersigned(tx, w))
<1>. DEFINE c == Countersigned(tx, w)
<1>1. /\ c \in TxType /\ c.body = tx.body /\ c.script = tx.script
      /\ c.vkeys = tx.vkeys \cup {w} /\ c.signers = tx.signers \cup {w.key}
  BY CountersignedTx DEF TxSound
<1>. HIDE DEF c
<1>2. c.signers = {u.key : u \in c.vkeys}
  BY <1>1 DEF TxSound
<1>3. TxSound(c)
  BY <1>1, <1>2 DEF TxSound
<1>4. QED
  BY <1>3 DEF c

\* The transactions and the policy stay, and no proposal begins.
LEMMA SameSound ==
    ASSUME SignInv, UNCHANGED <<policy, funded, built, portal>>,
           session' = session \/ ~Asking("add")'
    PROVE  SignInv'
BY DEF SignInv, Asking

LEMMA CreateAddressSound ==
    ASSUME SignInv, NEW args \in Arguments, CreateAddress(args)
    PROVE  SignInv'
<1>1. /\ InOrder(policy')
      /\ funded' = funded \/ funded' = policy'
      /\ UNCHANGED <<built, session, portal>>
  BY CreatedAddress
<1>2. QED
  BY <1>1 DEF SignInv, Asking

LEMMA BuildTxSound ==
    ASSUME Typed, SignInv, NEW spend \in Spends, BuildTx(spend)
    PROVE  SignInv'
<1>1. PICK tx \in TxType :
         /\ built' = built \cup {tx}
         /\ tx = [body |-> BodyOf(spend), script |-> policy, vkeys |-> {}, signers |-> {}]
         /\ policy \in ScriptType /\ policy # NoFile
         /\ UNCHANGED <<storeVars, setupVars, policy, policies, funded, witnesses, session, portal>>
  BY BuiltTx
<1>2. Total(spend.utxos) >= Needed(spend)
  BY DEF BuildTx
<1>3. tx.body = BodyOf(spend) /\ tx.script = policy /\ tx.vkeys = {} /\ tx.signers = {}
  BY <1>1
<1>4. TxSound(tx)
  BY <1>1, <1>2, <1>3 DEF TxSound, SignInv
<1>5. QED
  BY <1>1, <1>4 DEF SignInv, Asking

LEMMA ProposeTxSound ==
    ASSUME Typed, SignInv, NEW tx \in built, NEW w \in witnesses, ProposeTx(tx, w)
    PROVE  SignInv'
<1>1. session' = [at |-> "add", tx |-> Countersigned(tx, w)]
  BY ProposeTxTyped
<1>2. UNCHANGED <<policy, funded, built, portal>>
  BY DEF ProposeTx, fileVars
<1>3. TxSound(tx) /\ w \in WitnessType
  BY DEF SignInv, Typed, FileTypes
<1>4. TxSound(session'.tx)
  BY <1>1, <1>3, CountersignedSound
<1>5. QED
  BY <1>2, <1>4 DEF SignInv

LEMMA AddTransactionSound == Typed /\ SignInv /\ AddTransaction => SignInv'
<1>. SUFFICES ASSUME Typed, SignInv, AddTransaction PROVE SignInv'
  OBVIOUS
<1>1. /\ TxSound(session.tx) /\ portal' = Append(portal, session.tx) /\ session' = Idle
      /\ UNCHANGED <<policy, funded, built>>
  BY DEF AddTransaction, SignInv, fileVars, Outcome, Answered, Fails
<1>2. portal \in Seq(TxType) /\ session.tx \in TxType
  BY <1>1 DEF Typed, PortalTypes, TxSound
<1>3. \A i \in DOMAIN portal' : (i \in DOMAIN portal /\ portal'[i] = portal[i]) \/ portal'[i] = session.tx
  BY <1>1, <1>2
<1>4. \A i \in DOMAIN portal' : TxSound(portal'[i])
  BY <1>1, <1>3 DEF SignInv
<1>5. QED
  BY <1>1, <1>4 DEF SignInv, Asking

\* A witness at the portal.
LEMMA OneSignedSound ==
    ASSUME Typed, SignInv, NEW i \in DOMAIN portal, NEW w \in WitnessType,
           portal' = [portal EXCEPT ![i] = Countersigned(@, w)],
           UNCHANGED <<policy, funded, built>>, session' = session \/ session' = Idle
    PROVE  SignInv'
<1>1. /\ DOMAIN portal' = DOMAIN portal
      /\ portal'[i] = Countersigned(portal[i], w)
      /\ \A j \in DOMAIN portal : j # i => portal'[j] = portal[j]
  BY OneSigned DEF Typed
<1>2. TxSound(portal'[i])
  BY <1>1, CountersignedSound DEF SignInv
<1>3. \A j \in DOMAIN portal' : TxSound(portal'[j])
  BY <1>1, <1>2 DEF SignInv
<1>4. QED
  BY <1>3 DEF SignInv, Asking

LEMMA SignTransactionSound == Typed /\ SignInv /\ SignTransaction => SignInv'
<1>. SUFFICES ASSUME Typed, SignInv, SignTransaction PROVE SignInv'
  OBVIOUS
<1>1. /\ session.id \in DOMAIN portal /\ session.witness \in WitnessType
      /\ portal' = [portal EXCEPT ![session.id] = Countersigned(@, session.witness)]
      /\ session' = Idle /\ UNCHANGED <<policy, funded, built>>
  BY SessionFacts DEF SignTransaction, Outcome, Answered, Fails, Typed, fileVars
<1>2. QED
  BY <1>1, OneSignedSound

LEMMA FetchSound ==
    ASSUME SignInv, NEW i \in DOMAIN portal, Fetch(i)
    PROVE  SignInv'
BY DEF Fetch, SignInv, Asking

LEMMA OtherSignsSound ==
    ASSUME Typed, SignInv, NEW k \in Others, NEW i \in DOMAIN portal, OtherSigns(k, i)
    PROVE  SignInv'
<1>1. PICK w \in WitnessType : portal' = [portal EXCEPT ![i] = Countersigned(@, w)]
  BY OtherSignsTyped
<1>2. UNCHANGED <<policy, funded, built>> /\ session' = session
  BY DEF OtherSigns, fileVars
<1>3. QED
  BY <1>1, <1>2, OneSignedSound

LEMMA SignInvariant == Spec => []SignInv
<1>1. Typed /\ SignInv /\ [Next]_vars => SignInv'
  <2>. SUFFICES ASSUME Typed, SignInv, [Next]_vars PROVE SignInv'
    OBVIOUS
  <2>1. CASE StoreStep \/ Refused \/ UNCHANGED vars
    <3>1. UNCHANGED <<policy, funded, built, portal>> /\ (session' = session \/ ~Asking("add")')
      BY <2>1 DEF StoreStep, Refused, Fails, vars, fileVars, Asking
    <3>2. QED
      BY <3>1, SameSound
  <2>2. ASSUME NEW args \in Arguments, CreateAddress(args)
        PROVE  SignInv'
    BY <2>2, CreateAddressSound
  <2>3. ASSUME NEW spend \in Spends, BuildTx(spend)
        PROVE  SignInv'
    BY <2>3, BuildTxSound
  <2>4. ASSUME NEW n \in Wallets, NEW tx \in built, Sign(n, tx)
        PROVE  SignInv'
    BY <2>4, SameSound DEF Sign
  <2>5. ASSUME NEW tx \in built, NEW w \in witnesses, ProposeTx(tx, w)
        PROVE  SignInv'
    BY <2>5, ProposeTxSound
  <2>6. ASSUME NEW i \in DOMAIN portal, NEW w \in witnesses, SubmitWitness(i, w)
        PROVE  SignInv'
    <3>1. UNCHANGED <<policy, funded, built, portal>> /\ session'.at = "sign"
      BY <2>6 DEF SubmitWitness, fileVars
    <3>2. QED
      BY <3>1, SameSound DEF Asking
  <2>7. ASSUME NEW i \in DOMAIN portal, Fetch(i)
        PROVE  SignInv'
    BY <2>7, FetchSound
  <2>8. ASSUME NEW k \in Others, NEW i \in DOMAIN portal, OtherSigns(k, i)
        PROVE  SignInv'
    BY <2>8, OtherSignsSound
  <2>9. ASSUME NEW k \in Keys, PortalInit(k)
        PROVE  SignInv'
    <3>1. UNCHANGED <<policy, funded, built, portal>> /\ session'.at = "register"
      BY <2>9 DEF PortalInit, fileVars
    <3>2. QED
      BY <3>1, SameSound DEF Asking
  <2>10. ASSUME NEW n \in Wallets, SignSetup(n)
         PROVE  SignInv'
    BY <2>10, SameSound DEF SignSetup, fileVars
  <2>11. CASE Register \/ GetNonce \/ CompleteSetup \/ AuthSigner \/ ClaimBot \/ PickupSecret
    <3>1. UNCHANGED <<policy, funded, built, portal>>
      BY <2>11 DEF Register, GetNonce, CompleteSetup, AuthSigner, ClaimBot, PickupSecret, fileVars
    <3>2. ~Asking("add")'
      <4>1. CASE AuthSigner
        <5>1. session' = Idle \/ session' = [session EXCEPT !.at = "claim"]
          BY <4>1 DEF AuthSigner, Outcome, Answered, Fails
        <5>2. session = [at |-> "auth", signed |-> session.signed]
          BY <4>1, SessionFacts DEF AuthSigner, Typed
        <5>3. QED
          BY <5>1, <5>2 DEF Asking
      <4>2. CASE ClaimBot
        <5>1. session' = Idle \/ session' = [session EXCEPT !.at = "pickup"]
          BY <4>2 DEF ClaimBot, Outcome, Answered, Fails
        <5>2. session = [at |-> "claim", signed |-> session.signed]
          BY <4>2, SessionFacts DEF ClaimBot, Typed
        <5>3. QED
          BY <5>1, <5>2 DEF Asking
      <4>3. CASE Register
        BY <4>3 DEF Register, Outcome, Answered, Fails, Asking
      <4>4. CASE GetNonce \/ PickupSecret
        BY <4>4 DEF GetNonce, PickupSecret, Answered, Fails, Asking
      <4>5. CASE CompleteSetup
        BY <4>5 DEF CompleteSetup, Asking
      <4>6. QED
        BY <2>11, <4>1, <4>2, <4>3, <4>4, <4>5
    <3>3. QED
      BY <3>1, <3>2, SameSound
  <2>12. QED
    BY <2>1, <2>2, <2>3, <2>4, <2>5, <2>6, <2>7, <2>8, <2>9, <2>10, <2>11,
       AddTransactionSound, SignTransactionSound
    DEF Next
<1>2. QED
  BY <1>1, SignInitInv, TypedInvariant, PTL DEF Spec

\* As long as nothing wraps, what goes in comes out.
LEMMA SensibleBalances ==
    ASSUME NEW spend \in Spends, Total(spend.utxos) >= Needed(spend), Sensible(BodyOf(spend))
    PROVE  Sum(spend.utxos) = Sum(Outputs(spend)) + spend.fee
<1>1. /\ spend.amount \in Lovelace /\ spend.fee \in Lovelace /\ Sum(spend.utxos) \in Nat
      /\ Total(spend.utxos) \in Lovelace
  BY TotalTyped
<1>2. Word \in Nat /\ Word # 0
  BY PortalBounds
<1>3. BodyOf(spend).inputs = spend.utxos /\ BodyOf(spend).outputs = Outputs(spend) /\ BodyOf(spend).fee = spend.fee
  BY DEF BodyOf
<1>4. Sum(spend.utxos) < Word /\ Outputs(spend)[1] + spend.fee < Word
  BY <1>3 DEF Sensible
<1>5. Outputs(spend)[1] = spend.amount
  BY DEF Outputs
<1>6. Total(spend.utxos) = Sum(spend.utxos)
  BY <1>1, <1>2, <1>4 DEF Total
<1>7. Needed(spend) = spend.amount + spend.fee
  BY <1>1, <1>2, <1>4, <1>5 DEF Needed, Lovelace
<1>. DEFINE change == Sum(spend.utxos) - (spend.amount + spend.fee)
<1>8. change \in Nat /\ spend.amount \in Nat /\ spend.fee \in Nat
  BY <1>1, <1>6, <1>7 DEF Lovelace
<1>9. Sum(Outputs(spend)) = spend.amount + change
  <2>1. Outputs(spend) = IF change > 0 THEN <<spend.amount, change>> ELSE <<spend.amount>>
    BY <1>6, <1>7, Zenon DEF Outputs
  <2>. HIDE DEF change
  <2>2. QED
    BY <1>8, <2>1, SumSmall
<1>10. QED
  BY <1>1, <1>8, <1>9

(***************************************************************************)
(* Whoever listed the keys in whatever order, and however often the        *)
(* transaction was fetched, signed and proposed: with the signatures of as *)
(* many signers as the address requires, the ledger takes it.              *)
(***************************************************************************)
THEOREM SignersAlwaysSuffice == Spec => []SignersSuffice
<1>1. Typed /\ SignInv => SignersSuffice
  <2>. SUFFICES ASSUME Typed, SignInv, NEW i \in DOMAIN portal, NEW tx, tx = portal[i],
                       Sensible(tx.body), SameSigners(tx.script),
                       \A w \in tx.vkeys : w.of = tx.body,
                       Signed(funded.keys, tx.signers) >= funded.required
                PROVE  Accepted(tx)
    BY Zenon DEF SignersSuffice
  <2>1. TxSound(tx) /\ funded # NoFile /\ funded \in ScriptType
    BY DEF SignInv, SameSigners, Typed, PolicyTypes
  <2>2. tx.script \in ScriptType
    BY <2>1 DEF TxSound, TxType
  <2>3. tx.script.keys = funded.keys /\ tx.script.required = funded.required
    <3>. SUFFICES ASSUME tx.script # funded PROVE tx.script.keys = funded.keys /\ tx.script.required = funded.required
      OBVIOUS
    <3>1. /\ tx.script.required = funded.required /\ Range(tx.script.keys) = Range(funded.keys)
          /\ IsInjective(tx.script.keys) /\ IsInjective(funded.keys)
          /\ Ascending(tx.script.keys) /\ Ascending(funded.keys)
      BY <2>1 DEF SignInv, TxSound, SameSigners, InOrder
    <3>2. tx.script.keys \in Seq(Nat) /\ funded.keys \in Seq(Nat)
      <4>1. tx.script.keys \in Seq(Keys) /\ funded.keys \in Seq(Keys) /\ Keys \subseteq Nat
        BY <2>1, <2>2, PortalBounds DEF ScriptType
      <4>2. QED
        BY <4>1, SeqOfNumbers
    <3>3. tx.script.keys = funded.keys
      BY <3>1, <3>2, SortUnique
    <3>4. QED
      BY <3>1, <3>3
  <2>4. Valid(tx) = tx.vkeys
    BY DEF Valid
  <2>5. {w.key : w \in Valid(tx)} = tx.signers
    BY <2>1, <2>4 DEF TxSound
  <2>6. Signed(tx.script.keys, {w.key : w \in Valid(tx)}) >= tx.script.required
    BY <2>3, <2>5, Zenon
  <2>7. PICK spend \in Spends : Total(spend.utxos) >= Needed(spend) /\ tx.body = BodyOf(spend)
    BY <2>1 DEF TxSound
  <2>8. Sum(spend.utxos) = Sum(Outputs(spend)) + spend.fee
    BY <2>7, SensibleBalances
  <2>9. tx.body.inputs = spend.utxos /\ tx.body.outputs = Outputs(spend) /\ tx.body.fee = spend.fee
    BY <2>7 DEF BodyOf
  <2>10. Sum(tx.body.inputs) = Sum(tx.body.outputs) + tx.body.fee
    BY <2>8, <2>9, Zenon
  <2>11. QED
    BY <2>3, <2>4, <2>6, <2>10, Zenon DEF Accepted, Address
<1>2. QED
  BY <1>1, TypedInvariant, SignInvariant, PTL

=============================================================================

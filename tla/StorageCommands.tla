--------------------------- MODULE StorageCommands ---------------------------
(***************************************************************************)
(* StorageCommand (src/indexer/storage_manager.rs): what a client may ask  *)
(* of the one task that owns the LSM trees, and what each command does.    *)
(*                                                                         *)
(* The trees are reduced to cells.  A command reads some cells (a get, a   *)
(* prefix scan, the smallest of some tips), or writes and deletes some (an *)
(* insert, a tip, an index entry, the rewind of a rollback request): the   *)
(* forty commands of the enum differ in which cells, and in nothing else.  *)
(* Saving snapshots, taking the storage out of the manager, putting it     *)
(* back and shutting down are commands of their own.                       *)
(***************************************************************************)
EXTENDS Naturals, Sequences, FiniteSets

CONSTANTS
    Clients,   \* the tasks that hold a StorageHandle
    Cells,     \* <<tree, key>>
    Values,
    Nobody     \* who holds a storage that was dropped, or travels in a command

ASSUME ClientNames == Nobody \notin Clients /\ "manager" \notin Clients /\ Nobody # "manager"

VARIABLE
    storage    \* Option<NetworkStorage>: who holds it, its cells, its snapshot

Content == UNION {[S -> Values] : S \in SUBSET Cells}

Empty == [x \in {} |-> x]

Storage == [holder : Clients \cup {"manager", Nobody}, cells : Content, saved : Content]

ReadCommand  == [op : {"read"}, cells : SUBSET Cells]
WriteCommand == [op : {"write"}, put : Content, del : SUBSET Cells]
PlainCommand == [op : {"save", "take", "shutdown"}]
ReturnCommand == [op : {"return"}, cells : Content, saved : Content]

Command == ReadCommand \cup WriteCommand \cup PlainCommand \cup ReturnCommand

Answer == [ok : BOOLEAN, data : Content]

\* "Storage not available", and the errors of a closed channel.
Refused == [ok |-> FALSE, data |-> Empty]

Available == storage.holder = "manager"

\* As if a missing key read as a default value.
Defaulted(s, S) == [x \in S |-> IF x \in DOMAIN s THEN s[x] ELSE Nobody]

Restricted(s, S) == [x \in DOMAIN s \cap S |-> s[x]]

Overwritten(s, put, del) ==
    [x \in (DOMAIN s \ del) \cup DOMAIN put |-> IF x \in DOMAIN put THEN put[x] ELSE s[x]]

\* The answer to cmd; a return has none, a shutdown always succeeds.
Reply(cmd) ==
    IF cmd.op = "shutdown" THEN [ok |-> TRUE, data |-> Empty]
    ELSE IF ~Available THEN Refused
    ELSE [ok |-> TRUE, data |-> IF cmd.op = "read" THEN Restricted(storage.cells, cmd.cells)
                                ELSE IF cmd.op = "take" THEN storage.cells
                                ELSE Empty]

Dropped == [storage EXCEPT !.holder = Nobody, !.cells = Empty]

\* handle_command on the storage.  `heard` says whether the client still
\* waits: a storage sent to one that does not is dropped.
Obey(c, cmd, heard) ==
    \/ /\ cmd.op = "read" \/ (cmd.op \in {"write", "save", "take"} /\ ~Available)
       /\ UNCHANGED storage
    \/ /\ cmd.op = "write"
       /\ Available
       /\ storage' = [storage EXCEPT !.cells = Overwritten(@, cmd.put, cmd.del)]
    \/ /\ cmd.op = "save"
       /\ Available
       /\ storage' = [storage EXCEPT !.saved = storage.cells]
    \/ /\ cmd.op = "take"
       /\ Available
       /\ storage' = IF heard THEN [storage EXCEPT !.holder = c] ELSE Dropped
    \/ /\ cmd.op = "return"
       /\ storage' = [holder |-> "manager", cells |-> cmd.cells, saved |-> cmd.saved]
    \/ /\ cmd.op = "shutdown"
       /\ storage' = IF Available THEN Dropped ELSE storage

=============================================================================

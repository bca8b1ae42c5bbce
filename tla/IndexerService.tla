--------------------------- MODULE IndexerService ---------------------------
(***************************************************************************)
(* The running indexer: the session of run_chain_sync (src/main.rs) that   *)
(* feeds blocks to the storage, the requests of the query service          *)
(* (src/api/query.rs) that read it meanwhile, AddAddressAndRollback, which *)
(* rewinds the stored tips under the session's feet and signals it to      *)
(* start again, and the FollowTip stream (src/api/watch.rs).               *)
(*                                                                         *)
(* Every task awaits one StorageHandle call at a time; a call is one       *)
(* atomic step (module StorageManager shows that it may be taken for one). *)
(* The node announces one chain, block by block; forks, failing blocks and *)
(* crashes are the subject of ChainSync, not of this module.               *)
(***************************************************************************)
EXTENDS Naturals, Sequences, SequencesExt

CONSTANTS
    Callers,         \* the gRPC requests; bound: each is made once at most
    Asks,            \* caller -> the operations it may ask for
    WalletCount,
    Body,            \* block -> its inputs <<"in", key>> and outputs <<"out", key>>
    AddressOf,       \* key -> address
    Holders,         \* the keys of outputs that hold the tracked policy
    WalletAddresses, \* what the wallet filter accepts from the start
    NewAddresses,    \* what AddAddressAndRollback may add
    Depths,          \* the values of rollback_blocks
    EpochLength,
    ScanLimit,       \* outputs SearchUtxos tries per transaction (100)
    Capacity,        \* of the broadcast channel (1000)
    Room             \* of a stream's channel (100)

Blocks == 1 .. Len(Body)

Wallets == 1 .. WalletCount

Keys == DOMAIN AddressOf   \* <<transaction, output number>>

Operations == {"ReadUtxos", "SearchUtxos", "ReadUtxoEvents", "GetBlockByHash", "ReadTip",
               "AddAddressAndRollback", "FollowTip"}

ASSUME IndexerConstants ==
    /\ Body \in Seq(Seq({"in", "out"} \X Keys))
    /\ Asks \in [Callers -> SUBSET Operations]
    /\ EpochLength \in Nat \ {0} /\ Capacity \in Nat \ {0} /\ Room \in Nat \ {0}
    /\ Len(Body) >= 2 /\ WalletCount \in Nat /\ ScanLimit \in Nat

\* Of the keys, which are those of the outputs on the chain.
ASSUME KeyTypes ==
    /\ IsFiniteSet(Keys) /\ IsFiniteSet(WalletAddresses)
    /\ \A k \in Keys : k = <<k[1], k[2]>> /\ k[2] \in Nat \ {0}
    /\ Holders \subseteq Keys
    /\ \A k \in Keys : \E b \in Blocks : <<"out", k>> \in ToSet(Body[b])

Earlier(b, i, c, j) == b < c \/ (b = c /\ i < j)

\* What the ledger guarantees of a chain: an output is made once and spent
\* at most once, by a later input.
ASSUME LedgerRules ==
    \A b, c \in Blocks : \A i \in DOMAIN Body[b], j \in DOMAIN Body[c] :
        (Body[b][i][2] = Body[c][j][2] /\ <<b, i>> # <<c, j>>) =>
            \/ Body[b][i][1] = "out" /\ Body[c][j][1] = "in" /\ Earlier(b, i, c, j)
            \/ Body[c][j][1] = "out" /\ Body[b][i][1] = "in" /\ Earlier(c, j, b, i)

VARIABLES
    node_tip,   \* how much of the chain the node has
    db,         \* the trees this module tells apart
    tracked,    \* HayateIndexer::tracked_addresses
    signals,    \* restart signals in the session's receiver
    session,    \* run_chain_sync
    req,        \* caller -> the request it makes
    calls,      \* the callers that have made their request
    stream,     \* one FollowTip stream
    seen        \* history: blocks begun and finished for the first time, how often
                \* AddAddressAndRollback was asked for, rewinds answered

vars == <<node_tip, db, tracked, signals, session, req, calls, stream, seen>>

-----------------------------------------------------------------------------
(* Tips.  A tip that rollback_to writes has a slot and an empty hash.      *)

NoTip == [slot |-> 0, hashed |-> FALSE]

TipOf(b) == [slot |-> b, hashed |-> b # 0]

\* get_min_wallet_tip and find_intersect: a point without its hash is not
\* found, and the chain is served from the origin.
Intersections ==
    LET lowest == {w \in Wallets : \A v \in Wallets : db.wallet_tip[w].slot <= db.wallet_tip[v].slot}
    IN  {IF db.wallet_tip[w].hashed THEN db.wallet_tip[w].slot ELSE 0 : w \in lowest}

SlotToEpoch(slot) == slot \div EpochLength

-----------------------------------------------------------------------------
NewSession ==
    [at |-> "resume", base |-> 0, next |-> 1, filter |-> {}, current_slot |-> 0, epoch |-> 0,
     boundary |-> FALSE, pos |-> 1, made |-> <<>>, spent |-> <<>>, event_index |-> 1]

NoRequest == [op |-> "none"]

\* An update as a stream sees it: the block, and how many were sent since it
\* subscribed.
NoUpdate == [block |-> 0, number |-> 0]

NoStream ==
    [at |-> "off", sent |-> 0, unread |-> <<>>, lagged |-> FALSE, out |-> <<>>, last |-> NoUpdate]

Init ==
    /\ node_tip = 2
    /\ db = [utxo |-> {}, index |-> {}, policy_txs |-> {}, known |-> {},
             events |-> [b \in Blocks |-> <<>>],
             chain_tip |-> NoTip, wallet_tip |-> [w \in Wallets |-> NoTip]]
    /\ tracked = {}
    /\ signals = 0
    /\ session = NewSession
    /\ req = [c \in Callers |-> NoRequest]
    /\ calls = {}
    /\ stream = NoStream
    /\ seen = [begun |-> 0, done |-> 0, rewound |-> 0, rewinds |-> {}]

\* The chain of the node grows.
Forge ==
    /\ node_tip < Len(Body)
    /\ node_tip' = node_tip + 1
    /\ UNCHANGED <<db, tracked, signals, session, req, calls, stream, seen>>

-----------------------------------------------------------------------------
(* run_chain_sync: from the stored tips to the loop.                       *)

At(phase) == session.at = phase

Resume ==
    /\ At("resume")
    /\ \E b \in Intersections :
          session' = [session EXCEPT !.at = "connect", !.base = b, !.next = b + 1]
    /\ UNCHANGED <<node_tip, db, tracked, signals, req, calls, stream, seen>>

\* BlockProcessor::new
Connect ==
    /\ At("connect")
    /\ session' = [session EXCEPT !.at = "filter", !.current_slot = db.chain_tip.slot,
                                  !.epoch = SlotToEpoch(db.chain_tip.slot)]
    /\ UNCHANGED <<node_tip, db, tracked, signals, req, calls, stream, seen>>

BuildFilter ==
    /\ At("filter")
    /\ session' = [session EXCEPT !.at = "subscribe", !.filter = WalletAddresses \cup tracked]
    /\ UNCHANGED <<node_tip, db, tracked, signals, req, calls, stream, seen>>

\* A new receiver gets what is sent from now on; it lives as long as the session.
Listening == session.at \notin {"resume", "connect", "filter", "subscribe"}

SubscribeRestart ==
    /\ At("subscribe")
    /\ session' = [session EXCEPT !.at = "connected"]
    /\ UNCHANGED <<node_tip, db, tracked, signals, req, calls, stream, seen>>

\* As if the receiver outlived the session it restarts.
Unread == signals

\* The receiver goes with the session, and with it what it has not read.
Dropped == 0

\* break Err("RESTART:..") skips the final save, and main runs the session again.
Restart ==
    /\ At("connected") \/ At("idle")
    /\ signals > 0
    /\ session' = NewSession
    /\ signals' = Dropped
    /\ UNCHANGED <<node_tip, db, tracked, req, calls, stream, seen>>

\* The node's first response rolls back to the intersection; rollback_to does
\* nothing unless the stored tip is above it.
RollBackward ==
    /\ At("connected")
    /\ IF session.base < db.chain_tip.slot
       THEN /\ db' = [db EXCEPT !.chain_tip = [slot |-> session.base, hashed |-> FALSE]]
            /\ session' = [session EXCEPT !.at = "untips", !.pos = 1]
       ELSE /\ session' = [session EXCEPT !.at = "idle"]
            /\ UNCHANGED db
    /\ UNCHANGED <<node_tip, tracked, signals, req, calls, stream, seen>>

RewindWallet ==
    /\ At("untips")
    /\ IF session.pos <= WalletCount
       THEN /\ db' = [db EXCEPT !.wallet_tip[session.pos] =
                                    [slot |-> session.base, hashed |-> FALSE]]
            /\ session' = [session EXCEPT !.pos = @ + 1]
       ELSE /\ session' = [session EXCEPT !.at = "idle", !.current_slot = session.base]
            /\ UNCHANGED db
    /\ UNCHANGED <<node_tip, tracked, signals, req, calls, stream, seen>>

-----------------------------------------------------------------------------
(* process_block                                                           *)

BeginBlock ==
    /\ At("idle")
    /\ session.next <= node_tip
    /\ IF session.next < session.current_slot
       THEN session' = [session EXCEPT !.next = @ + 1]
       ELSE session' = [session EXCEPT
                           !.at = "body", !.pos = 1, !.made = <<>>, !.spent = <<>>,
                           !.event_index = 1,
                           !.boundary = SlotToEpoch(session.next) > session.epoch,
                           !.epoch = IF SlotToEpoch(session.next) > @
                                     THEN SlotToEpoch(session.next) ELSE @]
    /\ seen' = [seen EXCEPT !.begun = IF session.next > @ THEN session.next ELSE @]
    /\ UNCHANGED <<node_tip, db, tracked, signals, req, calls, stream>>

Items == Body[session.next]

\* As if an input left the address index alone.
NoUnindex(k) == db.index

\* remove_utxo_from_address_index
Unindex(k) == db.index \ {k}

ProcessInput ==
    /\ At("body")
    /\ session.pos <= Len(Items)
    /\ Items[session.pos][1] = "in"
    /\ LET k == Items[session.pos][2] IN
       IF k \in db.utxo
       THEN /\ db' = [db EXCEPT !.index = Unindex(k)]
            /\ session' = [session EXCEPT !.at = "spend"]
       ELSE /\ session' = [session EXCEPT !.pos = @ + 1]
            /\ UNCHANGED db
    /\ UNCHANGED <<node_tip, tracked, signals, req, calls, stream, seen>>

DeleteUtxo ==
    /\ At("spend")
    /\ LET k == Items[session.pos][2] IN
       /\ db' = [db EXCEPT !.utxo = @ \ {k}]
       /\ session' = [session EXCEPT !.at = "body", !.pos = @ + 1, !.spent = Append(@, k)]
    /\ UNCHANGED <<node_tip, tracked, signals, req, calls, stream, seen>>

\* As if an output already indexed were taken out again.
ToggleIndex(k) == (db.index \ {k}) \cup ({k} \ db.index)

\* add_utxo_to_address_index
Index(k) == db.index \cup {k}

ProcessOutput ==
    /\ At("body")
    /\ session.pos <= Len(Items)
    /\ Items[session.pos][1] = "out"
    /\ LET k == Items[session.pos][2] IN
       IF AddressOf[k] \in session.filter
       THEN /\ db' = [db EXCEPT !.utxo = @ \cup {k}]
            /\ session' = [session EXCEPT !.at = "index"]
       ELSE /\ session' = [session EXCEPT !.pos = @ + 1]
            /\ UNCHANGED db
    /\ UNCHANGED <<node_tip, tracked, signals, req, calls, stream, seen>>

IndexUtxo ==
    /\ At("index")
    /\ LET k == Items[session.pos][2] IN
       /\ db' = [db EXCEPT !.index = Index(k)]
       /\ session' = [session EXCEPT !.at = "body", !.pos = @ + 1, !.made = Append(@, k)]
    /\ UNCHANGED <<node_tip, tracked, signals, req, calls, stream, seen>>

\* track_tokens_in_transaction looks at every output, ours or not.  The code
\* calls it after each transaction; here it is once, after the last one.
TrackTokens ==
    /\ At("body")
    /\ session.pos > Len(Items)
    /\ db' = [db EXCEPT !.policy_txs = @ \cup
                 {x[2][1] : x \in {y \in ToSet(Items) : y[1] = "out" /\ y[2] \in Holders}}]
    /\ session' = [session EXCEPT !.at = "events", !.pos = 1]
    /\ UNCHANGED <<node_tip, tracked, signals, req, calls, stream, seen>>

\* As if each event of a slot were stored under the same number.
Replaced(run, i, e) == <<e>>

\* insert_block_event: the slot's events are numbered without gaps.
Written(run, i, e) == IF i <= Len(run) THEN [run EXCEPT ![i] = e] ELSE Append(run, e)

\* The created outputs that are still there, then the spent ones.
WriteEvent ==
    /\ At("events")
    /\ session.pos <= Len(session.made) + Len(session.spent)
    /\ LET created == session.pos <= Len(session.made)
           k == IF created THEN session.made[session.pos]
                ELSE session.spent[session.pos - Len(session.made)]
       IN
       IF created => k \in db.utxo
       THEN /\ db' = [db EXCEPT !.events[session.next] =
                         Written(@, session.event_index,
                                 [type |-> IF created THEN "CREATED" ELSE "SPENT", key |-> k])]
            /\ session' = [session EXCEPT !.pos = @ + 1, !.event_index = @ + 1]
       ELSE /\ session' = [session EXCEPT !.pos = @ + 1]
            /\ UNCHANGED db
    /\ UNCHANGED <<node_tip, tracked, signals, req, calls, stream, seen>>

\* As if the block that begins an epoch had no metadata.
Unknown(b) == IF session.boundary THEN db.known ELSE db.known \cup {b}

\* store_block_metadata
Known(b) == db.known \cup {b}

StoreMetadata ==
    /\ At("events")
    /\ session.pos > Len(session.made) + Len(session.spent)
    /\ db' = [db EXCEPT !.known = Known(session.next)]
    /\ session' = [session EXCEPT !.current_slot = session.next, !.pos = 0,
                                  !.at = IF session.boundary THEN "tips" ELSE "broadcast"]
    /\ UNCHANGED <<node_tip, tracked, signals, req, calls, stream, seen>>

\* save_current_tips: the chain tip, then wallet after wallet
SaveTips ==
    /\ At("tips")
    /\ IF session.pos = 0
       THEN db' = [db EXCEPT !.chain_tip = TipOf(session.next)]
       ELSE db' = [db EXCEPT !.wallet_tip[session.pos] = TipOf(session.next)]
    /\ session' = [session EXCEPT !.pos = @ + 1,
                                  !.at = IF session.pos = WalletCount THEN "broadcast" ELSE @]
    /\ UNCHANGED <<node_tip, tracked, signals, req, calls, stream, seen>>

\* As if the channel had no bound.
AlwaysSent(s, b) ==
    IF s.at # "on" THEN s
    ELSE [s EXCEPT !.sent = @ + 1, !.unread = Append(@, [block |-> b, number |-> s.sent + 1])]

\* A receiver that is a full channel behind loses the oldest update.
Sent(s, b) ==
    LET update == [block |-> b, number |-> s.sent + 1] IN
    IF s.at # "on" THEN s
    ELSE IF Len(s.unread) < Capacity
    THEN [s EXCEPT !.sent = @ + 1, !.unread = Append(@, update)]
    ELSE [s EXCEPT !.sent = @ + 1, !.unread = Append(Tail(@), update), !.lagged = TRUE]

BroadcastBlock ==
    /\ At("broadcast")
    /\ stream' = Sent(stream, session.next)
    /\ session' = [session EXCEPT !.at = "idle", !.next = @ + 1, !.pos = 1, !.made = <<>>,
                                  !.spent = <<>>, !.event_index = 1, !.boundary = FALSE]
    /\ seen' = [seen EXCEPT !.done = IF session.next > @ THEN session.next ELSE @]
    /\ UNCHANGED <<node_tip, db, tracked, signals, req, calls>>

SessionStep ==
    \/ Resume \/ Connect \/ BuildFilter \/ SubscribeRestart \/ Restart
    \/ RollBackward \/ RewindWallet
    \/ BeginBlock \/ ProcessInput \/ DeleteUtxo \/ ProcessOutput \/ IndexUtxo \/ TrackTokens
    \/ WriteEvent \/ StoreMetadata \/ SaveTips \/ BroadcastBlock

-----------------------------------------------------------------------------
(* The requests.  One record serves every kind: what was asked, what is    *)
(* left to look up, a counter, what was found, and how it ended.           *)

FirstStep == [ReadUtxos |-> "address", SearchUtxos |-> "policy", ReadUtxoEvents |-> "event",
              GetBlockByHash |-> "meta", ReadTip |-> "tip", AddAddressAndRollback |-> "add"]

\* What a caller may ask: addresses to read, slots and a limit of events, a
\* block, an address with the number of blocks to go back.
Questions(op) ==
    IF op = "ReadUtxos" THEN {SetToSeq(WalletAddresses)}
    ELSE IF op = "ReadUtxoEvents" THEN {[last |-> Len(Body), max |-> m] : m \in {0, 1}}
    ELSE IF op = "GetBlockByHash" THEN {Len(Body) - 1}
    ELSE IF op = "AddAddressAndRollback" THEN [address : NewAddresses, back : Depths]
    ELSE {"policy"}

Request(c, op, asked) ==
    /\ c \notin calls
    /\ req' = [req EXCEPT ![c] =
                  [op |-> op, asked |-> asked, at |-> FirstStep[op],
                   todo |-> IF op = "ReadUtxos" THEN asked ELSE <<>>,
                   keys |-> <<>>, num |-> 1, got |-> <<>>, since |-> seen.done]]
    /\ calls' = calls \cup {c}
    /\ seen' = [seen EXCEPT !.rewound = IF op = "AddAddressAndRollback" THEN @ + 1 ELSE @]
    /\ UNCHANGED <<node_tip, db, tracked, signals, session, stream>>

\* c's request is at this step.
Doing(c, step) == req[c].op # "none" /\ req[c].at = step

\* The step reads the storage and changes nothing but the request.
Reads(c, next) ==
    /\ req' = [req EXCEPT ![c] = next]
    /\ UNCHANGED <<node_tip, db, tracked, signals, session, calls, stream, seen>>

\* read_utxos: the index of each address, then each output it names.
ReadIndex(c) ==
    /\ Doing(c, "address")
    /\ IF req[c].todo = <<>>
       THEN Reads(c, [req[c] EXCEPT !.at = "tip"])
       ELSE LET keys == {k \in db.index : AddressOf[k] = Head(req[c].todo)} IN
            Reads(c, [req[c] EXCEPT !.at = "output", !.keys = SetToSeq(keys), !.todo = Tail(@)])

ReadOutput(c) ==
    /\ Doing(c, "output")
    /\ IF req[c].keys = <<>>
       THEN Reads(c, [req[c] EXCEPT !.at = "address"])
       ELSE LET k == Head(req[c].keys) IN
            Reads(c, [req[c] EXCEPT !.keys = Tail(@),
                                    !.got = IF k \in db.utxo THEN Append(@, k) ELSE @])

\* get_chain_tip, for itself and at the end of read_utxos
ReadTip(c) ==
    /\ Doing(c, "tip")
    /\ Reads(c, [req[c] EXCEPT !.at = "answered"])

\* search_utxos: the outputs of each transaction of the policy, up to the
\* first that is not there.
SearchPolicy(c) ==
    /\ Doing(c, "policy")
    /\ Reads(c, [req[c] EXCEPT !.at = "scan", !.todo = SetToSeq(db.policy_txs)])

\* As if the last output number were left out.
BelowLimit(n) == n < ScanLimit

WithinLimit(n) == n <= ScanLimit

ScanOutput(c) ==
    /\ Doing(c, "scan")
    /\ IF req[c].todo = <<>>
       THEN Reads(c, [req[c] EXCEPT !.at = "answered"])
       ELSE LET k == <<Head(req[c].todo), req[c].num>> IN
            IF WithinLimit(req[c].num) /\ k \in db.utxo
            THEN Reads(c, [req[c] EXCEPT !.num = @ + 1,
                                         !.got = IF k \in Holders THEN Append(@, k) ELSE @])
            ELSE Reads(c, [req[c] EXCEPT !.num = 1, !.todo = Tail(@)])

\* read_utxo_events without a filter: slot by slot, event by event.  todo
\* counts the slots that are finished.
ReadEvent(c) ==
    /\ Doing(c, "event")
    /\ LET slot == Len(req[c].todo) + 1 IN
       IF slot > req[c].asked.last \/ (req[c].asked.max > 0 /\ Len(req[c].got) >= req[c].asked.max)
       THEN Reads(c, [req[c] EXCEPT !.at = "answered"])
       ELSE IF req[c].num <= Len(db.events[slot])
       THEN Reads(c, [req[c] EXCEPT !.num = @ + 1,
                                    !.got = Append(@, db.events[slot][req[c].num])])
       ELSE Reads(c, [req[c] EXCEPT !.num = 1, !.todo = Append(@, slot)])

\* get_block_by_hash: both blocks must be indexed, then the node is asked for
\* the child of the parent; a failure, and a block that is not the one asked for
\* because the node has switched to another fork, are answered with an error.
ReadMetadata(c) ==
    /\ Doing(c, "meta")
    /\ Reads(c, [req[c] EXCEPT !.at = IF req[c].asked \in db.known /\ req[c].asked > 1
                                      THEN "parent" ELSE "answered"])

ReadParent(c) ==
    /\ Doing(c, "parent")
    /\ Reads(c, [req[c] EXCEPT !.at = IF req[c].asked - 1 \in db.known THEN "block" ELSE "answered"])

FetchBlock(c) ==
    /\ Doing(c, "block")
    /\ \E found \in {<<>>, <<req[c].asked>>} :
          Reads(c, [req[c] EXCEPT !.at = "answered", !.got = found])

-----------------------------------------------------------------------------
(* add_address_and_rollback                                                *)

\* The address is added, and the tip that the walk starts from is read in the
\* same step: in the code there are awaits between the two.
AddAddress(c) ==
    /\ Doing(c, "add")
    /\ tracked' = tracked \cup {req[c].asked.address}
    /\ req' = [req EXCEPT ![c].at = IF req[c].asked.back = 0 THEN "rewind" ELSE "walk",
                          ![c].num = IF req[c].asked.back = 0 THEN 0 ELSE node_tip]
    /\ UNCHANGED <<node_tip, db, signals, session, calls, stream, seen>>

\* walk_back_n_blocks: from the node's tip along prev_hash, over blocks that
\* are indexed.  todo counts the blocks walked.
WalkBack(c) ==
    /\ Doing(c, "walk")
    /\ IF req[c].num \notin db.known
       THEN Reads(c, [req[c] EXCEPT !.at = "answered"])
       ELSE IF Len(req[c].todo) = req[c].asked.back
       THEN Reads(c, [req[c] EXCEPT !.at = "rewind"])
       ELSE IF req[c].num = 1
       THEN Reads(c, [req[c] EXCEPT !.at = "rewind", !.num = 0])
       ELSE Reads(c, [req[c] EXCEPT !.num = @ - 1, !.todo = Append(@, req[c].num)])

\* rollback_to_slot_with_hash
RewindTip(c) ==
    /\ Doing(c, "rewind")
    /\ db' = [db EXCEPT !.chain_tip = TipOf(req[c].num)]
    /\ req' = [req EXCEPT ![c].at = "wallets", ![c].todo = <<>>]
    /\ UNCHANGED <<node_tip, tracked, signals, session, calls, stream, seen>>

RewindWallets(c) ==
    /\ Doing(c, "wallets")
    /\ LET w == Len(req[c].todo) + 1 IN
       IF w <= WalletCount
       THEN /\ db' = [db EXCEPT !.wallet_tip[w] = TipOf(req[c].num)]
            /\ req' = [req EXCEPT ![c].todo = Append(@, w)]
       ELSE /\ req' = [req EXCEPT ![c].at = "signal"]
            /\ UNCHANGED db
    /\ UNCHANGED <<node_tip, tracked, signals, session, calls, stream, seen>>

\* Nobody hears a signal when there is no receiver.
Signalled == IF Listening THEN signals + 1 ELSE signals

SignalRestart(c) ==
    /\ Doing(c, "signal")
    /\ signals' = Signalled
    /\ req' = [req EXCEPT ![c].at = "answered", ![c].got = <<req[c].num>>]
    /\ seen' = [seen EXCEPT !.rewinds = @ \cup {[address |-> req[c].asked.address,
                                                 slot |-> req[c].num]}]
    /\ UNCHANGED <<node_tip, db, tracked, session, calls, stream>>

\* The caller has its answer, or hangs up.
Leave(c) ==
    /\ req[c].op # "none"
    /\ req' = [req EXCEPT ![c] = NoRequest]
    /\ UNCHANGED <<node_tip, db, tracked, signals, session, calls, stream, seen>>

RequestStep(c) ==
    \/ ReadIndex(c) \/ ReadOutput(c) \/ ReadTip(c)
    \/ SearchPolicy(c) \/ ScanOutput(c)
    \/ ReadEvent(c)
    \/ ReadMetadata(c) \/ ReadParent(c) \/ FetchBlock(c)
    \/ AddAddress(c) \/ WalkBack(c) \/ RewindTip(c) \/ RewindWallets(c) \/ SignalRestart(c)

-----------------------------------------------------------------------------
(* FollowTip: a task forwards updates from the broadcast channel to the    *)
(* channel of the gRPC stream.                                             *)

FollowTip(c) ==
    /\ stream.at = "off"
    /\ c \notin calls
    /\ stream' = [NoStream EXCEPT !.at = "on"]
    /\ calls' = calls \cup {c}
    /\ UNCHANGED <<node_tip, db, tracked, signals, session, req, seen>>

\* As if the task went on after an error of the receiver.
GoOn == [stream EXCEPT !.lagged = FALSE]

\* `while let Ok(..)`: a receiver that lags behind ends the stream.
End == [stream EXCEPT !.at = "ended", !.unread = <<>>, !.lagged = FALSE]

Forward ==
    /\ stream.at = "on"
    /\ \/ /\ stream.lagged
          /\ stream' = End
       \/ /\ ~stream.lagged
          /\ stream.unread # <<>>
          /\ Len(stream.out) < Room
          /\ stream' = [stream EXCEPT !.unread = Tail(@), !.out = Append(@, Head(stream.unread))]
    /\ UNCHANGED <<node_tip, db, tracked, signals, session, req, calls, seen>>

\* The client takes an update.
Deliver ==
    /\ stream.out # <<>>
    /\ stream' = [stream EXCEPT !.out = Tail(@), !.last = Head(stream.out)]
    /\ UNCHANGED <<node_tip, db, tracked, signals, session, req, calls, seen>>

\* The stream is over, or the client goes away and the next send fails.
CloseStream ==
    /\ \/ stream.at = "ended" /\ stream.out = <<>>
       \/ stream.at = "on" /\ stream.unread # <<>>
    /\ stream' = NoStream
    /\ UNCHANGED <<node_tip, db, tracked, signals, session, req, calls, seen>>

-----------------------------------------------------------------------------
Next ==
    \/ Forge
    \/ SessionStep
    \/ \E c \in Callers :
          \/ \E op \in Asks[c] \ {"FollowTip"} : \E asked \in Questions(op) : Request(c, op, asked)
          \/ "FollowTip" \in Asks[c] /\ FollowTip(c)
          \/ RequestStep(c)
          \/ Leave(c)
    \/ Forward \/ Deliver \/ CloseStream

\* Every task is polled as long as it can go on.
Fairness ==
    /\ WF_vars(SessionStep)
    /\ \A c \in Callers : WF_vars(RequestStep(c))
    /\ WF_vars(Forward)

Spec == Init /\ [][Next]_vars /\ Fairness

-----------------------------------------------------------------------------
Tip == [slot : 0 .. Len(Body), hashed : BOOLEAN]

TypeOK ==
    /\ node_tip \in Blocks
    /\ db.utxo \cup db.index \subseteq Keys /\ db.known \subseteq Blocks
    /\ db.chain_tip \in Tip /\ db.wallet_tip \in [Wallets -> Tip]
    /\ tracked \subseteq NewAddresses
    /\ signals \in Nat
    /\ session.base \in 0 .. Len(Body) /\ session.next \in 1 .. Len(Body) + 1
    /\ Len(stream.unread) <= Capacity /\ Len(stream.out) <= Room

Creator(k) == CHOOSE b \in Blocks : <<"out", k>> \in ToSet(Body[b])

SpentBy(k, b) == \E x \in 1 .. b : <<"in", k>> \in ToSet(Body[x])

Ours(k) == AddressOf[k] \in WalletAddresses

\* Outputs that a request which began when `since` blocks were done must see:
\* nobody has begun to spend them yet.
Settled(since) == {k \in Keys : Ours(k) /\ Creator(k) <= since /\ ~SpentBy(k, seen.begun)}

Answered(c, op) == Doing(c, "answered") /\ req[c].op = op

(***************************************************************************)
(* ReadUtxos looks at the index and at each output in calls of their own,  *)
(* between the steps of process_block, or while a session replays blocks   *)
(* over their own effects.  It returns every output that stood all the     *)
(* time, and none twice; while nothing is rewound, none that a block       *)
(* finished before the request had spent.                                  *)
(***************************************************************************)
ReadUtxosRegular ==
    \A c \in Callers : Answered(c, "ReadUtxos") =>
        /\ Settled(req[c].since) \subseteq ToSet(req[c].got)
        /\ IsInjective(req[c].got)
        /\ seen.rewound = 0 => \A k \in ToSet(req[c].got) : ~SpentBy(k, req[c].since)

(***************************************************************************)
(* SearchUtxos stops at the first output of a transaction that is not      *)
(* there and after ScanLimit outputs: it returns the settled outputs with  *)
(* the policy that are within the limit and have no gap below them.        *)
(***************************************************************************)
SearchRegular ==
    \A c \in Callers : Answered(c, "SearchUtxos") =>
        \A k \in Settled(req[c].since) \cap Holders :
            (k[2] <= ScanLimit /\ \A i \in 1 .. k[2] : <<k[1], i>> \in Settled(req[c].since))
                => k \in ToSet(req[c].got)

\* The events of a block, once it is done and before anything is replayed.
EventsOf(b) ==
    LET outs  == {k \in Keys : Ours(k) /\ Creator(k) = b}
        ins   == {k \in Keys : Ours(k) /\ <<"in", k>> \in ToSet(Body[b])}
    IN  {[type |-> "CREATED", key |-> k] : k \in outs \ ins} \cup
        {[type |-> "SPENT", key |-> k] : k \in ins}

(***************************************************************************)
(* ReadUtxoEvents without a limit returns exactly the events of the blocks *)
(* finished before it began, once each, and perhaps some of later blocks.  *)
(***************************************************************************)
EventsRegular ==
    \A c \in Callers :
        (Answered(c, "ReadUtxoEvents") /\ seen.rewound = 0 /\ req[c].asked.max = 0) =>
            /\ IsInjective(req[c].got)
            /\ UNION {EventsOf(b) : b \in 1 .. req[c].since} \subseteq ToSet(req[c].got)
            /\ ToSet(req[c].got) \subseteq UNION {EventsOf(b) : b \in 1 .. seen.begun}

(***************************************************************************)
(* A stored tip with a hash names a block whose metadata is stored, so     *)
(* walks and GetBlockByHash can start from it.                             *)
(***************************************************************************)
TipsKnown ==
    \A t \in {db.chain_tip} \cup {db.wallet_tip[w] : w \in Wallets} :
        t.hashed => t.slot \in db.known

(***************************************************************************)
(* With the session at the node's tip, the trees hold the unspent outputs  *)
(* of the wallets and no others, also after a rewind has replayed blocks   *)
(* that were processed before, whatever raced with it.  A second rewind    *)
(* may cut the replay of the first one short: see RewoundIsIndexed.        *)
(***************************************************************************)
ExactAtTip ==
    (At("idle") /\ session.next > node_tip /\ seen.rewound <= 1) =>
        LET unspent == {k \in Keys : Ours(k) /\ Creator(k) <= node_tip /\ ~SpentBy(k, node_tip)}
        IN  /\ {k \in db.utxo : Ours(k)} = unspent
            /\ {k \in db.index : Ours(k)} = unspent

(***************************************************************************)
(* A stream delivers every update sent since it was opened, in order:      *)
(* what a slow client misses ends it.  As long as nothing is rewound,      *)
(* these are consecutive blocks.                                           *)
(***************************************************************************)
StreamNeverSkips ==
    [][stream'.last \notin {stream.last, NoUpdate} =>
          /\ stream'.last.number = stream.last.number + 1
          /\ (seen.rewound = 0 /\ stream.last # NoUpdate) =>
                stream'.last.block = stream.last.block + 1]_vars

(***************************************************************************)
(* Nothing waits for ever: once callers stop asking, every request has     *)
(* been answered or abandoned, however the session goes on, and the        *)
(* session has started again for every signal it could hear.               *)
(***************************************************************************)
Quiet == signals = 0 /\ \A c \in Callers : req[c].op = "none" \/ req[c].at = "answered"

EverythingSettles == []<>Quiet

(***************************************************************************)
(* What AddAddressAndRollback answers ("Indexer will resync {} blocks from *)
(* slot {}"): when no signal waits and the session has caught up with the  *)
(* node, it has the unspent outputs of the added address from the blocks   *)
(* above that slot.                                                        *)
(***************************************************************************)
RewoundIsIndexed ==
    (At("idle") /\ signals = 0 /\ session.next > node_tip) =>
        \A r \in seen.rewinds :
            {k \in Keys : /\ AddressOf[k] = r.address
                         /\ Creator(k) \in r.slot + 1 .. node_tip
                         /\ ~SpentBy(k, node_tip)} \subseteq db.utxo

=============================================================================

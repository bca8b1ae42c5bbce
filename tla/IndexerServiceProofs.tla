------------------------ MODULE IndexerServiceProofs ------------------------
(***************************************************************************)
(* For any chain, callers and channels: the types of the indexer's state,  *)
(* that stored tips name indexed blocks however rewinds and blocks         *)
(* interleave, that a FollowTip stream misses no update, that the session  *)
(* leaves exactly the unspent outputs of the wallets in the trees, that    *)
(* ReadUtxos and SearchUtxos, which read those trees one call at a time    *)
(* while blocks are processed and replayed, return what stood all the      *)
(* time, and that ReadUtxoEvents returns every event once.                 *)
(***************************************************************************)
EXTENDS IndexerService, SequenceTheorems, FiniteSetTheorems, TLAPS

-----------------------------------------------------------------------------
(* Types.  Fields that no property here depends on may hold anything: a    *)
(* record is then only said to have its fields.                            *)

HasFields(r, S) == r = [f \in S |-> r[f]]

N == Len(Body)

DbType ==
    /\ HasFields(db, {"utxo", "index", "policy_txs", "known", "events", "chain_tip", "wallet_tip"})
    /\ db.utxo \subseteq Keys /\ db.index \subseteq Keys /\ db.known \subseteq Blocks
    /\ db.chain_tip \in Tip /\ db.wallet_tip \in [Wallets -> Tip]

BeforeLoop == {"resume", "connect", "filter", "subscribe", "connected"}

InItem == {"spend", "index"}

InBlock == {"body", "spend", "index", "events", "tips", "broadcast"}

Phases == BeforeLoop \cup {"idle", "untips"} \cup InBlock

Addresses == WalletAddresses \cup NewAddresses

Session ==
    [at : Phases, base : 0 .. N, next : 1 .. N + 1, filter : SUBSET Addresses,
     current_slot : Nat, epoch : Nat, boundary : BOOLEAN, pos : Nat, made : Seq(Keys),
     spent : Seq(Keys), event_index : Nat]

SessionType ==
    /\ session \in Session
    /\ session.at \in InBlock => session.next \in Blocks
    /\ session.at \in InItem => session.pos \in 1 .. Len(Items)
    /\ session.at \in {"body", "events", "untips"} => session.pos >= 1
    /\ session.at = "tips" => session.pos <= WalletCount

RequestType(r) ==
    \/ r = NoRequest
    \/ /\ HasFields(r, {"op", "asked", "at", "todo", "keys", "num", "got", "since"})
       /\ r.op \in Operations
       /\ r.num \in Nat
       /\ r.at = "add" => r.asked.address \in NewAddresses
       /\ r.at \in {"add", "walk", "rewind", "wallets", "signal"} => r.op = "AddAddressAndRollback"

RequestsType ==
    /\ req = [c \in Callers |-> req[c]]
    /\ \A c \in Callers : RequestType(req[c])

Update == [block : Blocks, number : Nat]

Stream ==
    [at : {"off", "on", "ended"}, sent : Nat, unread : Seq(Update),
     lagged : BOOLEAN, out : Seq(Update), last : Update \cup {NoUpdate}]

StreamType ==
    /\ stream \in Stream
    /\ Len(stream.unread) <= Capacity /\ Len(stream.out) <= Room

SeenType ==
    /\ HasFields(seen, {"begun", "done", "rewound", "rewinds"})
    /\ seen.rewound \in Nat

TypeInv ==
    /\ node_tip \in Blocks
    /\ DbType
    /\ tracked \subseteq NewAddresses
    /\ signals \in Nat
    /\ SessionType
    /\ RequestsType
    /\ StreamType
    /\ SeenType

LEMMA TypeInvTypes == TypeInv => TypeOK
BY DEF TypeInv, TypeOK, DbType, SessionType, Session, StreamType, Stream, N

LEMMA BlockNumbers == N \in Nat /\ N >= 2 /\ Blocks = 1 .. N
BY IndexerConstants DEF Blocks, N

LEMMA ItemFacts ==
    ASSUME session.next \in Blocks
    PROVE  /\ Len(Items) \in Nat
           /\ \A i \in 1 .. Len(Items) : Items[i][2] \in Keys
<1>1. Body \in Seq(Seq({"in", "out"} \X Keys))
  BY IndexerConstants
<1>2. Items \in Seq({"in", "out"} \X Keys)
  BY <1>1 DEF Items, Blocks
<1>3. QED
  BY <1>2

LEMMA TipFacts ==
    /\ NoTip \in Tip
    /\ \A b \in 0 .. N : TipOf(b) \in Tip /\ [slot |-> b, hashed |-> FALSE] \in Tip
BY BlockNumbers DEF NoTip, Tip, TipOf, N

LEMMA InitType == Init => TypeInv
<1> SUFFICES ASSUME Init PROVE TypeInv
  OBVIOUS
<1>1. DbType
  BY TipFacts DEF Init, DbType, HasFields
<1>2. SessionType
  BY BlockNumbers
  DEF Init, SessionType, Session, NewSession, Phases, BeforeLoop, InBlock, InItem
<1>3. RequestsType
  BY DEF Init, RequestsType, RequestType
<1>4. StreamType
  BY IndexerConstants DEF Init, StreamType, Stream, NoStream
<1>5. SeenType
  BY DEF Init, SeenType, HasFields
<1>6. QED
  BY <1>1, <1>2, <1>3, <1>4, <1>5, BlockNumbers DEF Init, TypeInv

LEMMA IntersectionFacts ==
    ASSUME DbType, NEW b \in Intersections PROVE b \in 0 .. N
BY BlockNumbers DEF DbType, Intersections, Tip, N

-----------------------------------------------------------------------------
(* The session's steps keep the types.                                     *)

LEMMA PhaseFacts ==
    Phases = {"resume", "connect", "filter", "subscribe", "connected", "idle", "untips",
              "body", "spend", "index", "events", "tips", "broadcast"}
BY DEF Phases, BeforeLoop, InBlock

LEMMA EpochFacts == ASSUME NEW slot \in Nat PROVE SlotToEpoch(slot) \in Nat
<1>1. EpochLength \in Nat \ {0}
  BY IndexerConstants
<1>2. QED
  BY <1>1 DEF SlotToEpoch

LEMMA StartType ==
    ASSUME TypeInv, Resume \/ Connect \/ BuildFilter \/ SubscribeRestart \/ Restart
    PROVE  SessionType' /\ signals' \in Nat
<1>1. /\ SessionType /\ DbType /\ tracked \subseteq NewAddresses /\ signals \in Nat
      /\ session \in Session
  BY DEF TypeInv, SessionType
<1>2. CASE Resume
  <2>1. PICK b \in Intersections :
              session' = [session EXCEPT !.at = "connect", !.base = b, !.next = b + 1]
    BY <1>2 DEF Resume
  <2>2. b \in 0 .. N
    BY <1>1, IntersectionFacts
  <2>3. session' \in Session
    <3>1. b + 1 \in 1 .. N + 1
      BY <2>2, BlockNumbers
    <3>2. QED
      BY <1>1, <2>1, <2>2, <3>1 DEF Session, Phases, BeforeLoop
  <2>4. session'.at = "connect" /\ signals' = signals
    BY <1>1, <1>2, <2>1 DEF Resume, Session
  <2>5. QED
    BY <1>1, <2>3, <2>4 DEF SessionType, InBlock, InItem
<1>3. CASE Connect
  <2>1. db.chain_tip.slot \in Nat
    BY <1>1 DEF DbType, Tip
  <2>2. session' \in Session
    BY <1>1, <1>3, <2>1, EpochFacts DEF Connect, Session, Phases, BeforeLoop
  <2>3. session'.at = "filter" /\ signals' = signals
    BY <1>1, <1>3 DEF Connect, Session
  <2>4. QED
    BY <1>1, <2>2, <2>3 DEF SessionType, InBlock, InItem
<1>4. CASE BuildFilter
  <2>1. session' \in Session
    BY <1>1, <1>4 DEF BuildFilter, Session, Phases, BeforeLoop, Addresses
  <2>2. session'.at = "subscribe" /\ signals' = signals
    BY <1>1, <1>4 DEF BuildFilter, Session
  <2>3. QED
    BY <1>1, <2>1, <2>2 DEF SessionType, InBlock, InItem
<1>5. CASE SubscribeRestart
  <2>1. session' \in Session
    BY <1>1, <1>5 DEF SubscribeRestart, Session, Phases, BeforeLoop
  <2>2. session'.at = "connected" /\ signals' = signals
    BY <1>1, <1>5 DEF SubscribeRestart, Session
  <2>3. QED
    BY <1>1, <2>1, <2>2 DEF SessionType, InBlock, InItem
<1>6. CASE Restart
  <2>1. session' \in Session /\ session'.at = "resume"
    BY <1>6, BlockNumbers DEF Restart, NewSession, Session, Phases, BeforeLoop
  <2>2. signals' = 0
    BY <1>6 DEF Restart, Dropped
  <2>3. QED
    BY <1>1, <2>1, <2>2 DEF SessionType, InBlock, InItem
<1>7. QED
  BY <1>2, <1>3, <1>4, <1>5, <1>6

LEMMA RewindWalletStep ==
    ASSUME DbType, NEW w \in Wallets, NEW t \in Tip, db' = [db EXCEPT !.wallet_tip[w] = t]
    PROVE  DbType' /\ db'.chain_tip = db.chain_tip /\ db'.known = db.known
           /\ db'.wallet_tip = [db.wallet_tip EXCEPT ![w] = t]
BY DEF DbType, HasFields

LEMMA ChainTipStep ==
    ASSUME DbType, NEW t \in Tip, db' = [db EXCEPT !.chain_tip = t]
    PROVE  DbType' /\ db'.chain_tip = t /\ db'.known = db.known
           /\ db'.wallet_tip = db.wallet_tip
BY DEF DbType, HasFields

LEMMA RollBackwardType ==
    ASSUME TypeInv, RollBackward \/ RewindWallet
    PROVE  SessionType' /\ DbType'
<1>1. SessionType /\ DbType /\ session \in Session
  BY DEF TypeInv, SessionType
<1>2. /\ session.base \in 0 .. N /\ session.base \in Nat
      /\ [slot |-> session.base, hashed |-> FALSE] \in Tip
  BY <1>1, TipFacts, BlockNumbers DEF Session
<1>3. CASE RollBackward
  <2>1. \/ session' = [session EXCEPT !.at = "untips", !.pos = 1]
        \/ session' = [session EXCEPT !.at = "idle"]
    BY <1>3 DEF RollBackward
  <2>2. /\ session' \in Session
        /\ session'.at \in {"idle", "untips"} /\ (session'.at = "untips" => session'.pos = 1)
    <3>1. {"idle", "untips"} \subseteq Phases
      BY PhaseFacts
    <3>2. CASE session' = [session EXCEPT !.at = "untips", !.pos = 1]
      BY <1>1, <3>1, <3>2 DEF Session
    <3>3. CASE session' = [session EXCEPT !.at = "idle"]
      BY <1>1, <3>1, <3>3 DEF Session
    <3>4. QED
      BY <2>1, <3>2, <3>3
  <2>3. DbType'
    <3>1. CASE UNCHANGED db
      BY <1>1, <3>1 DEF DbType
    <3>2. CASE db' = [db EXCEPT !.chain_tip = [slot |-> session.base, hashed |-> FALSE]]
      BY <1>1, <1>2, <3>2, ChainTipStep
    <3>3. QED
      BY <1>3, <3>1, <3>2 DEF RollBackward
  <2>4. QED
    BY <2>2, <2>3 DEF SessionType, InBlock, InItem
<1>4. CASE RewindWallet
  <2>1. session.pos >= 1 /\ session.pos \in Nat /\ WalletCount \in Nat
    BY <1>1, <1>4, IndexerConstants DEF RewindWallet, At, SessionType, Session
  <2>2. \/ session' = [session EXCEPT !.pos = @ + 1]
        \/ session' = [session EXCEPT !.at = "idle", !.current_slot = session.base]
    BY <1>4 DEF RewindWallet
  <2>3. /\ session' \in Session
        /\ \/ session'.at = "idle"
           \/ session'.at = "untips" /\ session'.pos >= 1
    <3>1. session.at = "untips" /\ {"idle", "untips"} \subseteq Phases
      BY <1>4, PhaseFacts DEF RewindWallet, At
    <3>2. CASE session' = [session EXCEPT !.pos = @ + 1]
      <4>1. session.pos + 1 \in Nat /\ session.pos + 1 >= 1
        BY <2>1
      <4>2. QED
        BY <1>1, <3>1, <3>2, <4>1 DEF Session
    <3>3. CASE session' = [session EXCEPT !.at = "idle", !.current_slot = session.base]
      BY <1>1, <1>2, <3>1, <3>3 DEF Session
    <3>4. QED
      BY <2>2, <3>2, <3>3
  <2>4. DbType'
    <3>1. CASE UNCHANGED db
      BY <1>1, <3>1 DEF DbType
    <3>2. CASE /\ session.pos <= WalletCount
               /\ db' = [db EXCEPT !.wallet_tip[session.pos] =
                                       [slot |-> session.base, hashed |-> FALSE]]
      <4>1. session.pos \in Wallets
        BY <2>1, <3>2 DEF Wallets
      <4>2. QED
        BY <1>1, <1>2, <3>2, <4>1, RewindWalletStep
    <3>3. QED
      BY <1>4, <3>1, <3>2 DEF RewindWallet
  <2>5. QED
    BY <2>3, <2>4 DEF SessionType, InBlock, InItem
<1>5. QED
  BY <1>3, <1>4

LEMMA BeginBlockType ==
    ASSUME TypeInv, BeginBlock
    PROVE  SessionType' /\ SeenType'
<1>1. /\ SessionType /\ session \in Session /\ session.at = "idle"
      /\ node_tip \in 1 .. N /\ session.next <= node_tip /\ N \in Nat
  BY BlockNumbers DEF TypeInv, SessionType, BeginBlock, At
<1>2. session.next \in 1 .. N /\ session.next \in Nat
  BY <1>1 DEF Session
<1>3. SlotToEpoch(session.next) \in Nat
  BY <1>2, EpochFacts
<1>4. SeenType'
  BY DEF BeginBlock, TypeInv, SeenType, HasFields
<1>5. CASE session' = [session EXCEPT !.next = @ + 1]
  <2>1. session' \in Session /\ session'.at = "idle"
    <3>1. session.next + 1 \in 1 .. N + 1
      BY <1>1, <1>2
    <3>2. QED
      BY <1>1, <1>5, <3>1 DEF Session, Phases
  <2>2. QED
    BY <1>4, <2>1 DEF SessionType, InBlock, InItem
<1>6. CASE session' = [session EXCEPT
                           !.at = "body", !.pos = 1, !.made = <<>>, !.spent = <<>>,
                           !.event_index = 1,
                           !.boundary = SlotToEpoch(session.next) > session.epoch,
                           !.epoch = IF SlotToEpoch(session.next) > @
                                     THEN SlotToEpoch(session.next) ELSE @]
  <2>1. /\ session' \in Session /\ session'.at = "body" /\ session'.pos = 1
        /\ session'.next = session.next
    <3>1. /\ (SlotToEpoch(session.next) > session.epoch) \in BOOLEAN
          /\ (IF SlotToEpoch(session.next) > session.epoch
              THEN SlotToEpoch(session.next) ELSE session.epoch) \in Nat
      BY <1>1, <1>3 DEF Session
    <3>2. <<>> \in Seq(Keys) /\ "body" \in Phases
      BY DEF Phases, InBlock
    <3>3. QED
      BY <1>1, <1>6, <3>1, <3>2 DEF Session
  <2>2. QED
    BY <1>2, <1>4, <2>1, BlockNumbers DEF SessionType, InBlock, InItem
<1>7. QED
  BY <1>5, <1>6 DEF BeginBlock

LEMMA UtxoStep ==
    ASSUME DbType, NEW S, S \subseteq Keys,
           db' = [db EXCEPT !.utxo = S] \/ db' = [db EXCEPT !.index = S]
    PROVE  DbType' /\ db'.chain_tip = db.chain_tip /\ db'.known = db.known
           /\ db'.wallet_tip = db.wallet_tip
BY DEF DbType, HasFields

\* What every step inside a block has to go on.
LEMMA BlockFacts ==
    ASSUME TypeInv, session.at \in InBlock
    PROVE  /\ session \in Session /\ DbType /\ session.next \in Blocks /\ session.pos \in Nat
           /\ Len(Items) \in Nat /\ \A i \in 1 .. Len(Items) : Items[i][2] \in Keys
           /\ session.pos + 1 \in Nat /\ session.pos + 1 >= 1
<1>1. session \in Session /\ DbType /\ session.next \in Blocks
  BY DEF TypeInv, SessionType
<1>2. session.pos \in Nat
  BY <1>1 DEF Session
<1>3. session.pos + 1 \in Nat /\ session.pos + 1 >= 1
  BY <1>2
<1>4. QED
  BY <1>1, <1>2, <1>3, ItemFacts

\* A step that stays in its block, at a place that has what it needs.
LEMMA StayInBlock ==
    ASSUME session.next \in Blocks, session' \in Session, session'.next = session.next,
           \/ session'.at \in {"body", "events"} /\ session'.pos >= 1
           \/ session'.at \in InItem /\ session'.pos \in 1 .. Len(Items)
           \/ session'.at = "tips" /\ session'.pos <= WalletCount
           \/ session'.at = "broadcast"
    PROVE  SessionType'
BY DEF SessionType, InItem, InBlock, Items

LEMMA InputType ==
    ASSUME TypeInv, ProcessInput \/ DeleteUtxo
    PROVE  SessionType' /\ DbType'
<1>1. session.at \in {"body", "spend"}
  BY DEF ProcessInput, DeleteUtxo, At
<1>2. /\ session \in Session /\ DbType /\ session.next \in Blocks /\ session.pos \in Nat
      /\ \A i \in 1 .. Len(Items) : Items[i][2] \in Keys
      /\ session.pos + 1 \in Nat /\ session.pos + 1 >= 1
      /\ Len(Items) \in Nat /\ {"body", "spend"} \subseteq Phases
  BY <1>1, BlockFacts, PhaseFacts DEF InBlock
<1>3. session.pos \in 1 .. Len(Items)
  BY <1>1, <1>2 DEF ProcessInput, DeleteUtxo, At, TypeInv, SessionType, InItem
<1>4. Items[session.pos][2] \in Keys
  BY <1>2, <1>3
<1>5. db.utxo \subseteq Keys /\ db.index \subseteq Keys
  BY <1>2 DEF DbType
<1>6. DbType'
  <2>1. \/ UNCHANGED db
        \/ db' = [db EXCEPT !.index = Unindex(Items[session.pos][2])]
        \/ db' = [db EXCEPT !.utxo = db.utxo \ {Items[session.pos][2]}]
    BY DEF ProcessInput, DeleteUtxo
  <2>2. Unindex(Items[session.pos][2]) \subseteq Keys
    BY <1>5 DEF Unindex
  <2>3. db.utxo \ {Items[session.pos][2]} \subseteq Keys
    BY <1>5
  <2>4. CASE UNCHANGED db
    BY <1>2, <2>4 DEF DbType
  <2>5. QED
    BY <1>2, <2>1, <2>2, <2>3, <2>4, UtxoStep
<1>7. CASE session' = [session EXCEPT !.at = "spend"]
  <2>1. session' \in Session /\ session'.next = session.next
        /\ session'.at = "spend" /\ session'.pos = session.pos
    BY <1>2, <1>7 DEF Session
  <2>2. QED
    BY <1>2, <1>3, <1>6, <2>1, StayInBlock DEF InItem
<1>8. CASE session' = [session EXCEPT !.pos = @ + 1] /\ session.at = "body"
  <2>1. session' \in Session /\ session'.next = session.next
        /\ session'.at = "body" /\ session'.pos >= 1
    BY <1>2, <1>8 DEF Session
  <2>2. QED
    BY <1>2, <1>6, <2>1, StayInBlock
<1>9. CASE session' = [session EXCEPT !.at = "body", !.pos = @ + 1,
                                      !.spent = Append(@, Items[session.pos][2])]
  <2>1. Append(session.spent, Items[session.pos][2]) \in Seq(Keys)
    BY <1>2, <1>4 DEF Session
  <2>2. session' \in Session /\ session'.next = session.next
        /\ session'.at = "body" /\ session'.pos >= 1
    BY <1>2, <1>9, <2>1 DEF Session
  <2>3. QED
    BY <1>2, <1>6, <2>2, StayInBlock
<1>10. QED
  BY <1>7, <1>8, <1>9 DEF ProcessInput, DeleteUtxo, At

LEMMA OutputType ==
    ASSUME TypeInv, ProcessOutput \/ IndexUtxo
    PROVE  SessionType' /\ DbType'
<1>1. session.at \in {"body", "index"}
  BY DEF ProcessOutput, IndexUtxo, At
<1>2. /\ session \in Session /\ DbType /\ session.next \in Blocks /\ session.pos \in Nat
      /\ \A i \in 1 .. Len(Items) : Items[i][2] \in Keys
      /\ session.pos + 1 \in Nat /\ session.pos + 1 >= 1
      /\ Len(Items) \in Nat /\ {"body", "index"} \subseteq Phases
  BY <1>1, BlockFacts, PhaseFacts DEF InBlock
<1>3. session.pos \in 1 .. Len(Items)
  BY <1>1, <1>2 DEF ProcessOutput, IndexUtxo, At, TypeInv, SessionType, InItem
<1>4. Items[session.pos][2] \in Keys
  BY <1>2, <1>3
<1>5. db.utxo \subseteq Keys /\ db.index \subseteq Keys
  BY <1>2 DEF DbType
<1>6. DbType'
  <2>1. \/ UNCHANGED db
        \/ db' = [db EXCEPT !.utxo = db.utxo \cup {Items[session.pos][2]}]
        \/ db' = [db EXCEPT !.index = Index(Items[session.pos][2])]
    BY DEF ProcessOutput, IndexUtxo
  <2>2. Index(Items[session.pos][2]) \subseteq Keys
        /\ db.utxo \cup {Items[session.pos][2]} \subseteq Keys
    BY <1>4, <1>5 DEF Index
  <2>3. QED
    BY <1>2, <1>5, <2>1, <2>2, UtxoStep DEF DbType
<1>7. CASE session' = [session EXCEPT !.at = "index"]
  <2>1. session' \in Session /\ session'.next = session.next
        /\ session'.at = "index" /\ session'.pos = session.pos
    BY <1>2, <1>7 DEF Session
  <2>2. QED
    BY <1>2, <1>3, <1>6, <2>1, StayInBlock DEF InItem
<1>8. CASE session' = [session EXCEPT !.pos = @ + 1] /\ session.at = "body"
  <2>1. session' \in Session /\ session'.next = session.next
        /\ session'.at = "body" /\ session'.pos >= 1
    BY <1>2, <1>8 DEF Session
  <2>2. QED
    BY <1>2, <1>6, <2>1, StayInBlock
<1>9. CASE session' = [session EXCEPT !.at = "body", !.pos = @ + 1,
                                      !.made = Append(@, Items[session.pos][2])]
  <2>1. Append(session.made, Items[session.pos][2]) \in Seq(Keys)
    BY <1>2, <1>4 DEF Session
  <2>2. session' \in Session /\ session'.next = session.next
        /\ session'.at = "body" /\ session'.pos >= 1
    BY <1>2, <1>9, <2>1 DEF Session
  <2>3. QED
    BY <1>2, <1>6, <2>2, StayInBlock
<1>10. QED
  BY <1>7, <1>8, <1>9 DEF ProcessOutput, IndexUtxo, At

LEMMA OtherTreeStep ==
    ASSUME DbType, NEW b, NEW x,
           db' = [db EXCEPT !.policy_txs = x] \/ db' = [db EXCEPT !.events[b] = x]
    PROVE  DbType' /\ db'.chain_tip = db.chain_tip /\ db'.known = db.known
           /\ db'.wallet_tip = db.wallet_tip
BY DEF DbType, HasFields

LEMMA KnownStep ==
    ASSUME DbType, NEW K, K \subseteq Blocks, db' = [db EXCEPT !.known = K]
    PROVE  DbType' /\ db'.chain_tip = db.chain_tip /\ db'.known = K
           /\ db'.wallet_tip = db.wallet_tip
BY DEF DbType, HasFields

LEMMA EventType ==
    ASSUME TypeInv, TrackTokens \/ WriteEvent
    PROVE  SessionType' /\ DbType'
<1>1. session.at \in {"body", "events"}
  BY DEF TrackTokens, WriteEvent, At
<1>2. /\ session \in Session /\ DbType /\ session.next \in Blocks
      /\ session.pos + 1 \in Nat /\ session.pos + 1 >= 1
      /\ "events" \in Phases
  BY <1>1, BlockFacts, PhaseFacts DEF InBlock
<1>3. CASE TrackTokens
  <2>1. DbType'
    BY <1>2, <1>3, OtherTreeStep DEF TrackTokens
  <2>2. session' \in Session /\ session'.next = session.next
        /\ session'.at = "events" /\ session'.pos >= 1
    <3>1. session' = [session EXCEPT !.at = "events", !.pos = 1]
      BY <1>3 DEF TrackTokens
    <3>2. session' \in Session
      BY <1>2, <3>1 DEF Session
    <3>3. session'.at = "events" /\ session'.next = session.next /\ session'.pos = 1
      BY <1>2, <3>1 DEF Session
    <3>4. QED
      BY <3>2, <3>3
  <2>3. QED
    BY <1>2, <2>1, <2>2, StayInBlock
<1>4. CASE WriteEvent
  <2>1. PICK e : UNCHANGED db \/ db' = [db EXCEPT !.events[session.next] =
                                            Written(db.events[session.next], session.event_index, e)]
    BY <1>4 DEF WriteEvent
  <2>2. DbType'
    <3>1. CASE UNCHANGED db
      BY <1>2, <3>1 DEF DbType
    <3>2. QED
      BY <1>2, <2>1, <3>1, OtherTreeStep
  <2>3. session.event_index + 1 \in Nat /\ session.at = "events"
    BY <1>2, <1>4 DEF Session, WriteEvent, At
  <2>4. \/ session' = [session EXCEPT !.pos = @ + 1, !.event_index = @ + 1]
        \/ session' = [session EXCEPT !.pos = @ + 1]
    BY <1>4 DEF WriteEvent
  <2>5. session' \in Session /\ session'.next = session.next
        /\ session'.at = "events" /\ session'.pos >= 1
    BY <1>2, <2>3, <2>4 DEF Session
  <2>6. QED
    BY <1>2, <2>2, <2>5, StayInBlock
<1>5. QED
  BY <1>3, <1>4

LEMMA MetadataType ==
    ASSUME TypeInv, StoreMetadata
    PROVE  SessionType' /\ DbType' /\ db'.known = db.known \cup {session.next}
<1>1. session.at = "events"
  BY DEF StoreMetadata, At
<1>2. /\ session \in Session /\ DbType /\ session.next \in Blocks /\ session.next \in Nat
      /\ {"tips", "broadcast"} \subseteq Phases /\ WalletCount \in Nat
  BY <1>1, BlockFacts, PhaseFacts, BlockNumbers, IndexerConstants DEF InBlock
<1>3. DbType' /\ db'.known = db.known \cup {session.next}
  <2>1. db.known \cup {session.next} \subseteq Blocks
    BY <1>2 DEF DbType
  <2>2. db' = [db EXCEPT !.known = db.known \cup {session.next}]
    BY DEF StoreMetadata, Known
  <2>3. QED
    BY <1>2, <2>1, <2>2, KnownStep
<1>4. PICK at \in {"tips", "broadcast"} :
            session' = [session EXCEPT !.current_slot = session.next, !.pos = 0, !.at = at]
  BY DEF StoreMetadata
<1>5. session' \in Session /\ session'.next = session.next /\ session'.at = at /\ session'.pos = 0
  BY <1>2, <1>4 DEF Session
<1>6. QED
  BY <1>2, <1>3, <1>5, StayInBlock

LEMMA SaveTipsType ==
    ASSUME TypeInv, SaveTips
    PROVE  SessionType' /\ DbType'
<1>1. session.at = "tips" /\ session.pos <= WalletCount
  BY DEF SaveTips, At, TypeInv, SessionType
<1>2. /\ session \in Session /\ DbType /\ session.next \in Blocks /\ session.pos \in Nat
      /\ session.pos + 1 \in Nat
      /\ {"tips", "broadcast"} \subseteq Phases /\ WalletCount \in Nat
  BY <1>1, BlockFacts, PhaseFacts, IndexerConstants DEF InBlock
<1>3. TipOf(session.next) \in Tip
  <2>1. session.next \in 0 .. N
    BY <1>2, BlockNumbers
  <2>2. QED
    BY <2>1, TipFacts
<1>4. DbType'
  <2>1. CASE session.pos = 0
    <3>1. db' = [db EXCEPT !.chain_tip = TipOf(session.next)]
      BY <2>1 DEF SaveTips
    <3>2. QED
      BY <1>2, <1>3, <3>1, ChainTipStep
  <2>2. CASE session.pos # 0
    <3>1. session.pos \in Wallets
      BY <1>1, <1>2, <2>2 DEF Wallets
    <3>2. db' = [db EXCEPT !.wallet_tip[session.pos] = TipOf(session.next)]
      BY <2>2 DEF SaveTips
    <3>3. QED
      BY <1>2, <1>3, <3>1, <3>2, RewindWalletStep
  <2>3. QED
    BY <2>1, <2>2
<1>5. CASE session.pos = WalletCount
  <2>1. session' = [session EXCEPT !.pos = @ + 1, !.at = "broadcast"]
    BY <1>5 DEF SaveTips
  <2>2. session' \in Session /\ session'.next = session.next /\ session'.at = "broadcast"
    BY <1>2, <2>1 DEF Session
  <2>3. QED
    BY <1>2, <1>4, <2>2, StayInBlock
<1>6. CASE session.pos # WalletCount
  <2>1. session' = [session EXCEPT !.pos = @ + 1, !.at = session.at]
    BY <1>6 DEF SaveTips
  <2>2. session.pos + 1 <= WalletCount
    BY <1>1, <1>2, <1>6
  <2>3. session' \in Session /\ session'.next = session.next /\ session'.at = "tips"
        /\ session'.pos <= WalletCount
    BY <1>1, <1>2, <2>1, <2>2 DEF Session
  <2>4. QED
    BY <1>2, <1>4, <2>3, StayInBlock
<1>7. QED
  BY <1>5, <1>6

LEMMA BroadcastType ==
    ASSUME TypeInv, BroadcastBlock
    PROVE  SessionType' /\ StreamType' /\ SeenType'
<1>1. session.at = "broadcast"
  BY DEF BroadcastBlock, At
<1>2. /\ session \in Session /\ session.next \in Blocks
      /\ "idle" \in Phases /\ N \in Nat /\ Blocks = 1 .. N
  BY <1>1, BlockFacts, PhaseFacts, BlockNumbers DEF InBlock
<1>3. SessionType'
  <2>1. session.next + 1 \in 1 .. N + 1 /\ <<>> \in Seq(Keys)
    BY <1>2
  <2>2. session' = [session EXCEPT !.at = "idle", !.next = @ + 1, !.pos = 1, !.made = <<>>,
                                   !.spent = <<>>, !.event_index = 1, !.boundary = FALSE]
    BY DEF BroadcastBlock
  <2>3. session' \in Session /\ session'.at = "idle"
    BY <1>2, <2>1, <2>2 DEF Session
  <2>4. QED
    BY <2>3 DEF SessionType, InBlock, InItem
<1>4. SeenType'
  BY DEF BroadcastBlock, TypeInv, SeenType, HasFields
<1>5. StreamType'
  <2>1. StreamType /\ Capacity \in Nat \ {0}
    BY IndexerConstants DEF TypeInv
  <2>2. stream.sent + 1 \in Nat /\ stream.unread \in Seq(Update)
    BY <2>1 DEF StreamType, Stream
  <2>3. DEFINE u == [block |-> session.next, number |-> stream.sent + 1]
  <2>4. u \in Update
    BY <1>2, <2>2 DEF Update
  <2>5. CASE stream.at # "on"
    BY <2>1, <2>5 DEF StreamType, Stream, BroadcastBlock, Sent
  <2>6. CASE stream.at = "on" /\ Len(stream.unread) < Capacity
    <3>1. stream' = [stream EXCEPT !.sent = @ + 1, !.unread = Append(@, u)]
      BY <2>6 DEF BroadcastBlock, Sent
    <3>2. Append(stream.unread, u) \in Seq(Update) /\ Len(Append(stream.unread, u)) <= Capacity
      BY <2>1, <2>2, <2>4, <2>6
    <3>3. QED
      BY <2>1, <2>2, <3>1, <3>2 DEF StreamType, Stream
  <2>7. CASE stream.at = "on" /\ ~(Len(stream.unread) < Capacity)
    <3>1. stream' = [stream EXCEPT !.sent = @ + 1, !.unread = Append(Tail(@), u), !.lagged = TRUE]
      BY <2>7 DEF BroadcastBlock, Sent
    <3>2. stream.unread # <<>> /\ Len(stream.unread) = Capacity
      BY <2>1, <2>2, <2>7 DEF StreamType, Stream
    <3>3. Tail(stream.unread) \in Seq(Update) /\ Len(Tail(stream.unread)) = Capacity - 1
      BY <2>2, <3>2
    <3>4. Append(Tail(stream.unread), u) \in Seq(Update)
          /\ Len(Append(Tail(stream.unread), u)) <= Capacity
      BY <2>1, <2>4, <3>3
    <3>5. QED
      BY <2>1, <2>2, <3>1, <3>4 DEF StreamType, Stream
  <2>8. QED
    BY <2>5, <2>6, <2>7
<1>6. QED
  BY <1>3, <1>4, <1>5

-----------------------------------------------------------------------------
(* Streams and requests keep the types.                                    *)

LEMMA FollowTipType ==
    ASSUME TypeInv, NEW c \in Callers, FollowTip(c) \/ CloseStream
    PROVE  StreamType'
<1>1. NoStream \in Stream /\ NoStream.unread = <<>> /\ NoStream.out = <<>>
  BY DEF NoStream, Stream
<1>2. stream' = NoStream \/ stream' = [NoStream EXCEPT !.at = "on"]
  BY DEF FollowTip, CloseStream
<1>3. stream' \in Stream /\ stream'.unread = <<>> /\ stream'.out = <<>>
  BY <1>1, <1>2 DEF Stream
<1>4. QED
  BY <1>3, IndexerConstants DEF StreamType

LEMMA ForwardType ==
    ASSUME TypeInv, Forward \/ Deliver
    PROVE  StreamType'
<1>1. StreamType /\ stream.unread \in Seq(Update) /\ stream.out \in Seq(Update)
      /\ Capacity \in Nat /\ Room \in Nat
  BY IndexerConstants DEF TypeInv, StreamType, Stream
<1>2. CASE Forward /\ stream.lagged
  <2>1. stream' = [stream EXCEPT !.at = "ended", !.unread = <<>>, !.lagged = FALSE]
    BY <1>2 DEF Forward, End
  <2>2. stream' \in Stream /\ stream'.unread = <<>> /\ stream'.out = stream.out
    <3>1. <<>> \in Seq(Update) /\ stream \in Stream
      BY <1>1 DEF StreamType
    <3>2. QED
      BY <2>1, <3>1 DEF Stream
  <2>3. QED
    BY <1>1, <2>2 DEF StreamType
<1>3. CASE Forward /\ ~stream.lagged
  <2>1. /\ stream.unread # <<>> /\ Len(stream.out) < Room
        /\ stream' = [stream EXCEPT !.unread = Tail(@), !.out = Append(@, Head(stream.unread))]
    BY <1>3 DEF Forward
  <2>2. /\ Tail(stream.unread) \in Seq(Update) /\ Head(stream.unread) \in Update
        /\ Len(Tail(stream.unread)) = Len(stream.unread) - 1 /\ Len(stream.unread) \in Nat
    BY <1>1, <2>1
  <2>3. Append(stream.out, Head(stream.unread)) \in Seq(Update)
        /\ Len(Append(stream.out, Head(stream.unread))) = Len(stream.out) + 1
        /\ Len(stream.out) \in Nat
    BY <1>1, <2>2
  <2>4. QED
    <3>1. /\ stream' \in Stream /\ stream'.unread = Tail(stream.unread)
          /\ stream'.out = Append(stream.out, Head(stream.unread))
      BY <1>1, <2>1, <2>2, <2>3 DEF StreamType, Stream
    <3>2. QED
      BY <1>1, <2>1, <2>2, <2>3, <3>1 DEF StreamType
<1>4. CASE Deliver
  <2>1. /\ stream.out # <<>>
        /\ stream' = [stream EXCEPT !.out = Tail(@), !.last = Head(stream.out)]
    BY <1>4 DEF Deliver
  <2>2. /\ Tail(stream.out) \in Seq(Update) /\ Head(stream.out) \in Update
        /\ Len(Tail(stream.out)) = Len(stream.out) - 1 /\ Len(stream.out) \in Nat
    BY <1>1, <2>1
  <2>3. QED
    <3>1. stream' \in Stream /\ stream'.unread = stream.unread /\ stream'.out = Tail(stream.out)
      BY <1>1, <2>1, <2>2 DEF StreamType, Stream
    <3>2. QED
      BY <1>1, <2>2, <3>1 DEF StreamType
<1>5. QED
  BY <1>2, <1>3, <1>4

RequestFields == {"op", "asked", "at", "todo", "keys", "num", "got", "since"}

Rewinding == {"add", "walk", "rewind", "wallets", "signal"}

LEMMA RequestsStep ==
    ASSUME TypeInv, NEW c \in Callers, NEW r, RequestType(r), req' = [req EXCEPT ![c] = r]
    PROVE  RequestsType' /\ req'[c] = r /\ \A d \in Callers \ {c} : req'[d] = req[d]
BY DEF TypeInv, RequestsType

LEMMA AskedFacts ==
    ASSUME TypeInv, NEW c \in Callers, NEW step, Doing(c, step)
    PROVE  /\ RequestType(req[c]) /\ HasFields(req[c], RequestFields) /\ req[c].at = step
           /\ req[c].op \in Operations /\ req[c].num \in Nat
           /\ req[c].num + 1 \in Nat
           /\ step = "add" => req[c].asked.address \in NewAddresses
           /\ step \in Rewinding => req[c].op = "AddAddressAndRollback"
<1>1. RequestType(req[c]) /\ req[c] # NoRequest
  BY DEF TypeInv, RequestsType, Doing, NoRequest
<1>2. QED
  BY <1>1 DEF RequestType, Doing, RequestFields, Rewinding

\* r is a request like q at a step that reads, or at its end.
Reading(q, r) ==
    /\ HasFields(r, RequestFields) /\ r.op = q.op
    /\ r.num \in Nat /\ r.at \notin Rewinding

\* What the reading steps do to a request.
LEMMA EditFacts ==
    ASSUME NEW q, HasFields(q, RequestFields), q.num \in Nat, q.num + 1 \in Nat,
           NEW x, NEW y
    PROVE  /\ \A a : a \notin Rewinding =>
                 /\ Reading(q, [q EXCEPT !.at = a])
                 /\ Reading(q, [q EXCEPT !.at = a, !.todo = x])
                 /\ Reading(q, [q EXCEPT !.at = a, !.got = x])
                 /\ Reading(q, [q EXCEPT !.at = a, !.keys = x, !.todo = y])
           /\ q.at \notin Rewinding =>
                 /\ Reading(q, [q EXCEPT !.keys = x, !.got = y])
                 /\ Reading(q, [q EXCEPT !.num = q.num + 1, !.got = x])
                 /\ Reading(q, [q EXCEPT !.num = 1, !.todo = x])
BY DEF Reading, HasFields, RequestFields

LEMMA ReadsType ==
    ASSUME TypeInv, NEW c \in Callers, NEW step, Doing(c, step),
           NEW r, Reads(c, r), Reading(req[c], r)
    PROVE  /\ RequestsType' /\ req'[c].at \notin Rewinding /\ req'[c].op = req[c].op
           /\ \A d \in Callers \ {c} : req'[d] = req[d]
           /\ UNCHANGED <<node_tip, db, tracked, signals, session, stream, seen>>
<1>1. req[c].op \in Operations
  BY AskedFacts
<1>2. RequestType(r)
  BY <1>1 DEF Reading, RequestType, RequestFields, Rewinding
<1>3. RequestsType' /\ req'[c] = r /\ \A d \in Callers \ {c} : req'[d] = req[d]
  BY <1>2, RequestsStep DEF Reads
<1>4. QED
  BY <1>3 DEF Reads, Reading

ReadSteps == {"address", "output", "tip", "policy", "scan", "event", "meta", "parent", "block",
              "answered"}

LEMMA QueryType ==
    ASSUME TypeInv, NEW c \in Callers,
           \/ ReadIndex(c) \/ ReadOutput(c) \/ ReadTip(c) \/ SearchPolicy(c) \/ ScanOutput(c)
           \/ ReadEvent(c) \/ ReadMetadata(c) \/ ReadParent(c) \/ FetchBlock(c)
    PROVE  /\ RequestsType' /\ req'[c].at \notin Rewinding /\ req'[c].op = req[c].op
           /\ \A d \in Callers \ {c} : req'[d] = req[d]
           /\ UNCHANGED <<node_tip, db, tracked, signals, session, stream, seen>>
<1> DEFINE q == req[c]
<1>1. PICK step \in ReadSteps : Doing(c, step)
  BY DEF ReadIndex, ReadOutput, ReadTip, SearchPolicy, ScanOutput, ReadEvent, ReadMetadata,
         ReadParent, FetchBlock, ReadSteps
<1>2. /\ HasFields(q, RequestFields) /\ q.num \in Nat /\ q.num + 1 \in Nat
      /\ q.at \notin Rewinding
      /\ \A a \in ReadSteps : a \notin Rewinding
  BY <1>1, AskedFacts DEF ReadSteps, Rewinding
<1>3. \/ \E a \in ReadSteps : Reads(c, [q EXCEPT !.at = a])
      \/ \E a \in ReadSteps : \E x : Reads(c, [q EXCEPT !.at = a, !.todo = x])
      \/ \E a \in ReadSteps : \E x : Reads(c, [q EXCEPT !.at = a, !.got = x])
      \/ \E a \in ReadSteps : \E x, y : Reads(c, [q EXCEPT !.at = a, !.keys = x, !.todo = y])
      \/ \E x, y : Reads(c, [q EXCEPT !.keys = x, !.got = y])
      \/ \E x : Reads(c, [q EXCEPT !.num = q.num + 1, !.got = x])
      \/ \E x : Reads(c, [q EXCEPT !.num = 1, !.todo = x])
  <2>1. CASE ReadIndex(c)
    BY <2>1 DEF ReadIndex, ReadSteps
  <2>2. CASE ReadOutput(c)
    BY <2>2 DEF ReadOutput, ReadSteps
  <2>3. CASE ReadTip(c)
    BY <2>3 DEF ReadTip, ReadSteps
  <2>4. CASE SearchPolicy(c)
    BY <2>4 DEF SearchPolicy, ReadSteps
  <2>5. CASE ScanOutput(c)
    BY <2>5 DEF ScanOutput, ReadSteps
  <2>6. CASE ReadEvent(c)
    BY <2>6 DEF ReadEvent, ReadSteps
  <2>7. CASE ReadMetadata(c)
    BY <2>7 DEF ReadMetadata, ReadSteps
  <2>8. CASE ReadParent(c)
    BY <2>8 DEF ReadParent, ReadSteps
  <2>9. CASE FetchBlock(c)
    BY <2>9 DEF FetchBlock, ReadSteps
  <2>10. QED
    BY <2>1, <2>2, <2>3, <2>4, <2>5, <2>6, <2>7, <2>8, <2>9
<1>4. \E r : Reads(c, r) /\ Reading(q, r)
  BY <1>2, <1>3, EditFacts
<1>5. QED
  BY <1>1, <1>4, ReadsType

LEMMA RequestStepType ==
    ASSUME TypeInv, NEW c \in Callers, NEW op \in Operations \ {"FollowTip"},
           NEW asked \in Questions(op), Request(c, op, asked)
    PROVE  RequestsType' /\ SeenType' /\ req'[c].at = FirstStep[op]
           /\ \A d \in Callers \ {c} : req'[d] = req[d]
<1> DEFINE r == [op |-> op, asked |-> asked, at |-> FirstStep[op],
                 todo |-> IF op = "ReadUtxos" THEN asked ELSE <<>>,
                 keys |-> <<>>, num |-> 1, got |-> <<>>, since |-> seen.done]
<1>1. op = "AddAddressAndRollback" => asked.address \in NewAddresses
  BY DEF Questions
<1>2. /\ FirstStep[op] \in {"address", "policy", "event", "meta", "tip", "add"}
      /\ FirstStep[op] = "add" => op = "AddAddressAndRollback"
  BY DEF FirstStep, Operations
<1>3. RequestType(r)
  BY <1>1, <1>2 DEF RequestType, HasFields
<1>4. req' = [req EXCEPT ![c] = r]
  BY DEF Request
<1>5. SeenType'
  <2>1. seen.rewound + 1 \in Nat
    BY DEF TypeInv, SeenType
  <2>2. QED
    BY <2>1 DEF Request, TypeInv, SeenType, HasFields
<1>6. r.at = FirstStep[op]
  OBVIOUS
<1> HIDE DEF r
<1>7. QED
  BY <1>3, <1>4, <1>5, <1>6, RequestsStep

LEMMA LeaveType ==
    ASSUME TypeInv, NEW c \in Callers, Leave(c)
    PROVE  RequestsType' /\ req'[c] = NoRequest /\ \A d \in Callers \ {c} : req'[d] = req[d]
<1>1. RequestType(NoRequest) /\ req' = [req EXCEPT ![c] = NoRequest]
  BY DEF Leave, RequestType
<1>2. QED
  BY <1>1, RequestsStep

LEMMA AddAddressType ==
    ASSUME TypeInv, NEW c \in Callers, AddAddress(c)
    PROVE  /\ RequestsType' /\ tracked' \subseteq NewAddresses
           /\ req'[c].at \in {"walk", "rewind"} /\ (req'[c].at = "rewind" => req'[c].num = 0)
           /\ \A d \in Callers \ {c} : req'[d] = req[d]
<1> DEFINE r == [req[c] EXCEPT !.at = IF req[c].asked.back = 0 THEN "rewind" ELSE "walk",
                               !.num = IF req[c].asked.back = 0 THEN 0 ELSE node_tip]
<1>1. /\ HasFields(req[c], RequestFields) /\ req[c].asked.address \in NewAddresses
      /\ req[c].op = "AddAddressAndRollback" /\ req[c].op \in Operations
  BY AskedFacts DEF AddAddress, Rewinding
<1>2. node_tip \in Nat
  BY BlockNumbers DEF TypeInv
<1>3. /\ HasFields(r, RequestFields) /\ r.op = req[c].op /\ r.num \in Nat
      /\ r.at \in {"walk", "rewind"} /\ (r.at = "rewind" => r.num = 0)
  BY <1>1, <1>2 DEF HasFields, RequestFields
<1>4. RequestType(r)
  BY <1>1, <1>3 DEF RequestType, RequestFields
<1>5. req' = [req EXCEPT ![c] = r]
  BY DEF AddAddress, TypeInv, RequestsType
<1>6. tracked' \subseteq NewAddresses
  BY <1>1 DEF AddAddress, TypeInv
<1>7. QED
  BY <1>3, <1>4, <1>5, <1>6, RequestsStep

\* The walk ends at a block that is indexed, or below the first one.
LEMMA WalkBackType ==
    ASSUME TypeInv, NEW c \in Callers, WalkBack(c)
    PROVE  /\ RequestsType'
           /\ req'[c].at \in {"walk", "rewind", "answered"}
           /\ req'[c].at = "rewind" => req'[c].num = 0 \/ req'[c].num \in db.known
           /\ \A d \in Callers \ {c} : req'[d] = req[d]
<1> DEFINE q == req[c]
<1>1. /\ HasFields(q, RequestFields) /\ q.op = "AddAddressAndRollback" /\ q.op \in Operations
      /\ q.at = "walk" /\ q.num \in Nat
  BY AskedFacts DEF WalkBack, Rewinding
<1>2. q.num \in db.known => q.num - 1 \in Nat
  <2>1. db.known \subseteq 1 .. N /\ N \in Nat
    BY BlockNumbers DEF TypeInv, DbType
  <2>2. QED
    BY <2>1
<1>3. PICK r :
         /\ Reads(c, r)
         /\ \/ r = [q EXCEPT !.at = "answered"]
            \/ q.num \in db.known /\ r = [q EXCEPT !.at = "rewind"]
            \/ r = [q EXCEPT !.at = "rewind", !.num = 0]
            \/ q.num \in db.known /\ r = [q EXCEPT !.num = q.num - 1, !.todo = Append(@, q.num)]
  BY DEF WalkBack
<1>4. /\ HasFields(r, RequestFields) /\ r.op = q.op /\ r.num \in Nat
      /\ r.at \in {"walk", "rewind", "answered"}
      /\ r.at = "rewind" => r.num = 0 \/ r.num \in db.known
  <2>1. CASE r = [q EXCEPT !.at = "answered"]
    BY <1>1, <2>1 DEF HasFields, RequestFields
  <2>2. CASE q.num \in db.known /\ r = [q EXCEPT !.at = "rewind"]
    BY <1>1, <2>2 DEF HasFields, RequestFields
  <2>3. CASE r = [q EXCEPT !.at = "rewind", !.num = 0]
    BY <1>1, <2>3 DEF HasFields, RequestFields
  <2>4. CASE q.num \in db.known /\ r = [q EXCEPT !.num = q.num - 1, !.todo = Append(@, q.num)]
    BY <1>1, <1>2, <2>4 DEF HasFields, RequestFields
  <2>5. QED
    BY <1>3, <2>1, <2>2, <2>3, <2>4
<1>5. RequestType(r)
  BY <1>1, <1>4 DEF RequestType, RequestFields
<1>6. QED
  BY <1>3, <1>4, <1>5, RequestsStep DEF Reads

\* A rewind goes to a block that is indexed, or to the start.
RewindTargets ==
    \A c \in Callers : Doing(c, "rewind") \/ Doing(c, "wallets") =>
        req[c].num = 0 \/ req[c].num \in db.known

LEMMA TargetFacts ==
    ASSUME TypeInv, RewindTargets, NEW c \in Callers, Doing(c, "rewind") \/ Doing(c, "wallets")
    PROVE  TipOf(req[c].num) \in Tip
<1>1. req[c].num \in 0 .. N
  BY BlockNumbers DEF RewindTargets, TypeInv, DbType
<1>2. QED
  BY <1>1, TipFacts

LEMMA RewindTipType ==
    ASSUME TypeInv, RewindTargets, NEW c \in Callers, RewindTip(c)
    PROVE  /\ RequestsType' /\ DbType'
           /\ db'.chain_tip = TipOf(req[c].num) /\ db'.known = db.known
           /\ db'.wallet_tip = db.wallet_tip
           /\ req'[c].at = "wallets" /\ req'[c].num = req[c].num
           /\ \A d \in Callers \ {c} : req'[d] = req[d]
<1> DEFINE r == [req[c] EXCEPT !.at = "wallets", !.todo = <<>>]
<1>1. /\ HasFields(req[c], RequestFields) /\ req[c].op = "AddAddressAndRollback"
      /\ req[c].op \in Operations /\ req[c].num \in Nat
  BY AskedFacts DEF RewindTip, Rewinding
<1>2. HasFields(r, RequestFields) /\ r.op = req[c].op /\ r.num = req[c].num /\ r.at = "wallets"
  BY <1>1 DEF HasFields, RequestFields
<1>3. RequestType(r)
  BY <1>1, <1>2 DEF RequestType, RequestFields
<1>4. req' = [req EXCEPT ![c] = r]
  BY DEF RewindTip, TypeInv, RequestsType
<1>5. TipOf(req[c].num) \in Tip
  BY TargetFacts DEF RewindTip
<1>6. QED
  BY <1>2, <1>3, <1>4, <1>5, RequestsStep, ChainTipStep DEF RewindTip, TypeInv

LEMMA RewindWalletsType ==
    ASSUME TypeInv, RewindTargets, NEW c \in Callers, RewindWallets(c)
    PROVE  /\ RequestsType' /\ DbType'
           /\ db'.chain_tip = db.chain_tip /\ db'.known = db.known
           /\ \/ db'.wallet_tip = db.wallet_tip
              \/ \E w \in Wallets :
                    db'.wallet_tip = [db.wallet_tip EXCEPT ![w] = TipOf(req[c].num)]
           /\ req'[c].at \in {"wallets", "signal"} /\ req'[c].num = req[c].num
           /\ \A d \in Callers \ {c} : req'[d] = req[d]
<1> DEFINE w == Len(req[c].todo) + 1
<1>1. /\ HasFields(req[c], RequestFields) /\ req[c].op = "AddAddressAndRollback"
      /\ req[c].op \in Operations /\ req[c].num \in Nat /\ req[c].at = "wallets"
  BY AskedFacts DEF RewindWallets, Rewinding
<1>2. PICK r : /\ req' = [req EXCEPT ![c] = r]
               /\ \/ r = [req[c] EXCEPT !.todo = Append(@, w)]
                  \/ r = [req[c] EXCEPT !.at = "signal"]
  BY DEF RewindWallets, TypeInv, RequestsType
<1>3. /\ HasFields(r, RequestFields) /\ r.op = req[c].op /\ r.num = req[c].num
      /\ r.at \in {"wallets", "signal"}
  BY <1>1, <1>2 DEF HasFields, RequestFields
<1>4. RequestType(r)
  BY <1>1, <1>3 DEF RequestType, RequestFields
<1>5. TipOf(req[c].num) \in Tip /\ DbType
  BY TargetFacts DEF RewindWallets, TypeInv
<1>6. CASE UNCHANGED db
  BY <1>2, <1>3, <1>4, <1>5, <1>6, RequestsStep DEF DbType
<1>7. CASE w <= WalletCount /\ db' = [db EXCEPT !.wallet_tip[w] = TipOf(req[c].num)]
  <2>1. w \in Wallets
    BY <1>7 DEF Wallets
  <2>2. QED
    BY <1>2, <1>3, <1>4, <1>5, <1>7, <2>1, RequestsStep, RewindWalletStep
<1>8. QED
  BY <1>6, <1>7 DEF RewindWallets

LEMMA SignalType ==
    ASSUME TypeInv, NEW c \in Callers, SignalRestart(c)
    PROVE  /\ RequestsType' /\ SeenType' /\ signals' \in Nat
           /\ req'[c].at = "answered" /\ \A d \in Callers \ {c} : req'[d] = req[d]
<1> DEFINE r == [req[c] EXCEPT !.at = "answered", !.got = <<req[c].num>>]
<1>1. /\ HasFields(req[c], RequestFields) /\ req[c].op \in Operations /\ req[c].num \in Nat
  BY AskedFacts DEF SignalRestart
<1>2. HasFields(r, RequestFields) /\ r.op = req[c].op /\ r.num = req[c].num /\ r.at = "answered"
  BY <1>1 DEF HasFields, RequestFields
<1>3. RequestType(r)
  BY <1>1, <1>2 DEF RequestType, RequestFields
<1>4. req' = [req EXCEPT ![c] = r]
  BY DEF SignalRestart, TypeInv, RequestsType
<1>5. signals' \in Nat
  BY DEF SignalRestart, Signalled, TypeInv
<1>6. SeenType'
  BY DEF SignalRestart, TypeInv, SeenType, HasFields
<1>7. QED
  BY <1>2, <1>3, <1>4, <1>5, <1>6, RequestsStep

-----------------------------------------------------------------------------
(* Tips.  TipsKnown is not inductive: a block whose tips are being saved   *)
(* must be indexed already, and a rewind under way must lead to an indexed *)
(* block or to the start.  Both stay true because metadata is never        *)
(* deleted.                                                                *)

SavesKnown == session.at = "tips" => session.next \in db.known

IndexInv ==
    /\ TypeInv
    /\ TipsKnown
    /\ SavesKnown
    /\ RewindTargets

LEMMA InitIndex == Init => IndexInv
BY InitType DEF Init, IndexInv, TipsKnown, SavesKnown, RewindTargets, NoTip, NewSession, Doing,
                NoRequest

LEMMA StillKnown ==
    ASSUME TipsKnown, db.known \subseteq db'.known,
           db'.chain_tip = db.chain_tip, db'.wallet_tip = db.wallet_tip
    PROVE  TipsKnown'
BY DEF TipsKnown

\* A tip is replaced by one that names no block or an indexed one.
LEMMA NewTipKnown ==
    ASSUME TypeInv, TipsKnown, NEW t \in Tip, t.hashed => t.slot \in db.known,
           db'.known = db.known,
           \/ db'.chain_tip = t /\ db'.wallet_tip = db.wallet_tip
           \/ db'.chain_tip = db.chain_tip
              /\ \E w \in Wallets : db'.wallet_tip = [db.wallet_tip EXCEPT ![w] = t]
    PROVE  TipsKnown'
<1>1. db.wallet_tip \in [Wallets -> Tip]
  BY DEF TypeInv, DbType
<1>2. QED
  BY <1>1 DEF TipsKnown

LEMMA SessionKeeps ==
    ASSUME IndexInv, SessionType', DbType', TipsKnown', SavesKnown',
           StreamType', SeenType', signals' \in Nat, db.known \subseteq db'.known,
           UNCHANGED <<node_tip, tracked, req>>
    PROVE  IndexInv'
<1>1. RewindTargets'
  BY DEF IndexInv, RewindTargets, Doing
<1>2. RequestsType'
  BY DEF IndexInv, TypeInv, RequestsType
<1>3. QED
  BY <1>1, <1>2 DEF IndexInv, TypeInv

LEMMA RequestKeeps ==
    ASSUME IndexInv, NEW c \in Callers, RequestsType', DbType', TipsKnown', SeenType',
           signals' \in Nat, tracked' \subseteq NewAddresses, db'.known = db.known,
           \A d \in Callers \ {c} : req'[d] = req[d],
           Doing(c, "rewind")' \/ Doing(c, "wallets")' =>
               req'[c].num = 0 \/ req'[c].num \in db.known,
           UNCHANGED <<node_tip, session, stream>>
    PROVE  IndexInv'
<1>1. RewindTargets'
  BY DEF IndexInv, RewindTargets, Doing
<1>2. SessionType' /\ StreamType' /\ SavesKnown'
  BY DEF IndexInv, TypeInv, SessionType, StreamType, SavesKnown, Items
<1>3. QED
  BY <1>1, <1>2 DEF IndexInv, TypeInv

LEMMA UnchangedParts ==
    /\ TypeInv /\ UNCHANGED stream => StreamType'
    /\ TypeInv /\ UNCHANGED seen => SeenType'
    /\ TypeInv /\ UNCHANGED db => DbType'
    /\ TypeInv /\ UNCHANGED session => SessionType'
    /\ TypeInv /\ UNCHANGED signals => signals' \in Nat
BY DEF TypeInv, StreamType, SeenType, DbType, SessionType, Items

LEMMA StartIndex ==
    ASSUME IndexInv, Resume \/ Connect \/ BuildFilter \/ SubscribeRestart \/ Restart
    PROVE  IndexInv'
<1>1. TypeInv /\ session \in Session
  BY DEF IndexInv, TypeInv, SessionType
<1>2. UNCHANGED <<node_tip, db, tracked, req, stream, seen>>
  BY DEF Resume, Connect, BuildFilter, SubscribeRestart, Restart
<1>3. session'.at # "tips"
  <2>1. CASE Resume
    BY <1>1, <2>1 DEF Resume, Session
  <2>2. CASE Connect
    BY <1>1, <2>2 DEF Connect, Session
  <2>3. CASE BuildFilter
    BY <1>1, <2>3 DEF BuildFilter, Session
  <2>4. CASE SubscribeRestart
    BY <1>1, <2>4 DEF SubscribeRestart, Session
  <2>5. CASE Restart
    BY <2>5 DEF Restart, NewSession
  <2>6. QED
    BY <2>1, <2>2, <2>3, <2>4, <2>5
<1>4. SessionType' /\ signals' \in Nat
  BY <1>1, StartType
<1>5. TipsKnown'
  BY <1>2, StillKnown DEF IndexInv
<1>6. QED
  BY <1>1, <1>2, <1>3, <1>4, <1>5, SessionKeeps, UnchangedParts DEF SavesKnown

LEMMA RollBackwardIndex ==
    ASSUME IndexInv, RollBackward \/ RewindWallet
    PROVE  IndexInv'
<1>1. TypeInv /\ session \in Session /\ DbType /\ TipsKnown
  BY DEF IndexInv, TypeInv, SessionType
<1>2. UNCHANGED <<node_tip, tracked, signals, req, stream, seen>>
  BY DEF RollBackward, RewindWallet
<1> DEFINE t == [slot |-> session.base, hashed |-> FALSE]
<1>3. t \in Tip
  BY <1>1, TipFacts DEF Session
<1>4. session'.at # "tips"
  <2>1. CASE RollBackward
    BY <1>1, <2>1 DEF RollBackward, Session
  <2>2. CASE RewindWallet
    BY <1>1, <2>2 DEF RewindWallet, Session, At
  <2>3. QED
    BY <2>1, <2>2
<1>5. TipsKnown' /\ db'.known = db.known
  <2>1. CASE UNCHANGED db
    BY <1>1, <2>1, StillKnown
  <2>2. CASE db' = [db EXCEPT !.chain_tip = t]
    BY <1>1, <1>3, <2>2, ChainTipStep, NewTipKnown
  <2>3. CASE session.pos <= WalletCount /\ db' = [db EXCEPT !.wallet_tip[session.pos] = t]
             /\ session.at = "untips"
    <3>1. session.pos \in Wallets
      BY <1>1, <2>3, IndexerConstants DEF TypeInv, SessionType, Session, Wallets
    <3>2. QED
      BY <1>1, <1>3, <2>3, <3>1, RewindWalletStep, NewTipKnown
  <2>4. QED
    BY <2>1, <2>2, <2>3 DEF RollBackward, RewindWallet, At
<1>6. QED
  BY <1>1, <1>2, <1>4, <1>5, RollBackwardType, SessionKeeps, UnchangedParts DEF SavesKnown

LEMMA BeginBlockIndex ==
    ASSUME IndexInv, BeginBlock
    PROVE  IndexInv'
<1>1. TypeInv /\ session \in Session /\ session.at = "idle"
  BY DEF IndexInv, TypeInv, SessionType, BeginBlock, At
<1>2. UNCHANGED <<node_tip, db, tracked, signals, req, stream>>
  BY DEF BeginBlock
<1>3. session'.at # "tips"
  BY <1>1 DEF BeginBlock, Session
<1>4. TipsKnown'
  BY <1>2, StillKnown DEF IndexInv
<1>5. QED
  BY <1>1, <1>2, <1>3, <1>4, BeginBlockType, SessionKeeps, UnchangedParts DEF SavesKnown

LEMMA ItemIndex ==
    ASSUME IndexInv, ProcessInput \/ DeleteUtxo \/ ProcessOutput \/ IndexUtxo
                     \/ TrackTokens \/ WriteEvent
    PROVE  IndexInv'
<1>1. TypeInv /\ session \in Session /\ DbType
  BY DEF IndexInv, TypeInv, SessionType
<1>2. UNCHANGED <<node_tip, tracked, signals, req, stream, seen>>
  BY DEF ProcessInput, DeleteUtxo, ProcessOutput, IndexUtxo, TrackTokens, WriteEvent
<1>3. SessionType' /\ DbType'
  BY <1>1, InputType, OutputType, EventType
<1>4. session'.at # "tips"
  <2>1. CASE ProcessInput
    BY <1>1, <2>1 DEF ProcessInput, Session, At
  <2>2. CASE DeleteUtxo
    BY <1>1, <2>2 DEF DeleteUtxo, Session
  <2>3. CASE ProcessOutput
    BY <1>1, <2>3 DEF ProcessOutput, Session, At
  <2>4. CASE IndexUtxo
    BY <1>1, <2>4 DEF IndexUtxo, Session
  <2>5. CASE TrackTokens
    <3>1. session' = [session EXCEPT !.at = "events", !.pos = 1]
      BY <2>5 DEF TrackTokens
    <3>2. QED
      BY <1>1, <3>1 DEF Session
  <2>6. CASE WriteEvent
    <3>1. session.at = "events"
          /\ (\/ session' = [session EXCEPT !.pos = @ + 1, !.event_index = @ + 1]
              \/ session' = [session EXCEPT !.pos = @ + 1])
      BY <2>6 DEF WriteEvent, At
    <3>2. QED
      BY <1>1, <3>1 DEF Session
  <2>7. QED
    BY <2>1, <2>2, <2>3, <2>4, <2>5, <2>6
<1>5. /\ db'.known = db.known /\ db'.chain_tip = db.chain_tip
      /\ db'.wallet_tip = db.wallet_tip
  BY <1>1 DEF ProcessInput, DeleteUtxo, ProcessOutput, IndexUtxo, TrackTokens, WriteEvent,
              DbType, HasFields
<1>6. TipsKnown'
  BY <1>5, StillKnown DEF IndexInv
<1>7. QED
  BY <1>1, <1>2, <1>3, <1>4, <1>5, <1>6, SessionKeeps, UnchangedParts DEF SavesKnown

LEMMA MetadataIndex ==
    ASSUME IndexInv, StoreMetadata
    PROVE  IndexInv'
<1>1. TypeInv /\ session \in Session /\ DbType
  BY DEF IndexInv, TypeInv, SessionType
<1>2. UNCHANGED <<node_tip, tracked, signals, req, stream, seen>>
  BY DEF StoreMetadata
<1>3. /\ SessionType' /\ DbType' /\ db'.known = db.known \cup {session.next}
      /\ db'.chain_tip = db.chain_tip /\ db'.wallet_tip = db.wallet_tip
  BY <1>1, MetadataType DEF StoreMetadata, DbType, HasFields
<1>4. session'.next = session.next
  BY <1>1 DEF StoreMetadata, Session
<1>5. TipsKnown' /\ SavesKnown'
  BY <1>3, <1>4, StillKnown DEF IndexInv, SavesKnown
<1>6. QED
  BY <1>1, <1>2, <1>3, <1>5, SessionKeeps, UnchangedParts

LEMMA SaveTipsIndex ==
    ASSUME IndexInv, SaveTips
    PROVE  IndexInv'
<1>1. /\ TypeInv /\ session \in Session /\ DbType /\ TipsKnown
      /\ session.at = "tips" /\ session.next \in db.known
      /\ session.pos \in Nat /\ session.pos <= WalletCount /\ session.next \in Blocks
  BY DEF IndexInv, TypeInv, SessionType, Session, SavesKnown, SaveTips, At, InBlock
<1>2. UNCHANGED <<node_tip, tracked, signals, req, stream, seen>>
  BY DEF SaveTips
<1> DEFINE t == TipOf(session.next)
<1>3. t \in Tip /\ t.slot = session.next
  <2>1. session.next \in 0 .. N
    BY <1>1, BlockNumbers
  <2>2. QED
    BY <2>1, TipFacts DEF TipOf
<1> HIDE DEF t
<1>4. TipsKnown' /\ db'.known = db.known
  <2>1. CASE session.pos = 0
    <3>1. db' = [db EXCEPT !.chain_tip = t]
      BY <2>1 DEF SaveTips, t
    <3>2. QED
      BY <1>1, <1>3, <3>1, ChainTipStep, NewTipKnown
  <2>2. CASE session.pos # 0
    <3>1. session.pos \in Wallets
      BY <1>1, <2>2, IndexerConstants DEF Wallets
    <3>2. db' = [db EXCEPT !.wallet_tip[session.pos] = t]
      BY <2>2 DEF SaveTips, t
    <3>3. QED
      BY <1>1, <1>3, <3>1, <3>2, RewindWalletStep, NewTipKnown
  <2>3. QED
    BY <2>1, <2>2
<1>5. session'.next = session.next
  BY <1>1 DEF SaveTips, Session
<1>6. QED
  BY <1>1, <1>2, <1>4, <1>5, SaveTipsType, SessionKeeps, UnchangedParts DEF SavesKnown

LEMMA BroadcastIndex ==
    ASSUME IndexInv, BroadcastBlock
    PROVE  IndexInv'
<1>1. TypeInv /\ session \in Session
  BY DEF IndexInv, TypeInv, SessionType
<1>2. UNCHANGED <<node_tip, db, tracked, signals, req>>
  BY DEF BroadcastBlock
<1>3. session'.at # "tips"
  <2>1. session' = [session EXCEPT !.at = "idle", !.next = @ + 1, !.pos = 1, !.made = <<>>,
                                   !.spent = <<>>, !.event_index = 1, !.boundary = FALSE]
    BY DEF BroadcastBlock
  <2>2. QED
    BY <1>1, <2>1 DEF Session
<1>4. TipsKnown'
  BY <1>2, StillKnown DEF IndexInv
<1>5. QED
  BY <1>1, <1>2, <1>3, <1>4, BroadcastType, SessionKeeps, UnchangedParts DEF SavesKnown

LEMMA SessionIndex ==
    ASSUME IndexInv, SessionStep
    PROVE  IndexInv'
BY StartIndex, RollBackwardIndex, BeginBlockIndex, ItemIndex, MetadataIndex, SaveTipsIndex,
   BroadcastIndex
DEF SessionStep

-----------------------------------------------------------------------------
(* Requests and streams keep the tips.                                     *)

LEMMA QueryIndex ==
    ASSUME IndexInv, NEW c \in Callers,
           \/ ReadIndex(c) \/ ReadOutput(c) \/ ReadTip(c) \/ SearchPolicy(c) \/ ScanOutput(c)
           \/ ReadEvent(c) \/ ReadMetadata(c) \/ ReadParent(c) \/ FetchBlock(c)
    PROVE  IndexInv'
<1>1. /\ TypeInv /\ RequestsType' /\ req'[c].at \notin Rewinding
      /\ \A d \in Callers \ {c} : req'[d] = req[d]
      /\ UNCHANGED <<node_tip, db, tracked, signals, session, stream, seen>>
  BY QueryType DEF IndexInv
<1>2. TipsKnown'
  BY <1>1, StillKnown DEF IndexInv
<1>3. tracked' \subseteq NewAddresses
  BY <1>1 DEF TypeInv
<1>4. QED
  BY <1>1, <1>2, <1>3, RequestKeeps, UnchangedParts DEF Doing, Rewinding

LEMMA AskIndex ==
    ASSUME IndexInv, NEW c \in Callers,
           \/ Leave(c)
           \/ \E op \in Operations \ {"FollowTip"} : \E asked \in Questions(op) : Request(c, op, asked)
    PROVE  IndexInv'
<1>1. TypeInv /\ tracked \subseteq NewAddresses
  BY DEF IndexInv, TypeInv
<1>2. UNCHANGED <<node_tip, db, tracked, signals, session, stream>>
  BY DEF Leave, Request
<1>3. TipsKnown'
  BY <1>2, StillKnown DEF IndexInv
<1>4. /\ RequestsType' /\ SeenType'
      /\ \A d \in Callers \ {c} : req'[d] = req[d]
      /\ ~(Doing(c, "rewind")' \/ Doing(c, "wallets")')
  <2>1. CASE Leave(c)
    <3>1. /\ RequestsType' /\ req'[c] = NoRequest
          /\ \A d \in Callers \ {c} : req'[d] = req[d]
      BY <1>1, <2>1, LeaveType
    <3>2. SeenType'
      BY <1>1, <2>1, UnchangedParts DEF Leave
    <3>3. ~(Doing(c, "rewind")' \/ Doing(c, "wallets")')
      BY <3>1 DEF Doing, NoRequest
    <3>4. QED
      BY <3>1, <3>2, <3>3
  <2>2. CASE \E op \in Operations \ {"FollowTip"} :
                \E asked \in Questions(op) : Request(c, op, asked)
    <3>1. PICK op \in Operations \ {"FollowTip"} : \E asked \in Questions(op) : Request(c, op, asked)
      BY <2>2
    <3>2. PICK asked \in Questions(op) : Request(c, op, asked)
      BY <3>1
    <3>3. FirstStep[op] \notin {"rewind", "wallets"}
      BY DEF FirstStep, Operations
    <3>4. QED
      BY <1>1, <3>2, <3>3, RequestStepType DEF Doing
  <2>3. QED
    BY <2>1, <2>2
<1>5. QED
  BY <1>1, <1>2, <1>3, <1>4, RequestKeeps, UnchangedParts

LEMMA RewindIndex ==
    ASSUME IndexInv, NEW c \in Callers,
           AddAddress(c) \/ WalkBack(c) \/ RewindTip(c) \/ RewindWallets(c) \/ SignalRestart(c)
    PROVE  IndexInv'
<1>1. /\ TypeInv /\ TipsKnown /\ RewindTargets /\ tracked \subseteq NewAddresses
  BY DEF IndexInv, TypeInv
<1>2. CASE AddAddress(c)
  <2>1. UNCHANGED <<node_tip, db, signals, session, stream, seen>>
    BY <1>2 DEF AddAddress
  <2>2. TipsKnown'
    BY <1>1, <2>1, StillKnown
  <2>3. QED
    BY <1>1, <1>2, <2>1, <2>2, AddAddressType, RequestKeeps, UnchangedParts DEF Doing
<1>3. CASE WalkBack(c)
  <2>1. UNCHANGED <<node_tip, db, tracked, signals, session, stream, seen>>
    BY <1>3 DEF WalkBack, Reads
  <2>2. TipsKnown'
    BY <1>1, <2>1, StillKnown
  <2>3. QED
    BY <1>1, <1>3, <2>1, <2>2, WalkBackType, RequestKeeps, UnchangedParts DEF Doing
<1>4. CASE RewindTip(c) \/ RewindWallets(c)
  <2>1. UNCHANGED <<node_tip, tracked, signals, session, stream, seen>>
    BY <1>4 DEF RewindTip, RewindWallets
  <2>2. req[c].num = 0 \/ req[c].num \in db.known
    BY <1>1, <1>4 DEF RewindTargets, RewindTip, RewindWallets
  <2>3. TipOf(req[c].num) \in Tip
        /\ (TipOf(req[c].num).hashed => TipOf(req[c].num).slot \in db.known)
    BY <1>1, <1>4, <2>2, TargetFacts DEF TipOf, RewindTip, RewindWallets
  <2>4. /\ RequestsType' /\ DbType' /\ db'.known = db.known
        /\ req'[c].num = req[c].num
        /\ \A d \in Callers \ {c} : req'[d] = req[d]
    BY <1>1, <1>4, RewindTipType, RewindWalletsType
  <2>5. TipsKnown'
    <3>1. CASE RewindTip(c)
      BY <1>1, <2>3, <2>4, <3>1, RewindTipType, NewTipKnown
    <3>2. CASE RewindWallets(c)
      BY <1>1, <2>3, <2>4, <3>2, RewindWalletsType, NewTipKnown, StillKnown
    <3>3. QED
      BY <1>4, <3>1, <3>2
  <2>6. QED
    BY <1>1, <2>1, <2>2, <2>4, <2>5, RequestKeeps, UnchangedParts
<1>5. CASE SignalRestart(c)
  <2>1. UNCHANGED <<node_tip, db, tracked, session, stream>>
    BY <1>5 DEF SignalRestart
  <2>2. TipsKnown'
    BY <1>1, <2>1, StillKnown
  <2>3. QED
    BY <1>1, <1>5, <2>1, <2>2, SignalType, RequestKeeps, UnchangedParts DEF Doing
<1>6. QED
  BY <1>2, <1>3, <1>4, <1>5

LEMMA StreamIndex ==
    ASSUME IndexInv, StreamType', node_tip' \in Blocks,
           UNCHANGED <<db, tracked, signals, session, req, seen>>
    PROVE  IndexInv'
<1>1. TypeInv'
  BY UnchangedParts DEF IndexInv, TypeInv, RequestsType
<1>2. QED
  BY <1>1 DEF IndexInv, TipsKnown, SavesKnown, RewindTargets, Doing

LEMMA NextIndex == IndexInv /\ [Next]_vars => IndexInv'
<1> SUFFICES ASSUME IndexInv, [Next]_vars PROVE IndexInv'
  OBVIOUS
<1>1. TypeInv /\ StreamType /\ node_tip \in 1 .. N /\ N \in Nat
  BY BlockNumbers DEF IndexInv, TypeInv
<1>2. CASE Forge
  <2>1. node_tip' \in Blocks
    BY <1>1, <1>2, BlockNumbers DEF Forge, N
  <2>2. QED
    BY <1>1, <1>2, <2>1, StreamIndex, UnchangedParts DEF Forge
<1>3. CASE SessionStep
  BY <1>3, SessionIndex
<1>4. ASSUME NEW c \in Callers,
             \/ \E op \in Asks[c] \ {"FollowTip"} : \E asked \in Questions(op) : Request(c, op, asked)
             \/ RequestStep(c)
             \/ Leave(c)
      PROVE  IndexInv'
  <2>1. Asks[c] \subseteq Operations
    BY IndexerConstants
  <2>2. QED
    BY <1>4, <2>1, AskIndex, QueryIndex, RewindIndex DEF RequestStep
<1>5. ASSUME NEW c \in Callers, FollowTip(c) PROVE IndexInv'
  BY <1>1, <1>5, FollowTipType, StreamIndex, BlockNumbers DEF FollowTip
<1>6. CASE Forward \/ Deliver \/ CloseStream
  <2>1. StreamType'
    <3>1. CASE Forward \/ Deliver
      BY <1>1, <3>1, ForwardType
    <3>2. CASE CloseStream
      BY <1>1, <3>2, IndexerConstants DEF CloseStream, NoStream, StreamType, Stream
    <3>3. QED
      BY <1>6, <3>1, <3>2
  <2>2. QED
    BY <1>1, <1>6, <2>1, StreamIndex, BlockNumbers DEF Forward, Deliver, CloseStream
<1>7. CASE UNCHANGED vars
  BY <1>1, <1>7, StreamIndex, UnchangedParts, BlockNumbers DEF vars
<1>8. QED
  BY <1>2, <1>3, <1>4, <1>5, <1>6, <1>7 DEF Next

THEOREM IndexInvariant == Spec => []IndexInv
<1>1. QED
  BY InitIndex, NextIndex, PTL DEF Spec

(***************************************************************************)
(* Types of the indexer's state, for any chain, callers and channels: the  *)
(* bound of the broadcast channel and of a stream's channel are among      *)
(* them.                                                                   *)
(***************************************************************************)
THEOREM IndexerTypeCorrect == Spec => []TypeOK
<1>1. IndexInv => TypeOK
  BY TypeInvTypes DEF IndexInv
<1>2. QED
  BY <1>1, IndexInvariant, PTL

(***************************************************************************)
(* A stored tip with a hash names an indexed block, whatever blocks,       *)
(* rollbacks and rewinds do between the writes of a set of tips            *)
(* (save_current_tips, add_address_and_rollback).                          *)
(***************************************************************************)
THEOREM TipsStayKnown == Spec => []TipsKnown
<1>1. IndexInv => TipsKnown
  BY DEF IndexInv
<1>2. QED
  BY <1>1, IndexInvariant, PTL

-----------------------------------------------------------------------------
(* The stream.  What the client has, what is on the way to it and what     *)
(* waits in the broadcast channel are numbered through, unless the         *)
(* receiver lags: then what waits is never forwarded.                      *)

\* Numbering of a queue, from the update after number n.
Follows(queue, n) == \A i \in 1 .. Len(queue) : queue[i].number = n + i

Numbered ==
    /\ Follows(stream.out, stream.last.number)
    /\ (stream.at = "on" /\ ~stream.lagged) =>
          /\ stream.sent = stream.last.number + Len(stream.out) + Len(stream.unread)
          /\ Follows(stream.unread, stream.last.number + Len(stream.out))

\* Only these steps touch the stream.
LEMMA StreamSteps ==
    ASSUME [Next]_vars
    PROVE  \/ UNCHANGED stream
           \/ BroadcastBlock \/ (\E c \in Callers : FollowTip(c))
           \/ Forward \/ Deliver \/ CloseStream
<1>1. CASE SessionStep
  BY <1>1 DEF SessionStep, Resume, Connect, BuildFilter, SubscribeRestart, Restart, RollBackward,
              RewindWallet, BeginBlock, ProcessInput, DeleteUtxo, ProcessOutput, IndexUtxo,
              TrackTokens, WriteEvent, StoreMetadata, SaveTips
<1>2. ASSUME NEW c \in Callers, RequestStep(c) PROVE UNCHANGED stream
  BY <1>2 DEF RequestStep, ReadIndex, ReadOutput, ReadTip, SearchPolicy, ScanOutput, ReadEvent,
              ReadMetadata, ReadParent, FetchBlock, AddAddress, WalkBack, RewindTip, RewindWallets,
              SignalRestart, Reads
<1>3. QED
  BY <1>1, <1>2 DEF Next, Forge, Request, Leave, vars

LEMMA StreamFacts ==
    ASSUME StreamType
    PROVE  /\ stream \in Stream
           /\ stream.out \in Seq(Update) /\ stream.unread \in Seq(Update)
           /\ Len(stream.out) \in Nat /\ Len(stream.unread) \in Nat
           /\ stream.last.number \in Nat /\ stream.last.block \in Nat /\ stream.sent \in Nat
           /\ \A i \in 1 .. Len(stream.out) :
                 stream.out[i] \in Update /\ stream.out[i].number \in Nat /\ stream.out[i].block \in Nat
           /\ \A i \in 1 .. Len(stream.unread) :
                 stream.unread[i] \in Update /\ stream.unread[i].number \in Nat
                 /\ stream.unread[i].block \in Nat
<1>1. stream \in Stream /\ stream.out \in Seq(Update) /\ stream.unread \in Seq(Update)
      /\ stream.last \in Update \cup {NoUpdate} /\ stream.sent \in Nat
  BY DEF StreamType, Stream
<1>2. \A u \in Update : u.number \in Nat /\ u.block \in Nat
  BY BlockNumbers DEF Update
<1>3. NoUpdate.number \in Nat /\ NoUpdate.block \in Nat
  BY DEF NoUpdate
<1>4. QED
  BY <1>1, <1>2, <1>3

\* A block is sent to the receiver of the stream.
LEMMA SentFacts ==
    ASSUME TypeInv, BroadcastBlock
    PROVE  /\ stream' \in Stream /\ stream'.out = stream.out /\ stream'.last = stream.last
           /\ stream'.at = stream.at
           /\ \/ stream.at # "on" /\ UNCHANGED stream
              \/ stream'.lagged
              \/ /\ stream.at = "on" /\ stream'.lagged = stream.lagged
                 /\ stream'.sent = stream.sent + 1
                 /\ stream'.unread = Append(stream.unread, [block |-> session.next,
                                                           number |-> stream.sent + 1])
<1> DEFINE u == [block |-> session.next, number |-> stream.sent + 1]
<1>1. stream \in Stream /\ stream' \in Stream
  BY BroadcastType DEF TypeInv, StreamType
<1>2. CASE stream.at # "on"
  BY <1>1, <1>2 DEF BroadcastBlock, Sent
<1>3. CASE stream.at = "on" /\ Len(stream.unread) < Capacity
  <2>1. stream' = [stream EXCEPT !.sent = @ + 1, !.unread = Append(@, u)]
    BY <1>3 DEF BroadcastBlock, Sent
  <2>2. QED
    BY <1>1, <1>3, <2>1 DEF Stream
<1>4. CASE stream.at = "on" /\ ~(Len(stream.unread) < Capacity)
  <2>1. stream' = [stream EXCEPT !.sent = @ + 1, !.unread = Append(Tail(@), u), !.lagged = TRUE]
    BY <1>4 DEF BroadcastBlock, Sent
  <2>2. QED
    BY <1>1, <2>1 DEF Stream
<1>5. QED
  BY <1>2, <1>3, <1>4

\* An update moves from the broadcast channel to the channel of the stream.
LEMMA ForwardFacts ==
    ASSUME TypeInv, Forward
    PROVE  /\ stream'.last = stream.last
           /\ \/ stream'.at = "ended" /\ stream'.out = stream.out /\ stream'.unread = <<>>
              \/ /\ stream.at = "on" /\ ~stream.lagged /\ stream.unread # <<>>
                 /\ stream'.at = "on" /\ stream'.lagged = stream.lagged
                 /\ stream'.sent = stream.sent
                 /\ stream'.unread = Tail(stream.unread)
                 /\ stream'.out = Append(stream.out, Head(stream.unread))
<1>1. stream \in Stream
  BY DEF TypeInv, StreamType
<1>2. CASE stream.lagged
  <2>1. stream' = [stream EXCEPT !.at = "ended", !.unread = <<>>, !.lagged = FALSE]
    BY <1>2 DEF Forward, End
  <2>2. QED
    BY <1>1, <2>1 DEF Stream
<1>3. CASE ~stream.lagged
  <2>1. /\ stream.unread # <<>> /\ stream.at = "on"
        /\ stream' = [stream EXCEPT !.unread = Tail(@), !.out = Append(@, Head(stream.unread))]
    BY <1>3 DEF Forward
  <2>2. QED
    BY <1>1, <1>3, <2>1 DEF Stream
<1>4. QED
  BY <1>2, <1>3

LEMMA DeliverFacts ==
    ASSUME TypeInv, Deliver
    PROVE  /\ stream.out # <<>> /\ stream'.last = Head(stream.out)
           /\ stream'.out = Tail(stream.out) /\ stream'.unread = stream.unread
           /\ stream'.at = stream.at /\ stream'.lagged = stream.lagged
           /\ stream'.sent = stream.sent
BY DEF TypeInv, StreamType, Stream, Deliver

LEMMA AppendFollows ==
    ASSUME NEW queue \in Seq(Update), NEW n \in Nat, NEW u \in Update,
           Follows(queue, n), u.number = n + (Len(queue) + 1)
    PROVE  Follows(Append(queue, u), n)
<1>1. /\ Len(Append(queue, u)) = Len(queue) + 1 /\ Len(queue) \in Nat
      /\ Append(queue, u)[Len(queue) + 1] = u
      /\ \A i \in 1 .. Len(queue) : Append(queue, u)[i] = queue[i]
  OBVIOUS
<1>2. ASSUME NEW i \in 1 .. Len(Append(queue, u)) PROVE Append(queue, u)[i].number = n + i
  <2>1. i \in 1 .. Len(queue) \/ i = Len(queue) + 1
    BY <1>1
  <2>2. CASE i \in 1 .. Len(queue)
    BY <1>1, <2>2 DEF Follows
  <2>3. CASE i = Len(queue) + 1
    BY <1>1, <2>3
  <2>4. QED
    BY <2>1, <2>2, <2>3
<1>3. QED
  BY <1>2 DEF Follows

LEMMA TailFollows ==
    ASSUME NEW queue \in Seq(Update), NEW n \in Nat, queue # <<>>, Follows(queue, n)
    PROVE  /\ Head(queue) \in Update /\ Head(queue).number = n + 1
           /\ Tail(queue) \in Seq(Update) /\ Len(Tail(queue)) + 1 = Len(queue)
           /\ Len(Tail(queue)) \in Nat
           /\ Follows(Tail(queue), n + 1)
<1>1. /\ Len(queue) \in Nat /\ Len(queue) >= 1 /\ Head(queue) = queue[1] /\ queue[1] \in Update
      /\ Tail(queue) \in Seq(Update) /\ Len(Tail(queue)) = Len(queue) - 1
      /\ \A i \in 1 .. Len(Tail(queue)) : Tail(queue)[i] = queue[i + 1]
  OBVIOUS
<1>2. 1 \in 1 .. Len(queue)
  BY <1>1
<1>3. ASSUME NEW i \in 1 .. Len(Tail(queue)) PROVE Tail(queue)[i].number = (n + 1) + i
  <2>1. i + 1 \in 1 .. Len(queue) /\ i \in Nat
    BY <1>1
  <2>2. queue[i + 1].number = n + (i + 1)
    BY <2>1 DEF Follows
  <2>3. QED
    BY <1>1, <2>1, <2>2
<1>4. QED
  BY <1>1, <1>2, <1>3 DEF Follows

LEMMA NumberedNext ==
    ASSUME TypeInv, TypeInv', Numbered, [Next]_vars
    PROVE  Numbered'
<1> DEFINE n == stream.last.number
           o == Len(stream.out)
           m == Len(stream.unread)
<1>1. /\ StreamType /\ StreamType'
      /\ stream.out \in Seq(Update) /\ stream.unread \in Seq(Update)
      /\ o \in Nat /\ m \in Nat /\ n \in Nat /\ stream.sent \in Nat
      /\ n + o \in Nat
  BY StreamFacts DEF TypeInv
<1>0. Follows(stream.out, n)
  BY DEF Numbered, Follows
<1>2. CASE UNCHANGED stream
  BY <1>2 DEF Numbered, Follows
<1>3. CASE BroadcastBlock
  <2> DEFINE u == [block |-> session.next, number |-> stream.sent + 1]
  <2>1. stream'.out = stream.out /\ stream'.last = stream.last
    BY <1>3, SentFacts
  <2>2. CASE stream'.lagged
    BY <1>0, <2>1, <2>2 DEF Numbered, Follows
  <2>3. CASE stream.at # "on" /\ UNCHANGED stream
    BY <2>3 DEF Numbered, Follows
  <2>4. CASE /\ stream.at = "on" /\ stream'.lagged = stream.lagged
             /\ stream'.sent = stream.sent + 1
             /\ stream'.unread = Append(stream.unread, u) /\ ~stream.lagged
    <3>1. stream.sent = n + o + m /\ Follows(stream.unread, n + o)
      BY <2>4 DEF Numbered, Follows
    <3>2. u.number = (n + o) + (m + 1) /\ Len(stream'.unread) = m + 1
      BY <1>1, <2>4, <3>1
    <3>3. u \in Update
      <4>1. session.next \in Blocks
        BY <1>3 DEF TypeInv, SessionType, InBlock, BroadcastBlock, At
      <4>2. stream.sent + 1 \in Nat
        BY <1>1
      <4>3. QED
        BY <4>1, <4>2 DEF Update
    <3>4. Follows(stream'.unread, n + o)
      BY <1>1, <2>4, <3>1, <3>2, <3>3, AppendFollows
    <3>5. stream'.sent = n + o + Len(stream'.unread)
      BY <1>1, <2>4, <3>1, <3>2
    <3>6. QED
      BY <1>0, <2>1, <3>4, <3>5 DEF Numbered, Follows
  <2>5. QED
    BY <1>3, <2>2, <2>3, <2>4, SentFacts
<1>4. CASE (\E c \in Callers : FollowTip(c)) \/ CloseStream
  <2>1. /\ stream'.out = <<>> /\ stream'.unread = <<>> /\ stream'.last.number = 0
        /\ stream'.sent = 0
    BY <1>4 DEF FollowTip, CloseStream, NoStream, NoUpdate
  <2>2. QED
    BY <2>1 DEF Numbered, Follows
<1>5. CASE Forward
  <2>1. CASE stream'.at = "ended" /\ stream'.out = stream.out /\ stream'.unread = <<>>
    BY <1>0, <1>5, <2>1, ForwardFacts DEF Numbered, Follows
  <2>2. CASE /\ stream.at = "on" /\ ~stream.lagged /\ stream.unread # <<>>
             /\ stream'.at = "on" /\ stream'.lagged = stream.lagged
             /\ stream'.sent = stream.sent
             /\ stream'.unread = Tail(stream.unread)
             /\ stream'.out = Append(stream.out, Head(stream.unread))
    <3>1. stream.sent = n + o + m /\ Follows(stream.unread, n + o)
      BY <2>2 DEF Numbered, Follows
    <3>2. /\ Head(stream.unread) \in Update /\ Head(stream.unread).number = (n + o) + 1
          /\ Len(stream'.unread) + 1 = m /\ Len(stream'.unread) \in Nat
          /\ Follows(stream'.unread, (n + o) + 1)
      BY <1>1, <2>2, <3>1, TailFollows
    <3>3. Head(stream.unread).number = n + (o + 1) /\ Len(stream'.out) = o + 1
      BY <1>1, <2>2, <3>2
    <3>4. Follows(stream'.out, n)
      BY <1>0, <1>1, <2>2, <3>2, <3>3, AppendFollows
    <3>5. stream'.last = stream.last
      BY <1>5, ForwardFacts
    <3>6. (n + o) + 1 = n + Len(stream'.out)
      BY <1>1, <3>3
    <3>7. stream'.sent = n + Len(stream'.out) + Len(stream'.unread)
      BY <1>1, <2>2, <3>1, <3>2, <3>3
    <3>8. QED
      BY <3>2, <3>4, <3>5, <3>6, <3>7 DEF Numbered, Follows
  <2>3. QED
    BY <1>5, <2>1, <2>2, ForwardFacts
<1>6. CASE Deliver
  <2>1. /\ stream.out # <<>> /\ stream'.last = Head(stream.out)
        /\ stream'.out = Tail(stream.out) /\ stream'.unread = stream.unread
        /\ stream'.at = stream.at /\ stream'.lagged = stream.lagged
        /\ stream'.sent = stream.sent
    BY <1>6, DeliverFacts
  <2>2. /\ stream'.last.number = n + 1 /\ Len(stream'.out) + 1 = o /\ Len(stream'.out) \in Nat
        /\ Follows(stream'.out, n + 1)
    BY <1>0, <1>1, <2>1, TailFollows
  <2>3. (n + 1) + Len(stream'.out) = n + o
    <3>1. ASSUME NEW k \in Nat, NEW a \in Nat, NEW b \in Nat, k + 1 = b PROVE (a + 1) + k = a + b
      BY <3>1
    <3>2. QED
      BY <1>1, <2>2, <3>1
  <2>4. (stream.at = "on" /\ ~stream.lagged) =>
           stream.sent = n + o + m /\ Follows(stream.unread, n + o)
    BY DEF Numbered, Follows
  <2>5. QED
    BY <2>1, <2>2, <2>3, <2>4 DEF Numbered, Follows
<1>7. QED
  BY <1>2, <1>3, <1>4, <1>5, <1>6, StreamSteps

-----------------------------------------------------------------------------
(* The blocks of the updates.  As long as nothing was rewound there is one *)
(* session: it enters the loop with its tips at the origin, so that no     *)
(* block is skipped as processed before, and broadcasts every block once.  *)

FirstSession ==
    seen.rewound = 0 =>
        /\ signals = 0
        /\ \A c \in Callers : \A step \in Rewinding : ~Doing(c, step)
        /\ session.at # "untips"
        /\ IF session.at \in BeforeLoop
           THEN db.chain_tip.slot = 0 /\ session.current_slot = 0
           ELSE session.current_slot <= session.next

LEMMA RewoundGrows ==
    ASSUME TypeInv, [Next]_vars
    PROVE  seen'.rewound = 0 => seen.rewound = 0
<1>1. SeenType /\ seen.rewound \in Nat
  BY DEF TypeInv, SeenType
<1>2. CASE SessionStep
  BY <1>1, <1>2
  DEF SeenType, HasFields, SessionStep, Resume, Connect, BuildFilter, SubscribeRestart, Restart,
      RollBackward, RewindWallet, BeginBlock, ProcessInput, DeleteUtxo, ProcessOutput, IndexUtxo,
      TrackTokens, WriteEvent, StoreMetadata, SaveTips, BroadcastBlock
<1>3. ASSUME NEW c \in Callers, RequestStep(c) PROVE seen'.rewound = seen.rewound
  BY <1>1, <1>3
  DEF SeenType, HasFields, RequestStep, ReadIndex, ReadOutput, ReadTip, SearchPolicy, ScanOutput,
      ReadEvent, ReadMetadata, ReadParent, FetchBlock, AddAddress, WalkBack, RewindTip,
      RewindWallets, SignalRestart, Reads
<1>4. ASSUME NEW c \in Callers, NEW op, NEW asked, Request(c, op, asked)
      PROVE  seen'.rewound = 0 => seen.rewound = 0
  <2>1. seen'.rewound \in {seen.rewound, seen.rewound + 1}
    BY <1>1, <1>4 DEF Request, SeenType, HasFields
  <2>2. QED
    BY <1>1, <2>1
<1>5. QED
  BY <1>2, <1>3, <1>4
  DEF Next, Forge, Leave, FollowTip, Forward, Deliver, CloseStream, vars

\* A block that is not below the stored tip is processed.
LEMMA FirstBegin ==
    ASSUME TypeInv, BeginBlock, session.current_slot <= session.next
    PROVE  /\ session'.at = "body" /\ session'.next = session.next
           /\ session'.current_slot = session.current_slot
<1>1. session \in Session /\ session.next \in Nat /\ session.current_slot \in Nat
  BY BlockNumbers DEF TypeInv, SessionType, Session
<1>2. ~(session.next < session.current_slot)
  BY <1>1
<1>3. \E b, e : session' = [session EXCEPT !.at = "body", !.pos = 1, !.made = <<>>,
                               !.spent = <<>>, !.event_index = 1, !.boundary = b, !.epoch = e]
  BY <1>2 DEF BeginBlock
<1>4. QED
  BY <1>1, <1>3 DEF Session

LEMMA FirstSessionStep ==
    ASSUME TypeInv, FirstSession, seen.rewound = 0, SessionStep
    PROVE  FirstSession'
<1>1. /\ signals = 0 /\ session.at # "untips"
      /\ \A c \in Callers : \A step \in Rewinding : ~Doing(c, step)
  BY DEF FirstSession
<1>2. UNCHANGED req
  BY DEF SessionStep, Resume, Connect, BuildFilter, SubscribeRestart, Restart,
         RollBackward, RewindWallet, BeginBlock, ProcessInput, DeleteUtxo, ProcessOutput, IndexUtxo,
         TrackTokens, WriteEvent, StoreMetadata, SaveTips, BroadcastBlock
<1>3. ~Restart /\ ~RewindWallet
  BY <1>1 DEF Restart, RewindWallet, At
<1>4. /\ session \in Session /\ session.next \in Nat /\ session.base \in Nat
      /\ session.current_slot \in Nat /\ HasFields(db, DOMAIN db)
  BY BlockNumbers DEF TypeInv, SessionType, Session, DbType, HasFields
<1>5. UNCHANGED signals
  BY <1>3
  DEF SessionStep, Resume, Connect, BuildFilter, SubscribeRestart,
      RollBackward, BeginBlock, ProcessInput, DeleteUtxo, ProcessOutput, IndexUtxo,
      TrackTokens, WriteEvent, StoreMetadata, SaveTips, BroadcastBlock
<1>6. \A c \in Callers : \A step \in Rewinding : ~Doing(c, step)'
  BY <1>1, <1>2 DEF Doing
<1> DEFINE Loops == /\ session'.at # "untips"
                    /\ IF session'.at \in BeforeLoop
                       THEN db'.chain_tip.slot = 0 /\ session'.current_slot = 0
                       ELSE session'.current_slot <= session'.next
<1>7. CASE Resume \/ Connect \/ BuildFilter \/ SubscribeRestart
  <2>1. UNCHANGED db /\ session.at \in BeforeLoop
    BY <1>7 DEF Resume, Connect, BuildFilter, SubscribeRestart, At, BeforeLoop
  <2>2. session'.at \in {"connect", "filter", "subscribe", "connected"}
        /\ session'.current_slot \in {session.current_slot, db.chain_tip.slot}
    BY <1>4, <1>7 DEF Resume, Connect, BuildFilter, SubscribeRestart, Session
  <2>3. db.chain_tip.slot = 0 /\ session.current_slot = 0
    BY <2>1 DEF FirstSession
  <2>4. Loops
    BY <2>1, <2>2, <2>3 DEF BeforeLoop
  <2>5. QED
    BY <1>1, <1>5, <1>6, <2>4 DEF FirstSession
<1>8. CASE RollBackward
  <2>1. session.at = "connected" /\ db.chain_tip.slot = 0 /\ session.current_slot = 0
    BY <1>8 DEF RollBackward, At, BeforeLoop, FirstSession
  <2>2. session' = [session EXCEPT !.at = "idle"]
    BY <1>4, <1>8, <2>1 DEF RollBackward
  <2>3. session'.at = "idle" /\ session'.current_slot = 0 /\ session'.next = session.next
    BY <1>4, <2>1, <2>2 DEF Session
  <2>4. Loops
    BY <1>4, <2>3 DEF BeforeLoop
  <2>5. QED
    BY <1>1, <1>5, <1>6, <2>4 DEF FirstSession
<1>9. CASE BeginBlock \/ StoreMetadata \/ BroadcastBlock
  <2>1. session.at \notin BeforeLoop /\ session.current_slot <= session.next
    <3>1. session.at \in {"idle", "events", "broadcast"}
      BY <1>9 DEF BeginBlock, StoreMetadata, BroadcastBlock, At
    <3>2. QED
      BY <3>1 DEF FirstSession, BeforeLoop
  <2>2. CASE BeginBlock
    <3>1. session'.at = "body" /\ session'.next = session.next
          /\ session'.current_slot = session.current_slot
      BY <2>1, <2>2, FirstBegin
    <3>2. QED
      BY <1>1, <1>5, <1>6, <2>1, <3>1 DEF FirstSession, BeforeLoop
  <2>3. CASE StoreMetadata
    <3>1. session'.at \in {"tips", "broadcast"} /\ session'.next = session.next
          /\ session'.current_slot = session.next
      BY <1>4, <2>3 DEF StoreMetadata, Session
    <3>2. QED
      BY <1>1, <1>4, <1>5, <1>6, <3>1 DEF FirstSession, BeforeLoop
  <2>4. CASE BroadcastBlock
    <3>1. session'.at = "idle" /\ session'.next = session.next + 1
          /\ session'.current_slot = session.current_slot
      BY <1>4, <2>4 DEF BroadcastBlock, Session
    <3>2. session'.current_slot <= session'.next
      BY <1>4, <2>1, <3>1
    <3>3. QED
      BY <1>1, <1>5, <1>6, <3>1, <3>2 DEF FirstSession, BeforeLoop
  <2>5. QED
    BY <1>9, <2>2, <2>3, <2>4
<1>10. CASE \/ ProcessInput \/ DeleteUtxo \/ ProcessOutput \/ IndexUtxo \/ TrackTokens
            \/ WriteEvent \/ SaveTips
  <2>1. session.at \in InBlock
    BY <1>10 DEF ProcessInput, DeleteUtxo, ProcessOutput, IndexUtxo, TrackTokens, WriteEvent,
                 SaveTips, At, InBlock
  <2>2. session.current_slot <= session.next
    BY <2>1 DEF FirstSession, InBlock, BeforeLoop
  <2>3. /\ session'.next = session.next /\ session'.current_slot = session.current_slot
        /\ session'.at \in {"body", "spend", "index", "events", "tips", "broadcast"}
    BY <1>4, <1>10 DEF ProcessInput, DeleteUtxo, ProcessOutput, IndexUtxo, TrackTokens,
                       WriteEvent, SaveTips, At, Session
  <2>4. QED
    BY <1>1, <1>5, <1>6, <2>2, <2>3 DEF FirstSession, BeforeLoop
<1>11. QED
  BY <1>3, <1>7, <1>8, <1>9, <1>10 DEF SessionStep

LEMMA FirstNext ==
    ASSUME TypeInv, FirstSession, [Next]_vars
    PROVE  FirstSession'
<1> SUFFICES ASSUME seen'.rewound = 0 PROVE FirstSession'
  BY DEF FirstSession
<1>1. seen.rewound = 0
  BY RewoundGrows
<1>2. /\ signals = 0 /\ session.at # "untips"
      /\ \A c \in Callers : \A step \in Rewinding : ~Doing(c, step)
  BY <1>1 DEF FirstSession
<1>3. CASE SessionStep
  BY <1>1, <1>3, FirstSessionStep
<1>4. ASSUME UNCHANGED <<db, signals, session>>,
             \A c \in Callers : \A step \in Rewinding : ~Doing(c, step)'
      PROVE  FirstSession'
  BY <1>1, <1>4 DEF FirstSession
<1>5. ASSUME NEW c \in Callers, NEW op \in Operations \ {"FollowTip"},
             NEW asked \in Questions(op), Request(c, op, asked)
      PROVE  FirstSession'
  <2>1. op # "AddAddressAndRollback"
    <3>1. op = "AddAddressAndRollback" => seen'.rewound = seen.rewound + 1
      BY <1>5 DEF Request, TypeInv, SeenType, HasFields
    <3>2. QED
      BY <1>1, <3>1
  <2>2. FirstStep[op] \notin Rewinding
    BY <2>1 DEF FirstStep, Operations, Rewinding
  <2>3. req'[c].at = FirstStep[op] /\ \A d \in Callers \ {c} : req'[d] = req[d]
    BY <1>5, RequestStepType
  <2>4. QED
    BY <1>2, <1>4, <1>5, <2>2, <2>3 DEF Request, Doing
<1>6. ASSUME NEW c \in Callers, RequestStep(c) PROVE FirstSession'
  <2>1. \/ ReadIndex(c) \/ ReadOutput(c) \/ ReadTip(c) \/ SearchPolicy(c) \/ ScanOutput(c)
        \/ ReadEvent(c) \/ ReadMetadata(c) \/ ReadParent(c) \/ FetchBlock(c)
    BY <1>2, <1>6
    DEF RequestStep, AddAddress, WalkBack, RewindTip, RewindWallets, SignalRestart, Rewinding
  <2>2. /\ req'[c].at \notin Rewinding /\ \A d \in Callers \ {c} : req'[d] = req[d]
        /\ UNCHANGED <<db, signals, session>>
    BY <2>1, QueryType
  <2>3. QED
    BY <1>2, <1>4, <2>2 DEF Doing
<1>7. ASSUME NEW c \in Callers, Leave(c) PROVE FirstSession'
  <2>1. req'[c] = NoRequest /\ \A d \in Callers \ {c} : req'[d] = req[d]
    BY <1>7, LeaveType
  <2>2. QED
    BY <1>2, <1>4, <1>7, <2>1 DEF Leave, Doing, NoRequest
<1>8. CASE \/ Forge \/ (\E c \in Callers : FollowTip(c)) \/ Forward \/ Deliver \/ CloseStream
           \/ UNCHANGED vars
  <2>1. UNCHANGED <<db, signals, session, req>>
    BY <1>8 DEF Forge, FollowTip, Forward, Deliver, CloseStream, vars
  <2>2. QED
    BY <1>2, <1>4, <2>1 DEF Doing
<1>9. \A c \in Callers : Asks[c] \subseteq Operations
  BY IndexerConstants
<1>10. QED
  BY <1>3, <1>5, <1>6, <1>7, <1>8, <1>9 DEF Next

-----------------------------------------------------------------------------
\* The updates that reach the client or have reached it last, and those that
\* wait in the broadcast channel.
Held == ToSet(stream.out) \cup ({stream.last} \ {NoUpdate})

Waiting == ToSet(stream.unread)

\* Two updates are as many blocks apart as updates.
InStep(u, v) == u.block + v.number = v.block + u.number

\* What is sent next would be in step with u.
Continues(u, sent, next) == u.block + sent + 1 = next + u.number

Aligned ==
    /\ \A u, v \in Held : InStep(u, v)
    /\ (stream.at = "on" /\ ~stream.lagged) =>
          \A u \in Held \cup Waiting : Continues(u, stream.sent, session.next)

StreamBlocks ==
    seen.rewound = 0 =>
        /\ session.at \in BeforeLoop => Held = {} /\ Waiting = {}
        /\ Aligned

LEMMA QueueFacts ==
    ASSUME NEW queue \in Seq(Update)
    PROVE  /\ ToSet(queue) \subseteq Update
           /\ \A u \in Update : ToSet(Append(queue, u)) = ToSet(queue) \cup {u}
           /\ queue # <<>> => /\ Head(queue) \in ToSet(queue)
                             /\ ToSet(Tail(queue)) \subseteq ToSet(queue)
<1>1. ToSet(queue) \subseteq Update
  BY DEF ToSet
<1>2. ASSUME NEW u \in Update PROVE ToSet(Append(queue, u)) = ToSet(queue) \cup {u}
  <2>1. /\ Len(queue) \in Nat /\ DOMAIN queue = 1 .. Len(queue)
        /\ DOMAIN Append(queue, u) = 1 .. Len(queue) + 1
        /\ Append(queue, u)[Len(queue) + 1] = u
        /\ \A i \in 1 .. Len(queue) : Append(queue, u)[i] = queue[i]
    OBVIOUS
  <2>2. 1 .. Len(queue) + 1 = (1 .. Len(queue)) \cup {Len(queue) + 1}
    BY <2>1
  <2>3. QED
    BY <2>1, <2>2 DEF ToSet
<1>3. CASE queue # <<>>
  <2>1. /\ Len(queue) \in Nat /\ Len(queue) >= 1 /\ DOMAIN queue = 1 .. Len(queue)
        /\ Head(queue) = queue[1] /\ DOMAIN Tail(queue) = 1 .. Len(queue) - 1
        /\ \A i \in 1 .. Len(queue) - 1 : Tail(queue)[i] = queue[i + 1]
    BY <1>3
  <2>2. 1 \in DOMAIN queue /\ \A i \in 1 .. Len(queue) - 1 : i + 1 \in DOMAIN queue
    BY <2>1
  <2>3. QED
    BY <2>1, <2>2 DEF ToSet
<1>4. QED
  BY <1>1, <1>2, <1>3

\* Updates that continue with the same block are in step.
LEMMA ContinuingInStep ==
    ASSUME NEW u \in Update, NEW v \in Update, NEW sent \in Nat, NEW next \in Nat,
           Continues(u, sent, next), Continues(v, sent, next)
    PROVE  InStep(u, v)
<1>1. u.block \in Nat /\ v.block \in Nat /\ u.number \in Nat /\ v.number \in Nat
  BY BlockNumbers DEF Update
<1>2. QED
  BY <1>1 DEF Continues, InStep

LEMMA HeldFacts ==
    ASSUME TypeInv
    PROVE  /\ stream.out \in Seq(Update) /\ stream.unread \in Seq(Update)
           /\ Held \subseteq Update /\ Waiting \subseteq Update
           /\ stream.sent \in Nat /\ session.next \in Nat
<1>1. /\ stream.out \in Seq(Update) /\ stream.unread \in Seq(Update)
      /\ stream.last \in Update \cup {NoUpdate} /\ stream.sent \in Nat
  BY DEF TypeInv, StreamType, Stream
<1>2. session.next \in Nat
  BY BlockNumbers DEF TypeInv, SessionType, Session
<1>3. QED
  BY <1>1, <1>2, QueueFacts DEF Held, Waiting

LEMMA BroadcastAligned ==
    ASSUME TypeInv, Aligned, BroadcastBlock
    PROVE  Aligned'
<1> DEFINE u == [block |-> session.next, number |-> stream.sent + 1]
<1>1. Held' = Held
  BY SentFacts DEF Held
<1>2. CASE stream'.lagged
  BY <1>1, <1>2 DEF Aligned
<1>3. CASE stream.at # "on" /\ UNCHANGED stream
  BY <1>1, <1>3 DEF Aligned
<1>4. CASE /\ stream.at = "on" /\ ~stream.lagged
           /\ stream'.sent = stream.sent + 1
           /\ stream'.unread = Append(stream.unread, u)
  <2>1. /\ session.next \in Blocks /\ session'.next = session.next + 1
    BY DEF TypeInv, SessionType, Session, InBlock, BroadcastBlock, At
  <2>2. u \in Update
    <3>1. stream.sent + 1 \in Nat
      BY HeldFacts
    <3>2. QED
      BY <2>1, <3>1 DEF Update
  <2>3. Waiting' = Waiting \cup {u}
    BY <1>4, <2>2, HeldFacts, QueueFacts DEF Waiting
  <2>4. ASSUME NEW v \in Held \cup Waiting PROVE Continues(v, stream'.sent, session'.next)
    <3>1. Continues(v, stream.sent, session.next)
      BY <1>4 DEF Aligned
    <3>2. v.block \in Nat /\ v.number \in Nat /\ stream.sent \in Nat /\ session.next \in Nat
      BY HeldFacts, BlockNumbers DEF Update
    <3>3. ASSUME NEW b \in Nat, NEW n \in Nat, NEW s \in Nat, NEW x \in Nat, b + s + 1 = x + n
          PROVE  b + (s + 1) + 1 = (x + 1) + n
      BY <3>3
    <3>4. v.block + (stream.sent + 1) + 1 = (session.next + 1) + v.number
      BY <3>1, <3>2, <3>3 DEF Continues
    <3>5. stream'.sent = stream.sent + 1 /\ session'.next = session.next + 1
      BY <1>4, <2>1
    <3>6. QED
      BY <3>4, <3>5 DEF Continues
  <2>5. Continues(u, stream'.sent, session'.next)
    <3>1. u.block = session.next /\ u.number = stream.sent + 1
          /\ stream.sent \in Nat /\ session.next \in Nat
      BY HeldFacts
    <3>2. QED
      BY <1>4, <2>1, <3>1 DEF Continues
  <2>6. QED
    BY <1>1, <2>3, <2>4, <2>5 DEF Aligned
<1>5. QED
  BY <1>2, <1>3, <1>4, SentFacts

LEMMA StreamAligned ==
    ASSUME TypeInv, Aligned, Forward \/ Deliver
    PROVE  Aligned' /\ Held' \subseteq Held \cup Waiting /\ Waiting' \subseteq Waiting
<1>1. UNCHANGED session
  BY DEF Forward, Deliver
<1>2. /\ stream.out \in Seq(Update) /\ stream.unread \in Seq(Update)
      /\ Held \subseteq Update /\ Waiting \subseteq Update
      /\ stream.sent \in Nat /\ session.next \in Nat
  BY HeldFacts
<1>3. CASE Forward
  <2>1. stream'.last = stream.last
    BY <1>3, ForwardFacts
  <2>2. CASE stream'.at = "ended" /\ stream'.out = stream.out /\ stream'.unread = <<>>
    BY <2>1, <2>2 DEF Aligned, Held, Waiting, ToSet
  <2>3. CASE /\ stream.at = "on" /\ ~stream.lagged /\ stream.unread # <<>>
             /\ stream'.sent = stream.sent
             /\ stream'.unread = Tail(stream.unread)
             /\ stream'.out = Append(stream.out, Head(stream.unread))
    <3>1. /\ Head(stream.unread) \in Waiting /\ Waiting' \subseteq Waiting
          /\ Held' = Held \cup {Head(stream.unread)}
      <4>1. Head(stream.unread) \in Waiting /\ Waiting' \subseteq Waiting
        BY <1>2, <2>3, QueueFacts DEF Waiting
      <4>2. ToSet(stream'.out) = ToSet(stream.out) \cup {Head(stream.unread)}
        BY <1>2, <2>3, <4>1, QueueFacts
      <4>3. QED
        BY <2>1, <4>1, <4>2 DEF Held
    <3>2. \A u \in Held \cup Waiting : Continues(u, stream.sent, session.next)
      BY <2>3 DEF Aligned
    <3>3. Held' \subseteq Held \cup Waiting
      BY <3>1
    <3>4. \A u, v \in Held' : InStep(u, v)
      BY <1>2, <3>2, <3>3, ContinuingInStep
    <3>5. \A u \in Held' \cup Waiting' : Continues(u, stream'.sent, session'.next)
      BY <1>1, <2>3, <3>1, <3>2, <3>3
    <3>6. QED
      BY <3>1, <3>3, <3>4, <3>5 DEF Aligned
  <2>4. QED
    BY <1>3, <2>2, <2>3, ForwardFacts
<1>4. CASE Deliver
  <2>1. /\ stream.out # <<>> /\ stream'.last = Head(stream.out)
        /\ stream'.out = Tail(stream.out) /\ stream'.unread = stream.unread
        /\ stream'.at = stream.at /\ stream'.lagged = stream.lagged
        /\ stream'.sent = stream.sent
    BY <1>4, DeliverFacts
  <2>2. Held' \subseteq Held /\ Waiting' = Waiting
    BY <1>2, <2>1, QueueFacts DEF Held, Waiting
  <2>3. QED
    BY <1>1, <2>1, <2>2 DEF Aligned
<1>5. QED
  BY <1>3, <1>4

LEMMA BlocksNext ==
    ASSUME TypeInv, FirstSession, StreamBlocks, [Next]_vars
    PROVE  StreamBlocks'
<1> SUFFICES ASSUME seen'.rewound = 0
             PROVE  /\ session'.at \in BeforeLoop => Held' = {} /\ Waiting' = {}
                    /\ Aligned'
  BY DEF StreamBlocks
<1>1. /\ seen.rewound = 0 /\ Aligned
      /\ session.at \in BeforeLoop => Held = {} /\ Waiting = {}
  BY RewoundGrows DEF StreamBlocks
<1>2. CASE BroadcastBlock
  <2>1. session'.at = "idle"
    BY <1>2 DEF BroadcastBlock, TypeInv, SessionType, Session
  <2>2. QED
    BY <1>1, <1>2, <2>1, BroadcastAligned DEF BeforeLoop
<1>3. CASE SessionStep /\ ~BroadcastBlock
  <2>1. UNCHANGED stream
    BY <1>3
    DEF SessionStep, Resume, Connect, BuildFilter, SubscribeRestart, Restart, RollBackward,
        RewindWallet, BeginBlock, ProcessInput, DeleteUtxo, ProcessOutput, IndexUtxo,
        TrackTokens, WriteEvent, StoreMetadata, SaveTips
  <2>2. \/ session.at \in BeforeLoop
        \/ session.at \notin BeforeLoop /\ session'.at \notin BeforeLoop
           /\ session'.next = session.next
    <3>1. /\ signals = 0 /\ session.at # "untips" /\ session \in Session
          /\ session.at \notin BeforeLoop => session.current_slot <= session.next
          /\ session.next \in Nat /\ session.current_slot \in Nat
      BY <1>1, BlockNumbers DEF FirstSession, TypeInv, SessionType, Session
    <3>2. ~Restart /\ ~RewindWallet
      BY <3>1 DEF Restart, RewindWallet, At
    <3>3. CASE Resume \/ Connect \/ BuildFilter \/ SubscribeRestart \/ RollBackward
      BY <3>3 DEF Resume, Connect, BuildFilter, SubscribeRestart, RollBackward, At, BeforeLoop
    <3>4. CASE BeginBlock
      <4>1. session.at = "idle" /\ session.current_slot <= session.next
        BY <3>1, <3>4 DEF BeginBlock, At, BeforeLoop
      <4>2. QED
        BY <3>4, <4>1, FirstBegin DEF BeforeLoop
    <3>5. CASE \/ ProcessInput \/ DeleteUtxo \/ ProcessOutput \/ IndexUtxo \/ TrackTokens
               \/ WriteEvent \/ StoreMetadata \/ SaveTips
      <4>1. /\ session'.next = session.next
            /\ session'.at \in {"body", "spend", "index", "events", "tips", "broadcast"}
            /\ session.at \in {"body", "spend", "index", "events", "tips"}
        BY <3>1, <3>5 DEF ProcessInput, DeleteUtxo, ProcessOutput, IndexUtxo, TrackTokens,
                          WriteEvent, StoreMetadata, SaveTips, At, Session
      <4>2. QED
        BY <4>1 DEF BeforeLoop
    <3>6. QED
      BY <1>3, <3>2, <3>3, <3>4, <3>5 DEF SessionStep
  <2>3. Held' = Held /\ Waiting' = Waiting
    BY <2>1 DEF Held, Waiting
  <2>4. QED
    BY <1>1, <2>1, <2>2, <2>3 DEF Aligned
<1>4. CASE Forward \/ Deliver
  <2>1. UNCHANGED session
    BY <1>4 DEF Forward, Deliver
  <2>2. QED
    BY <1>1, <1>4, <2>1, StreamAligned
<1>5. CASE (\E c \in Callers : FollowTip(c)) \/ CloseStream
  <2>1. stream'.out = <<>> /\ stream'.unread = <<>> /\ stream'.last = NoUpdate
    BY <1>5 DEF FollowTip, CloseStream, NoStream
  <2>2. Held' = {} /\ Waiting' = {}
    BY <2>1 DEF Held, Waiting, ToSet
  <2>3. QED
    BY <2>2 DEF Aligned
<1>6. CASE UNCHANGED <<stream, session>>
  BY <1>1, <1>6 DEF Aligned, Held, Waiting
<1>7. ASSUME NEW c \in Callers, RequestStep(c) PROVE UNCHANGED <<stream, session>>
  BY <1>7
  DEF RequestStep, ReadIndex, ReadOutput, ReadTip, SearchPolicy, ScanOutput,
      ReadEvent, ReadMetadata, ReadParent, FetchBlock, AddAddress, WalkBack, RewindTip,
      RewindWallets, SignalRestart, Reads
<1>8. QED
  BY <1>2, <1>3, <1>4, <1>5, <1>6, <1>7 DEF Next, Forge, Request, Leave, vars

StreamInv ==
    /\ IndexInv
    /\ Numbered
    /\ FirstSession
    /\ StreamBlocks

LEMMA InitStream == Init => StreamInv
<1> SUFFICES ASSUME Init PROVE StreamInv
  OBVIOUS
<1>1. /\ stream.out = <<>> /\ stream.unread = <<>> /\ stream.last = NoUpdate
      /\ stream.at = "off"
  BY DEF Init, NoStream
<1>2. Numbered
  BY <1>1 DEF Numbered, Follows
<1>3. FirstSession
  BY DEF Init, FirstSession, NewSession, BeforeLoop, NoTip, NoRequest, Doing
<1>4. StreamBlocks
  BY <1>1 DEF StreamBlocks, Aligned, Held, Waiting, ToSet
<1>5. QED
  BY <1>2, <1>3, <1>4, InitIndex DEF StreamInv

LEMMA NextStream == StreamInv /\ [Next]_vars => StreamInv'
<1> SUFFICES ASSUME StreamInv, [Next]_vars PROVE StreamInv'
  OBVIOUS
<1>1. IndexInv' /\ TypeInv /\ TypeInv'
  BY NextIndex DEF StreamInv, IndexInv
<1>2. QED
  BY <1>1, NumberedNext, FirstNext, BlocksNext DEF StreamInv

\* Only a delivery gives the client an update, and that one comes next.
LEMMA NextUpdate ==
    ASSUME StreamInv, [Next]_vars, stream'.last \notin {stream.last, NoUpdate}
    PROVE  /\ stream'.last.number = stream.last.number + 1
           /\ (seen.rewound = 0 /\ stream.last # NoUpdate) =>
                 stream'.last.block = stream.last.block + 1
<1>1. TypeInv
  BY DEF StreamInv, IndexInv
<1>2. Deliver
  <2>1. BroadcastBlock \/ Forward => stream'.last = stream.last
    BY <1>1, SentFacts, ForwardFacts
  <2>2. (\E c \in Callers : FollowTip(c)) \/ CloseStream => stream'.last = NoUpdate
    BY DEF FollowTip, CloseStream, NoStream
  <2>3. QED
    BY <2>1, <2>2, StreamSteps
<1>3. /\ stream.out # <<>> /\ stream'.last = Head(stream.out)
      /\ stream.out \in Seq(Update) /\ stream.last.number \in Nat
  BY <1>1, <1>2, DeliverFacts, StreamFacts DEF TypeInv
<1>4. stream'.last.number = stream.last.number + 1
  BY <1>3, TailFollows DEF StreamInv, Numbered
<1>5. ASSUME seen.rewound = 0, stream.last # NoUpdate
      PROVE  stream'.last.block = stream.last.block + 1
  <2>1. stream.last \in Held /\ stream'.last \in Held
    BY <1>3, <1>5, QueueFacts DEF Held
  <2>2. stream.last.block + stream'.last.number = stream'.last.block + stream.last.number
    BY <1>5, <2>1 DEF StreamInv, StreamBlocks, Aligned, InStep
  <2>3. stream.last.block \in Nat /\ stream'.last.block \in Nat
    BY <1>1, <2>1, HeldFacts, BlockNumbers DEF Update
  <2>4. QED
    BY <1>3, <1>4, <2>2, <2>3
<1>6. QED
  BY <1>4, <1>5

(***************************************************************************)
(* A FollowTip client gets every update sent since it subscribed, in       *)
(* order, for any bounds of the two channels: a receiver that lags is cut  *)
(* off (follow_tip).  Until a rewind is asked for, the updates are         *)
(* consecutive blocks.                                                     *)
(***************************************************************************)
THEOREM StreamStaysWhole == Spec => StreamNeverSkips
<1>1. StreamInv /\ [Next]_vars =>
         [stream'.last \notin {stream.last, NoUpdate} =>
             /\ stream'.last.number = stream.last.number + 1
             /\ (seen.rewound = 0 /\ stream.last # NoUpdate) =>
                   stream'.last.block = stream.last.block + 1]_vars
  BY NextUpdate
<1>2. QED
  BY <1>1, InitStream, NextStream, PTL DEF Spec, StreamNeverSkips

-----------------------------------------------------------------------------
(* The chain.                                                              *)

\* k is spent by an item before the i-th of block b.
Gone(k, b, i) == SpentBy(k, b - 1) \/ \E j \in 1 .. i - 1 : Body[b][j] = <<"in", k>>

LEMMA BodyFacts ==
    ASSUME NEW b \in Blocks
    PROVE  /\ Len(Body[b]) \in Nat
           /\ DOMAIN Body[b] = 1 .. Len(Body[b])
           /\ \A i \in 1 .. Len(Body[b]) :
                 /\ Body[b][i] \in {"in", "out"} \X Keys
                 /\ Body[b][i] = <<Body[b][i][1], Body[b][i][2]>>
                 /\ Body[b][i][1] = "in" \/ Body[b][i][1] = "out"
                 /\ Body[b][i][2] \in Keys
           /\ \A e : e \in ToSet(Body[b]) <=> \E i \in 1 .. Len(Body[b]) : Body[b][i] = e
<1>1. Body[b] \in Seq({"in", "out"} \X Keys)
  BY IndexerConstants, ElementOfSeq DEF Blocks
<1>2. /\ Len(Body[b]) \in Nat /\ DOMAIN Body[b] = 1 .. Len(Body[b])
      /\ \A i \in 1 .. Len(Body[b]) : Body[b][i] \in {"in", "out"} \X Keys
  BY <1>1, LenProperties, ElementOfSeq
<1>3. ASSUME NEW e
      PROVE  e \in ToSet(Body[b]) <=> \E i \in 1 .. Len(Body[b]) : Body[b][i] = e
  BY <1>2 DEF ToSet
<1>4. QED
  BY <1>2, <1>3

\* Two items with the same key: the output comes first.
LEMMA TwoItems ==
    ASSUME NEW b \in Blocks, NEW c \in Blocks,
           NEW i \in 1 .. Len(Body[b]), NEW j \in 1 .. Len(Body[c]), NEW k
    PROVE  /\ (Body[b][i] = <<"in", k>> /\ Body[c][j] = <<"in", k>>) => b = c /\ i = j
           /\ (Body[b][i] = <<"out", k>> /\ Body[c][j] = <<"out", k>>) => b = c /\ i = j
           /\ (Body[b][i] = <<"out", k>> /\ Body[c][j] = <<"in", k>>) => Earlier(b, i, c, j)
<1>1. i \in DOMAIN Body[b] /\ j \in DOMAIN Body[c]
  BY BodyFacts
<1>2. ASSUME Body[b][i][2] = Body[c][j][2], <<b, i>> # <<c, j>>
      PROVE  \/ Body[b][i][1] = "out" /\ Body[c][j][1] = "in" /\ Earlier(b, i, c, j)
             \/ Body[c][j][1] = "out" /\ Body[b][i][1] = "in" /\ Earlier(c, j, b, i)
  BY <1>1, <1>2, LedgerRules
<1>3. ASSUME Body[b][i][2] = Body[c][j][2], Body[b][i][1] = Body[c][j][1]
      PROVE  b = c /\ i = j
  BY <1>2, <1>3
<1>4. ASSUME Body[b][i] = <<"out", k>>, Body[c][j] = <<"in", k>>
      PROVE  Earlier(b, i, c, j)
  <2>1. <<b, i>> # <<c, j>>
    BY <1>4
  <2>2. QED
    BY <1>2, <1>4, <2>1
<1>5. QED
  BY <1>3, <1>4

LEMMA CreatorFacts ==
    ASSUME NEW k \in Keys
    PROVE  /\ Creator(k) \in Blocks /\ Creator(k) \in Nat /\ Creator(k) >= 1
           /\ \E i \in 1 .. Len(Body[Creator(k)]) : Body[Creator(k)][i] = <<"out", k>>
           /\ \A b \in Blocks : \A i \in 1 .. Len(Body[b]) :
                 Body[b][i] = <<"out", k>> => b = Creator(k)
<1>1. \E b \in Blocks : <<"out", k>> \in ToSet(Body[b])
  BY KeyTypes
<1>2. Creator(k) \in Blocks /\ <<"out", k>> \in ToSet(Body[Creator(k)])
  BY <1>1 DEF Creator
<1>3. PICK i \in 1 .. Len(Body[Creator(k)]) : Body[Creator(k)][i] = <<"out", k>>
  BY <1>2, BodyFacts
<1>4. \A b \in Blocks : \A j \in 1 .. Len(Body[b]) : Body[b][j] = <<"out", k>> => b = Creator(k)
  BY <1>2, <1>3, TwoItems
<1>5. Creator(k) \in Nat /\ Creator(k) >= 1
  BY <1>2, BlockNumbers
<1>6. QED
  BY <1>2, <1>3, <1>4, <1>5

LEMMA SpentByFacts ==
    ASSUME NEW b \in 0 .. N, NEW k
    PROVE  /\ SpentBy(k, b) <=> \E x \in 1 .. b : \E i \in 1 .. Len(Body[x]) : Body[x][i] = <<"in", k>>
           /\ \A a \in 0 .. b : SpentBy(k, a) => SpentBy(k, b)
<1>1. \A x \in 1 .. b : x \in Blocks
  BY BlockNumbers
<1>2. SpentBy(k, b) <=> \E x \in 1 .. b : \E i \in 1 .. Len(Body[x]) : Body[x][i] = <<"in", k>>
  <2>1. ASSUME NEW x \in 1 .. b
        PROVE  <<"in", k>> \in ToSet(Body[x]) <=>
                   \E i \in 1 .. Len(Body[x]) : Body[x][i] = <<"in", k>>
    <3>1. x \in Blocks
      BY <1>1
    <3>2. QED
      BY <3>1, BodyFacts
  <2>2. QED
    BY <2>1 DEF SpentBy
<1>3. \A a \in 0 .. b : 1 .. a \subseteq 1 .. b
  BY BlockNumbers
<1>4. QED
  BY <1>2, <1>3 DEF SpentBy

\* What an item spends has been made and not been spent before it.
LEMMA SpendFacts ==
    ASSUME NEW b \in Blocks, NEW i \in 1 .. Len(Body[b]), NEW k, Body[b][i] = <<"in", k>>
    PROVE  /\ k \in Keys /\ Creator(k) <= b
           /\ Creator(k) = b => \E j \in 1 .. i - 1 : Body[b][j] = <<"out", k>>
           /\ ~Gone(k, b, i)
           /\ \A x \in 0 .. N : b <= x => SpentBy(k, x)
<1>1. k \in Keys /\ b \in 1 .. N /\ N \in Nat
  BY BodyFacts, BlockNumbers
<1>2. PICK j \in 1 .. Len(Body[Creator(k)]) : Body[Creator(k)][j] = <<"out", k>>
  BY <1>1, CreatorFacts
<1>3. Earlier(Creator(k), j, b, i)
  <2>1. Creator(k) \in Blocks
    BY <1>1, CreatorFacts
  <2>2. QED
    BY <1>2, <2>1, TwoItems
<1>4. j \in Nat /\ Len(Body[b]) \in Nat /\ Creator(k) \in Nat /\ i \in Nat
  BY <1>1, <1>2, BodyFacts, CreatorFacts
<1>5. Creator(k) <= b /\ (Creator(k) = b => j \in 1 .. i - 1)
  BY <1>1, <1>2, <1>3, <1>4 DEF Earlier
<1>6. ~SpentBy(k, b - 1)
  <2>1. SUFFICES ASSUME SpentBy(k, b - 1) PROVE FALSE
    OBVIOUS
  <2>2. b - 1 \in 0 .. N
    BY <1>1
  <2>3. PICK x \in 1 .. b - 1 : \E m \in 1 .. Len(Body[x]) : Body[x][m] = <<"in", k>>
    BY <2>1, <2>2, SpentByFacts
  <2>4. x \in Blocks /\ x # b
    BY <1>1, BlockNumbers
  <2>5. QED
    BY <2>3, <2>4, TwoItems
<1>7. ASSUME NEW m \in 1 .. i - 1, Body[b][m] = <<"in", k>> PROVE FALSE
  <2>1. m \in 1 .. Len(Body[b]) /\ m # i
    BY <1>4
  <2>2. QED
    BY <1>7, <2>1, TwoItems
<1>8. ASSUME NEW x \in 0 .. N, b <= x PROVE SpentBy(k, x)
  <2>1. b \in 1 .. x
    BY <1>1, <1>8
  <2>2. QED
    BY <2>1, SpentByFacts
<1>9. QED
  BY <1>1, <1>2, <1>5, <1>6, <1>7, <1>8 DEF Gone

\* What an item makes has not been spent before it.
LEMMA MakeFacts ==
    ASSUME NEW b \in Blocks, NEW i \in 1 .. Len(Body[b]), NEW k, Body[b][i] = <<"out", k>>
    PROVE  k \in Keys /\ Creator(k) = b /\ ~Gone(k, b, i)
<1>1. k \in Keys /\ b \in 1 .. N /\ N \in Nat /\ i \in Nat /\ Len(Body[b]) \in Nat
  BY BodyFacts, BlockNumbers
<1>2. ASSUME NEW x \in 1 .. b - 1, NEW m \in 1 .. Len(Body[x]), Body[x][m] = <<"in", k>>
      PROVE  FALSE
  <2>1. x \in Blocks
    BY <1>1, BlockNumbers
  <2>2. Earlier(b, i, x, m)
    BY <1>2, <2>1, TwoItems
  <2>3. QED
    BY <1>1, <2>2 DEF Earlier
<1>3. b - 1 \in 0 .. N
  BY <1>1
<1>4. ~SpentBy(k, b - 1)
  BY <1>2, <1>3, SpentByFacts
<1>5. ASSUME NEW m \in 1 .. i - 1, Body[b][m] = <<"in", k>> PROVE FALSE
  <2>1. m \in 1 .. Len(Body[b]) /\ m \in Nat /\ m < i
    BY <1>1
  <2>2. Earlier(b, i, b, m)
    BY <1>5, <2>1, TwoItems
  <2>3. QED
    BY <1>1, <2>1, <2>2 DEF Earlier
<1>6. QED
  BY <1>1, <1>4, <1>5, CreatorFacts DEF Gone

\* One item more, none and all of a block.
LEMMA GoneFacts ==
    ASSUME NEW k
    PROVE  /\ \A b : \A i \in Nat \ {0} :
                 Gone(k, b, i + 1) <=> Gone(k, b, i) \/ Body[b][i] = <<"in", k>>
           /\ \A b : Gone(k, b, 1) <=> SpentBy(k, b - 1)
           /\ \A b \in Blocks : Gone(k, b, Len(Body[b]) + 1) <=> SpentBy(k, b)
<1>1. ASSUME NEW b, NEW i \in Nat \ {0}
      PROVE  Gone(k, b, i + 1) <=> Gone(k, b, i) \/ Body[b][i] = <<"in", k>>
  <2>1. 1 .. i + 1 - 1 = (1 .. i - 1) \cup {i}
    OBVIOUS
  <2>2. QED
    BY <2>1 DEF Gone
<1>2. ASSUME NEW b PROVE Gone(k, b, 1) <=> SpentBy(k, b - 1)
  <2>1. 1 .. 1 - 1 = {}
    OBVIOUS
  <2>2. QED
    BY <2>1 DEF Gone
<1>3. ASSUME NEW b \in Blocks PROVE Gone(k, b, Len(Body[b]) + 1) <=> SpentBy(k, b)
  <2>1. b \in 1 .. N /\ N \in Nat /\ Len(Body[b]) \in Nat
    BY BodyFacts, BlockNumbers
  <2>2. b - 1 \in 0 .. N /\ b \in 0 .. N /\ 1 .. b = (1 .. b - 1) \cup {b}
    BY <2>1
  <2>3. 1 .. Len(Body[b]) + 1 - 1 = 1 .. Len(Body[b])
    BY <2>1
  <2>4. \A x \in 0 .. N : SpentBy(k, x) <=>
            \E y \in 1 .. x : \E i \in 1 .. Len(Body[y]) : Body[y][i] = <<"in", k>>
    BY SpentByFacts
  <2>5. SpentBy(k, b) <=> SpentBy(k, b - 1) \/ \E i \in 1 .. Len(Body[b]) : Body[b][i] = <<"in", k>>
    BY <2>2, <2>4
  <2>6. Gone(k, b, Len(Body[b]) + 1) <=>
            SpentBy(k, b - 1) \/ \E i \in 1 .. Len(Body[b]) : Body[b][i] = <<"in", k>>
    BY <2>3 DEF Gone
  <2>7. QED
    BY <2>5, <2>6
<1>4. QED
  BY <1>1, <1>2, <1>3
\* At its first item, what a block finds spent is what the ones before spent.
LEMMA GoneFirst ==
    ASSUME NEW k, NEW b \in Nat
    PROVE  Gone(k, b + 1, 1) <=> SpentBy(k, b)
<1>1. b + 1 - 1 = b /\ 1 .. 1 - 1 = {}
  OBVIOUS
<1>. DEFINE c == b + 1 - 1
<1>2. Gone(k, b + 1, 1) <=> SpentBy(k, c)
  BY <1>1 DEF Gone
<1>3. c = b
  BY <1>1
<1>. HIDE DEF c
<1>4. QED
  BY <1>2, <1>3

-----------------------------------------------------------------------------
(* What the trees hold.                                                    *)

\* The first item of the block under way that is not through yet.
Here == IF session.at \in {"body", "spend", "index"} THEN session.pos
        ELSE IF session.at \in InBlock THEN Len(Items) + 1 ELSE 1

\* How far the session and everything it may start from can be.
Bounded ==
    /\ seen.begun \in Nat /\ seen.done \in Nat /\ seen.done <= seen.begun
    /\ seen.begun <= node_tip
    /\ session.next <= seen.done + 1
    /\ session.at \in InBlock => session.next <= seen.begun /\ session.current_slot <= session.next
    /\ session.at \in InBlock => seen.begun = seen.done \/ seen.begun = session.next
    /\ session.at \notin InBlock => seen.begun = seen.done
    /\ session.at # "resume" => session.base <= seen.begun
    /\ session.at \in BeforeLoop \cup {"untips"} => session.next = session.base + 1
    /\ session.current_slot <= seen.begun
    /\ db.known \subseteq 1 .. seen.begun
    /\ db.chain_tip.slot <= seen.begun
    /\ \A w \in Wallets : db.wallet_tip[w].slot <= seen.begun

\* The output or input that the session is at.
AtItem ==
    /\ session.at = "body" => session.pos <= Len(Items) + 1
    /\ session.at = "spend" => /\ Items[session.pos][1] = "in"
                               /\ Items[session.pos][2] \in db.utxo \ db.index
    /\ session.at = "index" => /\ Items[session.pos][1] = "out"
                               /\ Items[session.pos][2] \in db.utxo
    /\ db.index \subseteq db.utxo
    /\ \A k \in db.utxo : Creator(k) <= seen.begun

\* The session looks for the wallets' addresses.
Filtered ==
    session.at \notin {"resume", "connect", "filter"} => WalletAddresses \subseteq session.filter

Made(k) == \/ Creator(k) <= seen.done
           \/ session.at \in InBlock /\ \E i \in 1 .. Here - 1 : Items[i] = <<"out", k>>

Standing ==
    \A k \in Keys : (Ours(k) /\ Made(k) /\ ~SpentBy(k, seen.begun)) => k \in db.index

PoliciesKnown ==
    \A k \in Holders :
        \/ Creator(k) <= seen.done
        \/ session.at \in {"events", "tips", "broadcast"} /\ Creator(k) = session.next
        => k[1] \in db.policy_txs

\* Rewinding: a request that has still to set tips or to signal.
Pending(c) == req[c].op # "none" /\ req[c].at \in Rewinding

Fresh == /\ session.next = seen.done + 1
         /\ session.at \in BeforeLoop => seen.done = 0

OneRestart ==
    seen.rewound <= 1 =>
        /\ seen.rewound = 0 => signals = 0 /\ (\A c \in Callers : ~Pending(c)) /\ Fresh
        /\ signals <= 1
        /\ signals = 1 => Fresh /\ \A c \in Callers : ~Pending(c)
        /\ \A c \in Callers : Pending(c) => Fresh /\ \A d \in Callers : Pending(d) => d = c

Replaying ==
    \/ session.at \in BeforeLoop \cup {"untips"}
    \/ session.at = "idle" /\ session.next < session.current_slot

SpentGone ==
    seen.rewound <= 1 =>
        /\ \A k \in db.utxo : ~Gone(k, session.next, Here)
        /\ Replaying => \A k \in db.utxo : ~SpentBy(k, seen.begun)

TreesInv == Bounded /\ AtItem /\ Filtered /\ Standing /\ PoliciesKnown /\ OneRestart /\ SpentGone

-----------------------------------------------------------------------------
(* Steps, field by field.                                                  *)

SameTrees ==
    db'.utxo = db.utxo /\ db'.index = db.index /\ db'.policy_txs = db.policy_txs

SameTips ==
    db'.known = db.known /\ db'.chain_tip = db.chain_tip /\ db'.wallet_tip = db.wallet_tip

SamePlace ==
    /\ session'.base = session.base /\ session'.next = session.next
    /\ session'.filter = session.filter /\ session'.current_slot = session.current_slot

SameSeen ==
    /\ seen'.begun = seen.begun /\ seen'.done = seen.done

LEMMA DbEdits ==
    ASSUME DbType, NEW x, NEW b
    PROVE  /\ db' = [db EXCEPT !.utxo = x] =>
                 /\ SameTips /\ db'.events = db.events
                 /\ db'.utxo = x /\ db'.index = db.index /\ db'.policy_txs = db.policy_txs
           /\ db' = [db EXCEPT !.index = x] =>
                 /\ SameTips /\ db'.events = db.events
                 /\ db'.utxo = db.utxo /\ db'.index = x /\ db'.policy_txs = db.policy_txs
           /\ db' = [db EXCEPT !.policy_txs = x] =>
                 /\ SameTips /\ db'.events = db.events
                 /\ db'.utxo = db.utxo /\ db'.index = db.index /\ db'.policy_txs = x
           /\ db' = [db EXCEPT !.events[b] = x] =>
                 /\ SameTips /\ SameTrees /\ db'.events = [db.events EXCEPT ![b] = x]
           /\ db' = [db EXCEPT !.known = x] =>
                 /\ SameTrees /\ db'.events = db.events /\ db'.known = x
                 /\ db'.chain_tip = db.chain_tip /\ db'.wallet_tip = db.wallet_tip
           /\ db' = [db EXCEPT !.chain_tip = x] =>
                 /\ SameTrees /\ db'.events = db.events /\ db'.known = db.known
                 /\ db'.chain_tip = x /\ db'.wallet_tip = db.wallet_tip
           /\ db' = [db EXCEPT !.wallet_tip[b] = x] =>
                 /\ SameTrees /\ db'.events = db.events /\ db'.known = db.known
                 /\ db'.chain_tip = db.chain_tip
                 /\ db'.wallet_tip = [db.wallet_tip EXCEPT ![b] = x]
<1>1. HasFields(db, {"utxo", "index", "policy_txs", "known", "events", "chain_tip", "wallet_tip"})
  BY DEF DbType
<1>2. QED
  BY <1>1 DEF HasFields, SameTips, SameTrees

LEMMA SeenEdits ==
    ASSUME SeenType, NEW x
    PROVE  /\ seen' = [seen EXCEPT !.begun = x] =>
                 /\ seen'.begun = x /\ seen'.done = seen.done /\ seen'.rewound = seen.rewound
           /\ seen' = [seen EXCEPT !.done = x] =>
                 /\ seen'.begun = seen.begun /\ seen'.done = x /\ seen'.rewound = seen.rewound
           /\ seen' = [seen EXCEPT !.rewound = x] => SameSeen /\ seen'.rewound = x
           /\ seen' = [seen EXCEPT !.rewinds = x] => SameSeen /\ seen'.rewound = seen.rewound
BY DEF SeenType, HasFields, SameSeen

\* Types of the session's place.
LEMMA PlaceFacts ==
    ASSUME TypeInv
    PROVE  /\ session \in Session /\ DbType /\ SeenType /\ SessionType /\ N \in Nat
           /\ session.next \in 1 .. N + 1 /\ session.base \in 0 .. N
           /\ session.current_slot \in Nat /\ session.pos \in Nat
           /\ node_tip \in 1 .. N
           /\ session.at \in InBlock => /\ session.next \in Blocks /\ session.next \in 1 .. N
                                        /\ Items = Body[session.next]
                                        /\ Len(Items) \in Nat
           /\ session.at \in {"body", "events"} => session.pos >= 1
           /\ session.at \in InItem => session.pos \in 1 .. Len(Items)
           /\ seen.rewound \in Nat
           /\ db.utxo \subseteq Keys /\ db.index \subseteq Keys
<1>1. /\ SessionType /\ session \in Session /\ N \in Nat /\ Blocks = 1 .. N
      /\ DbType /\ SeenType /\ node_tip \in 1 .. N
  BY BlockNumbers DEF TypeInv, SessionType
<1>2. session.at \in InBlock => session.next \in Blocks /\ Len(Body[session.next]) \in Nat
  BY <1>1, BodyFacts DEF SessionType
<1>3. QED
  BY <1>1, <1>2 DEF Items, Session, SessionType, DbType, SeenType

\* The items before the current one, in each phase.
LEMMA HereFacts ==
    ASSUME TypeInv
    PROVE  /\ session.at \in {"body", "spend", "index"} => Here = session.pos
           /\ session.at \in {"events", "tips", "broadcast"} => Here = Len(Items) + 1
           /\ session.at \notin InBlock => Here = 1
           /\ Here \in Nat \ {0}
           /\ session.at \in InBlock \cup (Phases \ InBlock)
<1>1. session.at \in {"body", "spend", "index"} => Here = session.pos
  BY DEF Here
<1>2. session.at \in {"events", "tips", "broadcast"} => Here = Len(Items) + 1
  BY DEF Here, InBlock
<1>3. session.at \notin InBlock => Here = 1
  BY DEF Here, InBlock
<1>4. session.at \in {"body", "spend", "index"} => session.pos \in Nat \ {0}
  BY PlaceFacts DEF InItem
<1>5. session.at \in InBlock => Len(Items) + 1 \in Nat \ {0}
  BY PlaceFacts
<1>6. session.at \in Phases
  BY PlaceFacts DEF Session
<1>7. QED
  BY <1>1, <1>2, <1>3, <1>4, <1>5, <1>6 DEF InBlock

\* As far as the chain is indexed, and of the keys in it.
LEMMA BoundedFacts ==
    ASSUME TypeInv, Bounded
    PROVE  /\ seen.begun \in 0 .. N /\ seen.done \in 0 .. N /\ N \in Nat
           /\ session.next - 1 \in 0 .. N
           /\ session.at \in InBlock => session.next \in 0 .. N
BY PlaceFacts DEF Bounded

-----------------------------------------------------------------------------
(* Steps that leave the trees alone.                                       *)

TreeParts == AtItem /\ Standing /\ PoliciesKnown /\ SpentGone

AfterItems == {"events", "tips", "broadcast"}

LEMMA SamePosition ==
    ASSUME SameTrees, SameSeen, session'.next = session.next, Here' = Here,
           session'.at \in InBlock <=> session.at \in InBlock,
           session'.at \in AfterItems => session.at \in AfterItems
    PROVE  /\ Standing => Standing'
           /\ PoliciesKnown => PoliciesKnown'
<1>1. Items' = Items
  BY DEF Items
<1>2. \A k : Made(k)' <=> Made(k)
  BY <1>1 DEF Made, SameSeen
<1>3. Standing => Standing'
  BY <1>2 DEF Standing, SameTrees, SameSeen, Ours, SpentBy
<1>4. PoliciesKnown => PoliciesKnown'
  BY DEF PoliciesKnown, SameTrees, SameSeen, AfterItems
<1>5. QED
  BY <1>3, <1>4

LEMMA TreesStay ==
    ASSUME TreeParts, SameTrees, SameSeen, seen'.rewound <= 1 => seen.rewound <= 1,
           session'.next = session.next, Here' = Here,
           session'.at \in InBlock <=> session.at \in InBlock,
           session'.at \notin {"body", "spend", "index"},
           session'.at \in AfterItems => session.at \in AfterItems,
           Replaying' => Replaying
    PROVE  TreeParts'
<1>1. Standing' /\ PoliciesKnown'
  BY SamePosition DEF TreeParts
<1>2. AtItem'
  BY DEF TreeParts, AtItem, SameTrees, SameSeen
<1>3. \A k, b, i : Gone(k, b, i)' <=> Gone(k, b, i)
  BY DEF Gone, SpentBy
<1>4. SpentGone'
  BY <1>3 DEF TreeParts, SpentGone, SameTrees, SameSeen, SpentBy
<1>5. QED
  BY <1>1, <1>2, <1>4 DEF TreeParts

\* The session does not move at all.
LEMMA TreesFrame ==
    ASSUME TreeParts, SameTrees, SameSeen, seen'.rewound <= 1 => seen.rewound <= 1,
           UNCHANGED session
    PROVE  TreeParts'
<1>1. Items' = Items /\ Here' = Here /\ (Replaying' <=> Replaying)
  BY DEF Items, Here, Replaying
<1>2. Standing' /\ PoliciesKnown'
  BY <1>1, SamePosition DEF TreeParts
<1>3. AtItem'
  BY <1>1 DEF TreeParts, AtItem, SameTrees, SameSeen
<1>4. \A k, b, i : Gone(k, b, i)' <=> Gone(k, b, i)
  BY DEF Gone, SpentBy
<1>5. SpentGone'
  BY <1>1, <1>4 DEF TreeParts, SpentGone, SameTrees, SameSeen, SpentBy
<1>6. QED
  BY <1>2, <1>3, <1>5 DEF TreeParts

\* Between two blocks only the place of the next one counts.
LEMMA TreesBetween ==
    ASSUME TreeParts, SameTrees, SameSeen,
           session.at \notin InBlock, session'.at \notin InBlock
    PROVE  AtItem' /\ Standing' /\ PoliciesKnown'
<1>1. \A k : Made(k)' <=> Made(k)
  BY DEF Made, SameSeen
<1>2. Standing'
  BY <1>1 DEF TreeParts, Standing, SameTrees, SameSeen, Ours, SpentBy
<1>3. PoliciesKnown'
  BY DEF TreeParts, PoliciesKnown, SameTrees, SameSeen, InBlock
<1>4. AtItem'
  BY DEF TreeParts, AtItem, SameTrees, SameSeen, InBlock
<1>5. QED
  BY <1>2, <1>3, <1>4

\* Requests to rewind and their signal.
LEMMA SameRestart ==
    ASSUME OneRestart, UNCHANGED <<signals, req>>, seen'.done = seen.done,
           seen'.rewound = seen.rewound, seen.rewound <= 1 /\ Fresh => Fresh'
    PROVE  OneRestart'
BY DEF OneRestart, Pending

-----------------------------------------------------------------------------
(* A session begins.                                                       *)

LEMMA IntersectionBound ==
    ASSUME TypeInv, Bounded, NEW b \in Intersections
    PROVE  b \in 0 .. N /\ b <= seen.begun
<1>1. b \in 0 .. N
  BY PlaceFacts, IntersectionFacts
<1>2. PICK w \in Wallets : b = IF db.wallet_tip[w].hashed THEN db.wallet_tip[w].slot ELSE 0
  BY DEF Intersections
<1>3. QED
  BY <1>1, <1>2, BoundedFacts DEF Bounded

LEMMA ResumeTrees ==
    ASSUME TypeInv, TreesInv, Resume
    PROVE  TreesInv'
<1>1. PICK b \in Intersections :
         session' = [session EXCEPT !.at = "connect", !.base = b, !.next = b + 1]
  BY DEF Resume
<1>2. /\ session.at = "resume" /\ session'.at = "connect" /\ session'.base = b
      /\ session'.next = b + 1 /\ session'.filter = session.filter
      /\ session'.current_slot = session.current_slot
  BY <1>1, PlaceFacts DEF Resume, At, Session
<1>3. UNCHANGED <<node_tip, db, signals, req, seen>>
  BY DEF Resume
<1>4. SameTrees /\ SameTips /\ SameSeen
  BY <1>3 DEF SameTrees, SameTips, SameSeen
<1>5. session.at \notin InBlock /\ session'.at \notin InBlock /\ session'.at \in BeforeLoop
      /\ session.at \in BeforeLoop
  BY <1>2 DEF InBlock, BeforeLoop
<1>6. b \in 0 .. N /\ b <= seen.begun
  BY IntersectionBound DEF TreesInv
<1>7. /\ seen.begun \in 0 .. N /\ seen.done = seen.begun /\ N \in Nat
  BY <1>5, BoundedFacts DEF TreesInv, Bounded
<1>8. Bounded'
  BY <1>2, <1>3, <1>5, <1>6, <1>7 DEF TreesInv, Bounded
<1>9. Filtered'
  BY <1>2 DEF Filtered
<1>10. AtItem' /\ Standing' /\ PoliciesKnown'
  BY <1>4, <1>5, TreesBetween DEF TreesInv, TreeParts
<1>11. Replaying /\ Replaying' /\ Here' = 1
  BY <1>2, <1>5 DEF Replaying, Here
<1>12. SpentGone'
  <2>1. ASSUME seen.rewound <= 1, NEW k \in db.utxo
        PROVE  ~SpentBy(k, seen.begun) /\ ~Gone(k, b + 1, 1)
    <3>1. ~SpentBy(k, seen.begun)
      BY <1>11, <2>1 DEF TreesInv, SpentGone
    <3>2. ~SpentBy(k, b)
      BY <1>6, <1>7, <3>1, SpentByFacts
    <3>3. QED
      BY <1>6, <3>1, <3>2, GoneFirst
  <2>2. \A k : Gone(k, b + 1, 1)' <=> Gone(k, b + 1, 1)
    BY DEF Gone, SpentBy
  <2>3. QED
    BY <1>2, <1>3, <1>11, <2>1, <2>2 DEF SpentGone, SpentBy
<1>13. OneRestart'
  <2>1. ASSUME Fresh PROVE Fresh'
    <3>1. seen.done = 0
      BY <1>5, <2>1 DEF Fresh
    <3>2. b = 0
      BY <1>6, <1>7, <3>1
    <3>3. QED
      BY <1>2, <1>3, <3>1, <3>2 DEF Fresh
  <2>2. QED
    BY <1>3, <2>1, SameRestart DEF TreesInv
<1>14. QED
  BY <1>8, <1>9, <1>10, <1>12, <1>13 DEF TreesInv

LEMMA ConnectTrees ==
    ASSUME TypeInv, TreesInv, Connect \/ BuildFilter \/ SubscribeRestart
    PROVE  TreesInv'
<1>1. /\ session.at \in {"connect", "filter", "subscribe"}
      /\ session'.at \in {"filter", "subscribe", "connected"}
      /\ session'.base = session.base /\ session'.next = session.next
      /\ \/ session'.current_slot = session.current_slot
         \/ session'.current_slot = db.chain_tip.slot
      /\ \/ session'.filter = session.filter /\ (session.at = "subscribe" \/ session'.at = "filter")
         \/ session'.filter = WalletAddresses \cup tracked
  BY PlaceFacts DEF Connect, BuildFilter, SubscribeRestart, At, Session
<1>2. UNCHANGED <<node_tip, db, signals, req, seen>>
  BY DEF Connect, BuildFilter, SubscribeRestart
<1>3. SameTrees /\ SameTips /\ SameSeen
  BY <1>2 DEF SameTrees, SameTips, SameSeen
<1>4. /\ session.at \in BeforeLoop /\ session'.at \in BeforeLoop
      /\ session.at \notin InBlock /\ session'.at \notin InBlock
      /\ session'.at \notin {"body", "spend", "index"} /\ session'.at \notin AfterItems
      /\ session.at # "resume" /\ session'.at # "resume"
  BY <1>1 DEF BeforeLoop, InBlock, AfterItems
<1>5. Bounded'
  BY <1>1, <1>2, <1>4 DEF TreesInv, Bounded
<1>6. Filtered'
  BY <1>1, <1>4 DEF TreesInv, Filtered
<1>7. Replaying /\ Here = 1 /\ Here' = 1
  BY <1>4 DEF Replaying, Here, InBlock
<1>8. AtItem' /\ Standing' /\ PoliciesKnown' /\ SpentGone'
  <2>1. TreeParts'
    BY <1>1, <1>2, <1>3, <1>4, <1>7, TreesStay DEF TreesInv, TreeParts
  <2>2. QED
    BY <2>1 DEF TreeParts
<1>9. OneRestart'
  BY <1>1, <1>2, <1>4, SameRestart DEF TreesInv, Fresh
<1>10. QED
  BY <1>5, <1>6, <1>8, <1>9 DEF TreesInv

\* While one rewind at most has been asked for, the trees are exact when its
\* signal is heard.
LEMMA RestartTrees ==
    ASSUME TypeInv, TreesInv, Restart
    PROVE  TreesInv'
<1>1. /\ session.at \in {"connected", "idle"} /\ signals > 0
      /\ session' = NewSession /\ signals' = 0
      /\ UNCHANGED <<node_tip, db, req, seen>>
  BY DEF Restart, At, Dropped
<1>2. /\ session'.at = "resume" /\ session'.base = 0 /\ session'.next = 1
      /\ session'.current_slot = 0
  BY <1>1 DEF NewSession
<1>3. SameTrees /\ SameTips /\ SameSeen
  BY <1>1 DEF SameTrees, SameTips, SameSeen
<1>4. session.at \notin InBlock /\ session'.at \notin InBlock /\ session'.at \in BeforeLoop
  BY <1>1, <1>2 DEF InBlock, BeforeLoop
<1>5. /\ seen.begun \in 0 .. N /\ seen.done = seen.begun /\ N \in Nat
  BY <1>4, BoundedFacts DEF TreesInv, Bounded
<1>6. Bounded'
  BY <1>1, <1>2, <1>4, <1>5 DEF TreesInv, Bounded
<1>7. Filtered'
  BY <1>2 DEF Filtered
<1>8. AtItem' /\ Standing' /\ PoliciesKnown'
  BY <1>3, <1>4, TreesBetween DEF TreesInv, TreeParts
<1>9. SpentGone'
  <2>1. ASSUME seen.rewound <= 1, NEW k \in db.utxo
        PROVE  ~SpentBy(k, seen.begun) /\ ~Gone(k, 1, 1)
    <3>1. Here = 1
      BY <1>4, HereFacts
    <3>2. signals = 1
      BY <1>1, <2>1 DEF TreesInv, OneRestart, TypeInv
    <3>3. session.next = seen.begun + 1
      BY <1>5, <2>1, <3>2 DEF TreesInv, OneRestart, Fresh
    <3>4. ~Gone(k, session.next, 1)
      BY <2>1, <3>1 DEF TreesInv, SpentGone
    <3>5. ~SpentBy(k, seen.begun)
      BY <1>5, <3>3, <3>4, GoneFirst
    <3>6. ~SpentBy(k, 0)
      BY DEF SpentBy
    <3>7. Gone(k, 0 + 1, 1) <=> SpentBy(k, 0)
      BY GoneFirst
    <3>8. QED
      BY <3>5, <3>6, <3>7
  <2>2. \A k : Gone(k, 1, 1)' <=> Gone(k, 1, 1)
    BY DEF Gone, SpentBy
  <2>3. Here' = 1
    BY <1>2 DEF Here, InBlock
  <2>4. QED
    BY <1>1, <1>2, <2>1, <2>2, <2>3 DEF SpentGone, SpentBy
<1>10. OneRestart'
  BY <1>1 DEF TreesInv, OneRestart, Pending, TypeInv
<1>11. QED
  BY <1>6, <1>7, <1>8, <1>9, <1>10 DEF TreesInv

LEMMA RewindTrees ==
    ASSUME TypeInv, TreesInv, RollBackward \/ RewindWallet
    PROVE  TreesInv'
<1>1. /\ session.at \in {"connected", "untips"} /\ session'.at \in {"untips", "idle"}
      /\ session'.base = session.base /\ session'.next = session.next
      /\ session'.filter = session.filter
      /\ \/ session'.current_slot = session.current_slot
         \/ session'.current_slot = session.base
  BY PlaceFacts DEF RollBackward, RewindWallet, At, Session
<1>2. UNCHANGED <<node_tip, signals, req, seen>>
  BY DEF RollBackward, RewindWallet
<1>3. \/ UNCHANGED db
      \/ db' = [db EXCEPT !.chain_tip = [slot |-> session.base, hashed |-> FALSE]]
      \/ \E w \in Wallets :
            db' = [db EXCEPT !.wallet_tip[w] = [slot |-> session.base, hashed |-> FALSE]]
  <2>1. CASE RollBackward
    BY <2>1 DEF RollBackward
  <2>2. CASE RewindWallet
    <3>1. session.pos <= WalletCount => session.pos \in Wallets
      BY <1>1, <2>2, PlaceFacts DEF RewindWallet, At, TypeInv, SessionType, Wallets
    <3>2. QED
      BY <2>2, <3>1 DEF RewindWallet
  <2>3. QED
    BY <2>1, <2>2
<1>4. SameSeen /\ SameTrees /\ db'.known = db.known
  BY <1>2, <1>3, DbEdits, PlaceFacts DEF SameSeen, SameTrees, SameTips
<1>5. /\ session.at \notin InBlock /\ session'.at \notin InBlock
      /\ session'.at \notin {"body", "spend", "index"} /\ session'.at \notin AfterItems
      /\ session.at # "resume" /\ session'.at # "resume" /\ session'.at \notin BeforeLoop
      /\ session.at \in BeforeLoop \cup {"untips"}
  BY <1>1 DEF BeforeLoop, InBlock, AfterItems
<1>6. session.base <= seen.begun /\ session.next = session.base + 1
  BY <1>5 DEF TreesInv, Bounded
<1>7. db'.chain_tip.slot <= seen.begun
  <2>1. db'.chain_tip = db.chain_tip \/ db'.chain_tip = [slot |-> session.base, hashed |-> FALSE]
    BY <1>3, DbEdits, PlaceFacts DEF SameTips
  <2>2. QED
    BY <1>6, <2>1 DEF TreesInv, Bounded
<1>8. \A w \in Wallets : db'.wallet_tip[w].slot <= seen.begun
  <2>1. \/ db'.wallet_tip = db.wallet_tip
        \/ \E w \in Wallets : db'.wallet_tip =
              [db.wallet_tip EXCEPT ![w] = [slot |-> session.base, hashed |-> FALSE]]
    BY <1>3, DbEdits, PlaceFacts DEF SameTips
  <2>2. db.wallet_tip \in [Wallets -> Tip]
    BY PlaceFacts DEF DbType
  <2>3. \A v \in Wallets : \/ db'.wallet_tip[v] = db.wallet_tip[v]
                           \/ db'.wallet_tip[v].slot = session.base
    <3>1. CASE db'.wallet_tip = db.wallet_tip
      BY <3>1
    <3>2. ASSUME NEW w \in Wallets, db'.wallet_tip =
              [db.wallet_tip EXCEPT ![w] = [slot |-> session.base, hashed |-> FALSE]]
          PROVE  \A v \in Wallets : \/ db'.wallet_tip[v] = db.wallet_tip[v]
                                  \/ db'.wallet_tip[v].slot = session.base
      <4>1. db'.wallet_tip[w] = [slot |-> session.base, hashed |-> FALSE]
        BY <2>2, <3>2
      <4>2. \A v \in Wallets \ {w} : db'.wallet_tip[v] = db.wallet_tip[v]
        BY <2>2, <3>2
      <4>3. QED
        BY <4>1, <4>2
    <3>3. QED
      BY <2>1, <3>1, <3>2
  <2>4. QED
    BY <1>6, <2>3 DEF TreesInv, Bounded
<1>9. Bounded'
  BY <1>1, <1>2, <1>4, <1>5, <1>6, <1>7, <1>8 DEF TreesInv, Bounded
<1>10. Filtered'
  BY <1>1 DEF TreesInv, Filtered
<1>11. Replaying /\ Here = 1 /\ Here' = 1
  BY <1>5 DEF Replaying, Here, InBlock
<1>12. AtItem' /\ Standing' /\ PoliciesKnown' /\ SpentGone'
  <2>1. TreeParts'
    BY <1>1, <1>2, <1>4, <1>5, <1>11, TreesStay DEF TreesInv, TreeParts
  <2>2. QED
    BY <2>1 DEF TreeParts
<1>13. OneRestart'
  BY <1>1, <1>2, <1>5, SameRestart DEF TreesInv, Fresh
<1>14. QED
  BY <1>9, <1>10, <1>12, <1>13 DEF TreesInv

-----------------------------------------------------------------------------
(* A block.                                                                *)

\* A block below current_slot is skipped before any has been replayed.
LEMMA SkipTrees ==
    ASSUME TypeInv, TreesInv, BeginBlock, session.next < session.current_slot
    PROVE  TreesInv'
<1>1. /\ session.at = "idle" /\ session' = [session EXCEPT !.next = @ + 1]
      /\ seen' = [seen EXCEPT !.begun = IF session.next > @ THEN session.next ELSE @]
      /\ UNCHANGED <<node_tip, db, signals, req>>
  BY DEF BeginBlock, At
<1>2. /\ session'.at = "idle" /\ session'.next = session.next + 1
      /\ session'.base = session.base /\ session'.filter = session.filter
      /\ session'.current_slot = session.current_slot
  BY <1>1, PlaceFacts DEF Session
<1>3. session.at \notin InBlock /\ session'.at \notin InBlock /\ session'.at \notin BeforeLoop
      /\ session'.at # "untips" /\ session'.at # "resume" /\ session.at # "resume"
  BY <1>1, <1>2 DEF InBlock, BeforeLoop
<1>4. /\ seen.begun \in 0 .. N /\ seen.done = seen.begun /\ N \in Nat
      /\ session.next \in Nat /\ session.next < seen.begun /\ session.current_slot <= seen.begun
  BY <1>3, BoundedFacts, PlaceFacts DEF TreesInv, Bounded
<1>5. SameSeen /\ SameTrees /\ SameTips /\ seen'.rewound = seen.rewound
  BY <1>1, <1>4, SeenEdits, PlaceFacts DEF SameTrees, SameTips, SameSeen
<1>6. Bounded'
  BY <1>1, <1>2, <1>3, <1>4, <1>5 DEF TreesInv, Bounded, SameSeen
<1>7. Filtered'
  BY <1>1, <1>2 DEF TreesInv, Filtered
<1>8. AtItem' /\ Standing' /\ PoliciesKnown'
  BY <1>3, <1>5, TreesBetween DEF TreesInv, TreeParts
<1>9. Replaying /\ Here' = 1
  BY <1>1, <1>3 DEF Replaying, Here, InBlock
<1>10. SpentGone'
  <2>1. ASSUME seen.rewound <= 1, NEW k \in db.utxo
        PROVE  ~SpentBy(k, seen.begun) /\ ~Gone(k, session.next + 1, 1)
    <3>1. ~SpentBy(k, seen.begun)
      BY <1>9, <2>1 DEF TreesInv, SpentGone
    <3>2. session.next \in 0 .. seen.begun
      BY <1>4
    <3>3. QED
      BY <1>4, <3>1, <3>2, SpentByFacts, GoneFirst
  <2>2. \A k, b : Gone(k, b, 1)' <=> Gone(k, b, 1)
    BY DEF Gone, SpentBy
  <2>3. QED
    BY <1>1, <1>2, <1>5, <1>9, <2>1, <2>2 DEF SpentGone, SpentBy, SameSeen
<1>11. OneRestart'
  <2>1. ~Fresh
    BY <1>4 DEF Fresh
  <2>2. QED
    BY <1>1, <1>5, <2>1, SameRestart DEF TreesInv, SameSeen
<1>12. QED
  BY <1>6, <1>7, <1>8, <1>10, <1>11 DEF TreesInv

LEMMA BeginTrees ==
    ASSUME TypeInv, TreesInv, BeginBlock, ~(session.next < session.current_slot)
    PROVE  TreesInv'
<1>1. /\ session.at = "idle" /\ session.next <= node_tip
      /\ seen' = [seen EXCEPT !.begun = IF session.next > @ THEN session.next ELSE @]
      /\ UNCHANGED <<node_tip, db, signals, req>>
  BY DEF BeginBlock, At
<1>2. /\ session'.at = "body" /\ session'.pos = 1 /\ session'.next = session.next
      /\ session'.base = session.base /\ session'.filter = session.filter
      /\ session'.current_slot = session.current_slot
  BY PlaceFacts DEF BeginBlock, Session
<1>3. session.at \notin InBlock /\ session'.at \in InBlock /\ session'.at \notin BeforeLoop
      /\ session'.at # "untips" /\ session'.at # "resume" /\ session.at # "resume"
      /\ session'.at # "idle"
  BY <1>1, <1>2 DEF InBlock, BeforeLoop
<1>4. /\ seen.begun \in 0 .. N /\ seen.done = seen.begun /\ N \in Nat
      /\ session.next \in Nat /\ session.current_slot \in Nat
      /\ session.current_slot <= session.next
      /\ session.next <= seen.done + 1 /\ node_tip \in 0 .. N
  BY <1>3, BoundedFacts, PlaceFacts DEF TreesInv, Bounded
<1>5. /\ seen'.begun = (IF session.next > seen.begun THEN session.next ELSE seen.begun)
      /\ seen'.done = seen.done /\ seen'.rewound = seen.rewound
  BY <1>1, SeenEdits, PlaceFacts
<1>6. /\ seen'.begun \in 0 .. N /\ seen.begun <= seen'.begun /\ session.next <= seen'.begun
      /\ seen'.begun <= node_tip
  BY <1>1, <1>4, <1>5 DEF TreesInv, Bounded
<1>7. Bounded'
  <2>1. /\ seen'.begun \in Nat /\ seen'.done \in Nat /\ seen'.done <= seen'.begun
        /\ seen'.begun <= node_tip'
        /\ session'.next <= seen'.done + 1
        /\ session'.next <= seen'.begun /\ session'.current_slot <= session'.next
        /\ seen'.begun = seen'.done \/ seen'.begun = session'.next
    BY <1>1, <1>2, <1>4, <1>5, <1>6
  <2>2. /\ session'.base <= seen'.begun /\ session'.current_slot <= seen'.begun
    BY <1>2, <1>3, <1>4, <1>6, PlaceFacts DEF TreesInv, Bounded
  <2>3. 1 .. seen.begun \subseteq 1 .. seen'.begun
    BY <1>4, <1>6
  <2>4. db.chain_tip \in Tip /\ db.wallet_tip \in [Wallets -> Tip]
    BY PlaceFacts DEF DbType
  <2>5. db.chain_tip.slot \in Nat /\ \A w \in Wallets : db.wallet_tip[w].slot \in Nat
    BY <2>4 DEF Tip
  <2>6. /\ db'.known \subseteq 1 .. seen'.begun
        /\ db'.chain_tip.slot <= seen'.begun
        /\ \A w \in Wallets : db'.wallet_tip[w].slot <= seen'.begun
    BY <1>1, <1>4, <1>6, <2>3, <2>5 DEF TreesInv, Bounded
  <2>7. QED
    BY <1>3, <2>1, <2>2, <2>6 DEF Bounded
<1>8. Filtered'
  BY <1>1, <1>2 DEF TreesInv, Filtered
<1>9. Here = 1 /\ Here' = 1
  BY <1>2, <1>3, HereFacts DEF Here
<1>10. AtItem'
  <2>1. \A k \in db.utxo : Creator(k) <= seen'.begun
    <3>1. ASSUME NEW k \in db.utxo PROVE Creator(k) \in Nat /\ Creator(k) <= seen.begun
      BY PlaceFacts, CreatorFacts DEF TreesInv, AtItem
    <3>2. QED
      BY <1>4, <1>6, <3>1
  <2>2. session'.pos <= Len(Items') + 1
    <3>1. session.next \in Blocks
      BY <1>4, <1>1, PlaceFacts, BlockNumbers
    <3>2. Items' = Body[session.next] /\ Len(Body[session.next]) \in Nat
      BY <1>2, <3>1, BodyFacts DEF Items
    <3>3. QED
      BY <1>2, <3>2
  <2>3. QED
    BY <1>1, <1>2, <2>1, <2>2 DEF TreesInv, AtItem, Creator
<1>11. \A k : Made(k)' <=> Made(k)
  <2>1. 1 .. 1 - 1 = {}
    OBVIOUS
  <2>2. \A k : Made(k)' <=> Creator(k) <= seen.done
    BY <1>5, <1>9, <2>1 DEF Made, Creator
  <2>3. \A k : Made(k) <=> Creator(k) <= seen.done
    BY <1>3 DEF Made
  <2>4. QED
    BY <2>2, <2>3
<1>12. Standing'
  <2>1. \A k : SpentBy(k, seen.begun) => SpentBy(k, seen'.begun)
    <3>1. seen.begun \in 0 .. seen'.begun
      BY <1>4, <1>6
    <3>2. QED
      BY <1>6, <3>1, SpentByFacts
  <2>2. QED
    BY <1>1, <1>11, <2>1 DEF TreesInv, Standing, Ours, SpentBy
<1>13. PoliciesKnown'
  BY <1>1, <1>2, <1>5 DEF TreesInv, PoliciesKnown, Creator
<1>14. SpentGone'
  <2>1. \A k, b, i : Gone(k, b, i)' <=> Gone(k, b, i)
    BY DEF Gone, SpentBy
  <2>2. ~Replaying'
    BY <1>3 DEF Replaying
  <2>3. QED
    BY <1>1, <1>2, <1>5, <1>9, <2>1, <2>2 DEF TreesInv, SpentGone
<1>15. OneRestart'
  BY <1>1, <1>2, <1>3, <1>5, SameRestart DEF TreesInv, Fresh
<1>16. QED
  BY <1>7, <1>8, <1>10, <1>12, <1>13, <1>14, <1>15 DEF TreesInv

-----------------------------------------------------------------------------
(* The items of a block.                                                   *)

\* One item is through, or one of its two writes.
ItemStep ==
    /\ session.at \in {"body", "spend", "index"} /\ session'.at \in {"body", "spend", "index"}
    /\ SamePlace /\ SameTips /\ SameSeen /\ seen'.rewound = seen.rewound
    /\ UNCHANGED <<node_tip, signals, req>>

LEMMA ItemFrame ==
    ASSUME TypeInv, TreesInv, ItemStep
    PROVE  /\ Bounded' /\ Filtered' /\ OneRestart'
           /\ Items' = Items /\ ~Replaying' /\ Here = session.pos /\ Here' = session'.pos
           /\ session.at \in InBlock /\ session'.at \in InBlock
           /\ session.next \in Blocks /\ Len(Items) \in Nat /\ Items = Body[session.next]
           /\ session.pos \in Nat \ {0}
           /\ seen.begun \in 0 .. N /\ session.next <= seen.begun
<1>1. /\ session.at \in InBlock /\ session'.at \in InBlock
      /\ session.at \notin BeforeLoop /\ session'.at \notin BeforeLoop
      /\ session.at \notin {"untips", "idle", "resume", "connect", "filter"}
      /\ session'.at \notin {"untips", "idle", "resume", "connect", "filter"}
  BY DEF ItemStep, InBlock, BeforeLoop
<1>2. Bounded'
  BY <1>1 DEF TreesInv, Bounded, ItemStep, SamePlace, SameTips, SameSeen
<1>3. Filtered'
  BY <1>1 DEF TreesInv, Filtered, ItemStep, SamePlace
<1>4. OneRestart'
  BY <1>1, SameRestart DEF TreesInv, Fresh, ItemStep, SamePlace, SameSeen
<1>5. Items' = Items /\ ~Replaying' /\ Here = session.pos /\ Here' = session'.pos
  BY <1>1 DEF Items, Replaying, Here, ItemStep, SamePlace
<1>6. session.pos \in Nat \ {0}
  BY PlaceFacts DEF ItemStep, InItem
<1>7. QED
  BY <1>1, <1>2, <1>3, <1>4, <1>5, <1>6, PlaceFacts, BoundedFacts DEF TreesInv, Bounded

\* What has been made and spent when the item is through.
LEMMA ItemThrough ==
    ASSUME TypeInv, TreesInv, ItemStep, session'.pos = session.pos + 1, NEW k
    PROVE  /\ Made(k)' <=> Made(k) \/ Items[session.pos] = <<"out", k>>
           /\ Gone(k, session.next, Here)' <=>
                 Gone(k, session.next, Here) \/ Items[session.pos] = <<"in", k>>
<1>1. /\ Items' = Items /\ Here = session.pos /\ Here' = session.pos + 1
      /\ session.pos \in Nat \ {0} /\ Items = Body[session.next]
      /\ session.at \in InBlock /\ session'.at \in InBlock
      /\ session'.next = session.next /\ seen'.done = seen.done
  BY ItemFrame DEF ItemStep, SamePlace, SameSeen
<1>2. 1 .. session.pos + 1 - 1 = (1 .. session.pos - 1) \cup {session.pos}
  BY <1>1
<1>3. Made(k)' <=> Made(k) \/ Items[session.pos] = <<"out", k>>
  BY <1>1, <1>2 DEF Made, Creator
<1>4. Gone(k, session.next, Here)' <=>
          Gone(k, session.next, Here) \/ Items[session.pos] = <<"in", k>>
  BY <1>1, <1>2 DEF Gone, SpentBy
<1>5. QED
  BY <1>3, <1>4

\* Nothing is made or spent while the item is not through.
LEMMA ItemHalf ==
    ASSUME TypeInv, TreesInv, ItemStep, session'.pos = session.pos, NEW k
    PROVE  /\ Made(k)' <=> Made(k)
           /\ Gone(k, session.next, Here)' <=> Gone(k, session.next, Here)
<1>1. /\ Items' = Items /\ Here' = Here
      /\ session.at \in InBlock /\ session'.at \in InBlock
      /\ session'.next = session.next /\ seen'.done = seen.done
  BY ItemFrame DEF ItemStep, SamePlace, SameSeen
<1>2. QED
  BY <1>1 DEF Made, Gone, SpentBy, Creator

LEMMA InputTrees ==
    ASSUME TypeInv, TreesInv, ProcessInput
    PROVE  TreesInv'
<1>. DEFINE k == Items[session.pos][2]
<1>1. /\ session.at = "body" /\ session.pos <= Len(Items) /\ Items[session.pos][1] = "in"
      /\ UNCHANGED <<node_tip, signals, req, seen>>
  BY DEF ProcessInput, At
<1>2. session.pos \in 1 .. Len(Items) /\ session.next \in Blocks /\ Items = Body[session.next]
  BY <1>1, PlaceFacts DEF InBlock
<1>3. Items[session.pos] = <<"in", k>> /\ k \in Keys
  BY <1>1, <1>2, BodyFacts
<1>4. ItemStep /\ db'.utxo = db.utxo /\ db'.policy_txs = db.policy_txs
  <2>1. SamePlace /\ session'.at \in {"body", "spend"}
    BY <1>1, PlaceFacts DEF ProcessInput, Session, SamePlace
  <2>2. SameTips /\ db'.utxo = db.utxo /\ db'.policy_txs = db.policy_txs
    <3>1. UNCHANGED db \/ db' = [db EXCEPT !.index = Unindex(k)]
      BY DEF ProcessInput
    <3>2. QED
      BY <3>1, DbEdits, PlaceFacts DEF SameTips
  <2>3. QED
    BY <1>1, <2>1, <2>2 DEF ItemStep, SameSeen
<1>5. /\ Bounded' /\ Filtered' /\ OneRestart' /\ Items' = Items /\ ~Replaying'
      /\ seen.begun \in 0 .. N /\ session.next <= seen.begun
  BY <1>4, ItemFrame
<1>6. PoliciesKnown'
  BY <1>1, <1>4 DEF TreesInv, PoliciesKnown, ItemStep, SameSeen, Creator
<1>7. CASE k \in db.utxo
  <2>1. /\ session'.at = "spend" /\ session'.pos = session.pos
    BY <1>7, PlaceFacts DEF ProcessInput, Session
  <2>2. db'.index = db.index \ {k}
    BY <1>7, DbEdits, PlaceFacts DEF ProcessInput, Unindex
  <2>3. AtItem'
    BY <1>1, <1>3, <1>4, <1>5, <1>7, <2>1, <2>2 DEF TreesInv, AtItem, Creator
  <2>4. SpentBy(k, seen.begun)
    BY <1>2, <1>3, <1>5, SpendFacts
  <2>5. Standing'
    <3>1. ASSUME NEW l \in Keys, Ours(l), Made(l)', ~SpentBy(l, seen.begun)
          PROVE  l \in db'.index
      <4>1. Made(l)
        BY <1>4, <2>1, <3>1, ItemHalf
      <4>2. l \in db.index /\ l # k
        BY <2>4, <3>1, <4>1 DEF TreesInv, Standing
      <4>3. QED
        BY <2>2, <4>2
    <3>2. QED
      BY <1>1, <3>1 DEF Standing, Ours, SpentBy
  <2>6. SpentGone'
    <3>1. \A l : Gone(l, session.next, Here)' <=> Gone(l, session.next, Here)
      BY <1>4, <2>1, ItemHalf
    <3>2. QED
      BY <1>1, <1>4, <1>5, <3>1 DEF TreesInv, SpentGone, ItemStep, SamePlace
  <2>7. QED
    BY <1>5, <1>6, <2>3, <2>5, <2>6 DEF TreesInv
<1>8. CASE k \notin db.utxo
  <2>1. /\ session'.at = "body" /\ session'.pos = session.pos + 1 /\ UNCHANGED db
    BY <1>1, <1>8, PlaceFacts DEF ProcessInput, Session
  <2>2. AtItem'
    <3>1. session'.pos <= Len(Items') + 1
      BY <1>2, <1>5, <2>1, ItemFrame, <1>4
    <3>2. QED
      BY <1>1, <2>1, <3>1 DEF TreesInv, AtItem, Creator
  <2>3. Standing'
    <3>1. \A l : Made(l)' <=> Made(l)
      BY <1>3, <1>4, <2>1, ItemThrough
    <3>2. QED
      BY <1>1, <2>1, <3>1 DEF TreesInv, Standing, Ours, SpentBy
  <2>4. SpentGone'
    <3>1. \A l : Gone(l, session.next, Here)' => Gone(l, session.next, Here) \/ l = k
      BY <1>3, <1>4, <2>1, ItemThrough
    <3>2. QED
      BY <1>1, <1>4, <1>5, <1>8, <2>1, <3>1 DEF TreesInv, SpentGone, ItemStep, SamePlace
  <2>5. QED
    BY <1>5, <1>6, <2>2, <2>3, <2>4 DEF TreesInv
<1>9. QED
  BY <1>7, <1>8

LEMMA DeleteTrees ==
    ASSUME TypeInv, TreesInv, DeleteUtxo
    PROVE  TreesInv'
<1>. DEFINE k == Items[session.pos][2]
<1>1. /\ session.at = "spend" /\ Items[session.pos][1] = "in" /\ k \notin db.index
      /\ UNCHANGED <<node_tip, signals, req, seen>>
  BY DEF DeleteUtxo, At, TreesInv, AtItem
<1>2. session.pos \in 1 .. Len(Items) /\ session.next \in Blocks /\ Items = Body[session.next]
  BY <1>1, PlaceFacts DEF InBlock, InItem
<1>3. Items[session.pos] = <<"in", k>> /\ k \in Keys
  BY <1>1, <1>2, BodyFacts
<1>4. /\ SameTips /\ db'.index = db.index /\ db'.policy_txs = db.policy_txs
      /\ db'.utxo = db.utxo \ {k}
  BY DbEdits, PlaceFacts DEF DeleteUtxo
<1>5. SamePlace /\ session'.at = "body" /\ session'.pos = session.pos + 1
  BY <1>1, PlaceFacts DEF DeleteUtxo, Session, SamePlace
<1>6. ItemStep
  BY <1>1, <1>4, <1>5 DEF ItemStep, SameSeen
<1>7. /\ Bounded' /\ Filtered' /\ OneRestart' /\ Items' = Items /\ ~Replaying'
      /\ Len(Items) \in Nat
  BY <1>6, ItemFrame
<1>8. PoliciesKnown'
  BY <1>1, <1>4, <1>5 DEF TreesInv, PoliciesKnown, Creator
<1>9. AtItem'
  <2>1. session'.pos <= Len(Items') + 1
    BY <1>2, <1>5, <1>7
  <2>2. QED
    BY <1>1, <1>4, <1>5, <2>1 DEF TreesInv, AtItem, Creator
<1>10. Standing'
  <2>1. \A l : Made(l)' <=> Made(l)
    BY <1>3, <1>5, <1>6, ItemThrough
  <2>2. QED
    BY <1>1, <1>4, <2>1 DEF TreesInv, Standing, Ours, SpentBy
<1>11. SpentGone'
  <2>1. \A l : Gone(l, session.next, Here)' => Gone(l, session.next, Here) \/ l = k
    BY <1>3, <1>5, <1>6, ItemThrough
  <2>2. QED
    BY <1>1, <1>4, <1>5, <1>7, <2>1 DEF TreesInv, SpentGone, SamePlace
<1>12. QED
  BY <1>7, <1>8, <1>9, <1>10, <1>11 DEF TreesInv

LEMMA OutputTrees ==
    ASSUME TypeInv, TreesInv, ProcessOutput
    PROVE  TreesInv'
<1>. DEFINE k == Items[session.pos][2]
<1>1. /\ session.at = "body" /\ session.pos <= Len(Items) /\ Items[session.pos][1] = "out"
      /\ UNCHANGED <<node_tip, signals, req, seen>>
  BY DEF ProcessOutput, At
<1>2. session.pos \in 1 .. Len(Items) /\ session.next \in Blocks /\ Items = Body[session.next]
  BY <1>1, PlaceFacts DEF InBlock
<1>3. Items[session.pos] = <<"out", k>> /\ k \in Keys
  BY <1>1, <1>2, BodyFacts
<1>4. ItemStep /\ db'.index = db.index /\ db'.policy_txs = db.policy_txs
  <2>1. SamePlace /\ session'.at \in {"body", "index"}
    BY <1>1, PlaceFacts DEF ProcessOutput, Session, SamePlace
  <2>2. SameTips /\ db'.index = db.index /\ db'.policy_txs = db.policy_txs
    <3>1. UNCHANGED db \/ db' = [db EXCEPT !.utxo = db.utxo \cup {k}]
      BY DEF ProcessOutput
    <3>2. QED
      BY <3>1, DbEdits, PlaceFacts DEF SameTips
  <2>3. QED
    BY <1>1, <2>1, <2>2 DEF ItemStep, SameSeen
<1>5. /\ Bounded' /\ Filtered' /\ OneRestart' /\ Items' = Items /\ ~Replaying'
      /\ seen.begun \in 0 .. N /\ session.next <= seen.begun /\ Here = session.pos
  BY <1>4, ItemFrame
<1>6. PoliciesKnown'
  BY <1>1, <1>4 DEF TreesInv, PoliciesKnown, ItemStep, SameSeen, Creator
<1>7. Creator(k) = session.next /\ ~Gone(k, session.next, session.pos)
  BY <1>2, <1>3, MakeFacts
<1>8. CASE AddressOf[k] \in session.filter
  <2>1. session'.at = "index" /\ session'.pos = session.pos
    BY <1>8, PlaceFacts DEF ProcessOutput, Session
  <2>2. db'.utxo = db.utxo \cup {k}
    <3>1. db' = [db EXCEPT !.utxo = db.utxo \cup {k}]
      BY <1>8 DEF ProcessOutput
    <3>2. QED
      BY <3>1, DbEdits, PlaceFacts
  <2>3. AtItem'
    BY <1>1, <1>3, <1>4, <1>5, <1>7, <2>1, <2>2 DEF TreesInv, AtItem, Creator
  <2>4. Standing'
    <3>1. \A l : Made(l)' <=> Made(l)
      BY <1>4, <2>1, ItemHalf
    <3>2. QED
      BY <1>1, <1>4, <3>1 DEF TreesInv, Standing, Ours, SpentBy
  <2>5. SpentGone'
    <3>1. \A l : Gone(l, session.next, Here)' <=> Gone(l, session.next, Here)
      BY <1>4, <2>1, ItemHalf
    <3>2. ~Gone(k, session.next, Here)
      BY <1>5, <1>7
    <3>3. QED
      BY <1>1, <1>4, <1>5, <2>2, <3>1, <3>2 DEF TreesInv, SpentGone, ItemStep, SamePlace
  <2>6. QED
    BY <1>5, <1>6, <2>3, <2>4, <2>5 DEF TreesInv
<1>9. CASE AddressOf[k] \notin session.filter
  <2>1. session'.at = "body" /\ session'.pos = session.pos + 1 /\ UNCHANGED db
    BY <1>1, <1>9, PlaceFacts DEF ProcessOutput, Session
  <2>2. AtItem'
    <3>1. session'.pos <= Len(Items') + 1
      BY <1>2, <1>4, <1>5, <2>1, ItemFrame
    <3>2. QED
      BY <1>1, <2>1, <3>1 DEF TreesInv, AtItem, Creator
  <2>3. ~Ours(k)
    BY <1>1, <1>9 DEF TreesInv, Filtered, Ours
  <2>4. Standing'
    <3>1. \A l : Made(l)' => Made(l) \/ l = k
      BY <1>3, <1>4, <2>1, ItemThrough
    <3>2. QED
      BY <1>1, <2>1, <2>3, <3>1 DEF TreesInv, Standing, Ours, SpentBy
  <2>5. SpentGone'
    <3>1. \A l : Gone(l, session.next, Here)' <=> Gone(l, session.next, Here)
      BY <1>3, <1>4, <2>1, ItemThrough
    <3>2. QED
      BY <1>1, <1>4, <1>5, <2>1, <3>1 DEF TreesInv, SpentGone, ItemStep, SamePlace
  <2>6. QED
    BY <1>5, <1>6, <2>2, <2>4, <2>5 DEF TreesInv
<1>10. QED
  BY <1>8, <1>9

LEMMA IndexTrees ==
    ASSUME TypeInv, TreesInv, IndexUtxo
    PROVE  TreesInv'
<1>. DEFINE k == Items[session.pos][2]
<1>1. /\ session.at = "index" /\ Items[session.pos][1] = "out" /\ k \in db.utxo
      /\ UNCHANGED <<node_tip, signals, req, seen>>
  BY DEF IndexUtxo, At, TreesInv, AtItem
<1>2. session.pos \in 1 .. Len(Items) /\ session.next \in Blocks /\ Items = Body[session.next]
  BY <1>1, PlaceFacts DEF InBlock, InItem
<1>3. Items[session.pos] = <<"out", k>> /\ k \in Keys
  BY <1>1, <1>2, BodyFacts
<1>4. /\ SameTips /\ db'.utxo = db.utxo /\ db'.policy_txs = db.policy_txs
      /\ db'.index = db.index \cup {k}
  BY DbEdits, PlaceFacts DEF IndexUtxo, Index
<1>5. SamePlace /\ session'.at = "body" /\ session'.pos = session.pos + 1
  BY <1>1, PlaceFacts DEF IndexUtxo, Session, SamePlace
<1>6. ItemStep
  BY <1>1, <1>4, <1>5 DEF ItemStep, SameSeen
<1>7. /\ Bounded' /\ Filtered' /\ OneRestart' /\ Items' = Items /\ ~Replaying'
      /\ Len(Items) \in Nat
  BY <1>6, ItemFrame
<1>8. PoliciesKnown'
  BY <1>1, <1>4, <1>5 DEF TreesInv, PoliciesKnown, Creator
<1>9. AtItem'
  <2>1. session'.pos <= Len(Items') + 1
    BY <1>2, <1>5, <1>7
  <2>2. QED
    BY <1>1, <1>4, <1>5, <2>1 DEF TreesInv, AtItem, Creator
<1>10. Standing'
  <2>1. \A l : Made(l)' => Made(l) \/ l = k
    BY <1>3, <1>5, <1>6, ItemThrough
  <2>2. QED
    BY <1>1, <1>4, <2>1 DEF TreesInv, Standing, Ours, SpentBy
<1>11. SpentGone'
  <2>1. \A l : Gone(l, session.next, Here)' <=> Gone(l, session.next, Here)
    BY <1>3, <1>5, <1>6, ItemThrough
  <2>2. QED
    BY <1>1, <1>4, <1>5, <1>7, <2>1 DEF TreesInv, SpentGone, SamePlace
<1>12. QED
  BY <1>7, <1>8, <1>9, <1>10, <1>11 DEF TreesInv

-----------------------------------------------------------------------------
(* The rest of a block.                                                    *)

LEMMA BlockFrame ==
    ASSUME TypeInv, TreesInv, session.at \in InBlock, session'.at \in AfterItems,
           SamePlace, SameSeen, seen'.rewound = seen.rewound,
           UNCHANGED <<node_tip, signals, req>>
    PROVE  /\ SameTips => Bounded'
           /\ Filtered' /\ OneRestart' /\ Items' = Items /\ ~Replaying'
           /\ session'.at \in InBlock /\ session.next \in Blocks
           /\ seen.begun \in 0 .. N /\ session.next \in 1 .. seen.begun
           /\ Len(Items) \in Nat /\ Items = Body[session.next]
           /\ Here' = Len(Items) + 1
<1>1. /\ session'.at \in InBlock /\ session.at \notin BeforeLoop /\ session'.at \notin BeforeLoop
      /\ session.at \notin {"untips", "idle", "resume", "connect", "filter"}
      /\ session'.at \notin {"untips", "idle", "resume", "connect", "filter"}
  BY DEF InBlock, BeforeLoop, AfterItems
<1>2. SameTips => Bounded'
  BY <1>1 DEF TreesInv, Bounded, SamePlace, SameTips, SameSeen
<1>3. Filtered'
  BY <1>1 DEF TreesInv, Filtered, SamePlace
<1>4. OneRestart'
  BY <1>1, SameRestart DEF TreesInv, Fresh, SamePlace, SameSeen
<1>5. Items' = Items /\ ~Replaying'
  BY <1>1 DEF Items, Replaying, SamePlace
<1>6. Here' = Len(Items) + 1
  BY <1>1, <1>5 DEF Here, AfterItems
<1>7. /\ seen.begun \in 0 .. N /\ session.next \in 1 .. N /\ session.next <= seen.begun /\ N \in Nat
  BY PlaceFacts, BoundedFacts DEF TreesInv, Bounded
<1>8. session.next \in 1 .. seen.begun
  BY <1>7
<1>9. QED
  BY <1>1, <1>2, <1>3, <1>4, <1>5, <1>6, <1>7, <1>8, PlaceFacts

LEMMA TokensTrees ==
    ASSUME TypeInv, TreesInv, TrackTokens
    PROVE  TreesInv'
<1>. DEFINE txs == {x[2][1] : x \in {y \in ToSet(Items) : y[1] = "out" /\ y[2] \in Holders}}
<1>1. /\ session.at = "body" /\ session.pos > Len(Items)
      /\ db' = [db EXCEPT !.policy_txs = db.policy_txs \cup txs]
      /\ UNCHANGED <<node_tip, signals, req, seen>>
  BY DEF TrackTokens, At
<1>. HIDE DEF txs
<1>2. SamePlace /\ session'.at = "events"
  BY <1>1, PlaceFacts DEF TrackTokens, Session, SamePlace
<1>3. /\ SameTips /\ db'.utxo = db.utxo /\ db'.index = db.index
      /\ db'.policy_txs = db.policy_txs \cup txs
  BY <1>1, DbEdits, PlaceFacts
<1>4. session.at \in InBlock /\ session'.at \in AfterItems /\ SameSeen /\ seen'.rewound = seen.rewound
  BY <1>1, <1>2 DEF InBlock, AfterItems, SameSeen
<1>5. /\ Bounded' /\ Filtered' /\ OneRestart' /\ Items' = Items /\ ~Replaying'
      /\ session'.at \in InBlock /\ session.next \in Blocks
      /\ Len(Items) \in Nat /\ Items = Body[session.next] /\ Here' = Len(Items) + 1
  BY <1>1, <1>2, <1>3, <1>4, BlockFrame
<1>6. Here' = Here
  <2>1. session.pos \in Nat /\ session.pos <= Len(Items) + 1 /\ Here = session.pos
    BY <1>1, PlaceFacts, HereFacts DEF TreesInv, AtItem
  <2>2. QED
    BY <1>1, <1>5, <2>1
<1>7. AtItem'
  BY <1>1, <1>2, <1>3 DEF TreesInv, AtItem, Creator
<1>8. Standing'
  <2>1. \A l : Made(l)' <=> Made(l)
    BY <1>1, <1>2, <1>4, <1>5, <1>6 DEF Made, Creator, SamePlace
  <2>2. QED
    BY <1>1, <1>3, <2>1 DEF TreesInv, Standing, Ours, SpentBy
<1>9. SpentGone'
  <2>1. \A l : Gone(l, session.next, Here)' <=> Gone(l, session.next, Here)
    BY <1>2, <1>6 DEF Gone, SpentBy, SamePlace
  <2>2. QED
    BY <1>1, <1>2, <1>3, <1>5, <2>1 DEF TreesInv, SpentGone, SamePlace
<1>10. PoliciesKnown'
  <2>1. ASSUME NEW k \in Holders, Creator(k) = session.next PROVE k[1] \in txs
    <3>1. k \in Keys
      BY KeyTypes
    <3>2. \E i \in 1 .. Len(Items) : Items[i] = <<"out", k>>
      BY <1>5, <2>1, <3>1, CreatorFacts
    <3>3. <<"out", k>> \in ToSet(Items)
      BY <1>5, <3>2, BodyFacts
    <3>4. QED
      BY <3>3 DEF txs
  <2>2. QED
    BY <1>1, <1>2, <1>3, <2>1 DEF TreesInv, PoliciesKnown, Creator, SamePlace
<1>11. QED
  BY <1>5, <1>7, <1>8, <1>9, <1>10 DEF TreesInv

\* Events, metadata and tips leave the outputs alone.
LEMMA WritesTrees ==
    ASSUME TypeInv, TreesInv, session.at \in AfterItems, session'.at \in AfterItems,
           SamePlace \/ session'.next = session.next,
           SameTrees, SameSeen, seen'.rewound = seen.rewound
    PROVE  TreeParts'
<1>1. /\ session.at \in InBlock /\ session'.at \in InBlock /\ session'.next = session.next
      /\ session'.at \notin {"body", "spend", "index"}
      /\ session.at \notin {"body", "spend", "index"}
      /\ session'.at \notin BeforeLoop /\ session'.at \notin {"untips", "idle"}
  BY DEF AfterItems, InBlock, SamePlace, BeforeLoop
<1>2. Here' = Here
  BY <1>1 DEF Here, Items
<1>3. ~Replaying'
  BY <1>1 DEF Replaying
<1>4. QED
  BY <1>1, <1>2, <1>3, TreesStay DEF TreesInv, TreeParts

LEMMA EventTrees ==
    ASSUME TypeInv, TreesInv, WriteEvent
    PROVE  TreesInv'
<1>1. /\ session.at = "events" /\ UNCHANGED <<node_tip, signals, req, seen>>
  BY DEF WriteEvent, At
<1>2. SamePlace /\ session'.at = "events"
  BY <1>1, PlaceFacts DEF WriteEvent, Session, SamePlace
<1>3. SameTrees /\ SameTips
  <2>1. UNCHANGED db \/ \E x : db' = [db EXCEPT !.events[session.next] = x]
    BY DEF WriteEvent
  <2>2. QED
    BY <2>1, DbEdits, PlaceFacts DEF SameTips, SameTrees
<1>4. session.at \in AfterItems /\ session.at \in InBlock /\ session'.at \in AfterItems
      /\ SameSeen /\ seen'.rewound = seen.rewound
  BY <1>1, <1>2 DEF InBlock, AfterItems, SameSeen
<1>5. Bounded' /\ Filtered' /\ OneRestart'
  BY <1>1, <1>2, <1>3, <1>4, BlockFrame
<1>6. TreeParts'
  BY <1>2, <1>3, <1>4, WritesTrees
<1>7. QED
  BY <1>5, <1>6 DEF TreesInv, TreeParts

LEMMA MetadataTrees ==
    ASSUME TypeInv, TreesInv, StoreMetadata
    PROVE  TreesInv'
<1>1. /\ session.at = "events" /\ UNCHANGED <<node_tip, signals, req, seen>>
      /\ db' = [db EXCEPT !.known = db.known \cup {session.next}]
  BY DEF StoreMetadata, At, Known
<1>2. /\ session'.at \in {"tips", "broadcast"} /\ session'.next = session.next
      /\ session'.base = session.base /\ session'.filter = session.filter
      /\ session'.current_slot = session.next
  BY <1>1, PlaceFacts DEF StoreMetadata, Session
<1>3. /\ SameTrees /\ db'.chain_tip = db.chain_tip /\ db'.wallet_tip = db.wallet_tip
      /\ db'.known = db.known \cup {session.next}
  BY <1>1, DbEdits, PlaceFacts
<1>4. /\ session.at \in AfterItems /\ session.at \in InBlock /\ session'.at \in AfterItems
      /\ session'.at \in InBlock /\ session'.at \notin BeforeLoop
      /\ SameSeen /\ seen'.rewound = seen.rewound
      /\ session.at \notin BeforeLoop /\ session.at \notin {"resume", "untips"}
      /\ session'.at \notin {"resume", "untips"}
  BY <1>1, <1>2 DEF InBlock, AfterItems, SameSeen, BeforeLoop
<1>5. TreeParts'
  BY <1>2, <1>3, <1>4, WritesTrees
<1>6. /\ seen.begun \in 0 .. N /\ session.next \in 1 .. N /\ N \in Nat /\ session.next <= seen.begun
  BY <1>4, PlaceFacts, BoundedFacts DEF TreesInv, Bounded
<1>7. Bounded'
  <2>1. session.next \in 1 .. seen.begun /\ session.next <= session.next
    BY <1>6
  <2>2. QED
    BY <1>1, <1>2, <1>3, <1>4, <1>6, <2>1 DEF TreesInv, Bounded, SameSeen
<1>8. Filtered'
  BY <1>1, <1>2, <1>4 DEF TreesInv, Filtered
<1>9. OneRestart'
  BY <1>1, <1>2, <1>4, SameRestart DEF TreesInv, Fresh, SameSeen
<1>10. QED
  BY <1>5, <1>7, <1>8, <1>9 DEF TreesInv, TreeParts

LEMMA TipsTrees ==
    ASSUME TypeInv, TreesInv, SaveTips
    PROVE  TreesInv'
<1>1. /\ session.at = "tips" /\ UNCHANGED <<node_tip, signals, req, seen>>
      /\ \/ db' = [db EXCEPT !.chain_tip = TipOf(session.next)]
         \/ session.pos # 0 /\ db' = [db EXCEPT !.wallet_tip[session.pos] = TipOf(session.next)]
  BY DEF SaveTips, At
<1>2. SamePlace /\ session'.at \in {"tips", "broadcast"}
  BY <1>1, PlaceFacts DEF SaveTips, Session, SamePlace
<1>3. /\ SameTrees /\ db'.known = db.known
      /\ \/ db'.chain_tip = TipOf(session.next) /\ db'.wallet_tip = db.wallet_tip
         \/ /\ db'.chain_tip = db.chain_tip /\ session.pos # 0
            /\ db'.wallet_tip = [db.wallet_tip EXCEPT ![session.pos] = TipOf(session.next)]
  <2>1. CASE db' = [db EXCEPT !.chain_tip = TipOf(session.next)]
    BY <2>1, DbEdits, PlaceFacts
  <2>2. CASE session.pos # 0 /\ db' = [db EXCEPT !.wallet_tip[session.pos] = TipOf(session.next)]
    <3>1. PICK w, t : /\ w = session.pos /\ t = TipOf(session.next)
                      /\ db' = [db EXCEPT !.wallet_tip[w] = t]
      BY <2>2
    <3>2. /\ SameTrees /\ db'.known = db.known /\ db'.chain_tip = db.chain_tip
          /\ db'.wallet_tip = [db.wallet_tip EXCEPT ![w] = t]
      <4>1. DbType
        BY PlaceFacts
      <4>2. QED
        BY <3>1, <4>1 DEF DbType, HasFields, SameTrees
    <3>3. QED
      BY <2>2, <3>1, <3>2
  <2>3. QED
    BY <1>1, <2>1, <2>2
<1>4. /\ session.at \in AfterItems /\ session.at \in InBlock /\ session'.at \in AfterItems
      /\ SameSeen /\ seen'.rewound = seen.rewound
      /\ session.at \notin BeforeLoop /\ session.at \notin {"resume", "untips"}
  BY <1>1, <1>2 DEF InBlock, AfterItems, SameSeen, BeforeLoop
<1>5. TreeParts'
  BY <1>2, <1>3, <1>4, WritesTrees
<1>6. /\ session.next <= seen.begun /\ Filtered' /\ OneRestart'
      /\ session'.at \in InBlock
  BY <1>1, <1>2, <1>4, BlockFrame DEF TreesInv, Bounded
<1>7. TipOf(session.next).slot <= seen.begun
  BY <1>6 DEF TipOf
<1>8. db'.chain_tip.slot <= seen.begun
  BY <1>3, <1>7 DEF TreesInv, Bounded
<1>9. \A w \in Wallets : db'.wallet_tip[w].slot <= seen.begun
  <2>1. db.wallet_tip \in [Wallets -> Tip]
    BY PlaceFacts DEF DbType
  <2>2. ASSUME NEW w \in Wallets PROVE db'.wallet_tip[w].slot <= seen.begun
    <3>1. db'.wallet_tip[w] = db.wallet_tip[w] \/ db'.wallet_tip[w] = TipOf(session.next)
      BY <1>3, <2>1
    <3>2. QED
      BY <1>7, <3>1 DEF TreesInv, Bounded
  <2>3. QED
    BY <2>2
<1>10. Bounded'
  <2>1. session'.at \notin BeforeLoop \cup {"resume", "untips"}
    BY <1>2 DEF BeforeLoop
  <2>2. QED
    BY <1>1, <1>2, <1>3, <1>4, <1>6, <1>8, <1>9, <2>1 DEF TreesInv, Bounded, SameSeen, SamePlace
<1>11. QED
  BY <1>5, <1>6, <1>10 DEF TreesInv, TreeParts

\* The block is done: everything in it is made and spent.
LEMMA BroadcastTrees ==
    ASSUME TypeInv, TreesInv, BroadcastBlock
    PROVE  TreesInv'
<1>1. /\ session.at = "broadcast" /\ UNCHANGED <<node_tip, db, signals, req>>
      /\ seen' = [seen EXCEPT !.done = IF session.next > @ THEN session.next ELSE @]
  BY DEF BroadcastBlock, At
<1>2. /\ session'.at = "idle" /\ session'.next = session.next + 1
      /\ session'.base = session.base /\ session'.filter = session.filter
      /\ session'.current_slot = session.current_slot
  BY <1>1, PlaceFacts DEF BroadcastBlock, Session
<1>3. /\ session.at \in InBlock /\ session'.at \notin InBlock
      /\ session.at \notin BeforeLoop /\ session'.at \notin BeforeLoop
      /\ session'.at \notin {"untips", "resume", "connect", "filter", "body", "spend", "index"}
      /\ session.at \notin {"untips", "resume", "connect", "filter"}
  BY <1>1, <1>2 DEF InBlock, BeforeLoop
<1>4. /\ seen.begun \in 0 .. N /\ seen.done \in 0 .. N /\ session.next \in 1 .. N /\ N \in Nat
      /\ session.next <= seen.begun /\ seen.done <= seen.begun /\ session.next <= seen.done + 1
      /\ session.current_slot <= session.next /\ session.current_slot \in Nat
      /\ seen.begun = seen.done \/ seen.begun = session.next
  BY <1>3, PlaceFacts, BoundedFacts DEF TreesInv, Bounded
<1>5. /\ seen'.done = (IF session.next > seen.done THEN session.next ELSE seen.done)
      /\ seen'.begun = seen.begun /\ seen'.rewound = seen.rewound
  BY <1>1, SeenEdits, PlaceFacts
<1>6. /\ seen'.done = seen.begun
      /\ seen'.done = seen.done \/ seen'.done = session.next
      /\ Fresh => Fresh'
  <2>1. seen'.done = seen.begun /\ (seen'.done = seen.done \/ seen'.done = session.next)
    BY <1>4, <1>5
  <2>2. session.next = seen.done + 1 => seen'.done = session.next
    BY <1>4, <1>5
  <2>3. QED
    BY <1>2, <1>3, <2>1, <2>2 DEF Fresh
<1>7. Bounded'
  <2>1. session'.next <= seen'.done + 1
    BY <1>2, <1>4, <1>6
  <2>2. QED
    BY <1>1, <1>2, <1>3, <1>4, <1>5, <1>6, <2>1 DEF TreesInv, Bounded
<1>8. Filtered'
  BY <1>2, <1>3 DEF TreesInv, Filtered
<1>9. AtItem'
  BY <1>1, <1>3, <1>5 DEF TreesInv, AtItem, Creator
<1>10. /\ Here = Len(Items) + 1 /\ Here' = 1 /\ Len(Items) \in Nat /\ session.next \in Blocks
       /\ Items = Body[session.next]
  <2>1. Here' = 1
    BY <1>3 DEF Here
  <2>2. QED
    BY <1>1, <1>3, <2>1, PlaceFacts, HereFacts
<1>11. Standing'
  <2>1. ASSUME NEW k \in Keys, Made(k)' PROVE Made(k)
    <3>1. Creator(k) \in Nat /\ Creator(k) <= seen'.done
      BY <1>3, <2>1, CreatorFacts DEF Made, Creator
    <3>2. Creator(k) <= seen.done \/ Creator(k) = session.next
      BY <1>4, <1>5, <3>1
    <3>3. CASE Creator(k) = session.next
      <4>1. \E i \in 1 .. Len(Items) : Items[i] = <<"out", k>>
        BY <1>10, <3>3, CreatorFacts
      <4>2. 1 .. Here - 1 = 1 .. Len(Items)
        BY <1>10
      <4>3. QED
        BY <1>3, <4>1, <4>2 DEF Made
    <3>4. QED
      BY <3>2, <3>3 DEF Made
  <2>2. QED
    BY <1>1, <1>5, <2>1 DEF TreesInv, Standing, Ours, SpentBy
<1>12. PoliciesKnown'
  <2>1. ASSUME NEW k \in Holders, Creator(k) <= seen'.done
        PROVE  Creator(k) <= seen.done \/ Creator(k) = session.next
    <3>1. Creator(k) \in Nat
      BY KeyTypes, CreatorFacts
    <3>2. QED
      BY <1>4, <1>5, <2>1, <3>1
  <2>2. QED
    BY <1>1, <1>2, <2>1 DEF TreesInv, PoliciesKnown, Creator
<1>13. SpentGone'
  <2>1. ~Replaying'
    BY <1>2, <1>3, <1>4 DEF Replaying
  <2>2. \A k : Gone(k, session.next + 1, 1) <=> SpentBy(k, session.next)
    BY <1>4, GoneFirst
  <2>3. \A k : Gone(k, session.next, Here) <=> SpentBy(k, session.next)
    BY <1>10, GoneFacts
  <2>4. \A k, b : Gone(k, b, 1)' <=> Gone(k, b, 1)
    BY DEF Gone, SpentBy
  <2>5. seen.rewound <= 1 => \A k \in db.utxo : ~Gone(k, session.next + 1, 1)
    BY <2>2, <2>3 DEF TreesInv, SpentGone
  <2>6. QED
    BY <1>1, <1>2, <1>5, <1>10, <2>1, <2>4, <2>5 DEF SpentGone, SpentBy
<1>14. OneRestart'
  <2>1. seen.rewound <= 1 /\ Fresh => Fresh'
    BY <1>6
  <2>2. QED
    BY <1>1, <1>5, <1>6 DEF TreesInv, OneRestart, Pending
<1>15. QED
  BY <1>7, <1>8, <1>9, <1>11, <1>12, <1>13, <1>14 DEF TreesInv

-----------------------------------------------------------------------------
(* Requests, streams and the node.                                         *)

LEMMA ElsewhereTrees ==
    ASSUME TypeInv, TreesInv, UNCHANGED session, SameTrees, SameSeen, db'.known = db.known,
           db'.chain_tip.slot <= seen.begun, \A w \in Wallets : db'.wallet_tip[w].slot <= seen.begun,
           seen.begun <= node_tip', seen'.rewound <= 1 => seen.rewound <= 1, OneRestart'
    PROVE  TreesInv'
<1>1. Bounded'
  BY DEF TreesInv, Bounded, SameSeen
<1>2. Filtered'
  BY DEF TreesInv, Filtered
<1>3. TreeParts'
  BY TreesFrame DEF TreesInv, TreeParts
<1>4. QED
  BY <1>1, <1>2, <1>3 DEF TreesInv, TreeParts

LEMMA PendingStays ==
    ASSUME TypeInv, TreesInv, UNCHANGED session, SameSeen, seen'.rewound = seen.rewound,
           UNCHANGED signals, \A c \in Callers : Pending(c)' => Pending(c)
    PROVE  OneRestart'
BY DEF TreesInv, OneRestart, Fresh, SameSeen

LEMMA QuietTrees ==
    ASSUME TypeInv, TreesInv, UNCHANGED <<db, session, seen>>, UNCHANGED signals,
           node_tip' \in {node_tip, node_tip + 1}, \A c \in Callers : Pending(c)' => Pending(c)
    PROVE  TreesInv'
<1>1. SameTrees /\ SameSeen /\ OneRestart'
  BY PendingStays DEF SameTrees, SameSeen
<1>2. seen.begun <= node_tip'
  <2>1. seen.begun \in Nat /\ node_tip \in Nat /\ seen.begun <= node_tip
    BY PlaceFacts DEF TreesInv, Bounded
  <2>2. QED
    BY <2>1
<1>3. QED
  BY <1>1, <1>2, ElsewhereTrees DEF TreesInv, Bounded

LEMMA RequestTrees ==
    ASSUME TypeInv, TreesInv, NEW c \in Callers, NEW op \in Operations \ {"FollowTip"},
           NEW asked \in Questions(op), Request(c, op, asked)
    PROVE  TreesInv'
<1>1. /\ UNCHANGED <<node_tip, db, signals, session>>
      /\ seen' = [seen EXCEPT !.rewound = IF op = "AddAddressAndRollback" THEN @ + 1 ELSE @]
  BY DEF Request
<1>2. /\ SameTrees /\ SameSeen
      /\ seen'.rewound = IF op = "AddAddressAndRollback" THEN seen.rewound + 1 ELSE seen.rewound
  BY <1>1, SeenEdits, PlaceFacts DEF SameTrees
<1>3. \A d \in Callers \ {c} : Pending(d)' <=> Pending(d)
  BY RequestStepType DEF Pending
<1>4. op # "AddAddressAndRollback" => ~Pending(c)'
  <2>1. op # "AddAddressAndRollback" => FirstStep[op] \notin Rewinding
    BY DEF FirstStep, Rewinding, Operations
  <2>2. QED
    BY <2>1, RequestStepType DEF Pending
<1>5. OneRestart'
  <2>1. CASE op # "AddAddressAndRollback"
    BY <1>1, <1>2, <1>3, <1>4, <2>1, PendingStays
  <2>2. CASE op = "AddAddressAndRollback"
    <3>1. seen.rewound \in Nat /\ seen'.rewound = seen.rewound + 1
      BY <1>2, <2>2, PlaceFacts
    <3>2. seen'.rewound <= 1 => seen.rewound = 0 /\ seen'.rewound # 0
      BY <3>1
    <3>3. seen'.rewound <= 1 => /\ signals' = 0 /\ Fresh'
                                 /\ \A d \in Callers : Pending(d)' => d = c
      BY <1>1, <1>2, <1>3, <3>2 DEF TreesInv, OneRestart, Fresh, SameSeen
    <3>4. QED
      BY <3>2, <3>3 DEF OneRestart
  <2>3. QED
    BY <2>1, <2>2
<1>6. seen'.rewound <= 1 => seen.rewound <= 1
  BY <1>2, PlaceFacts
<1>7. QED
  BY <1>1, <1>2, <1>5, <1>6, ElsewhereTrees DEF TreesInv, Bounded

LEMMA RewindTipTrees ==
    ASSUME TypeInv, RewindTargets, TreesInv, NEW c \in Callers, RewindTip(c) \/ RewindWallets(c)
    PROVE  TreesInv'
<1>1. /\ UNCHANGED <<node_tip, signals, session, seen>>
      /\ Doing(c, "rewind") \/ Doing(c, "wallets")
  BY DEF RewindTip, RewindWallets
<1>2. /\ SameTrees /\ db'.known = db.known
      /\ \/ db'.chain_tip = TipOf(req[c].num) /\ db'.wallet_tip = db.wallet_tip
         \/ /\ db'.chain_tip = db.chain_tip
            /\ \/ db'.wallet_tip = db.wallet_tip
               \/ \E w \in Wallets :
                    db'.wallet_tip = [db.wallet_tip EXCEPT ![w] = TipOf(req[c].num)]
      /\ \A d \in Callers : Pending(d)' => Pending(d)
  <2>1. CASE RewindTip(c)
    <3>1. db' = [db EXCEPT !.chain_tip = TipOf(req[c].num)]
      BY <2>1 DEF RewindTip
    <3>2. SameTrees
      BY <3>1, DbEdits, PlaceFacts
    <3>3. \A d \in Callers \ {c} : Pending(d)' <=> Pending(d)
      BY <2>1, RewindTipType DEF Pending
    <3>4. Pending(c)
      BY <2>1 DEF RewindTip, Doing, Pending, Rewinding
    <3>5. QED
      BY <2>1, <3>2, <3>3, <3>4, RewindTipType
  <2>2. CASE RewindWallets(c)
    <3>1. UNCHANGED db \/ \E w, t : db' = [db EXCEPT !.wallet_tip[w] = t]
      BY <2>2 DEF RewindWallets
    <3>2. SameTrees
      BY <3>1, PlaceFacts DEF SameTrees, DbType, HasFields
    <3>3. \A d \in Callers \ {c} : Pending(d)' <=> Pending(d)
      BY <2>2, RewindWalletsType DEF Pending
    <3>4. Pending(c)
      BY <2>2 DEF RewindWallets, Doing, Pending, Rewinding
    <3>5. QED
      BY <2>2, <3>2, <3>3, <3>4, RewindWalletsType
  <2>3. QED
    BY <2>1, <2>2
<1>3. TipOf(req[c].num).slot <= seen.begun
  <2>1. req[c].num = 0 \/ req[c].num \in 1 .. seen.begun
    BY <1>1 DEF RewindTargets, TreesInv, Bounded
  <2>2. QED
    BY <2>1 DEF TipOf, TreesInv, Bounded
<1>4. db'.chain_tip.slot <= seen.begun
  BY <1>2, <1>3 DEF TreesInv, Bounded
<1>5. ASSUME NEW v \in Wallets PROVE db'.wallet_tip[v].slot <= seen.begun
  <2>1. db.wallet_tip \in [Wallets -> Tip]
    BY PlaceFacts DEF DbType
  <2>2. ASSUME NEW w \in Wallets,
               db'.wallet_tip = [db.wallet_tip EXCEPT ![w] = TipOf(req[c].num)]
        PROVE  db'.wallet_tip[v] = db.wallet_tip[v] \/ db'.wallet_tip[v] = TipOf(req[c].num)
    BY <2>1, <2>2
  <2>3. db'.wallet_tip[v] = db.wallet_tip[v] \/ db'.wallet_tip[v] = TipOf(req[c].num)
    BY <1>2, <2>2
  <2>4. QED
    BY <1>3, <2>3 DEF TreesInv, Bounded
<1>6. SameSeen /\ seen'.rewound = seen.rewound
  BY <1>1 DEF SameSeen
<1>7. OneRestart'
  BY <1>1, <1>2, <1>6, PendingStays
<1>8. QED
  BY <1>1, <1>2, <1>4, <1>5, <1>6, <1>7, ElsewhereTrees DEF TreesInv, Bounded

LEMMA SignalTrees ==
    ASSUME TypeInv, TreesInv, NEW c \in Callers, SignalRestart(c)
    PROVE  TreesInv'
<1>1. /\ UNCHANGED <<node_tip, db, session>> /\ Doing(c, "signal")
      /\ signals' \in {signals, signals + 1}
      /\ \E x : seen' = [seen EXCEPT !.rewinds = x]
  BY DEF SignalRestart, Signalled
<1>2. SameTrees /\ SameSeen /\ seen'.rewound = seen.rewound
  BY <1>1, SeenEdits, PlaceFacts DEF SameTrees
<1>3. /\ \A d \in Callers \ {c} : Pending(d)' <=> Pending(d)
      /\ ~Pending(c)' /\ Pending(c)
  BY <1>1, SignalType DEF Pending, Doing, Rewinding
<1>4. OneRestart'
  <2>1. ASSUME seen.rewound <= 1
        PROVE  /\ seen.rewound # 0 /\ Fresh /\ \A d \in Callers : ~Pending(d)'
               /\ signals = 0
    <3>1. \A d \in Callers : Pending(d) => d = c
      BY <1>3, <2>1 DEF TreesInv, OneRestart
    <3>2. signals \in Nat
      BY DEF TypeInv
    <3>3. signals # 1 /\ signals <= 1 /\ seen.rewound # 0 /\ Fresh
      BY <1>3, <2>1 DEF TreesInv, OneRestart
    <3>4. QED
      BY <1>3, <3>1, <3>2, <3>3
  <2>2. Fresh => Fresh'
    BY <1>1, <1>2 DEF Fresh, SameSeen
  <2>3. QED
    BY <1>1, <1>2, <2>1, <2>2 DEF OneRestart
<1>5. QED
  BY <1>1, <1>2, <1>4, ElsewhereTrees DEF TreesInv, Bounded

LEMMA StreamNodeTrees ==
    ASSUME TypeInv, TreesInv, UNCHANGED <<db, signals, session, req, seen>>,
           node_tip' = node_tip \/ node_tip' = node_tip + 1
    PROVE  TreesInv'
BY QuietTrees DEF Pending

LEMMA NextTrees ==
    ASSUME TypeInv, RewindTargets, TreesInv, [Next]_vars
    PROVE  TreesInv'
<1>1. CASE UNCHANGED vars
  BY <1>1, StreamNodeTrees DEF vars
<1>2. CASE Forge \/ Forward \/ Deliver \/ CloseStream
  BY <1>2, StreamNodeTrees DEF Forge, Forward, Deliver, CloseStream
<1>3. CASE SessionStep
  <2>1. CASE Resume \/ Connect \/ BuildFilter \/ SubscribeRestart \/ Restart
    BY <2>1, ResumeTrees, ConnectTrees, RestartTrees
  <2>2. CASE RollBackward \/ RewindWallet
    BY <2>2, RewindTrees
  <2>3. CASE BeginBlock
    BY <2>3, SkipTrees, BeginTrees
  <2>4. CASE ProcessInput \/ DeleteUtxo \/ ProcessOutput \/ IndexUtxo
    BY <2>4, InputTrees, DeleteTrees, OutputTrees, IndexTrees
  <2>5. CASE TrackTokens \/ WriteEvent \/ StoreMetadata \/ SaveTips \/ BroadcastBlock
    BY <2>5, TokensTrees, EventTrees, MetadataTrees, TipsTrees, BroadcastTrees
  <2>6. QED
    BY <1>3, <2>1, <2>2, <2>3, <2>4, <2>5 DEF SessionStep
<1>4. ASSUME NEW c \in Callers, NEW op \in Asks[c] \ {"FollowTip"}, NEW asked \in Questions(op),
             Request(c, op, asked)
      PROVE  TreesInv'
  <2>1. op \in Operations \ {"FollowTip"}
    BY IndexerConstants
  <2>2. QED
    BY <1>4, <2>1, RequestTrees
<1>5. ASSUME NEW c \in Callers, FollowTip(c) PROVE TreesInv'
  BY <1>5, StreamNodeTrees DEF FollowTip
<1>6. ASSUME NEW c \in Callers, Leave(c) PROVE TreesInv'
  <2>1. /\ UNCHANGED <<node_tip, db, signals, session, seen>> /\ node_tip' = node_tip
        /\ req'[c] = NoRequest /\ \A d \in Callers \ {c} : req'[d] = req[d]
    <3>1. UNCHANGED <<node_tip, db, signals, session, seen>>
      BY <1>6 DEF Leave
    <3>2. QED
      BY <1>6, <3>1, LeaveType
  <2>2. \A d \in Callers : Pending(d)' => Pending(d)
    BY <2>1 DEF Pending, NoRequest
  <2>3. QED
    BY <2>1, <2>2, QuietTrees
<1>7. ASSUME NEW c \in Callers,
             \/ ReadIndex(c) \/ ReadOutput(c) \/ ReadTip(c) \/ SearchPolicy(c) \/ ScanOutput(c)
             \/ ReadEvent(c) \/ ReadMetadata(c) \/ ReadParent(c) \/ FetchBlock(c)
      PROVE  TreesInv'
  <2>1. /\ UNCHANGED <<node_tip, db, signals, session, seen>> /\ node_tip' = node_tip
        /\ req'[c].at \notin Rewinding /\ \A d \in Callers \ {c} : req'[d] = req[d]
    BY <1>7, QueryType, PlaceFacts
  <2>2. \A d \in Callers : Pending(d)' => Pending(d)
    BY <2>1 DEF Pending
  <2>3. QED
    BY <2>1, <2>2, QuietTrees
<1>8. ASSUME NEW c \in Callers, AddAddress(c) \/ WalkBack(c) PROVE TreesInv'
  <2>1. /\ UNCHANGED <<node_tip, db, signals, session, seen>> /\ node_tip' = node_tip
        /\ Pending(c)
    BY <1>8, PlaceFacts DEF AddAddress, WalkBack, Reads, Doing, Pending, Rewinding
  <2>2. \A d \in Callers \ {c} : req'[d] = req[d]
    BY <1>8, AddAddressType, WalkBackType
  <2>3. \A d \in Callers : Pending(d)' => Pending(d)
    BY <2>1, <2>2 DEF Pending
  <2>4. QED
    BY <2>1, <2>3, QuietTrees
<1>9. ASSUME NEW c \in Callers, RequestStep(c) PROVE TreesInv'
  BY <1>7, <1>8, <1>9, RewindTipTrees, SignalTrees DEF RequestStep
<1>10. QED
  BY <1>1, <1>2, <1>3, <1>4, <1>5, <1>6, <1>9 DEF Next

LEMMA InitTrees == Init => TreesInv
<1> SUFFICES ASSUME Init PROVE TreesInv
  OBVIOUS
<1>1. /\ session.at = "resume" /\ session.next = 1 /\ session.base = 0 /\ session.current_slot = 0
      /\ seen.begun = 0 /\ seen.done = 0 /\ seen.rewound = 0 /\ node_tip = 2 /\ signals = 0
      /\ db.utxo = {} /\ db.index = {} /\ db.known = {} /\ db.chain_tip.slot = 0
      /\ \A w \in Wallets : db.wallet_tip[w].slot = 0
      /\ \A c \in Callers : req[c].op = "none"
  BY DEF Init, NewSession, NoTip, NoRequest
<1>2. session.at \notin InBlock /\ session.at \in BeforeLoop
  BY <1>1 DEF InBlock, BeforeLoop
<1>3. Bounded
  BY <1>1, <1>2 DEF Bounded
<1>4. AtItem /\ Filtered
  BY <1>1 DEF AtItem, Filtered
<1>5. Standing
  <2>1. \A k \in Keys : ~Made(k)
    BY <1>1, <1>2, CreatorFacts DEF Made
  <2>2. QED
    BY <2>1 DEF Standing
<1>6. PoliciesKnown
  <2>1. \A k \in Holders : Creator(k) >= 1 /\ Creator(k) \in Nat
    BY KeyTypes, CreatorFacts
  <2>2. QED
    BY <1>1, <2>1 DEF PoliciesKnown
<1>7. OneRestart
  BY <1>1 DEF OneRestart, Pending, Fresh
<1>8. SpentGone
  BY <1>1 DEF SpentGone
<1>9. QED
  BY <1>3, <1>4, <1>5, <1>6, <1>7, <1>8 DEF TreesInv

TreesStayExact == IndexInv /\ TreesInv

LEMMA TreesInvariant == Spec => []TreesStayExact
<1>1. Init => TreesStayExact
  BY InitIndex, InitTrees DEF TreesStayExact
<1>2. TreesStayExact /\ [Next]_vars => TreesStayExact'
  BY NextIndex, NextTrees DEF TreesStayExact, IndexInv
<1>3. QED
  BY <1>1, <1>2, PTL DEF Spec

LEMMA AtTheTip == TreesStayExact => ExactAtTip
<1> SUFFICES ASSUME TreesStayExact, session.at = "idle", session.next > node_tip, seen.rewound <= 1
             PROVE  LET unspent == {k \in Keys : /\ Ours(k) /\ Creator(k) <= node_tip
                                                /\ ~SpentBy(k, node_tip)}
                    IN  /\ {k \in db.utxo : Ours(k)} = unspent
                        /\ {k \in db.index : Ours(k)} = unspent
  BY DEF ExactAtTip, At
<1>1. TypeInv /\ Bounded /\ AtItem /\ Standing /\ SpentGone
  BY DEF TreesStayExact, IndexInv, TreesInv
<1>2. session.at \notin InBlock
  BY DEF InBlock
<1>3. /\ seen.begun = node_tip /\ seen.done = node_tip /\ session.next = node_tip + 1
      /\ node_tip \in 0 .. N /\ node_tip \in Nat
  BY <1>1, <1>2, PlaceFacts, BoundedFacts DEF Bounded
<1>4. ASSUME NEW k \in db.utxo
      PROVE  k \in Keys /\ Creator(k) <= node_tip /\ ~SpentBy(k, node_tip)
  <2>1. ~Gone(k, session.next, 1)
    BY <1>1, <1>2, HereFacts DEF SpentGone
  <2>2. QED
    BY <1>1, <1>3, <2>1, GoneFirst, PlaceFacts DEF AtItem
<1>5. ASSUME NEW k \in Keys, Ours(k), Creator(k) <= node_tip, ~SpentBy(k, node_tip)
      PROVE  k \in db.index
  BY <1>1, <1>3, <1>5 DEF Standing, Made
<1>6. db.index \subseteq db.utxo
  BY <1>1 DEF AtItem
<1>7. QED
  BY <1>4, <1>5, <1>6

(***************************************************************************)
(* Once the session has caught up with the node, the trees hold the        *)
(* unspent outputs of the wallets and no others (process_block: the index  *)
(* loses an input before the outputs do, and gains an output after them),  *)
(* also after one AddAddressAndRollback has rewound the tips under the     *)
(* session's feet and blocks are processed a second time.                  *)
(***************************************************************************)
THEOREM WalletOutputsExact == Spec => []ExactAtTip
BY TreesInvariant, AtTheTip, PTL

-----------------------------------------------------------------------------
(* Sequences and their elements.                                           *)

LEMMA ElementsOf ==
    ASSUME NEW S, NEW s \in Seq(S)
    PROVE  /\ Len(s) \in Nat /\ DOMAIN s = 1 .. Len(s) /\ ToSet(s) \subseteq S
           /\ \A x : x \in ToSet(s) <=> \E i \in 1 .. Len(s) : s[i] = x
           /\ IsInjective(s) <=> \A i, j \in 1 .. Len(s) : s[i] = s[j] => i = j
<1>1. Len(s) \in Nat /\ DOMAIN s = 1 .. Len(s) /\ \A i \in 1 .. Len(s) : s[i] \in S
  BY LenProperties, ElementOfSeq
<1>2. QED
  BY <1>1 DEF ToSet, IsInjective

LEMMA NoElements == ToSet(<<>>) = {} /\ IsInjective(<<>>) /\ \A S : <<>> \in Seq(S)
BY DEF ToSet, IsInjective

LEMMA AppendElements ==
    ASSUME NEW S, NEW s \in Seq(S), NEW x \in S
    PROVE  /\ Append(s, x) \in Seq(S) /\ ToSet(Append(s, x)) = ToSet(s) \cup {x}
           /\ IsInjective(s) /\ x \notin ToSet(s) => IsInjective(Append(s, x))
<1>1. /\ Len(s) \in Nat /\ Append(s, x) \in Seq(S) /\ Len(Append(s, x)) = Len(s) + 1
      /\ \A i \in 1 .. Len(s) : Append(s, x)[i] = s[i]
      /\ Append(s, x)[Len(s) + 1] = x
  BY AppendProperties, LenProperties
<1>2. 1 .. Len(s) + 1 = (1 .. Len(s)) \cup {Len(s) + 1}
  BY <1>1
<1>3. ToSet(Append(s, x)) = ToSet(s) \cup {x}
  <2>1. PICK t \in Seq(S) : t = Append(s, x)
    BY <1>1
  <2>2. \A y : y \in ToSet(t) <=> \E i \in 1 .. Len(t) : t[i] = y
    BY ElementsOf
  <2>3. \A y : y \in ToSet(s) <=> \E i \in 1 .. Len(s) : s[i] = y
    BY ElementsOf
  <2>4. QED
    BY <1>1, <1>2, <2>1, <2>2, <2>3
<1>4. ASSUME IsInjective(s), x \notin ToSet(s) PROVE IsInjective(Append(s, x))
  <2>1. \A i \in 1 .. Len(s) : s[i] # x
    BY <1>4, ElementsOf
  <2>2. \A i, j \in 1 .. Len(s) : s[i] = s[j] => i = j
    BY <1>4, ElementsOf
  <2>3. \A i, j \in 1 .. Len(Append(s, x)) : Append(s, x)[i] = Append(s, x)[j] => i = j
    BY <1>1, <1>2, <2>1, <2>2
  <2>4. QED
    BY <1>1, <2>3, ElementsOf
<1>5. QED
  BY <1>1, <1>3, <1>4

LEMMA TailElements ==
    ASSUME NEW S, NEW s \in Seq(S), s # <<>>
    PROVE  /\ Head(s) \in S /\ Tail(s) \in Seq(S)
           /\ ToSet(s) = ToSet(Tail(s)) \cup {Head(s)}
           /\ IsInjective(s) => IsInjective(Tail(s)) /\ Head(s) \notin ToSet(Tail(s))
<1>1. /\ Len(s) \in Nat \ {0} /\ Head(s) = s[1] /\ Head(s) \in S
      /\ Tail(s) \in Seq(S) /\ Len(Tail(s)) = Len(s) - 1
      /\ \A i \in 1 .. Len(s) - 1 : Tail(s)[i] = s[i + 1]
  BY HeadTailProperties, EmptySeq, LenProperties
<1>2. \A i \in 1 .. Len(s) : i = 1 \/ (i - 1 \in 1 .. Len(s) - 1 /\ i = i - 1 + 1)
  BY <1>1
<1>3. \A i \in 1 .. Len(s) - 1 : i + 1 \in 1 .. Len(s) /\ i + 1 # 1
  BY <1>1
<1>. DEFINE t == Tail(s)
<1>8. t \in Seq(S) /\ Len(t) = Len(s) - 1 /\ \A i \in 1 .. Len(s) - 1 : t[i] = s[i + 1]
  BY <1>1
<1>. HIDE DEF t
<1>9. /\ \A x : x \in ToSet(t) <=> \E i \in 1 .. Len(t) : t[i] = x
      /\ IsInjective(t) <=> \A i, j \in 1 .. Len(t) : t[i] = t[j] => i = j
  BY <1>8, ElementsOf
<1>4. ASSUME NEW x PROVE x \in ToSet(s) <=> x \in ToSet(t) \/ x = Head(s)
  <2>1. x \in ToSet(s) <=> \E i \in 1 .. Len(s) : s[i] = x
    BY ElementsOf
  <2>2. x \in ToSet(t) <=> \E i \in 1 .. Len(s) - 1 : s[i + 1] = x
    BY <1>8, <1>9
  <2>3. (\E i \in 1 .. Len(s) : s[i] = x) =>
            x = s[1] \/ \E i \in 1 .. Len(s) - 1 : s[i + 1] = x
    BY <1>2
  <2>4. 1 \in 1 .. Len(s)
    BY <1>1
  <2>5. QED
    BY <1>1, <1>3, <2>1, <2>2, <2>3, <2>4
<1>5. ASSUME IsInjective(s) PROVE IsInjective(t) /\ Head(s) \notin ToSet(t)
  <2>1. \A i, j \in 1 .. Len(s) : s[i] = s[j] => i = j
    BY <1>5, ElementsOf
  <2>2. \A i, j \in 1 .. Len(s) - 1 : s[i + 1] = s[j + 1] => i = j
    BY <1>1, <1>3, <2>1
  <2>3. IsInjective(t)
    BY <1>8, <1>9, <2>2
  <2>4. \A i \in 1 .. Len(s) - 1 : s[i + 1] # s[1]
    BY <1>1, <1>3, <2>1
  <2>5. QED
    BY <1>1, <1>8, <1>9, <2>3, <2>4
<1>6. QED
  BY <1>1, <1>4, <1>5 DEF t

\* A finite set in some order.
LEMMA ListOfSet ==
    ASSUME NEW S, IsFiniteSet(S)
    PROVE  /\ SetToSeq(S) \in Seq(S) /\ IsInjective(SetToSeq(S)) /\ ToSet(SetToSeq(S)) = S
<1>. DEFINE n == Cardinality(S)
            f == SetToSeq(S)
<1>1. n \in Nat /\ ExistsBijection(1 .. n, S)
  BY FS_CardinalityType
<1>2. \E g \in [1 .. n -> S] : IsInjective(g)
  BY <1>1 DEF ExistsBijection, Bijection, Injection
<1>3. f \in [1 .. n -> S] /\ IsInjective(f)
  BY <1>2 DEF SetToSeq
<1>4. f \in Injection(1 .. n, S)
  BY <1>3 DEF Injection
<1>5. Cardinality(1 .. n) = n
  BY <1>1, FS_Interval
<1>6. f \in Surjection(1 .. n, S)
  BY <1>4, <1>5, FS_Injection
<1>7. ToSet(f) = S
  BY <1>3, <1>6 DEF ToSet, Surjection
<1>8. f \in Seq(S)
  BY <1>1, <1>3
<1>9. QED
  BY <1>3, <1>7, <1>8

-----------------------------------------------------------------------------
(* What the requests may rely on from step to step.                        *)

Grows ==
    /\ seen.begun <= seen'.begun /\ seen.done <= seen'.done
    /\ seen.rewound <= seen'.rewound
    /\ seen.begun \in 0 .. N /\ seen'.begun \in 0 .. N
    /\ seen.done \in 0 .. N /\ seen'.done \in 0 .. N
    /\ seen.rewound \in Nat /\ seen'.rewound \in Nat

LEMMA SeenGrows ==
    ASSUME TypeInv, TreesInv, TypeInv', TreesInv', [Next]_vars
    PROVE  Grows
<1>1. /\ seen.begun \in 0 .. N /\ seen.done \in 0 .. N /\ N \in Nat /\ seen.rewound \in Nat
      /\ session.next \in Nat
  BY PlaceFacts, BoundedFacts DEF TreesInv
<1>2. seen'.begun \in 0 .. N /\ seen'.done \in 0 .. N /\ seen'.rewound \in Nat
  <2>1. /\ seen'.rewound \in Nat /\ node_tip' \in 1 .. N /\ seen'.begun \in Nat /\ seen'.done \in Nat
        /\ seen'.begun <= node_tip' /\ seen'.done <= seen'.begun
    BY BlockNumbers DEF TypeInv, SeenType, TreesInv, Bounded
  <2>2. QED
    BY <1>1, <2>1
<1>. DEFINE Later == \/ SameSeen /\ seen'.rewound = seen.rewound
                    \/ seen' = [seen EXCEPT !.begun = IF session.next > @ THEN session.next ELSE @]
                    \/ seen' = [seen EXCEPT !.done = IF session.next > @ THEN session.next ELSE @]
                    \/ seen' = [seen EXCEPT !.rewound = @ + 1]
                    \/ \E x : seen' = [seen EXCEPT !.rewinds = x]
<1>3. UNCHANGED seen => Later
  BY DEF SameSeen
<1>4. SessionStep => Later
  BY <1>3
  DEF SessionStep, Resume, Connect, BuildFilter, SubscribeRestart, Restart,
      RollBackward, RewindWallet, BeginBlock, ProcessInput, DeleteUtxo, ProcessOutput, IndexUtxo,
      TrackTokens, WriteEvent, StoreMetadata, SaveTips, BroadcastBlock
<1>5. \A c \in Callers : RequestStep(c) => Later
  BY <1>3
  DEF RequestStep, ReadIndex, ReadOutput, ReadTip, SearchPolicy, ScanOutput,
      ReadEvent, ReadMetadata, ReadParent, FetchBlock, AddAddress, WalkBack, RewindTip,
      RewindWallets, SignalRestart, Reads
<1>6. ASSUME NEW c, NEW op, NEW asked, Request(c, op, asked) PROVE Later
  <2>1. CASE op = "AddAddressAndRollback"
    BY <1>6, <2>1 DEF Request
  <2>2. CASE op # "AddAddressAndRollback"
    <3>1. seen' = [seen EXCEPT !.rewound = @]
      BY <1>6, <2>2 DEF Request
    <3>2. QED
      BY <1>3, <3>1, PlaceFacts DEF SeenType, HasFields, SameSeen
  <2>3. QED
    BY <2>1, <2>2
<1>7. Later
  BY <1>3, <1>4, <1>5, <1>6
  DEF Next, Forge, Leave, FollowTip, Forward, Deliver, CloseStream, vars
<1>8. CASE SameSeen /\ seen'.rewound = seen.rewound
  BY <1>1, <1>8 DEF Grows, SameSeen
<1>9. CASE seen' = [seen EXCEPT !.begun = IF session.next > @ THEN session.next ELSE @]
  <2>1. /\ seen'.begun = (IF session.next > seen.begun THEN session.next ELSE seen.begun)
        /\ seen'.done = seen.done /\ seen'.rewound = seen.rewound
    BY <1>9, SeenEdits, PlaceFacts
  <2>2. QED
    BY <1>1, <1>2, <2>1 DEF Grows
<1>10. CASE seen' = [seen EXCEPT !.done = IF session.next > @ THEN session.next ELSE @]
  <2>1. /\ seen'.done = (IF session.next > seen.done THEN session.next ELSE seen.done)
        /\ seen'.begun = seen.begun /\ seen'.rewound = seen.rewound
    BY <1>10, SeenEdits, PlaceFacts
  <2>2. QED
    BY <1>1, <1>2, <2>1 DEF Grows
<1>11. CASE seen' = [seen EXCEPT !.rewound = @ + 1]
  <2>1. SameSeen /\ seen'.rewound = seen.rewound + 1
    BY <1>11, SeenEdits, PlaceFacts
  <2>2. QED
    BY <1>1, <1>2, <2>1 DEF Grows, SameSeen
<1>12. CASE \E x : seen' = [seen EXCEPT !.rewinds = x]
  <2>1. SameSeen /\ seen'.rewound = seen.rewound
    BY <1>12, SeenEdits, PlaceFacts
  <2>2. QED
    BY <1>1, <1>2, <2>1 DEF Grows, SameSeen
<1>13. QED
  BY <1>7, <1>8, <1>9, <1>10, <1>11, <1>12

\* A request stays, ends, begins or takes a step of its own.
LEMMA RequestCases ==
    ASSUME TypeInv, [Next]_vars, NEW c \in Callers
    PROVE  \/ req'[c] = req[c]
           \/ req'[c] = NoRequest
           \/ \E op \in Operations \ {"FollowTip"} : \E asked \in Questions(op) : Request(c, op, asked)
           \/ RequestStep(c)
<1>1. UNCHANGED req => req'[c] = req[c]
  OBVIOUS
<1>2. SessionStep => UNCHANGED req
  BY DEF SessionStep, Resume, Connect, BuildFilter, SubscribeRestart, Restart,
      RollBackward, RewindWallet, BeginBlock, ProcessInput, DeleteUtxo, ProcessOutput, IndexUtxo,
      TrackTokens, WriteEvent, StoreMetadata, SaveTips, BroadcastBlock
<1>3. ASSUME NEW d \in Callers, Leave(d) PROVE req'[c] = req[c] \/ req'[c] = NoRequest
  BY <1>3, LeaveType
<1>4. ASSUME NEW d \in Callers, d # c, RequestStep(d) PROVE req'[c] = req[c]
  <2>1. CASE AddAddress(d) \/ WalkBack(d) \/ SignalRestart(d)
    BY <1>4, <2>1, AddAddressType, WalkBackType, SignalType
  <2>2. CASE RewindTip(d) \/ RewindWallets(d)
    BY <1>4, <2>2 DEF RewindTip, RewindWallets, TypeInv, RequestsType
  <2>3. CASE \/ ReadIndex(d) \/ ReadOutput(d) \/ ReadTip(d) \/ SearchPolicy(d) \/ ScanOutput(d)
             \/ ReadEvent(d) \/ ReadMetadata(d) \/ ReadParent(d) \/ FetchBlock(d)
    BY <1>4, <2>3, QueryType
  <2>4. QED
    BY <1>4, <2>1, <2>2, <2>3 DEF RequestStep
<1>5. ASSUME NEW d \in Callers, d # c, NEW op \in Operations \ {"FollowTip"},
             NEW asked \in Questions(op), Request(d, op, asked)
      PROVE  req'[c] = req[c]
  BY <1>5, RequestStepType
<1>6. \A d \in Callers : Asks[d] \subseteq Operations
  BY IndexerConstants
<1>7. QED
  BY <1>1, <1>2, <1>3, <1>4, <1>5, <1>6
  DEF Next, Forge, FollowTip, Forward, Deliver, CloseStream, vars

LEMMA ReadsRequest ==
    ASSUME TypeInv, NEW c \in Callers, NEW r, Reads(c, r)
    PROVE  req'[c] = r /\ UNCHANGED <<node_tip, db, tracked, signals, session, seen>>
BY DEF Reads, TypeInv, RequestsType

LEMMA RequestRecord ==
    ASSUME TypeInv, NEW c \in Callers, NEW op, NEW asked, Request(c, op, asked)
    PROVE  /\ req'[c].op = op /\ req'[c].asked = asked /\ req'[c].at = FirstStep[op]
           /\ req'[c].todo = (IF op = "ReadUtxos" THEN asked ELSE <<>>)
           /\ req'[c].keys = <<>> /\ req'[c].num = 1 /\ req'[c].got = <<>>
           /\ req'[c].since = seen.done
           /\ UNCHANGED <<node_tip, db, tracked, signals, session>>
<1>1. req'[c] = [op |-> op, asked |-> asked, at |-> FirstStep[op],
                 todo |-> IF op = "ReadUtxos" THEN asked ELSE <<>>,
                 keys |-> <<>>, num |-> 1, got |-> <<>>, since |-> seen.done]
  BY DEF Request, TypeInv, RequestsType
<1>2. QED
  BY <1>1 DEF Request

-----------------------------------------------------------------------------
(* Outputs that stand all the time.                                        *)

LEMMA SettledStand ==
    ASSUME TypeInv, TreesInv, NEW since \in Nat, since <= seen.done
    PROVE  Settled(since) \subseteq db.index /\ Settled(since) \subseteq db.utxo
<1>1. ASSUME NEW k \in Settled(since) PROVE k \in db.index
  <2>1. k \in Keys /\ Ours(k) /\ Creator(k) <= since /\ ~SpentBy(k, seen.begun)
    BY DEF Settled
  <2>2. Creator(k) \in Nat /\ seen.done \in Nat
    BY <2>1, CreatorFacts DEF TreesInv, Bounded
  <2>3. Creator(k) <= seen.done
    BY <2>1, <2>2
  <2>4. QED
    BY <2>1, <2>3 DEF TreesInv, Standing, Made
<1>2. QED
  BY <1>1 DEF TreesInv, AtItem

LEMMA SettledShrinks ==
    ASSUME Grows, NEW since
    PROVE  Settled(since)' \subseteq Settled(since)
<1>1. \A k : SpentBy(k, seen.begun) => SpentBy(k, seen'.begun)
  <2>1. seen.begun \in 0 .. seen'.begun
    BY DEF Grows
  <2>2. QED
    BY <2>1, SpentByFacts DEF Grows
<1>2. QED
  BY <1>1 DEF Settled, SpentBy, Ours, Creator

-----------------------------------------------------------------------------
(* SearchUtxos.                                                            *)

\* What the search must find: no gap below it, and within the limit.
Wanted(since) ==
    {k \in Settled(since) \cap Holders :
        k[2] <= ScanLimit /\ \A i \in 1 .. k[2] : <<k[1], i>> \in Settled(since)}

Transactions == {k[1] : k \in Keys}

\* Each wanted output has been found, or is ahead in its transaction, or in a
\* transaction that is still to be looked at.
SearchState(q) ==
    /\ q.since \in Nat /\ q.since <= seen.done
    /\ q.at \in {"policy", "scan", "answered"}
    /\ q.got \in Seq(Keys)
    /\ q.at = "policy" => q.num = 1
    /\ q.at = "scan" =>
          /\ q.todo \in Seq(Transactions) /\ q.num \in Nat \ {0}
          /\ \A k \in Wanted(q.since) :
                \/ k \in ToSet(q.got)
                \/ /\ q.todo # <<>>
                   /\ \/ k[1] \in ToSet(Tail(q.todo))
                      \/ k[1] = Head(q.todo) /\ q.num <= k[2]
    /\ q.at = "answered" => Wanted(q.since) \subseteq ToSet(q.got)

PoliciesInKeys == db.policy_txs \subseteq Transactions

Searching ==
    PoliciesInKeys /\ \A c \in Callers : req[c].op = "SearchUtxos" => SearchState(req[c])

LEMMA WantedShrinks ==
    ASSUME Grows, NEW since
    PROVE  Wanted(since)' \subseteq Wanted(since)
BY SettledShrinks DEF Wanted

LEMMA WantedFacts ==
    ASSUME NEW since, NEW k \in Wanted(since)
    PROVE  /\ k \in Keys /\ k \in Holders /\ k = <<k[1], k[2]>> /\ k[2] \in Nat \ {0}
           /\ k \in Settled(since) /\ k[2] <= ScanLimit
           /\ \A i \in 1 .. k[2] : <<k[1], i>> \in Settled(since)
BY KeyTypes DEF Wanted, Settled

LEMMA SearchStays ==
    ASSUME Grows, NEW q, SearchState(q)
    PROVE  SearchState(q)'
<1>1. Wanted(q.since)' \subseteq Wanted(q.since)
  BY WantedShrinks
<1>2. q.since <= seen'.done
  BY DEF SearchState, Grows
<1>3. QED
  BY <1>1, <1>2 DEF SearchState

LEMMA SearchBegins ==
    ASSUME TypeInv, TreesInv, NEW c \in Callers, NEW asked, Request(c, "SearchUtxos", asked)
    PROVE  SearchState(req'[c])
<1>1. seen.done \in Nat
  BY DEF TreesInv, Bounded
<1>2. /\ req'[c].since = seen.done /\ req'[c].at = "policy" /\ req'[c].num = 1
      /\ req'[c].got = <<>>
  BY RequestRecord DEF FirstStep
<1>3. QED
  BY <1>1, <1>2, NoElements DEF SearchState

LEMMA PolicySearch ==
    ASSUME TypeInv, TreesInv, PoliciesInKeys, NEW c \in Callers, SearchState(req[c]),
           SearchPolicy(c)
    PROVE  SearchState(req'[c])
<1>. DEFINE q == req[c]
            txs == SetToSeq(db.policy_txs)
<1>1. HasFields(q, RequestFields) /\ q.at = "policy"
  BY AskedFacts DEF SearchPolicy
<1>2. IsFiniteSet(db.policy_txs)
  <2>1. IsFiniteSet(Transactions)
    <3>. DEFINE f == [k \in Keys |-> k[1]]
    <3>1. f \in Surjection(Keys, Transactions)
      BY DEF Surjection, Transactions
    <3>2. QED
      BY <3>1, KeyTypes, FS_Surjection
  <2>2. QED
    BY <2>1, FS_Subset DEF PoliciesInKeys
<1>3. txs \in Seq(db.policy_txs) /\ ToSet(txs) = db.policy_txs
  BY <1>2, ListOfSet
<1>4. txs \in Seq(Transactions)
  BY <1>3 DEF PoliciesInKeys
<1>5. req'[c] = [q EXCEPT !.at = "scan", !.todo = txs]
  BY ReadsRequest DEF SearchPolicy
<1>. HIDE DEF txs
<1>6. /\ req'[c].since = q.since /\ req'[c].at = "scan" /\ req'[c].got = q.got
      /\ req'[c].num = q.num /\ req'[c].todo = txs
  BY <1>1, <1>5 DEF HasFields, RequestFields
<1>7. ASSUME NEW k \in Wanted(q.since)
      PROVE  /\ txs # <<>>
             /\ k[1] \in ToSet(Tail(txs)) \/ k[1] = Head(txs)
             /\ 1 <= k[2]
  <2>1. k \in Keys /\ k \in Holders /\ k \in Settled(q.since) /\ k[2] \in Nat \ {0}
    BY WantedFacts
  <2>2. Creator(k) <= seen.done
    <3>1. Creator(k) \in Nat /\ Creator(k) <= q.since /\ q.since <= seen.done
          /\ q.since \in Nat /\ seen.done \in Nat
      BY <2>1, CreatorFacts DEF Settled, SearchState, TreesInv, Bounded
    <3>2. QED
      BY <3>1
  <2>3. k[1] \in ToSet(txs)
    BY <1>3, <2>1, <2>2 DEF TreesInv, PoliciesKnown
  <2>4. txs # <<>>
    BY <2>3, NoElements
  <2>5. QED
    BY <1>4, <2>1, <2>3, <2>4, TailElements
<1>8. QED
  BY <1>1, <1>4, <1>6, <1>7 DEF SearchState

LEMMA ScanSearch ==
    ASSUME TypeInv, TreesInv, NEW c \in Callers, SearchState(req[c]), ScanOutput(c)
    PROVE  SearchState(req'[c])
<1>. DEFINE q == req[c]
<1>1. HasFields(q, RequestFields) /\ q.at = "scan"
  BY AskedFacts DEF ScanOutput
<1>2. /\ q.since \in Nat /\ q.since <= seen.done /\ q.todo \in Seq(Transactions)
      /\ q.num \in Nat \ {0} /\ q.got \in Seq(Keys)
      /\ \A k \in Wanted(q.since) :
            \/ k \in ToSet(q.got)
            \/ /\ q.todo # <<>>
               /\ \/ k[1] \in ToSet(Tail(q.todo))
                  \/ k[1] = Head(q.todo) /\ q.num <= k[2]
  BY <1>1 DEF SearchState
<1>3. CASE q.todo = <<>>
  <2>1. req'[c] = [q EXCEPT !.at = "answered"]
    BY <1>3, ReadsRequest DEF ScanOutput
  <2>2. req'[c].since = q.since /\ req'[c].at = "answered" /\ req'[c].got = q.got
    BY <1>1, <2>1 DEF HasFields, RequestFields
  <2>3. QED
    BY <1>2, <1>3, <2>2 DEF SearchState
<1>4. CASE q.todo # <<>> /\ WithinLimit(q.num) /\ <<Head(q.todo), q.num>> \in db.utxo
  <2>. DEFINE k == <<Head(q.todo), q.num>>
              got == IF k \in Holders THEN Append(q.got, k) ELSE q.got
  <2>1. req'[c] = [q EXCEPT !.num = q.num + 1, !.got = got]
    BY <1>4, ReadsRequest DEF ScanOutput
  <2>2. k \in Keys
    BY <1>4, PlaceFacts
  <2>3. got \in Seq(Keys) /\ ToSet(got) = ToSet(q.got) \cup ({k} \cap Holders)
    BY <1>2, <2>2, AppendElements
  <2>4. /\ req'[c].since = q.since /\ req'[c].at = "scan" /\ req'[c].todo = q.todo
        /\ req'[c].num = q.num + 1 /\ req'[c].got = got
    BY <1>1, <2>1 DEF HasFields, RequestFields
  <2>. HIDE DEF got
  <2>5. ASSUME NEW l \in Wanted(q.since)
        PROVE  \/ l \in ToSet(got)
               \/ l[1] \in ToSet(Tail(q.todo))
               \/ l[1] = Head(q.todo) /\ q.num + 1 <= l[2]
    <3>1. l = <<l[1], l[2]>> /\ l \in Holders /\ l[2] \in Nat
      BY WantedFacts
    <3>2. CASE l[1] = Head(q.todo) /\ q.num <= l[2]
      <4>1. q.num = l[2] \/ q.num + 1 <= l[2]
        BY <1>2, <3>1, <3>2
      <4>2. q.num = l[2] => l = k
        BY <3>1, <3>2
      <4>3. QED
        BY <2>3, <3>1, <3>2, <4>1, <4>2
    <3>3. QED
      BY <1>2, <2>3, <3>2
  <2>6. QED
    BY <1>2, <1>4, <2>3, <2>4, <2>5 DEF SearchState
<1>5. CASE q.todo # <<>> /\ ~(WithinLimit(q.num) /\ <<Head(q.todo), q.num>> \in db.utxo)
  <2>1. req'[c] = [q EXCEPT !.num = 1, !.todo = Tail(q.todo)]
    BY <1>5, ReadsRequest DEF ScanOutput
  <2>2. /\ req'[c].since = q.since /\ req'[c].at = "scan" /\ req'[c].todo = Tail(q.todo)
        /\ req'[c].num = 1 /\ req'[c].got = q.got
    BY <1>1, <2>1 DEF HasFields, RequestFields
  <2>3. Tail(q.todo) \in Seq(Transactions)
    BY <1>2, <1>5, TailElements
  <2>4. ASSUME NEW l \in Wanted(q.since), l \notin ToSet(q.got)
        PROVE  /\ Tail(q.todo) # <<>>
               /\ l[1] \in ToSet(Tail(Tail(q.todo))) \/ l[1] = Head(Tail(q.todo))
               /\ 1 <= l[2]
    <3>1. /\ l[2] \in Nat \ {0} /\ l[2] <= ScanLimit
          /\ \A i \in 1 .. l[2] : <<l[1], i>> \in Settled(q.since)
      BY WantedFacts
    <3>2. ~(l[1] = Head(q.todo) /\ q.num <= l[2])
      <4>1. SUFFICES ASSUME l[1] = Head(q.todo), q.num <= l[2] PROVE FALSE
        OBVIOUS
      <4>2. q.num \in 1 .. l[2] /\ q.num <= ScanLimit
        BY <1>2, <3>1, <4>1, IndexerConstants
      <4>3. <<Head(q.todo), q.num>> \in db.utxo
        BY <1>2, <3>1, <4>1, <4>2, SettledStand
      <4>4. QED
        BY <1>5, <4>2, <4>3 DEF WithinLimit
    <3>3. l[1] \in ToSet(Tail(q.todo))
      BY <1>2, <2>4, <3>2
    <3>4. Tail(q.todo) # <<>>
      BY <3>3, NoElements
    <3>5. ToSet(Tail(q.todo)) = ToSet(Tail(Tail(q.todo))) \cup {Head(Tail(q.todo))}
      <4>1. PICK t \in Seq(Transactions) : t = Tail(q.todo)
        BY <2>3
      <4>2. QED
        BY <3>4, <4>1, TailElements
    <3>6. QED
      BY <3>1, <3>3, <3>4, <3>5
  <2>5. QED
    BY <1>2, <2>2, <2>3, <2>4 DEF SearchState
<1>6. QED
  BY <1>3, <1>4, <1>5

\* The other steps are not those of a search.
LEMMA SearchSteps ==
    ASSUME TypeInv, NEW c \in Callers, SearchState(req[c]), req[c].op = "SearchUtxos",
           RequestStep(c)
    PROVE  SearchPolicy(c) \/ ScanOutput(c)
BY DEF SearchState, RequestStep, ReadIndex, ReadOutput, ReadTip, ReadEvent, ReadMetadata, ReadParent,
       FetchBlock, AddAddress, WalkBack, RewindTip, RewindWallets, SignalRestart, Doing

\* No step changes what is asked.
LEMMA SameOperation ==
    ASSUME TypeInv, NEW c \in Callers, RequestStep(c)
    PROVE  req'[c].op = req[c].op
<1>. DEFINE q == req[c]
<1>1. HasFields(q, RequestFields)
  BY AskedFacts
  DEF RequestStep, ReadIndex, ReadOutput, ReadTip, SearchPolicy, ScanOutput, ReadEvent,
      ReadMetadata, ReadParent, FetchBlock, AddAddress, WalkBack, RewindTip, RewindWallets,
      SignalRestart
<1>2. CASE AddAddress(c) \/ RewindTip(c) \/ RewindWallets(c) \/ SignalRestart(c)
  BY <1>1, <1>2
  DEF AddAddress, RewindTip, RewindWallets, SignalRestart, HasFields, RequestFields, TypeInv,
      RequestsType
<1>3. CASE \/ ReadIndex(c) \/ ReadOutput(c) \/ ReadTip(c) \/ SearchPolicy(c) \/ ScanOutput(c)
           \/ ReadEvent(c) \/ ReadMetadata(c) \/ ReadParent(c) \/ FetchBlock(c)
  BY <1>3, QueryType
<1>4. CASE WalkBack(c)
  <2>1. \E r : Reads(c, r) /\ r.op = q.op
    <3>1. \/ Reads(c, [q EXCEPT !.at = "answered"])
          \/ Reads(c, [q EXCEPT !.at = "rewind"])
          \/ Reads(c, [q EXCEPT !.at = "rewind", !.num = 0])
          \/ Reads(c, [q EXCEPT !.num = @ - 1, !.todo = Append(@, q.num)])
      BY <1>4 DEF WalkBack
    <3>2. /\ [q EXCEPT !.at = "answered"].op = q.op
          /\ [q EXCEPT !.at = "rewind"].op = q.op
          /\ [q EXCEPT !.at = "rewind", !.num = 0].op = q.op
          /\ [q EXCEPT !.num = @ - 1, !.todo = Append(@, q.num)].op = q.op
      BY <1>1 DEF HasFields, RequestFields
    <3>3. QED
      BY <3>1, <3>2
  <2>2. QED
    BY <2>1, ReadsRequest
<1>5. QED
  BY <1>2, <1>3, <1>4 DEF RequestStep

LEMMA PoliciesStay ==
    ASSUME TypeInv, PoliciesInKeys, [Next]_vars
    PROVE  PoliciesInKeys'
<1>1. CASE TrackTokens
  <2>. DEFINE txs == {x[2][1] : x \in {y \in ToSet(Items) : y[1] = "out" /\ y[2] \in Holders}}
  <2>1. txs \subseteq Transactions
    BY KeyTypes DEF Transactions
  <2>2. db'.policy_txs = db.policy_txs \cup txs
    <3>1. db' = [db EXCEPT !.policy_txs = db.policy_txs \cup txs]
      BY <1>1 DEF TrackTokens
    <3>. HIDE DEF txs
    <3>2. QED
      BY <3>1, DbEdits, PlaceFacts
  <2>3. QED
    BY <2>1, <2>2 DEF PoliciesInKeys
<1>2. SessionStep => TrackTokens \/ db'.policy_txs = db.policy_txs
  BY PlaceFacts
  DEF DbType, HasFields, SessionStep, Resume, Connect, BuildFilter, SubscribeRestart, Restart,
      RollBackward, RewindWallet, BeginBlock, ProcessInput, DeleteUtxo, ProcessOutput, IndexUtxo,
      WriteEvent, StoreMetadata, SaveTips, BroadcastBlock
<1>3. \A c \in Callers : RequestStep(c) => db'.policy_txs = db.policy_txs
  BY PlaceFacts
  DEF DbType, HasFields, RequestStep, ReadIndex, ReadOutput, ReadTip, SearchPolicy, ScanOutput,
      ReadEvent, ReadMetadata, ReadParent, FetchBlock, AddAddress, WalkBack, RewindTip,
      RewindWallets, SignalRestart, Reads
<1>4. QED
  BY <1>1, <1>2, <1>3
  DEF PoliciesInKeys, Next, Forge, Request, Leave, FollowTip, Forward, Deliver, CloseStream, vars

LEMMA NextSearch ==
    ASSUME TypeInv, TreesInv, Searching, TypeInv', TreesInv', [Next]_vars
    PROVE  Searching'
<1>1. PoliciesInKeys'
  BY PoliciesStay DEF Searching
<1>2. ASSUME NEW c \in Callers, req'[c].op = "SearchUtxos" PROVE SearchState(req[c])'
  <2>1. CASE req'[c] = req[c]
    <3>1. SearchState(req[c])
      BY <1>2, <2>1 DEF Searching
    <3>2. \A q : SearchState(q) => SearchState(q)'
      BY SeenGrows, SearchStays
    <3>3. QED
      BY <2>1, <3>1, <3>2
  <2>2. CASE req'[c] = NoRequest
    BY <1>2, <2>2 DEF NoRequest
  <2>3. ASSUME NEW op \in Operations \ {"FollowTip"}, NEW asked \in Questions(op),
               Request(c, op, asked)
        PROVE  SearchState(req[c])'
    <3>1. op = "SearchUtxos"
      BY <1>2, <2>3, RequestRecord
    <3>2. SearchState(req'[c])
      BY <2>3, <3>1, SearchBegins
    <3>3. seen'.done = seen.done /\ seen'.begun = seen.begun
      BY <2>3, SeenEdits, PlaceFacts DEF Request, SameSeen
    <3>4. QED
      BY <3>2, <3>3 DEF SearchState, Wanted, Settled, SpentBy, Ours, Creator
  <2>4. CASE RequestStep(c)
    <3>1. SearchState(req[c]) /\ (SearchPolicy(c) \/ ScanOutput(c)) /\ PoliciesInKeys
      BY <1>2, <2>4, SameOperation, SearchSteps DEF Searching
    <3>2. SearchState(req'[c])
      BY <3>1, PolicySearch, ScanSearch
    <3>3. UNCHANGED seen
      BY <3>1 DEF SearchPolicy, ScanOutput, Reads
    <3>4. QED
      BY <3>2, <3>3 DEF SearchState, Wanted, Settled, SpentBy, Ours, Creator
  <2>5. QED
    BY <2>1, <2>2, <2>3, <2>4, RequestCases
<1>3. QED
  BY <1>1, <1>2 DEF Searching

LEMMA SearchInvariant == Spec => []Searching
<1>1. Init => Searching
  BY DEF Init, Searching, PoliciesInKeys, NoRequest
<1>2. TreesStayExact /\ TreesStayExact' /\ Searching /\ [Next]_vars => Searching'
  BY NextSearch DEF TreesStayExact, IndexInv
<1>3. QED
  BY <1>1, <1>2, TreesInvariant, PTL DEF Spec

(***************************************************************************)
(* SearchUtxos (search_utxos), which looks up each output of each          *)
(* transaction of a policy in a call of its own, finds every output that   *)
(* stands from the time it began until it answers, whatever blocks and     *)
(* rewinds do in between, up to the first gap and within ScanLimit.        *)
(***************************************************************************)
THEOREM SearchFindsSettled == Spec => []SearchRegular
<1>1. Searching => SearchRegular
  <2> SUFFICES ASSUME Searching, NEW c \in Callers, Answered(c, "SearchUtxos"),
                      NEW k \in Settled(req[c].since) \cap Holders,
                      k[2] <= ScanLimit /\ \A i \in 1 .. k[2] : <<k[1], i>> \in Settled(req[c].since)
               PROVE  k \in ToSet(req[c].got)
    BY DEF SearchRegular
  <2>1. SearchState(req[c]) /\ req[c].at = "answered"
    BY DEF Searching, Answered, Doing
  <2>2. k \in Wanted(req[c].since)
    BY DEF Wanted
  <2>3. QED
    BY <2>1, <2>2 DEF SearchState
<1>2. QED
  BY <1>1, SearchInvariant, PTL

-----------------------------------------------------------------------------
(* ReadUtxos.                                                              *)

\* A settled output has been found, or is in the list of its address, or the
\* address is still to be read; nothing is in two of these.
UtxoState(q) ==
    /\ q.since \in Nat /\ q.since <= seen.done
    /\ q.at \in {"address", "output", "tip", "answered"}
    /\ q.todo \in Seq(WalletAddresses) /\ q.keys \in Seq(Keys) /\ q.got \in Seq(Keys)
    /\ IsInjective(q.todo) /\ IsInjective(q.keys) /\ IsInjective(q.got)
    /\ q.at = "address" => q.keys = <<>>
    /\ q.at \in {"tip", "answered"} => q.keys = <<>> /\ q.todo = <<>>
    /\ ToSet(q.keys) \cap ToSet(q.got) = {}
    /\ \A k \in ToSet(q.keys) \cup ToSet(q.got) : AddressOf[k] \notin ToSet(q.todo)
    /\ \A k \in Settled(q.since) :
          k \in ToSet(q.got) \/ k \in ToSet(q.keys) \/ AddressOf[k] \in ToSet(q.todo)
    /\ seen.rewound = 0 => \A k \in ToSet(q.got) : ~SpentBy(k, q.since)

ReadingUtxos == \A c \in Callers : req[c].op = "ReadUtxos" => UtxoState(req[c])

LEMMA UtxoStays ==
    ASSUME Grows, NEW q, UtxoState(q)
    PROVE  UtxoState(q)'
<1>1. Settled(q.since)' \subseteq Settled(q.since)
  BY SettledShrinks
<1>2. q.since <= seen'.done
  BY DEF UtxoState, Grows
<1>3. seen'.rewound = 0 => seen.rewound = 0
  BY DEF Grows
<1>4. seen'.rewound = 0 => \A k \in ToSet(q.got) : ~SpentBy(k, q.since)
  BY <1>3 DEF UtxoState
<1>5. (seen.rewound = 0 => \A k \in ToSet(q.got) : ~SpentBy(k, q.since))'
  BY <1>4 DEF SpentBy
<1>6. (\A k \in Settled(q.since) :
          k \in ToSet(q.got) \/ k \in ToSet(q.keys) \/ AddressOf[k] \in ToSet(q.todo))'
  BY <1>1 DEF UtxoState
<1>7. QED
  BY <1>2, <1>5, <1>6 DEF UtxoState

\* While nothing is rewound, what the trees hold had not been spent by any
\* block that is done.
LEMMA HeldUnspent ==
    ASSUME TypeInv, TreesInv, seen.rewound = 0, NEW k \in db.utxo,
           NEW since \in Nat, since <= seen.done
    PROVE  ~SpentBy(k, since)
<1>. DEFINE b == session.next - 1
<1>1. session.next = seen.done + 1 /\ seen.done \in 0 .. N
  BY BoundedFacts DEF TreesInv, OneRestart, Fresh
<1>2. ~Gone(k, session.next, Here)
  BY DEF TreesInv, SpentGone
<1>3. ~SpentBy(k, b)
  BY <1>2 DEF Gone
<1>4. b \in 0 .. N /\ since \in 0 .. b
  BY <1>1
<1>. HIDE DEF b
<1>5. QED
  BY <1>3, <1>4, SpentByFacts

LEMMA UtxosBegin ==
    ASSUME TypeInv, TreesInv, NEW c \in Callers, NEW asked \in Questions("ReadUtxos"),
           Request(c, "ReadUtxos", asked)
    PROVE  UtxoState(req'[c])
<1>1. seen.done \in Nat
  BY DEF TreesInv, Bounded
<1>2. asked \in Seq(WalletAddresses) /\ IsInjective(asked) /\ ToSet(asked) = WalletAddresses
  BY KeyTypes, ListOfSet DEF Questions
<1>3. /\ req'[c].since = seen.done /\ req'[c].at = "address" /\ req'[c].todo = asked
      /\ req'[c].keys = <<>> /\ req'[c].got = <<>>
  BY RequestRecord DEF FirstStep
<1>4. \A k \in Settled(seen.done) : AddressOf[k] \in ToSet(asked)
  BY <1>2 DEF Settled, Ours
<1>5. QED
  BY <1>1, <1>2, <1>3, <1>4, NoElements DEF UtxoState

LEMMA IndexRead ==
    ASSUME TypeInv, TreesInv, NEW c \in Callers, UtxoState(req[c]), ReadIndex(c)
    PROVE  UtxoState(req'[c])
<1>. DEFINE q == req[c]
<1>1. HasFields(q, RequestFields) /\ q.at = "address" /\ q.keys = <<>>
  BY AskedFacts DEF ReadIndex, UtxoState
<1>2. CASE q.todo = <<>>
  <2>1. req'[c] = [q EXCEPT !.at = "tip"]
    BY <1>2, ReadsRequest DEF ReadIndex
  <2>2. /\ req'[c].since = q.since /\ req'[c].at = "tip" /\ req'[c].todo = q.todo
        /\ req'[c].keys = q.keys /\ req'[c].got = q.got
    BY <1>1, <2>1 DEF HasFields, RequestFields
  <2>3. QED
    BY <1>1, <1>2, <2>2 DEF UtxoState
<1>3. CASE q.todo # <<>>
  <2>. DEFINE S == {k \in db.index : AddressOf[k] = Head(q.todo)}
              keys == SetToSeq(S)
  <2>1. req'[c] = [q EXCEPT !.at = "output", !.keys = keys, !.todo = Tail(q.todo)]
    BY <1>3, ReadsRequest DEF ReadIndex
  <2>2. S \subseteq Keys /\ IsFiniteSet(S)
    BY PlaceFacts, KeyTypes, FS_Subset
  <2>3. keys \in Seq(S) /\ IsInjective(keys) /\ ToSet(keys) = S
    BY <2>2, ListOfSet
  <2>4. keys \in Seq(Keys)
    BY <2>2, <2>3
  <2>. HIDE DEF keys
  <2>5. /\ req'[c].since = q.since /\ req'[c].at = "output" /\ req'[c].todo = Tail(q.todo)
        /\ req'[c].keys = keys /\ req'[c].got = q.got
    BY <1>1, <2>1 DEF HasFields, RequestFields
  <2>6. /\ q.todo \in Seq(WalletAddresses) /\ IsInjective(q.todo)
        /\ q.since \in Nat /\ q.since <= seen.done
    BY DEF UtxoState
  <2>7. /\ Tail(q.todo) \in Seq(WalletAddresses) /\ IsInjective(Tail(q.todo))
        /\ ToSet(q.todo) = ToSet(Tail(q.todo)) \cup {Head(q.todo)}
        /\ Head(q.todo) \notin ToSet(Tail(q.todo))
    BY <1>3, <2>6, TailElements
  <2>8. ToSet(keys) \cap ToSet(q.got) = {}
    BY <2>3, <2>7 DEF UtxoState
  <2>9. \A k \in ToSet(keys) \cup ToSet(q.got) : AddressOf[k] \notin ToSet(Tail(q.todo))
    BY <2>3, <2>7 DEF UtxoState
  <2>10. \A k \in Settled(q.since) : k \in db.index
    BY <2>6, SettledStand
  <2>11. \A k \in Settled(q.since) :
            k \in ToSet(q.got) \/ k \in ToSet(keys) \/ AddressOf[k] \in ToSet(Tail(q.todo))
    BY <1>1, <2>3, <2>7, <2>10, NoElements DEF UtxoState
  <2>12. QED
    BY <2>4, <2>3, <2>5, <2>7, <2>8, <2>9, <2>11 DEF UtxoState
<1>4. QED
  BY <1>2, <1>3

LEMMA OutputRead ==
    ASSUME TypeInv, TreesInv, NEW c \in Callers, UtxoState(req[c]), ReadOutput(c)
    PROVE  UtxoState(req'[c])
<1>. DEFINE q == req[c]
<1>1. HasFields(q, RequestFields) /\ q.at = "output"
  BY AskedFacts DEF ReadOutput
<1>2. CASE q.keys = <<>>
  <2>1. req'[c] = [q EXCEPT !.at = "address"]
    BY <1>2, ReadsRequest DEF ReadOutput
  <2>2. /\ req'[c].since = q.since /\ req'[c].at = "address" /\ req'[c].todo = q.todo
        /\ req'[c].keys = q.keys /\ req'[c].got = q.got
    BY <1>1, <2>1 DEF HasFields, RequestFields
  <2>3. QED
    BY <1>1, <1>2, <2>2 DEF UtxoState
<1>3. CASE q.keys # <<>>
  <2>. DEFINE k == Head(q.keys)
              got == IF k \in db.utxo THEN Append(q.got, k) ELSE q.got
  <2>1. req'[c] = [q EXCEPT !.keys = Tail(q.keys), !.got = got]
    BY <1>3, ReadsRequest DEF ReadOutput
  <2>2. /\ q.keys \in Seq(Keys) /\ IsInjective(q.keys) /\ q.got \in Seq(Keys) /\ IsInjective(q.got)
        /\ q.since \in Nat /\ q.since <= seen.done
    BY DEF UtxoState
  <2>3. /\ k \in Keys /\ Tail(q.keys) \in Seq(Keys) /\ IsInjective(Tail(q.keys))
        /\ ToSet(q.keys) = ToSet(Tail(q.keys)) \cup {k} /\ k \notin ToSet(Tail(q.keys))
    BY <1>3, <2>2, TailElements
  <2>4. k \notin ToSet(q.got)
    BY <2>3 DEF UtxoState
  <2>5. /\ got \in Seq(Keys) /\ IsInjective(got)
        /\ ToSet(got) = ToSet(q.got) \cup ({k} \cap db.utxo)
    BY <2>2, <2>3, <2>4, AppendElements
  <2>6. /\ req'[c].since = q.since /\ req'[c].at = "output" /\ req'[c].todo = q.todo
        /\ req'[c].keys = Tail(q.keys) /\ req'[c].got = got
    BY <1>1, <2>1 DEF HasFields, RequestFields
  <2>7. seen.rewound = 0 /\ k \in db.utxo => ~SpentBy(k, q.since)
    BY <2>2, HeldUnspent
  <2>. HIDE DEF k, got
  <2>8. ToSet(Tail(q.keys)) \cap ToSet(got) = {}
    BY <2>3, <2>5 DEF UtxoState
  <2>9. \A l \in ToSet(Tail(q.keys)) \cup ToSet(got) : AddressOf[l] \notin ToSet(q.todo)
    BY <2>3, <2>5 DEF UtxoState
  <2>10. \A l \in Settled(q.since) : l \in db.utxo
    BY <2>2, SettledStand
  <2>11. \A l \in Settled(q.since) :
            l \in ToSet(got) \/ l \in ToSet(Tail(q.keys)) \/ AddressOf[l] \in ToSet(q.todo)
    BY <2>3, <2>5, <2>10 DEF UtxoState
  <2>12. seen.rewound = 0 => \A l \in ToSet(got) : ~SpentBy(l, q.since)
    BY <2>5, <2>7 DEF UtxoState
  <2>13. QED
    BY <2>2, <2>3, <2>5, <2>6, <2>8, <2>9, <2>11, <2>12 DEF UtxoState
<1>4. QED
  BY <1>2, <1>3

LEMMA TipRead ==
    ASSUME TypeInv, NEW c \in Callers, UtxoState(req[c]), ReadTip(c)
    PROVE  UtxoState(req'[c])
<1>1. HasFields(req[c], RequestFields) /\ req[c].at = "tip"
  BY AskedFacts DEF ReadTip
<1>2. req'[c] = [req[c] EXCEPT !.at = "answered"]
  BY ReadsRequest DEF ReadTip
<1>3. /\ req'[c].since = req[c].since /\ req'[c].at = "answered" /\ req'[c].todo = req[c].todo
      /\ req'[c].keys = req[c].keys /\ req'[c].got = req[c].got
  BY <1>1, <1>2 DEF HasFields, RequestFields
<1>4. QED
  BY <1>1, <1>3 DEF UtxoState

LEMMA UtxoSteps ==
    ASSUME TypeInv, NEW c \in Callers, UtxoState(req[c]), RequestStep(c)
    PROVE  ReadIndex(c) \/ ReadOutput(c) \/ ReadTip(c)
BY DEF UtxoState, RequestStep, SearchPolicy, ScanOutput, ReadEvent, ReadMetadata, ReadParent,
       FetchBlock, AddAddress, WalkBack, RewindTip, RewindWallets, SignalRestart, Doing

LEMMA NextUtxos ==
    ASSUME TypeInv, TreesInv, ReadingUtxos, TypeInv', TreesInv', [Next]_vars
    PROVE  ReadingUtxos'
<1>1. ASSUME NEW q, UtxoState(q), seen'.done = seen.done, seen'.begun = seen.begun,
             seen'.rewound = seen.rewound
      PROVE  UtxoState(q)'
  BY <1>1 DEF UtxoState, Settled, SpentBy, Ours, Creator
<1>2. ASSUME NEW c \in Callers, req'[c].op = "ReadUtxos" PROVE UtxoState(req[c])'
  <2>1. CASE req'[c] = req[c]
    <3>1. UtxoState(req[c])
      BY <1>2, <2>1 DEF ReadingUtxos
    <3>2. \A q : UtxoState(q) => UtxoState(q)'
      BY SeenGrows, UtxoStays
    <3>3. QED
      BY <2>1, <3>1, <3>2
  <2>2. CASE req'[c] = NoRequest
    BY <1>2, <2>2 DEF NoRequest
  <2>3. ASSUME NEW op \in Operations \ {"FollowTip"}, NEW asked \in Questions(op),
               Request(c, op, asked)
        PROVE  UtxoState(req[c])'
    <3>1. op = "ReadUtxos"
      BY <1>2, <2>3, RequestRecord
    <3>2. UtxoState(req'[c])
      BY <2>3, <3>1, UtxosBegin
    <3>3. seen' = [seen EXCEPT !.rewound = @]
      BY <2>3, <3>1 DEF Request
    <3>4. seen'.done = seen.done /\ seen'.begun = seen.begun /\ seen'.rewound = seen.rewound
      BY <3>3, SeenEdits, PlaceFacts DEF SameSeen
    <3>5. QED
      BY <1>1, <3>2, <3>4
  <2>4. CASE RequestStep(c)
    <3>1. UtxoState(req[c]) /\ (ReadIndex(c) \/ ReadOutput(c) \/ ReadTip(c))
      BY <1>2, <2>4, SameOperation, UtxoSteps DEF ReadingUtxos
    <3>2. UtxoState(req'[c])
      BY <3>1, IndexRead, OutputRead, TipRead
    <3>3. UNCHANGED seen
      BY <3>1 DEF ReadIndex, ReadOutput, ReadTip, Reads
    <3>4. QED
      BY <1>1, <3>2, <3>3
  <2>5. QED
    BY <2>1, <2>2, <2>3, <2>4, RequestCases
<1>3. QED
  BY <1>2 DEF ReadingUtxos

LEMMA UtxosInvariant == Spec => []ReadingUtxos
<1>1. Init => ReadingUtxos
  BY DEF Init, ReadingUtxos, NoRequest
<1>2. TreesStayExact /\ TreesStayExact' /\ ReadingUtxos /\ [Next]_vars => ReadingUtxos'
  BY NextUtxos DEF TreesStayExact, IndexInv
<1>3. QED
  BY <1>1, <1>2, TreesInvariant, PTL DEF Spec

(***************************************************************************)
(* ReadUtxos (read_utxos), which reads the index of an address and then    *)
(* each output in a call of its own, returns every output that stands all  *)
(* the time, and none twice; as long as nothing is rewound it returns none *)
(* that was spent when it began.                                           *)
(***************************************************************************)
THEOREM UtxosReadSettled == Spec => []ReadUtxosRegular
<1>1. ReadingUtxos => ReadUtxosRegular
  <2> SUFFICES ASSUME ReadingUtxos, NEW c \in Callers, Answered(c, "ReadUtxos")
               PROVE  /\ Settled(req[c].since) \subseteq ToSet(req[c].got)
                      /\ IsInjective(req[c].got)
                      /\ seen.rewound = 0 =>
                            \A k \in ToSet(req[c].got) : ~SpentBy(k, req[c].since)
    BY DEF ReadUtxosRegular
  <2>1. UtxoState(req[c]) /\ req[c].at = "answered"
    BY DEF ReadingUtxos, Answered, Doing
  <2>2. QED
    BY <2>1, NoElements DEF UtxoState
<1>2. QED
  BY <1>1, UtxosInvariant, PTL

-----------------------------------------------------------------------------
(* The event log of the first session, while nothing is rewound.           *)

MadeHere(k) == \E i \in 1 .. Here - 1 : Items[i] = <<"out", k>>

SpentHere(k) == \E i \in 1 .. Here - 1 : Items[i] = <<"in", k>>

MadeNow(k) == Made(k) \/ (session.at = "index" /\ Items[session.pos] = <<"out", k>>)

Untracked == tracked = {} /\ session.filter \subseteq WalletAddresses

\* The outputs of the wallets that the items so far have left.
ExactNow ==
    \A k \in Keys : k \in db.utxo <=> (Ours(k) /\ MadeNow(k) /\ ~Gone(k, session.next, Here))

\* What the block has made and spent so far.
Listed ==
    session.at \in InBlock =>
        /\ IsInjective(session.made) /\ IsInjective(session.spent)
        /\ \A k : k \in ToSet(session.made) <=> k \in Keys /\ Ours(k) /\ MadeHere(k)
        /\ \A k : k \in ToSet(session.spent) <=> k \in Keys /\ Ours(k) /\ SpentHere(k)

Event == [type : {"CREATED", "SPENT"}, key : Keys]

CreatedEvent(k) == [type |-> "CREATED", key |-> k]

SpentEvent(k) == [type |-> "SPENT", key |-> k]

Logged(b) == EventsOf(b) \subseteq ToSet(db.events[b])

LogKept ==
    /\ db.events \in [Blocks -> Seq(Event)]
    /\ \A b \in Blocks : IsInjective(db.events[b]) /\ ToSet(db.events[b]) \subseteq EventsOf(b)
    /\ \A b \in 1 .. seen.done : Logged(b)
    /\ \A b \in Blocks : b > session.next => db.events[b] = <<>>
    /\ (session.at \notin AfterItems /\ session.next \in Blocks) => db.events[session.next] = <<>>

\* How far the events of the block are written.
Logging ==
    LET log == db.events[session.next] IN
    /\ session.event_index = Len(log) + 1
    /\ \A i \in 1 .. Len(session.made) :
          (i < session.pos /\ session.made[i] \in db.utxo) =>
              CreatedEvent(session.made[i]) \in ToSet(log)
    /\ \A j \in 1 .. Len(session.spent) :
          Len(session.made) + j < session.pos => SpentEvent(session.spent[j]) \in ToSet(log)
    /\ \A k : CreatedEvent(k) \in ToSet(log) =>
          \E i \in 1 .. Len(session.made) : i < session.pos /\ k = session.made[i]
    /\ \A k : SpentEvent(k) \in ToSet(log) =>
          \E j \in 1 .. Len(session.spent) :
              Len(session.made) + j < session.pos /\ k = session.spent[j]

LogHere ==
    /\ session.at \in {"body", "spend", "index"} => session.event_index = 1
    /\ session.at = "events" => Logging
    /\ session.at \in {"tips", "broadcast"} => Logged(session.next)

FirstLog ==
    seen.rewound = 0 => Untracked /\ ExactNow /\ Listed /\ LogKept /\ LogHere

LEMMA GoneHere ==
    ASSUME TypeInv, session.at \in InBlock, NEW k
    PROVE  Gone(k, session.next, Here) <=> SpentBy(k, session.next - 1) \/ SpentHere(k)
BY DEF Gone, SpentHere, Items

LEMMA EventsOfFacts ==
    ASSUME NEW b \in Blocks
    PROVE  /\ EventsOf(b) \subseteq Event
           /\ \A k : CreatedEvent(k) \in EventsOf(b) <=>
                 k \in Keys /\ Ours(k) /\ Creator(k) = b /\ <<"in", k>> \notin ToSet(Body[b])
           /\ \A k : SpentEvent(k) \in EventsOf(b) <=>
                 k \in Keys /\ Ours(k) /\ <<"in", k>> \in ToSet(Body[b])
           /\ \A e \in EventsOf(b) : e = CreatedEvent(e.key) \/ e = SpentEvent(e.key)
<1>. DEFINE ins == {k \in Keys : Ours(k) /\ <<"in", k>> \in ToSet(Body[b])}
            outs == {k \in Keys : Ours(k) /\ Creator(k) = b}
<1>1. EventsOf(b) = {CreatedEvent(k) : k \in outs \ ins} \cup {SpentEvent(k) : k \in ins}
  BY DEF EventsOf, CreatedEvent, SpentEvent
<1>2. \A k : /\ k \in outs <=> (k \in Keys /\ Ours(k) /\ Creator(k) = b)
             /\ k \in ins <=> (k \in Keys /\ Ours(k) /\ <<"in", k>> \in ToSet(Body[b]))
  OBVIOUS
<1>. HIDE DEF ins, outs
<1>3. \A k, l : /\ CreatedEvent(k) # SpentEvent(l)
                /\ CreatedEvent(k) = CreatedEvent(l) => k = l
                /\ SpentEvent(k) = SpentEvent(l) => k = l
                /\ CreatedEvent(k).key = k /\ SpentEvent(k).key = k
                /\ k \in Keys => CreatedEvent(k) \in Event /\ SpentEvent(k) \in Event
  BY DEF CreatedEvent, SpentEvent, Event
<1>4. ASSUME NEW k
      PROVE  /\ CreatedEvent(k) \in EventsOf(b) <=> k \in outs /\ k \notin ins
             /\ SpentEvent(k) \in EventsOf(b) <=> k \in ins
  BY <1>1, <1>3
<1>5. ASSUME NEW e \in EventsOf(b)
      PROVE  e \in Event /\ (e = CreatedEvent(e.key) \/ e = SpentEvent(e.key))
  <2>1. PICK k : k \in Keys /\ (e = CreatedEvent(k) \/ e = SpentEvent(k))
    BY <1>1, <1>2
  <2>2. QED
    BY <1>3, <2>1
<1>6. QED
  BY <1>2, <1>4, <1>5

\* An event belongs to one block.
LEMMA OneBlock ==
    ASSUME NEW b \in Blocks, NEW c \in Blocks, NEW e, e \in EventsOf(b), e \in EventsOf(c)
    PROVE  b = c
<1>1. ASSUME NEW k, e = CreatedEvent(k) PROVE b = c
  <2>1. Creator(k) = b /\ Creator(k) = c
    BY <1>1, EventsOfFacts
  <2>2. QED
    BY <2>1
<1>2. ASSUME NEW k, e = SpentEvent(k) PROVE b = c
  <2>1. <<"in", k>> \in ToSet(Body[b]) /\ <<"in", k>> \in ToSet(Body[c])
    BY <1>2, EventsOfFacts
  <2>2. PICK i \in 1 .. Len(Body[b]) : Body[b][i] = <<"in", k>>
    BY <2>1, BodyFacts
  <2>3. PICK j \in 1 .. Len(Body[c]) : Body[c][j] = <<"in", k>>
    BY <2>1, BodyFacts
  <2>4. QED
    BY <2>2, <2>3, TwoItems
<1>3. \E k : e = CreatedEvent(k) \/ e = SpentEvent(k)
  BY EventsOfFacts
<1>4. QED
  BY <1>1, <1>2, <1>3

\* While nothing is rewound.
LEMMA FirstFacts ==
    ASSUME TypeInv, TreesInv, seen.rewound = 0
    PROVE  /\ session.next = seen.done + 1 /\ signals = 0
           /\ seen.done \in 0 .. N /\ seen.begun \in 0 .. N
           /\ \A c \in Callers : ~Pending(c)
           /\ session.at \notin InBlock => seen.begun = seen.done
           /\ session.at \in InBlock => seen.begun = session.next /\ session.next \in Blocks
           /\ ~(session.next < session.current_slot)
<1>1. /\ session.next = seen.done + 1 /\ signals = 0
      /\ \A c \in Callers : ~Pending(c)
  BY DEF TreesInv, OneRestart, Fresh
<1>2. seen.done \in 0 .. N /\ seen.begun \in 0 .. N /\ N \in Nat /\ session.current_slot \in Nat
  BY BoundedFacts, PlaceFacts DEF TreesInv
<1>3. session.at \in InBlock => seen.begun = session.next /\ session.next \in Blocks
  BY <1>1, <1>2, PlaceFacts DEF TreesInv, Bounded
<1>4. session.at \notin InBlock => seen.begun = seen.done
  BY DEF TreesInv, Bounded
<1>5. ~(session.next < session.current_slot)
  BY <1>1, <1>2, <1>3, <1>4 DEF TreesInv, Bounded
<1>6. QED
  BY <1>1, <1>2, <1>3, <1>4, <1>5

LEMMA LogInit == Init => FirstLog
<1> SUFFICES ASSUME Init PROVE Untracked /\ ExactNow /\ Listed /\ LogKept /\ LogHere
  BY DEF FirstLog
<1>1. /\ session.at = "resume" /\ session.filter = {} /\ session.next = 1 /\ tracked = {}
      /\ seen.done = 0 /\ db.utxo = {} /\ db.events = [b \in Blocks |-> <<>>]
  BY DEF Init, NewSession
<1>2. \A k \in Keys : ~Made(k)
  BY <1>1, CreatorFacts DEF Made, InBlock
<1>3. ExactNow
  BY <1>1, <1>2 DEF ExactNow, MadeNow
<1>4. Listed /\ Untracked /\ LogHere
  BY <1>1 DEF Listed, InBlock, Untracked, LogHere
<1>5. LogKept
  BY <1>1, NoElements DEF LogKept
<1>6. QED
  BY <1>3, <1>4, <1>5

-----------------------------------------------------------------------------
(* Steps that leave the log alone.                                         *)

LEMMA KeptLog ==
    ASSUME LogKept, db'.events = db.events, seen'.done = seen.done, session'.next = session.next,
           session'.at \notin AfterItems => session.at \notin AfterItems
    PROVE  LogKept'
<1>1. \A b : Logged(b)' <=> Logged(b)
  BY DEF Logged, EventsOf, Ours, Creator
<1>2. \A b : EventsOf(b)' = EventsOf(b)
  BY DEF EventsOf, Ours, Creator
<1>3. Event' = Event /\ Blocks' = Blocks
  BY DEF Event, Keys, Blocks
<1>4. QED
  BY <1>1, <1>2, <1>3 DEF LogKept

\* The session does not move.
LEMMA LogFrame ==
    ASSUME FirstLog, UNCHANGED session, UNCHANGED tracked, db'.utxo = db.utxo,
           db'.events = db.events, SameSeen, seen'.rewound = 0 => seen.rewound = 0
    PROVE  FirstLog'
<1> SUFFICES ASSUME seen'.rewound = 0 PROVE (Untracked /\ ExactNow /\ Listed /\ LogKept /\ LogHere)'
  BY DEF FirstLog
<1>1. Untracked /\ ExactNow /\ Listed /\ LogKept /\ LogHere
  BY DEF FirstLog
<1>2. Here' = Here /\ Items' = Items
  BY DEF Here, Items
<1>3. \A k : (MadeNow(k)' <=> MadeNow(k)) /\ (Ours(k)' <=> Ours(k))
  BY <1>2 DEF MadeNow, Made, SameSeen, Ours, Creator
<1>4. \A k, b, i : Gone(k, b, i)' <=> Gone(k, b, i)
  BY DEF Gone, SpentBy
<1>5. ExactNow'
  BY <1>1, <1>2, <1>3, <1>4 DEF ExactNow
<1>6. Listed'
  BY <1>1, <1>2, <1>3 DEF Listed, MadeHere, SpentHere
<1>7. Untracked' /\ LogKept'
  BY <1>1, KeptLog DEF Untracked, SameSeen
<1>8. LogHere'
  <2>1. Logging => Logging'
    BY DEF Logging, CreatedEvent, SpentEvent
  <2>2. Logged(session.next)' <=> Logged(session.next)
    BY DEF Logged, EventsOf, Ours, Creator
  <2>3. QED
    BY <1>1, <2>1, <2>2 DEF LogHere
<1>9. QED
  BY <1>5, <1>6, <1>7, <1>8

\* Between two blocks.
LEMMA LogBetween ==
    ASSUME TypeInv, FirstLog, session.at \notin InBlock, session'.at \notin InBlock,
           session'.next = session.next,
           UNCHANGED tracked, db'.utxo = db.utxo, db'.events = db.events, SameSeen,
           seen'.rewound = seen.rewound,
           session'.filter = session.filter \/ session'.filter = WalletAddresses \cup tracked
    PROVE  FirstLog'
<1> SUFFICES ASSUME seen.rewound = 0 PROVE (Untracked /\ ExactNow /\ Listed /\ LogKept /\ LogHere)'
  BY DEF FirstLog
<1>1. Untracked /\ ExactNow /\ Listed /\ LogKept /\ LogHere
  BY DEF FirstLog
<1>2. Here' = 1 /\ Here = 1 /\ session.at # "index" /\ session'.at # "index"
  BY DEF Here, InBlock
<1>3. \A k : (MadeNow(k)' <=> MadeNow(k)) /\ (Ours(k)' <=> Ours(k))
  BY <1>2 DEF MadeNow, Made, SameSeen, Ours, Creator
<1>4. \A k, b, i : Gone(k, b, i)' <=> Gone(k, b, i)
  BY DEF Gone, SpentBy
<1>5. ExactNow'
  BY <1>1, <1>2, <1>3, <1>4 DEF ExactNow
<1>6. session'.at \notin {"body", "spend", "index", "events", "tips", "broadcast"}
      /\ session.at \notin AfterItems
  BY DEF InBlock, AfterItems
<1>7. Listed' /\ LogHere'
  BY <1>6 DEF Listed, LogHere, InBlock
<1>8. Untracked' /\ LogKept'
  BY <1>1, <1>6, KeptLog DEF Untracked, SameSeen
<1>9. QED
  BY <1>5, <1>7, <1>8

LEMMA StartLog ==
    ASSUME TypeInv, TreesInv, TreesInv', FirstLog,
           \/ Resume \/ Connect \/ BuildFilter \/ SubscribeRestart \/ Restart
           \/ RollBackward \/ RewindWallet
    PROVE  FirstLog'
<1>1. UNCHANGED <<tracked, seen>> /\ SameSeen
  BY DEF Resume, Connect, BuildFilter, SubscribeRestart, Restart, RollBackward, RewindWallet, SameSeen
<1>2. SUFFICES ASSUME seen.rewound = 0 PROVE FirstLog'
  BY <1>1 DEF FirstLog
<1>3. ~Restart
  BY <1>2, FirstFacts DEF Restart
<1>4. /\ session.at \notin InBlock /\ session'.at \notin InBlock
      /\ session'.filter = session.filter \/ session'.filter = WalletAddresses \cup tracked
  BY <1>3, PlaceFacts
  DEF Resume, Connect, BuildFilter, SubscribeRestart, RollBackward, RewindWallet, Session, At, InBlock
<1>5. db'.utxo = db.utxo /\ db'.events = db.events
  <2>1. CASE RollBackward
    <3>1. UNCHANGED db \/ \E t : db' = [db EXCEPT !.chain_tip = t]
      BY <2>1 DEF RollBackward
    <3>2. QED
      BY <3>1, PlaceFacts DEF DbType, HasFields
  <2>2. CASE RewindWallet
    <3>1. UNCHANGED db \/ \E w, t : db' = [db EXCEPT !.wallet_tip[w] = t]
      BY <2>2 DEF RewindWallet
    <3>2. QED
      BY <3>1, PlaceFacts DEF DbType, HasFields
  <2>3. QED
    BY <1>3, <2>1, <2>2 DEF Resume, Connect, BuildFilter, SubscribeRestart
<1>6. session'.next = session.next
  <2>1. session.next = seen.done + 1 /\ session'.next = seen'.done + 1
    BY <1>1, <1>2 DEF TreesInv, OneRestart, Fresh
  <2>2. QED
    BY <1>1, <2>1
<1>7. QED
  BY <1>1, <1>4, <1>5, <1>6, LogBetween

LEMMA BeginLog ==
    ASSUME TypeInv, TreesInv, FirstLog, BeginBlock
    PROVE  FirstLog'
<1>1. /\ session.at = "idle" /\ UNCHANGED <<db, tracked>>
      /\ seen'.rewound = seen.rewound /\ seen'.done = seen.done
  BY SeenEdits, PlaceFacts DEF BeginBlock, At
<1>2. SUFFICES ASSUME seen.rewound = 0 PROVE (Untracked /\ ExactNow /\ Listed /\ LogKept /\ LogHere)'
  BY <1>1 DEF FirstLog
<1>3. Untracked /\ ExactNow /\ LogKept /\ ~(session.next < session.current_slot)
  BY <1>2, FirstFacts DEF FirstLog
<1>4. /\ session'.at = "body" /\ session'.pos = 1 /\ session'.next = session.next
      /\ session'.filter = session.filter /\ session'.event_index = 1
      /\ session'.made = <<>> /\ session'.spent = <<>>
  BY <1>3, PlaceFacts DEF BeginBlock, Session
<1>5. Here = 1 /\ Here' = 1 /\ 1 .. 1 - 1 = {}
  BY <1>1, <1>4 DEF Here, InBlock
<1>6. \A k : MadeNow(k)' <=> MadeNow(k)
  BY <1>1, <1>4, <1>5 DEF MadeNow, Made, Creator, InBlock
<1>7. \A k, b, i : Gone(k, b, i)' <=> Gone(k, b, i)
  BY DEF Gone, SpentBy
<1>8. ExactNow'
  BY <1>1, <1>3, <1>4, <1>5, <1>6, <1>7 DEF ExactNow, Ours
<1>9. Listed'
  <2>1. \A k : ~MadeHere(k)' /\ ~SpentHere(k)'
    BY <1>5 DEF MadeHere, SpentHere
  <2>2. QED
    BY <1>4, <2>1, NoElements DEF Listed
<1>10. Untracked' /\ LogKept'
  BY <1>1, <1>3, <1>4, KeptLog DEF Untracked, AfterItems
<1>11. LogHere'
  BY <1>4 DEF LogHere
<1>12. QED
  BY <1>8, <1>9, <1>10, <1>11

-----------------------------------------------------------------------------
(* The items of a block, as the log will tell of them.                     *)

\* One item: its block's lists are not logged yet.
LEMMA ItemLog ==
    ASSUME TypeInv, TreesInv, FirstLog, seen.rewound = 0, ItemStep, UNCHANGED tracked,
           db'.events = db.events, session'.event_index = session.event_index
    PROVE  Untracked' /\ LogKept' /\ LogHere' /\ session'.at \in InBlock
<1>1. Untracked /\ LogKept /\ LogHere
  BY DEF FirstLog
<1>2. /\ session.at \in {"body", "spend", "index"} /\ session'.at \in {"body", "spend", "index"}
      /\ session'.next = session.next /\ session'.filter = session.filter /\ seen'.done = seen.done
  BY DEF ItemStep, SamePlace, SameSeen
<1>3. Untracked'
  BY <1>1, <1>2 DEF Untracked
<1>4. LogKept'
  BY <1>1, <1>2, KeptLog DEF AfterItems
<1>5. LogHere' /\ session'.at \in InBlock
  BY <1>1, <1>2 DEF LogHere, InBlock
<1>6. QED
  BY <1>3, <1>4, <1>5

\* What the lists of the block have to hold next.
LEMMA HereThrough ==
    ASSUME TypeInv, TreesInv, ItemStep, session'.pos = session.pos + 1, NEW k
    PROVE  /\ MadeHere(k)' <=> MadeHere(k) \/ Items[session.pos] = <<"out", k>>
           /\ SpentHere(k)' <=> SpentHere(k) \/ Items[session.pos] = <<"in", k>>
<1>1. /\ Items' = Items /\ Here = session.pos /\ Here' = session.pos + 1
      /\ session.pos \in Nat \ {0}
  BY ItemFrame
<1>2. 1 .. session.pos + 1 - 1 = (1 .. session.pos - 1) \cup {session.pos}
  BY <1>1
<1>3. QED
  BY <1>1, <1>2 DEF MadeHere, SpentHere

LEMMA HereHalf ==
    ASSUME TypeInv, TreesInv, ItemStep, session'.pos = session.pos, NEW k
    PROVE  (MadeHere(k)' <=> MadeHere(k)) /\ (SpentHere(k)' <=> SpentHere(k))
<1>1. Items' = Items /\ Here' = Here
  BY ItemFrame
<1>2. QED
  BY <1>1 DEF MadeHere, SpentHere

LEMMA SameItem ==
    ASSUME NEW b \in Blocks, NEW i \in 1 .. Len(Body[b]), NEW j \in 1 .. Len(Body[b]), NEW k,
           Body[b][i] = Body[b][j], Body[b][i] = <<"in", k>> \/ Body[b][i] = <<"out", k>>
    PROVE  i = j
BY TwoItems

\* The item at hand is not in the lists yet.
LEMMA ItemNew ==
    ASSUME TypeInv, TreesInv, session.at \in {"body", "spend", "index"},
           session.pos \in 1 .. Len(Items), NEW k
    PROVE  /\ Items[session.pos] = <<"in", k>> => ~SpentHere(k)
           /\ Items[session.pos] = <<"out", k>> => ~MadeHere(k)
<1>1. /\ session.next \in Blocks /\ Items = Body[session.next] /\ Here = session.pos
      /\ Len(Items) \in Nat
  BY PlaceFacts, HereFacts DEF InBlock
<1>2. ASSUME NEW i \in 1 .. Here - 1
      PROVE  i \in 1 .. Len(Items) /\ i # session.pos
  BY <1>1
<1>3. ASSUME NEW i \in 1 .. Here - 1, Items[i] = Items[session.pos],
             Items[i] = <<"in", k>> \/ Items[i] = <<"out", k>>
      PROVE  FALSE
  <2>1. i \in 1 .. Len(Body[session.next]) /\ session.pos \in 1 .. Len(Body[session.next])
    BY <1>1, <1>2
  <2>2. QED
    <3>1. session.next \in Blocks /\ Body[session.next][i] = Body[session.next][session.pos]
      BY <1>1, <1>3
    <3>2. Body[session.next][i] = <<"in", k>> \/ Body[session.next][i] = <<"out", k>>
      BY <1>1, <1>3
    <3>3. i = session.pos
      BY <2>1, <3>1, <3>2, SameItem
    <3>4. QED
      BY <1>2, <3>3
<1>4. QED
  BY <1>3 DEF SpentHere, MadeHere

\* Half of an item is done.
LEMMA HalfListed ==
    ASSUME TypeInv, TreesInv, FirstLog, seen.rewound = 0, ItemStep, session'.pos = session.pos,
           session'.made = session.made, session'.spent = session.spent
    PROVE  Listed'
<1>1. Listed /\ session.at \in InBlock
  BY ItemFrame DEF FirstLog
<1>2. \A k : (MadeHere(k)' <=> MadeHere(k)) /\ (SpentHere(k)' <=> SpentHere(k))
  BY HereHalf
<1>3. QED
  BY <1>1, <1>2 DEF Listed, Ours

LEMMA InputLog ==
    ASSUME TypeInv, TreesInv, FirstLog, ProcessInput
    PROVE  FirstLog'
<1>. DEFINE k == Items[session.pos][2]
<1>1. /\ session.at = "body" /\ session.pos <= Len(Items) /\ Items[session.pos][1] = "in"
      /\ UNCHANGED <<node_tip, signals, req, seen, tracked>>
  BY DEF ProcessInput, At
<1>2. session.pos \in 1 .. Len(Items) /\ session.next \in Blocks /\ Items = Body[session.next]
  BY <1>1, PlaceFacts DEF InBlock
<1>3. Items[session.pos] = <<"in", k>> /\ k \in Keys
  BY <1>1, <1>2, BodyFacts
<1>4. /\ SamePlace /\ session'.at \in {"body", "spend"}
      /\ session'.event_index = session.event_index
      /\ session'.made = session.made /\ session'.spent = session.spent
  BY <1>1, PlaceFacts DEF ProcessInput, Session, SamePlace
<1>5. SameTips /\ db'.utxo = db.utxo /\ db'.events = db.events
  <2>1. UNCHANGED db \/ db' = [db EXCEPT !.index = Unindex(k)]
    BY DEF ProcessInput
  <2>2. QED
    BY <2>1, DbEdits, PlaceFacts DEF SameTips
<1>6. ItemStep
  BY <1>1, <1>4, <1>5 DEF ItemStep, SameSeen
<1>7. SUFFICES ASSUME seen.rewound = 0 PROVE ExactNow' /\ Listed'
  BY <1>1, <1>4, <1>5, <1>6, ItemLog DEF FirstLog
<1>8. ExactNow /\ Listed /\ seen.begun = session.next /\ session.next = seen.done + 1
  BY <1>1, <1>7, FirstFacts DEF FirstLog, InBlock
<1>9. Here = session.pos /\ session'.next = session.next
  BY <1>1, <1>4, HereFacts DEF SamePlace
<1>10. CASE k \in db.utxo
  <2>1. /\ session'.at = "spend" /\ session'.pos = session.pos
    BY <1>10, PlaceFacts DEF ProcessInput, Session
  <2>2. \A l : /\ Made(l)' <=> Made(l)
               /\ Gone(l, session.next, Here)' <=> Gone(l, session.next, Here)
    BY <1>6, <2>1, ItemHalf
  <2>3. ExactNow'
    BY <1>1, <1>5, <1>8, <1>9, <2>1, <2>2 DEF ExactNow, MadeNow, Ours
  <2>4. Listed'
    BY <1>4, <1>6, <1>7, <2>1, HalfListed
  <2>5. QED
    BY <2>3, <2>4
<1>11. CASE k \notin db.utxo
  <2>1. session'.at = "body" /\ session'.pos = session.pos + 1
    BY <1>1, <1>11, PlaceFacts DEF ProcessInput, Session
  <2>2. \A l : /\ Made(l)' <=> Made(l)
               /\ Gone(l, session.next, Here)' <=> Gone(l, session.next, Here) \/ l = k
    BY <1>3, <1>6, <2>1, ItemThrough
  <2>3. ExactNow'
    BY <1>1, <1>5, <1>8, <1>9, <1>11, <2>1, <2>2 DEF ExactNow, MadeNow, Ours
  <2>4. ~Ours(k)
    <3>1. /\ Creator(k) <= session.next /\ ~Gone(k, session.next, Here) /\ Creator(k) \in Nat
          /\ Creator(k) = session.next => \E j \in 1 .. Here - 1 : Items[j] = <<"out", k>>
      <4>. HIDE DEF k
      <4>1. session.pos \in 1 .. Len(Body[session.next]) /\ Body[session.next][session.pos] = <<"in", k>>
        BY <1>2, <1>3
      <4>2. Creator(k) <= session.next /\ Creator(k) \in Nat
        BY <1>2, <1>3, <4>1, SpendFacts, CreatorFacts
      <4>3. ~Gone(k, session.next, session.pos)
        BY <1>2, <4>1, SpendFacts
      <4>4. Creator(k) = session.next =>
                \E j \in 1 .. session.pos - 1 : Body[session.next][j] = <<"out", k>>
        BY <1>2, <4>1, SpendFacts
      <4>5. QED
        BY <1>2, <1>9, <4>2, <4>3, <4>4
    <3>2. Made(k)
      <4>1. seen.done \in Nat
        BY DEF TreesInv, Bounded
      <4>2. Creator(k) <= seen.done \/ Creator(k) = session.next
        BY <1>8, <3>1, <4>1
      <4>3. QED
        BY <1>1, <3>1, <4>2 DEF Made, InBlock
    <3>3. QED
      BY <1>3, <1>8, <1>11, <3>1, <3>2 DEF ExactNow, MadeNow
  <2>5. Listed'
    <3>1. \A l : /\ MadeHere(l)' <=> MadeHere(l)
                 /\ SpentHere(l)' <=> SpentHere(l) \/ l = k
      BY <1>3, <1>6, <2>1, HereThrough
    <3>2. QED
      BY <1>1, <1>4, <1>8, <2>4, <3>1 DEF Listed, Ours, InBlock
  <2>6. QED
    BY <2>3, <2>5
<1>12. QED
  BY <1>10, <1>11

LEMMA DeleteLog ==
    ASSUME TypeInv, TreesInv, FirstLog, DeleteUtxo
    PROVE  FirstLog'
<1>. DEFINE k == Items[session.pos][2]
<1>1. /\ session.at = "spend" /\ Items[session.pos][1] = "in" /\ k \in db.utxo
      /\ UNCHANGED <<node_tip, signals, req, seen, tracked>>
  BY DEF DeleteUtxo, At, TreesInv, AtItem
<1>2. session.pos \in 1 .. Len(Items) /\ session.next \in Blocks /\ Items = Body[session.next]
  BY <1>1, PlaceFacts DEF InBlock, InItem
<1>3. Items[session.pos] = <<"in", k>> /\ k \in Keys
  BY <1>1, <1>2, BodyFacts
<1>4. SameTips /\ db'.utxo = db.utxo \ {k} /\ db'.events = db.events
  BY DbEdits, PlaceFacts DEF DeleteUtxo
<1>5. /\ SamePlace /\ session'.at = "body" /\ session'.pos = session.pos + 1
      /\ session'.event_index = session.event_index
      /\ session'.made = session.made /\ session'.spent = Append(session.spent, k)
      /\ session.spent \in Seq(Keys)
  BY <1>1, PlaceFacts DEF DeleteUtxo, Session, SamePlace
<1>6. ItemStep
  BY <1>1, <1>4, <1>5 DEF ItemStep, SameSeen
<1>7. SUFFICES ASSUME seen.rewound = 0 PROVE ExactNow' /\ Listed'
  BY <1>1, <1>4, <1>5, <1>6, ItemLog DEF FirstLog
<1>8. ExactNow /\ Listed /\ session'.next = session.next /\ Ours(k)
  BY <1>1, <1>3, <1>5, <1>7 DEF FirstLog, SamePlace, ExactNow
<1>9. \A l : /\ Made(l)' <=> Made(l)
             /\ Gone(l, session.next, Here)' <=> Gone(l, session.next, Here) \/ l = k
  BY <1>3, <1>5, <1>6, ItemThrough
<1>10. ExactNow'
  BY <1>1, <1>4, <1>5, <1>8, <1>9 DEF ExactNow, MadeNow, Ours
<1>11. Listed'
  <2>1. \A l : /\ MadeHere(l)' <=> MadeHere(l)
               /\ SpentHere(l)' <=> SpentHere(l) \/ l = k
    BY <1>3, <1>5, <1>6, HereThrough
  <2>2. ~SpentHere(k)
    BY <1>1, <1>2, <1>3, ItemNew
  <2>3. k \notin ToSet(session.spent)
    BY <1>1, <1>8, <2>2 DEF Listed, InBlock
  <2>4. /\ ToSet(session'.spent) = ToSet(session.spent) \cup {k}
        /\ IsInjective(session.spent) => IsInjective(session'.spent)
    BY <1>3, <1>5, <2>3, AppendElements
  <2>5. QED
    BY <1>1, <1>3, <1>5, <1>8, <2>1, <2>4 DEF Listed, Ours, InBlock
<1>12. QED
  BY <1>10, <1>11

LEMMA OutputLog ==
    ASSUME TypeInv, TreesInv, FirstLog, ProcessOutput
    PROVE  FirstLog'
<1>. DEFINE k == Items[session.pos][2]
<1>1. /\ session.at = "body" /\ session.pos <= Len(Items) /\ Items[session.pos][1] = "out"
      /\ UNCHANGED <<node_tip, signals, req, seen, tracked>>
  BY DEF ProcessOutput, At
<1>2. session.pos \in 1 .. Len(Items) /\ session.next \in Blocks /\ Items = Body[session.next]
  BY <1>1, PlaceFacts DEF InBlock
<1>3. Items[session.pos] = <<"out", k>> /\ k \in Keys
  BY <1>1, <1>2, BodyFacts
<1>4. /\ SamePlace /\ session'.at \in {"body", "index"}
      /\ session'.event_index = session.event_index
      /\ session'.made = session.made /\ session'.spent = session.spent
  BY <1>1, PlaceFacts DEF ProcessOutput, Session, SamePlace
<1>5. SameTips /\ db'.events = db.events
  <2>1. UNCHANGED db \/ db' = [db EXCEPT !.utxo = db.utxo \cup {k}]
    BY DEF ProcessOutput
  <2>2. QED
    BY <2>1, DbEdits, PlaceFacts DEF SameTips
<1>6. ItemStep
  BY <1>1, <1>4, <1>5 DEF ItemStep, SameSeen
<1>7. SUFFICES ASSUME seen.rewound = 0 PROVE ExactNow' /\ Listed'
  BY <1>1, <1>4, <1>5, <1>6, ItemLog DEF FirstLog
<1>8. ExactNow /\ Listed /\ session'.next = session.next /\ Untracked
  BY <1>4, <1>7 DEF FirstLog, SamePlace
<1>9. Here = session.pos /\ ~Gone(k, session.next, Here)
  BY <1>1, <1>2, <1>3, HereFacts, MakeFacts
<1>10. CASE AddressOf[k] \in session.filter
  <2>1. /\ session'.at = "index" /\ session'.pos = session.pos
    BY <1>10, PlaceFacts DEF ProcessOutput, Session
  <2>2. db'.utxo = db.utxo \cup {k} /\ Ours(k)
    <3>1. db' = [db EXCEPT !.utxo = db.utxo \cup {k}]
      BY <1>10 DEF ProcessOutput
    <3>2. QED
      BY <1>8, <1>10, <3>1, DbEdits, PlaceFacts DEF Untracked, Ours
  <2>3. \A l : /\ Made(l)' <=> Made(l)
               /\ Gone(l, session.next, Here)' <=> Gone(l, session.next, Here)
    BY <1>6, <2>1, ItemHalf
  <2>4. \A l : MadeNow(l)' <=> MadeNow(l) \/ l = k
    <3>1. Items' = Items
      BY <1>6, ItemFrame
    <3>2. QED
      BY <1>1, <1>3, <2>1, <2>3, <3>1 DEF MadeNow
  <2>5. ExactNow'
    BY <1>3, <1>8, <1>9, <2>2, <2>3, <2>4 DEF ExactNow, Ours
  <2>6. Listed'
    BY <1>4, <1>6, <1>7, <2>1, HalfListed
  <2>7. QED
    BY <2>5, <2>6
<1>11. CASE AddressOf[k] \notin session.filter
  <2>1. session'.at = "body" /\ session'.pos = session.pos + 1 /\ UNCHANGED db
    BY <1>1, <1>11, PlaceFacts DEF ProcessOutput, Session
  <2>2. ~Ours(k)
    BY <1>1, <1>11 DEF TreesInv, Filtered, Ours
  <2>3. \A l : /\ Made(l)' <=> Made(l) \/ l = k
               /\ Gone(l, session.next, Here)' <=> Gone(l, session.next, Here)
    BY <1>3, <1>6, <2>1, ItemThrough
  <2>4. ExactNow'
    BY <1>1, <1>8, <2>1, <2>2, <2>3 DEF ExactNow, MadeNow, Ours
  <2>5. Listed'
    <3>1. \A l : /\ MadeHere(l)' <=> MadeHere(l) \/ l = k
                 /\ SpentHere(l)' <=> SpentHere(l)
      BY <1>3, <1>6, <2>1, HereThrough
    <3>2. QED
      BY <1>1, <1>4, <1>8, <2>2, <3>1 DEF Listed, Ours, InBlock
  <2>6. QED
    BY <2>4, <2>5
<1>12. QED
  BY <1>10, <1>11

LEMMA IndexLog ==
    ASSUME TypeInv, TreesInv, FirstLog, IndexUtxo
    PROVE  FirstLog'
<1>. DEFINE k == Items[session.pos][2]
<1>1. /\ session.at = "index" /\ Items[session.pos][1] = "out" /\ k \in db.utxo
      /\ UNCHANGED <<node_tip, signals, req, seen, tracked>>
  BY DEF IndexUtxo, At, TreesInv, AtItem
<1>2. session.pos \in 1 .. Len(Items) /\ session.next \in Blocks /\ Items = Body[session.next]
  BY <1>1, PlaceFacts DEF InBlock, InItem
<1>3. Items[session.pos] = <<"out", k>> /\ k \in Keys
  BY <1>1, <1>2, BodyFacts
<1>4. SameTips /\ db'.utxo = db.utxo /\ db'.events = db.events
  BY DbEdits, PlaceFacts DEF IndexUtxo
<1>5. /\ SamePlace /\ session'.at = "body" /\ session'.pos = session.pos + 1
      /\ session'.event_index = session.event_index
      /\ session'.made = Append(session.made, k) /\ session'.spent = session.spent
      /\ session.made \in Seq(Keys)
  BY <1>1, PlaceFacts DEF IndexUtxo, Session, SamePlace
<1>6. ItemStep
  BY <1>1, <1>4, <1>5 DEF ItemStep, SameSeen
<1>7. SUFFICES ASSUME seen.rewound = 0 PROVE ExactNow' /\ Listed'
  BY <1>1, <1>4, <1>5, <1>6, ItemLog DEF FirstLog
<1>8. ExactNow /\ Listed /\ session'.next = session.next /\ Ours(k)
  BY <1>1, <1>3, <1>5, <1>7 DEF FirstLog, SamePlace, ExactNow
<1>9. \A l : /\ Made(l)' <=> Made(l) \/ l = k
             /\ Gone(l, session.next, Here)' <=> Gone(l, session.next, Here)
  BY <1>3, <1>5, <1>6, ItemThrough
<1>10. \A l : MadeNow(l)' <=> MadeNow(l)
  BY <1>1, <1>3, <1>5, <1>9 DEF MadeNow
<1>11. ExactNow'
  BY <1>4, <1>8, <1>9, <1>10 DEF ExactNow, Ours
<1>12. Listed'
  <2>1. \A l : /\ MadeHere(l)' <=> MadeHere(l) \/ l = k
               /\ SpentHere(l)' <=> SpentHere(l)
    BY <1>3, <1>5, <1>6, HereThrough
  <2>2. ~MadeHere(k)
    BY <1>1, <1>2, <1>3, ItemNew
  <2>3. k \notin ToSet(session.made)
    BY <1>1, <1>8, <2>2 DEF Listed, InBlock
  <2>4. /\ ToSet(session'.made) = ToSet(session.made) \cup {k}
        /\ IsInjective(session.made) => IsInjective(session'.made)
    BY <1>3, <1>5, <2>3, AppendElements
  <2>5. QED
    BY <1>1, <1>3, <1>5, <1>8, <2>1, <2>4 DEF Listed, Ours, InBlock
<1>13. QED
  BY <1>11, <1>12

-----------------------------------------------------------------------------
(* The events of a block, once its items are through.                      *)

\* The lists hold what the block has made and spent; the store has dropped
\* what it made and spent.
LEMMA ListsComplete ==
    ASSUME TypeInv, TreesInv, FirstLog, seen.rewound = 0, session.at \in AfterItems
    PROVE  /\ \A k : k \in ToSet(session.made) <=>
                 k \in Keys /\ Ours(k) /\ Creator(k) = session.next
           /\ \A k : k \in ToSet(session.spent) <=>
                 k \in Keys /\ Ours(k) /\ <<"in", k>> \in ToSet(Body[session.next])
           /\ \A k \in ToSet(session.made) :
                 k \in db.utxo <=> <<"in", k>> \notin ToSet(Body[session.next])
<1>1. /\ session.at \in InBlock /\ session.at # "index" /\ session.next \in Blocks
      /\ Here = Len(Items) + 1 /\ Items = Body[session.next] /\ Len(Items) \in Nat
  BY PlaceFacts, HereFacts DEF AfterItems, InBlock
<1>2. ExactNow /\ Listed
  BY DEF FirstLog
<1>3. 1 .. Here - 1 = 1 .. Len(Body[session.next])
  BY <1>1
<1>4. ASSUME NEW k \in Keys PROVE MadeHere(k) <=> Creator(k) = session.next
  BY <1>1, <1>3, CreatorFacts DEF MadeHere
<1>5. ASSUME NEW k PROVE SpentHere(k) <=> <<"in", k>> \in ToSet(Body[session.next])
  <2>1. <<"in", k>> \in ToSet(Body[session.next]) <=>
            \E i \in 1 .. Len(Body[session.next]) : Body[session.next][i] = <<"in", k>>
    BY <1>1, BodyFacts
  <2>2. QED
    BY <1>1, <1>3, <2>1 DEF SpentHere
<1>6. ASSUME NEW k \in ToSet(session.made)
      PROVE  k \in db.utxo <=> <<"in", k>> \notin ToSet(Body[session.next])
  <2>1. k \in Keys /\ Ours(k) /\ MadeHere(k)
    BY <1>1, <1>2 DEF Listed
  <2>2. PICK i \in 1 .. Len(Body[session.next]) : Body[session.next][i] = <<"out", k>>
    BY <1>1, <1>3, <2>1 DEF MadeHere
  <2>3. ~Gone(k, session.next, i)
    BY <1>1, <2>2, MakeFacts
  <2>4. ~SpentBy(k, session.next - 1)
    BY <2>3 DEF Gone
  <2>5. MadeNow(k)
    BY <1>1, <2>1 DEF MadeNow, Made, MadeHere
  <2>6. Gone(k, session.next, Here) <=> SpentHere(k)
    BY <1>1, <2>4, GoneHere
  <2>7. QED
    BY <1>2, <1>5, <2>1, <2>5, <2>6 DEF ExactNow
<1>7. QED
  BY <1>1, <1>2, <1>4, <1>5, <1>6 DEF Listed

\* From the last item to the end of the block, the store and the lists stay.
LEMMA ListsStay ==
    ASSUME TypeInv, FirstLog, seen.rewound = 0, UNCHANGED tracked, SameSeen, db'.utxo = db.utxo,
           session.at \in InBlock, session'.at \in AfterItems, session.at # "index",
           Here' = Here, session'.next = session.next, session'.filter = session.filter,
           session'.made = session.made, session'.spent = session.spent
    PROVE  Untracked' /\ ExactNow' /\ Listed'
<1>1. Untracked /\ ExactNow /\ Listed
  BY DEF FirstLog
<1>2. Items' = Items /\ session'.at \in InBlock /\ session'.at # "index"
  BY DEF Items, AfterItems, InBlock
<1>3. \A k : (MadeNow(k)' <=> MadeNow(k)) /\ (Ours(k)' <=> Ours(k))
  BY <1>2 DEF MadeNow, Made, SameSeen, Ours, Creator
<1>4. \A k, b, i : Gone(k, b, i)' <=> Gone(k, b, i)
  BY DEF Gone, SpentBy
<1>5. ExactNow'
  BY <1>1, <1>2, <1>3, <1>4 DEF ExactNow
<1>6. Listed'
  BY <1>1, <1>2, <1>3 DEF Listed, MadeHere, SpentHere
<1>7. QED
  BY <1>1, <1>5, <1>6 DEF Untracked

LEMMA TokensLog ==
    ASSUME TypeInv, TreesInv, FirstLog, TrackTokens
    PROVE  FirstLog'
<1>1. /\ session.at = "body" /\ session.pos > Len(Items) /\ UNCHANGED <<seen, tracked>> /\ SameSeen
      /\ \E x : db' = [db EXCEPT !.policy_txs = x]
  BY DEF TrackTokens, At, SameSeen
<1>2. /\ session'.at = "events" /\ session'.pos = 1 /\ session'.event_index = session.event_index
      /\ session'.next = session.next /\ session'.filter = session.filter
      /\ session'.made = session.made /\ session'.spent = session.spent
      /\ session.made \in Seq(Keys) /\ session.spent \in Seq(Keys)
  BY PlaceFacts DEF TrackTokens, Session
<1>3. db'.utxo = db.utxo /\ db'.events = db.events
  BY <1>1, DbEdits, PlaceFacts
<1>4. SUFFICES ASSUME seen.rewound = 0 PROVE (Untracked /\ ExactNow /\ Listed /\ LogKept /\ LogHere)'
  BY <1>1 DEF FirstLog
<1>5. LogKept /\ LogHere
  BY <1>4 DEF FirstLog
<1>6. /\ session.at \in InBlock /\ session.at \notin AfterItems /\ session'.at \in AfterItems
      /\ session.next \in Blocks
  BY <1>1, <1>2, PlaceFacts DEF InBlock, AfterItems
<1>7. Here' = Here
  <2>1. Here = session.pos /\ Here' = Len(Items) + 1 /\ Items' = Items
    BY <1>1, <1>2 DEF Here, Items, InBlock
  <2>2. session.pos <= Len(Items) + 1 /\ Len(Items) \in Nat /\ session.pos \in Nat
    BY <1>1, <1>6, PlaceFacts DEF TreesInv, AtItem
  <2>3. QED
    BY <1>1, <2>1, <2>2
<1>8. (Untracked /\ ExactNow /\ Listed)'
  BY <1>1, <1>2, <1>3, <1>4, <1>6, <1>7, ListsStay
<1>9. LogKept'
  BY <1>1, <1>2, <1>3, <1>5, <1>6, KeptLog DEF SameSeen
<1>10. Logging'
  <2>1. db'.events[session'.next] = <<>> /\ session'.event_index = 1 /\ session'.pos = 1
    BY <1>1, <1>2, <1>3, <1>5, <1>6 DEF LogKept, LogHere
  <2>2. Len(session.made) \in Nat /\ Len(session.spent) \in Nat
    BY <1>2, ElementsOf
  <2>3. QED
    BY <1>2, <2>1, <2>2, NoElements DEF Logging
<1>11. LogHere'
  BY <1>2, <1>10 DEF LogHere
<1>12. QED
  BY <1>8, <1>9, <1>11

\* An event that is written is one of the block's, and a new one.
LEMMA NewEvent ==
    ASSUME TypeInv, TreesInv, FirstLog, seen.rewound = 0, session.at = "events"
    PROVE  /\ (session.pos \in 1 .. Len(session.made) /\ session.made[session.pos] \in db.utxo) =>
                 CreatedEvent(session.made[session.pos]) \in
                     EventsOf(session.next) \ ToSet(db.events[session.next])
           /\ \A j \in 1 .. Len(session.spent) :
                 session.pos = Len(session.made) + j =>
                     SpentEvent(session.spent[j]) \in
                         EventsOf(session.next) \ ToSet(db.events[session.next])
<1>1. /\ session.at \in AfterItems /\ session.at \in InBlock /\ session.next \in Blocks
      /\ session.made \in Seq(Keys) /\ session.spent \in Seq(Keys) /\ session.pos \in Nat
  BY PlaceFacts DEF InBlock, AfterItems, Session
<1>2. /\ Listed /\ Logging
  BY DEF FirstLog, LogHere
<1>3. /\ \A i, j \in 1 .. Len(session.made) : session.made[i] = session.made[j] => i = j
      /\ \A i, j \in 1 .. Len(session.spent) : session.spent[i] = session.spent[j] => i = j
      /\ Len(session.made) \in Nat /\ Len(session.spent) \in Nat
  <2>1. IsInjective(session.made) /\ IsInjective(session.spent)
    BY <1>1, <1>2 DEF Listed
  <2>2. QED
    BY <1>1, <2>1, ElementsOf
<1>4. ASSUME session.pos \in 1 .. Len(session.made), session.made[session.pos] \in db.utxo
      PROVE  CreatedEvent(session.made[session.pos]) \in
                 EventsOf(session.next) \ ToSet(db.events[session.next])
  <2>1. PICK k : k = session.made[session.pos]
    OBVIOUS
  <2>2. k \in ToSet(session.made)
    BY <1>1, <1>4, <2>1, ElementsOf
  <2>3. CreatedEvent(k) \in EventsOf(session.next)
    <3>1. /\ k \in Keys /\ Ours(k) /\ Creator(k) = session.next
          /\ <<"in", k>> \notin ToSet(Body[session.next])
      BY <1>1, <1>4, <2>1, <2>2, ListsComplete
    <3>2. QED
      BY <1>1, <3>1, EventsOfFacts
  <2>4. ASSUME CreatedEvent(k) \in ToSet(db.events[session.next]) PROVE FALSE
    <3>1. PICK i \in 1 .. Len(session.made) : i < session.pos /\ k = session.made[i]
      BY <1>2, <2>4 DEF Logging
    <3>2. i = session.pos
      BY <1>3, <1>4, <2>1, <3>1
    <3>3. QED
      BY <1>1, <3>1, <3>2
  <2>5. QED
    BY <2>1, <2>3, <2>4
<1>5. ASSUME NEW j \in 1 .. Len(session.spent), session.pos = Len(session.made) + j
      PROVE  SpentEvent(session.spent[j]) \in
                 EventsOf(session.next) \ ToSet(db.events[session.next])
  <2>1. PICK k : k = session.spent[j]
    OBVIOUS
  <2>2. k \in ToSet(session.spent)
    BY <1>1, <2>1, ElementsOf
  <2>3. SpentEvent(k) \in EventsOf(session.next)
    BY <1>1, <2>2, ListsComplete, EventsOfFacts
  <2>4. ASSUME SpentEvent(k) \in ToSet(db.events[session.next]) PROVE FALSE
    <3>1. PICK i \in 1 .. Len(session.spent) :
              Len(session.made) + i < session.pos /\ k = session.spent[i]
      BY <1>2, <2>4 DEF Logging
    <3>2. i = j
      BY <1>3, <2>1, <3>1
    <3>3. QED
      BY <1>3, <1>5, <3>1, <3>2
  <2>5. QED
    BY <2>1, <2>3, <2>4
<1>6. QED
  BY <1>4, <1>5

LEMMA Beyond ==
    ASSUME NEW a \in Nat, NEW b \in Nat, NEW p \in Nat
    PROVE  /\ (p <= a + b /\ ~(p <= a)) => p - a \in 1 .. b /\ p = a + (p - a)
           /\ a < p + 1 => a < p \/ a = p
           /\ p > a + b => (\A i \in 1 .. a : i < p) /\ \A j \in 1 .. b : a + j < p
OBVIOUS

\* The session writes an event, or passes an output that the block has spent.
LEMMA EventWrites ==
    ASSUME TypeInv, TreesInv, FirstLog, seen.rewound = 0, WriteEvent
    PROVE  /\ session'.pos = session.pos + 1
           /\ \/ /\ \E e \in EventsOf(session.next) \ ToSet(db.events[session.next]) :
                       /\ db'.events = [db.events EXCEPT ![session.next] = Append(@, e)]
                       /\ \/ /\ session.pos \in 1 .. Len(session.made)
                             /\ e = CreatedEvent(session.made[session.pos])
                          \/ \E j \in 1 .. Len(session.spent) :
                                /\ session.pos = Len(session.made) + j
                                /\ e = SpentEvent(session.spent[j])
                 /\ session'.event_index = session.event_index + 1
              \/ /\ db'.events = db.events /\ session'.event_index = session.event_index
                 /\ session.pos \in 1 .. Len(session.made)
                 /\ session.made[session.pos] \notin db.utxo
<1>1. /\ session.at = "events" /\ session.pos <= Len(session.made) + Len(session.spent)
      /\ session.made \in Seq(Keys) /\ session.spent \in Seq(Keys)
      /\ session.pos \in Nat \ {0} /\ session.next \in Blocks
      /\ Len(session.made) \in Nat /\ Len(session.spent) \in Nat
  <2>1. session.at = "events" /\ session.pos <= Len(session.made) + Len(session.spent)
    BY DEF WriteEvent, At
  <2>2. session.made \in Seq(Keys) /\ session.spent \in Seq(Keys)
    BY PlaceFacts DEF Session
  <2>3. session.pos \in Nat \ {0}
    BY <2>1, PlaceFacts
  <2>4. session.next \in Blocks
    BY <2>1, PlaceFacts DEF InBlock
  <2>5. QED
    BY <2>1, <2>2, <2>3, <2>4, ElementsOf
<1>2. LogKept /\ Logging
  BY <1>1 DEF FirstLog, LogHere
<1>3. PICK run : run = db.events[session.next] /\ run \in Seq(Event)
  BY <1>1, <1>2 DEF LogKept
<1>4. Len(run) \in Nat /\ session.event_index = Len(run) + 1
  BY <1>2, <1>3, ElementsOf DEF Logging
<1>5. \A e : Written(run, session.event_index, e) = Append(run, e)
  BY <1>4 DEF Written
<1>6. DbType /\ session \in Session
  BY PlaceFacts
<1>7. ASSUME NEW e, db' = [db EXCEPT !.events[session.next] =
                                       Written(@, session.event_index, e)]
      PROVE  db'.events = [db.events EXCEPT ![session.next] = Append(@, e)]
  <2>1. db'.events = [db.events EXCEPT ![session.next] = Written(run, session.event_index, e)]
    BY <1>3, <1>6, <1>7 DEF DbType, HasFields
  <2>2. QED
    BY <1>3, <1>5, <2>1
<1>8. CASE session.pos <= Len(session.made)
  <2>1. PICK k : k = session.made[session.pos]
    OBVIOUS
  <2>2. session.pos \in 1 .. Len(session.made)
    BY <1>1, <1>8
  <2>3. CASE k \in db.utxo
    <3>1. CreatedEvent(k) \in EventsOf(session.next) \ ToSet(db.events[session.next])
      BY <1>1, <2>1, <2>2, <2>3, NewEvent
    <3>2. /\ db' = [db EXCEPT !.events[session.next] =
                                  Written(@, session.event_index, CreatedEvent(k))]
          /\ session' = [session EXCEPT !.pos = @ + 1, !.event_index = @ + 1]
      BY <1>8, <2>1, <2>3 DEF WriteEvent, CreatedEvent
    <3>3. db'.events = [db.events EXCEPT ![session.next] = Append(@, CreatedEvent(k))]
      BY <1>7, <3>2
    <3>4. session'.pos = session.pos + 1 /\ session'.event_index = session.event_index + 1
      BY <1>6, <3>2 DEF Session
    <3>5. QED
      BY <2>1, <2>2, <3>1, <3>3, <3>4
  <2>4. CASE k \notin db.utxo
    <3>1. UNCHANGED db /\ session' = [session EXCEPT !.pos = @ + 1]
      BY <1>8, <2>1, <2>4 DEF WriteEvent
    <3>2. session'.pos = session.pos + 1 /\ session'.event_index = session.event_index
      BY <1>6, <3>1 DEF Session
    <3>3. QED
      BY <2>1, <2>2, <2>4, <3>1, <3>2
  <2>5. QED
    BY <2>3, <2>4
<1>9. CASE ~(session.pos <= Len(session.made))
  <2>1. PICK j \in 1 .. Len(session.spent) : session.pos = Len(session.made) + j
    <3>1. session.pos - Len(session.made) \in 1 .. Len(session.spent)
      BY <1>1, <1>9, Beyond
    <3>2. session.pos = Len(session.made) + (session.pos - Len(session.made))
      BY <1>1, <1>9, Beyond
    <3>3. QED
      BY <3>1, <3>2
  <2>2. session.pos - Len(session.made) = j
    BY <1>1, <2>1
  <2>3. PICK k : k = session.spent[j]
    OBVIOUS
  <2>4. SpentEvent(k) \in EventsOf(session.next) \ ToSet(db.events[session.next])
    BY <1>1, <2>1, <2>3, NewEvent
  <2>5. /\ db' = [db EXCEPT !.events[session.next] =
                                Written(@, session.event_index, SpentEvent(k))]
        /\ session' = [session EXCEPT !.pos = @ + 1, !.event_index = @ + 1]
    BY <1>9, <2>2, <2>3 DEF WriteEvent, SpentEvent
  <2>6. db'.events = [db.events EXCEPT ![session.next] = Append(@, SpentEvent(k))]
    BY <1>7, <2>5
  <2>7. session'.pos = session.pos + 1 /\ session'.event_index = session.event_index + 1
    BY <1>6, <2>5 DEF Session
  <2>8. QED
    BY <2>1, <2>3, <2>4, <2>6, <2>7
<1>10. QED
  BY <1>8, <1>9

\* The log of the block when an event is added to it.
LEMMA LongerLog ==
    ASSUME LogKept, NEW b \in Blocks, NEW e \in EventsOf(b) \ ToSet(db.events[b]),
           db'.events = [db.events EXCEPT ![b] = Append(@, e)],
           seen.done \in Nat, b = seen.done + 1, session.next = b, session'.next = b,
           seen'.done = seen.done, session'.at \in AfterItems
    PROVE  /\ LogKept'
           /\ ToSet(db'.events[b]) = ToSet(db.events[b]) \cup {e}
           /\ Len(db'.events[b]) = Len(db.events[b]) + 1
<1>1. e \in Event /\ EventsOf(b) \subseteq Event
  BY EventsOfFacts
<1>2. /\ db.events[b] \in Seq(Event) /\ IsInjective(db.events[b])
      /\ ToSet(db.events[b]) \subseteq EventsOf(b)
  BY DEF LogKept
<1>3. /\ db'.events[b] = Append(db.events[b], e)
      /\ \A c \in Blocks \ {b} : db'.events[c] = db.events[c]
  BY DEF LogKept
<1>4. /\ Append(db.events[b], e) \in Seq(Event) /\ IsInjective(Append(db.events[b], e))
      /\ ToSet(Append(db.events[b], e)) = ToSet(db.events[b]) \cup {e}
      /\ Len(Append(db.events[b], e)) = Len(db.events[b]) + 1
  BY <1>1, <1>2, AppendElements, AppendProperties
<1>5. db'.events \in [Blocks -> Seq(Event)]
  BY <1>3, <1>4 DEF LogKept
<1>6. \A c : EventsOf(c)' = EventsOf(c)
  BY DEF EventsOf, Ours, Creator
<1>7. Event' = Event /\ Blocks' = Blocks
  BY DEF Event, Keys, Blocks
<1>8. ASSUME NEW c \in Blocks
      PROVE  IsInjective(db'.events[c]) /\ ToSet(db'.events[c]) \subseteq EventsOf(c)
  BY <1>2, <1>3, <1>4 DEF LogKept
<1>9. ASSUME NEW c \in 1 .. seen'.done PROVE Logged(c)'
  <2>1. c # b
    BY <1>9
  <2>2. c \in Blocks
    <3>1. b \in 1 .. N /\ N \in Nat
      BY BlockNumbers
    <3>2. QED
      BY <1>9, <3>1, BlockNumbers
  <2>3. QED
    BY <1>3, <1>6, <1>9, <2>1, <2>2 DEF LogKept, Logged
<1>10. ASSUME NEW c \in Blocks, c > session'.next PROVE db'.events[c] = <<>>
  <2>1. c # b
    BY <1>10
  <2>2. QED
    BY <1>3, <1>10, <2>1 DEF LogKept
<1>11. QED
  BY <1>3, <1>4, <1>5, <1>6, <1>7, <1>8, <1>9, <1>10 DEF LogKept

LEMMA EventLog ==
    ASSUME TypeInv, TreesInv, FirstLog, WriteEvent
    PROVE  FirstLog'
<1>1. session.at = "events" /\ UNCHANGED <<seen, tracked>> /\ SameSeen
  BY DEF WriteEvent, At, SameSeen
<1>2. /\ session'.at = "events" /\ session'.next = session.next
      /\ session'.filter = session.filter
      /\ session'.made = session.made /\ session'.spent = session.spent
      /\ session.made \in Seq(Keys) /\ session.spent \in Seq(Keys)
      /\ session.pos \in Nat \ {0} /\ session.next \in Blocks
  <2>1. session \in Session
    BY PlaceFacts
  <2>2. /\ session'.at = "events" /\ session'.next = session.next
        /\ session'.filter = session.filter
        /\ session'.made = session.made /\ session'.spent = session.spent
    BY <1>1, <2>1 DEF WriteEvent, Session
  <2>3. session.pos \in Nat \ {0}
    BY <1>1, PlaceFacts
  <2>4. session.next \in Blocks
    BY <1>1, PlaceFacts DEF InBlock
  <2>5. QED
    BY <2>1, <2>2, <2>3, <2>4 DEF Session
<1>3. db'.utxo = db.utxo
  <2>1. UNCHANGED db \/ \E x : db' = [db EXCEPT !.events[session.next] = x]
    BY DEF WriteEvent
  <2>2. QED
    BY <2>1, DbEdits, PlaceFacts DEF SameTrees
<1>4. SUFFICES ASSUME seen.rewound = 0 PROVE (Untracked /\ ExactNow /\ Listed /\ LogKept /\ LogHere)'
  BY <1>1 DEF FirstLog
<1>5. Listed /\ LogKept /\ Logging
  BY <1>1, <1>4 DEF FirstLog, LogHere
<1>6. /\ session.at \in InBlock /\ session.at \in AfterItems /\ session'.at \in AfterItems
  BY <1>1, <1>2 DEF InBlock, AfterItems
<1>7. Here' = Here
  BY <1>1, <1>2 DEF Here, Items, InBlock
<1>8. (Untracked /\ ExactNow /\ Listed)'
  BY <1>1, <1>2, <1>3, <1>4, <1>6, <1>7, ListsStay
<1>9. /\ Len(session.made) \in Nat /\ Len(session.spent) \in Nat
      /\ \A i, j \in 1 .. Len(session.made) : session.made[i] = session.made[j] => i = j
      /\ session.next = seen.done + 1 /\ seen.done \in Nat
  <2>1. IsInjective(session.made)
    BY <1>5, <1>6 DEF Listed
  <2>2. QED
    BY <1>2, <1>4, <2>1, ElementsOf, FirstFacts
<1>10. session'.pos = session.pos + 1
  BY <1>4, EventWrites
<1>11. CASE /\ db'.events = db.events /\ session'.event_index = session.event_index
            /\ session.pos \in 1 .. Len(session.made)
            /\ session.made[session.pos] \notin db.utxo
  <2>1. LogKept'
    BY <1>1, <1>2, <1>5, <1>6, <1>11, KeptLog
  <2>2. \A i \in 1 .. Len(session.made) : i < session.pos + 1 => i < session.pos \/ i = session.pos
    BY <1>2, <1>9
  <2>3. \A j \in 1 .. Len(session.spent) : ~(Len(session.made) + j < session.pos + 1)
    BY <1>2, <1>9, <1>11
  <2>4. \A i \in 1 .. Len(session.made) : i < session.pos => i < session.pos + 1
    BY <1>2, <1>9
  <2>5. \A j \in 1 .. Len(session.spent) : ~(Len(session.made) + j < session.pos)
    BY <1>2, <1>9, <1>11
  <2>6. Logging'
    BY <1>2, <1>3, <1>5, <1>10, <1>11, <2>2, <2>3, <2>4, <2>5 DEF Logging, CreatedEvent, SpentEvent
  <2>7. QED
    BY <1>2, <1>8, <2>1, <2>6 DEF LogHere
<1>12. ASSUME NEW e \in EventsOf(session.next) \ ToSet(db.events[session.next]),
              db'.events = [db.events EXCEPT ![session.next] = Append(@, e)],
              session'.event_index = session.event_index + 1,
              \/ /\ session.pos \in 1 .. Len(session.made)
                 /\ e = CreatedEvent(session.made[session.pos])
              \/ \E j \in 1 .. Len(session.spent) :
                    session.pos = Len(session.made) + j /\ e = SpentEvent(session.spent[j])
       PROVE  LogKept' /\ Logging'
  <2>0. \/ /\ session.pos \in 1 .. Len(session.made)
           /\ e = CreatedEvent(session.made[session.pos])
        \/ \E j \in 1 .. Len(session.spent) :
              session.pos = Len(session.made) + j /\ e = SpentEvent(session.spent[j])
    BY <1>12
  <2>1. /\ LogKept'
        /\ ToSet(db'.events[session.next]) = ToSet(db.events[session.next]) \cup {e}
        /\ Len(db'.events[session.next]) = Len(db.events[session.next]) + 1
    BY <1>1, <1>2, <1>5, <1>6, <1>9, <1>12, LongerLog DEF SameSeen
  <2>2. session'.event_index = Len(db'.events[session'.next]) + 1
    <3>1. Len(db.events[session.next]) \in Nat
      BY <1>2, <1>5, ElementsOf DEF LogKept
    <3>2. QED
      BY <1>2, <1>5, <1>12, <2>1, <3>1 DEF Logging
  <2>3. ASSUME NEW i \in 1 .. Len(session.made), i < session.pos + 1, session.made[i] \in db.utxo
        PROVE  CreatedEvent(session.made[i]) \in ToSet(db'.events[session.next])
    <3>1. CASE i < session.pos
      BY <1>5, <2>1, <2>3, <3>1 DEF Logging
    <3>2. CASE i = session.pos
      <4>1. \A j \in 1 .. Len(session.spent) : session.pos # Len(session.made) + j
        BY <1>9, <3>2
      <4>2. QED
        BY <2>0, <2>1, <3>2, <4>1
    <3>3. QED
      BY <1>2, <1>9, <2>3, <3>1, <3>2
  <2>4. ASSUME NEW j \in 1 .. Len(session.spent), Len(session.made) + j < session.pos + 1
        PROVE  SpentEvent(session.spent[j]) \in ToSet(db'.events[session.next])
    <3>0. Len(session.made) + j < session.pos \/ Len(session.made) + j = session.pos
      <4>1. Len(session.made) + j \in Nat /\ session.pos \in Nat
        BY <1>2, <1>9
      <4>2. QED
        BY <2>4, <4>1, Beyond
    <3>1. CASE Len(session.made) + j < session.pos
      BY <1>5, <2>1, <3>1 DEF Logging
    <3>2. CASE Len(session.made) + j = session.pos
      <4>1. session.pos \notin 1 .. Len(session.made)
        BY <1>9, <3>2
      <4>2. \A i \in 1 .. Len(session.spent) : session.pos = Len(session.made) + i => i = j
        BY <1>9, <3>2
      <4>3. QED
        BY <2>0, <2>1, <4>1, <4>2
    <3>3. QED
      BY <3>0, <3>1, <3>2
  <2>5. \A k, l : /\ CreatedEvent(k) # SpentEvent(l)
                  /\ CreatedEvent(k) = CreatedEvent(l) => k = l
                  /\ SpentEvent(k) = SpentEvent(l) => k = l
    BY DEF CreatedEvent, SpentEvent
  <2>6. ASSUME NEW k, CreatedEvent(k) \in ToSet(db'.events[session.next])
        PROVE  \E i \in 1 .. Len(session.made) : i < session.pos + 1 /\ k = session.made[i]
    <3>1. CASE CreatedEvent(k) \in ToSet(db.events[session.next])
      <4>1. PICK i \in 1 .. Len(session.made) : i < session.pos /\ k = session.made[i]
        BY <1>5, <3>1 DEF Logging
      <4>2. i < session.pos + 1
        BY <1>2, <1>9, <4>1
      <4>3. QED
        BY <4>1, <4>2
    <3>2. CASE CreatedEvent(k) = e
      <4>1. session.pos \in 1 .. Len(session.made) /\ k = session.made[session.pos]
        BY <2>0, <2>5, <3>2
      <4>2. session.pos < session.pos + 1
        BY <1>2
      <4>3. QED
        BY <4>1, <4>2
    <3>3. QED
      BY <2>1, <2>6, <3>1, <3>2
  <2>7. ASSUME NEW k, SpentEvent(k) \in ToSet(db'.events[session.next])
        PROVE  \E j \in 1 .. Len(session.spent) :
                   Len(session.made) + j < session.pos + 1 /\ k = session.spent[j]
    <3>1. CASE SpentEvent(k) \in ToSet(db.events[session.next])
      <4>1. PICK j \in 1 .. Len(session.spent) :
                Len(session.made) + j < session.pos /\ k = session.spent[j]
        BY <1>5, <3>1 DEF Logging
      <4>2. Len(session.made) + j < session.pos + 1
        BY <1>2, <1>9, <4>1
      <4>3. QED
        BY <4>1, <4>2
    <3>2. CASE SpentEvent(k) = e
      <4>1. PICK j \in 1 .. Len(session.spent) :
                session.pos = Len(session.made) + j /\ k = session.spent[j]
        BY <2>0, <2>5, <3>2
      <4>2. Len(session.made) + j < session.pos + 1
        BY <1>2, <1>9, <4>1
      <4>3. QED
        BY <4>1, <4>2
    <3>3. QED
      BY <2>1, <2>7, <3>1, <3>2
  <2>8. Logging'
    <3>1. \A k : CreatedEvent(k)' = CreatedEvent(k) /\ SpentEvent(k)' = SpentEvent(k)
      BY DEF CreatedEvent, SpentEvent
    <3>2. \A i \in 1 .. Len(session'.made) :
              (i < session'.pos /\ session'.made[i] \in db'.utxo) =>
                  CreatedEvent(session'.made[i]) \in ToSet(db'.events[session'.next])
      BY <1>2, <1>3, <1>10, <2>3
    <3>3. \A j \in 1 .. Len(session'.spent) :
              Len(session'.made) + j < session'.pos =>
                  SpentEvent(session'.spent[j]) \in ToSet(db'.events[session'.next])
      BY <1>2, <1>10, <2>4
    <3>4. \A k : CreatedEvent(k) \in ToSet(db'.events[session'.next]) =>
              \E i \in 1 .. Len(session'.made) : i < session'.pos /\ k = session'.made[i]
      BY <1>2, <1>10, <2>6
    <3>5. \A k : SpentEvent(k) \in ToSet(db'.events[session'.next]) =>
              \E j \in 1 .. Len(session'.spent) :
                  Len(session'.made) + j < session'.pos /\ k = session'.spent[j]
      BY <1>2, <1>10, <2>7
    <3>6. QED
      BY <2>2, <3>1, <3>2, <3>3, <3>4, <3>5 DEF Logging
  <2>9. QED
    BY <2>1, <2>8
<1>13. QED
  <2>1. LogKept' /\ Logging' => FirstLog'
    BY <1>2, <1>8 DEF FirstLog, LogHere
  <2>2. CASE \E e \in EventsOf(session.next) \ ToSet(db.events[session.next]) :
                /\ db'.events = [db.events EXCEPT ![session.next] = Append(@, e)]
                /\ session'.event_index = session.event_index + 1
                /\ \/ /\ session.pos \in 1 .. Len(session.made)
                      /\ e = CreatedEvent(session.made[session.pos])
                   \/ \E j \in 1 .. Len(session.spent) :
                         session.pos = Len(session.made) + j /\ e = SpentEvent(session.spent[j])
    BY <1>12, <2>1, <2>2, <1>8, <1>2 DEF LogHere
  <2>3. QED
    BY <1>4, <1>11, <2>2, EventWrites

LEMMA MetadataLog ==
    ASSUME TypeInv, TreesInv, FirstLog, StoreMetadata
    PROVE  FirstLog'
<1>1. /\ session.at = "events" /\ session.pos > Len(session.made) + Len(session.spent)
      /\ UNCHANGED <<seen, tracked>> /\ SameSeen
      /\ \E x : db' = [db EXCEPT !.known = x]
  BY DEF StoreMetadata, At, SameSeen
<1>2. /\ session'.at \in {"tips", "broadcast"} /\ session'.next = session.next
      /\ session'.filter = session.filter
      /\ session'.made = session.made /\ session'.spent = session.spent
      /\ session.made \in Seq(Keys) /\ session.spent \in Seq(Keys)
      /\ session.pos \in Nat
  BY <1>1, PlaceFacts DEF StoreMetadata, Session
<1>3. db'.utxo = db.utxo /\ db'.events = db.events
  BY <1>1, DbEdits, PlaceFacts DEF SameTrees
<1>4. SUFFICES ASSUME seen.rewound = 0 PROVE (Untracked /\ ExactNow /\ Listed /\ LogKept /\ LogHere)'
  BY <1>1 DEF FirstLog
<1>5. LogKept /\ Logging
  BY <1>1, <1>4 DEF FirstLog, LogHere
<1>6. /\ session.at \in InBlock /\ session.at \in AfterItems /\ session'.at \in AfterItems
      /\ session.next \in Blocks
  BY <1>1, <1>2, PlaceFacts DEF InBlock, AfterItems
<1>7. Here' = Here
  BY <1>1, <1>2 DEF Here, Items, InBlock
<1>8. (Untracked /\ ExactNow /\ Listed)'
  BY <1>1, <1>2, <1>3, <1>4, <1>6, <1>7, ListsStay
<1>9. LogKept'
  BY <1>1, <1>2, <1>3, <1>5, <1>6, KeptLog DEF SameSeen
<1>10. ASSUME NEW e \in EventsOf(session.next)
       PROVE  e \in ToSet(db.events[session.next])
  <2>1. PICK k : k = e.key
    OBVIOUS
  <2>2. e = CreatedEvent(k) \/ e = SpentEvent(k)
    BY <1>6, <2>1, EventsOfFacts
  <2>3. Len(session.made) \in Nat /\ Len(session.spent) \in Nat
    BY <1>2, ElementsOf
  <2>4. CASE e = CreatedEvent(k)
    <3>1. /\ k \in Keys /\ Ours(k) /\ Creator(k) = session.next
          /\ <<"in", k>> \notin ToSet(Body[session.next])
      BY <1>6, <2>4, EventsOfFacts
    <3>2. k \in ToSet(session.made) /\ k \in db.utxo
      BY <1>4, <1>6, <3>1, ListsComplete
    <3>3. PICK i \in 1 .. Len(session.made) : session.made[i] = k
      BY <1>2, <3>2, ElementsOf
    <3>4. i < session.pos
      BY <1>1, <1>2, <2>3, Beyond
    <3>5. QED
      BY <1>5, <2>4, <3>2, <3>3, <3>4 DEF Logging
  <2>5. CASE e = SpentEvent(k)
    <3>1. k \in Keys /\ Ours(k) /\ <<"in", k>> \in ToSet(Body[session.next])
      BY <1>6, <2>5, EventsOfFacts
    <3>2. k \in ToSet(session.spent)
      BY <1>4, <1>6, <3>1, ListsComplete
    <3>3. PICK j \in 1 .. Len(session.spent) : session.spent[j] = k
      BY <1>2, <3>2, ElementsOf
    <3>4. Len(session.made) + j < session.pos
      BY <1>1, <1>2, <2>3, Beyond
    <3>5. QED
      BY <1>5, <2>5, <3>3, <3>4 DEF Logging
  <2>6. QED
    BY <2>2, <2>4, <2>5
<1>11. LogHere'
  <2>1. Logged(session.next)'
    BY <1>2, <1>3, <1>10 DEF Logged, EventsOf, Ours, Creator
  <2>2. QED
    BY <1>2, <2>1 DEF LogHere
<1>12. QED
  BY <1>8, <1>9, <1>11

LEMMA TipsLog ==
    ASSUME TypeInv, TreesInv, FirstLog, SaveTips
    PROVE  FirstLog'
<1>1. /\ session.at = "tips" /\ UNCHANGED <<seen, tracked>> /\ SameSeen
  BY DEF SaveTips, At, SameSeen
<1>2. /\ session'.at \in {"tips", "broadcast"} /\ session'.next = session.next
      /\ session'.filter = session.filter
      /\ session'.made = session.made /\ session'.spent = session.spent
  BY <1>1, PlaceFacts DEF SaveTips, Session
<1>3. db'.utxo = db.utxo /\ db'.events = db.events
  <2>1. (\E t : db' = [db EXCEPT !.chain_tip = t]) \/ \E w, t : db' = [db EXCEPT !.wallet_tip[w] = t]
    BY DEF SaveTips
  <2>2. DbType
    BY PlaceFacts
  <2>3. QED
    BY <2>1, <2>2 DEF DbType, HasFields
<1>4. SUFFICES ASSUME seen.rewound = 0 PROVE (Untracked /\ ExactNow /\ Listed /\ LogKept /\ LogHere)'
  BY <1>1 DEF FirstLog
<1>5. LogKept /\ Logged(session.next)
  BY <1>1, <1>4 DEF FirstLog, LogHere
<1>6. /\ session.at \in InBlock /\ session.at \in AfterItems /\ session'.at \in AfterItems
  BY <1>1, <1>2 DEF InBlock, AfterItems
<1>7. Here' = Here
  BY <1>1, <1>2 DEF Here, Items, InBlock
<1>8. (Untracked /\ ExactNow /\ Listed)'
  BY <1>1, <1>2, <1>3, <1>4, <1>6, <1>7, ListsStay
<1>9. LogKept'
  BY <1>1, <1>2, <1>3, <1>5, <1>6, KeptLog DEF SameSeen
<1>10. LogHere'
  <2>1. Logged(session.next)'
    BY <1>2, <1>3, <1>5 DEF Logged, EventsOf, Ours, Creator
  <2>2. QED
    BY <1>2, <2>1 DEF LogHere
<1>11. QED
  BY <1>8, <1>9, <1>10

LEMMA BroadcastLog ==
    ASSUME TypeInv, TreesInv, FirstLog, BroadcastBlock
    PROVE  FirstLog'
<1>1. /\ session.at = "broadcast" /\ UNCHANGED <<db, tracked>>
      /\ seen' = [seen EXCEPT !.done = IF session.next > @ THEN session.next ELSE @]
  BY DEF BroadcastBlock, At
<1>2. /\ session'.at = "idle" /\ session'.next = session.next + 1
      /\ session'.filter = session.filter
  BY <1>1, PlaceFacts DEF BroadcastBlock, Session
<1>3. /\ seen'.done = (IF session.next > seen.done THEN session.next ELSE seen.done)
      /\ seen'.rewound = seen.rewound
  BY <1>1, SeenEdits, PlaceFacts
<1>4. SUFFICES ASSUME seen.rewound = 0 PROVE (Untracked /\ ExactNow /\ Listed /\ LogKept /\ LogHere)'
  BY <1>3 DEF FirstLog
<1>5. Untracked /\ ExactNow /\ LogKept /\ Logged(session.next)
  BY <1>1, <1>4 DEF FirstLog, LogHere
<1>6. /\ session.next = seen.done + 1 /\ seen.done \in Nat /\ session.next \in Blocks
      /\ session.next \in 1 .. N /\ N \in Nat /\ session.at \in InBlock
  BY <1>1, <1>4, FirstFacts, PlaceFacts DEF InBlock
<1>7. seen'.done = session.next
  BY <1>3, <1>6
<1>8. /\ session.at # "index" /\ session'.at \notin InBlock /\ session'.at # "index"
      /\ session'.at \notin AfterItems
  BY <1>1, <1>2 DEF InBlock, AfterItems
<1>9. /\ Here = Len(Items) + 1 /\ Here' = 1 /\ Items = Body[session.next]
      /\ Len(Items) \in Nat
  <2>1. Here' = 1
    BY <1>2 DEF Here, InBlock
  <2>2. QED
    BY <1>1, <1>6, <2>1, PlaceFacts, HereFacts
<1>10. ASSUME NEW k \in Keys PROVE MadeNow(k)' <=> MadeNow(k)
  <2>1. Creator(k) \in Nat
    BY CreatorFacts
  <2>2. MadeNow(k)' <=> Creator(k) <= session.next
    BY <1>7, <1>8 DEF MadeNow, Made, Creator
  <2>3. MadeNow(k) <=> \/ Creator(k) <= seen.done
                       \/ \E i \in 1 .. Len(Items) : Items[i] = <<"out", k>>
    <3>1. 1 .. Here - 1 = 1 .. Len(Items)
      BY <1>9
    <3>2. QED
      BY <1>6, <1>8, <3>1 DEF MadeNow, Made
  <2>4. (\E i \in 1 .. Len(Items) : Items[i] = <<"out", k>>) <=> Creator(k) = session.next
    BY <1>6, <1>9, CreatorFacts
  <2>5. Creator(k) <= session.next <=> Creator(k) <= seen.done \/ Creator(k) = session.next
    BY <1>6, <2>1
  <2>6. QED
    BY <2>2, <2>3, <2>4, <2>5
<1>11. ASSUME NEW k PROVE Gone(k, session.next, Here)' <=> Gone(k, session.next, Here)
  <2>1. Gone(k, session.next + 1, 1) <=> SpentBy(k, session.next)
    BY <1>6, GoneFirst
  <2>2. Gone(k, session.next, Here) <=> SpentBy(k, session.next)
    BY <1>6, <1>9, GoneFacts
  <2>3. Gone(k, session.next + 1, 1)' <=> Gone(k, session.next + 1, 1)'
    OBVIOUS
  <2>4. \A b : Gone(k, b, 1)' <=> Gone(k, b, 1)
    BY DEF Gone, SpentBy
  <2>5. QED
    BY <1>2, <1>9, <2>1, <2>2, <2>4
<1>12. ExactNow'
  BY <1>1, <1>5, <1>10, <1>11 DEF ExactNow, Ours
<1>13. Listed' /\ LogHere' /\ Untracked'
  BY <1>1, <1>2, <1>5, <1>8 DEF Listed, LogHere, Untracked
<1>14. LogKept'
  <2>1. \A b : EventsOf(b)' = EventsOf(b)
    BY DEF EventsOf, Ours, Creator
  <2>2. Event' = Event /\ Blocks' = Blocks
    BY DEF Event, Keys, Blocks
  <2>3. ASSUME NEW b \in 1 .. seen'.done PROVE Logged(b)'
    <3>1. b \in 1 .. seen.done \/ b = session.next
      BY <1>6, <1>7, <2>3
    <3>2. Logged(b)
      BY <1>5, <3>1 DEF LogKept
    <3>3. QED
      BY <1>1, <2>1, <3>2 DEF Logged
  <2>4. ASSUME NEW b \in Blocks, b >= session'.next PROVE db'.events[b] = <<>>
    <3>1. b > session.next
      BY <1>2, <1>6, <2>4, BlockNumbers
    <3>2. QED
      BY <1>1, <1>5, <3>1 DEF LogKept
  <2>5. \A b \in Blocks : b > session'.next => b >= session'.next
    BY BlockNumbers, <1>2, <1>6
  <2>6. session'.next \in Blocks => session'.next >= session'.next
    BY <1>2, <1>6
  <2>7. QED
    BY <1>1, <1>5, <2>1, <2>2, <2>3, <2>4, <2>5, <2>6 DEF LogKept
<1>15. QED
  BY <1>12, <1>13, <1>14

-----------------------------------------------------------------------------
LEMMA SessionLog ==
    ASSUME TypeInv, TreesInv, TreesInv', FirstLog, SessionStep
    PROVE  FirstLog'
<1>1. CASE \/ Resume \/ Connect \/ BuildFilter \/ SubscribeRestart \/ Restart
           \/ RollBackward \/ RewindWallet
  BY <1>1, StartLog
<1>2. CASE BeginBlock
  BY <1>2, BeginLog
<1>3. CASE ProcessInput \/ DeleteUtxo \/ ProcessOutput \/ IndexUtxo
  BY <1>3, InputLog, DeleteLog, OutputLog, IndexLog
<1>4. CASE TrackTokens \/ WriteEvent \/ StoreMetadata \/ SaveTips \/ BroadcastBlock
  BY <1>4, TokensLog, EventLog, MetadataLog, TipsLog, BroadcastLog
<1>5. QED
  BY <1>1, <1>2, <1>3, <1>4 DEF SessionStep

LEMMA NextLog ==
    ASSUME TypeInv, TreesInv, TypeInv', TreesInv', FirstLog, [Next]_vars
    PROVE  FirstLog'
<1>1. CASE SessionStep
  BY <1>1, SessionLog
<1>2. SUFFICES ASSUME ~SessionStep, seen'.rewound = 0 PROVE FirstLog'
  BY <1>1 DEF FirstLog
<1>3. seen.rewound = 0 /\ \A c \in Callers : ~Pending(c)
  BY <1>2, RewoundGrows, FirstFacts
<1>4. SUFFICES UNCHANGED <<db, tracked, session>> /\ SameSeen
  BY <1>3, LogFrame
<1>5. CASE UNCHANGED vars
  BY <1>5 DEF vars, SameSeen
<1>6. CASE Forge \/ Forward \/ Deliver \/ CloseStream
  BY <1>6 DEF Forge, Forward, Deliver, CloseStream, SameSeen
<1>7. ASSUME NEW c \in Callers, NEW op, NEW asked, Request(c, op, asked)
      PROVE  UNCHANGED <<db, tracked, session>> /\ SameSeen
  <2>1. UNCHANGED <<db, tracked, session>> /\ \E x : seen' = [seen EXCEPT !.rewound = x]
    BY <1>7 DEF Request
  <2>2. QED
    BY <2>1, SeenEdits, PlaceFacts
<1>8. ASSUME NEW c \in Callers, FollowTip(c) \/ Leave(c)
      PROVE  UNCHANGED <<db, tracked, session>> /\ SameSeen
  BY <1>8 DEF FollowTip, Leave, SameSeen
<1>9. ASSUME NEW c \in Callers,
             \/ AddAddress(c) \/ WalkBack(c) \/ RewindTip(c) \/ RewindWallets(c) \/ SignalRestart(c)
      PROVE  FALSE
  BY <1>3, <1>9
  DEF AddAddress, WalkBack, RewindTip, RewindWallets, SignalRestart, Doing, Pending, Rewinding
<1>10. ASSUME NEW c \in Callers, RequestStep(c)
       PROVE  UNCHANGED <<db, tracked, session>> /\ SameSeen
  BY <1>9, <1>10
  DEF RequestStep, ReadIndex, ReadOutput, ReadTip, SearchPolicy, ScanOutput, ReadEvent,
      ReadMetadata, ReadParent, FetchBlock, Reads, SameSeen
<1>11. QED
  BY <1>2, <1>5, <1>6, <1>7, <1>8, <1>10 DEF Next

\* The first log is complete and has no event twice.
LEMMA LogInvariant == Spec => []FirstLog
<1>1. Init => FirstLog
  BY LogInit
<1>2. TreesStayExact /\ TreesStayExact' /\ FirstLog /\ [Next]_vars => FirstLog'
  BY NextLog DEF TreesStayExact, IndexInv
<1>3. QED
  BY <1>1, <1>2, TreesInvariant, PTL DEF Spec

-----------------------------------------------------------------------------
(* ReadUtxoEvents, while nothing is rewound.                               *)

\* The log only grows, and not in blocks that are done.
LogGrows ==
    \A b \in Blocks :
        /\ Len(db.events[b]) <= Len(db'.events[b])
        /\ \A i \in 1 .. Len(db.events[b]) : db'.events[b][i] = db.events[b][i]
        /\ b <= seen.done => db'.events[b] = db.events[b]

LEMMA SameEvents ==
    ASSUME TypeInv, SessionStep, ~WriteEvent
    PROVE  db'.events = db.events
<1>1. DbType
  BY PlaceFacts
<1>2. \/ UNCHANGED db
      \/ \E x : \/ db' = [db EXCEPT !.utxo = x] \/ db' = [db EXCEPT !.index = x]
                \/ db' = [db EXCEPT !.policy_txs = x] \/ db' = [db EXCEPT !.known = x]
                \/ db' = [db EXCEPT !.chain_tip = x] \/ \E w : db' = [db EXCEPT !.wallet_tip[w] = x]
  <2>1. CASE \/ Resume \/ Connect \/ BuildFilter \/ SubscribeRestart \/ Restart \/ BeginBlock
             \/ BroadcastBlock
    BY <2>1 DEF Resume, Connect, BuildFilter, SubscribeRestart, Restart, BeginBlock, BroadcastBlock
  <2>2. CASE RollBackward \/ RewindWallet \/ SaveTips
    BY <2>2 DEF RollBackward, RewindWallet, SaveTips
  <2>3. CASE ProcessInput \/ DeleteUtxo \/ ProcessOutput \/ IndexUtxo
    BY <2>3 DEF ProcessInput, DeleteUtxo, ProcessOutput, IndexUtxo
  <2>4. CASE TrackTokens \/ StoreMetadata
    BY <2>4 DEF TrackTokens, StoreMetadata
  <2>5. QED
    BY <2>1, <2>2, <2>3, <2>4 DEF SessionStep
<1>3. QED
  BY <1>1, <1>2 DEF DbType, HasFields

LEMMA EventsGrow ==
    ASSUME TypeInv, TreesInv, FirstLog, [Next]_vars, seen.rewound = 0
    PROVE  LogGrows
<1>1. LogKept /\ \A c \in Callers : ~Pending(c)
  BY FirstFacts DEF FirstLog
<1>2. \A b \in Blocks : db.events[b] \in Seq(Event) /\ Len(db.events[b]) \in Nat
  BY <1>1, LenProperties DEF LogKept
<1>3. CASE WriteEvent
  <2>1. CASE db'.events = db.events
    BY <1>2, <2>1 DEF LogGrows
  <2>2. ASSUME NEW e \in EventsOf(session.next),
               db'.events = [db.events EXCEPT ![session.next] = Append(@, e)]
        PROVE  LogGrows
    <3>1. session.next \in Blocks /\ session.next = seen.done + 1 /\ seen.done \in Nat
      BY <1>3, FirstFacts, PlaceFacts DEF WriteEvent, At, InBlock
    <3>2. e \in Event
      BY <3>1, EventsOfFacts
    <3>3. ASSUME NEW b \in Blocks
          PROVE  /\ Len(db.events[b]) <= Len(db'.events[b])
                 /\ \A i \in 1 .. Len(db.events[b]) : db'.events[b][i] = db.events[b][i]
                 /\ b <= seen.done => db'.events[b] = db.events[b]
      <4>1. CASE b # session.next
        <5>1. db'.events[b] = db.events[b]
          BY <1>1, <2>2, <4>1 DEF LogKept
        <5>2. QED
          BY <1>2, <5>1
      <4>2. CASE b = session.next
        <5>1. db'.events[b] = Append(db.events[b], e)
          BY <1>1, <2>2, <4>2 DEF LogKept
        <5>2. /\ Len(Append(db.events[b], e)) = Len(db.events[b]) + 1
              /\ \A i \in 1 .. Len(db.events[b]) : Append(db.events[b], e)[i] = db.events[b][i]
          BY <1>2, <3>2, AppendProperties
        <5>3. ~(b <= seen.done) /\ Len(db.events[b]) <= Len(db.events[b]) + 1
          BY <1>2, <3>1, <4>2
        <5>4. QED
          BY <5>1, <5>2, <5>3
      <4>3. QED
        BY <4>1, <4>2
    <3>4. QED
      BY <3>3 DEF LogGrows
  <2>3. QED
    BY <1>3, <2>1, <2>2, EventWrites
<1>4. CASE ~WriteEvent
  <2>1. SessionStep => db'.events = db.events
    BY <1>4, SameEvents
  <2>2. ASSUME NEW c \in Callers, RequestStep(c) PROVE UNCHANGED db
    BY <1>1, <2>2
    DEF RequestStep, ReadIndex, ReadOutput, ReadTip, SearchPolicy, ScanOutput, ReadEvent,
        ReadMetadata, ReadParent, FetchBlock, AddAddress, WalkBack, RewindTip, RewindWallets,
        SignalRestart, Reads, Doing, Pending, Rewinding
  <2>3. db'.events = db.events
    BY <1>4, <2>1, <2>2
    DEF Next, vars, Forge, Forward, Deliver, CloseStream, Request, FollowTip, Leave
  <2>4. QED
    BY <1>2, <2>3 DEF LogGrows
<1>5. QED
  BY <1>3, <1>4

-----------------------------------------------------------------------------
\* The request q is past the i-th event of block b.
Passed(q, b, i) == b < Len(q.todo) + 1 \/ (b = Len(q.todo) + 1 /\ i < q.num)

\* What was passed has been read, and nothing else.
EventState(q) ==
    /\ q.since \in Nat /\ q.since <= seen.done
    /\ q.at \in {"event", "answered"}
    /\ q.asked.last = N
    /\ q.todo \in Seq(Nat) /\ q.num \in Nat \ {0} /\ q.got \in Seq(Event)
    /\ IsInjective(q.got)
    /\ \A e \in ToSet(q.got) : \E b \in Blocks : \E i \in 1 .. Len(db.events[b]) :
          Passed(q, b, i) /\ db.events[b][i] = e
    /\ \A b \in Blocks : \A i \in 1 .. Len(db.events[b]) :
          (b <= q.since /\ Passed(q, b, i)) => db.events[b][i] \in ToSet(q.got)
    /\ (q.at = "answered" /\ q.asked.max = 0) => Len(q.todo) >= N

ReadingEvents ==
    seen.rewound = 0 => \A c \in Callers : req[c].op = "ReadUtxoEvents" => EventState(req[c])

LEMMA EventStays ==
    ASSUME LogGrows, Grows, LogKept, db'.events \in [Blocks -> Seq(Event)], NEW q, EventState(q)
    PROVE  EventState(q)'
<1>1. q.since <= seen'.done
  BY DEF EventState, Grows
<1>2. \A b \in Blocks : Len(db.events[b]) \in Nat /\ Len(db'.events[b]) \in Nat
  BY LenProperties DEF LogKept
<1>3. \A b \in Blocks : \A i \in 1 .. Len(db.events[b]) :
          i \in 1 .. Len(db'.events[b]) /\ db'.events[b][i] = db.events[b][i]
  BY <1>2 DEF LogGrows
<1>4. \A e \in ToSet(q.got) : \E b \in Blocks : \E i \in 1 .. Len(db'.events[b]) :
          Passed(q, b, i) /\ db'.events[b][i] = e
  BY <1>3 DEF EventState
<1>5. \A b \in Blocks : \A i \in 1 .. Len(db'.events[b]) :
          (b <= q.since /\ Passed(q, b, i)) => db'.events[b][i] \in ToSet(q.got)
  <2>1. \A b \in Blocks : b <= q.since => b <= seen.done
    <3>1. q.since \in Nat /\ q.since <= seen.done /\ seen.done \in Nat
      BY DEF EventState, Grows
    <3>2. QED
      BY <3>1, BlockNumbers
  <2>2. QED
    BY <2>1 DEF EventState, LogGrows
<1>6. (\A b \in Blocks : \A i \in 1 .. Len(db.events[b]) :
          (b <= q.since /\ Passed(q, b, i)) => db.events[b][i] \in ToSet(q.got))'
  BY <1>5 DEF Blocks, Passed
<1>7. (\A e \in ToSet(q.got) : \E b \in Blocks : \E i \in 1 .. Len(db.events[b]) :
          Passed(q, b, i) /\ db.events[b][i] = e)'
  BY <1>4 DEF Blocks, Passed
<1>8. QED
  BY <1>1, <1>6, <1>7 DEF EventState, Event, Keys

LEMMA EventsBegin ==
    ASSUME TypeInv, TreesInv, LogKept, NEW c \in Callers, NEW asked \in Questions("ReadUtxoEvents"),
           Request(c, "ReadUtxoEvents", asked)
    PROVE  EventState(req'[c])
<1>1. /\ req'[c].at = "event" /\ req'[c].todo = <<>> /\ req'[c].num = 1 /\ req'[c].got = <<>>
      /\ req'[c].since = seen.done /\ req'[c].asked = asked
  BY RequestRecord DEF FirstStep
<1>2. asked.last = N
  BY DEF Questions, N
<1>3. seen.done \in Nat /\ seen.done <= seen.done
  BY DEF TreesInv, Bounded
<1>4. ASSUME NEW b \in Blocks, NEW i \in 1 .. Len(db.events[b]) PROVE ~Passed(req'[c], b, i)
  <2>1. Len(req'[c].todo) = 0
    BY <1>1
  <2>2. b \in Nat \ {0} /\ i \in Nat \ {0}
    BY BlockNumbers
  <2>3. QED
    BY <1>1, <2>1, <2>2 DEF Passed
<1>5. QED
  BY <1>1, <1>2, <1>3, <1>4, NoElements DEF EventState

\* One more event is read, one more slot finished, or the request answered.
LEMMA EventReads ==
    ASSUME TypeInv, LogKept, NEW c \in Callers, EventState(req[c]), ReadEvent(c)
    PROVE  EventState(req'[c])
<1>. DEFINE q == req[c]
            r == req'[c]
            slot == Len(q.todo) + 1
<1>1. HasFields(q, RequestFields) /\ q.at = "event"
  BY AskedFacts DEF ReadEvent
<1>2. /\ q.todo \in Seq(Nat) /\ q.num \in Nat \ {0} /\ q.got \in Seq(Event) /\ q.asked.last = N
      /\ Len(q.todo) \in Nat /\ slot \in Nat /\ N \in Nat
  BY LenProperties, BlockNumbers DEF EventState
<1>3. CASE slot > q.asked.last \/ (q.asked.max > 0 /\ Len(q.got) >= q.asked.max)
  <2>1. Reads(c, [q EXCEPT !.at = "answered"])
    BY <1>3 DEF ReadEvent
  <2>2. r = [q EXCEPT !.at = "answered"]
    BY <2>1, ReadsRequest
  <2>3. /\ r.at = "answered" /\ r.since = q.since /\ r.asked = q.asked /\ r.todo = q.todo
        /\ r.num = q.num /\ r.got = q.got
    BY <1>1, <2>2 DEF HasFields, RequestFields
  <2>4. \A b, i : Passed(r, b, i) <=> Passed(q, b, i)
    BY <2>3 DEF Passed
  <2>5. q.asked.max = 0 => Len(q.todo) >= N
    <3>1. SUFFICES ASSUME q.asked.max = 0 PROVE Len(q.todo) >= N
      OBVIOUS
    <3>2. slot > N
      BY <1>2, <1>3, <3>1
    <3>3. QED
      BY <1>2, <3>2
  <2>6. QED
    BY <2>3, <2>4, <2>5 DEF EventState
<1>4. CASE /\ ~(slot > q.asked.last \/ (q.asked.max > 0 /\ Len(q.got) >= q.asked.max))
           /\ q.num <= Len(db.events[slot])
  <2>. DEFINE log == db.events[slot]
              e == log[q.num]
  <2>1. slot \in Blocks
    BY <1>2, <1>4, BlockNumbers
  <2>2. /\ log \in Seq(Event) /\ Len(log) \in Nat /\ q.num \in 1 .. Len(log) /\ e \in Event
        /\ \A i, j \in 1 .. Len(log) : log[i] = log[j] => i = j
    <3>1. log \in Seq(Event) /\ IsInjective(log)
      BY <2>1 DEF LogKept
    <3>2. Len(log) \in Nat /\ \A i, j \in 1 .. Len(log) : log[i] = log[j] => i = j
      BY <3>1, ElementsOf
    <3>3. q.num \in 1 .. Len(log)
      BY <1>2, <1>4, <3>2
    <3>4. e \in Event
      BY <3>1, <3>3, ElementOfSeq
    <3>5. QED
      BY <3>1, <3>2, <3>3, <3>4
  <2>3. \A b \in Blocks : \A i \in 1 .. Len(db.events[b]) : db.events[b][i] \in EventsOf(b)
    <3>1. ASSUME NEW b \in Blocks, NEW i \in 1 .. Len(db.events[b])
          PROVE  db.events[b][i] \in EventsOf(b)
      <4>1. db.events[b] \in Seq(Event) /\ ToSet(db.events[b]) \subseteq EventsOf(b)
        BY DEF LogKept
      <4>2. db.events[b][i] \in ToSet(db.events[b])
        BY <4>1, ElementsOf
      <4>3. QED
        BY <4>1, <4>2
    <3>2. QED
      BY <3>1
  <2>4. Reads(c, [q EXCEPT !.num = q.num + 1, !.got = Append(q.got, e)])
    BY <1>4 DEF ReadEvent
  <2>. HIDE DEF e, log
  <2>5. r = [q EXCEPT !.num = q.num + 1, !.got = Append(q.got, e)]
    BY <2>4, ReadsRequest
  <2>6. /\ r.at = "event" /\ r.since = q.since /\ r.asked = q.asked /\ r.todo = q.todo
        /\ r.num = q.num + 1 /\ r.got = Append(q.got, e)
    BY <1>1, <2>5 DEF HasFields, RequestFields
  <2>7. ASSUME NEW b \in Blocks, NEW i \in 1 .. Len(db.events[b])
        PROVE  Passed(r, b, i) <=> Passed(q, b, i) \/ (b = slot /\ i = q.num)
    <3>1. b \in Nat /\ i \in Nat
      BY BlockNumbers
    <3>2. i < q.num + 1 <=> i < q.num \/ i = q.num
      BY <1>2, <3>1
    <3>3. ~(slot < slot)
      BY <1>2
    <3>4. QED
      BY <2>6, <3>2, <3>3 DEF Passed
  <2>8. e \notin ToSet(q.got)
    <3>1. SUFFICES ASSUME e \in ToSet(q.got) PROVE FALSE
      OBVIOUS
    <3>. PICK b \in Blocks : \E i \in 1 .. Len(db.events[b]) : Passed(q, b, i) /\ db.events[b][i] = e
      BY <3>1 DEF EventState
    <3>2. PICK i \in 1 .. Len(db.events[b]) : Passed(q, b, i) /\ db.events[b][i] = e
      OBVIOUS
    <3>3. e \in EventsOf(b) /\ e \in EventsOf(slot)
      BY <2>1, <2>2, <2>3, <3>2 DEF e, log
    <3>4. b = slot
      BY <2>1, <3>3, OneBlock
    <3>5. i < q.num /\ i \in 1 .. Len(log) /\ log[i] = log[q.num]
      BY <1>2, <3>2, <3>4 DEF Passed, log, e
    <3>6. QED
      BY <1>2, <2>2, <3>5
  <2>9. /\ r.got \in Seq(Event) /\ IsInjective(r.got) /\ ToSet(r.got) = ToSet(q.got) \cup {e}
    BY <1>2, <2>2, <2>6, <2>8, AppendElements DEF EventState
  <2>10. ASSUME NEW x \in ToSet(r.got)
         PROVE  \E b \in Blocks : \E i \in 1 .. Len(db.events[b]) :
                    Passed(r, b, i) /\ db.events[b][i] = x
    <3>1. CASE x \in ToSet(q.got)
      <4>1. \E b \in Blocks : \E i \in 1 .. Len(db.events[b]) :
                Passed(q, b, i) /\ db.events[b][i] = x
        BY <3>1 DEF EventState
      <4>2. QED
        BY <2>7, <4>1
    <3>2. CASE x = e
      <4>1. q.num \in 1 .. Len(db.events[slot]) /\ db.events[slot][q.num] = e
        BY <2>2 DEF e, log
      <4>2. QED
        BY <2>1, <2>7, <3>2, <4>1
    <3>3. QED
      BY <2>9, <3>1, <3>2
  <2>11. ASSUME NEW b \in Blocks, NEW i \in 1 .. Len(db.events[b]), b <= q.since, Passed(r, b, i)
         PROVE  db.events[b][i] \in ToSet(r.got)
    <3>1. CASE Passed(q, b, i)
      BY <2>9, <2>11, <3>1 DEF EventState
    <3>2. CASE b = slot /\ i = q.num
      BY <2>9, <3>2 DEF e, log
    <3>3. QED
      BY <2>7, <2>11, <3>1, <3>2
  <2>12. r.num \in Nat \ {0}
    BY <1>2, <2>6
  <2>13. QED
    BY <2>6, <2>9, <2>10, <2>11, <2>12 DEF EventState
<1>5. CASE /\ ~(slot > q.asked.last \/ (q.asked.max > 0 /\ Len(q.got) >= q.asked.max))
           /\ ~(q.num <= Len(db.events[slot]))
  <2>1. Reads(c, [q EXCEPT !.num = 1, !.todo = Append(q.todo, slot)])
    BY <1>5 DEF ReadEvent
  <2>2. r = [q EXCEPT !.num = 1, !.todo = Append(q.todo, slot)]
    BY <2>1, ReadsRequest
  <2>3. /\ r.at = "event" /\ r.since = q.since /\ r.asked = q.asked
        /\ r.todo = Append(q.todo, slot) /\ r.num = 1 /\ r.got = q.got
    BY <1>1, <2>2 DEF HasFields, RequestFields
  <2>4. r.todo \in Seq(Nat) /\ Len(r.todo) = slot
    BY <1>2, <2>3, AppendProperties
  <2>5. ASSUME NEW b \in Blocks, NEW i \in 1 .. Len(db.events[b])
        PROVE  Passed(r, b, i) <=> Passed(q, b, i)
    <3>1. b \in Nat /\ i \in Nat \ {0}
      BY BlockNumbers
    <3>2. Passed(r, b, i) <=> b <= slot
      BY <1>2, <2>3, <2>4, <3>1 DEF Passed
    <3>3. b = slot => i < q.num
      <4>1. SUFFICES ASSUME b = slot PROVE i < q.num
        OBVIOUS
      <4>2. db.events[b] \in Seq(Event)
        BY DEF LogKept
      <4>3. Len(db.events[b]) \in Nat
        BY <4>2, LenProperties
      <4>4. ~(q.num <= Len(db.events[b]))
        BY <1>5, <4>1
      <4>5. QED
        BY <1>2, <4>3, <4>4
    <3>4. b <= slot <=> b < slot \/ b = slot
      BY <1>2, <3>1
    <3>5. QED
      BY <3>2, <3>3, <3>4 DEF Passed
  <2>6. QED
    BY <2>3, <2>4, <2>5 DEF EventState
<1>6. QED
  BY <1>3, <1>4, <1>5

LEMMA EventSteps ==
    ASSUME TypeInv, NEW c \in Callers, EventState(req[c]), RequestStep(c)
    PROVE  ReadEvent(c)
BY DEF EventState, RequestStep, ReadIndex, ReadOutput, ReadTip, SearchPolicy, ScanOutput,
       ReadMetadata, ReadParent, FetchBlock, AddAddress, WalkBack, RewindTip, RewindWallets,
       SignalRestart, Doing

LEMMA NextEvents ==
    ASSUME TypeInv, TreesInv, FirstLog, ReadingEvents, TypeInv', TreesInv', FirstLog', [Next]_vars
    PROVE  ReadingEvents'
<1>1. SUFFICES ASSUME seen'.rewound = 0, NEW c \in Callers, req'[c].op = "ReadUtxoEvents"
               PROVE  EventState(req[c])'
  BY DEF ReadingEvents
<1>2. seen.rewound = 0
  BY <1>1, RewoundGrows
<1>3. LogKept /\ LogGrows /\ Grows /\ db'.events \in [Blocks -> Seq(Event)]
  <2>1. LogKept /\ LogKept'
    BY <1>1, <1>2 DEF FirstLog
  <2>2. db'.events \in [Blocks -> Seq(Event)]
    BY <2>1 DEF LogKept, Blocks, Event, Keys
  <2>3. QED
    BY <1>2, <2>1, <2>2, EventsGrow, SeenGrows
<1>4. \A q : EventState(q) => EventState(q)'
  BY <1>3, EventStays
<1>5. ASSUME NEW q, EventState(q), UNCHANGED db, seen'.done = seen.done
      PROVE  EventState(q)'
  BY <1>5 DEF EventState, Passed, Event
<1>6. CASE req'[c] = req[c]
  <2>1. EventState(req[c])
    BY <1>1, <1>2, <1>6 DEF ReadingEvents
  <2>2. QED
    BY <1>4, <1>6, <2>1
<1>7. CASE req'[c] = NoRequest
  BY <1>1, <1>7 DEF NoRequest
<1>8. ASSUME NEW op \in Operations \ {"FollowTip"}, NEW asked \in Questions(op),
             Request(c, op, asked)
      PROVE  EventState(req[c])'
  <2>1. op = "ReadUtxoEvents"
    BY <1>1, <1>8, RequestRecord
  <2>2. EventState(req'[c])
    BY <1>3, <1>8, <2>1, EventsBegin
  <2>3. UNCHANGED db /\ seen' = [seen EXCEPT !.rewound = @]
    BY <1>8, <2>1 DEF Request
  <2>4. seen'.done = seen.done
    BY <2>3, SeenEdits, PlaceFacts DEF SameSeen
  <2>5. QED
    BY <1>5, <2>2, <2>3, <2>4
<1>9. CASE RequestStep(c)
  <2>1. EventState(req[c]) /\ ReadEvent(c)
    BY <1>1, <1>2, <1>9, SameOperation, EventSteps DEF ReadingEvents
  <2>2. EventState(req'[c])
    BY <1>3, <2>1, EventReads
  <2>3. UNCHANGED <<db, seen>>
    BY <2>1 DEF ReadEvent, Reads
  <2>4. QED
    BY <1>5, <2>2, <2>3
<1>10. QED
  BY <1>6, <1>7, <1>8, <1>9, RequestCases

LEMMA EventsInvariant == Spec => []ReadingEvents
<1>1. Init => ReadingEvents
  BY DEF Init, ReadingEvents, NoRequest
<1>2. /\ TreesStayExact /\ TreesStayExact' /\ FirstLog /\ FirstLog' /\ ReadingEvents /\ [Next]_vars
      => ReadingEvents'
  BY NextEvents DEF TreesStayExact, IndexInv
<1>3. QED
  BY <1>1, <1>2, TreesInvariant, LogInvariant, PTL DEF Spec

(***************************************************************************)
(* ReadUtxoEvents without a limit (read_utxo_events), which reads slot     *)
(* after slot and event after event while process_block writes them, returns *)
(* every event of the blocks finished before it began, none twice, and none *)
(* that a block of the chain did not cause, as long as nothing is rewound. *)
(***************************************************************************)
THEOREM EventsAllRead == Spec => []EventsRegular
<1>1. ASSUME TypeInv, TreesInv, FirstLog, ReadingEvents PROVE EventsRegular
  <2> SUFFICES ASSUME NEW c \in Callers, Answered(c, "ReadUtxoEvents"), seen.rewound = 0,
                      req[c].asked.max = 0
               PROVE  /\ IsInjective(req[c].got)
                      /\ UNION {EventsOf(b) : b \in 1 .. req[c].since} \subseteq ToSet(req[c].got)
                      /\ ToSet(req[c].got) \subseteq UNION {EventsOf(b) : b \in 1 .. seen.begun}
    BY DEF EventsRegular
  <2>. DEFINE q == req[c]
  <2>1. /\ EventState(q) /\ q.at = "answered" /\ Len(q.todo) >= N /\ LogKept
        /\ q.todo \in Seq(Nat) /\ Len(q.todo) \in Nat /\ N \in Nat /\ q.since \in Nat
    <3>1. EventState(q) /\ q.at = "answered" /\ LogKept
      BY <1>1 DEF ReadingEvents, Answered, Doing, FirstLog
    <3>2. QED
      BY <3>1, LenProperties, BlockNumbers DEF EventState
  <2>2. /\ seen.done \in 0 .. N /\ seen.begun \in 0 .. N /\ seen.done <= seen.begun
        /\ session.next = seen.done + 1 /\ q.since <= seen.done
        /\ session.at \in InBlock => seen.begun = session.next
    BY <1>1, <2>1, FirstFacts DEF TreesInv, Bounded, EventState
  <2>3. ASSUME NEW b \in 1 .. q.since, NEW e \in EventsOf(b) PROVE e \in ToSet(q.got)
    <3>1. b \in Blocks /\ b \in 1 .. seen.done /\ b < Len(q.todo) + 1 /\ b <= q.since
      BY <2>1, <2>2, BlockNumbers
    <3>2. e \in ToSet(db.events[b]) /\ db.events[b] \in Seq(Event)
      BY <2>1, <3>1 DEF LogKept, Logged
    <3>3. PICK i \in 1 .. Len(db.events[b]) : db.events[b][i] = e
      BY <3>2, ElementsOf
    <3>4. Passed(q, b, i)
      BY <3>1 DEF Passed
    <3>5. QED
      BY <2>1, <3>1, <3>3, <3>4 DEF EventState
  <2>4. ASSUME NEW e \in ToSet(q.got) PROVE \E b \in 1 .. seen.begun : e \in EventsOf(b)
    <3>. PICK b \in Blocks : \E i \in 1 .. Len(db.events[b]) : db.events[b][i] = e
      BY <2>1 DEF EventState
    <3>1. PICK i \in 1 .. Len(db.events[b]) : db.events[b][i] = e
      OBVIOUS
    <3>2. /\ db.events[b] \in Seq(Event) /\ ToSet(db.events[b]) \subseteq EventsOf(b)
          /\ b \in 1 .. N
      BY <2>1, BlockNumbers DEF LogKept
    <3>3. e \in EventsOf(b) /\ db.events[b] # <<>>
      BY <3>1, <3>2, ElementsOf
    <3>4. ~(b > session.next)
      BY <2>1, <3>3 DEF LogKept
    <3>5. b = session.next => session.at \in InBlock
      BY <2>1, <3>3 DEF LogKept, AfterItems, InBlock
    <3>6. b \in 1 .. seen.begun
      BY <2>2, <3>2, <3>4, <3>5
    <3>7. QED
      BY <3>3, <3>6
  <2>5. IsInjective(q.got)
    BY <2>1 DEF EventState
  <2>6. UNION {EventsOf(b) : b \in 1 .. q.since} \subseteq ToSet(q.got)
    BY <2>3
  <2>7. ToSet(q.got) \subseteq UNION {EventsOf(b) : b \in 1 .. seen.begun}
    BY <2>4
  <2>8. QED
    BY <2>5, <2>6, <2>7
<1>2. TreesStayExact /\ FirstLog /\ ReadingEvents => EventsRegular
  BY <1>1 DEF TreesStayExact, IndexInv
<1>3. QED
  BY <1>2, TreesInvariant, LogInvariant, EventsInvariant, PTL

=============================================================================

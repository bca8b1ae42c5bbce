SPECIFICATION Spec
CONSTANTS
    b1 = b1  b2 = b2  b3 = b3  c2 = c2  c3 = c3  d4 = d4
    t1 = t1  t2 = t2  t3 = t3  t4 = t4  t5 = t5
    a1 = a1  a2 = a2  w1 = w1  w2 = w2
    p1 = p1  p2 = p2  n1 = n1  n2 = n2
    Origin = Origin
    AnyName = AnyName
    Blocks <- MCBlocksWithFailure
    Txs <- MCTxs
    Addresses <- MCAddresses
    Policies = {p1, p2}
    AssetNames = {n1, n2}
    ChainTo <- MCChainTo
    SlotOf <- MCSlotOf
    TxsOf <- MCTxsOf
    InputsOf <- MCInputsOf
    OutputsOf <- MCOutputsOf
    TokensOf <- MCTokensOf
    WalletIds = {w1, w2}
    WalletSets <- ChangingWallets
    OwnerOf <- MCOwnerOf
    TrackedAddresses = {}
    TrackedTokens <- MCTrackedTokens
    Undecodable <- MCUndecodable
    EpochLength = 3
    BufferSize = 2
    EventLimit = 4
    KeepLatest = 2
    MaxMsgs = 5
    MaxStops = 2
INVARIANTS
    MirrorsChain
    EventsMirrorChain
    BalancesExact
    HistoryComplete
    TypeOK
    IndexCoherent
    EventsContiguous
    BufferSound
    TipBacked
PROPERTIES
    Settles

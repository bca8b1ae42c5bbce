SPECIFICATION Spec
CONSTANTS
    b1 = b1
    b2 = b2
    b3 = b3
    c2 = c2
    c3 = c3
    c4 = c4
    d4 = d4
    e2 = e2
    e3 = e3
    t1 = t1
    t2 = t2
    t3 = t3
    t4 = t4
    t5 = t5
    t6 = t6
    a1 = a1
    a2 = a2
    a3 = a3
    s1 = s1
    s2 = s2
    Origin = Origin
    NoStake = NoStake
    Blocks <- MCLine
    Txs <- MCTxs
    Addresses <- MCAddresses
    Policies = {}
    AssetNames = {}
    ChainTo <- MCChainTo
    SlotOf <- MCSlotOf
    TxsOf <- MCTxsOf
    InputsOf <- MCInputsOf
    OutputsOf <- MCOutputsOf
    TokensOf <- MCTokensOf
    Credentials = {s1, s2}
    StakeOf <- MCStakeOf
    HasVrf <- MCVrfLine
    Unparsable = {}
    BadOutputs = {}
    EpochLength = 2
    MaxSwitches = 4
    MaxRestarts = 0
PROPERTIES
    FollowsTheNode
CHECK_DEADLOCK FALSE

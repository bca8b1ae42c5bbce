SPECIFICATION Spec
CONSTANTS
    u1 = u1
    u2 = u2
    u3 = u3
    u4 = u4
    x = x
    Utxos = {u1, u2, u3, u4}
    CoinOf <- MCCoinOf
    Tokens = {x}
    TokensOf <- MCTokensOf
    Listings <- MCListings
    Payments <- MCPayments
    Mints <- MCMints
    ScriptUtxos = {u4}
    FixedFees = {200000}
    Limits = {1, 20}
    IndexOf <- MCIndexOf
    MinFeeA = 44
    MinFeeB = 155381
    MinUtxo = 258600
    TokenBase = 1500000
    PerToken = 150000
    Ada = 1000000
    MaxOutputs = 2
    MaxMints = 1
    MaxCalls = 2
INVARIANTS
    TypeOK
    FeeConverges
    LovelaceConserved
    TokensConserved
    SignedCorrectly
PROPERTIES
    PaidOnce

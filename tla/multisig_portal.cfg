SPECIFICATION Spec
CONSTANTS
    Wallets = {w}
    w = w
    Phrases = {1}
    Others = {2}
    Arguments <- MCArguments
    Spends <- MCSpends
    Word = 16
    MinUtxo = 2
    Idle = Idle
    Absent = Absent
    Torn = Torn
    NoFile = NoFile
    MaxCommands = 2
    MaxFailures = 1
    MaxBots = 2
    MaxPolicies = 2
    MaxBuilt = 2
    MaxPortal = 2
INVARIANTS
    TypeOK
    ListedLoads
    CredentialsWork
    SignersSuffice
PROPERTIES
    PhrasesKept
CHECK_DEADLOCK FALSE

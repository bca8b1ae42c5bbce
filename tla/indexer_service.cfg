SPECIFICATION Spec
CONSTANTS
    c1 = c1
    c2 = c2
    home = home
    other = other
    Callers = {c1, c2}
    Asks <- MCAsks
    WalletCount = 1
    Body <- MCBody
    AddressOf <- MCAddressOf
    Holders <- MCHolders
    WalletAddresses = {home}
    NewAddresses = {other}
    Depths = {2}
    EpochLength = 2
    ScanLimit = 2
    Capacity = 1
    Room = 1
INVARIANTS
    TypeOK
    ReadUtxosRegular
    SearchRegular
    EventsRegular
    TipsKnown
    ExactAtTip
PROPERTIES
    StreamNeverSkips
    EverythingSettles
CHECK_DEADLOCK FALSE

SPECIFICATION Spec
CONSTANTS
    Address <- MCAddress
    Sig <- MCSig
    NoSig = NoSig
    Txid <- MCTxid
    Hash <- MCHash
    Body <- MCBody
    GenesisBody <- MCGenesis
    ForkHeight = 3
    Allocation <- MCAllocation
    Anchor = 2
    MaxHeight = 4
    Span = 2
    Maturity = 2
INVARIANT CleanBlockBoundary

CONSTANTS
    Addresses <- Traders
    Blocks <- SettlementBlocks
    MaxHeight = 2
    Senders = {t1}
    Faults = {"lost", "crash"}
    MaxFault = 1
SPECIFICATION FairSpec
INVARIANTS
    PoolIsNormal
    Conserved
    SellerGetsPrice
    
    
PROPERTIES
    Settles
CHECK_DEADLOCK FALSE

SPECIFICATION FairSpec
CONSTANTS
    w1 = w1
    w2 = w2
    Workers = {w1, w2}
    kMagic = 50
    kVersion = 1
    kMaxPayloadBytes = 2
    crc32 <- Checksum
    Kinds = {3, 9}
    Payloads <- TwoPayloads
    Cells = {0, 1, 3, 15}
    Backlog = 2
    MaxDamages = 1
INVARIANTS
    TypeOK
    
    ReplyIsOwn
    
    

    

SPECIFICATION InputSpec
CONSTANTS
    c1 = c1
    c2 = c2
    d1 = d1
    Chunk <- MCChunk
    Document <- MCDocument
    document_of <- MCDocumentOf
    Scale = 420
    LineLength = 200
    ChunkSize = 512
    MaxLines = 6
    TextLength = 5
    MaxReply = 3
    Numbers <- MCNumbers
    Thresholds <- MCThresholds
    MaxHits = 3
    Smoothings = {0, 1}
    Weights = {0, 3, 7}
INVARIANTS
    EveryLine
    Breadcrumbs
    ChunkOrder
    ScanFinds
    
    Screening
    
    FusionKeepsRanks

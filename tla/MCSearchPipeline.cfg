SPECIFICATION Spec
CONSTANTS
    c1 = c1
    c2 = c2
    c3 = c3
    d1 = d1
    d2 = d2
    s1 = s1
    s2 = s2
    Chunk <- MCChunk
    Document <- MCDocument
    document_of <- MCDocumentOf
    Scale = 12
    Searches = {s1, s2}
    Requests <- MCRequests
    asked <- MCAsked
    VectorLists <- MCVectorLists
    KeywordLists <- MCKeywordLists
    RerankScores = {1, 5}
    FaithScores = {0, 1, 2}
    Personal <- MCPersonal
INVARIANTS
    TypeOK
    MaskedUnlessGated
    GateHoldsBack
    WithinLimits
    UnfaithfulIsHandled

    
CHECK_DEADLOCK FALSE

CONSTANTS
    Names <- NameOrder
    DocKeys <- ThreeKeys
    Bodies <- TheBodies
    Patches <- ThePatches
    Related <- TheRelated
    Clauses <- TheClauses
    SortClauses <- TheSortClauses
    JoinClauses <- TheJoinClauses
    Pages <- ThePages
    Sorts <- TheSorts
    FieldLists <- TheFieldLists
    ThisCol = "c"
    ScopeLists <- TheScopeLists
    MaxSeq = 3
    MaxVersion = 2
SPECIFICATION Spec
INVARIANTS
    DecodedIsWritten
    FastPathAgrees
    PageIsSlice
    SortedPageExact
    JoinedWhereExact
    DeleteMatchesGet
    ShapedRight
    
CHECK_DEADLOCK FALSE

\* One word, two calls of getDocuments, three writes, one fault.
SPECIFICATION FairSpec
CONSTANTS
    Docs = {w1}
    MaxReads = 2
    MaxWrites = 3
    MaxFaults = 1
INVARIANTS TypeOK AnswersAreViews RemovedTargetIsForgotten WaitsForSync StreamWhileListened
PROPERTIES LateCurrentIsIgnored ReadsEnd ImplementsDocumentStore
CHECK_DEADLOCK FALSE

\* Two words, a pipeline of two, two faults.
SPECIFICATION FairSpec
CONSTANTS
    Docs = {w1, w2}
    MaxPendingWrites = 2
    MaxBatchId = 4
    MaxFaults = 2
INVARIANTS TypeOK PipelineHeadsQueue AnswersMatchPipeline StreamWhileNeeded ServerAgrees
PROPERTIES OutcomesAreTrue WritesSettle ImplementsDocumentStore
CHECK_DEADLOCK FALSE

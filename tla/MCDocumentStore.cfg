\* Two words, two overlapping fetches.
SPECIFICATION Spec
CONSTANTS
    Docs = {w1, w2}
    MaxReads = 2
INVARIANTS TypeOK ReadsMayBeCurrent
PROPERTIES AcknowledgementsAreInvisible SavedWritesSurvive

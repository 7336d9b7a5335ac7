\* The loader under fair scheduling.
SPECIFICATION FairSpec
CONSTANTS
    Words = {w1}
    NoWord = NoWord
    Views = {v1, v2}
    NoView = NoView
    DeleteIds = {d1}
    MaxReads = 2
    MaxFaults = 1
PROPERTY LoaderGoesAway
CHECK_DEADLOCK FALSE

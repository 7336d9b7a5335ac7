\* One word, two deletions of it at once, two failures.
SPECIFICATION Spec
CONSTANTS
    Words = {w1}
    NoWord = NoWord
    Views = {v1, v2}
    NoView = NoView
    DeleteIds = {d1, d2}
    MaxReads = 3
    MaxFaults = 2
SYMMETRY Identities
INVARIANTS ImageBacked FreshWhenIdle
PROPERTIES NoResurrection SavedWordStays
CHECK_DEADLOCK FALSE

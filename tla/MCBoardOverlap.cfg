\* Two words at once and nothing fails.
SPECIFICATION Spec
CONSTANTS
    Words = {w1, w2}
    NoWord = NoWord
    Views = {v1, v2}
    NoView = NoView
    DeleteIds = {d1}
    MaxReads = 2
    MaxFaults = 0
SYMMETRY Identities
INVARIANTS TypeOK ImageBacked FreshWhenIdle LoaderQuiesces
CHECK_DEADLOCK FALSE

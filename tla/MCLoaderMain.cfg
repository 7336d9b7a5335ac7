\* Every showLoader call on the main thread.
SPECIFICATION Spec
CONSTANTS
    Views = {v1, v2, v3, v4}
    NoView = NoView
    OffMain = FALSE
    MaxAnims = 3
INVARIANT OneFadeAtATime
PROPERTY DismissalTakesEffect

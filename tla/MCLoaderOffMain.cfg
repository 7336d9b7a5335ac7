\* showLoader(false) also from the URLSession queue.
SPECIFICATION Spec
CONSTANTS
    Views = {v1, v2}
    NoView = NoView
    OffMain = TRUE
    MaxAnims = 3
INVARIANTS TypeOK NotWedged
PROPERTY FadesEnd

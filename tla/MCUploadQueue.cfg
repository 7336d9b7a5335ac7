\* Where the upload is begun.
SPECIFICATION Spec
CONSTANT Requests = {w1}
INVARIANT UploadsStartOnMain
CHECK_DEADLOCK FALSE

\* A QR flow, one that enables its button again, and a second QR flow.
CONSTANTS
    Flows = {f1, f2, f3}
    NoFlow = no_flow
SPECIFICATION Spec
PROPERTIES CancelCloses
CHECK_DEADLOCK FALSE

\* Three clicks: a QR flow, one that overlaps with it, and one more.
CONSTANTS
    Flows = {f1, f2, f3}
    NoFlow = no_flow
SPECIFICATION Spec
INVARIANTS TypeOK ButtonsComeBack CancelHasATarget SignersDisposed OneAtATime
\* A visit ends when the page is left or paused, or its clicks are used up.
CHECK_DEADLOCK FALSE

\* Any two clicks, and an identity of another device.
CONSTANTS
    Flows = {f1, f2}
    Others = {o1}
    None = none
SPECIFICATION Spec
SYMMETRY Symmetry
INVARIANTS TypeOK FlowsCleanUp CancelHasATarget OverlapOnlyByRestore
PROPERTIES OwnChangeShown LinksAsAsked
\* A visit ends when its clicks are used up and every flow is done.
CHECK_DEADLOCK FALSE

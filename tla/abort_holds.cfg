SPECIFICATION Spec
CONSTANT TestStates <- NoState
PROPERTY
    AbortHolds

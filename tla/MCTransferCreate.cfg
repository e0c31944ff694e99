SPECIFICATION Spec
CONSTANTS
    Members = 3
    Capacity = 1
    MaxFaults = 1
INVARIANT UncertainCreateHandled

CONSTANTS
    Presses = {1, 2}
    Units = {1, 2}
    Tokens = {1, 2}
    MaxCrashes = 1
    MaxFaults = 1
SPECIFICATION Spec
INVARIANTS
    RetriesAreSafe
    ButtonsAreTrue
PROPERTIES
    ClaimsEnd
CHECK_DEADLOCK FALSE

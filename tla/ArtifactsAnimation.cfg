SPECIFICATION Spec
CONSTANTS
    None = None
    Durations = {60, 200}
    Starts = {None, 20, 80}
    Ends = {None, 50, 300}
    Edges = {480, 720}
INVARIANTS
    AnimationsPass
CHECK_DEADLOCK FALSE

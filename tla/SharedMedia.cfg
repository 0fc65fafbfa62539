CONSTANTS
    c1 = c1
    c2 = c2
    c3 = c3
    None = None
    Callers = {c1, c2}
    Flights = {c1, c2}
    Platforms = {"youtube", "tiktok", "other"}
    MaxRoutes = 1
SPECIFICATION Spec
INVARIANTS
    MediaIsShared
PROPERTIES
    OpensEnd
    SharesOneFlight
CHECK_DEADLOCK FALSE

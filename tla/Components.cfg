SPECIFICATION Spec
CONSTANTS
    NoFlight = NoFlight
    Unheld = Unheld
INVARIANTS
    WaitersAreServed
    TransportIsSafe
    RoutesAreSafe
    FileIdsAreSafe
    ButtonsAreSafe
    StoriesAreSafe
    ServiceIsSafe
PROPERTIES
    EveryWaitEnds
CHECK_DEADLOCK FALSE

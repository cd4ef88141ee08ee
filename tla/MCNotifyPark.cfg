\* A browser and a call; more notices than the park holds.
CONSTANTS
    Notice = {n1, n2, n3}
    Client = {browser, call}
    CallClient = {call}
    ParkMax = 1
    LazyRender = TRUE
    None = None
SPECIFICATION ParkSpec
SYMMETRY Symmetry
INVARIANTS
    ParkIsExact
PROPERTIES
    ParkKeepsWhatIsOwed
CHECK_DEADLOCK FALSE

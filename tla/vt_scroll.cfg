SPECIFICATION Spec
VIEW MCView
CONSTANTS
    Line = {b, x}
    Blank = b
    Garbled = Garbled
    max_row = 2
    savelines = 2
    Count = {1, 3}
    Region <- MCRegion
INVARIANTS
    WindowTrue
PROPERTIES
    SavedStaysReachable
    RegionOnly

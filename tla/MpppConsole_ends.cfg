SPECIFICATION FairSpec
CONSTANT Options <- MCOptions
INVARIANTS
    EndToldOnce
    ExitLeavesNoPppd
PROPERTY QuitEnds

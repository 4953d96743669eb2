CONSTANTS
    m1 = m1
    m2 = m2
    a = a
    b = b
    Module = {m1, m2}
    Target = {a, b}
    Edges <- MCEdges
    Epochs = {"win8", "win10"}
    Null = null
SPECIFICATION FairSpec
INVARIANTS RingsAreWhole DependenciesGiven CountsAreRight ReferencesReturned OwnListsPass
PROPERTIES DestroyEnds
CHECK_DEADLOCK FALSE

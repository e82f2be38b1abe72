\* Two StatefulSets, a VolumeResize for each, two terminals; the migrator of one of them may hang.
SPECIFICATION FairSpec
CONSTANTS
    Names = {vr1, vr2}
    vr1 = vr1
    vr2 = vr2
    Sets = {"x", "y"}
    Sizes = {2}
    Lag = 1
    Terminals = {1, 2}
    Wishes <- MCOwnSet
    Commands <- MCUserOfOne
    Habits = {}
    MaxReuse = 1
    MaxReplicas = 1
    InitReplicas = 1
    InitSize = 4
    Need <- MCNeed
    MaxEdits = 0
    Hanging = {vr2}
CHECK_DEADLOCK FALSE

    
    
PROPERTIES
    ZeroExitMeansMoved
    EveryRequestEnds
    WatchersEnd

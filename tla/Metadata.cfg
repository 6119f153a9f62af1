CONSTANTS
    Caller = {"c"}
    Id = {"lan", "a", "b"}
    Recipes <- MCRecipes
    Times = {1}
    SnapshotKeep = 2
    MaxEvents = 2
    MaxClock = 4
    MaxFaults = 1
SPECIFICATION Spec
INVARIANTS
    RepliesIncrease
    NewestEventsKept
    SnapshotsDistinct
    OverlayHonoured


SPECIFICATION FairSpec
CONSTANTS
    Controller = {c1}
    Pid = {p1, p2}
    Commands = {"boot", "shutdown", "pause", "stop", "edit"}
    HasInitrd = TRUE
    NoController = NoController
    NoPid = NoPid
    NoFile = NoFile
    LegacyFile = LegacyFile
    MaxTicks = 2
    MaxBoots = 1
    MaxDisks = 2
    MaxRecipe = 3
    MaxClock = 1
INVARIANT TrackedIsVm
PROPERTY LockReleased

SPECIFICATION Spec
CONSTANTS
    Controller = {c1, c2}
    Pid = {p1, p2}
    Commands <- AllCommands
    HasInitrd = TRUE
    NoController = NoController
    NoPid = NoPid
    NoFile = NoFile
    LegacyFile = LegacyFile
    MaxTicks = 3
    MaxBoots = 1
    MaxDisks = 2
    MaxRecipe = 3
    MaxClock = 1
PROPERTY RunningNotEdited

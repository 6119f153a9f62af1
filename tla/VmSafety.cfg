SPECIFICATION Spec
CONSTANTS
    Controller = {c1, c2}
    Pid = {p1, p2}
    Commands <- CheckedCommands
    HasInitrd = TRUE
    NoController = NoController
    NoPid = NoPid
    NoFile = NoFile
    LegacyFile = LegacyFile
    MaxTicks = 3
    MaxBoots = 0
    MaxDisks = 2
    MaxRecipe = 3
    MaxClock = 2
SYMMETRY Symmetry
INVARIANTS NoVmForgotten OneVm StoppedIsTrue BootDelivers
PROPERTIES ImplementsProjectVm RecordedInOrder QuitsOnlyWhenSynced

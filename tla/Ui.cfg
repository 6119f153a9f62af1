SPECIFICATION FairSpec
CONSTANTS
    Project = {p, q}
    NoProject = NoProject
    Worker = {w1, w2}
    MaxTurns = 2
    MaxVersion = 2
INVARIANTS OneOperation ProjectPinned ShownIsActive EffectShown
PROPERTIES NeverBackwards OperationEnds EventuallyShown

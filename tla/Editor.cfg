SPECIFICATION Spec
CONSTANTS
    free = free
    private = private
    Zones = {free, private}
    p1 = p1
    Params = {p1, p2}
    Nowhere = Nowhere
    None = None
    Projects = {k1, k2}
    First = k1
    Initial <- MCInitial
    Typed <- MCTyped
    WizardChoices <- MCWizard
    MaxPages = 4
    UndoLimit = 3
    MaxSteps = 3
    MaxSaving = 2
INVARIANTS
    TypeOK
    ReferencesIntact
    UndoTakesBack
    UnmodifiedIsStored
CHECK_DEADLOCK FALSE

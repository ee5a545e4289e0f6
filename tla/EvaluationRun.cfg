SPECIFICATION FairSpec
CONSTANTS
    Runs = {"one", "two", "other"}
    Inputs = {"old", "new"}
    InputsOf <- SameAndOther
    Tasks <- TwoTasks
    None = None
    MaxCrashes = 1
    MaxPowerLosses = 1
INVARIANT DoneIsComplete
INVARIANT NeverConflicts
INVARIANT OneRunPerTrace
PROPERTY StartedRunEnds

SPECIFICATION Spec
CONSTANTS
    Runs = {"one", "two", "other"}
    Inputs = {"old", "new"}
    InputsOf <- SameAndOther
    Tasks <- TwoTasks
    None = None
    MaxCrashes = 0
    MaxPowerLosses = 0
INVARIANT SafeToResume

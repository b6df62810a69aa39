SPECIFICATION Spec
CONSTANTS
    Creator = {c1}
    NoOne = NoOne
    MaxKey = 3
    MaxCrash = 2
INVARIANTS TypeOK KeyIsWhole FailureRestoresKey NoScratchLeft ResetRunsAlone
PROPERTIES ResetReturns

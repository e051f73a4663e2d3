CONSTANTS
    Probes <- MCProbes
    Questions <- MCQuestions
    Needed <- MCNeeded
    Inputs <- MCMisplaced
SPECIFICATION MCSpec
INVARIANTS
    DisksCoverTouched

SPECIFICATION Spec
CONSTANTS
    Good = {g1, g2}
    Bad = {Torn}
    Torn = Torn
    NoFile = NoFile
    MaxUploads = 1
    MaxFaults = 1
    Masters = {g1, Torn}
    Safe = g2
    MaxCrashes = 2
    SafeThreshold = 1
    MaxFailures = 2
    MaxStarts = 2
INVARIANTS
    CountSurvives
CHECK_DEADLOCK FALSE

SPECIFICATION Spec
CONSTANTS
    Version = {1, 2}
    Semver <- MCSemver
    Hashed = {1, 2}
    Worker = {w1, w2}
    Overlap = FALSE
    Patient = TRUE
    Gens <- MCGens
    MaxEvents = 1
INVARIANTS
    InstalledWasVerified
    
    
    LoadedIsInstalled
PROPERTY ApiComesBack
CHECK_DEADLOCK FALSE

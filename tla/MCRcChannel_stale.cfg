SPECIFICATION MCSpec
CONSTANTS
    Widths = {1700}
    RC_FAILSAFE_MS = 1
    AgeMax = 5
    GearModes = {TRUE}
PROPERTY StaleStaysStale

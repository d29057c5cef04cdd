SPECIFICATION WizardSpec
CONSTANTS
    Scenes <- MCScenes
INVARIANTS
    OffMeansOff
CHECK_DEADLOCK FALSE

SPECIFICATION MCSpec
CONSTANTS
    MaxReleases = 2
    MaxInstalls = 2
    MaxSkillFaults = 2
    MaxEdits = 1
    MaxRequests = 2
    MaxTogether = 2
    MaxMishaps = 2
    MaxHosts = 2
    MaxProfiles = 2
    MaxApplications = 2
    MaxModelMishaps = 1
    MaxValidations = 2
    MaxPages = 1
    MaxModelHands = 1
    MaxProbeFaults = 1
    MaxSaves = 2
    MaxEnvEdits = 1
    MaxEnvFaults = 1
    Buffer = 2
    MaxWire = 1
    MaxNoise = 2
    MaxBreaks = 1
    MaxOperations = 2
    MaxSelections = 2
    MaxStoreFaults = 1
    MaxDeviations = 3
CHECK_DEADLOCK FALSE
INVARIANTS
    SkillsAgree
    McpAgrees
    ModelsAgree
    ValidationTrue
    EnvTrue
    EventsTrue
    SkillStoreTrue
    PlansTrue

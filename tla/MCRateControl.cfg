CONSTANTS
    BurstDuration = 2
    BurstPeriod = 3
    Burst = 2
    Limits = {1, 3}
    MaxTime = 5
    Substates = 2
    UpSamples = 2
    DownSamples = 3
    Steps <- MCSteps
SPECIFICATION Spec
INVARIANTS
    BurstBounded
    DelaySuffices
    FitsSteadyLoad
PROPERTIES
    RelaxesSlowly

SPECIFICATION ThresholdSpec
CONSTANTS
    BatchSize = 25
    ProbeRun = 20
    Limits = {1, 2, 7, 24, 25, 30}
    MaxTransients = 3
INVARIANTS SizeOK ProbesOnlyAfterCleanRun
PROPERTIES EveryFailureLearns KeepsBestSize

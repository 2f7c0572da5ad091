SPECIFICATION Spec
CONSTANTS
    Wrappers = {"ppp"}
    Connects = {"connect"}
    Runners = {"runner"}
    Stops = {"disconnect"}
    Kills = {"kill"}
    None = None
    App = "app"
    MaxRuns = 2
    MaxTaps = 2
INVARIANTS NothingOlderSurvives PressureIsBounded
PROPERTIES NeverBlank ShownIsReal
CHECK_DEADLOCK FALSE

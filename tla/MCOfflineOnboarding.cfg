SPECIFICATION OnboardingFairSpec
CONSTANTS
    Runners = {"connectivity", "awake", "hotspot", "kiosk_v2", "key_tool"}
    Devices <- Two
    Keys = {"k1", "k2"}
    MaxApplies = 2
    MaxForeign = 1
INVARIANTS OkIsWhole NoneLeftRunning InventoryMeansWhole ResultsAreHonest
PROPERTIES DeletesOnlyItsOwn CommandsEnd
CHECK_DEADLOCK FALSE

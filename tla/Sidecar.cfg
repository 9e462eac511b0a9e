CONSTANTS
    Adapter = {a, b}
    NoAdapter = NoAdapter
    MaxChanges = 2
    MaxFaults = 1
SPECIFICATION SidecarFairSpec
PROPERTIES TouchesOnlyListed Converges

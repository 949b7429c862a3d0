SPECIFICATION FairSpec
CONSTANTS
    Patience = 3
    MaxInflight = 2
    Clicks = {"all", "build", "upload", "run", "refresh", "auto", "kernel", "edit"}
INVARIANTS TypeOK OneChain ChainInOrder
PROPERTIES AllReleased RefreshStops

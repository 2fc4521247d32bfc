SPECIFICATION Spec
CONSTANTS
    MaxCtx = 9
    Window = 6
    FeatCap = 5
    RingCap = 4
    Slots = {0}
    Kinds = {"qwen35", "gemma4", "laguna", "qwen3"}
    Tokens = {1, 2, 3}
    Eos = 3
    Predict <- MCPredict
    QLen = 3
    Chunk = 2
    Faults = {"step", "draft", "load", "alloc"}
    NoSlot <- MCNoSlot
    Requests <- MCRequests
    Vias = {"bare", "restore", "legacy", "http", "http_restore"}
    Lifecycle = {"park", "unpark", "free_drafter", "compress", "snapshot", "free_snapshot", "snapshot_thin"}
    MaxCommands = 3
INVARIANTS AnswerIsRight StateInv SnapshotsKeepTheirPrefix EndMarkers
PROPERTIES ParkingKept CommandsEnd

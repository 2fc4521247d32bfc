SPECIFICATION Spec
CONSTANTS
    MaxCtx = 11
    Window = 11
    FeatCap = 1
    RingCap = 5
    Slots = {0}
    Tokens = {1, 2, 3}
    Eos = 3
    Predict <- MCPredict
    QLen = 3
    Faults = {"dir", "fork", "file", "load", "draft", "step", "crash"}
    NCapture = 2
    Requests <- MCRequests
    Ubatch = 2
    DraftCtx = 4
    MaxRequests = 2
    MaxLayers = 5
INVARIANTS AnswerIsRight ProtocolInv NothingLeft DraftSeesContext LayersCovered
PROPERTIES EverythingEnds

SPECIFICATION Spec
CONSTANTS
    Names = {"f"}
    Tools = {}
    Formats = {"OPENAI_CHAT", "ANTHROPIC", "RESPONSES"}
    StopLists <- MCStops
    Vocab <- MCVocab
    BASE_HOLDBACK = 2
    MaxTokens = 4
INVARIANTS SplitIsRight StreamInv BlocksAreNested
CHECK_DEADLOCK FALSE

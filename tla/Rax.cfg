SPECIFICATION Spec
CONSTANTS
    InlineSlots = 2
    NodeMax = 3
    Keys <- MCKeys
    Probes <- MCProbes
    Values = {"null", "v"}
    OomSites = {"materialize", "data", "split", "grow_existing", "grow_fresh", "grow_twice",
                "spill", "spill_moved", "recompress"}
    MaxLost = 1
INVARIANTS TreeInv IteratorInv
PROPERTIES IsOrderedMap

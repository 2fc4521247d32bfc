CONSTANTS
  CallIds = {a, b, c}
  NoId = noid
  Texts <- MCTexts
  NoText = notext
  Size <- MCSize
  MaxEntries = 2
  MaxBytes = 5
  MaxCalls = 2
SPECIFICATION Spec
INVARIANTS ListInv LimitsHold ReplayExact
PROPERTIES NewTurnPrunedLast CallsReturn

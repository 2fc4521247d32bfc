SPECIFICATION Spec
CONSTANTS
  Garbage = "garbage"
  Turns <- MCTurns
  Prompts <- MCPrompts
  Replies <- MCReplies
  Layouts = {"m1"}
  Budget = 4
  MinTokens = 2
  Interval = 3
  ColdMax = 2
  Failures = TRUE
  Crashes = 0
INVARIANT RestoreSound
INVARIANT StagingFree
PROPERTY BudgetAfterSave

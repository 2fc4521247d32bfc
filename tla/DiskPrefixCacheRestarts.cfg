SPECIFICATION Spec
CONSTANTS
  Garbage = "garbage"
  Turns <- MCTurns
  Prompts <- MCTwoPrompts
  Replies <- MCReplies
  Layouts = {"m1", "m2"}
  Budget = 3
  MinTokens = 2
  Interval = 0
  ColdMax = 2
  Failures = FALSE
  Crashes = 1
INVARIANTS IndexInv LayoutTrue

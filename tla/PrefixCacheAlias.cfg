CONSTANTS
  Turns <- MCTurns
  Prompts <- MCPrompts
  Cap = 2
  Backend = "qwen35"
SPECIFICATION Spec
INVARIANTS NeverWrongRestore

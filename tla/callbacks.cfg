CONSTANTS
  MaxTokens = 4
  Npos = 7
  MaxChanges = 1
  LateRemoval = FALSE
SPECIFICATION Spec
INVARIANTS ChangesNeverLost HaveCallbacksExact
PROPERTIES NoCallAfterError ImplementsRounds

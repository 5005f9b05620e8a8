SPECIFICATION Spec

CONSTANTS
  Calls <- MCCalls
  Letters = {"a", "b"}
  Digits = {"1"}
  MaxName = 2
  MaxDescription = 3
  MaxDisplayName = 3
  MaxArguments = 3
  MaxArgumentText = 2
  MaxTags = 2
  MaxTag = 3
  MaxSkillDocumentBytes = 40

INVARIANTS
  ParsedIsUsable
  LosesNothingSilently
  KeepsTheFirst
  ReadsBack
  IsCanonical
  RendersInOnePass

\* A call ends.
CHECK_DEADLOCK FALSE

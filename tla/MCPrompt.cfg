\* Prompts, lists and renderings of two skills, that two definitions stand for.
CONSTANTS
  k1 = k1
  k2 = k2
  Keys = {k1, k2}
  d1 = d1
  d2 = d2
  Defs = {d1, d2}
  Canonical <- MCCanonical
  AllowLists <- MCAllowLists
  InsertLists <- MCInsertLists
  Blank = Blank
  Unknown = Unknown
  None = None
SPECIFICATION Spec
INVARIANT TypeOK
INVARIANT NoneTwice
INVARIANT SteadyShownRight
INVARIANT KeepsToFilter

\* Four definitions over four keys, one caller: registration and naming.
CONSTANTS
  c1 = c1
  c2 = c2
  c3 = c3
  ch1 = ch1
  ch2 = ch2
  ch3 = ch3
  Callers = {c1}
  Chans = {ch1}
  Defs <- AllDefs
  Keys <- AllKeys
  NameParts <- Parts
  ShortHash <- AllHash
  Inserts = {"instructions"}
  MaxAttempts = 2
  None = None
SPECIFICATION Spec
INVARIANTS IndexesAgree HandlesResolve

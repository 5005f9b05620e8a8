\* Two callers, one key: every call of EnsureBody returns.
CONSTANTS
  c1 = c1
  c2 = c2
  c3 = c3
  ch1 = ch1
  ch2 = ch2
  ch3 = ch3
  Callers = {c1, c2}
  Chans = {ch1, ch2}
  Defs <- OneDef
  Keys <- OneKey
  NameParts <- Parts
  ShortHash <- OneHash
  Inserts = {"instructions"}
  MaxAttempts = 2
  None = None
SPECIFICATION FairSpec
PROPERTY EnsureBodyReturns

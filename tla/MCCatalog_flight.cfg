\* Three callers after one key: loads, waits, cancellations and removals.
CONSTANTS
  c1 = c1
  c2 = c2
  c3 = c3
  ch1 = ch1
  ch2 = ch2
  ch3 = ch3
  Callers = {c1, c2, c3}
  Chans = {ch1, ch2, ch3}
  Defs <- OneDef
  Keys <- OneKey
  NameParts <- Parts
  ShortHash <- OneHash
  Inserts = {"instructions"}
  MaxAttempts = 3
  None = None
SPECIFICATION Spec
SYMMETRY Symmetry
INVARIANTS TypeOK NoPanic NoLostWakeup SingleFlight OwnContextOnly QuietCallSucceeds
PROPERTY PublishOnlyCurrent

\* Two loads and an unload, at the limit: conflicts and retries.
CONSTANTS
  k1 = k1
  k2 = k2
  k3 = k3
  l1 = l1
  l2 = l2
  u1 = u1
  q1 = q1
  h1 = h1
  h2 = h2
  Keys = {k1, k2, k3}
  Loaders = {l1, l2}
  Unloaders = {u1}
  Listers = {}
  Hosts = {}
  MaxActive = 2
  MaxTries = 2
  Inserts = {"instructions"}
  MaxRequest = 1
  None = None
SPECIFICATION Spec
SYMMETRY LoaderSymmetry
INVARIANTS WithinLimit ListAndSetAgree
PROPERTY ImplementsActiveList
\* A closed session takes no more calls.
CHECK_DEADLOCK FALSE

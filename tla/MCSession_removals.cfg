\* A load and a listing against two hosts that remove and register skills.
CONSTANTS
  k1 = k1
  k2 = k2
  k3 = k3
  l1 = l1
  l2 = l2
  u1 = u1
  q1 = q1
  h1 = h1
  h2 = h2
  Keys = {k1, k2}
  Loaders = {l1}
  Unloaders = {}
  Listers = {q1}
  Hosts = {h1, h2}
  MaxActive = 0
  MaxTries = 2
  Inserts = {"instructions"}
  MaxRequest = 2
  None = None
SPECIFICATION Spec
SYMMETRY HostSymmetry
INVARIANTS TypeOK NoDanglingActive
PROPERTY ImplementsActiveList

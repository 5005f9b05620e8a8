\* A skill registered again as a user-message one while it is being loaded.
CONSTANTS
  k1 = k1
  k2 = k2
  k3 = k3
  l1 = l1
  l2 = l2
  u1 = u1
  q1 = q1
  h1 = h1
  h2 = h2
  Keys = {k1}
  Loaders = {l1}
  Unloaders = {}
  Listers = {}
  Hosts = {h1}
  MaxActive = 0
  MaxTries = 2
  Inserts = {"instructions", "user-message"}
  MaxRequest = 1
  None = None
SPECIFICATION Spec
PROPERTY ActivatesOnlyInstructions

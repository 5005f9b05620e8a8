\* Calls return and removed skills leave, under fair scheduling.
CONSTANTS
  k1 = k1
  k2 = k2
  k3 = k3
  l1 = l1
  l2 = l2
  u1 = u1
  q1 = q1
  h1 = h1
  h2 = h2
  Keys = {k1}
  Loaders = {l1}
  Unloaders = {u1}
  Listers = {q1}
  Hosts = {h1}
  MaxActive = 0
  MaxTries = 2
  Inserts = {"instructions"}
  MaxRequest = 1
  None = None
SPECIFICATION FairSpec
PROPERTIES CallsReturn RemovedSkillLeaves

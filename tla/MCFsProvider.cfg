\* Two hosts and two changes of the files, at most two locations listed.
CONSTANTS
  h1 = h1
  h2 = h2
  Hosts = {h1, h2}
  RootEntries <- MCRootEntries
  Sub = "docs"
  SubEntries <- MCSubEntries
  MaxLocations = 2
  Base = "skill"
  Other = "other"
  MaxEdits = 2
  None = None
SPECIFICATION Spec
SYMMETRY Symmetry
INVARIANTS TypeOK ServesNothingOlder ResourcesSound
PROPERTY CachedForGood

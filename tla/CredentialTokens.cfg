\* Two threads of one process and one of another share a stored credential.
SPECIFICATION FairSpec
CONSTANTS
  p1 = p1
  p2 = p2
  t1 = t1
  t2 = t2
  t3 = t3
  l1 = l1
  k1 = k1
  k2 = k2
  k3 = k3
  None = None
  Processes = {p1, p2}
  Threads = {t1, t2, t3}
  Home <- HomeOf
  Deleters = {t3}
  Locators = {l1}
  Locks = {k1, k2, k3}
  MaxVersion = 3
INVARIANTS OneRefreshAtATime LockTableMatchesCallers
PROPERTIES ReplacementDescends DeletedStaysUncached

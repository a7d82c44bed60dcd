\* An update request races an archive request.
SPECIFICATION ContextSpec
CONSTANTS
  c1 = c1
  c2 = c2
  t1 = t1
  t2 = t2
  g1 = g1
  g2 = g2
  e1 = e1
  e2 = e2
  l1 = l1
  l2 = l2
  l3 = l3
  x1 = x1
  x2 = x2
  None = None
  Contexts = {c1}
  Titles = {t1, t2}
  Messages = {g1}
  Editors = {e1, e2}
  Linkers = {}
  Removers = {}
PROPERTY ArchivedUntilRestored

\* One item, two change requests up to version 4, two contexts, an archiving editor.
SPECIFICATION Spec
CONSTANTS
  c1 = c1
  c2 = c2
  t1 = t1
  e1 = e1
  k1 = k1
  k2 = k2
  k3 = k3
  m1 = m1
  m2 = m2
  y1 = y1
  y2 = y2
  a1 = a1
  None = None
  Contexts = {c1, c2}
  Titles = {t1}
  Messages = {}
  Editors = {e1}
  Linkers = {}
  Removers = {}
  Creators = {k1}
  Mutators = {m1, m2}
  Keys = {y1}
  Candidates = {}
  MaxVersion = 4
SYMMETRY Symmetry
INVARIANTS JournalExplainsItem
PROPERTIES NoLostUpdate JoinsActiveContext

\* Two create requests, two keys, one candidate, one context, and a change request.
SPECIFICATION FairSpec
CONSTANTS
  c1 = c1
  c2 = c2
  t1 = t1
  e1 = e1
  k1 = k1
  k2 = k2
  k3 = k3
  m1 = m1
  m2 = m2
  y1 = y1
  y2 = y2
  a1 = a1
  None = None
  Contexts = {c1}
  Titles = {t1}
  Messages = {}
  Editors = {}
  Linkers = {}
  Removers = {}
  Creators = {k1, k2}
  Mutators = {m1}
  Keys = {y1, y2}
  Candidates = {a1}
  MaxVersion = 2
INVARIANTS OneItemPerKey AnswersAreTrue
PROPERTY RequestsReturn
CHECK_DEADLOCK FALSE

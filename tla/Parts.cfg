\* Six parts, one at a time: two contexts with an editor, two associates and a
\* remover; three requests of two principals and an operator; two threads of one
\* process; workbooks of up to three sheets; one mailbox consent at two
\* directories and the personal one; the timeline of one message and two rows.
SPECIFICATION PartsFairSpec
CONSTANTS
  c1 = c1
  c2 = c2
  t1 = t1
  g1 = g1
  g2 = g2
  e1 = e1
  l1 = l1
  l2 = l2
  x1 = x1
  iss1 = iss1
  iss2 = iss2
  r1 = r1
  r2 = r2
  r3 = r3
  o1 = o1
  p1 = p1
  h1 = h1
  h2 = h2
  k1 = k1
  k2 = k2
  n1 = n1
  d1 = d1
  d2 = d2
  msa = msa
  u1 = u1
  openid = openid
  send = send
  None = None
  Unset = Unset
  Undeclared = Undeclared
  Contexts = {c1, c2}
  Titles = {t1}
  Messages = {g1, g2}
  Editors = {e1}
  Linkers = {l1, l2}
  Removers = {x1}
  Principals = {iss1, iss2}
  Callers = {r1, r2, r3}
  Operators = {o1}
  Workbooks <- SomeWorkbooks
  MaxSheets = 2
  MaxColumns = 2
  MaxRows = 1
  MaxCells = 4
  MaxCellChars = 2
  MaxChars = 5
  Directories = {d1, d2, msa}
  MSA = msa
  Objects = {u1}
  Scopes = {openid, send}
  MailScopes = {send}
  MaxTokens = 2
  Linkable = {1}
  SourcePageSize = 1
  Never = Never
  Limits = {2}
  MaxTime = 1
  MaxTimelineRows = 2
INVARIANTS LinkIsUnique OneUserPerPrincipal AnswersAgree StaysBounded NothingLostSilently SecretIsOfTheConsent MergesAgree WalkMissesNothing
PROPERTIES CallsReturn OnlyDeadGrantsAreGivenUp
CHECK_DEADLOCK FALSE

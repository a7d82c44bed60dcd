\* Two mailboxes, two consents, a disconnect and a mailbox read.
SPECIFICATION FairSpec
CONSTANTS
  m1 = m1
  m2 = m2
  s1 = s1
  s2 = s2
  s3 = s3
  k1 = k1
  k2 = k2
  k3 = k3
  d1 = d1
  r1 = r1
  None = None
  Mailboxes = {m1, m2}
  Sessions = {s1, s2}
  Callbacks = {k1, k2}
  Disconnects = {d1}
  Readers = {r1}
CHECK_DEADLOCK FALSE
INVARIANTS ConsentUsedOnce CredentialBelongsToMailbox ReleasedCredentialIsGone ActiveCredentialIsStored
PROPERTIES RowsChangeByConsent ConsentSettles

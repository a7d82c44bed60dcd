\* Two reads of one mailbox with two credentials; image input is off.
SPECIFICATION FairSpec
CONSTANTS
  q1 = q1
  q2 = q2
  n1 = n1
  n2 = n2
  None = None
  Reads = {q1, q2}
  Credentials = {n1, n2}
  Files <- SomeFiles
  ImageInput = FALSE
  MaxBytes = 2
  MaxListed = 2
INVARIANTS AiSeesOnlyVetted HistoryTellsTruth
PROPERTIES MarkedByRefusal ReadsReturn
CHECK_DEADLOCK FALSE

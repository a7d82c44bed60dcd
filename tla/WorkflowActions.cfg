\* Three concurrent requests at one action, a Gmail and a Graph mailbox.
SPECIFICATION FairSpec
CONSTANTS
  a1 = a1
  r1 = r1
  r2 = r2
  r3 = r3
  gm = gm
  ms = ms
  NoTarget = NoTarget
  Actions = {a1}
  Requests = {r1, r2, r3}
  Accounts = {gm, ms}
  Gmail = {gm}
INVARIANTS ExecutionIsExclusive OutcomeIsTruthful SentOnceAndOnlyAfterApproval
PROPERTIES StatusFollowsLifecycle KeepsPromise ExecutionSettles RequestsReturn

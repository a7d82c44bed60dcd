\* Two operators promote two users at the same time.
SPECIFICATION PeopleSpec
CONSTANTS
  iss1 = iss1
  iss2 = iss2
  r1 = r1
  r2 = r2
  o1 = o1
  o2 = o2
  Principals = {iss1, iss2}
  Callers = {r1, r2}
  Operators = {o1, o2}
INVARIANT SoleOwner
CHECK_DEADLOCK FALSE

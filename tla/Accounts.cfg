SPECIFICATION Spec
CONSTANTS
  None = None
  c1 = c1
  k1 = k1
  Companies = {c1}
  Contacts = {k1}
  CompanyOf <- MCCompanyOf
  Requests = {r1, r2}
  Actions = {"NOTE", "CALL_MADE"}
  Given = {None, "ATTEMPTED"}
  Times = {1, 2}
  Dates = {1, 2}
  MaxEntries = 3
INVARIANT LastWordStands
INVARIANT PromisesAreListed
PROPERTY ImplementsAccount
CHECK_DEADLOCK FALSE

SPECIFICATION Spec
CONSTANTS
  None = None
  c1 = c1
  k1 = k1
  Companies = {c1}
  Contacts = {k1}
  CompanyOf <- MCCompanyOf
  Requests = {r1}
  Actions = {"CALL_MADE", "CALL_ATTEMPTED"}
  Given = {None}
  Times = {1, 2}
  Dates = {1, 2}
  MaxEntries = 3
INVARIANT AsFarAsItsContacts
CHECK_DEADLOCK FALSE

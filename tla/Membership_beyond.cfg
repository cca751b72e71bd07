SPECIFICATION MembersSpec
CONSTANTS
  a = a
  b = b
  c = c
  p = p
  q = q
  Nobody = Nobody
  Users = {a, b}
  Admins = {a}
  Creator = a
  Reqs = {p, q}
  MaxMessages = 2
INVARIANT NoneStuck
PROPERTY MarkerAdvances

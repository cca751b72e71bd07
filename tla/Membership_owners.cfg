SPECIFICATION MembersSpec
CONSTANTS
  a = a
  b = b
  c = c
  p = p
  q = q
  Nobody = Nobody
  Users = {a, b, c}
  Admins = {a}
  Creator = a
  Reqs = {p, q}
  MaxMessages = 1
SYMMETRY Alike
INVARIANT MembersInv
PROPERTY OwnedByOffer

\* deluser beside deluser and adduser.
CONSTANTS
  Clients = {c1, c2, c3}
  Slots = {1, 2}
  Users = {u1, u2}
  new = new
  old = old
  Values = {new, old}
  Initial = old
  Commands <- AddAndDelete
SPECIFICATION Spec
SYMMETRY Interchangeable
PROPERTIES
  DeletesTheNamedUser

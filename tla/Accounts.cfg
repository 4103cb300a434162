\* Three utools and two slots: every mix of commands.
CONSTANTS
  Clients = {c1, c2, c3}
  Slots = {1, 2}
  Users = {u1, u2}
  new = new
  old = old
  Values = {new, old}
  Initial = old
  Commands <- AllCommands
SPECIFICATION Spec
SYMMETRY Interchangeable
INVARIANTS
  TypeOK
PROPERTIES
  SetsWhatWasRead
  CommandsAreAtomic

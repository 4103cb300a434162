SPECIFICATION Spec
CONSTANTS
  get = get
  oem = oem
  bad = bad
  Cmds = {get, oem, bad}
  Oem = {oem}
  Insecure = {bad}
  Setters = {s1}
  Senders = {x1}
  Getters = {g1}
  SetLines <- MCSetLines
  SendLines <- MCSendLines
  GetLines <- MCGetLines
  Lists <- MCLists
  Paths = {0, 1}
INVARIANTS TypeOK ListIsSnapshot ShownCanBeImported
PROPERTIES CallsAreInOrder StepsRunOut AllReturn

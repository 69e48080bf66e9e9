SPECIFICATION Spec
CONSTANTS
  Instances = {a, b, c}
  Pids = {p1, p2, p3, p4}
  None = None
  Bad = Bad
  Unread = Unread
  Root = root
  Guest = guest
  Accounts = {root, guest}
  MayUnlink <- Sticky
INVARIANTS
  TypeOK
  Exclusive
  Granted
SYMMETRY Alike

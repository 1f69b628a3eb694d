SPECIFICATION Spec
CONSTANTS
  e1 = e1
  e2 = e2
  e3 = e3
  e4 = e4
  e5 = e5
  e6 = e6
  e7 = e7
  e8 = e8
  Entries = {e1, e2, e3, e4, e5, e6, e7, e8}
  Initials = {{e1, e2, e3, e4, e5, e6, e7}}
  Modes = {"insert"}
  Requested = 2
  MaxAdds = 9
  MaxFlushes = 0
SYMMETRY StoredAlike
INVARIANT NoDuplicatesInBulk

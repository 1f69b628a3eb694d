SPECIFICATION Spec
CONSTANTS
  Entries = {e1, e2, e3}
  Initials = {{e1}}
  Modes = {"insert"}
  Requested = 0
  MaxAdds = 3
  MaxFlushes = 0
INVARIANT AllAppliedAfterDestroy

SPECIFICATION Spec
CONSTANTS
  Entries = {e1, e2, e3, e4, e5, e6, e7, e8}
  Initial = {e1, e2, e3, e4, e5, e6}
  Mode = "insert"
  Requested = 2
  MaxAdds = 10
INVARIANTS InsertContract AllAppliedAfterDestroy
 

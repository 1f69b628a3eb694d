SPECIFICATION Spec
CONSTANTS
  a = a
  b = b
  h1 = h1
  h2 = h2
  KeyParts = {a, b}
  MaxDepth = 2
  Handles = {h1, h2}
  HandleDepth <- TwoDepth2
  HandleKeys <- AllKeys2
  Taggable = FALSE
  MaxBulk = 2
  MaxAssigns = 1
INVARIANTS TypeOK RefCountsExact RefCountsSufficient
PROPERTIES UpdateTerminates ImplementsSets

SPECIFICATION Spec
CONSTANTS
  a = a
  b = b
  h1 = h1
  h2 = h2
  KeyParts = {a, b}
  MaxDepth = 3
  Handles = {h1, h2}
  HandleDepth <- Depth3And2
  HandleKeys <- KeysDepth3And2
  Taggable = TRUE
  MaxBulk = 3
  MaxAssigns = 0
INVARIANTS NodesCanonical AssertsHold NoDangling RemainingEntryFound GetAgrees SliceAgrees
PROPERTY ImplementsSets

SPECIFICATION Spec
CONSTANTS
    x = x
    y = y
    z = z
    KeyParts = {x, y}
    MaxDepth = 2
    Shapes <- MCShapes
    Contents <- MCContents
INVARIANTS SolutionsExact DistinctExact EinsumExact AskExact EvaluationDefined
CHECK_DEADLOCK FALSE

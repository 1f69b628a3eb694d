SPECIFICATION Spec
CONSTANTS
    x = x
    y = y
    z = z
    KeyParts = {x, y}
    MaxDepth = 2
    Shapes <- CountShapes
    Contents <- MCContents
INVARIANT EvaluationDefined
CHECK_DEADLOCK FALSE

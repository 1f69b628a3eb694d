SPECIFICATION Spec
CONSTANTS
    x = x
    y = y
    z = z
    KeyParts = {x, y, z}
    MaxDepth = 3
    Shapes <- SumShapes
    Contents <- SumContents
INVARIANT EvaluationDefined
CHECK_DEADLOCK FALSE

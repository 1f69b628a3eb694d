SPECIFICATION Spec
CONSTANTS
    a = a
    b = b
    KeyParts = {a, b}
    MaxDepth = 3
    Taggable = FALSE
    Iterators = {1, 2}
    Joins <- MCJoins
    MaxCounter = 1
INVARIANTS TypeOK ValueExact YieldsExact CachesOwned SmallestFirst DeadlineObserved
PROPERTY LoopsProgress

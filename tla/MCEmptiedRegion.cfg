SPECIFICATION Spec
CHECK_DEADLOCK FALSE
CONSTANT LeafLog2 = 1
CONSTANT Height = 2
CONSTANT BoundNodes <- MCBoundNodes
CONSTANT VectorCapacity = 2
CONSTANT MaxRels = 3
CONSTANT MaxBatch = 2
CONSTANT MaxFailures = 1
INVARIANT DeletedRowsBecomeGaps

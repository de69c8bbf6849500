SPECIFICATION Spec
CONSTANTS
  low = low normal1 = normal1 normal2 = normal2 high = high
  Tasks = {low, normal1, normal2, high}
  Priority <- MCPriority
  CreatedAt <- MCCreatedAt
  MaxLen = 7
INVARIANT HeapOrder
PROPERTY ImplementsTaskQueue

CONSTANTS
  empty = empty
  header80 = header80
  Msgs <- MCMsgs
  Algs <- CatAlgs
  Prim <- CatPrim
  Width <- CatWidth
  Chain <- CatChain
SPECIFICATION Spec
INVARIANTS StepMemorySafe
  NextReadsPrevOutput
PROPERTIES
  ImplementsPipeline

SPECIFICATION Spec
CONSTANT MaxNesting = 2
INVARIANTS
  HandlersKeepOut
  PromisesKept
  DescriptorsRestored
  ErrorsCanBeShown
PROPERTIES
  SuspendTakesEffect
  RedrawTakesEffect

SPECIFICATION Spec
CONSTANTS
  LazyValues <- MCLazyValues
  MaxDepth <- MCMaxDepth
  OnceObjects <- MCOnceObjects
  RwLocks <- MCRwLocks
  Mutexes <- MCMutexes
  MAX <- MCMax
  Keys <- MCKeys
  EnvValues <- MCEnvValues
  PATH = "PATH"
  Threads <- MCThreads
  Boxes <- MCBoxes
INVARIANTS
  ValuesAccountedFor
  OnceSound
  GuardsExclude
  EnvironmentAsAsked
  BoxAgreed
CHECK_DEADLOCK FALSE

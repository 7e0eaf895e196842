CONSTANTS
  Sources <- MCSources
  BUFSIZ = 3
  NL = "/"
  Algorithms <- MCAlgorithms
  GraphSizes <- MCGraphSizes
  Bs = {2, 3}
  KeysPerBin = {1, 2}
  ChdSeeds <- MCChdSeeds
  Primes = {3, 5, 7}
  MaxProbes <- MCMaxProbes
  MappingIterations = 2
  WordBits = 6
  ByteBits = 3
  STEP_SELECT_TABLE = 2
  ChmSeeds <- MCChmSeeds
  BmzSeeds <- MCBmzSeeds
  FchSeeds <- MCFchSeeds
  BdzSeeds <- MCBdzSeeds
  Permuted <- MCPermuted
  fch_calc_b <- MCfch_calc_b
  BrzSeeds <- MCBrzSeeds
  BucketSeeds <- MCBucketSeeds
  Tables <- MCTables
  MaxFlushes = 3
  KeylenSize = 2
  KeysPerBucket <- MCKeysPerBucket
  Memories = {7, 10, 13}
  UsualMemory = 40
  Iterations <- MCIterations
  MapIterations = 2
  SearchingIterations = 2
  H2Iterations = 2
  W = 32
  ByteLimit = 8
SPECIFICATION Spec
INVARIANTS EdgesSumUp NumbersInOrder SumsDiffer OwnVertices TakesWhatIsPeeled
  TablesAgree LeavesTheCore BucketsAreWhole BreaksOnlyWhen StoredWhole
PROPERTY ImplementsPerfectHash
CHECK_DEADLOCK FALSE

CONSTANTS
  KeySources <- MCKeySources
  Configurations <- MCConfigurations
  Primes <- MCPrimes
  MaxProbes <- MCMaxProbes
  Seeds <- MCSeeds
  Iterations = 2
  MappingIterations = 2
  WordBits = 6
  ByteBits = 3
  STEP_SELECT_TABLE = 2
SPECIFICATION FairSpec
INVARIANTS TypeOK TakenByThePlaced FindsWhatIsPlaced BreaksOnlyWhen
PROPERTY ImplementsPerfectHash
CHECK_DEADLOCK FALSE

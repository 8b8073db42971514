SPECIFICATION BenchmarksSpec
CONSTANTS
  Variations = {0, 1, 2}
  block_size = 3
  data_size = 12
  MaxReads = 13
  Macros = {"undefined", "y", "1"}
  DataSizes = {32, 40}
  MaxCalls = 4
  Times = {2, 40}
  Counts = {0, 7}
  INT_MAX = 32767
  LongModulus = 16777216
  Algorithms = {"cbc", "ctr", "ofb", "MD5", "SHA-1", "SHA-2"}
  Pieces <- MCPieces
  AES_BLOCK_SIZE = 3
  IVs = {6, 9}
  Sizes <- MCSizes
  Blocks <- MCBlocks
  XorAesBlock <- MCXorAesBlock
  AesEncrypt <- MCAesEncrypt
  AesDecrypt <- MCAesDecrypt
  Messages = {1, 8}
  MaxBlocks = 4
  SizeModulus = 4096
  Positions <- MCPositions
  Careful = TRUE
  MaxIndex = 16
  MaxBlock = 7
  SHA2_BLOCK_SIZE = 6
  SHA2_LENGTH_SIZE = 3
  STORED_SIZE = 2
  LengthModulus = 16
  MaxSha2 = 16
  BLOCK_SIZE = 5
  LENGTH_SIZE = 2
  MaxFed = 22
  LO = 10
  HI = 2
  COUNT0 = 80
  COUNT1 = 2
INVARIANTS
  PluginsTyped
  RunnerKept
  AesRunnerKept
  TablesKept
  ContextsTyped
  ChainKept
  CallsJoined
  EveryByteKept
PROPERTIES
  StreamsKept
  DigestsKept
  LoopsEnd
CHECK_DEADLOCK FALSE

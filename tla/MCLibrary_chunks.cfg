SPECIFICATION LibrarySpec
CONSTANTS
  Algorithms = {"ctr"}
  Pieces <- MCPieces
  AES_BLOCK_SIZE = 3
  IVs = {6, 9}
  Sizes <- MCSizes
  Blocks <- MCBlocks
  XorAesBlock <- MCXorAesBlock
  AesEncrypt <- MCAesEncrypt
  AesDecrypt <- MCAesDecrypt
  Messages = {1, 8}
  MaxBlocks = 4
  SizeModulus = 4096
  Positions <- MCPositions
  Careful = FALSE
  MaxIndex = 16
  MaxBlock = 7
  SHA2_BLOCK_SIZE = 6
  SHA2_LENGTH_SIZE = 3
  STORED_SIZE = 2
  LengthModulus = 16
  MaxSha2 = 16
  BLOCK_SIZE = 5
  LENGTH_SIZE = 2
  MaxFed = 22
  LO = 10
  HI = 2
  COUNT0 = 80
  COUNT1 = 2
INVARIANT
  FollowsStream
CHECK_DEADLOCK FALSE

SPECIFICATION Spec
CONSTANTS
  MaxUnits = 3
  HighWatermark = 1
  ListLength = 4
  ListCapacity = 2
  TreeKeys = 6
  HashKeys = 4
  HashCapacity = 4
  TreeFrom = 2
  ByteBase = 2
  BufferLength = 2
  MaxBuffers = 3
  MaxPooled = 5
  PoolSize = 4
  Alignment = 2
  Longest = 8
  Samples = {0, 6, 15}
  Chars = {0, 7, 23, 8, 98}
  MaxBytes = 4
  MaxChars = 4
  ChunkSize = 4
  MaxJobs = 1
  MaxWrites = 2
  CacheKeys = {1, 2, 3}
  MaxCapacity = 2
  MaxNumber = 4
  MaxLayers = 4
  Names = {"n1", "n2"}
  ConsoleCalls = 5
  MaxFormat = 4
  MaxRows = 3
  Columns = {1, 2}
  UnitBase = 2
  MaxText = 3
  MaxRoom = 7
  MaxSource = 5
  MaxTarget = 3
  CodePoints = {65, 127, 128, 2047, 2048, 65535, 65536, 1114111}
  MaxSets = 2
  MaxChanges = 2
INVARIANTS TypeOK StreamsAreSound CollectionsAreSound BuffersAreSound ValuesAreSound
CHECK_DEADLOCK FALSE

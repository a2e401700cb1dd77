CONSTANTS
  Contents <- MCContents
  Needles <- MCNeedles
  BufSize = 4
  Files <- MCFiles
  BufLen = 7
  Texts <- MCTexts
  Scripts <- MCScripts
  ChunkSize = 4
  BlockSize = 2
  Keys <- MCKeys
  Vals = {"v", "w"}
  None = None
  HashFunctions <- MCHashFunctions
  HashRange = 1024
  Sizes <- MCSizes
  Outputs = {"x", "y"}
  Null = "null"
  MaxLoads = 5
  Kind <- MCKind
  MaxDirs = 2
  MaxFailures = 2
SPECIFICATION SSpec
INVARIANTS
  TypesOK
  ImageAsWritten
  LinesCopied
  FoundExactly
  ScriptObeyed
  MapIsFunction
  HandlesKept
  TreeCounted
PROPERTIES
  ReadersEnd
CHECK_DEADLOCK FALSE

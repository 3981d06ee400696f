SPECIFICATION MCSpec
CONSTANTS
  Names <- FourNames
  Parent <- FourParents
  Root = "root"
  FileSlots = {1, 2}
  MaxCalls = 4
  SearchHandles = {f, g, h}
  Foreign = f
  Directory <- SixEntries
  Unterminated = U
  EntryNames <- ThreeEntries
  Listings <- FourListings
  Rank <- ByName
  \* A program that runs one popen or pclose at a time.
  Threads = {t1, t2}
  Commands = {c1, c2}
  Streams = {s1, s2}
  Slots = {0, 1}
  Alone = TRUE
  \* Two handles on a file, and regions that overlap.
  LockHandles = {1, 2}
  Regions = {{1, 2}, {2, 3}}
  Attempts = 3
  \* Texts of up to two characters, and files of up to three.
  Bytes = {"a", "LF"}
  Files <- TwoFiles
  Texts <- TwoTexts
  Counts = {2}
  MaxSize = 3
  NULL = NULL
  Rest = Rest
INVARIANTS
  ReadsInOrder
  PositionsReturn
  WritesReadBack
  NamesTold
  StreamsKeepTheirFiles
  DirectoriesRead
  CommandsAnswered
  LockAnswered
CHECK_DEADLOCK FALSE

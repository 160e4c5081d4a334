CONSTANTS
  None = None
  Page = 2
  Granule = 4
  Space = 16
  Wanted = {0, 4, 7}
  Foreign = {14}
  MapName = {n}
  MaxRegions = 2
  FileSize = 2
  Image <- SmallImages
  ShortNames = {"a", "b", "c"}
  LongNames = {"l1", "l2"}
  OrdinalNames = {"o:1"}
  KnownNames = {"c"}
  RefusedName = "R"
  SlotCount = 5
  ToLink <- LinkImages
  Records = {1, 2}
  Drivers = {1, 2, 3}
  StreamHandles = {1}
  WaveTags = {1}
  HeaderBuffers <- Buffers
  ComponentsUsed = {"k"}
  KeysUsed <- Keys
  DataUsed <- Values
  ProfileUsed <- ProfileKey
  LastHandle = 3
  LastValue = 5
  TablesUsed <- ExportTables
  TableOfModule <- LoadedTables
  RootsUsed <- Roots
  RootOfModule <- LoadedRoots
  IdsAsked = {2, 3, 5, 7, 9}
  StringsAsked = {0, 3, 17}
  RoomUsed = 5
  ImagesUsed <- MovedImages
  ShortValues = 4
  PiecesUsed <- PiecesOfNames
  LibraryFiles <- DllFiles
  NamesAsked <- AskedNames
  Directory <- DefPath
  PieceWidth <- PieceWidths
  Threads = {1, 2}
  CpuInfosUsed <- CpuFiles
  FeaturesAsked = {"mmx", "ssse3", "emulated"}
  ClockRates = {1, 3}
  ClockListings <- ClockFiles
  UnitsPerSecond = 4
  WordValues = 16
  LastTime = 11
SPECIFICATION AnySpec
INVARIANTS
  ImageIsFile
  LoadLeavesNothing
  LookupsAgree
  StubsTell
  DriversServe
  RegistryKept
\* A call into a driver that is gone ends the process.
CHECK_DEADLOCK FALSE

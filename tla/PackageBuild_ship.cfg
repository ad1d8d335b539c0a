SPECIFICATION PackageSpec
CONSTANTS
  Bundled <- MCBundled
  Order <- MCOrder
  FolderOf <- MCFolderOf
  Payload <- MCPayload
  MaxCalls = 3
  BinOrder <- MCBinOrder
  ExeOf <- MCExeOf
  Entry <- MCEntry
  MaxPrograms = 3
  Binary = "tset"
  Applets <- MCApplets
  DefaultProgram <- NoProgram
  Args <- MCArgs
  PageFiles <- MCPageFiles
  PageOf <- MCPageOf
  FoldFile <- MCFoldFile
  FoldPage <- MCFoldPage
  Body <- MCBody
  MaxPages = 3
CHECK_DEADLOCK FALSE
INVARIANTS
  StagedLatest StoreKept Readable AliasesSurvive NamesRun PagesAlike

SPECIFICATION Spec
CONSTANTS
  Search <- MCSearch
  Private <- MCPrivate
  Dirs <- MCDirs
  Embedded <- MCEmbedded
  Root <- MCRoot
  EnvFile = EnvFile
  EnvDir = EnvDir
CHECK_DEADLOCK FALSE
INVARIANTS
  NeverWidens FollowsTable

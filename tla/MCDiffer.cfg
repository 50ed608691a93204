CONSTANTS
  NoneV = NoneV
  UserDir = UserDir
  Entries <- MCEntries
  URLs <- MCURLs
  Paths <- MCPaths
  SchemaVersion = 5
  None <- NoneV
  IOCanFail = TRUE

SPECIFICATION Spec

INVARIANTS
  StoresReleased
  InstalledIsRequested

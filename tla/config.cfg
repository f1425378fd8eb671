SPECIFICATION Spec
CONSTANTS
  Defaults <- MCDefaults
  Contents <- MCContents
  Reports <- MCReports
  Paths <- MCPaths
  Nodes <- MCNodes
  Depth <- MCDepth
  HostPort <- MCHostPort
  Directories = 3
INVARIANTS
  TypeOK
  OverridesWin
  OnlyServersConverted
  FilterKeepsFields
CHECK_DEADLOCK FALSE

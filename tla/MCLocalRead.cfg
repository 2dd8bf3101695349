SPECIFICATION Spec
CONSTANTS
  R = R
  S = S
  D = D
  E = E
  f = f
  g = g
  Slash = Slash
  Link = Link
  None = None
  Root = R
  Dirs <- MCDirs
  Files = {f, g}
  Foreign = {E}
  Places <- MCPlaces
  RootPath <- MCRootPath
  Parts <- MCParts
  Layouts <- MCLayouts
  Contents <- MCContents
  Undecodable = {"c"}
  HardMax = 2
  MaxChanges = 2
INVARIANTS
  QuietAnswerIsExact
PROPERTIES
  ReadsOneMoment
CHECK_DEADLOCK FALSE

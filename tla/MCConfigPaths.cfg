CONSTANTS
  Keys = {"a", "b"}
  Headers <- MCHeaders
  KeyPaths <- MCHeaders
  Literals <- MCLiterals
  Values <- MCValues
  Depth <- MCDepth
  MaxStatements = 3
  Paths <- MCPaths
  NoKey = ""
  Bits = 7
SPECIFICATION Spec
INVARIANT DocumentedPathsRead

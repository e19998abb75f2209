CONSTANTS
  Patterns <- MCPatterns
  PathOf <- MCPathOf
  Names = {"app.log"}
  Foreign = {"notes", "data"}
  Undeletable = {"data"}
  Interval = 2
  MaxFiles = 2
  MaxTime = 3
  None = "none"
SPECIFICATION Spec
INVARIANT EnabledIsOpen

\* Every list of at most three files of eleven paths.
SPECIFICATION Spec
CONSTANTS
  Characters = {"t", "a", "b"}
  Separator = "/"
  Paths <- SomePaths
  MaxFiles = 3
CHECK_DEADLOCK FALSE
INVARIANTS
  TypeOK
  FilesAreWhereListed
  FoldersAreOnTheWay
  EndsWellUnless
PROPERTY
  ContentEnds

CONSTANTS
  t1 = t1
  t2 = t2
  java = java
  cpp = cpp
  x = x
  y = y
  e1 = e1
  e2 = e2
  e3 = e3
  None = None
  Threads <- MCThreads
  Langs <- MCLangs
  LangAddrs <- MCLangAddrs
  EngineAddrs <- MCEngineAddrs
  Folders <- MCFolders
SPECIFICATION Spec
SYMMETRY MCSymmetry
INVARIANTS
  LibraryHeld
  EngineFits
  ParentAlive
  QueryFits
PROPERTIES
  LibraryFound

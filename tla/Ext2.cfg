SPECIFICATION Spec
CONSTANTS
  Inode <- MCInode
  Block <- MCBlock
  Root = 2
  Name <- MCName
  EntrySize <- LongNames
  DirSize = 16
  Paths <- PlainPaths
  Images <- BothImages
INVARIANTS
  NamesLive
  LsShowsAll
  OwnedOnce
  DirsWellFormed
  
  
PROPERTY NamespaceSpec

SPECIFICATION Spec
CONSTANTS
  Inode <- MCInode
  Block <- MCBlock
  Root = 2
  Name <- MCName
  EntrySize <- ShortNames
  DirSize = 16
  Paths <- PlainPaths
  Images <- EmptyImages
INVARIANT EntriesFit

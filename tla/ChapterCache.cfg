CONSTANTS
  novel = novel
  comic = comic
  Books <- MCBooks
  ChaptersOf <- MCChapters
  Managed <- MCManaged
  r1 = r1
  r2 = r2
  Readers <- MCReaders
  Deletable <- MCComic
  NoKey = NoKey
  MaxUpsets = 1
SPECIFICATION Spec
INVARIANTS AwaitedIsLive Coherent
PROPERTIES ReadersKeepTheirDownload ImplementsChapterOrder
CHECK_DEADLOCK FALSE
SYMMETRY MCSymmetry

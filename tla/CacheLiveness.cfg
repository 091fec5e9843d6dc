CONSTANTS
  novel = novel
  comic = comic
  Books <- MCBooks
  ChaptersOf <- MCChapters
  Managed <- MCManaged
  r1 = r1
  r2 = r2
  Readers <- MCOneReader
  Deletable <- MCNovel
  NoKey = NoKey
  MaxUpsets = 1
SPECIFICATION FairSpec
PROPERTIES EveryChapterAttempted ReadersAnswered
CHECK_DEADLOCK FALSE

SPECIFICATION ScrapeSpec
CONSTANTS
  Files <- MCFiles
  File0 <- MCFile0
  Inst = {0, 1, 2}
  ChurnIDs = {"a"}
  Scraper = {c1}
INVARIANT RemovedNotExposed

CONSTANTS
  MAXARGS = 3
  Input <- RunLines
  NPROC = 6
  Limits = {3, 4, 6}
  NOFILE = 7
  BufSize = 5
  Jobs <- GrepJobs
  MinCore = 4
  MaxAddr = 14
  Requests = {2, 3, 5}
  THRESHOLD = 4
  Arrays <- SmallArrays
  Columns = {"Name", "ID"}
  PGSIZE = 16
  PtrSize = 1
  Align = 2
  AddrMod = 64
  MAXARG = 4
  TablePages = 2
  BSIZE = 2
  NDIRECT = 2
  NINDIRECT = 2
  FSSIZE = 30
  NINODES = 4
  DirentSize = 1
  r1 = r1 r2 = r2 r3 = r3 r4 = r4 r5 = r5
  Request = {r1, r2, r3, r4, r5}
  Operation <- Mixed
  Inputs <- TwoReadsOrDeletes
  MaxConcurrent = 2
  Patience = 3
SPECIFICATION AllSpec
INVARIANTS ShellParses GrepExact HeapSound SortsParts ExecSound MkfsSound StringsExact WriteExclusive NoWriteAfterDelete ReadsExcludeDelete
PROPERTIES ShellLineEnds EndsUnlessReaderWaits
CHECK_DEADLOCK FALSE

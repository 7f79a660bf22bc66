CONSTANTS

  None = None
  Proc = {p1, p2}
  File = {f1, f2}
  BSIZE = 2 NDIRECT = 2 NINDIRECT = 2
  FSSIZE = 10
  NINODES = 3
  DirentSize = 1
  MAXOPBLOCKS = 6
  Image <- OneFile
  Payload <- ShortOrLong
  MaxCalls = 4
  MaxCrash = 1
SPECIFICATION Spec
INVARIANTS CrashConsistent TransactionFits
PROPERTIES OrphanedByRaceOrCrash 
SYMMETRY Symmetry

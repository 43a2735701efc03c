SPECIFICATION FairSpec
CONSTANTS
  Chunks = {c1, c2, c3, c4}
  NULL = NULL
  GIVEUP = 1
  VLEN = 2
  SeqMod = 4
  FirstSeq = 2
  MaxSent = 4
  MaxDups = 1
INVARIANTS TypeOK ChunkHasOneOwner LostOnlyToDuplicates
PROPERTIES ImplementsOrderedStream NextInLineIsDelivered HoleIsGivenUp
CHECK_DEADLOCK FALSE

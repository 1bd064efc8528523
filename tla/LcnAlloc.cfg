SPECIFICATION Spec
CONSTANTS
  NrClusters = 7
  ByteBits = 2
  BufBytes = 2
  Skip = 1
  BufCap = 1
  BmpBytes = 4
  mft_lcn = 3
  mft_zone_start = 3
  mft_zone_end = 5
  System = {2, 6}
  MaxCount = 3
  Hints = {0, 1, 9}
  Faults = 1
INVARIANTS RunExactlySet NotSharedNorLost FreeCountExact AllocatedAsAsked SearchComplete


SPECIFICATION FairSpec
CONSTANTS
  None = None
  d1 = d1
  d2 = d2
  Docs = {d1, d2}
  g = g
  Names = {g, h}
  Calls = {c1, c2}
  Requests <- MCRequests
  Operations = {"delete", "bulkDelete", "bulkReassign", "create", "list", "remove"}
  Stored <- OneStored
INVARIANT TypeOK
PROPERTIES ReportsAreTrue OnlyLateDocumentsAreOrphaned CallsEnd ListingRepairs
CHECK_DEADLOCK FALSE

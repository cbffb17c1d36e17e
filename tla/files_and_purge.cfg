SPECIFICATION FairSpec
CONSTANTS
  file1 = file1
  file2 = file2
  document1 = document1
  worker = worker
  command = command
  Uploads = {file1, file2}
  Documents = {document1}
  Purgers = {worker, command}
  Quota = 3
  SizeOf <- Sizes
INVARIANT QuotaKept
INVARIANT NoStrayObjects
PROPERTY PurgedOnRequest
PROPERTY DueIsPurged
PROPERTY ImplementsFileStore
CHECK_DEADLOCK FALSE

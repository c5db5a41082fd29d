CONSTANTS
  HighWater = 2
  MaxMsgs = 4
  MaxDays = 1
  Requests = {r1}

SPECIFICATION FilesFairSpec

INVARIANTS
  RecordedHasNoHoles
  DownloadIsOneDay

PROPERTY HeardIsRecorded

CHECK_DEADLOCK FALSE

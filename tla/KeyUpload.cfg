\* Overlapping uploads, claims, disconnections and crashes.
CONSTANTS
  None = None
  Max = 2
  MaxUploads = 2
  MaxClaims = 1
  MaxTroubles = 1
SPECIFICATION FairSpec
INVARIANTS
  TypeOK
  OfferedKeysHeld
  MarkedWereSent
  OneTimeOnly
PROPERTIES
  StockRefilled
  UploadsSettle
CHECK_DEADLOCK FALSE

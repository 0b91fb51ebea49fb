SPECIFICATION FairSpec
CONSTANTS
  Id = {1}
  Device <- MCDevice
  Person <- MCPerson
  OwnPerson = "own"
  PersonOf <- MCPersonOf
  Me <- Server
  Envelope <- FileEnvelope
  Request <- FileRequest
  Conn = {c1, c2}
  CapBytes = 20
  HeaderBytes = 1
  MaxPerRecipient = 2
  MaxPerPair = 2
  MaxUploads = 2
  ReceiptMax = 1
  ChatHold = 1
  FileHold = 2
  StaleUpload = 2
  IdleUpload = 1
  ReceiptKeep = 3
  QuarantineKeep = 1
  Upsets = {"crash", "delete"}
  MaxUpsets = 2
  MaxTime = 2
  MaxDeposits = 3
  LastDeposit = 0
  None = None
INVARIANT TypeOK
INVARIANT CrashConsistent
INVARIANT HeldIsDurable
INVARIANT UploadIsExclusive
INVARIANT DeliveredIsTrue
PROPERTY NeverResurrected
PROPERTY EveryDeviceFirst
PROPERTY EveryItemEnds
PROPERTY ImplementsMailbox
CHECK_DEADLOCK FALSE

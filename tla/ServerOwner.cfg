SPECIFICATION Spec
CONSTANTS
  Id = {1, 2}
  Device <- MCDevice
  Person <- MCPerson
  OwnPerson = "own"
  PersonOf <- MCPersonOf
  Me <- Server
  Envelope <- QuotaEnvelope
  Request <- QuotaRequest
  Conn = {c1, c2}
  CapBytes = 4
  HeaderBytes = 0
  MaxPerRecipient = 1
  MaxPerPair = 2
  MaxUploads = 2
  ReceiptMax = 1
  ChatHold = 1
  FileHold = 2
  StaleUpload = 2
  IdleUpload = 1
  ReceiptKeep = 1
  QuarantineKeep = 1
  Upsets = {"crash", "receipt", "toggle", "remove"}
  MaxUpsets = 1
  MaxTime = 0
  MaxDeposits = 2
  LastDeposit = 0
  None = None
INVARIANT WithinCap
INVARIANT OneFate
PROPERTY RemovalSparesOwner
SYMMETRY ConnSymmetry
CHECK_DEADLOCK FALSE

SPECIFICATION Spec
CONSTANTS
  Id = {1}
  Device <- MCDevice
  Person <- MCPerson
  OwnPerson = "own"
  PersonOf <- MCPersonOf
  Me <- Server
  Envelope <- LocalEnvelope
  Request <- LocalRequest
  Conn = {c1, c2}
  CapBytes = 20
  HeaderBytes = 1
  MaxPerRecipient = 2
  MaxPerPair = 2
  MaxUploads = 2
  ReceiptMax = 1
  ChatHold = 2
  FileHold = 2
  StaleUpload = 2
  IdleUpload = 1
  ReceiptKeep = 1
  QuarantineKeep = 1
  Upsets = {"crash", "unreadable", "delete", "record", "unmount", "wipe", "pause"}
  MaxUpsets = 2
  MaxTime = 2
  MaxDeposits = 2
  LastDeposit = 1
  None = None
PROPERTY NothingLostSilently
SYMMETRY ConnSymmetry
CHECK_DEADLOCK FALSE

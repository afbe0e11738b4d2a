SPECIFICATION Spec
CONSTANTS
  p1 = p1
  p2 = p2
  Nonce = {n1, n2}
  ReceiptCap = 1
  MaxRevision = 3
  MaxTimers = 2
  NoTxn = NoTxn
PROPERTY StaleNeverRuns

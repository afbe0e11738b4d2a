SPECIFICATION Spec
CONSTANTS
  p1 = p1
  p2 = p2
  n1 = n1
  n2 = n2
  n3 = n3
  Nonce = {n1, n2, n3}
  ReceiptCap = 2
  MaxRevision = 4
  MaxTimers = 2
  NoTxn = NoTxn
INVARIANT TypeOK
INVARIANT RevisionCountsTranscript
INVARIANT ReceiptsMatchTranscript
PROPERTY ImplementsContract
SYMMETRY NonceSymmetry

\* Three transactions from every history, which wait for each other and may fail.
CONSTANTS
  a = a  b = b  h1 = h1  h2 = h2  NoHash = NoHash
  t1 = t1  t2 = t2  t3 = t3  NoTxn = NoTxn
  Ids = {a, b}  Hashes = {h1, h2}  Results <- Responses
  InactiveAfter = 2  Txns = {t1, t2, t3}  Faults = TRUE
CHECK_DEADLOCK FALSE
SPECIFICATION FairSpec
INVARIANTS LogTellsContent ActiveUntilThreshold
PROPERTIES ImplementsCollections InactiveEventOnTransition RedeliveryIsSilent TransactionsEnd

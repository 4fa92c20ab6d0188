SPECIFICATION FairSpec
CONSTANTS
  Programs <- MCPrograms
  Urls <- MCUrls
  HostKind <- MCHostKind
  Addresses = {"public", "private", "loopback", "multicast"}
  Dicts = {"m", "n", "o"}
  Flags = {"-x"}
  Escaped <- MCEscaped
  MaxInstructions = 7
  MaxCallDepth = 2
  MaxEffects = 4
  MaxRedirects = 2
  MaxEvents = 4
  MaxResources = 2
  MaxChanges = 3
  Name <- MCName
  Code <- MCCode
  None = None
INVARIANTS ChildrenStayCovered FilesStayInRoots EffectsAreRecorded RefusalsAreRecorded ChainsAreGuarded LedgerIsFaithful
PROPERTIES SealedReceiptStands RunIsSealed
CHECK_DEADLOCK FALSE

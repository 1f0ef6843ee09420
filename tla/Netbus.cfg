SPECIFICATION FairSpec
CONSTANTS
  Kinds = {"switch", "prov", "p2p"}
  RecvSize = 5
  MaxFrame = 2
INVARIANTS
  NothingStuck
  UnderCertificates
PROPERTIES
  ImplementsChannel
  EventuallyAuthed
CHECK_DEADLOCK FALSE

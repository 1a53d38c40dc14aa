SPECIFICATION Spec
CONSTANTS
  MAX_CONNECTIONS = 2
  SIZE_MAX = 7
  Fds = {f1, f2, f3}
  NoFd = NoFd
  MAX_EVENTS = 3
  TlsAvailable = TRUE
  InlineSendMayFail = FALSE
  ExpiryRace = FALSE
SYMMETRY FdSymmetry
INVARIANTS
  TypeOK
  DescriptorsOwned
  ListFollowsState
  PointersFresh
  NeverDeaf
  SlotsInUseAreLive
  StopsOnlyIfCrowded
PROPERTIES
  TlsUntilClosed
  TableSpec

SPECIFICATION Spec
CONSTANTS
  MAX_CONNECTIONS = 2
  SIZE_MAX = 7
  Fds = {f1, f2}
  NoFd = NoFd
  MAX_EVENTS = 3
  TlsAvailable = FALSE
  InlineSendMayFail = FALSE
  ExpiryRace = FALSE
INVARIANT StopsOnlyOnSignal

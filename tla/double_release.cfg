SPECIFICATION Spec
CONSTANTS
  MAX_CONNECTIONS = 1
  SIZE_MAX = 7
  Fds = {f1, f2}
  NoFd = NoFd
  MAX_EVENTS = 4
  TlsAvailable = FALSE
  InlineSendMayFail = FALSE
  ExpiryRace = TRUE
PROPERTY ReleasesOnlyLentSlots

SPECIFICATION FairSpec
CONSTANTS
  MAX_CONNECTIONS = 2
  SIZE_MAX = 7
  Fds = {f1, f2}
  NoFd = NoFd
  MAX_EVENTS = 2
  TlsAvailable = FALSE
  InlineSendMayFail = TRUE
  ExpiryRace = FALSE
PROPERTIES
  SignalStopsLoop
  IdleIsReaped

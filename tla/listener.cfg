SPECIFICATION ListenerSpec
CONSTANTS
  Sockets = {s1, s2}
  HeadersTimeout = 1
  RequestTimeout = 2
  IdleTimeouts = {0}
  IdleDefault = 1
  Off = 9
  MaxRequests = 3
INVARIANTS DeadlineHeld
PROPERTIES OnlyOverdueCut StopSettles
CHECK_DEADLOCK FALSE

SPECIFICATION FairSpec
CONSTANTS
  r1 = r1
  r2 = r2
  r3 = r3
  Server <- MCServer
  MAX_RTP_PORTS = 2
  None = None
  Scenarios <- MCScenarios
CHECK_DEADLOCK FALSE
INVARIANTS PortsConserved NoStaleSocket
PROPERTIES PortsChangeHands PortsComeBack

SPECIFICATION MCSpec
CONSTANTS
  Paths = {"primary", "backup"}
  Primary = "primary"
  None = None
  Asks = {a1}
  SeenLimit = 2
  MaxTicks = 1
  Packets = {q1, q2}
  Sockets = {k1}
  Servers = {v1, v2}
  Limit = 2
  MaxCopies = 2
  MaxBeats = 1
  Width = 3
  TopPort = 1
  Cidrs <- MCCidrs
  Ranges <- MCRanges
  Hosts <- MCHosts
  Ports <- MCPorts
  Payloads <- MCPayloads
  Numbers <- MCNumbers
  Error = Error
INVARIANTS
  BoostTypeOK
  NoAnswerTwice
  OneMoreAfterStop
  ServerNamedFirst
  AstrayNeedsFlows
  FilterMatchesProfile
  ChecksumsVerify
  WireRoundTrip
PROPERTIES
  StopEnds
  ProxyTunnel
  DivertPerPath
CHECK_DEADLOCK FALSE

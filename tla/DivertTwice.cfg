SPECIFICATION MCSpec
CONSTANTS
  Paths = {"primary", "backup"}
  Primary = "primary"
  None = None
  Asks = {a1}
  SeenLimit = 1
  MaxTicks = 0
  Packets = {q1}
  Sockets = {k1}
  Servers = {v1}
  Limit = 1
  MaxCopies = 2
  MaxBeats = 0
  Width = 1
  TopPort = 0
  Cidrs <- MCCidrs
  Ranges <- MCRanges
  Hosts <- MCHosts
  Ports <- MCPorts
  Payloads <- MCPayloads
  Numbers <- MCNumbers
  Error = Error
PROPERTY
  DivertTunnel
CHECK_DEADLOCK FALSE

SPECIFICATION Spec
CONSTANTS
  Nodes = {1, 2, 3}
  Trees <- McTrees
  Slots = {1, 2, 3}
  MaxLinks = 2
  MaxTicks <- McTicks
  MaxCommands <- McCommands
  ShellSlots = {1, 2}
  MaxFailures = 1
  MaxTroubles = 0
  MAIN_BUF_SIZE = 4
  Bodies <- McBodies
  MaxRequests = 2
  MaxLost = 1
  RouteRequests = 3
  RouteTroubles = 1
  BUFSIZE = 3
  RadioTells = {"CHANNEL", "CHANNEL_MIN"}
  HostFrames = 2
  LineTroubles = 1
  RingSize = 3
  MacQueue = 3
  HostPackets = 5
  RINGBUF_SIZE = 4
  MaxChars = 8
  AtPorts = {"A", "B"}
  Pins = {1, 2, 5}
  AtNumbers = {1, 2, 5, 8}
  MaxAtCommands = 3
INVARIANT LockOfAConnection
CHECK_DEADLOCK FALSE

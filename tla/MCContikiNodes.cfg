SPECIFICATION Spec
CONSTANTS
  MAX_READINGS = 3
  MaxRounds = 7
  MaxTroubles = 6
  Losses = 1
  MaxErrors = 2
  MaxPresses = 3
  QueueSize = 2
  NumEvents = 3
  MaxCount = 3
  MaxTimeouts = 3
  Durations = {1, 2, 4}
  Intervals = {2, 3, 7}
  DURATION_MIN = 2
  INTERVAL_MIN = 3
  KEEP_MAC_ON_MIN_PERIOD = 3
  MaxPosts = 3
  Motes = {1, 2}
  Hears <- McHears
  Tokens = 8
  MaxNewTokens = 3
  MaxTokensLost = 2
  Addresses = {n1, n2, n3}
  MAX_NODES = 2
  MAX_RETRIES = 1
  Uris = {"light", "power", "nothing"}
  Values = {"1", "nothing"}
  Levels = {0, 255, 300}
INVARIANTS ReadingsKept MqttSafe LabsSafe DevicesSafe TestsInStep
PROPERTIES Progress
CHECK_DEADLOCK FALSE

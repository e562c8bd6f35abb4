SPECIFICATION FairSpec
CONSTANTS
  Sessions <- MCSessions
  Channels <- MCChannels
  Clients <- MCClients
  Connections <- MCConnections
  sessionOf <- MCsessionOf
  Settings <- MCSettings
  sessionName <- MCsessionName
  channelName <- MCchannelName
  None = "none"
INVARIANTS TypeOK GroupsMapped NoMissedMatch Listens StopIsLast
PROPERTIES KeepsPromise HandshakesEnd StopReturns
CHECK_DEADLOCK FALSE

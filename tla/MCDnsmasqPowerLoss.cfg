SPECIFICATION Spec
CONSTANTS
  Listens = {listenDefault}
  DefaultListen = listenDefault
  UserServers = {isp, vpn}
  UserConfigs <- PlainConfigs
  NoServer = NoServer
  PowerLoss = TRUE
INVARIANTS
  KeepsUserServers
  ReleasedClean

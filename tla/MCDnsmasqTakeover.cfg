SPECIFICATION Spec
CONSTANTS
  Listens = {listenDefault, listenOther}
  DefaultListen = listenDefault
  UserServers = {isp, vpn}
  UserConfigs <- PlainConfigs
  NoServer = NoServer
  PowerLoss = FALSE
INVARIANTS
  TypeOK
  RestoresUser
  OriginalsRemembered
PROPERTY
  ImplementsHandoff

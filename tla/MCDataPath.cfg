SPECIFICATION Spec
CONSTANTS
  N1 = N1
  N2 = N2
  A1 = A1
  A2 = A2
  R1 = R1
  C1 = C1
  T1 = T1
  T2 = T2
  T3 = T3
  Names = {N1, N2}
  Addrs = {A1, A2, R1}
  Reserved = {R1}
  Clients = {C1}
  Tags = {T1, T2, T3}
  NoTag = NoTag
  NoName = NoName
  Off = Off
  RealAddr <- AddressOf
  Configs <- AllConfigs
  Edits <- EditedConfigs
  LuCI = TRUE
INVARIANT TypeOK
INVARIANT ConfigurationsAgree
INVARIANT FakeIPReachesOutbound
INVARIANT DirectBypass
INVARIANT IPRuleOutbound
INVARIANT ProxiedEntirely

SPECIFICATION MCSpec

CONSTANTS
  e1 = e1
  e2 = e2
  e3 = e3
  e4 = e4
  e5 = e5
  a1 = a1
  a2 = a2
  a3 = a3
  a4 = a4
  a5 = a5
  gw = gw
  s1 = s1
  s2 = s2
  none = none
  Eui <- MCEui
  Addr <- MCAddr
  GwAddr = gw
  Board <- MCBoard
  Session <- MCSession
  NoSession = none
  Gauge <- MCGauge
  MaxNodes = 4
  EnumRounds = 1
  RangeRetries = 1
  ApplyRetries = 1
  TxFailLimit = 2
  MaxCommands = 2

INVARIANT StoreOriginFirst

CHECK_DEADLOCK FALSE

SPECIFICATION MCSpec

CONSTANTS
  e1 = e1
  e2 = e2
  e3 = e3
  a1 = a1
  a2 = a2
  a3 = a3
  gw = gw
  s1 = s1
  s2 = s2
  none = none
  Eui <- MCEui
  Addr <- MCAddr
  GwAddr = gw
  Board <- MCBoard
  Session <- MCSession
  NoSession = none
  Gauge <- MCGauge
  MaxNodes = 3
  EnumRounds = 1
  RangeRetries = 1
  ApplyRetries = 1
  TxFailLimit = 1
  Commands = 4
  Applies = 1
  Faults = 1

INVARIANTS
  OkIsOnFlash
  RangeIsReal
  ReliableIsComplete
  CleanApplyAgrees

CHECK_DEADLOCK FALSE

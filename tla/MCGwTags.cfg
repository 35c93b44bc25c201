SPECIFICATION MCSpec

CONSTANTS
  t1 = t1
  t2 = t2
  t3 = t3
  Eui <- MCEui
  NSlots = 2
  Base = 1
  Top = 4
  Lease = 2

INVARIANTS
  SeatsDistinct
  AddressesSuffice
  StragglersUnmistaken

PROPERTIES
  SilentTagsLeave

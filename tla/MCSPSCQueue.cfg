CONSTANTS
  a = a
  b = b
  NoItem = NoItem
  Values <- MCValues
  Capacity = 4
  MaxPush = 5
SPECIFICATION FairSpec
INVARIANTS
  TypeOK
  Fifo
  NoSlotRace
  SizeSound
PROPERTIES
  ImplementsFifo
  EveryItemDelivered

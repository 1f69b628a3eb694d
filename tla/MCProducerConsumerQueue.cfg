SPECIFICATION Spec
CONSTANTS
  Size = 3
  Items = {x, y}
  NoItem = NoItem
  MaxWrites = 6
INVARIANTS TypeOK NoSlotRace SlotsIntact CapacityRespected
PROPERTIES AllReceived ImplementsFifo

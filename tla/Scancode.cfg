SPECIFICATION Spec
CONSTANTS
  Keys <- MCKeys
  Legends <- MCLegends
  WireLen = 2
  MaxLost = 2
PROPERTIES
  ModesAsMeant
  CharAsMeant

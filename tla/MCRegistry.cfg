SPECIFICATION Spec
CONSTANTS
  Devices <- MCDevices
  Shapes = {s1, s2}
  NoShape = NoShape
  LegacyFiles <- MCLegacyFiles
  MaxAID = 6
  WritebackBeforeRestart = TRUE
INVARIANTS
  TypeOK
  AidsNeverShared
  IssuedIsDurable
PROPERTIES
  SettledKeepsAid
  ImplementsAccessoryIds

CONSTANTS
  lamp = lamp
  kettle = kettle
  Devices = {lamp, kettle}
  Capacity = 1
  Windowing = TRUE
SPECIFICATION SyncerSpec
INVARIANT WindowSeesNewerState

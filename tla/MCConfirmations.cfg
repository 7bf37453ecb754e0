CONSTANTS
  lamp = lamp
  kettle = kettle
  Devices = {lamp, kettle}
  Capacity = 1
  Windowing = TRUE
SPECIFICATION FairSyncer
INVARIANT OneWindow
PROPERTY EveryWriteIsRead

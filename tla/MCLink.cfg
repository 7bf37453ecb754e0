CONSTANTS
  lamp = lamp
  plug = plug
  Devices = {lamp, plug}
  Writers = {lamp}
  UnhealthyAfter = 2
  HomeChanges = TRUE
SPECIFICATION FairSpec
PROPERTY VanishedIsShown

CONSTANTS
  lamp = lamp
  plug = plug
  Devices = {lamp, plug}
  UnhealthyAfter = 2
  HomeChanges = FALSE
  Writers = {lamp}
SPECIFICATION FairSpec
PROPERTY PresentRecovers

CONSTANTS
  lamp = lamp
  Writers = {lamp}
SPECIFICATION FairSpec
PROPERTIES OutageShows TokenTroubleShows RecoveryShows

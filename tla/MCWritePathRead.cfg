CONSTANTS
  None = None
  on = on
  hue = hue
  saturation = saturation
  brightness = brightness
  onOff = onOff
  color = color
  level = level
  low = low
  high = high
  poll = poll
  window = window
  Values = {low, high}
  Chars = {on}
  Keys = {onOff}
  KeyOf <- DimmerKey
  Carries <- DimmerCarries
  Readers = {poll, window}
  Racing = TRUE
  Hasty = TRUE
  Slow = TRUE
  Failing = TRUE
  Shared = TRUE
SPECIFICATION FairSpec
INVARIANT LastWriteArrives
PROPERTIES ChosenStaysShown HomeKitShowsDevice

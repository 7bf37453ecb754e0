CONSTANTS
  None = None
  on = on
  hue = hue
  saturation = saturation
  brightness = brightness
  onOff = onOff
  color = color
  level = level
  low = low
  high = high
  poll = poll
  window = window
  Values = {low, high}
  Chars = {hue, brightness}
  Keys = {color, level}
  KeyOf <- LampKey
  Carries <- LampCarries
  Readers = {}
  Racing = TRUE
  Hasty = TRUE
  Slow = TRUE
  Failing = TRUE
  Shared = FALSE
SPECIFICATION FairSpec
INVARIANTS OneFlush DirtyIsScheduled
PROPERTY ImplementsWriteBuffer

SPECIFICATION Spec
CONSTANTS
  Types = {"light", "socket", "cooking", "ac"}
  Capabilities <- MCCapabilities
  Properties <- MCProperties
  Overrides <- MCOverrides
  ToggleOrder <- MCToggleOrder
  MaxCapabilities = 3
  MaxProperties = 2
  Expose = TRUE
INVARIANT ReportIsTrue

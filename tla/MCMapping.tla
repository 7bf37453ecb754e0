----------------------------- MODULE MCMapping -----------------------------
(* Devices with at most three capabilities out of eleven and two properties   *)
(* out of five; the config of a fan on a socket, a kettle, a hidden toggle. *)
EXTENDS Mapping

Span(lo, hi) == [min |-> lo, max |-> hi, step |-> 1]

Offer(type, of, span, hsv) == [type |-> type, of |-> of, span |-> span, hsv |-> hsv]

MCCapabilities ==
  {Offer("on_off", "on", NoSpan, FALSE),
   Offer("range", "brightness", NoSpan, FALSE),
   Offer("range", "brightness", Span(1, 100), FALSE),
   Offer("range", "brightness", Span(0, 255), FALSE),
   Offer("range", "temperature", Span(40, 100), FALSE),
   Offer("range", "temperature", Span(100, 40), FALSE),
   Offer("color_setting", "color", Span(2700, 6500), FALSE),
   Offer("color_setting", "color", Span(2700, 6500), TRUE),
   Offer("color_setting", "color", Span(2000, 5000), FALSE),
   Offer("toggle", "backlight", NoSpan, FALSE),
   Offer("toggle", "mute", NoSpan, FALSE)}

MCProperties ==
  {[type |-> "float", of |-> "temperature"], [type |-> "float", of |-> "battery_level"],
   [type |-> "event", of |-> "battery_level"], [type |-> "event", of |-> "motion"],
   [type |-> "event", of |-> "button"]}

Override(type, color, hidden) ==
  [exclude |-> FALSE, type |-> type, color |-> color, hidden |-> hidden]

MCOverrides ==
  {Override("auto", "auto", {}), Override("fan", "temperature", {"mute"}),
   Override("thermostat", "temperature", {})}

MCToggleOrder == <<"backlight", "mute">>
=============================================================================

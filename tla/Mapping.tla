------------------------------ MODULE Mapping ------------------------------
(***************************************************************************)
(* How one Yandex device becomes one HomeKit accessory (spec.go, the        *)
(* layout part of accessory.go).  Every poll hands BuildSpec the device as  *)
(* Yandex describes it now; the shape it returns is fingerprinted, and a    *)
(* new fingerprint costs a rebuilt HAP server and a new accessory id.       *)
(*                                                                         *)
(* A capability is a record: its type, the instance it is of, the span of   *)
(* its range (for a colour setting, its kelvin span) and whether it offers  *)
(* a colour model.  A missing, empty or unreadable span is NoSpan.  An      *)
(* instance is reported at most once per device.  Names, rooms and models   *)
(* are left out: no part of the shape depends on them.                      *)
(***************************************************************************)
EXTENDS Conversions, SequencesExt

CONSTANTS
  Types,          \* device types of the instance: "light", "cooking", ...
  Capabilities,   \* the capabilities a device may report
  Properties,     \* the properties: [type |-> "float" or "event", of |-> ...]
  Overrides,      \* DeviceOverride: [exclude, type, color, hidden]
  ToggleOrder,    \* the toggle instances, alphabetically
  MaxCapabilities, MaxProperties,   \* bounds on a device's lists
  Expose          \* Config.ExposeToggles

VARIABLES
  device,     \* [type, caps, props]: the device as last reported
  override,   \* its entry in config.yaml, read once at the start
  spec        \* what BuildSpec made of the report

vars == <<device, override, spec>>

NoSpan == [min |-> 0, max |-> 0, step |-> 0]
Spans == [min : Int, max : Int, step : Int]

\* Yandex reports ranges in whole numbers.
ASSUME SpansAssumption == \A c \in Capabilities : c.span \in Spans

ASSUME TogglesAssumption == ToggleOrder \in Seq(STRING)

Usable(span) == span.max > span.min

-----------------------------------------------------------------------------
(* Looking a device up: the first entry of the list that matches.           *)

Matching(caps, type, of) ==
  {i \in DOMAIN caps : caps[i].type = type /\ caps[i].of = of}

Offers(caps, type, of) == Matching(caps, type, of) # {}

First(caps, type, of) ==
  caps[CHOOSE i \in Matching(caps, type, of) : \A j \in Matching(caps, type, of) : i <= j]

\* The entries of a list that are in the set, in their order.  (SelectSeq, as a
\* function: nothing can be proved about SelectSeq itself.)
Only(list, set) ==
  LET kept[n \in 0..Len(list)] ==
        IF n = 0 THEN <<>>
        ELSE IF list[n] \in set THEN Append(kept[n - 1], list[n])
        ELSE kept[n - 1]
  IN  kept[Len(list)]

HasCapability(dev, type) == \E i \in DOMAIN dev.caps : dev.caps[i].type = type

Reports(dev, type, of) ==
  \E i \in DOMAIN dev.props :
    dev.props[i].type = type /\ dev.props[i].of = of

\* HomeKit's sensor for a Yandex event; the other events have none.
EventSensors ==
  [motion |-> "motion", open |-> "contact", water_leak |-> "leak",
   smoke |-> "smoke", gas |-> "gas"]

brightnessFor(dev) ==
  LET span == First(dev.caps, "range", "brightness").span
  IN  IF ~Offers(dev.caps, "range", "brightness") THEN NoSpan
      ELSE IF Usable(span) THEN [span EXCEPT !.step = 0]
      ELSE [min |-> 0, max |-> 100, step |-> 0]

targetTemperatureFor(dev) ==
  LET span == First(dev.caps, "range", "temperature").span
  IN  IF ~Offers(dev.caps, "range", "temperature") \/ ~Usable(span) THEN NoSpan
      ELSE [span EXCEPT !.step = IF span.step <= 0 THEN 1 ELSE span.step]

\* Only one way to set a colour: the one the config asks for when the device
\* has it, else hue, else kelvin.
ColorControl(dev, o) ==
  LET found  == Offers(dev.caps, "color_setting", "color")
      hsv    == found /\ First(dev.caps, "color_setting", "color").hsv
      kelvin == IF found THEN First(dev.caps, "color_setting", "color").span ELSE NoSpan
  IN  IF Usable(kelvin) /\ (~hsv \/ o.color = "temperature")
      THEN [color |-> "temperature", kelvin |-> kelvin]
      ELSE [color |-> IF hsv THEN "hsv" ELSE "none", kelvin |-> NoSpan]

colorFor(dev, o, kind) ==
  IF kind = "lightbulb" THEN ColorControl(dev, o)
  ELSE [color |-> "none", kelvin |-> NoSpan]

\* The readings that get a service of their own, in the order they are found.
NumericReadings(dev, temperature) ==
  LET If(shown, k) == IF shown THEN <<k>> ELSE <<>>
  IN  If(temperature /\ Reports(dev, "float", "temperature"), "temperature")
        \o If(Reports(dev, "float", "humidity"), "humidity")
        \o If(\/ Reports(dev, "float", "battery_level")
              \/ Reports(dev, "event", "battery_level"), "battery")

EventReadings(dev) ==
  LET events ==
        Only(dev.props, {p \in ToSet(dev.props) : p.type = "event" /\ p.of \in DOMAIN EventSensors})
  IN  [i \in DOMAIN events |-> EventSensors[events[i].of]]

\* mutant: only a plain sensor shows its temperature
sensorsForSensorsOnly(dev, kind) ==
  NumericReadings(dev, kind = "sensor") \o EventReadings(dev)

sensorsFor(dev, kind) ==
  NumericReadings(dev, kind # "thermostat") \o EventReadings(dev)

\* mutant: the toggles keep the order of the report
togglesForAsReported(dev, o) ==
  LET shown == Only(dev.caps, {c \in ToSet(dev.caps) : c.type = "toggle" /\ c.of \notin o.hidden})
  IN  [i \in DOMAIN shown |-> shown[i].of]

\* The switches for toggles, sorted by instance.
togglesFor(dev, o) ==
  Only(ToggleOrder, {t \in ToSet(ToggleOrder) \ o.hidden : Offers(dev.caps, "toggle", t)})

heatsToTemperature(type) == type \in {"cooking", "thermostat"}

\* mutant: the config is believed
overrideKindUnchecked(type, onOff, target) == type

\* An explicit type counts only when the device can back it.
overrideKind(type, onOff, target) ==
  IF onOff /\ (type # "thermostat" \/ target) THEN type ELSE "none"

kindFor(dev, o) ==
  LET onOff  == HasCapability(dev, "on_off")
      target == targetTemperatureFor(dev) # NoSpan
      asked  == IF o.type = "auto" THEN "none" ELSE overrideKind(o.type, onOff, target)
  IN  CASE asked # "none" -> asked
        [] asked = "none" /\ onOff ->
             IF target /\ heatsToTemperature(dev.type) THEN "thermostat"
             ELSE CASE dev.type = "light"  -> "lightbulb"
                    [] dev.type = "socket" -> "outlet"
                    [] OTHER               -> "switch"
        [] OTHER -> IF sensorsFor(dev, "sensor") # <<>> THEN "sensor" ELSE "none"

\* The Spec of a device that is not exported.
NoSpec == [kind |-> "none", onOff |-> FALSE, brightness |-> NoSpan,
           color |-> "none", kelvin |-> NoSpan, target |-> NoSpan,
           sensors |-> <<>>, toggles |-> <<>>]

BuildSpec(dev, o) ==
  LET kind  == kindFor(dev, o)
      color == colorFor(dev, o, kind)
  IN  IF o.exclude \/ kind = "none" THEN NoSpec
      ELSE [kind       |-> kind,
            onOff      |-> HasCapability(dev, "on_off"),
            brightness |-> IF kind # "sensor" THEN brightnessFor(dev) ELSE NoSpan,
            color      |-> color.color,
            kelvin     |-> color.kelvin,
            target     |-> IF kind = "thermostat" THEN targetTemperatureFor(dev) ELSE NoSpan,
            sensors    |-> sensorsFor(dev, kind),
            toggles    |-> IF Expose THEN togglesFor(dev, o) ELSE <<>>]

\* mutant: the kelvin range is left out
ShapeHashWithoutKelvin(s) ==
  <<s.kind, s.onOff, s.color, s.brightness, s.target, ToSet(s.sensors), s.toggles>>

\* What the fingerprint is computed from; SHA-256 is taken to be injective.
\* The readings are sorted first, which leaves their set (none is repeated).
ShapeHash(s) ==
  <<s.kind, s.onOff, s.color, s.brightness, s.kelvin, s.target,
    ToSet(s.sensors), s.toggles>>

-----------------------------------------------------------------------------
(* The accessory: its services in order, each with its characteristics and  *)
(* the limits it advertises.  hap numbers them by position.                 *)

Service(name, chars, limits, label) ==
  [service |-> name, chars |-> chars, limits |-> limits, label |-> label]

Mireds(kelvin) ==
  [min |-> kelvinToMired(kelvin.max), max |-> kelvinToMired(kelvin.min), step |-> 0]

LightbulbCharacteristics(s) ==
  <<"On">>
    \o (IF s.brightness # NoSpan THEN <<"Brightness">> ELSE <<>>)
    \o (CASE s.color = "hsv"         -> <<"Saturation", "Hue">>
          [] s.color = "temperature" -> <<"ColorTemperature">>
          [] OTHER                   -> <<>>)

addPrimaryService(s) ==
  CASE s.kind = "lightbulb" ->
         <<Service("Lightbulb", LightbulbCharacteristics(s),
                   IF s.color = "temperature" THEN Mireds(s.kelvin) ELSE NoSpan, "")>>
    [] s.kind = "thermostat" ->
         <<Service("Thermostat",
                   <<"TargetHeatingCoolingState", "CurrentTemperature", "TargetTemperature">>,
                   s.target, "")>>
    [] s.kind \in {"outlet", "switch", "fan"} -> <<Service(s.kind, <<"On">>, NoSpan, "")>>
    [] OTHER -> <<>>

\* One service per reading, in this order whatever order they were found in.
SensorOrder ==
  <<"temperature", "humidity", "battery", "motion", "contact", "leak", "smoke", "gas">>

addSensorServices(readings) ==
  LET shown == Only(SensorOrder, readings)
  IN  [i \in DOMAIN shown |-> Service("sensor", <<shown[i]>>, NoSpan, shown[i])]

addToggleServices(toggles) ==
  [i \in DOMAIN toggles |-> Service("toggle", <<"Name", "On">>, NoSpan, toggles[i])]

BuildAccessory(s) ==
  addPrimaryService(s) \o addSensorServices(ToSet(s.sensors)) \o addToggleServices(s.toggles)

\* The range the brightness control converts with; no other kind has one.
Converts(s) == IF s.kind = "lightbulb" THEN s.brightness ELSE NoSpan

\* describeMapping: the capabilities the report lists as driving something.
MappedCapabilities(dev, s) ==
  {c \in ToSet(dev.caps) :
     CASE c.type = "on_off"        -> s.onOff
       [] c.type = "range"         -> \/ c.of = "brightness" /\ s.brightness # NoSpan
                                      \/ c.of = "temperature" /\ s.target # NoSpan
       [] c.type = "color_setting" -> s.color # "none"
       [] c.type = "toggle"        -> c.of \in ToSet(s.toggles)
       [] OTHER                    -> FALSE}
-----------------------------------------------------------------------------
(* Yandex decides what the next poll says of the device; BuildSpec follows.  *)

Same(a, b) == a.type = b.type /\ a.of = b.of

New(list, x) == \A i \in DOMAIN list : ~Same(list[i], x)

Polled(caps, props) ==
  /\ device' = [device EXCEPT !.caps = caps, !.props = props]
  /\ spec' = BuildSpec(device', override)
  /\ UNCHANGED override

Swapped(list, i) ==
  [list EXCEPT ![i] = list[i + 1], ![i + 1] = list[i]]

\* The lists come back in another order.
Reordered ==
  \/ \E i \in 1..(Len(device.caps) - 1) :
       Polled(Swapped(device.caps, i), device.props)
  \/ \E i \in 1..(Len(device.props) - 1) :
       Polled(device.caps, Swapped(device.props, i))

GainsCapability(c) ==
  /\ Len(device.caps) < MaxCapabilities
  /\ New(device.caps, c)
  /\ Polled(Append(device.caps, c), device.props)

LosesCapability(i) == Polled(RemoveAt(device.caps, i), device.props)

\* A capability with other parameters: a wider range, a colour model.
ChangesCapability(i, c) ==
  /\ Same(device.caps[i], c) /\ device.caps[i] # c
  /\ Polled([device.caps EXCEPT ![i] = c], device.props)

GainsProperty(p) ==
  /\ Len(device.props) < MaxProperties
  /\ New(device.props, p)
  /\ Polled(device.caps, Append(device.props, p))

LosesProperty(i) == Polled(device.caps, RemoveAt(device.props, i))

Init ==
  /\ override \in Overrides
  /\ \E type \in Types : device = [type |-> type, caps |-> <<>>, props |-> <<>>]
  /\ spec = BuildSpec(device, override)

Next ==
  \/ Reordered
  \/ \E c \in Capabilities : GainsCapability(c)
  \/ \E i \in DOMAIN device.caps : LosesCapability(i)
  \/ \E i \in DOMAIN device.caps, c \in Capabilities : ChangesCapability(i, c)
  \/ \E p \in Properties : GainsProperty(p)
  \/ \E i \in DOMAIN device.props : LosesProperty(i)

Spec == Init /\ [][Next]_vars

-----------------------------------------------------------------------------
(* The shape has the fields its kind may have, and no reading twice: hap     *)
(* would number two services for one value (spec.go:113-129).                *)
TypeOK ==
  /\ override \in Overrides
  /\ device.type \in Types
  /\ spec.kind \in {"lightbulb", "outlet", "switch", "fan", "thermostat", "sensor", "none"}
  /\ spec.kind # "lightbulb" => spec.color = "none" /\ spec.kelvin = NoSpan
  /\ (spec.kind = "thermostat") <=> (spec.target # NoSpan)
  /\ (spec.color = "temperature") <=> (spec.kelvin # NoSpan)
  /\ \A span \in {spec.brightness, spec.kelvin, spec.target} :
       span \in Spans /\ (span = NoSpan \/ Usable(span))
  /\ \A i, j \in DOMAIN spec.sensors :
       spec.sensors[i] = spec.sensors[j] => i = j

\* What a control of the accessory needs the device to offer.
Backed(service, char) ==
  LET Has(type, of) == Offers(device.caps, type, of)
      Its(type, of) == First(device.caps, type, of)
  IN  IF service.service = "toggle" THEN Has("toggle", service.label)
      ELSE CASE char \in {"On", "TargetHeatingCoolingState"}
                                         -> HasCapability(device, "on_off")
             [] char = "Brightness"      -> Has("range", "brightness")
             [] char = "TargetTemperature" ->
                  Has("range", "temperature") /\ Usable(Its("range", "temperature").span)
             [] char \in {"Hue", "Saturation"} ->
                  Has("color_setting", "color") /\ Its("color_setting", "color").hsv
             [] char = "ColorTemperature" ->
                  Has("color_setting", "color") /\ Usable(Its("color_setting", "color").span)
             [] OTHER                    -> TRUE

(* No accessory has a control that nothing on the device answers to,         *)
(* whatever its type says and whatever the config asks for (spec.go:250-252: *)
(* "a toggle that controlled nothing and never updated").                    *)
NoDeadControl ==
  \A i \in DOMAIN BuildAccessory(spec) :
    LET service == BuildAccessory(spec)[i]
    IN  \A j \in DOMAIN service.chars : Backed(service, service.chars[j])

Characteristics(s) ==
  UNION {ToSet(BuildAccessory(s)[i].chars) : i \in DOMAIN BuildAccessory(s)}

(* Every reading this bridge knows reaches HomeKit once the device is        *)
(* exported, whatever else the device is (spec.go:441-444): a kettle's       *)
(* temperature inside the thermostat, all the others as services.            *)
EveryReadingIsShown ==
  spec.kind # "none" =>
    /\ Reports(device, "float", "temperature") =>
         {"CurrentTemperature", "temperature"} \cap Characteristics(spec) # {}
    /\ Reports(device, "float", "humidity") => "humidity" \in Characteristics(spec)
    /\ \A type \in {"float", "event"} :
         Reports(device, type, "battery_level") => "battery" \in Characteristics(spec)
    /\ \A of \in DOMAIN EventSensors :
         Reports(device, "event", of) => EventSensors[of] \in Characteristics(spec)

Brightnesses ==
  {[min |-> 0, max |-> 100, step |-> 0]} \cup
  {[c.span EXCEPT !.step = 0] : c \in {x \in Capabilities : x.of = "brightness" /\ Usable(x.span)}}

Kelvins == {c.span : c \in {x \in Capabilities : x.of = "color" /\ Usable(x.span)}}

BrightnessHolds == [r \in Brightnesses |-> BrightnessAgrees(r)]
KelvinHolds == [r \in Kelvins |-> KelvinAgrees(r)]

(* Whatever ranges Yandex advertises, a control that this bridge built shows *)
(* and sends values that do not chase each other and stay in the device's    *)
(* range: "otherwise the Home app would disagree with the Yandex app and     *)
(* repeated adjustments would drift" (accessory.go:1023-1026).               *)
NoDrift ==
  /\ Converts(spec) # NoSpan => BrightnessHolds[Converts(spec)]
  /\ spec.color = "temperature" => KelvinHolds[spec.kelvin]

(* While the fingerprint stays, so do the services, their order and their    *)
(* limits: what is published needs no rebuild, and hap's positional ids      *)
(* still name what they named (spec.go:131-138, accessory.go:113-116).       *)
SameShapeSameLayout ==
  [][ShapeHash(spec)' = ShapeHash(spec)
       => /\ BuildAccessory(spec)' = BuildAccessory(spec)
          /\ Converts(spec)' = Converts(spec)]_vars

(* Another order in Yandex's lists changes neither the fingerprint nor the   *)
(* layout: no rebuild and no new accessory id because of it                  *)
(* (spec.go:153-157, 477-478).                                               *)
ReorderKeepsShape ==
  [][Reordered => /\ ShapeHash(spec)' = ShapeHash(spec)
                  /\ BuildAccessory(spec)' = BuildAccessory(spec)]_vars

(* ShapeHash's comment, "fingerprints everything that affects the            *)
(* accessory's service and characteristic layout" (spec.go:131-132): a       *)
(* device gets a new accessory id only when HomeKit would see another        *)
(* accessory, or the bridge would convert its values differently.            *)
ShapeChangeIsReal ==
  [][ShapeHash(spec)' # ShapeHash(spec)
       => \/ BuildAccessory(spec)' # BuildAccessory(spec)
          \/ Converts(spec)' # Converts(spec)]_vars

(* MappingReport's comment, "records what the bridge did with one device     *)
(* and, just as importantly, what it could not use" (spec.go:169-171): a     *)
(* brightness listed as mapped has a Brightness characteristic.              *)
ReportIsTrue ==
  \A c \in MappedCapabilities(device, spec) :
    c.of = "brightness" => "Brightness" \in Characteristics(spec)
=============================================================================

---------------------------- MODULE Conversions ----------------------------
(***************************************************************************)
(* The unit conversions of internal/bridge/accessory.go: brightness in the *)
(* device's range and in percent, colour temperature in kelvin and in      *)
(* mired.  Yandex reports whole numbers, HomeKit holds whole numbers.      *)
(***************************************************************************)
EXTENDS Integers

Clamp(v, lo, hi) == IF v < lo THEN lo ELSE IF v > hi THEN hi ELSE v

\* math.Round(n / d), for n >= 0 and d > 0.
Quotient(n, d) == (2 * n + d) \div (2 * d)

-----------------------------------------------------------------------------
(* Brightness.                                                             *)

\* mutant: only a range that starts at 0 is a percentage
isPercentOnlyFromZero(r) == r.min = 0 /\ r.max = 100

\* A range that is a percentage already, whatever its ends.
isPercentRange(r) == r.min >= 0 /\ r.max <= 100

brightnessToPercent(r, v) ==
  IF isPercentRange(r) THEN Clamp(v, 0, 100)
  ELSE Clamp(Quotient((v - r.min) * 100, r.max - r.min), 0, 100)

\* HomeKit's slider reaches 0 even where the device starts at 1.
percentToBrightness(r, pct) ==
  IF isPercentRange(r) THEN Clamp(pct, r.min, r.max)
  ELSE Clamp(r.min + Quotient(pct * (r.max - r.min), 100), r.min, r.max)

-----------------------------------------------------------------------------
(* Colour temperature.                                                     *)

kelvinToMired(k) == IF k <= 0 THEN 140 ELSE Clamp(Quotient(1000000, k), 140, 500)

\* What buildActions sends: miredToKelvin, clamped to the device and rounded.
KelvinSent(r, mired) == Clamp(Quotient(1000000, mired), r.min, r.max)

-----------------------------------------------------------------------------
(* What the pairs of conversions owe each other.                           *)

\* A value that Yandex reports, shown and sent back, is shown as before; and
\* where the device counts in percent both apps show the same number.
BrightnessAgrees(r) ==
  \A v \in r.min .. r.max :
    LET shown == brightnessToPercent(r, v)
        sent  == percentToBrightness(r, shown)
    IN  /\ sent \in r.min .. r.max
        /\ brightnessToPercent(r, sent) = shown
        /\ r.min \in {0, 1} /\ r.max = 100 => shown = v

\* Every mired value the slider offers survives the way to the device and back.
KelvinAgrees(r) ==
  \A mired \in kelvinToMired(r.max) .. kelvinToMired(r.min) :
    kelvinToMired(KelvinSent(r, mired)) = mired
=============================================================================

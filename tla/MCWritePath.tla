---------------------------- MODULE MCWritePath ----------------------------
(* A dimmer: one switch.  A lamp: hue and saturation share a key, and the  *)
(* colour carries the brightness, which also has a key of its own.         *)
EXTENDS WritePath
CONSTANTS on, hue, saturation, brightness, onOff, color, level, low, high,
          poll, window

DimmerKey == [c \in {on} |-> onOff]
DimmerCarries == [k \in {onOff} |-> {on}]

LampKey == [c \in Chars |-> IF c = brightness THEN level ELSE color]
LampCarries == [k \in {color, level} |-> IF k = level THEN {brightness} ELSE Chars]
=============================================================================

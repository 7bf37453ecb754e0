----------------------------- MODULE MCRegistry -----------------------------
(* Two devices, two shapes, room for four numbers; the file is missing or  *)
(* is the version 1 file of registry_test.go:256, cut to one or two        *)
(* devices.                                                                *)
EXTENDS Registry

MCDevices == {1, 2}

MCLegacyFiles ==
  { [next |-> 4, assigned |-> [d \in {1} |-> [aid |-> 3, shape |-> NoShape]]],
    [next |-> 5, assigned |-> [d \in {1, 2} |-> [aid |-> d + 2, shape |-> NoShape]]] }
=============================================================================

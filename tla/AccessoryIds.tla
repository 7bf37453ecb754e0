---------------------------- MODULE AccessoryIds ----------------------------
(***************************************************************************)
(* What the bridge promises HomeKit about accessory ids, without saying    *)
(* how: an id, once it has been shown to a controller, stands for one      *)
(* device in one shape for ever, across restarts, failed saves and power   *)
(* cuts, and no two accessories of one server share an id.                 *)
(* internal/bridge/registry.go implements it (module Registry).            *)
(***************************************************************************)
EXTENDS Naturals

CONSTANTS Devices,   \* Yandex device ids
          Shapes     \* values of Spec.ShapeHash

VARIABLES issued,    \* every [aid, device, shape] ever shown to a controller
          live       \* device |-> aid, the accessories being served now

vars == <<issued, live>>

FirstDeviceAID == 3

Topologies == UNION {[D -> Shapes] : D \in SUBSET Devices}

Binding(aid, d, shape) == [aid |-> aid, device |-> d, shape |-> shape]

Init == /\ issued = {}
        /\ live = [d \in {} |-> 0]

\* A binding may be shown again, or for the first time under a number that was
\* never shown before.
Admissible(b) == b \in issued \/ \A i \in issued : i.aid # b.aid

Publish(specs, ids) ==
  /\ ids \in [DOMAIN specs -> Nat]
  /\ \A d, e \in DOMAIN specs : ids[d] = ids[e] => d = e
  /\ \A d \in DOMAIN specs : /\ ids[d] >= FirstDeviceAID
                             /\ Admissible(Binding(ids[d], d, specs[d]))
  /\ issued' = issued \cup {Binding(ids[d], d, specs[d]) : d \in DOMAIN specs}
  /\ live' = ids

Stop == /\ live' = [d \in {} |-> 0]
        /\ UNCHANGED issued

Next == \/ \E specs \in Topologies : Publish(specs, live')
        \/ Stop

Spec == Init /\ [][Next]_vars
=============================================================================

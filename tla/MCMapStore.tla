----------------------------- MODULE MCMapStore -----------------------------
(***************************************************************************)
(* Constants for MapStore: a map without units; a tower of three units, of *)
(* the same name and version; a second version with a unit that carries    *)
(* two; a transporter that is not there; and maps without slots and        *)
(* without terrains.                                                       *)
(***************************************************************************)
EXTENDS MapStore, TLC

CONSTANTS c1, c2, c3, r1

\* The uploads cannot be told apart.
Symmetry == Permutations({c1, c2, c3})

AMap(version, carriedBy, hasSlots) ==
  [name |-> "isle", version |-> version, carriedBy |-> carriedBy,
   hasTerrains |-> TRUE, hasSlots |-> hasSlots]

SomeMaps ==
  {AMap("v1", <<>>, TRUE), AMap("v1", <<2, 3, 0>>, TRUE), AMap("v2", <<0, 1, 1>>, TRUE),
   AMap("v1", <<0, 3>>, TRUE), AMap("v1", <<>>, FALSE),
   [AMap("v2", <<0>>, TRUE) EXCEPT !.hasTerrains = FALSE]}
=============================================================================

------------------------------ MODULE MCGeoSeed ------------------------------
(* An instance of GeoSeed for TLC. *)
EXTENDS GeoSeed, TLC

CONSTANTS k1, k2, k3, k4, c1, c2, w1

TwoCities == <<c1, c2>>
OneClass == <<w1>>

(* Two cities of one round overlap, and so do a city and the class. *)
Overlapping == (c1 :> {k1, k2}) @@ (c2 :> {k2, k3, k4}) @@ (w1 :> {k3})
=============================================================================

--------------------------- MODULE MCMeasurementDB ---------------------------
(* Three inserts, two of which have the same key (two measurements whose    *)
(* catalog entry could not be built have the empty key), a queue of two     *)
(* places and two starts of the hub.                                         *)
EXTENDS MeasurementDB, TLC

CONSTANTS i1, i2, i3

MCKey == i1 :> 1 @@ i2 :> 2 @@ i3 :> 1

=============================================================================
